------------------------------ MODULE HeapProofs ------------------------------
(***************************************************************************)
(* The kernel heap's list of segments is intact, merged, counted by        *)
(* heap_used and implements the allocator its callers rely on, for every   *)
(* header and page size and every sequence of calls.                       *)
(***************************************************************************)
EXTENDS Heap, FiniteSetTheorems, WellFoundedInduction, TLAPS

Sound(hp, t) == Typed(hp) /\ Chain(hp, t)

-----------------------------------------------------------------------------
(* What each operation of the list preserves.                               *)

\* split keeps the list a chain with the same limits.
LEMMA SplitSound ==
  ASSUME NEW hp, NEW t \in Nat, Sound(hp, t),
         NEW a \in Segs(hp), NEW n \in Nat \ {0}, hp.size[a] > n + Header,
         NEW b, b = a + Header + n, NEW r, r = Split(hp, a, n)
  PROVE  /\ Sound(r, t)
         /\ b \notin Segs(hp) /\ Segs(r) = Segs(hp) \union {b}
         /\ r.free = hp.free \union {b} /\ r.end = IF hp.end = a THEN b ELSE hp.end
         /\ r.size = [x \in Segs(r) |-> IF x = b THEN hp.size[a] - (n + Header)
                                        ELSE IF x = a THEN n ELSE hp.size[x]]
         /\ r.next = [x \in Segs(r) |-> IF x = b THEN hp.next[a]
                                        ELSE IF x = a THEN b ELSE hp.next[x]]
<1> DEFINE S == Segs(hp) \union {b}
           c == hp.next[a]
           size == [x \in S |-> IF x = b THEN hp.size[a] - (n + Header)
                                ELSE IF x = a THEN n ELSE hp.size[x]]
           next == [x \in S |-> IF x = b THEN c ELSE IF x = a THEN b ELSE hp.next[x]]
           prev == [x \in S |-> IF x = b THEN a ELSE IF x = c THEN b ELSE hp.prev[x]]
           free == hp.free \union {b}
           end  == IF hp.end = a THEN b ELSE hp.end
<1>1. /\ a \in Nat /\ a > 0 /\ Header \in Nat /\ Header > 0 /\ b \in Nat /\ b > a
      /\ hp.end \in Segs(hp) /\ hp.size[a] \in Nat /\ Segs(hp) \subseteq Nat \ {0}
      /\ \A x \in Segs(hp) : hp.size[x] \in Nat /\ hp.next[x] \in Nat /\ hp.prev[x] \in Nat
      /\ hp.free \subseteq Segs(hp)
  BY HeapConstants DEF Sound, Typed, Null
<1>2. b \notin Segs(hp)
  BY <1>1 DEF Sound, Chain, End
<1>3. r = [size |-> size, next |-> next, prev |-> prev, free |-> free, end |-> end]
  BY <1>1 DEF Split
<1>4. r.size = size /\ r.next = next /\ r.prev = prev /\ r.free = free /\ r.end = end
      /\ Segs(r) = S
  BY <1>3 DEF Segs
<1>5. Typed(r)
  <2>1. size \in [S -> Nat] /\ next \in [S -> Nat] /\ prev \in [S -> Nat] BY <1>1
  <2>2. end \in S /\ free \in SUBSET S /\ S \subseteq Nat \ {0} BY <1>1
  <2> HIDE DEF size, next, prev, free, end, S
  <2> QED BY <1>3, <1>4, <2>1, <2>2 DEF Typed, Null
<1>6. Chain(r, t)
  <2>1. \A x \in Segs(hp) : End(r, x) = IF x = a THEN b ELSE End(hp, x)
    BY <1>1, <1>2, <1>4 DEF End
  <2>2. End(r, b) = End(hp, a)
    BY <1>1, <1>2, <1>4 DEF End
  <2>3. r.next[r.end] = Null /\ End(r, r.end) = t
    BY <1>1, <1>2, <1>4, <2>1, <2>2 DEF Sound, Chain
  <2>0. c # HeapBase /\ b < End(hp, a)
    BY <1>1 DEF Sound, Chain, End, HeapBase, Null
  <2>4. HeapBase \in Segs(r) /\ r.prev[HeapBase] = Null
    BY <1>1, <1>2, <1>4, <2>0 DEF Sound, Chain
  <2>5. \A x \in S : x >= HeapBase /\ r.size[x] >= 1
    BY <1>1, <1>2, <1>4 DEF Sound, Chain, HeapBase
  <2>9. \A x \in S : End(r, x) <= t
    BY <1>1, <1>2, <2>1, <2>2 DEF Sound, Chain, End
  <2>6. ASSUME NEW x \in S, x # r.end
        PROVE  r.next[x] = End(r, x) /\ End(r, x) \in S /\ r.prev[End(r, x)] = x
    <3>1. CASE x = a BY <3>1, <1>1, <1>2, <1>4, <2>1
    <3>2. CASE x = b
      <4>1. a # hp.end BY <3>2, <2>6, <1>2, <1>4
      <4>2. c = End(hp, a) /\ c \in Segs(hp) BY <4>1 DEF Sound, Chain
      <4> QED BY <3>2, <4>2, <1>2, <1>4, <2>2
    <3>3. CASE x # a /\ x # b
      <4>1. x \in Segs(hp) /\ x # hp.end BY <3>3, <2>6, <1>4
      <4>2. hp.next[x] = End(hp, x) /\ End(hp, x) \in S /\ hp.prev[End(hp, x)] = x
        BY <4>1 DEF Sound, Chain
      <4>3. End(hp, x) # b BY <4>1, <1>2 DEF Sound, Chain
      <4>4. End(hp, x) # c \/ c = Null
        <5>1. CASE a = hp.end BY <5>1 DEF Sound, Chain
        <5>2. CASE a # hp.end
          <6>1. c = End(hp, a) /\ hp.prev[c] = a BY <5>2 DEF Sound, Chain
          <6> QED BY <6>1, <4>2, <3>3
        <5> QED BY <5>1, <5>2
      <4> QED BY <3>3, <4>1, <4>2, <4>3, <4>4, <1>1, <1>4, <2>1 DEF Null
    <3> QED BY <3>1, <3>2, <3>3
  <2>7. ASSUME NEW x \in S, x # HeapBase
        PROVE  r.prev[x] \in S /\ r.next[r.prev[x]] = x
    <3>1. CASE x = b BY <3>1, <1>1, <1>2, <1>4
    <3>2. CASE x # b /\ x = c
      BY <3>2, <1>1, <1>2, <1>4 DEF Sound, Chain
    <3>3. CASE x # b /\ x # c
      <4>1. hp.prev[x] \in Segs(hp) /\ hp.next[hp.prev[x]] = x /\ hp.prev[x] # a /\ hp.prev[x] # b
        BY <3>3, <2>7, <1>2 DEF Sound, Chain
      <4> QED BY <3>3, <4>1, <1>1, <1>2, <1>4
    <3> QED BY <3>1, <3>2, <3>3
  <2>8. ASSUME NEW x \in S, NEW y \in S, x < y
        PROVE  End(r, x) <= y
    <3>1. CASE x = b
      BY <3>1, <2>8, <1>1, <1>2, <2>2 DEF Sound, Chain
    <3>2. CASE x # b /\ y = b
      <4>1. x \in Segs(hp) /\ x \in Nat BY <3>2, <1>1
      <4>2. x > a => End(hp, a) <= x BY <4>1 DEF Sound, Chain
      <4>3. x < a => End(hp, x) <= a BY <4>1 DEF Sound, Chain
      <4>4. End(hp, x) \in Nat /\ End(hp, a) \in Nat BY <4>1, <1>1 DEF End
      <4>5. x <= a BY <4>1, <4>2, <4>4, <3>2, <2>8, <2>0, <1>1
      <4> QED BY <4>1, <4>3, <4>4, <4>5, <3>2, <1>1, <2>1
    <3>3. CASE x # b /\ y # b
      BY <3>3, <2>8, <1>1, <1>2, <2>1 DEF Sound, Chain, End
    <3> QED BY <3>1, <3>2, <3>3
  <2> HIDE DEF size, next, prev, free, end, S
  <2> QED BY <2>3, <2>4, <2>5, <2>6, <2>7, <2>8, <2>9, <1>4 DEF Chain
<1> QED BY <1>2, <1>4, <1>5, <1>6 DEF Sound

\* Merging a segment with the one after it keeps the list a chain.
LEMMA AbsorbSound ==
  ASSUME NEW hp, NEW t \in Nat, Sound(hp, t),
         NEW a \in Segs(hp), a # hp.end,
         NEW b, b = hp.next[a], NEW r, r = Absorb(hp, a)
  PROVE  /\ Sound(r, t)
         /\ b \in Segs(hp) /\ b > a /\ Segs(r) = Segs(hp) \ {b}
         /\ r.free = hp.free \ {b}
         /\ r.size = [x \in Segs(r) |-> IF x = a THEN hp.size[a] + hp.size[b] + Header
                                        ELSE hp.size[x]]
         /\ r.next = [x \in Segs(r) |-> IF x = a THEN hp.next[b] ELSE hp.next[x]]
         /\ r.prev = [x \in Segs(r) |-> IF x = hp.next[b] THEN a ELSE hp.prev[x]]
<1> DEFINE S == Segs(hp) \ {b}
           c == hp.next[b]
           size == [x \in S |-> IF x = a THEN hp.size[a] + hp.size[b] + Header ELSE hp.size[x]]
           next == [x \in S |-> IF x = a THEN c ELSE hp.next[x]]
           prev == [x \in S |-> IF x = c THEN a ELSE hp.prev[x]]
           free == hp.free \ {b}
           end  == IF hp.end = b THEN a ELSE hp.end
<1>1. /\ a \in Nat /\ a > 0 /\ Header \in Nat /\ Header > 0
      /\ hp.end \in Segs(hp) /\ Segs(hp) \subseteq Nat \ {0}
      /\ \A x \in Segs(hp) : hp.size[x] \in Nat /\ hp.next[x] \in Nat /\ hp.prev[x] \in Nat
      /\ hp.free \subseteq Segs(hp)
  BY HeapConstants DEF Sound, Typed, Null
<1>2. b = End(hp, a) /\ b \in Segs(hp) /\ b > a /\ hp.prev[b] = a /\ b # HeapBase
  BY <1>1 DEF Sound, Chain, End, HeapBase
<1>3. r = [size |-> size, next |-> next, prev |-> prev, free |-> free, end |-> end]
  BY DEF Absorb
<1>4. r.size = size /\ r.next = next /\ r.prev = prev /\ r.free = free /\ r.end = end
      /\ Segs(r) = S
  BY <1>3 DEF Segs
<1>5. Typed(r)
  <2>1. size \in [S -> Nat] /\ next \in [S -> Nat] /\ prev \in [S -> Nat] BY <1>1, <1>2
  <2>2. end \in S /\ free \in SUBSET S /\ S \subseteq Nat \ {0} BY <1>1, <1>2
  <2> HIDE DEF size, next, prev, free, end, S
  <2> QED BY <1>3, <1>4, <2>1, <2>2 DEF Typed, Null
<1>6. Chain(r, t)
  <2>1. \A x \in S : End(r, x) = IF x = a THEN End(hp, b) ELSE End(hp, x)
    BY <1>1, <1>2, <1>4 DEF End
  <2>2. c # b /\ c # a
    BY <1>1, <1>2 DEF Sound, Chain, End, Null
  <2>3. r.next[r.end] = Null /\ End(r, r.end) = t
    BY <1>1, <1>2, <1>4, <2>1 DEF Sound, Chain
  <2>4. HeapBase \in Segs(r) /\ r.prev[HeapBase] = Null
    BY <1>1, <1>2, <1>4 DEF Sound, Chain, HeapBase, End, Null
  <2>5. \A x \in S : x >= HeapBase /\ r.size[x] >= 1
    BY <1>1, <1>2, <1>4 DEF Sound, Chain, HeapBase
  <2>9. \A x \in S : End(r, x) <= t
    BY <1>1, <1>2, <2>1, <2>2 DEF Sound, Chain, End
  <2>6. ASSUME NEW x \in S, x # r.end
        PROVE  r.next[x] = End(r, x) /\ End(r, x) \in S /\ r.prev[End(r, x)] = x
    <3>1. CASE x = a
      <4>1. b # hp.end BY <3>1, <2>6, <1>4
      <4>2. c = End(hp, b) /\ c \in S BY <4>1, <1>1, <1>2, <2>2 DEF Sound, Chain
      <4> QED BY <3>1, <4>2, <1>1, <1>2, <1>4, <2>1
    <3>2. CASE x # a
      <4>1. x # hp.end /\ x \in Segs(hp) BY <3>2, <2>6, <1>4, <1>2
      <4>2. End(hp, x) # b /\ End(hp, x) \in S /\ hp.next[x] = End(hp, x) /\ hp.prev[End(hp, x)] = x
        BY <4>1, <3>2, <1>1, <1>2 DEF Sound, Chain
      <4>3. End(hp, x) # c \/ c = Null
        <5>1. CASE b = hp.end BY <5>1 DEF Sound, Chain
        <5>2. CASE b # hp.end
          <6>1. c = End(hp, b) /\ hp.prev[c] = b BY <5>2, <1>2 DEF Sound, Chain
          <6> QED BY <6>1, <4>2
        <5> QED BY <5>1, <5>2
      <4> QED BY <3>2, <4>1, <4>2, <4>3, <1>1, <1>4, <2>1 DEF Null
    <3> QED BY <3>1, <3>2
  <2>7. ASSUME NEW x \in S, x # HeapBase
        PROVE  r.prev[x] \in S /\ r.next[r.prev[x]] = x
    <3>1. CASE x = c
      BY <3>1, <1>1, <1>2, <1>4
    <3>2. CASE x # c
      <4>1. hp.prev[x] \in Segs(hp) /\ hp.next[hp.prev[x]] = x /\ hp.prev[x] # a /\ hp.prev[x] # b
        BY <3>2, <2>7, <1>2 DEF Sound, Chain
      <4> QED BY <3>2, <4>1, <1>1, <1>2, <1>4
    <3> QED BY <3>1, <3>2
  <2>8. ASSUME NEW x \in S, NEW y \in S, x < y
        PROVE  End(r, x) <= y
    <3>1. CASE x = a
      <4>1. y > b BY <3>1, <2>8, <1>1, <1>2 DEF Sound, Chain
      <4> QED BY <4>1, <3>1, <1>1, <1>2, <2>1 DEF Sound, Chain
    <3>2. CASE x # a
      BY <3>2, <2>8, <1>1, <1>2, <2>1 DEF Sound, Chain
    <3> QED BY <3>1, <3>2
  <2> HIDE DEF size, next, prev, free, end, S
  <2> QED BY <2>3, <2>4, <2>5, <2>6, <2>7, <2>8, <2>9, <1>4 DEF Chain
<1> QED BY <1>2, <1>4, <1>5, <1>6 DEF Sound

\* Mapping new pages behind the last segment.
LEMMA WidenSound ==
  ASSUME NEW hp, NEW t \in Nat, Sound(hp, t), NEW u \in Nat,
         NEW r, r = Widen(hp, u)
  PROVE  /\ Sound(r, t + u)
         /\ Segs(r) = Segs(hp) /\ r.free = hp.free /\ r.next = hp.next /\ r.end = hp.end
         /\ r.size = [x \in Segs(hp) |-> IF x = hp.end THEN hp.size[x] + u ELSE hp.size[x]]
<1> DEFINE e == hp.end
<1>1. /\ e \in Segs(hp) /\ Segs(hp) \subseteq Nat \ {0} /\ Header \in Nat /\ Header > 0
      /\ hp.size \in [Segs(hp) -> Nat]
      /\ hp.next \in [Segs(hp) -> Nat] /\ hp.prev \in [Segs(hp) -> Nat]
      /\ hp.free \in SUBSET Segs(hp)
  BY HeapConstants DEF Sound, Typed, Null
<1>2. /\ r.size = [hp.size EXCEPT ![e] = hp.size[e] + u]
      /\ r.next = hp.next /\ r.prev = hp.prev /\ r.free = hp.free /\ r.end = e
      /\ r = [size |-> r.size, next |-> r.next, prev |-> r.prev, free |-> r.free, end |-> r.end]
  <2> DEFINE z == [hp.size EXCEPT ![e] = hp.size[e] + u]
  <2>1. r = [hp EXCEPT !.size = z] BY DEF Widen
  <2> HIDE DEF z
  <2>2. /\ r.size = z
        /\ r.next = hp.next /\ r.prev = hp.prev /\ r.free = hp.free /\ r.end = e
        /\ r = [size |-> r.size, next |-> r.next, prev |-> r.prev, free |-> r.free, end |-> r.end]
    BY <2>1 DEF Sound, Typed
  <2> QED BY <2>2 DEF z
<1>3. Segs(r) = Segs(hp) /\ r.size \in [Segs(hp) -> Nat]
  BY <1>1, <1>2 DEF Segs
<1>4. Typed(r)
  BY <1>1, <1>2, <1>3 DEF Typed, Null
<1>5. \A x \in Segs(hp) : /\ r.size[x] = IF x = e THEN hp.size[x] + u ELSE hp.size[x]
                          /\ End(r, x) = IF x = e THEN t + u ELSE End(hp, x)
  BY <1>1, <1>2 DEF End, Sound, Chain
<1>6. \A x \in Segs(hp) : x <= e
  <2> SUFFICES ASSUME NEW x \in Segs(hp), x > e PROVE FALSE
    BY <1>1
  <2>1. End(hp, e) = t /\ t <= x /\ End(hp, x) > x /\ End(hp, x) <= t BY <1>1 DEF Sound, Chain, End
  <2> QED BY <2>1, <1>1 DEF End
<1>7. Chain(r, t + u)
  BY <1>1, <1>2, <1>3, <1>5, <1>6 DEF Sound, Chain
<1>8. r.size = [x \in Segs(hp) |-> IF x = e THEN hp.size[x] + u ELSE hp.size[x]]
  BY <1>1, <1>2
<1> QED BY <1>2, <1>3, <1>4, <1>7, <1>8 DEF Sound

\* Two lists with the same segments in use, at the same sizes.
Same(hp, r) == InUse(r) = InUse(hp) /\ \A x \in InUse(hp) : r.size[x] = hp.size[x]

\* ExpandHeap leaves the segments in use alone and the list merged; the new
\* memory is in the last segment, which is then free.
LEMMA GrowSound ==
  ASSUME NEW hp, NEW t \in Nat, Sound(hp, t), Joined(hp),
         NEW u \in Nat, u = 0 \/ u > Header, NEW r, r = Grow(hp, u)
  PROVE  /\ Sound(r, t + u) /\ Joined(r) /\ Same(hp, r)
         /\ u > Header => r.end \in r.free /\ r.size[r.end] >= u - Header
<1> DEFINE w == Widen(hp, u)
           e == hp.end
<1>1. /\ e \in Segs(hp) /\ hp.size[e] \in Nat /\ hp.size[e] >= 1 /\ hp.next[e] = Null
      /\ Header \in Nat /\ Header > 0 /\ hp.free \subseteq Segs(hp) /\ Segs(hp) \subseteq Nat \ {0}
  BY HeapConstants DEF Sound, Typed, Chain, Null
<1>2. /\ Sound(w, t + u)
      /\ Segs(w) = Segs(hp) /\ w.free = hp.free /\ w.next = hp.next /\ w.end = e
      /\ w.size = [x \in Segs(hp) |-> IF x = e THEN hp.size[x] + u ELSE hp.size[x]]
  BY WidenSound
<1> HIDE DEF w
<1>3. CASE e \in hp.free
  <2>1. r = w BY <1>3 DEF Grow, w
  <2> QED BY <2>1, <1>1, <1>2, <1>3 DEF Joined, Same, InUse
<1>4. CASE e \notin hp.free /\ u = 0
  <2>1. r = w BY <1>4, <1>1, <1>2 DEF Grow, Split, w
  <2> QED BY <2>1, <1>1, <1>2, <1>4 DEF Joined, Same, InUse
<1>5. CASE e \notin hp.free /\ u > Header
  <2> DEFINE n == hp.size[e]
             b == e + Header + n
  <2>1. r = Split(w, e, n) BY <1>5 DEF Grow, w
  <2>2. w.size[e] > n + Header /\ t + u \in Nat /\ n \in Nat \ {0} /\ e \in Segs(w)
    BY <1>1, <1>2, <1>5
  <2> HIDE DEF n, e
  <2>3. /\ Sound(r, t + u)
        /\ b \notin Segs(hp) /\ Segs(r) = Segs(hp) \union {b}
        /\ r.free = hp.free \union {b} /\ r.end = b
        /\ r.size = [x \in Segs(r) |-> IF x = b THEN w.size[e] - (n + Header)
                                       ELSE IF x = e THEN n ELSE w.size[x]]
        /\ r.next = [x \in Segs(r) |-> IF x = b THEN w.next[e]
                                       ELSE IF x = e THEN b ELSE w.next[x]]
    BY <1>2, <2>1, <2>2, SplitSound
  <2> USE DEF n, e
  <2>5. r.size[b] = u - Header
    BY <2>3, <1>1, <1>2
  <2>6. Same(hp, r)
    BY <2>3, <1>1, <1>2 DEF Same, InUse
  <2>7. Joined(r)
    <3> SUFFICES ASSUME NEW x \in r.free PROVE r.next[x] \notin r.free
      BY DEF Joined
    <3>1. CASE x = b
      BY <3>1, <2>3, <1>1, <1>2 DEF Null
    <3>2. CASE x # b
      <4>1. x \in hp.free /\ x # e /\ r.next[x] = hp.next[x] BY <3>2, <2>3, <1>1, <1>2, <1>5
      <4>2. hp.next[x] \in Segs(hp) BY <4>1, <1>1 DEF Sound, Chain
      <4> QED BY <4>1, <4>2, <2>3 DEF Joined
    <3> QED BY <3>1, <3>2
  <2> QED BY <2>3, <2>5, <2>6, <2>7, <1>1
<1> QED BY <1>3, <1>4, <1>5

\* malloc's split of the segment it takes.
LEMMA TakeSound ==
  ASSUME NEW hp, NEW t \in Nat, Sound(hp, t), Joined(hp), NEW n \in Nat \ {0},
         NEW a \in hp.free, hp.size[a] >= n,
         NEW r, r = SetUsed(Split(hp, a, n), a)
  PROVE  /\ Sound(r, t) /\ Joined(r)
         /\ InUse(r) = InUse(hp) \union {a} /\ r.size[a] >= n
         /\ \A x \in InUse(hp) : r.size[x] = hp.size[x]
<1> DEFINE p == Split(hp, a, n)
           b == a + Header + n
<1>1. /\ a \in Segs(hp) /\ hp.size[a] \in Nat /\ Header \in Nat /\ Header > 0
      /\ hp.free \subseteq Segs(hp) /\ a \in Nat /\ b # a
  BY HeapConstants DEF Sound, Typed, Null
<1>2. /\ Sound(p, t) /\ p.size[a] >= n
      /\ \A x \in InUse(hp) : p.size[x] = hp.size[x]
      /\ InUse(p) = InUse(hp)
      /\ \A x \in p.free \ {a} : p.next[x] \notin p.free \ {a}
  <2>1. CASE hp.size[a] <= n + Header
    <3>1. p = hp BY <2>1 DEF Split
    <3> QED BY <3>1 DEF Joined
  <2>2. CASE hp.size[a] > n + Header
    <3>1. /\ Sound(p, t)
          /\ b \notin Segs(hp) /\ Segs(p) = Segs(hp) \union {b}
          /\ p.free = hp.free \union {b}
          /\ p.size = [x \in Segs(p) |-> IF x = b THEN hp.size[a] - (n + Header)
                                         ELSE IF x = a THEN n ELSE hp.size[x]]
          /\ p.next = [x \in Segs(p) |-> IF x = b THEN hp.next[a]
                                         ELSE IF x = a THEN b ELSE hp.next[x]]
      BY <2>2, <1>1, SplitSound
    <3> HIDE DEF p
    <3>2. p.size[a] >= n /\ InUse(p) = InUse(hp) /\ \A x \in InUse(hp) : p.size[x] = hp.size[x]
      BY <3>1, <1>1 DEF InUse
    <3>3. ASSUME NEW x \in p.free \ {a} PROVE p.next[x] \notin p.free \ {a}
      <4>1. CASE x = b
        <5>1. hp.next[a] \in Segs(hp) \/ hp.next[a] = Null BY <1>1 DEF Sound, Chain
        <5>2. b # Null BY <1>1 DEF Null
        <5> QED BY <4>1, <5>1, <5>2, <3>1, <1>1 DEF Joined
      <4>2. CASE x # b
        <5>1. x \in hp.free /\ p.next[x] = hp.next[x] BY <4>2, <3>3, <3>1, <1>1
        <5>2. hp.next[x] \in Segs(hp) \/ hp.next[x] = Null BY <5>1, <1>1 DEF Sound, Chain
        <5>3. b # Null BY <1>1 DEF Null
        <5> QED BY <5>1, <5>2, <5>3, <3>1 DEF Joined
      <4> QED BY <4>1, <4>2
    <3> QED BY <3>1, <3>2, <3>3
  <2> QED BY <2>1, <2>2, <1>1
<1>3. a \in Segs(p)
  BY <1>1 DEF Split, Segs
<1> HIDE DEF p
<1>4. /\ r.size = p.size /\ r.next = p.next /\ r.prev = p.prev /\ r.end = p.end
      /\ r.free = p.free \ {a} /\ Segs(r) = Segs(p)
      /\ r = [size |-> r.size, next |-> r.next, prev |-> r.prev, free |-> r.free, end |-> r.end]
  BY <1>2 DEF SetUsed, Sound, Typed, Segs, p
<1>5. Sound(r, t)
  <2>1. Typed(r) BY <1>2, <1>4 DEF Sound, Typed
  <2>2. Chain(r, t) BY <1>2, <1>4 DEF Sound, Chain, End
  <2> QED BY <2>1, <2>2 DEF Sound
<1>6. InUse(r) = InUse(hp) \union {a}
  BY <1>2, <1>3, <1>4 DEF InUse
<1> QED BY <1>2, <1>4, <1>5, <1>6 DEF Joined

\* free: the list stays a chain, is merged again and has lost exactly a.
LEMMA ReleaseSound ==
  ASSUME NEW hp, NEW t \in Nat, Sound(hp, t), Joined(hp), NEW a \in InUse(hp),
         NEW r, r = Release(hp, a)
  PROVE  /\ Sound(r, t) /\ Joined(r)
         /\ InUse(r) = InUse(hp) \ {a}
         /\ \A x \in InUse(r) : r.size[x] = hp.size[x]
<1> DEFINE q == SetFree(hp, a)
           p == MergeNext(q, a)
           d == p.prev[a]
<1>1. a \in Segs(hp) /\ a \notin hp.free /\ a \in Nat /\ a # Null /\ hp.free \subseteq Segs(hp)
  BY DEF Sound, Typed, Null, InUse
<1>2. /\ q.size = hp.size /\ q.next = hp.next /\ q.prev = hp.prev /\ q.end = hp.end
      /\ q.free = hp.free \union {a} /\ Segs(q) = Segs(hp)
      /\ q = [size |-> q.size, next |-> q.next, prev |-> q.prev, free |-> q.free, end |-> q.end]
  BY DEF SetFree, Sound, Typed, Segs
<1> HIDE DEF q
<1>3. Sound(q, t)
  <2>1. Typed(q) BY <1>1, <1>2 DEF Sound, Typed
  <2>2. Chain(q, t) BY <1>2 DEF Sound, Chain, End
  <2> QED BY <2>1, <2>2 DEF Sound
<1>4. \A x \in q.free : q.next[x] \in q.free => x = a \/ q.next[x] = a
  BY <1>2 DEF Joined
<1>5. /\ Sound(p, t) /\ a \in p.free /\ p.free \subseteq q.free
      /\ \A x \in p.free : p.next[x] \in p.free => p.next[x] = a
      /\ InUse(p) = InUse(q) /\ \A x \in InUse(p) : p.size[x] = q.size[x]
  <2>1. CASE ~(q.next[a] # Null /\ q.next[a] \in q.free)
    <3>1. p = q BY <2>1 DEF MergeNext
    <3>2. q.next[a] \notin q.free BY <2>1, <1>1, <1>2 DEF Sound, Typed, Null
    <3> HIDE DEF p
    <3> QED BY <3>1, <3>2, <1>2, <1>3, <1>4
  <2>2. CASE q.next[a] # Null /\ q.next[a] \in q.free
    <3> DEFINE b == q.next[a]
    <3>1. p = Absorb(q, a) BY <2>2 DEF MergeNext
    <3> HIDE DEF p
    <3>2. a # q.end /\ a \in Segs(q) BY <2>2, <1>1, <1>2, <1>3 DEF Sound, Chain
    <3>0. b = q.next[a] OBVIOUS
    <3> HIDE DEF b
    <3>3. /\ Sound(p, t)
          /\ b \in Segs(q) /\ b > a /\ Segs(p) = Segs(q) \ {b}
          /\ p.free = q.free \ {b}
          /\ p.size = [x \in Segs(p) |-> IF x = a THEN q.size[a] + q.size[b] + Header
                                         ELSE q.size[x]]
          /\ p.next = [x \in Segs(p) |-> IF x = a THEN q.next[b] ELSE q.next[x]]
          /\ p.prev = [x \in Segs(p) |-> IF x = q.next[b] THEN a ELSE q.prev[x]]
      BY <3>0, <3>1, <3>2, <1>3, AbsorbSound
    <3>4. b # a BY <3>3, <1>1
    <3>5. a \in p.free /\ p.free \subseteq q.free BY <3>3, <3>4, <1>2
    <3>6. InUse(p) = InUse(q) /\ \A x \in InUse(p) : p.size[x] = q.size[x]
      <4>1. b \in q.free BY <2>2 DEF b
      <4>2. InUse(p) = InUse(q) BY <4>1, <3>3 DEF InUse
      <4>3. a \notin InUse(p) BY <3>5 DEF InUse
      <4> QED BY <4>2, <4>3, <3>3 DEF InUse
    <3>7. ASSUME NEW x \in p.free, p.next[x] \in p.free PROVE p.next[x] = a
      <4>0. p.free \subseteq Segs(p) /\ b \in q.free BY <3>3, <2>2 DEF Sound, Typed, b
      <4>1. CASE x = a
        <5>1. p.next[a] = q.next[b] BY <4>1, <4>0, <3>3
        <5> QED BY <4>1, <5>1, <4>0, <3>4, <3>5, <3>7, <1>4
      <4>2. CASE x # a
        <5>1. p.next[x] = q.next[x] /\ x \in q.free BY <4>2, <4>0, <3>3
        <5> QED BY <4>2, <5>1, <3>5, <3>7, <1>4
      <4> QED BY <4>1, <4>2
    <3> QED BY <3>3, <3>5, <3>6, <3>7
  <2> QED BY <2>1, <2>2
<1>6. r = MergePrev(p, a)
  BY DEF Release, q
<1> HIDE DEF p
<1>7. InUse(q) = InUse(hp) \ {a}
  BY <1>2 DEF InUse
<1>8. p.free \subseteq Segs(p) /\ a \in Segs(p) /\ p.end \in Segs(p) /\ p.prev[a] \in Nat
  BY <1>5 DEF Sound, Typed
<1>9. CASE ~(d # Null /\ d \in p.free)
  <2>1. r = p BY <1>9, <1>6 DEF MergePrev
  <2>2. ASSUME NEW x \in p.free, p.next[x] \in p.free PROVE FALSE
    <3>1. p.next[x] = a /\ x \in Segs(p) BY <2>2, <1>5, <1>8
    <3>2. x # p.end BY <3>1, <1>1, <1>5 DEF Sound, Chain
    <3>3. p.prev[a] = x BY <3>1, <3>2, <1>5 DEF Sound, Chain
    <3>4. x # Null BY <3>1, <1>5 DEF Sound, Typed
    <3> QED BY <3>3, <3>4, <1>9, <2>2
  <2> HIDE DEF d
  <2> QED BY <2>1, <2>2, <1>2, <1>5, <1>7 DEF Joined
<1>10. CASE d # Null /\ d \in p.free
  <2>1. r = Absorb(p, d) BY <1>10, <1>6 DEF MergePrev
  <2>2. a # HeapBase BY <1>10, <1>5, <1>8 DEF Sound, Chain
  <2>3. d \in Segs(p) /\ p.next[d] = a BY <2>2, <1>5, <1>8 DEF Sound, Chain
  <2>4. d # p.end BY <2>3, <1>1, <1>5 DEF Sound, Chain
  <2> HIDE DEF d
  <2>5. /\ Sound(r, t)
        /\ a > d /\ Segs(r) = Segs(p) \ {a}
        /\ r.free = p.free \ {a}
        /\ r.size = [x \in Segs(r) |-> IF x = d THEN p.size[d] + p.size[a] + Header
                                       ELSE p.size[x]]
        /\ r.next = [x \in Segs(r) |-> IF x = d THEN p.next[a] ELSE p.next[x]]
        /\ r.prev = [x \in Segs(r) |-> IF x = p.next[a] THEN d ELSE p.prev[x]]
    BY <2>1, <2>3, <2>4, <1>5, AbsorbSound
  <2>6. d # a /\ r.free \subseteq Segs(r) BY <2>5, <1>1, <1>8
  <2>7. InUse(r) = InUse(p) /\ \A x \in InUse(r) : r.size[x] = p.size[x]
    <3>1. InUse(r) = InUse(p) BY <2>5, <1>5 DEF InUse
    <3>2. d \notin InUse(r) BY <2>5, <2>6, <1>10 DEF InUse
    <3> QED BY <3>1, <3>2, <2>5 DEF InUse
  <2>8. Joined(r)
    <3> SUFFICES ASSUME NEW x \in r.free, r.next[x] \in r.free PROVE FALSE
      BY DEF Joined
    <3>1. r.next[x] = IF x = d THEN p.next[a] ELSE p.next[x] BY <2>5, <2>6
    <3> QED BY <3>1, <2>5, <1>5
  <2> QED BY <2>5, <2>7, <2>8, <1>2, <1>5, <1>7
<1> QED BY <1>9, <1>10

-----------------------------------------------------------------------------
(* The inductive invariant, and its consequences.                           *)

HeapInv ==
  /\ top \in Nat /\ pages \in Nat
  /\ Sound(heap, top) /\ Joined(heap)
  /\ ~failed

\* The page count of ExpandHeap(2 * n) covers 2 * n.
LEMMA WantedCovers ==
  ASSUME NEW n \in Nat \ {0}
  PROVE  Wanted(n) \in Nat \ {0} /\ Wanted(n) * PageUnits >= 2 * n
<1> DEFINE m == 2 * n + PageUnits - 1
<1>1. m \in Nat /\ PageUnits \in Nat /\ PageUnits > 0 /\ m >= PageUnits
  BY HeapConstants
<1>2. m \div PageUnits \in Int /\ m % PageUnits \in 0 .. (PageUnits - 1)
      /\ m = PageUnits * (m \div PageUnits) + (m % PageUnits)
  BY <1>1
<1> QED BY <1>1, <1>2, HeapConstants DEF Wanted

\* What ExpandHeap maps is enough for n units and a header.
LEMMA WantedIs ==
  ASSUME HeapInv, NEW n \in Nat \ {0}, Wanted(n) <= pages,
         NEW g, g = Wanted(n), NEW u, u = g * PageUnits
  PROVE  /\ g \in Nat /\ pages - g \in Nat
         /\ u \in Nat /\ u > Header /\ u - Header >= n
<1>1. g \in Nat /\ g >= 1 /\ g <= pages /\ pages \in Nat /\ u >= 2 * n
  BY WantedCovers DEF HeapInv
<1>2. /\ PageUnits \in Nat /\ Header \in Nat /\ Header > 0 /\ PageUnits > 2 * Header
  BY HeapConstants
<1>3. u >= PageUnits /\ u \in Nat BY <1>1, <1>2
<1> QED BY <1>1, <1>2, <1>3

\* malloc's segment is one that fits.
LEMMA FirstFitFits ==
  ASSUME NEW hp, NEW t, Sound(hp, t), NEW n, Fits(hp, n) # {}
  PROVE  FirstFit(hp, n) \in Fits(hp, n)
<1>1. Fits(hp, n) \in SUBSET Nat
  BY DEF Fits, Sound, Typed
<1>2. \E m \in Fits(hp, n) : \A k \in Fits(hp, n) : m <= k
  <2> DEFINE R == {ss \in Nat \X Nat : ss[1] < ss[2]}
  <2>1. IsWellFoundedOn(R, Nat) BY NatLessThanWellFounded DEF OpToRel
  <2> HIDE DEF R
  <2>2. PICK m \in Fits(hp, n) : \A k \in Fits(hp, n) : ~(<<k, m>> \in R)
    BY <2>1, <1>1, WFMin
  <2>3. ASSUME NEW k \in Nat, NEW l \in Nat, k < l PROVE <<k, l>> \in R BY <2>3 DEF R
  <2>4. \A k \in Fits(hp, n) : ~(k < m) BY <2>2, <2>3, <1>1
  <2> QED BY <2>4, <1>1
<1> QED BY <1>2 DEF FirstFit, Min

\* malloc adds one segment of at least n units to those in use.
LEMMA TakeStep ==
  ASSUME NEW hp, NEW t \in Nat, Sound(hp, t), Joined(hp), NEW n \in Nat \ {0},
         Fits(hp, n) # {}, Take(hp, n)
  PROVE  /\ Sound(heap', t) /\ Joined(heap') /\ failed' = failed
         /\ \E a \in Segs(heap') : a \notin InUse(hp) /\ InUse(heap') = InUse(hp) \union {a}
                                 /\ heap'.size[a] >= n
         /\ \A x \in InUse(hp) : heap'.size[x] = hp.size[x]
<1> DEFINE a == FirstFit(hp, n)
<1>1. a \in hp.free /\ hp.size[a] >= n
  BY FirstFitFits DEF Fits
<1>2. heap' = SetUsed(Split(hp, a, n), a) /\ failed' = failed
  BY DEF Take
<1> HIDE DEF a
<1>3. /\ Sound(heap', t) /\ Joined(heap')
      /\ InUse(heap') = InUse(hp) \union {a} /\ heap'.size[a] >= n
      /\ \A x \in InUse(hp) : heap'.size[x] = hp.size[x]
  BY <1>1, <1>2, TakeSound
<1>4. a \in Segs(heap') /\ a \notin InUse(hp)
  BY <1>1, <1>3 DEF InUse
<1> QED BY <1>2, <1>3, <1>4

\* malloc after ExpandHeap: its second search finds a segment.
LEMMA GrowStep ==
  ASSUME HeapInv, NEW n \in 1 .. MaxRequest, MallocGrows(n)
  PROVE  /\ HeapInv'
         /\ \/ Same(heap, heap')
            \/ /\ \E a \in Segs(heap') : a \notin InUse(heap) /\ InUse(heap') = InUse(heap) \union {a}
                                       /\ heap'.size[a] >= n
               /\ \A x \in InUse(heap) : heap'.size[x] = heap.size[x]
<1> DEFINE g == Wanted(n)
           u == g * PageUnits
           hp == Grow(heap, u)
<1>0. n \in Nat \ {0} BY HeapConstants
<1>1. g \in Nat /\ pages - g \in Nat /\ u \in Nat /\ u > Header /\ u - Header >= n
  BY <1>0, WantedIs DEF MallocGrows
<1>2. /\ top' = top + u /\ pages' = pages - g
      /\ Fits(hp, n) # {} => Take(hp, n)
  BY DEF MallocGrows
<1> HIDE DEF g, u
<1>3. /\ Sound(hp, top + u) /\ Joined(hp) /\ Same(heap, hp)
      /\ hp.end \in hp.free /\ hp.size[hp.end] >= u - Header
  BY <1>1, GrowSound DEF HeapInv
<1> HIDE DEF hp
<1>4. top + u \in Nat BY <1>1 DEF HeapInv
<1>5. Fits(hp, n) # {}
  <2>1. hp.end \in hp.free /\ hp.size[hp.end] \in Nat
    BY <1>3 DEF Sound, Typed
  <2>2. hp.size[hp.end] >= n BY <2>1, <1>3, <1>0, <1>1, HeapConstants
  <2> QED BY <2>1, <2>2 DEF Fits
<1>6. Take(hp, n) BY <1>2, <1>5
<1>7. /\ Sound(heap', top + u) /\ Joined(heap') /\ failed' = failed
      /\ \E a \in Segs(heap') : a \notin InUse(hp) /\ InUse(heap') = InUse(hp) \union {a}
                               /\ heap'.size[a] >= n
      /\ \A x \in InUse(hp) : heap'.size[x] = hp.size[x]
  BY <1>0, <1>3, <1>4, <1>5, <1>6, TakeStep
<1>8. HeapInv' BY <1>7, <1>1, <1>2, <1>4 DEF HeapInv
<1> QED BY <1>7, <1>8, <1>3 DEF Same

LEMMA HeapInitInv == Init => HeapInv
<1> SUFFICES ASSUME Init PROVE HeapInv OBVIOUS
<1> DEFINE z == InitPages * PageUnits
<1>1. z \in Nat /\ z > Header /\ Header \in Nat
  <2>1. InitPages >= 1 /\ InitPages \in Nat /\ PageUnits \in Nat BY HeapConstants
  <2>2. z >= PageUnits /\ z \in Nat BY <2>1
  <2> QED BY <2>2, HeapConstants
<1>2. /\ heap = [size |-> [a \in {HeapBase} |-> z - Header],
                 next |-> [a \in {HeapBase} |-> Null],
                 prev |-> [a \in {HeapBase} |-> Null],
                 free |-> {HeapBase}, end |-> HeapBase]
      /\ top = HeapBase + z /\ pages = SparePages /\ failed = FALSE
  BY DEF Init
<1> HIDE DEF z
<1>3. Segs(heap) = {HeapBase} BY <1>2 DEF Segs
<1>4. Typed(heap)
  <2>1. /\ heap.size \in [{HeapBase} -> Nat] /\ heap.next \in [{HeapBase} -> Nat]
        /\ heap.prev \in [{HeapBase} -> Nat] /\ heap.free = {HeapBase} /\ heap.end = HeapBase
    BY <1>1, <1>2 DEF Null
  <2>2. heap = [size |-> heap.size, next |-> heap.next, prev |-> heap.prev,
                free |-> heap.free, end |-> heap.end]
    BY <1>2
  <2> QED BY <2>1, <2>2, <1>3 DEF Typed, HeapBase, Null
<1>5. Chain(heap, top) BY <1>1, <1>2, <1>3 DEF Chain, End, HeapBase, Null
<1>6. Joined(heap) BY <1>2 DEF Joined, HeapBase, Null
<1> QED BY <1>1, <1>2, <1>4, <1>5, <1>6, HeapConstants DEF HeapInv, Sound, HeapBase

LEMMA HeapStepInv == HeapInv /\ [Next]_vars => HeapInv'
<1> SUFFICES ASSUME HeapInv, [Next]_vars PROVE HeapInv' OBVIOUS
<1>1. ASSUME NEW n \in 1 .. MaxRequest, MallocFits(n) PROVE HeapInv'
  <2>1. n \in Nat \ {0} BY HeapConstants
  <2>2. Sound(heap', top) /\ Joined(heap') /\ failed' = failed
    BY <2>1, <1>1, TakeStep DEF MallocFits, HeapInv
  <2> QED BY <2>2, <1>1 DEF MallocFits, HeapInv
<1>2. ASSUME NEW n \in 1 .. MaxRequest, MallocGrows(n) PROVE HeapInv'
  BY <1>2, GrowStep
<1>3. ASSUME NEW a \in Segs(heap), Free(a) PROVE HeapInv'
  <2>1. Sound(heap', top) /\ Joined(heap')
    BY <1>3, ReleaseSound DEF Free, HeapInv, InUse
  <2> QED BY <2>1, <1>3 DEF Free, HeapInv
<1>4. CASE UNCHANGED vars
  <2>1. heap' = heap /\ top' = top /\ pages' = pages /\ failed' = failed BY <1>4 DEF vars
  <2> QED BY <2>1 DEF HeapInv
<1> QED BY <1>1, <1>2, <1>3, <1>4 DEF Next

\* Every sequence of malloc and free keeps the list a gapless chain that is
\* mirrored by its back pointers and ends at the heap's top.
THEOREM HeapIntact == Spec => []Tiled
<1>1. HeapInv => Tiled
  BY DEF HeapInv, Sound, Tiled
<1> QED BY <1>1, HeapInitInv, HeapStepInv, PTL DEF Spec

\* No order of malloc and free, with the splits and expansions in between,
\* leaves two adjacent free segments.
THEOREM HeapCoalesced == Spec => []Coalesced
<1>1. HeapInv => Coalesced
  BY DEF HeapInv, Coalesced
<1> QED BY <1>1, HeapInitInv, HeapStepInv, PTL DEF Spec

\* malloc never returns nullptr: what ExpandHeap adds is always enough for
\* the request that called it.
THEOREM HeapMallocSucceeds == Spec => []MallocSucceeds
<1>1. HeapInv => MallocSucceeds
  BY DEF HeapInv, MallocSucceeds
<1> QED BY <1>1, HeapInitInv, HeapStepInv, PTL DEF Spec

-----------------------------------------------------------------------------
(* heap_used.                                                               *)

\* A segment more in use is as many units more as it has.
LEMMA UnitsTaken ==
  ASSUME NEW hp, IsFiniteSet(UnitsInUse(hp)), NEW r, NEW a, a \notin InUse(hp),
         InUse(r) = InUse(hp) \union {a}, r.size[a] \in Nat,
         \A x \in InUse(hp) : r.size[x] = hp.size[x]
  PROVE  /\ IsFiniteSet(UnitsInUse(r))
         /\ Cardinality(UnitsInUse(r)) = Cardinality(UnitsInUse(hp)) + r.size[a]
<1>1. PICK s \in Nat : s = r.size[a]
  OBVIOUS
<1>2. PICK Q : Q = {a} \X (1 .. s)
  OBVIOUS
<1>3. IsFiniteSet(Q) /\ Cardinality(Q) = s
  <2>1. IsFiniteSet({a}) /\ Cardinality({a}) = 1
    BY FS_Singleton
  <2>2. IsFiniteSet(1 .. s) /\ Cardinality(1 .. s) = s
    BY FS_Interval
  <2>3. PICK A, B : A = {a} /\ B = 1 .. s
    OBVIOUS
  <2>4. IsFiniteSet(A \X B) /\ Cardinality(A \X B) = Cardinality(A) * Cardinality(B)
    BY <2>1, <2>2, <2>3, FS_Product
  <2> QED BY <1>2, <2>1, <2>2, <2>3, <2>4
<1>4. UnitsInUse(r) = UnitsInUse(hp) \union Q
  BY <1>1, <1>2 DEF UnitsInUse
<1>5. UnitsInUse(hp) \intersect Q = {}
  BY <1>2 DEF UnitsInUse
<1>6. PICK P : P = UnitsInUse(hp)
  OBVIOUS
<1>7. IsFiniteSet(P) /\ Cardinality(P) \in Nat /\ P \intersect Q = {} /\ UnitsInUse(r) = P \union Q
  BY <1>4, <1>5, <1>6, FS_CardinalityType
<1>8. IsFiniteSet(P \union Q) /\ Cardinality(P \union Q) = Cardinality(P) + Cardinality(Q) - 0
  <2>1. /\ IsFiniteSet(P \union Q)
        /\ Cardinality(P \union Q) = Cardinality(P) + Cardinality(Q) - Cardinality(P \intersect Q)
    BY <1>3, <1>7, FS_Union
  <2>2. Cardinality(P \intersect Q) = 0
    BY <1>7, FS_EmptySet
  <2> QED BY <2>1, <2>2
<1> QED BY <1>1, <1>3, <1>6, <1>7, <1>8

\* The same segments in use, the same units.
LEMMA UnitsSame ==
  ASSUME NEW hp, NEW r, Same(hp, r)
  PROVE  UnitsInUse(r) = UnitsInUse(hp)
BY DEF UnitsInUse, Same

\* malloc adds the units of its segment to heap_used.
LEMMA TakeAdds ==
  ASSUME NEW hp, NEW t \in Nat, Sound(hp, t), Joined(hp), NEW n \in Nat \ {0},
         Fits(hp, n) # {}, Take(hp, n), IsFiniteSet(UnitsInUse(hp)), used = Cardinality(UnitsInUse(hp))
  PROVE  IsFiniteSet(UnitsInUse(heap')) /\ used' = Cardinality(UnitsInUse(heap'))
<1>1. PICK a : a = FirstFit(hp, n)
  OBVIOUS
<1>2. a \in hp.free /\ hp.size[a] >= n
  BY <1>1, FirstFitFits DEF Fits
<1>3. PICK r : r = SetUsed(Split(hp, a, n), a)
  OBVIOUS
<1>4. heap' = r /\ used' = used + r.size[a]
  BY <1>1, <1>3 DEF Take
<1>5. Sound(r, t) /\ InUse(r) = InUse(hp) \union {a} /\ \A x \in InUse(hp) : r.size[x] = hp.size[x]
  BY <1>2, <1>3, TakeSound
<1>6. a \notin InUse(hp) /\ r.size[a] \in Nat
  BY <1>2, <1>5 DEF InUse, Sound, Typed
<1> QED BY <1>4, <1>5, <1>6, UnitsTaken

\* heap_used, the pages left, from which ExpandHeap takes, and the history variable.
UsedInv ==
  /\ IsFiniteSet(UnitsInUse(heap)) /\ used = Cardinality(UnitsInUse(heap))
  /\ pages <= SparePages /\ failed \in BOOLEAN

LEMMA UsedInit == Init => UsedInv
<1> SUFFICES ASSUME Init PROVE UsedInv OBVIOUS
<1>1. InUse(heap) = {}
  BY DEF Init, InUse, Segs
<1>2. UnitsInUse(heap) = {}
  BY <1>1 DEF UnitsInUse
<1>3. used = 0 /\ pages = SparePages /\ failed \in BOOLEAN /\ SparePages \in Nat
  BY HeapConstants DEF Init
<1>4. IsFiniteSet(UnitsInUse(heap)) /\ Cardinality(UnitsInUse(heap)) = 0
  BY <1>2, FS_EmptySet
<1> QED BY <1>3, <1>4 DEF UsedInv

\* malloc and free add and subtract what they take and give back.
LEMMA UsedStep == HeapInv /\ UsedInv /\ [Next]_vars => UsedInv'
<1> SUFFICES ASSUME HeapInv, UsedInv, [Next]_vars PROVE UsedInv' OBVIOUS
<1>5. failed' \in BOOLEAN
  BY DEF UsedInv, Next, MallocFits, MallocGrows, Take, Free, vars
<1>0. pages \in Nat /\ SparePages \in Nat /\ top \in Nat /\ Sound(heap, top) /\ Joined(heap)
  BY HeapConstants DEF HeapInv
<1>1. ASSUME NEW n \in 1 .. MaxRequest, MallocFits(n) PROVE UsedInv'
  <2>1. n \in Nat \ {0} BY HeapConstants
  <2>2. IsFiniteSet(UnitsInUse(heap')) /\ used' = Cardinality(UnitsInUse(heap'))
    BY <1>0, <1>1, <2>1, TakeAdds DEF MallocFits, UsedInv
  <2> QED BY <1>1, <1>5, <2>2 DEF MallocFits, UsedInv
<1>2. ASSUME NEW n \in 1 .. MaxRequest, MallocGrows(n) PROVE UsedInv'
  <2>1. n \in Nat \ {0} BY HeapConstants
  <2>2. PICK g : g = Wanted(n) OBVIOUS
  <2>3. PICK u : u = g * PageUnits OBVIOUS
  <2>4. PICK hp : hp = Grow(heap, u) OBVIOUS
  <2>5. g \in Nat /\ pages - g \in Nat /\ u \in Nat /\ u > Header
    BY <1>2, <2>1, <2>2, <2>3, WantedIs DEF MallocGrows
  <2>6. Sound(hp, top + u) /\ Joined(hp) /\ Same(heap, hp)
    BY <1>0, <2>4, <2>5, GrowSound
  <2>7. /\ pages' = pages - g
        /\ \/ Fits(hp, n) # {} /\ Take(hp, n)
           \/ heap' = hp /\ used' = used
    BY <1>2, <2>2, <2>3, <2>4 DEF MallocGrows
  <2>8. UnitsInUse(hp) = UnitsInUse(heap)
    BY <2>6, UnitsSame
  <2>9. IsFiniteSet(UnitsInUse(heap')) /\ used' = Cardinality(UnitsInUse(heap'))
    <3>1. CASE Fits(hp, n) # {} /\ Take(hp, n)
      BY <1>0, <2>1, <2>5, <2>6, <2>8, <3>1, TakeAdds DEF UsedInv
    <3>2. CASE heap' = hp /\ used' = used
      BY <2>8, <3>2 DEF UsedInv
    <3> QED BY <2>7, <3>1, <3>2
  <2>10. pages' <= SparePages
    BY <1>0, <2>5, <2>7 DEF UsedInv
  <2> QED BY <1>5, <2>9, <2>10 DEF UsedInv
<1>3. ASSUME NEW a \in Segs(heap), Free(a) PROVE UsedInv'
  <2>1. a \in InUse(heap) /\ heap' = Release(heap, a) /\ used' = used - heap.size[a] /\ pages' = pages
    BY <1>3 DEF Free, InUse
  <2>2. PICK r : r = Release(heap, a) OBVIOUS
  <2>3. InUse(r) = InUse(heap) \ {a} /\ \A x \in InUse(r) : r.size[x] = heap.size[x]
    BY <1>0, <2>1, <2>2, ReleaseSound
  <2>4. UnitsInUse(r) \in SUBSET UnitsInUse(heap)
    BY <2>3 DEF UnitsInUse
  <2>5. IsFiniteSet(UnitsInUse(r)) /\ Cardinality(UnitsInUse(r)) \in Nat
    BY <2>4, FS_Subset, FS_CardinalityType DEF UsedInv
  <2>6. a \notin InUse(r) /\ InUse(heap) = InUse(r) \union {a} /\ heap.size[a] \in Nat
        /\ \A x \in InUse(r) : heap.size[x] = r.size[x]
    BY <1>0, <2>1, <2>3 DEF Sound, Typed
  <2>7. Cardinality(UnitsInUse(heap)) = Cardinality(UnitsInUse(r)) + heap.size[a]
    BY <2>5, <2>6, UnitsTaken
  <2> QED BY <1>5, <2>1, <2>2, <2>5, <2>6, <2>7 DEF UsedInv
<1>4. CASE UNCHANGED vars
  <2>1. heap' = heap /\ used' = used /\ pages' = pages BY <1>4 DEF vars
  <2> QED BY <1>5, <2>1 DEF UsedInv
<1> QED BY <1>1, <1>2, <1>3, <1>4 DEF Next

\* What free subtracts from heap_used is what malloc added to it, whatever
\* was split off the segment, merged or expanded in between.
THEOREM HeapUsedIsSum == Spec => []UsedIsSum
<1>1. UsedInv => UsedIsSum
  BY DEF UsedInv, UsedIsSum
<1> QED BY <1>1, HeapInitInv, HeapStepInv, UsedInit, UsedStep, PTL DEF Spec

\* Headers, heap_used and the page count keep their types; heap_used never
\* falls below 0.
THEOREM HeapTypes == Spec => []TypeOK
<1>1. HeapInv /\ UsedInv => TypeOK
  BY FS_CardinalityType, HeapConstants DEF HeapInv, UsedInv, Sound, TypeOK
<1> QED BY <1>1, HeapInitInv, HeapStepInv, UsedInit, UsedStep, PTL DEF Spec

-----------------------------------------------------------------------------
(* The list implements the allocator of module Allocation.                  *)

\* The block of segment a.
Block(hp, a) == [first |-> a + Header, last |-> End(hp, a) - 1]

\* malloc's new segment is a block clear of the others.
LEMMA TakeGrants ==
  ASSUME NEW hp, NEW t \in Nat, Sound(hp, t), NEW r, NEW s \in Nat, Sound(r, s),
         NEW n \in 1 .. MaxRequest,
         NEW a \in Segs(r), a \notin InUse(hp), InUse(r) = InUse(hp) \union {a}, r.size[a] >= n,
         \A x \in InUse(hp) : r.size[x] = hp.size[x]
  PROVE  \E b \in Blocks(r) \ Blocks(hp) :
           /\ Blocks(r) = Blocks(hp) \union {b}
           /\ b.last - b.first + 1 >= n
           /\ \A c \in Blocks(hp) : Abstract!Disjoint(b, c)
<1> DEFINE b == Block(r, a)
<1>0. /\ Header \in Nat /\ Header > 0 /\ n \in Nat
      /\ \A x \in Segs(r) : x \in Nat /\ r.size[x] \in Nat /\ End(r, x) \in Nat /\ r.size[x] >= 1
      /\ \A x \in InUse(r) : x \in Segs(r)
      /\ \A x, y \in Segs(r) : x < y => End(r, x) <= y
  BY HeapConstants DEF Sound, Typed, Chain, End, InUse, Null
<1>1. \A x \in InUse(hp) : Block(r, x) = Block(hp, x)
  BY DEF Block, End
<1>2. Blocks(hp) = {Block(r, x) : x \in InUse(hp)}
  BY <1>1 DEF Blocks, Block
<1>3. Blocks(r) = {Block(r, x) : x \in InUse(r)}
  BY DEF Blocks, Block
<1>4. Blocks(r) = Blocks(hp) \union {b}
  BY <1>2, <1>3
<1>5. b.last - b.first + 1 >= n
  BY <1>0 DEF Block, End
<1>6. ASSUME NEW x \in InUse(hp) PROVE Abstract!Disjoint(b, Block(r, x))
  <2>1. x \in Segs(r) /\ x # a /\ x \in Nat /\ a \in Nat BY <1>0
  <2>2. b.last < Block(r, x).first \/ Block(r, x).last < b.first
    BY <2>1, <1>0 DEF Block, End
  <2> QED BY <2>2 DEF Abstract!Disjoint
<1>7. b \notin Blocks(hp)
  <2> SUFFICES ASSUME NEW x \in InUse(hp), b = Block(r, x) PROVE FALSE BY <1>2
  <2>1. b.first = a + Header /\ Block(r, x).first = x + Header BY DEF Block
  <2>2. a = x BY <2>1, <1>0
  <2> QED BY <2>2
<1>8. \A c \in Blocks(hp) : Abstract!Disjoint(b, c)
  BY <1>2, <1>6
<1> HIDE DEF b
<1> QED BY <1>4, <1>5, <1>7, <1>8

\* Whatever the order of calls, the blocks malloc hands out never overlap and
\* are long enough, and no call moves, resizes or takes back another
\* caller's block.
THEOREM HeapImplements == Spec => Implements
<1>1. Init => Abstract!Init
  <2> SUFFICES ASSUME Init PROVE Blocks(heap) = {} BY DEF Abstract!Init
  <2>1. heap.size = [a \in {HeapBase} |-> InitPages * PageUnits - Header]
        /\ heap.free = {HeapBase}
    BY DEF Init
  <2>2. InUse(heap) = {} BY <2>1 DEF InUse, Segs
  <2> QED BY <2>2 DEF Blocks
<1>2. HeapInv /\ HeapInv' /\ [Next]_vars => [Abstract!Next]_(Blocks(heap))
  <2> SUFFICES ASSUME HeapInv, HeapInv', [Next]_vars
               PROVE  Abstract!Next \/ Blocks(heap)' = Blocks(heap)
    OBVIOUS
  <2>0. Blocks(heap)' = Blocks(heap') BY DEF Blocks, InUse, End, Segs
  <2>1. ASSUME NEW n \in 1 .. MaxRequest,
               NEW a \in Segs(heap'), a \notin InUse(heap),
               InUse(heap') = InUse(heap) \union {a}, heap'.size[a] >= n,
               \A x \in InUse(heap) : heap'.size[x] = heap.size[x]
        PROVE  Abstract!Next
    <3>1. top \in Nat /\ top' \in Nat /\ Sound(heap, top) /\ Sound(heap', top')
      BY DEF HeapInv
    <3>2. \E b \in Blocks(heap') \ Blocks(heap) :
           /\ Blocks(heap') = Blocks(heap) \union {b}
           /\ b.last - b.first + 1 >= n
           /\ \A c \in Blocks(heap) : Abstract!Disjoint(b, c)
      BY <2>1, <3>1, TakeGrants
    <3> QED BY <3>2, <2>0 DEF Abstract!Next, Abstract!Grant
  <2>2. ASSUME NEW n \in 1 .. MaxRequest, MallocFits(n) PROVE Abstract!Next
    <3>1. n \in Nat \ {0} BY HeapConstants
    <3>2. /\ \E a \in Segs(heap') : a \notin InUse(heap) /\ InUse(heap') = InUse(heap) \union {a}
                                  /\ heap'.size[a] >= n
          /\ \A x \in InUse(heap) : heap'.size[x] = heap.size[x]
      BY <3>1, <2>2, TakeStep DEF MallocFits, HeapInv
    <3> QED BY <3>2, <2>1
  <2>3. ASSUME NEW n \in 1 .. MaxRequest, MallocGrows(n)
        PROVE  Abstract!Next \/ Blocks(heap') = Blocks(heap)
    <3>1. CASE Same(heap, heap')
      BY <3>1 DEF Same, Blocks, End
    <3>2. CASE ~ Same(heap, heap')
      <4>1. /\ \E a \in Segs(heap') : a \notin InUse(heap) /\ InUse(heap') = InUse(heap) \union {a}
                                    /\ heap'.size[a] >= n
            /\ \A x \in InUse(heap) : heap'.size[x] = heap.size[x]
        BY <3>2, <2>3, GrowStep
      <4> QED BY <4>1, <2>1
    <3> QED BY <3>1, <3>2
  <2>4. ASSUME NEW a \in Segs(heap), Free(a) PROVE Abstract!Next
    <3>1. a \in InUse(heap) BY <2>4 DEF Free, InUse
    <3>2. /\ InUse(heap') = InUse(heap) \ {a}
          /\ \A x \in InUse(heap') : heap'.size[x] = heap.size[x]
      BY <3>1, <2>4, ReleaseSound DEF Free, HeapInv
    <3>3. Header \in Nat /\ \A x \in InUse(heap) : x \in Nat
      BY HeapConstants DEF HeapInv, Sound, Typed, InUse
    <3>4. \A x \in InUse(heap) \ {a} : Block(heap, x) # Block(heap, a)
      <4> SUFFICES ASSUME NEW x \in InUse(heap), Block(heap, x) = Block(heap, a) PROVE x = a
        OBVIOUS
      <4>1. x + Header = a + Header BY DEF Block
      <4> QED BY <4>1, <3>1, <3>3
    <3>5. \A x \in InUse(heap') : Block(heap', x) = Block(heap, x)
      BY <3>2 DEF Block, End
    <3>6. /\ Blocks(heap) = {Block(heap, x) : x \in InUse(heap)}
          /\ Blocks(heap') = {Block(heap', x) : x \in InUse(heap')}
      BY DEF Blocks, Block
    <3>7. Blocks(heap') = Blocks(heap) \ {Block(heap, a)} /\ Block(heap, a) \in Blocks(heap)
      BY <3>1, <3>2, <3>4, <3>5, <3>6
    <3> QED BY <3>7, <2>0 DEF Abstract!Next, Abstract!Release
  <2>5. CASE UNCHANGED vars
    BY <2>5, <2>0 DEF vars
  <2> QED BY <2>0, <2>2, <2>3, <2>4, <2>5 DEF Next
<1> QED BY <1>1, <1>2, HeapInitInv, HeapStepInv, PTL DEF Spec, Implements, Abstract!Spec
=============================================================================
