------------------------- MODULE AddressSpaceProofs -------------------------
(***************************************************************************)
(* Page tables, trackers and the counts of shared frames, for any number   *)
(* of processes, pages and frames.  A process's table, its tracker and its *)
(* place in the kernel promise something to each other (OwnInv); with that *)
(* every step takes or gives back the references it should, and a frame's  *)
(* count is the number of its users.  Then copy on write: what a process   *)
(* can write is its own (Apart), so it sees a memory of its own.  Frames   *)
(* that are freed and requested again do not show because the counts are   *)
(* right.                                                                  *)
(***************************************************************************)
EXTENDS AddressSpace, FiniteSetTheorems, WellFoundedInduction, TLAPS

\* The frame that entry <<p, v>> keeps a reference to, and the copy a fault holds.
Entry(p, v) ==
  IF Leaving(p, v) \/ (At(p) \in {"exit", "dead"} /\ vm[p][v] = {}) THEN None ELSE pt[p][v]

\* The copy of a page fault, until it is mapped.
Copy(p) == IF At(p) \in {"faultDrop", "faultMap"} THEN call[p].frame ELSE None

\* The process is in exit or behind it; the handler walks a range; a page fault
\* copies.
Ending(p) == At(p) \in {"exit", "dead"}
Looping(p) == At(p) \in {"mmap", "mmapMap", "unmap", "unmapClear", "mprotect"}
Faulting(p) == At(p) \in {"faultDrop", "faultMap"}

\* The tracker and the table of p agree: what is mapped is tracked, with the US
\* flag, a process that does not exist maps nothing, and neither does the brk
\* area beyond brk_offset.
Tracked(p) ==
  /\ \A v \in Pages : vm[p][v] = {} \/ "us" \in vm[p][v]
  /\ ~Ending(p) => \A v \in Pages : Present(p, v) /\ ~Leaving(p, v) => vm[p][v] # {}
  /\ At(p) \in {"none", "dead"} => \A v \in Pages : pt[p][v] = None
  /\ \A v \in BrkArea : v >= BrkBase + brk[p] => pt[p][v] = None

\* The handler of p works on pages it was given: a range outside the brk area,
\* the next page of brk, the page that faulted, the first page exit has left.
Inside(p) ==
  /\ Looping(p) => call[p].page <= call[p].last
                   /\ \A v \in call[p].page..call[p].last : v \in Pages \ BrkArea
  /\ At(p) = "brk" => /\ call[p].page = BrkBase + brk[p] /\ call[p].page <= call[p].last
                      /\ call[p].last < BrkBase + BrkSize
  /\ Faulting(p) => call[p].page \in Pages /\ Present(p, call[p].page) /\ vm[p][call[p].page] # {}
  /\ At(p) = "exit" => /\ call[p].page \in Pages /\ vm[p][call[p].page] # {}
                       /\ \A w \in Pages : w < call[p].page => vm[p][w] = {}

\* The child of a fork is nobody else's and has the parent's pages up to the
\* loop's place.
Family(p) ==
  At(p) = "fork" =>
    LET c == call[p].child
    IN  /\ c \in Procs /\ At(c) = "new" /\ brk[c] = brk[p]
        /\ call[p].page \in 1..(NPages + 1)
        /\ \A v \in Pages : pt[c][v] = IF v < call[p].page THEN pt[p][v] ELSE None
        /\ \A q \in Procs : At(q) = "fork" /\ call[q].child = c => q = p

\* What each process's table, tracker and place in the kernel promise.
OwnInv == TypeOK /\ \A p \in Procs : Tracked(p) /\ Inside(p) /\ Family(p)

\* The inductive invariant of the frames' counts.
CountInv == OwnInv /\ MappedIsCounted

-----------------------------------------------------------------------------
(* Helpers.                                                                *)

\* The place of a process in the kernel.
Calling == [at : Points, page : Nat, last : Nat, frame : Frames,
            prot : SUBSET {"w"}, child : 0..NProcs]

\* What the assumptions say of the constants.
LEMMA Constants ==
  /\ NProcs \in Nat /\ NProcs > 0 /\ NPages \in Nat /\ NPages > 0 /\ NFrames \in Nat
  /\ StackSize \in Nat /\ StackSize > 0 /\ StackSize < NPages /\ StackSize <= NFrames
  /\ BrkBase \in Nat /\ BrkBase > 0 /\ BrkSize \in Nat /\ BrkBase + BrkSize <= NPages + 1
  /\ RmapBase \in Nat /\ RmapBase > 0 /\ RmapSize \in Nat /\ RmapBase + RmapSize <= NPages + 1
  /\ MaxEntries \in Nat /\ MaxLength \in Nat /\ Addrs \subseteq Pages
  /\ Zero \in Data /\ Unmapped \notin Data /\ None \notin Int /\ None \notin Frames
BY AddressSpaceConstants DEF Pages, Frames

\* The areas lie apart.
LEMMA Areas ==
  /\ \A v \in Addrs : v \in Pages \ BrkArea
  /\ \A v \in RmapBase..(RmapBase + RmapSize - 1) : v \in Pages \ BrkArea
  /\ BrkArea \subseteq Pages /\ Stack \subseteq Pages
  /\ \A v \in Stack : v \notin BrkArea
BY Constants, AreasDisjoint DEF Pages, BrkArea, Stack

\* The least of a set of numbers.
LEMMA Least ==
  ASSUME NEW S \in SUBSET Nat, S # {}
  PROVE  Min(S) \in S /\ \A x \in S : Min(S) <= x
<1>1. \E m \in S : \A x \in S : m <= x
  <2>1. PICK m \in S : \A x \in S : <<x, m>> \notin OpToRel(<, Nat)
    BY NatLessThanWellFounded, WFMin
  <2>2. \A x \in S : ~(x < m)
    BY <2>1 DEF OpToRel
  <2> QED
    BY <2>2
<1> QED
  BY <1>1 DEF Min

\* RequestPage returns a free frame, or 0.
LEMMA RequestedIs ==
  ASSUME locked \subseteq Frames
  PROVE  /\ Requested \in Frames
         /\ Requested = 0 \/ Requested \notin locked
         /\ Free # {} => Requested \notin locked
<1>1. CASE Free = {}
  BY <1>1, Constants DEF Requested, Frames
<1>2. CASE Free # {}
  <2>1. Free \in SUBSET Nat
    BY Constants DEF Free, Frames
  <2>2. Min(Free) \in Free
    BY <1>2, <2>1, Least
  <2> QED
    BY <1>2, <2>2 DEF Requested, Free
<1> QED
  BY <1>1, <1>2

\* The loops over the tracker visit every tracked page.
LEMMA NextIs ==
  ASSUME NEW flags \in [Pages -> SUBSET Flags], NEW v \in Nat, v > 0, v <= NPages + 1
  PROVE  /\ NextTracked(flags, v) \in Nat
         /\ v <= NextTracked(flags, v) /\ NextTracked(flags, v) <= NPages + 1
         /\ \A w \in Pages : v <= w /\ w < NextTracked(flags, v) => flags[w] = {}
         /\ NextTracked(flags, v) <= NPages =>
              NextTracked(flags, v) \in Pages /\ flags[NextTracked(flags, v)] # {}
<1> DEFINE S == {w \in Pages : w >= v /\ flags[w] # {}} \cup {NPages + 1}
<1>1. S \in SUBSET Nat /\ S # {}
  BY Constants DEF Pages
<1>2. Min(S) \in S /\ \A x \in S : Min(S) <= x
  BY <1>1, Least
<1>3. NextTracked(flags, v) = Min(S)
  BY DEF NextTracked
<1>4. \A w \in Pages : v <= w /\ w < Min(S) => flags[w] = {}
  <2> SUFFICES ASSUME NEW w \in Pages, v <= w, w < Min(S), flags[w] # {} PROVE FALSE
    OBVIOUS
  <2>1. w \in S /\ w \in Nat /\ Min(S) \in Nat
    BY <1>1, <1>2, Constants DEF Pages
  <2> QED
    BY <2>1, <1>2
<1> HIDE DEF S
<1>5. Min(S) \in S /\ v <= Min(S) /\ Min(S) <= NPages + 1 /\ Min(S) \in Nat
      /\ (Min(S) <= NPages => Min(S) \in Pages /\ flags[Min(S)] # {})
  <2>1. PICK m \in S : m = Min(S)
    BY <1>2
  <2>2. m = NPages + 1 \/ (m \in Pages /\ m >= v /\ flags[m] # {})
    BY DEF S
  <2> QED
    BY <2>1, <2>2, Constants DEF Pages
<1> QED
  BY <1>3, <1>4, <1>5

\* Returning from the kernel.
LEMMA InUserIs == InUser \in Calling /\ InUser.at = "user" /\ InUser.page = 0 /\ InUser.child = 0
BY Constants DEF InUser, Calling, Points, Frames

\* Starting a loop over a range.
LEMMA LoopIs ==
  ASSUME NEW at \in Points, NEW first \in Nat, NEW final \in Nat
  PROVE  /\ Loop(at, first, final) \in Calling /\ Loop(at, first, final).at = at
         /\ Loop(at, first, final).page = first /\ Loop(at, first, final).last = final
         /\ Loop(at, first, final).child = 0
<1>1. PICK r \in Calling : r = InUser
  BY InUserIs
<1>2. Loop(at, first, final) = [r EXCEPT !.at = at, !.page = first, !.last = final]
  BY <1>1 DEF Loop
<1>3. [r EXCEPT !.at = at, !.page = first, !.last = final] \in Calling
  BY DEF Calling
<1>4. /\ [r EXCEPT !.at = at, !.page = first, !.last = final].at = at
      /\ [r EXCEPT !.at = at, !.page = first, !.last = final].page = first
      /\ [r EXCEPT !.at = at, !.page = first, !.last = final].last = final
      /\ [r EXCEPT !.at = at, !.page = first, !.last = final].child = r.child
  BY DEF Calling
<1> QED
  BY <1>1, <1>2, <1>3, <1>4, InUserIs

\* Going on with it.
LEMMA AdvanceIs ==
  ASSUME NEW p \in Procs, call \in [Procs -> Calling], NEW at \in Points
  PROVE  /\ Advance(p, at) \in Calling
         /\ \/ Advance(p, at) = InUser
            \/ /\ call[p].page # call[p].last
               /\ Advance(p, at).at = at /\ Advance(p, at).page = call[p].page + 1
               /\ Advance(p, at).last = call[p].last
<1>1. call[p] \in Calling
  OBVIOUS
<1>2. CASE call[p].page = call[p].last
  BY <1>2, InUserIs DEF Advance
<1>3. CASE call[p].page # call[p].last
  <2>1. PICK r \in Calling : r = call[p]
    BY <1>1
  <2>2. Advance(p, at) = [r EXCEPT !.at = at, !.page = r.page + 1]
    BY <1>3, <2>1 DEF Advance
  <2>3. r.page + 1 \in Nat
    BY DEF Calling
  <2>4. /\ [r EXCEPT !.at = at, !.page = r.page + 1] \in Calling
        /\ [r EXCEPT !.at = at, !.page = r.page + 1].at = at
        /\ [r EXCEPT !.at = at, !.page = r.page + 1].page = r.page + 1
        /\ [r EXCEPT !.at = at, !.page = r.page + 1].last = r.last
    BY <2>3 DEF Calling
  <2> QED
    BY <1>3, <2>1, <2>2, <2>4
<1> QED
  BY <1>2, <1>3

\* A table that differs from f only at page v of p, where it has x.
Put(f, g, p, v, x) ==
  \A q \in Procs, w \in Pages : g[q][w] = IF q = p /\ w = v THEN x ELSE f[q][w]

\* The type invariant in parts.
MapTypes ==
  /\ pt \in [Procs -> [Pages -> Frames \cup {None}]] /\ writable \subseteq Procs \X Pages
  /\ vm \in [Procs -> [Pages -> SUBSET Flags]]
AreaTypes ==
  /\ brk \in [Procs -> 0..BrkSize] /\ rmap \in [Procs -> 0..RmapSize]
  /\ call \in [Procs -> Calling] /\ entries \in 0..MaxEntries
FrameTypes == locked \subseteq Frames /\ rc \in [Frames -> Nat] /\ data \in [Frames -> Data]

\* Together they are TypeOK.
LEMMA TypeParts == TypeOK <=> MapTypes /\ AreaTypes /\ FrameTypes
BY DEF TypeOK, MapTypes, AreaTypes, FrameTypes, Calling

\* Also after a step.
LEMMA TypePartsNext == TypeOK' <=> (MapTypes /\ AreaTypes /\ FrameTypes)'
BY TypeParts, PTL

\* Changing one entry.
LEMMA PutIs ==
  ASSUME NEW T, NEW f \in [Procs -> [Pages -> T]], NEW p \in Procs, NEW v \in Pages, NEW x \in T
  PROVE  /\ [f EXCEPT ![p][v] = x] \in [Procs -> [Pages -> T]]
         /\ Put(f, [f EXCEPT ![p][v] = x], p, v, x)
<1>1. [f[p] EXCEPT ![v] = x] \in [Pages -> T]
  OBVIOUS
<1> QED
  BY <1>1 DEF Put

\* DecreaseReferenceCount keeps the types.
LEMMA DecreaseIs ==
  ASSUME FrameTypes, NEW f \in Frames, DecreaseReferenceCount(f)
  PROVE  FrameTypes'
<1>1. Zero \in Data
  BY Constants
<1> QED
  BY <1>1 DEF DecreaseReferenceCount, FrameTypes

\* So does RequestPage.
LEMMA TakeIs ==
  ASSUME FrameTypes, NEW f \in Frames, NEW x \in Data, Take(f), data' = [data EXCEPT ![f] = x]
  PROVE  FrameTypes'
BY DEF Take, FrameTypes

\* A call that loops over pages begins.
Entering(p) ==
  \E addr \in 0..NPages, n \in 1..MaxLength :
       \/ \E fixed \in BOOLEAN : Mmap(p, addr, n, fixed)
       \/ Unmap(p, addr, n)
       \/ \E prot \in SUBSET {"w"} : Mprotect(p, addr, n, prot)

\* Where mmap, munmap and mprotect start: a range outside the brk area.
Begun(p, r) ==
  /\ r \in Calling /\ r.at \in {"mmap", "unmap", "mprotect"}
  /\ r.page <= r.last /\ \A v \in r.page..r.last : v \in Pages \ BrkArea
  /\ r.at = "mprotect" /\ "pending" \notin Calls =>
       \A v \in r.page..r.last : "pending" \notin vm[p][v]

\* What they do.
LEMMA EnterEffect ==
  ASSUME AreaTypes, NEW p \in Procs, Entering(p)
  PROVE  /\ At(p) = "user" /\ UNCHANGED <<pt, writable, vm, brk, locked, rc, data>>
         /\ rmap' \in [Procs -> 0..RmapSize] /\ entries' \in 0..MaxEntries
         /\ \E r : Begun(p, r) /\ call' = [call EXCEPT ![p] = r]
<1>1. PICK addr \in 0..NPages, n \in 1..MaxLength :
       \/ \E fixed \in BOOLEAN : Mmap(p, addr, n, fixed)
       \/ Unmap(p, addr, n)
       \/ \E prot \in SUBSET {"w"} : Mprotect(p, addr, n, prot)
  BY DEF Entering
<1>2. addr \in Nat /\ n \in Nat /\ n > 0
  BY Constants
<1>3. ASSUME addr..(addr + n - 1) \subseteq Addrs, NEW at \in {"mmap", "unmap"}
      PROVE  Begun(p, Loop(at, addr, addr + n - 1))
  <2>1. addr + n - 1 \in Nat /\ at \in Points
    BY <1>2 DEF Points
  <2> QED
    BY <1>2, <1>3, <2>1, LoopIs, Areas DEF Begun
<1>4. CASE \E fixed \in BOOLEAN : Mmap(p, addr, n, fixed)
  <2>1. PICK fixed \in BOOLEAN : Mmap(p, addr, n, fixed)
    BY <1>4
  <2>2. At(p) = "user" /\ UNCHANGED <<pt, writable, vm, brk, locked, rc, data>> /\ entries' \in 0..MaxEntries
    BY <2>1, Constants DEF Mmap, Issue, Enter, AreaTypes
  <2>3. CASE Fresh(p, addr, n, fixed)
    <3>1. /\ rmap[p] + n <= RmapSize /\ rmap' = [rmap EXCEPT ![p] = @ + n]
          /\ call' = [call EXCEPT ![p] = Loop("mmap", RmapBase + rmap[p], RmapBase + rmap[p] + n - 1)]
      BY <2>1, <2>3 DEF Mmap
    <3>2. rmap[p] \in Nat /\ RmapBase + rmap[p] \in Nat /\ RmapBase + rmap[p] + n - 1 \in Nat
      BY <1>2, Constants DEF AreaTypes
    <3>3. rmap' \in [Procs -> 0..RmapSize]
      BY <3>1, <3>2, <1>2, Constants DEF AreaTypes
    <3>4. /\ RmapBase + rmap[p] <= RmapBase + rmap[p] + n - 1
          /\ \A v \in (RmapBase + rmap[p])..(RmapBase + rmap[p] + n - 1) : v \in Pages \ BrkArea
      BY <3>1, <3>2, <1>2, Areas, Constants
    <3>5. Begun(p, Loop("mmap", RmapBase + rmap[p], RmapBase + rmap[p] + n - 1))
      <4>1. PICK a \in Nat, b \in Nat : a = RmapBase + rmap[p] /\ b = RmapBase + rmap[p] + n - 1
        BY <3>2
      <4>2. "mmap" \in Points
        BY DEF Points
      <4>3. Loop("mmap", a, b) \in Calling /\ Loop("mmap", a, b).at = "mmap"
            /\ Loop("mmap", a, b).page = a /\ Loop("mmap", a, b).last = b
        BY <4>2, LoopIs
      <4> QED
        BY <3>4, <4>1, <4>3 DEF Begun
    <3> QED
      BY <2>2, <3>1, <3>3, <3>5
  <2>4. CASE ~Fresh(p, addr, n, fixed)
    <3>1. addr # 0 /\ call' = [call EXCEPT ![p] = Loop("mmap", addr, addr + n - 1)] /\ rmap' = rmap
      BY <2>1, <2>4 DEF Mmap, Fresh
    <3>2. addr..(addr + n - 1) \subseteq Addrs
      BY <3>1, <2>1 DEF Mmap
    <3> QED
      BY <2>2, <3>1, <3>2, <1>3 DEF AreaTypes
  <2> QED
    BY <2>3, <2>4
<1>5. CASE Unmap(p, addr, n)
  <2>1. /\ At(p) = "user" /\ UNCHANGED <<pt, writable, vm, brk, rmap, locked, rc, data>> /\ entries' \in 0..MaxEntries
        /\ addr..(addr + n - 1) \subseteq Addrs
        /\ call' = [call EXCEPT ![p] = Loop("unmap", addr, addr + n - 1)]
    BY <1>5, Constants DEF Unmap, Issue, Enter, AreaTypes
  <2> QED
    BY <2>1, <1>3 DEF AreaTypes
<1>6. CASE \E prot \in SUBSET {"w"} : Mprotect(p, addr, n, prot)
  <2>1. PICK prot \in SUBSET {"w"} : Mprotect(p, addr, n, prot)
    BY <1>6
  <2>2. /\ At(p) = "user" /\ UNCHANGED <<pt, writable, vm, brk, rmap, locked, rc, data>>
        /\ addr..(addr + n - 1) \subseteq Addrs /\ Settled(p, addr..(addr + n - 1))
        /\ call' = [call EXCEPT ![p] = [Loop("mprotect", addr, addr + n - 1) EXCEPT !.prot = prot]]
        /\ entries < MaxEntries /\ entries' = entries + 1
    BY <2>1, Zenon DEF Mprotect, Issue, Enter
  <2>7. entries' \in 0..MaxEntries
    <3>1. entries < MaxEntries /\ entries' = entries + 1
      BY <2>2
    <3> QED
      BY <3>1, Constants DEF AreaTypes
  <2>3. addr + n - 1 \in Nat /\ addr <= addr + n - 1
    BY <1>2
  <2>4. PICK r \in Calling : /\ r = Loop("mprotect", addr, addr + n - 1)
                             /\ r.at = "mprotect" /\ r.page = addr /\ r.last = addr + n - 1
    BY <2>3, <1>2, LoopIs DEF Points
  <2>5. /\ [r EXCEPT !.prot = prot] \in Calling /\ [r EXCEPT !.prot = prot].at = r.at
        /\ [r EXCEPT !.prot = prot].page = r.page /\ [r EXCEPT !.prot = prot].last = r.last
    BY DEF Calling
  <2>6. Begun(p, [r EXCEPT !.prot = prot])
    BY <2>2, <2>3, <2>4, <2>5, Areas DEF Begun, Settled
  <2> QED
    BY <2>2, <2>4, <2>6, <2>7 DEF AreaTypes
<1> QED
  BY <1>1, <1>4, <1>5, <1>6

\* Process q is where it was.
Rests(q) == pt'[q] = pt[q] /\ vm'[q] = vm[q] /\ brk'[q] = brk[q] /\ call'[q] = call[q]

\* The place of p becomes r, and no other's changes.
Goes(p, r) == r \in Calling /\ call' = [call EXCEPT ![p] = r]

\* Only p's place changes.
LEMMA GoesIs ==
  ASSUME AreaTypes, NEW p \in Procs, NEW r, Goes(p, r)
  PROVE  /\ call' \in [Procs -> Calling] /\ call'[p] = r
         /\ \A q \in Procs \ {p} : call'[q] = call[q]
BY DEF AreaTypes, Goes

\* Process p goes on elsewhere, or with another page.
MovesTo(p, at) == call' = [call EXCEPT ![p].at = at]
TurnsTo(p, n) == call' = [call EXCEPT ![p].page = n]

\* The handler goes on on the same page.
LEMMA AtIs ==
  ASSUME NEW p \in Procs, call \in [Procs -> Calling], NEW at \in Points,
         MovesTo(p, at)
  PROVE  \E r : /\ Goes(p, r) /\ r.at = at /\ r.page = call[p].page /\ r.last = call[p].last
                /\ r.frame = call[p].frame /\ r.child = call[p].child
<1>1. PICK c \in Calling : c = call[p]
  OBVIOUS
<1>2. PICK r : r = [c EXCEPT !.at = at]
  OBVIOUS
<1>3. r \in Calling /\ r.at = at /\ r.page = c.page /\ r.last = c.last /\ r.frame = c.frame /\ r.child = c.child
  BY <1>2 DEF Calling
<1>4. call' = [call EXCEPT ![p] = r]
  BY <1>1, <1>2 DEF MovesTo
<1> QED
  BY <1>1, <1>3, <1>4 DEF Goes

\* The handler goes on with another page.
LEMMA PageIs ==
  ASSUME NEW p \in Procs, call \in [Procs -> Calling], NEW n \in Nat,
         TurnsTo(p, n)
  PROVE  \E r : /\ Goes(p, r) /\ r.at = call[p].at /\ r.page = n /\ r.last = call[p].last
                /\ r.frame = call[p].frame /\ r.child = call[p].child
<1>1. PICK c \in Calling : c = call[p]
  OBVIOUS
<1>2. PICK r : r = [c EXCEPT !.page = n]
  OBVIOUS
<1>3. r \in Calling /\ r.at = c.at /\ r.page = n /\ r.last = c.last /\ r.frame = c.frame /\ r.child = c.child
  BY <1>2 DEF Calling
<1>4. call' = [call EXCEPT ![p] = r]
  BY <1>1, <1>2 DEF TurnsTo
<1> QED
  BY <1>1, <1>3, <1>4 DEF Goes

\* A step of p that puts x at page v of its table, and y of its tracker.
Writes(p, v, x, y) ==
  /\ v \in Pages /\ x \in Frames \cup {None} /\ y \in SUBSET Flags
  /\ pt' \in [Procs -> [Pages -> Frames \cup {None}]] /\ Put(pt, pt', p, v, x)
  /\ vm' \in [Procs -> [Pages -> SUBSET Flags]] /\ Put(vm, vm', p, v, y)

\* An assignment to one entry of the table, the tracker or both.
LEMMA WritesIs ==
  ASSUME MapTypes, NEW p \in Procs, NEW v \in Pages, NEW x \in Frames \cup {None}, NEW y \in SUBSET Flags,
         pt' = [pt EXCEPT ![p][v] = x] \/ (pt' = pt /\ x = pt[p][v]),
         vm' = [vm EXCEPT ![p][v] = y] \/ (vm' = vm /\ y = vm[p][v])
  PROVE  Writes(p, v, x, y)
<1>1. pt' \in [Procs -> [Pages -> Frames \cup {None}]] /\ Put(pt, pt', p, v, x)
  <2>1. CASE pt' = [pt EXCEPT ![p][v] = x]
    BY <2>1, PutIs DEF MapTypes
  <2>2. CASE pt' = pt /\ x = pt[p][v]
    BY <2>2 DEF MapTypes, Put
  <2> QED
    BY <2>1, <2>2
<1>2. vm' \in [Procs -> [Pages -> SUBSET Flags]] /\ Put(vm, vm', p, v, y)
  <2>1. CASE vm' = [vm EXCEPT ![p][v] = y]
    BY <2>1, PutIs DEF MapTypes
  <2>2. CASE vm' = vm /\ y = vm[p][v]
    BY <2>2 DEF MapTypes, Put
  <2> QED
    BY <2>1, <2>2
<1> QED
  BY <1>1, <1>2 DEF Writes

\* What OwnInv says of one process.
LEMMA Pieces ==
  ASSUME OwnInv, NEW p \in Procs
  PROVE  /\ MapTypes /\ AreaTypes /\ FrameTypes /\ call[p] \in Calling
         /\ call \in [Procs -> Calling] /\ At(p) \in Points
         /\ At(p) = call[p].at /\ call[p].page \in Nat /\ call[p].last \in Nat
         /\ Tracked(p) /\ Inside(p) /\ Family(p)
         /\ Looping(p) \/ Faulting(p) \/ At(p) \in {"brk", "exit"} => call[p].page \in Pages
<1>1. MapTypes /\ AreaTypes /\ FrameTypes
  BY TypeParts DEF OwnInv
<1>2. call[p] \in Calling
  BY <1>1 DEF AreaTypes
<1>3. call[p].page \in Nat /\ call[p].last \in Nat /\ call[p].at \in Points
  BY <1>2 DEF Calling
<1>4. Tracked(p) /\ Inside(p) /\ Family(p)
  BY DEF OwnInv
<1>5. Looping(p) => call[p].page \in Pages
  BY <1>3, <1>4 DEF Inside
<1>6. At(p) = "brk" => call[p].page \in Pages
  BY <1>1, <1>3, <1>4, Constants DEF Inside, AreaTypes, Pages
<1> QED
  BY <1>1, <1>2, <1>3, <1>4, <1>5, <1>6 DEF At, Inside, AreaTypes

-----------------------------------------------------------------------------
(* What the steps do.                                                      *)

\* The frame of an entry goes back, or there is none.
Drops(p, v) ==
  \/ Present(p, v) /\ DecreaseReferenceCount(pt[p][v])
  \/ ~Present(p, v) /\ UNCHANGED <<rc, locked, data>>

\* What each step of a handler does, in terms of Goes, Writes and Drops.
LEMMA BrkEffect ==
  ASSUME OwnInv, NEW p \in Procs, NEW n \in 1..BrkSize, Brk(p, n)
  PROVE  /\ At(p) = "user" /\ UNCHANGED <<pt, writable, vm, brk, rmap, locked, rc, data>>
         /\ entries' \in 0..MaxEntries
         /\ \E r : /\ Goes(p, r) /\ r.at = "brk" /\ r.page = BrkBase + brk[p] /\ r.page <= r.last
                   /\ r.last < BrkBase + BrkSize
<1>1. MapTypes /\ AreaTypes
  BY Pieces
<1>2. /\ At(p) = "user" /\ UNCHANGED <<pt, writable, vm, brk, rmap, locked, rc, data>>
      /\ entries < MaxEntries /\ entries' = entries + 1 /\ brk[p] + n <= BrkSize
      /\ call' = [call EXCEPT ![p] = Loop("brk", BrkBase + brk[p], BrkBase + brk[p] + n - 1)]
  BY DEF Brk, Issue, Enter
<1>3. brk[p] \in Nat /\ n \in Nat /\ n > 0
  BY <1>1, Constants DEF AreaTypes
<1>4. PICK a \in Nat, b \in Nat : a = BrkBase + brk[p] /\ b = BrkBase + brk[p] + n - 1
  BY <1>3, Constants
<1>5. Loop("brk", a, b) \in Calling /\ Loop("brk", a, b).at = "brk"
      /\ Loop("brk", a, b).page = a /\ Loop("brk", a, b).last = b
  BY LoopIs DEF Points
<1>6. a <= b /\ b < BrkBase + BrkSize
  BY <1>2, <1>3, <1>4, Constants
<1>7. entries' \in 0..MaxEntries
  BY <1>1, <1>2, Constants DEF AreaTypes
<1> QED
  BY <1>2, <1>4, <1>5, <1>6, <1>7 DEF Goes

\* mmap gives back a page that is there.
LEMMA MmapDropEffect ==
  ASSUME OwnInv, NEW p \in Procs, MmapDrop(p), NEW v \in Pages, v = call[p].page
  PROVE  /\ At(p) = "mmap" /\ UNCHANGED <<pt, writable, brk, rmap, entries>> /\ Drops(p, v)
         /\ Writes(p, v, pt[p][v], IF Present(p, v) THEN {} ELSE vm[p][v])
         /\ \E r : Goes(p, r) /\ r.at = "mmapMap" /\ r.page = v /\ r.last = call[p].last
<1>1. MapTypes /\ AreaTypes
  BY Pieces
<1>2. /\ At(p) = "mmap" /\ UNCHANGED <<pt, writable, brk, rmap, entries>> /\ Drops(p, v)
      /\ vm' = IF Present(p, v) THEN [vm EXCEPT ![p][v] = {}] ELSE vm
  BY DEF MmapDrop, Drops
<1>3. MovesTo(p, "mmapMap")
  BY DEF MmapDrop, MovesTo
<1>4. \E r : Goes(p, r) /\ r.at = "mmapMap" /\ r.page = v /\ r.last = call[p].last
  <3>1. call \in [Procs -> Calling] /\ "mmapMap" \in Points
    BY <1>1 DEF AreaTypes, Points
  <3>2. \E r : /\ Goes(p, r) /\ r.at = "mmapMap" /\ r.page = call[p].page /\ r.last = call[p].last
              /\ r.frame = call[p].frame /\ r.child = call[p].child
    BY <1>3, <3>1, AtIs
  <3> QED
    BY <3>2
<1>5. pt[p][v] \in Frames \cup {None} /\ vm[p][v] \in SUBSET Flags /\ {} \in SUBSET Flags
  BY <1>1 DEF MapTypes
<1>6. Writes(p, v, pt[p][v], IF Present(p, v) THEN {} ELSE vm[p][v])
  BY <1>1, <1>2, <1>5, WritesIs
<1> QED
  BY <1>2, <1>4, <1>6

\* munmap gives back a page.
LEMMA UnmapDropEffect ==
  ASSUME OwnInv, NEW p \in Procs, UnmapDrop(p), NEW v \in Pages, v = call[p].page
  PROVE  /\ At(p) = "unmap" /\ UNCHANGED <<pt, writable, brk, rmap, entries>> /\ Drops(p, v)
         /\ Writes(p, v, pt[p][v], IF Present(p, v) THEN {} ELSE vm[p][v])
         /\ \E r : /\ Goes(p, r)
                   /\ \/ Present(p, v) /\ r.at = "unmapClear" /\ r.page = v /\ r.last = call[p].last
                      \/ ~Present(p, v) /\ r = Advance(p, "unmap")
<1>1. MapTypes /\ AreaTypes
  BY Pieces
<1>2. /\ At(p) = "unmap" /\ UNCHANGED <<pt, writable, brk, rmap, entries>> /\ Drops(p, v)
      /\ vm' = IF Present(p, v) THEN [vm EXCEPT ![p][v] = {}] ELSE vm
  BY DEF UnmapDrop, Drops
<1>3. CASE Present(p, v)
  <2>1. MovesTo(p, "unmapClear")
    BY <1>3 DEF UnmapDrop, MovesTo
  <2>2. \E r : Goes(p, r) /\ r.at = "unmapClear" /\ r.page = v /\ r.last = call[p].last
    <3>1. call \in [Procs -> Calling] /\ "unmapClear" \in Points
      BY <1>1 DEF AreaTypes, Points
    <3>2. \E r : /\ Goes(p, r) /\ r.at = "unmapClear" /\ r.page = call[p].page /\ r.last = call[p].last
                /\ r.frame = call[p].frame /\ r.child = call[p].child
      BY <2>1, <3>1, AtIs
    <3> QED
      BY <3>2
  <2>3. pt[p][v] \in Frames \cup {None} /\ {} \in SUBSET Flags
    BY <1>1 DEF MapTypes
  <2>4. Writes(p, v, pt[p][v], {})
    BY <1>1, <1>2, <1>3, <2>3, WritesIs
  <2> QED
    BY <1>2, <1>3, <2>2, <2>4
<1>4. CASE ~Present(p, v)
  <2>1. call' = [call EXCEPT ![p] = Advance(p, "unmap")]
    BY <1>4 DEF UnmapDrop
  <2>2. Advance(p, "unmap") \in Calling
    BY <1>1, AdvanceIs DEF AreaTypes, Points
  <2>3. pt[p][v] \in Frames \cup {None} /\ vm[p][v] \in SUBSET Flags
    BY <1>1 DEF MapTypes
  <2>4. Writes(p, v, pt[p][v], vm[p][v])
    BY <1>1, <1>2, <1>4, <2>3, WritesIs
  <2> QED
    BY <1>2, <1>4, <2>1, <2>2, <2>4 DEF Goes
<1> QED
  BY <1>3, <1>4

\* MapMemory of a requested frame.
LEMMA MapEffect ==
  ASSUME OwnInv, NEW p \in Procs, MmapMap(p) \/ BrkPage(p), NEW v \in Pages, v = call[p].page
  PROVE  /\ Requested \in Frames /\ Take(Requested) /\ data' = [data EXCEPT ![Requested] = Zero]
         /\ Writes(p, v, Requested, OwnFlags) /\ writable' = writable \cup {<<p, v>>}
         /\ UNCHANGED <<rmap, entries>>
         /\ \/ /\ At(p) = "mmapMap" /\ brk' = brk /\ Goes(p, Advance(p, "mmap"))
            \/ /\ At(p) = "brk" /\ brk' = [brk EXCEPT ![p] = @ + 1] /\ Goes(p, Advance(p, "brk"))
<1>1. MapTypes /\ AreaTypes /\ FrameTypes
  BY Pieces
<1>2. Requested \in Frames
  BY <1>1, RequestedIs DEF FrameTypes
<1>3. /\ Take(Requested) /\ data' = [data EXCEPT ![Requested] = Zero]
      /\ pt' = [pt EXCEPT ![p][v] = Requested] /\ writable' = writable \cup {<<p, v>>}
      /\ vm' = [vm EXCEPT ![p][v] = OwnFlags] /\ UNCHANGED <<rmap, entries>>
  BY DEF MmapMap, BrkPage, MapMemory
<1>4. OwnFlags \in SUBSET Flags
  BY DEF OwnFlags, Flags
<1>5. Writes(p, v, Requested, OwnFlags)
  BY <1>1, <1>2, <1>3, <1>4, WritesIs
<1>6. CASE MmapMap(p)
  <2>1. Advance(p, "mmap") \in Calling
    BY <1>1, AdvanceIs DEF AreaTypes, Points
  <2> QED
    BY <1>2, <1>3, <1>5, <1>6, <2>1 DEF MmapMap, Goes
<1>7. CASE BrkPage(p)
  <2>1. Advance(p, "brk") \in Calling
    BY <1>1, AdvanceIs DEF AreaTypes, Points
  <2> QED
    BY <1>2, <1>3, <1>5, <1>7, <2>1 DEF BrkPage, Goes
<1> QED
  BY <1>6, <1>7

\* munmap clears the entry.
LEMMA ClearEffect ==
  ASSUME OwnInv, NEW p \in Procs, UnmapClear(p), NEW v \in Pages, v = call[p].page
  PROVE  /\ At(p) = "unmapClear" /\ UNCHANGED <<vm, brk, rmap, locked, rc, data, entries>>
         /\ Writes(p, v, None, vm[p][v]) /\ writable' = writable \ {<<p, v>>}
         /\ Goes(p, Advance(p, "unmap"))
<1>1. MapTypes /\ AreaTypes
  BY Pieces
<1>2. Advance(p, "unmap") \in Calling
  BY <1>1, AdvanceIs DEF AreaTypes, Points
<1>3. /\ At(p) = "unmapClear" /\ UNCHANGED <<vm, brk, rmap, locked, rc, data, entries>>
      /\ pt' = [pt EXCEPT ![p][v] = None] /\ writable' = writable \ {<<p, v>>}
      /\ call' = [call EXCEPT ![p] = Advance(p, "unmap")]
  BY DEF UnmapClear
<1>4. None \in Frames \cup {None} /\ vm[p][v] \in SUBSET Flags
  BY <1>1 DEF MapTypes
<1>5. Writes(p, v, None, vm[p][v])
  BY <1>1, <1>3, <1>4, WritesIs
<1> QED
  BY <1>2, <1>3, <1>5 DEF Goes

\* mprotect sets the flags of a page.
LEMMA ProtectEffect ==
  ASSUME OwnInv, NEW p \in Procs, MprotectPage(p), NEW v \in Pages, v = call[p].page
  PROVE  /\ At(p) = "mprotect" /\ UNCHANGED <<pt, brk, rmap, locked, rc, data, entries>>
         /\ \/ ~Present(p, v) /\ UNCHANGED <<writable, vm>> /\ Goes(p, InUser)
            \/ /\ Present(p, v) /\ writable' \in {writable \cup {<<p, v>>}, writable \ {<<p, v>>}}
               /\ Goes(p, Advance(p, "mprotect"))
               /\ \E y : /\ Writes(p, v, pt[p][v], y)
                         /\ "us" \in y /\ "cow" \in y /\ "pending" \notin y
<1>1. MapTypes /\ AreaTypes
  BY Pieces
<1>2. At(p) = "mprotect" /\ UNCHANGED <<pt, brk, rmap, locked, rc, data, entries>>
  BY DEF MprotectPage
<1>3. CASE ~Present(p, v)
  <2>1. call' = [call EXCEPT ![p] = InUser] /\ UNCHANGED <<writable, vm>>
    BY <1>3 DEF MprotectPage
  <2> QED
    BY <1>2, <1>3, <2>1, InUserIs DEF Goes
<1>4. CASE Present(p, v)
  <2>2. PICK y : y = {"us", "cow"} \cup (IF "w" \in call[p].prot THEN {"rw"} ELSE {})
    OBVIOUS
  <2>3. writable' = SetWrite(p, v, "w" \in call[p].prot) /\ vm' = [vm EXCEPT ![p][v] = y] /\ call' = [call EXCEPT ![p] = Advance(p, "mprotect")]
    BY <1>4, <2>2 DEF MprotectPage
  <2>4. Advance(p, "mprotect") \in Calling
    BY <1>1, AdvanceIs DEF AreaTypes, Points
  <2>5. y \in SUBSET Flags /\ "us" \in y /\ "cow" \in y /\ "pending" \notin y
    BY <2>2 DEF Flags
  <2>6. pt[p][v] \in Frames \cup {None}
    BY <1>1 DEF MapTypes
  <2>7. Writes(p, v, pt[p][v], y)
    BY <1>1, <1>2, <2>3, <2>5, <2>6, WritesIs
  <2>8. writable' \in {writable \cup {<<p, v>>}, writable \ {<<p, v>>}}
    BY <2>3 DEF SetWrite
  <2> QED
    BY <1>2, <1>4, <2>3, <2>4, <2>5, <2>7, <2>8 DEF Goes
<1> QED
  BY <1>3, <1>4

\* A write of the process, or of the kernel on its behalf.
LEMMA WriteEffect ==
  ASSUME OwnInv, NEW p \in Procs, NEW v \in Pages, NEW d \in Data, Write(p, v, d) \/ KernelWrite(p, v, d)
  PROVE  /\ At(p) = "user" /\ Present(p, v) /\ pt[p][v] \in Frames
         /\ data' = [data EXCEPT ![pt[p][v]] = d] /\ data' \in [Frames -> Data]
         /\ UNCHANGED <<pt, writable, vm, brk, rmap, locked, rc, call>> /\ entries' \in 0..MaxEntries
         /\ "pending" \notin Calls => <<p, v>> \in writable \/ "pending" \notin vm[p][v]
<1>1. MapTypes /\ AreaTypes /\ FrameTypes
  BY Pieces
<1>2. /\ At(p) = "user" /\ Present(p, v) /\ data' = [data EXCEPT ![pt[p][v]] = d]
      /\ UNCHANGED <<pt, writable, vm, brk, rmap, locked, rc, call>>
      /\ entries' = entries \/ (entries < MaxEntries /\ entries' = entries + 1)
      /\ ("pending" \notin Calls => <<p, v>> \in writable \/ "pending" \notin vm[p][v])
  BY DEF Write, KernelWrite, Issue, Enter, Physical, Settled
<1>3. pt[p][v] \in Frames
  BY <1>1, <1>2 DEF MapTypes, Present
<1>4. data' \in [Frames -> Data]
  BY <1>1, <1>2 DEF FrameTypes
<1>5. entries' \in 0..MaxEntries
  BY <1>1, <1>2, Constants DEF AreaTypes
<1> QED
  BY <1>2, <1>3, <1>4, <1>5

\* PageFault copies,
LEMMA FaultCopyEffect ==
  ASSUME OwnInv, NEW p \in Procs, NEW v \in Pages, FaultCopy(p, v)
  PROVE  /\ At(p) = "user" /\ Present(p, v) /\ pt[p][v] \in Frames /\ "pending" \in vm[p][v]
         /\ Requested \in Frames /\ Take(Requested)
         /\ data' = [data EXCEPT ![Requested] = data[pt[p][v]]] /\ data[pt[p][v]] \in Data
         /\ UNCHANGED <<pt, writable, vm, brk, rmap>> /\ entries' \in 0..MaxEntries
         /\ \E r : /\ Goes(p, r) /\ r.at = "faultDrop" /\ r.page = v /\ r.frame = Requested
<1>1. MapTypes /\ AreaTypes /\ FrameTypes
  BY Pieces
<1>2. Requested \in Frames
  BY <1>1, RequestedIs DEF FrameTypes
<1>3. /\ At(p) = "user" /\ Present(p, v) /\ "pending" \in vm[p][v] /\ Take(Requested)
      /\ data' = [data EXCEPT ![Requested] = data[pt[p][v]]]
      /\ UNCHANGED <<pt, writable, vm, brk, rmap>>
      /\ call' = [call EXCEPT ![p] = [Loop("faultDrop", v, v) EXCEPT !.frame = Requested]]
  BY DEF FaultCopy, Enter, Physical
<1>4. pt[p][v] \in Frames
  BY <1>1, <1>3 DEF MapTypes, Present
<1>5. data[pt[p][v]] \in Data
  BY <1>1, <1>4 DEF FrameTypes
<1>6. PICK s \in Calling : s = Loop("faultDrop", v, v) /\ s.at = "faultDrop" /\ s.page = v
  <2>1. v \in Nat /\ "faultDrop" \in Points
    BY Constants DEF Pages, Points
  <2> QED
    BY <2>1, LoopIs
<1>7. PICK r : r = [s EXCEPT !.frame = Requested]
  OBVIOUS
<1>8. r \in Calling /\ r.at = s.at /\ r.page = s.page /\ r.frame = Requested
  BY <1>2, <1>7 DEF Calling
<1>9. Goes(p, r)
  BY <1>3, <1>6, <1>7, <1>8 DEF Goes
<1>10. entries < MaxEntries /\ entries' = entries + 1
  BY DEF FaultCopy, Enter
<1>11. entries' \in 0..MaxEntries
  BY <1>1, <1>10, Constants DEF AreaTypes
<1>12. \E t : /\ Goes(p, t) /\ t.at = "faultDrop" /\ t.page = v /\ t.frame = Requested
  BY <1>6, <1>8, <1>9
<1> HIDE DEF Goes
<1> QED
  BY <1>2, <1>3, <1>4, <1>5, <1>11, <1>12

\* gives the old frame back,
LEMMA FaultDropEffect ==
  ASSUME OwnInv, NEW p \in Procs, FaultDrop(p), NEW v \in Pages, v = call[p].page
  PROVE  /\ At(p) = "faultDrop" /\ Present(p, v) /\ pt[p][v] \in Frames
         /\ DecreaseReferenceCount(pt[p][v])
         /\ UNCHANGED <<pt, writable, vm, brk, rmap, entries>>
         /\ \E r : /\ Goes(p, r) /\ r.at = "faultMap" /\ r.page = v /\ r.frame = call[p].frame
<1>1. MapTypes /\ AreaTypes /\ Inside(p)
  BY Pieces
<1>2. /\ At(p) = "faultDrop" /\ DecreaseReferenceCount(pt[p][v])
      /\ UNCHANGED <<pt, writable, vm, brk, rmap, entries>> /\ MovesTo(p, "faultMap")
  BY DEF FaultDrop, MovesTo
<1>3. Present(p, v)
  BY <1>1, <1>2 DEF Inside, Faulting
<1>4. pt[p][v] \in Frames
  BY <1>1, <1>3 DEF MapTypes, Present
<1>5. call \in [Procs -> Calling] /\ "faultMap" \in Points
  BY <1>1 DEF AreaTypes, Points
<1>6. \E r : /\ Goes(p, r) /\ r.at = "faultMap" /\ r.page = call[p].page /\ r.last = call[p].last
             /\ r.frame = call[p].frame /\ r.child = call[p].child
  BY <1>2, <1>5, AtIs
<1> QED
  BY <1>2, <1>3, <1>4, <1>6

\* and maps the copy.
LEMMA FaultMapEffect ==
  ASSUME OwnInv, NEW p \in Procs, FaultMap(p), NEW v \in Pages, v = call[p].page
  PROVE  /\ At(p) = "faultMap" /\ call[p].frame \in Frames
         /\ Writes(p, v, call[p].frame, vm[p][v] \ {"pending"})
         /\ writable' = writable \cup {<<p, v>>} /\ Goes(p, InUser)
         /\ UNCHANGED <<brk, rmap, locked, rc, data, entries>>
<1>1. MapTypes /\ AreaTypes /\ call[p] \in Calling
  BY Pieces
<1>2. /\ At(p) = "faultMap" /\ pt' = [pt EXCEPT ![p][v] = call[p].frame]
      /\ vm' = [vm EXCEPT ![p][v] = @ \ {"pending"}]
      /\ writable' = writable \cup {<<p, v>>}
      /\ UNCHANGED <<brk, rmap, locked, rc, data, entries>>
  BY DEF FaultMap, MapMemory
<1>3. call' = [call EXCEPT ![p] = InUser]
  BY DEF FaultMap
<1>4. call[p].frame \in Frames
  BY <1>1 DEF Calling
<1>5. vm[p][v] \ {"pending"} \in SUBSET Flags
  BY <1>1 DEF MapTypes
<1>6. vm' = [vm EXCEPT ![p][v] = vm[p][v] \ {"pending"}]
  BY <1>1, <1>2 DEF MapTypes
<1>7. Writes(p, v, call[p].frame, vm[p][v] \ {"pending"})
  BY <1>1, <1>2, <1>4, <1>5, <1>6, WritesIs
<1> QED
  BY <1>2, <1>3, <1>4, <1>7, InUserIs DEF Goes

\* What the child's tracker starts with.
ChildMarks(p) == [v \in Pages |-> IF vm[p][v] # {} THEN vm[p][v]
                                  ELSE IF v \in Stack THEN StackFlags ELSE {}]

\* fork_process up to ClonePTM's loop.
LEMMA ForkStartEffect ==
  ASSUME OwnInv, NEW p \in Procs, NEW c \in Procs, ForkStart(p, c)
  PROVE  /\ At(p) = "user" /\ At(c) = "none" /\ UNCHANGED <<pt, writable, data>> /\ entries' \in 0..MaxEntries
         /\ \E taken \in SUBSET Free :
              locked' = locked \cup taken /\ rc' = [f \in Frames |-> IF f \in taken THEN 1 ELSE rc[f]]
         /\ vm' = [vm EXCEPT ![c] = ChildMarks(p)] /\ ChildMarks(p) \in [Pages -> SUBSET Flags]
         /\ brk' = [brk EXCEPT ![c] = brk[p]] /\ rmap' = [rmap EXCEPT ![c] = rmap[p]]
         /\ call' \in [Procs -> Calling] /\ (\A q \in Procs \ {p, c} : call'[q] = call[q])
         /\ call'[p].at = "fork" /\ call'[p].child = c /\ call'[p].page = NextTracked(vm[p], 1)
         /\ call'[c].at = "new"
<1>1. MapTypes /\ AreaTypes /\ FrameTypes
  BY Pieces
<1>2. /\ At(p) = "user" /\ At(c) = "none" /\ UNCHANGED <<pt, writable, data>>
      /\ vm' = [vm EXCEPT ![c] = ChildMarks(p)]
      /\ brk' = [brk EXCEPT ![c] = brk[p]] /\ rmap' = [rmap EXCEPT ![c] = rmap[p]]
  BY DEF ForkStart, Issue, Enter, ChildMarks
<1>3. \E taken \in SUBSET Free :
        locked' = locked \cup taken /\ rc' = [f \in Frames |-> IF f \in taken THEN 1 ELSE rc[f]]
  BY DEF ForkStart
<1>4. entries < MaxEntries /\ entries' = entries + 1
  BY DEF ForkStart, Issue, Enter
<1>5. entries' \in 0..MaxEntries
  BY <1>1, <1>4, Constants DEF AreaTypes
<1>6. ChildMarks(p) \in [Pages -> SUBSET Flags]
  <2>1. StackFlags \in SUBSET Flags /\ {} \in SUBSET Flags
    BY DEF StackFlags, Flags
  <2>2. \A v \in Pages : vm[p][v] \in SUBSET Flags
    BY <1>1 DEF MapTypes
  <2> QED
    BY <2>1, <2>2 DEF ChildMarks
<1>7. PICK n \in Nat : n = NextTracked(vm[p], 1)
  <2>1. vm[p] \in [Pages -> SUBSET Flags] /\ 1 \in Nat /\ 1 > 0 /\ 1 <= NPages + 1
    BY <1>1, Constants DEF MapTypes
  <2> QED
    BY <2>1, NextIs
<1>8. PICK s \in Calling : s = Loop("fork", n, NPages) /\ s.at = "fork" /\ s.page = n
  <2>1. NPages \in Nat /\ "fork" \in Points
    BY Constants DEF Points
  <2> QED
    BY <2>1, LoopIs
<1>9. PICK r : r = [s EXCEPT !.child = c]
  OBVIOUS
<1>10. r \in Calling /\ r.at = "fork" /\ r.page = n /\ r.child = c
  <2>1. c \in 0..NProcs
    BY Constants DEF Procs
  <2> QED
    BY <2>1, <1>8, <1>9 DEF Calling
<1>11. PICK d \in Calling : d = call[c]
  BY <1>1 DEF AreaTypes
<1>12. PICK e : e = [d EXCEPT !.at = "new"]
  OBVIOUS
<1>13. e \in Calling /\ e.at = "new"
  BY <1>12 DEF Calling, Points
<1>14. c # p
  BY <1>2
<1>15. call' = [call EXCEPT ![p] = r, ![c] = e]
  <2>1. call' = [call EXCEPT ![p] = [Loop("fork", NextTracked(vm[p], 1), NPages) EXCEPT !.child = c],
                          ![c].at = "new"]
    BY DEF ForkStart
  <2>2. call' = [call EXCEPT ![p] = r, ![c].at = "new"]
    BY <2>1, <1>7, <1>8, <1>9
  <2> QED
    BY <2>2, <1>1, <1>11, <1>12, <1>14 DEF AreaTypes
<1>16. /\ call' \in [Procs -> Calling] /\ (\A q \in Procs \ {p, c} : call'[q] = call[q])
       /\ call'[p] = r /\ call'[c] = e
  BY <1>15, <1>10, <1>13, <1>14, <1>1 DEF AreaTypes
<1> QED
  BY <1>2, <1>3, <1>5, <1>6, <1>7, <1>10, <1>13, <1>16

\* Page v of p has been shared with its child c; its flags are now y.
Shared(p, c, v, y) ==
  /\ v = call[p].page /\ At(p) = "fork" /\ c # p
  /\ pt' \in [Procs -> [Pages -> Frames \cup {None}]] /\ Put(pt, pt', c, v, pt[p][v])
  /\ vm' \in [Procs -> [Pages -> SUBSET Flags]]
  /\ (\A q \in Procs, w \in Pages : vm'[q][w] = IF w = v /\ q \in {p, c} THEN y ELSE vm[q][w])
  /\ y = (IF "cow" \in vm[p][v] THEN vm[p][v] \cup {"pending"} ELSE vm[p][v])
  /\ rc' = [rc EXCEPT ![Physical(p, v)] = @ + 1]
  /\ ("cow" \in vm[p][v] => writable' = writable \ {<<p, v>>})
  /\ writable' \subseteq writable \cup {<<c, v>>} /\ (<<p, v>> \notin writable => writable' = writable)
  /\ UNCHANGED <<brk, rmap, locked, data, entries>>
  /\ \E r : /\ Goes(p, r) /\ r.at = "fork" /\ r.page = NextTracked(vm[p], v + 1) /\ r.child = c

\* ClonePTM's loop shares a page.
LEMMA ForkPageEffect ==
  ASSUME OwnInv, NEW p \in Procs, ForkPage(p), NEW c \in Procs, c = call[p].child
  PROVE  \E v \in Pages, y \in SUBSET Flags : Shared(p, c, v, y)
<1>1. MapTypes /\ AreaTypes /\ Family(p) /\ call[p].page \in Nat /\ call \in [Procs -> Calling] /\ At(p) = call[p].at
  BY Pieces
<1>2. At(p) = "fork" /\ call[p].page <= NPages
  BY DEF ForkPage
<1>3. call[p].page \in 1..(NPages + 1) /\ At(c) = "new"
  BY <1>1, <1>2 DEF Family
<1>4. PICK v \in Pages : v = call[p].page
  BY <1>1, <1>2, <1>3 DEF Pages
<1>5. PICK y \in SUBSET Flags : y = IF "cow" \in vm[p][v] THEN vm[p][v] \cup {"pending"} ELSE vm[p][v]
  <2>1. vm[p][v] \in SUBSET Flags
    BY <1>1 DEF MapTypes
  <2> QED
    BY <2>1 DEF Flags
<1>6. c # p
  BY <1>2, <1>3
<1>7. /\ vm' = [vm EXCEPT ![p][v] = y, ![c][v] = y]
      /\ SetMapping(c, v, p, IF "cow" \in vm[p][v] THEN SetWrite(p, v, FALSE) ELSE writable)
      /\ rc' = [rc EXCEPT ![Physical(p, v)] = @ + 1]
      /\ TurnsTo(p, NextTracked(vm[p], v + 1))
      /\ UNCHANGED <<brk, rmap, locked, data, entries>>
  BY <1>4, <1>5 DEF ForkPage, TurnsTo
<1>8. pt' \in [Procs -> [Pages -> Frames \cup {None}]] /\ Put(pt, pt', c, v, pt[p][v])
  <2>1. pt' = [pt EXCEPT ![c][v] = pt[p][v]]
    BY <1>7 DEF SetMapping
  <2>2. pt[p][v] \in Frames \cup {None}
    BY <1>1 DEF MapTypes
  <2> QED
    BY <1>1, <2>1, <2>2, PutIs DEF MapTypes
<1>9. /\ vm' \in [Procs -> [Pages -> SUBSET Flags]]
      /\ \A q \in Procs, w \in Pages : vm'[q][w] = IF w = v /\ q \in {p, c} THEN y ELSE vm[q][w]
  <2>0. /\ [vm EXCEPT ![p][v] = y] \in [Procs -> [Pages -> SUBSET Flags]]
        /\ Put(vm, [vm EXCEPT ![p][v] = y], p, v, y)
    <3>1. vm \in [Procs -> [Pages -> SUBSET Flags]]
      BY <1>1 DEF MapTypes
    <3> QED
      BY <3>1, PutIs
  <2>1. PICK m \in [Procs -> [Pages -> SUBSET Flags]] : m = [vm EXCEPT ![p][v] = y] /\ Put(vm, m, p, v, y)
    BY <2>0
  <2>2. vm' = [m EXCEPT ![c][v] = y]
    BY <2>1, <1>7
  <2>3. vm' \in [Procs -> [Pages -> SUBSET Flags]] /\ Put(m, vm', c, v, y)
    BY <2>2, PutIs
  <2>4. ASSUME NEW q \in Procs, NEW w \in Pages
        PROVE  vm'[q][w] = IF w = v /\ q \in {p, c} THEN y ELSE vm[q][w]
    <3>1. m[q][w] = IF q = p /\ w = v THEN y ELSE vm[q][w]
      BY <2>1 DEF Put
    <3>2. vm'[q][w] = IF q = c /\ w = v THEN y ELSE m[q][w]
      BY <2>3 DEF Put
    <3> QED
      BY <3>1, <3>2
  <2> QED
    BY <2>3, <2>4
<1>10. /\ ("cow" \in vm[p][v] => writable' = writable \ {<<p, v>>})
       /\ writable' \subseteq writable \cup {<<c, v>>} /\ (<<p, v>> \notin writable => writable' = writable)
  BY <1>7 DEF SetMapping, SetWrite
<1>11. \E r : /\ Goes(p, r) /\ r.at = "fork" /\ r.page = NextTracked(vm[p], v + 1) /\ r.child = c
  <2>1. vm[p] \in [Pages -> SUBSET Flags] /\ v + 1 \in Nat /\ v + 1 > 0 /\ v + 1 <= NPages + 1
    BY <1>1, Constants DEF MapTypes, Pages
  <2>2. PICK n \in Nat : n = NextTracked(vm[p], v + 1)
    BY <2>1, NextIs
  <2>3. TurnsTo(p, n)
    BY <2>2, <1>7
  <2>4. \E r : /\ Goes(p, r) /\ r.at = call[p].at /\ r.page = n /\ r.last = call[p].last
               /\ r.frame = call[p].frame /\ r.child = call[p].child
    BY <1>1, <2>3, PageIs
  <2> QED
    BY <2>2, <2>4, <1>1, <1>2
<1>12. Shared(p, c, v, y)
  BY <1>2, <1>4, <1>5, <1>6, <1>7, <1>8, <1>9, <1>10, <1>11, Zenon DEF Shared
<1> QED
  BY <1>12

\* fork returns, in both.
LEMMA ForkReadyEffect ==
  ASSUME OwnInv, NEW p \in Procs, ForkReady(p), NEW c \in Procs, c = call[p].child
  PROVE  /\ At(p) = "fork" /\ At(c) = "new" /\ call[p].page > NPages
         /\ UNCHANGED <<pt, writable, vm, brk, rmap, locked, rc, data, entries>>
         /\ call' \in [Procs -> Calling] /\ call'[p] = InUser /\ call'[c] = InUser
         /\ \A q \in Procs \ {p, c} : call'[q] = call[q]
<1>1. AreaTypes /\ Family(p)
  BY Pieces
<1>2. /\ At(p) = "fork" /\ call[p].page > NPages /\ call' = [call EXCEPT ![p] = InUser, ![c] = InUser]
      /\ UNCHANGED <<pt, writable, vm, brk, rmap, locked, rc, data, entries>>
  BY DEF ForkReady
<1>3. At(c) = "new"
  BY <1>1, <1>2 DEF Family
<1> QED
  BY <1>1, <1>2, <1>3, InUserIs DEF AreaTypes

\* The marks when exit has changed those of what it takes for the stack.
ExitMarks(p) == [v \in Pages |-> IF v \in (NPages - StackSize)..(NPages - 1) THEN {"us", "rw"}
                                 ELSE vm[p][v]]

\* task_t::exit up to the tracker's exit.
LEMMA ExitEffect ==
  ASSUME OwnInv, NEW p \in Procs, Exit(p)
  PROVE  /\ At(p) = "user" /\ UNCHANGED <<pt, writable, brk, rmap, locked, rc, data>>
         /\ entries' \in 0..MaxEntries
         /\ vm' = [vm EXCEPT ![p] = ExitMarks(p)] /\ ExitMarks(p) \in [Pages -> SUBSET Flags]
         /\ \E r : /\ Goes(p, r) /\ r.at = "exit" /\ r.page \in Pages /\ ExitMarks(p)[r.page] # {}
                   /\ \A w \in Pages : w < r.page => ExitMarks(p)[w] = {}
<1>1. MapTypes /\ AreaTypes
  BY Pieces
<1>2. /\ At(p) = "user" /\ UNCHANGED <<pt, writable, brk, rmap, locked, rc, data>>
      /\ entries < MaxEntries /\ entries' = entries + 1
      /\ vm' = [vm EXCEPT ![p] = ExitMarks(p)]
      /\ call' = [call EXCEPT ![p] = Loop("exit", NextTracked(ExitMarks(p), 1), NPages)]
  BY DEF Exit, Issue, Enter, ExitMarks
<1>3. entries' \in 0..MaxEntries
  BY <1>1, <1>2, Constants DEF AreaTypes
<1>4. ExitMarks(p) \in [Pages -> SUBSET Flags]
  <2>1. {"us", "rw"} \in SUBSET Flags
    BY DEF Flags
  <2>2. \A v \in Pages : vm[p][v] \in SUBSET Flags
    BY <1>1 DEF MapTypes
  <2> QED
    BY <2>1, <2>2 DEF ExitMarks
<1>5. 1 \in Nat /\ 1 > 0 /\ 1 <= NPages + 1 /\ NPages - 1 \in Pages /\ NPages - 1 \in (NPages - StackSize)..(NPages - 1)
  BY Constants DEF Pages
<1>6. ExitMarks(p)[NPages - 1] # {}
  BY <1>5 DEF ExitMarks
<1>7. PICK n \in Nat :
        /\ n = NextTracked(ExitMarks(p), 1) /\ 1 <= n /\ n <= NPages + 1
        /\ \A w \in Pages : 1 <= w /\ w < n => ExitMarks(p)[w] = {}
        /\ n <= NPages => n \in Pages /\ ExitMarks(p)[n] # {}
  BY <1>4, <1>5, NextIs
<1>8. n <= NPages
  <2>1. NPages - 1 \in Pages /\ 1 <= NPages - 1 /\ NPages - 1 \in Nat
    BY <1>5 DEF Pages
  <2>2. ~(NPages - 1 < n)
    BY <2>1, <1>6, <1>7
  <2> QED
    BY <2>1, <2>2, Constants
<1>9. \A w \in Pages : w < n => ExitMarks(p)[w] = {}
  BY <1>7 DEF Pages
<1>10. /\ Loop("exit", n, NPages) \in Calling /\ Loop("exit", n, NPages).at = "exit"
       /\ Loop("exit", n, NPages).page = n
  <2>1. "exit" \in Points /\ NPages \in Nat
    BY Constants DEF Points
  <2> QED
    BY <2>1, LoopIs
<1>11. Goes(p, Loop("exit", n, NPages))
  BY <1>2, <1>7, <1>10 DEF Goes
<1> QED
  BY <1>2, <1>3, <1>4, <1>7, <1>8, <1>9, <1>10, <1>11

\* The rest of an exit step: the next tracked page, or the end.
OnwardExit(p, v, r) ==
  /\ r.at = "exit" /\ r.page \in Pages /\ v < r.page /\ vm[p][r.page] # {}
  /\ \A w \in Pages : v < w /\ w < r.page => vm[p][w] = {}
  /\ UNCHANGED <<pt, writable>>
LastExit(p, v, r) ==
  /\ r.at = "dead" /\ \A w \in Pages : v < w => vm[p][w] = {}
  /\ pt' = [pt EXCEPT ![p] = [w \in Pages |-> None]]
  /\ writable' = {x \in writable : x[1] # p}

\* vm_tracker_t::exit gives back a page, the last one with the table.
LEMMA ExitPageEffect ==
  ASSUME OwnInv, NEW p \in Procs, ExitPage(p), NEW v \in Pages, v = call[p].page
  PROVE  /\ At(p) = "exit" /\ Physical(p, v) \in Frames /\ DecreaseReferenceCount(Physical(p, v))
         /\ vm' \in [Procs -> [Pages -> SUBSET Flags]] /\ Put(vm, vm', p, v, {})
         /\ UNCHANGED <<brk, rmap, entries>>
         /\ \E r : Goes(p, r) /\ (OnwardExit(p, v, r) \/ LastExit(p, v, r))
<1>1. MapTypes /\ AreaTypes /\ call \in [Procs -> Calling] /\ At(p) = call[p].at
  BY Pieces
<1>2. /\ At(p) = "exit" /\ DecreaseReferenceCount(Physical(p, v)) /\ UNCHANGED <<brk, rmap, entries>>
      /\ vm' = [vm EXCEPT ![p][v] = {}]
  BY DEF ExitPage
<1>3. Physical(p, v) \in Frames
  BY <1>1, Constants DEF Physical, Present, MapTypes, Frames
<1>4. vm' \in [Procs -> [Pages -> SUBSET Flags]] /\ Put(vm, vm', p, v, {})
  <2>1. vm \in [Procs -> [Pages -> SUBSET Flags]] /\ {} \in SUBSET Flags
    BY <1>1 DEF MapTypes
  <2> QED
    BY <2>1, <1>2, PutIs
<1>5. PICK n \in Nat :
        /\ n = NextTracked(vm[p], v + 1) /\ v + 1 <= n /\ n <= NPages + 1
        /\ \A w \in Pages : v + 1 <= w /\ w < n => vm[p][w] = {}
        /\ n <= NPages => n \in Pages /\ vm[p][n] # {}
  <2>1. vm[p] \in [Pages -> SUBSET Flags] /\ v + 1 \in Nat /\ v + 1 > 0 /\ v + 1 <= NPages + 1
    BY <1>1, Constants DEF MapTypes, Pages
  <2> QED
    BY <2>1, NextIs
<1>6. v \in Nat /\ v < n /\ \A w \in Pages : w \in Nat /\ (v < w /\ w < n => vm[p][w] = {})
  BY <1>5 DEF Pages
<1>7. CASE n <= NPages
  <2>1. TurnsTo(p, n) /\ UNCHANGED <<pt, writable>>
    BY <1>5, <1>7 DEF ExitPage, TurnsTo
  <2>2. PICK r : Goes(p, r) /\ r.at = call[p].at /\ r.page = n
    BY <2>1, <1>1, PageIs
  <2>3. OnwardExit(p, v, r)
    BY <2>1, <2>2, <1>1, <1>2, <1>5, <1>6, <1>7 DEF OnwardExit
  <2> QED
    BY <1>2, <1>3, <1>4, <2>2, <2>3
<1>8. CASE ~(n <= NPages)
  <2>1. PICK s \in Calling : s = InUser
    BY InUserIs
  <2>2. PICK r : r = [s EXCEPT !.at = "dead"]
    OBVIOUS
  <2>3. r \in Calling /\ r.at = "dead"
    BY <2>2 DEF Calling, Points
  <2>4. /\ call' = [call EXCEPT ![p] = [InUser EXCEPT !.at = "dead"]]
        /\ pt' = [pt EXCEPT ![p] = [w \in Pages |-> None]]
        /\ writable' = {x \in writable : x[1] # p}
    BY <1>5, <1>8 DEF ExitPage
  <2>5. Goes(p, r)
    BY <2>1, <2>2, <2>3, <2>4 DEF Goes
  <2>6. \A w \in Pages : v < w => vm[p][w] = {}
    BY <1>5, <1>6, <1>8, Constants DEF Pages
  <2>7. LastExit(p, v, r)
    BY <2>3, <2>4, <2>6 DEF LastExit
  <2> QED
    BY <1>2, <1>3, <1>4, <2>5, <2>7
<1> QED
  BY <1>7, <1>8

-----------------------------------------------------------------------------
(* Each process's own state.                                               *)

\* A process whose state stays keeps its promises.
LEMMA RestKeeps ==
  ASSUME NEW q \in Procs, Rests(q)
  PROVE  (Tracked(q) => Tracked(q)') /\ (Inside(q) => Inside(q)')
<1>1. At(q)' = At(q) /\ (\A v \in Pages : Present(q, v)' = Present(q, v) /\ Leaving(q, v)' = Leaving(q, v))
  BY DEF Rests, At, Present, Leaving
<1>2. Tracked(q) => Tracked(q)'
  BY <1>1 DEF Tracked, Ending, Rests
<1>3. Inside(q) => Inside(q)'
  BY <1>1 DEF Inside, Looping, Faulting, Rests
<1> QED
  BY <1>2, <1>3

\* Only p acts, and it does not fork.
Alone(p) ==
  /\ \A q \in Procs \ {p} : Rests(q)
  /\ At(p) \notin {"fork", "new"} /\ At(p)' # "fork"

\* A step of one process alone is nothing to any fork.
LEMMA AloneFamily ==
  ASSUME OwnInv, NEW p \in Procs, Alone(p), NEW q \in Procs
  PROVE  Family(q)'
<1> SUFFICES ASSUME At(q)' = "fork" PROVE Family(q)'
  BY DEF Family
<1>1. q # p /\ Rests(q) /\ At(q) = "fork" /\ Family(q) /\ call'[q] = call[q]
  BY DEF Alone, Rests, At, OwnInv
<1>2. PICK c \in Procs : c = call[q].child /\ At(c) = "new" /\ brk[c] = brk[q]
  BY <1>1 DEF Family
<1>3. c # p /\ Rests(c)
  BY <1>2 DEF Alone
<1>4. /\ call[q].page \in 1..(NPages + 1)
      /\ \A v \in Pages : pt[c][v] = IF v < call[q].page THEN pt[q][v] ELSE None
      /\ \A o \in Procs : At(o) = "fork" /\ call[o].child = c => o = q
  BY <1>1, <1>2 DEF Family
<1>5. \A o \in Procs : At(o)' = "fork" /\ call'[o].child = c => o = q
  <2> SUFFICES ASSUME NEW o \in Procs, At(o)' = "fork", call'[o].child = c PROVE o = q
    OBVIOUS
  <2>1. o # p
    BY DEF Alone
  <2>2. At(o) = "fork" /\ call[o].child = c
    BY <2>1 DEF Alone, Rests, At
  <2> QED
    BY <2>2, <1>4
<1>6. At(c)' = "new" /\ brk'[c] = brk'[q] /\ call'[q].child = c /\ call'[q].page = call[q].page
      /\ pt'[c] = pt[c] /\ pt'[q] = pt[q]
  BY <1>1, <1>2, <1>3 DEF Rests, At
<1> QED
  BY <1>4, <1>5, <1>6 DEF Family

\* So it keeps OwnInv if it keeps its own promises.
LEMMA AloneKeeps ==
  ASSUME OwnInv, NEW p \in Procs, Alone(p), MapTypes', AreaTypes', FrameTypes',
         Tracked(p)', Inside(p)'
  PROVE  OwnInv'
<1>1. \A q \in Procs : Tracked(q)' /\ Inside(q)'
  <2> SUFFICES ASSUME NEW q \in Procs PROVE Tracked(q)' /\ Inside(q)'
    OBVIOUS
  <2>1. CASE q = p
    BY <2>1
  <2>2. CASE q # p
    BY <2>2, RestKeeps DEF Alone, OwnInv
  <2> QED
    BY <2>1, <2>2
<1>2. \A q \in Procs : Family(q)'
  BY AloneFamily
<1>3. TypeOK'
  BY TypePartsNext
<1> QED
  BY <1>1, <1>2, <1>3 DEF OwnInv

\* What p gives up or takes at page v, its next place being r and its brk b.
Proper(p, v, x, y, r, b) ==
  /\ (y = {} \/ "us" \in y)
  /\ (x # None => y # {} \/ (r.at \in {"mmapMap", "unmapClear", "faultMap"} /\ r.page = v))
  /\ r.at \notin {"none", "exit", "dead"} /\ At(p) \notin {"none", "exit", "dead"}
  /\ (At(p) \in {"mmapMap", "unmapClear", "faultMap"} => call[p].page = v)
  /\ (v \in BrkArea => x = None \/ v < BrkBase + b)
  /\ b >= brk[p]

\* It then keeps its table and tracker in agreement.
LEMMA TrackedWrites ==
  ASSUME OwnInv, NEW p \in Procs, NEW v, NEW x, NEW y, NEW r, NEW b \in Nat,
         Writes(p, v, x, y), Goes(p, r), brk'[p] = b, Proper(p, v, x, y, r, b)
  PROVE  Tracked(p)'
<1>1. /\ MapTypes /\ AreaTypes /\ Tracked(p) /\ At(p)' = r.at /\ call'[p] = r
      /\ brk[p] \in Nat /\ v \in Pages
  BY Pieces, GoesIs DEF At, Writes, AreaTypes
<1>2. \A w \in Pages : /\ pt'[p][w] = IF w = v THEN x ELSE pt[p][w]
                       /\ vm'[p][w] = IF w = v THEN y ELSE vm[p][w]
  BY DEF Writes, Put
<1>3. \A w \in Pages : vm'[p][w] = {} \/ "us" \in vm'[p][w]
  BY <1>1, <1>2 DEF Tracked, Proper
<1>4. ASSUME NEW w \in Pages, Present(p, w)', ~Leaving(p, w)' PROVE vm'[p][w] # {}
  <2>1. CASE w = v
    BY <1>1, <1>2, <1>4, <2>1 DEF Proper, Present, Leaving, At
  <2>2. CASE w # v
    <3>1. Present(p, w) /\ vm'[p][w] = vm[p][w]
      BY <1>2, <1>4, <2>2 DEF Present
    <3>2. ~Leaving(p, w) /\ ~Ending(p)
      BY <2>2 DEF Leaving, Proper, Ending
    <3> QED
      BY <1>1, <3>1, <3>2 DEF Tracked
  <2> QED
    BY <2>1, <2>2
<1>5. \A w \in BrkArea : w >= BrkBase + brk'[p] => pt'[p][w] = None
  <2> SUFFICES ASSUME NEW w \in BrkArea, w >= BrkBase + b PROVE pt'[p][w] = None
    OBVIOUS
  <2>1. w \in Pages /\ w \in Nat /\ v \in Nat /\ b >= brk[p]
    BY <1>1, Areas DEF Pages, Proper
  <2>2. w >= BrkBase + brk[p] /\ (v \in BrkArea => x = None \/ v < BrkBase + b)
    BY <1>1, <2>1, Constants DEF Proper
  <2>3. pt[p][w] = None
    BY <1>1, <2>2 DEF Tracked
  <2>4. CASE w = v
    <3>1. ~(v < BrkBase + b)
      BY <2>1, <2>4, Constants
    <3> QED
      BY <2>1, <2>2, <2>4, <1>2, <3>1
  <2>5. CASE w # v
    BY <2>1, <2>3, <2>5, <1>2
  <2> QED
    BY <2>4, <2>5
<1>6. At(p)' \notin {"none", "exit", "dead"}
  BY <1>1 DEF Proper
<1> QED
  BY <1>3, <1>4, <1>5, <1>6 DEF Tracked, Ending

\* The tables stay and p only goes on.
LEMMA TrackedStays ==
  ASSUME OwnInv, NEW p \in Procs, NEW r, Goes(p, r), UNCHANGED <<pt, vm, brk>>,
         At(p) \in {"user", "faultDrop", "mprotect"},
         r.at \notin {"none", "exit", "dead"}
  PROVE  Tracked(p)'
<1>1. AreaTypes /\ Tracked(p) /\ At(p)' = r.at /\ call'[p] = r
  BY Pieces, GoesIs DEF At
<1>2. \A w \in Pages : ~Leaving(p, w) /\ Present(p, w)' = Present(p, w)
  BY DEF Leaving, Present
<1> QED
  BY <1>1, <1>2 DEF Tracked, Ending

\* What makes a step one process's own.
LEMMA AloneGoes ==
  ASSUME OwnInv, NEW p \in Procs, NEW r, Goes(p, r), At(p) \notin {"fork", "new"}, r.at # "fork",
         \A q \in Procs \ {p} : pt'[q] = pt[q] /\ vm'[q] = vm[q] /\ brk'[q] = brk[q]
  PROVE  Alone(p)
<1>1. AreaTypes
  BY Pieces
<1>2. call'[p] = r /\ \A q \in Procs \ {p} : call'[q] = call[q]
  BY <1>1, GoesIs
<1> QED
  BY <1>2 DEF Alone, Rests, At

\* A change of one entry is one.
LEMMA WritesRests ==
  ASSUME MapTypes, NEW p \in Procs, NEW v, NEW x, NEW y, Writes(p, v, x, y)
  PROVE  \A q \in Procs \ {p} : pt'[q] = pt[q] /\ vm'[q] = vm[q]
<1>1. pt \in [Procs -> [Pages -> Frames \cup {None}]] /\ vm \in [Procs -> [Pages -> SUBSET Flags]]
  BY DEF MapTypes
<1>2. pt' \in [Procs -> [Pages -> Frames \cup {None}]] /\ Put(pt, pt', p, v, x)
  BY DEF Writes
<1>3. vm' \in [Procs -> [Pages -> SUBSET Flags]] /\ Put(vm, vm', p, v, y)
  BY DEF Writes
<1>4. \A q \in Procs \ {p} : pt'[q] = pt[q]
  <2> SUFFICES ASSUME NEW q \in Procs \ {p} PROVE pt'[q] = pt[q]
    OBVIOUS
  <2>1. pt'[q] \in [Pages -> Frames \cup {None}] /\ pt[q] \in [Pages -> Frames \cup {None}]
    BY <1>1, <1>2
  <2>2. \A w \in Pages : pt'[q][w] = pt[q][w]
    BY <1>2 DEF Put
  <2> QED
    BY <2>1, <2>2
<1>5. \A q \in Procs \ {p} : vm'[q] = vm[q]
  <2> SUFFICES ASSUME NEW q \in Procs \ {p} PROVE vm'[q] = vm[q]
    OBVIOUS
  <2>1. vm'[q] \in [Pages -> SUBSET Flags] /\ vm[q] \in [Pages -> SUBSET Flags]
    BY <1>1, <1>3
  <2>2. \A w \in Pages : vm'[q][w] = vm[q][w]
    BY <1>3 DEF Put
  <2> QED
    BY <2>1, <2>2
<1> QED
  BY <1>4, <1>5

\* Outside the kernel nothing is promised.
LEMMA InsideUser ==
  ASSUME NEW p \in Procs, At(p)' = "user"
  PROVE  Inside(p)'
BY DEF Inside, Looping, Faulting

\* Inside a loop, the range.
LEMMA InsideLoop ==
  ASSUME NEW p \in Procs,
         At(p)' \in {"mmap", "mmapMap", "unmap", "unmapClear", "mprotect"},
         call'[p].page <= call'[p].last, \A v \in call'[p].page..call'[p].last : v \in Pages \ BrkArea
  PROVE  Inside(p)'
BY DEF Inside, Looping, Faulting

\* The loop goes on inside its range.
LEMMA InsideAdvance ==
  ASSUME OwnInv, NEW p \in Procs, Looping(p), NEW at \in {"mmap", "unmap", "mprotect"},
         Goes(p, Advance(p, at))
  PROVE  Inside(p)' /\ Advance(p, at).at \in {"user", at} /\ At(p)' = Advance(p, at).at
<1>1. /\ AreaTypes /\ call \in [Procs -> Calling] /\ call[p].page \in Nat /\ call[p].last \in Nat
      /\ call[p].page <= call[p].last /\ \A v \in call[p].page..call[p].last : v \in Pages \ BrkArea
  BY Pieces DEF Inside
<1>2. call'[p] = Advance(p, at) /\ at \in Points
  BY <1>1, GoesIs DEF Points
<1>3. At(p)' = Advance(p, at).at
  BY <1>2 DEF At
<1>4. CASE Advance(p, at) = InUser
  BY <1>3, <1>4, InUserIs, InsideUser
<1>5. CASE Advance(p, at) # InUser
  <2>1. /\ call[p].page # call[p].last /\ Advance(p, at).at = at
        /\ call'[p].page = call[p].page + 1 /\ call'[p].last = call[p].last
    BY <1>1, <1>2, <1>5, AdvanceIs
  <2>2. call'[p].page <= call'[p].last /\ \A v \in call'[p].page..call'[p].last : v \in Pages \ BrkArea
    BY <2>1, <1>1
  <2>3. At(p)' \in {"mmap", "mmapMap", "unmap", "unmapClear", "mprotect"}
    BY <1>3, <2>1
  <2> QED
    BY <1>3, <2>1, <2>2, <2>3, InsideLoop
<1> QED
  BY <1>4, <1>5

\* mmap, munmap and mprotect keep OwnInv,
LEMMA OwnEnter ==
  ASSUME OwnInv, NEW p \in Procs, Entering(p)
  PROVE  OwnInv'
<1>1. MapTypes /\ AreaTypes /\ FrameTypes
  BY Pieces
<1>2. /\ At(p) = "user" /\ UNCHANGED <<pt, writable, vm, brk, locked, rc, data>>
      /\ rmap' \in [Procs -> 0..RmapSize] /\ entries' \in 0..MaxEntries
  BY <1>1, EnterEffect
<1>3. PICK r : Begun(p, r) /\ call' = [call EXCEPT ![p] = r]
  BY <1>1, EnterEffect
<1>4. Goes(p, r) /\ r.at \in {"mmap", "unmap", "mprotect"}
  BY <1>3 DEF Begun, Goes
<1>5. call' \in [Procs -> Calling] /\ call'[p] = r
  BY <1>1, <1>4, GoesIs
<1>6. MapTypes' /\ AreaTypes' /\ FrameTypes'
  BY <1>1, <1>2, <1>5 DEF MapTypes, AreaTypes, FrameTypes
<1>7. Tracked(p)'
  BY <1>2, <1>4, TrackedStays
<1>8. Inside(p)'
  BY <1>3, <1>5, InsideLoop DEF Begun, At
<1>9. Alone(p)
  BY <1>2, <1>4, AloneGoes
<1> QED
  BY <1>6, <1>7, <1>8, <1>9, AloneKeeps

\* and so does brk.
LEMMA OwnBrk ==
  ASSUME OwnInv, NEW p \in Procs, NEW n \in 1..BrkSize, Brk(p, n)
  PROVE  OwnInv'
<1>1. MapTypes /\ AreaTypes /\ FrameTypes
  BY Pieces
<1>2. /\ At(p) = "user" /\ UNCHANGED <<pt, writable, vm, brk, rmap, locked, rc, data>>
      /\ entries' \in 0..MaxEntries
  BY BrkEffect
<1>3. PICK r : /\ Goes(p, r) /\ r.at = "brk" /\ r.page = BrkBase + brk[p] /\ r.page <= r.last
               /\ r.last < BrkBase + BrkSize
  BY BrkEffect
<1>5. call' \in [Procs -> Calling] /\ call'[p] = r
  BY <1>1, <1>3, GoesIs
<1>6. MapTypes' /\ AreaTypes' /\ FrameTypes'
  BY <1>1, <1>2, <1>5 DEF MapTypes, AreaTypes, FrameTypes
<1>7. Tracked(p)'
  BY <1>2, <1>3, TrackedStays
<1>8. Inside(p)'
  BY <1>2, <1>3, <1>5 DEF Inside, At, Looping, Faulting
<1>9. Alone(p)
  BY <1>2, <1>3, AloneGoes
<1> QED
  BY <1>6, <1>7, <1>8, <1>9, AloneKeeps

\* Giving a page back keeps the frames' types.
LEMMA DropTypes ==
  ASSUME OwnInv, NEW p \in Procs, NEW v \in Pages, Drops(p, v)
  PROVE  FrameTypes'
<1>1. FrameTypes /\ (Present(p, v) => pt[p][v] \in Frames)
  BY Pieces DEF MapTypes, Present
<1> QED
  BY <1>1, DecreaseIs DEF Drops, FrameTypes

\* MmapDrop and UnmapDrop keep OwnInv: the page is then leaving.
LEMMA OwnDrop ==
  ASSUME OwnInv, NEW p \in Procs, MmapDrop(p) \/ UnmapDrop(p)
  PROVE  OwnInv'
<1>0. /\ MapTypes /\ AreaTypes /\ FrameTypes /\ call[p].page \in Nat /\ call[p].last \in Nat /\ Inside(p)
      /\ call \in [Procs -> Calling] /\ Tracked(p)
  BY Pieces
<1>1. Looping(p) /\ At(p) \in {"mmap", "unmap"}
  BY DEF MmapDrop, UnmapDrop, Looping
<1>2. PICK v \in Pages : v = call[p].page
  BY <1>1, Pieces
<1>3. /\ UNCHANGED <<pt, writable, brk, rmap, entries>> /\ Drops(p, v)
      /\ Writes(p, v, pt[p][v], IF Present(p, v) THEN {} ELSE vm[p][v])
  BY <1>2, MmapDropEffect, UnmapDropEffect
<1>4. PICK r : /\ Goes(p, r)
               /\ \/ r.at \in {"mmapMap", "unmapClear"} /\ r.page = v /\ r.last = call[p].last
                  \/ ~Present(p, v) /\ r = Advance(p, "unmap")
  BY <1>2, MmapDropEffect, UnmapDropEffect
<1>5. call' \in [Procs -> Calling] /\ call'[p] = r /\ At(p)' = r.at
  BY <1>0, <1>4, GoesIs DEF At
<1>6. r.at \in {"mmapMap", "unmapClear", "user", "unmap"} /\ Inside(p)'
  <2>1. CASE r = Advance(p, "unmap")
    BY <1>1, <1>4, <2>1, InsideAdvance
  <2>2. CASE r.at \in {"mmapMap", "unmapClear"} /\ r.page = v /\ r.last = call[p].last
    BY <1>0, <1>1, <1>2, <1>5, <2>2, InsideLoop DEF Inside
  <2> QED
    BY <2>1, <2>2, <1>4
<1>7. Proper(p, v, pt[p][v], IF Present(p, v) THEN {} ELSE vm[p][v], r, brk[p])
  <2>1. v \in BrkArea => pt[p][v] = None \/ v < BrkBase + brk[p]
    BY <1>0, Constants DEF Tracked, AreaTypes, Pages
  <2>2. (IF Present(p, v) THEN {} ELSE vm[p][v]) = {} \/ "us" \in (IF Present(p, v) THEN {} ELSE vm[p][v])
    BY <1>0 DEF Tracked
  <2>3. pt[p][v] # None => r.at \in {"mmapMap", "unmapClear", "faultMap"} /\ r.page = v
    BY <1>4 DEF Present
  <2>4. brk[p] >= brk[p]
    BY <1>0 DEF AreaTypes
  <2> QED
    BY <2>1, <2>2, <2>3, <2>4, <1>1, <1>6 DEF Proper
<1>8. Tracked(p)'
  <2>1. brk[p] \in Nat /\ brk'[p] = brk[p]
    BY <1>0, <1>3 DEF AreaTypes
  <2> QED
    BY <1>3, <1>4, <1>7, <2>1, TrackedWrites
<1>9. Alone(p)
  <2>1. r.at # "fork" /\ At(p) \notin {"fork", "new"}
    BY <1>1, <1>6
  <2>2. \A q \in Procs \ {p} : pt'[q] = pt[q] /\ vm'[q] = vm[q] /\ brk'[q] = brk[q]
    BY <1>0, <1>3, WritesRests
  <2> QED
    BY <1>4, <2>1, <2>2, AloneGoes
<1>10. MapTypes' /\ AreaTypes' /\ FrameTypes'
  BY <1>0, <1>3, <1>5, DropTypes DEF MapTypes, AreaTypes, Writes
<1> QED
  BY <1>6, <1>8, <1>9, <1>10, AloneKeeps

\* A step that writes page v and returns to a loop or to user mode.
LEMMA OwnWrites ==
  ASSUME OwnInv, NEW p \in Procs, NEW v, NEW x, NEW y, NEW r,
         Writes(p, v, x, y), Goes(p, r), Proper(p, v, x, y, r, brk'[p]),
         brk'[p] \in Nat, (\A q \in Procs \ {p} : brk'[q] = brk[q]),
         brk' \in [Procs -> 0..BrkSize], UNCHANGED <<rmap, entries>>, writable' \subseteq Procs \X Pages,
         FrameTypes', At(p) \notin {"fork", "new"}, r.at # "fork", Inside(p)'
  PROVE  OwnInv'
<1>0. MapTypes /\ AreaTypes
  BY Pieces
<1>1. call' \in [Procs -> Calling] /\ call'[p] = r
  BY <1>0, GoesIs
<1>2. Tracked(p)'
  BY TrackedWrites
<1>3. Alone(p)
  <2>1. \A q \in Procs \ {p} : pt'[q] = pt[q] /\ vm'[q] = vm[q] /\ brk'[q] = brk[q]
    BY <1>0, WritesRests
  <2> QED
    BY <2>1, AloneGoes
<1>4. MapTypes' /\ AreaTypes'
  BY <1>0, <1>1 DEF MapTypes, AreaTypes, Writes
<1> QED
  BY <1>2, <1>3, <1>4, AloneKeeps

\* brk_offset keeps up with the loop.
LEMMA BrkAdvance ==
  ASSUME OwnInv, NEW p \in Procs, At(p) = "brk", brk' = [brk EXCEPT ![p] = @ + 1],
         Goes(p, Advance(p, "brk"))
  PROVE  /\ Inside(p)' /\ Advance(p, "brk").at \in {"user", "brk"}
         /\ brk' \in [Procs -> 0..BrkSize] /\ brk'[p] = brk[p] + 1
         /\ call[p].page = BrkBase + brk[p]
<1>1. /\ AreaTypes /\ call \in [Procs -> Calling] /\ call[p].page \in Nat /\ call[p].last \in Nat
      /\ call[p].page = BrkBase + brk[p] /\ call[p].page <= call[p].last
      /\ call[p].last < BrkBase + BrkSize
  BY Pieces DEF Inside
<1>2. brk[p] \in Nat /\ brk[p] + 1 \in 0..BrkSize
  BY <1>1, Constants DEF AreaTypes
<1>3. brk' \in [Procs -> 0..BrkSize] /\ brk'[p] = brk[p] + 1
  BY <1>1, <1>2 DEF AreaTypes
<1>4. call'[p] = Advance(p, "brk") /\ At(p)' = Advance(p, "brk").at /\ "brk" \in Points
  BY <1>1, GoesIs DEF At, Points
<1>5. CASE Advance(p, "brk") = InUser
  BY <1>1, <1>3, <1>4, <1>5, InUserIs, InsideUser
<1>6. CASE Advance(p, "brk") # InUser
  <2>1. /\ call[p].page # call[p].last /\ Advance(p, "brk").at = "brk"
        /\ call'[p].page = call[p].page + 1 /\ call'[p].last = call[p].last
    BY <1>1, <1>4, <1>6, AdvanceIs
  <2>2. /\ call'[p].page = BrkBase + brk'[p] /\ call'[p].page <= call'[p].last
        /\ call'[p].last < BrkBase + BrkSize
    BY <2>1, <1>1, <1>2, <1>3, Constants
  <2>3. Inside(p)'
    BY <1>4, <2>1, <2>2 DEF Inside, Looping, Faulting
  <2> QED
    BY <1>1, <1>3, <2>1, <2>3
<1> QED
  BY <1>5, <1>6

\* MmapMap and BrkPage keep OwnInv.
LEMMA OwnMap ==
  ASSUME OwnInv, NEW p \in Procs, MmapMap(p) \/ BrkPage(p)
  PROVE  OwnInv'
<1>0. MapTypes /\ AreaTypes /\ FrameTypes /\ Tracked(p) /\ Inside(p) /\ call[p].page \in Nat /\ call[p].last \in Nat
  BY Pieces
<1>1. PICK v \in Pages : v = call[p].page
  <2>1. Looping(p) \/ At(p) = "brk"
    BY DEF MmapMap, BrkPage, Looping
  <2> QED
    BY <2>1, Pieces
<1>2. /\ Requested \in Frames /\ Take(Requested) /\ data' = [data EXCEPT ![Requested] = Zero]
      /\ Writes(p, v, Requested, OwnFlags) /\ writable' = writable \cup {<<p, v>>}
      /\ UNCHANGED <<rmap, entries>>
      /\ \/ /\ At(p) = "mmapMap" /\ brk' = brk /\ Goes(p, Advance(p, "mmap"))
         \/ /\ At(p) = "brk" /\ brk' = [brk EXCEPT ![p] = @ + 1] /\ Goes(p, Advance(p, "brk"))
  BY <1>1, MapEffect
<1>3. FrameTypes' /\ writable' \subseteq Procs \X Pages
  <2>1. Zero \in Data
    BY Constants
  <2>2. FrameTypes'
    BY <1>0, <1>2, <2>1, TakeIs
  <2>3. writable' \subseteq Procs \X Pages
    BY <1>0, <1>2 DEF MapTypes
  <2> QED
    BY <2>2, <2>3
<1>4. OwnFlags # {} /\ "us" \in OwnFlags
  BY DEF OwnFlags
<1>5. CASE At(p) = "mmapMap"
  <2>1. Looping(p) /\ brk' = brk /\ Goes(p, Advance(p, "mmap"))
    BY <1>2, <1>5 DEF Looping
  <2>2. Inside(p)' /\ Advance(p, "mmap").at \in {"user", "mmap"}
    BY <2>1, InsideAdvance
  <2>3. brk'[p] \in Nat /\ brk[p] \in Nat /\ brk' \in [Procs -> 0..BrkSize] /\ brk'[p] = brk[p]
    BY <1>0, <2>1 DEF AreaTypes
  <2>4. v \notin BrkArea
    <3>1. call[p].page <= call[p].last /\ \A w \in call[p].page..call[p].last : w \in Pages \ BrkArea
      BY <1>0, <2>1 DEF Inside
    <3> QED
      BY <3>1, <1>0, <1>1
  <2>5. Proper(p, v, Requested, OwnFlags, Advance(p, "mmap"), brk'[p])
    BY <1>1, <1>4, <1>5, <2>2, <2>3, <2>4 DEF Proper
  <2> QED
    BY <1>2, <1>3, <1>5, <2>1, <2>2, <2>3, <2>5, OwnWrites
<1>6. CASE At(p) = "brk"
  <2>1. brk' = [brk EXCEPT ![p] = @ + 1] /\ Goes(p, Advance(p, "brk"))
    BY <1>2, <1>6
  <2>2. /\ Inside(p)' /\ Advance(p, "brk").at \in {"user", "brk"}
        /\ brk' \in [Procs -> 0..BrkSize] /\ brk'[p] = brk[p] + 1 /\ v = BrkBase + brk[p]
    BY <1>1, <1>6, <2>1, BrkAdvance
  <2>3. brk[p] \in Nat /\ brk'[p] \in Nat /\ \A q \in Procs \ {p} : brk'[q] = brk[q]
    BY <1>0, <2>1, <2>2 DEF AreaTypes
  <2>4. v < BrkBase + brk'[p] /\ brk'[p] >= brk[p]
    BY <2>2, <2>3, Constants
  <2>5. Proper(p, v, Requested, OwnFlags, Advance(p, "brk"), brk'[p])
    BY <1>4, <1>6, <2>2, <2>4 DEF Proper
  <2> QED
    BY <1>2, <1>3, <1>6, <2>1, <2>2, <2>3, <2>5, OwnWrites
<1> QED
  BY <1>2, <1>5, <1>6

\* brk_offset stays.
LEMMA Stays ==
  ASSUME OwnInv, NEW p \in Procs, brk' = brk
  PROVE  /\ brk'[p] = brk[p] /\ brk[p] \in Nat /\ brk'[p] \in Nat /\ brk' \in [Procs -> 0..BrkSize]
         /\ brk'[p] >= brk[p] /\ \A q \in Procs \ {p} : brk'[q] = brk[q]
<1>1. AreaTypes
  BY Pieces
<1> QED
  BY <1>1 DEF AreaTypes

\* UnmapClear keeps OwnInv,
LEMMA OwnClear ==
  ASSUME OwnInv, NEW p \in Procs, UnmapClear(p)
  PROVE  OwnInv'
<1>0. MapTypes /\ AreaTypes /\ FrameTypes /\ Tracked(p)
  BY Pieces
<1>1. Looping(p) /\ At(p) = "unmapClear"
  BY DEF UnmapClear, Looping
<1>2. PICK v \in Pages : v = call[p].page
  BY <1>1, Pieces
<1>3. /\ UNCHANGED <<vm, brk, rmap, locked, rc, data, entries>>
      /\ Writes(p, v, None, vm[p][v]) /\ writable' = writable \ {<<p, v>>}
      /\ Goes(p, Advance(p, "unmap"))
  BY <1>2, ClearEffect
<1>4. Inside(p)' /\ Advance(p, "unmap").at \in {"user", "unmap"}
  BY <1>1, <1>3, InsideAdvance
<1>5. /\ brk'[p] \in Nat /\ brk' \in [Procs -> 0..BrkSize] /\ brk'[p] >= brk[p]
      /\ \A q \in Procs \ {p} : brk'[q] = brk[q]
  BY <1>3, Stays
<1>6. Proper(p, v, None, vm[p][v], Advance(p, "unmap"), brk'[p])
  BY <1>0, <1>1, <1>2, <1>4, <1>5 DEF Proper, Tracked
<1>7. FrameTypes' /\ writable' \subseteq Procs \X Pages
  BY <1>0, <1>3 DEF FrameTypes, MapTypes
<1> QED
  BY <1>1, <1>3, <1>4, <1>5, <1>6, <1>7, OwnWrites

\* MprotectPage too,
LEMMA OwnProtect ==
  ASSUME OwnInv, NEW p \in Procs, MprotectPage(p)
  PROVE  OwnInv'
<1>0. MapTypes /\ AreaTypes /\ FrameTypes /\ Tracked(p)
  BY Pieces
<1>1. Looping(p) /\ At(p) = "mprotect"
  BY DEF MprotectPage, Looping
<1>2. PICK v \in Pages : v = call[p].page
  BY <1>1, Pieces
<1>3. /\ UNCHANGED <<pt, brk, rmap, locked, rc, data, entries>>
      /\ \/ ~Present(p, v) /\ UNCHANGED <<writable, vm>> /\ Goes(p, InUser)
         \/ /\ Present(p, v) /\ writable' \in {writable \cup {<<p, v>>}, writable \ {<<p, v>>}}
            /\ Goes(p, Advance(p, "mprotect"))
            /\ \E y : /\ Writes(p, v, pt[p][v], y)
                      /\ "us" \in y /\ "cow" \in y /\ "pending" \notin y
  BY <1>2, ProtectEffect
<1>4. /\ brk'[p] \in Nat /\ brk' \in [Procs -> 0..BrkSize] /\ brk'[p] >= brk[p] /\ brk'[p] = brk[p]
      /\ (\A q \in Procs \ {p} : brk'[q] = brk[q]) /\ brk[p] \in Nat
  BY <1>3, Stays
<1>5. FrameTypes' /\ writable' \subseteq Procs \X Pages
  BY <1>0, <1>3 DEF FrameTypes, MapTypes
<1>6. CASE ~Present(p, v)
  <2>1. UNCHANGED <<writable, vm>> /\ Goes(p, InUser)
    BY <1>3, <1>6
  <2>2. Tracked(p)' /\ Alone(p)
    BY <1>1, <1>3, <2>1, InUserIs, TrackedStays, AloneGoes
  <2>3. call' \in [Procs -> Calling] /\ Inside(p)'
    BY <1>0, <2>1, GoesIs, InUserIs, InsideUser DEF At
  <2>4. MapTypes' /\ AreaTypes'
    BY <1>0, <1>3, <2>1, <2>3 DEF MapTypes, AreaTypes
  <2> QED
    BY <1>5, <2>2, <2>3, <2>4, AloneKeeps
<1>7. CASE Present(p, v)
  <2>1. Goes(p, Advance(p, "mprotect"))
    BY <1>3, <1>7
  <2>2. PICK y : Writes(p, v, pt[p][v], y) /\ "us" \in y
    BY <1>3, <1>7
  <2>3. Inside(p)' /\ Advance(p, "mprotect").at \in {"user", "mprotect"}
    BY <1>1, <2>1, InsideAdvance
  <2>4. v \in BrkArea => pt[p][v] = None \/ v < BrkBase + brk'[p]
    BY <1>0, <1>4, Constants DEF Tracked, Pages
  <2>5. Proper(p, v, pt[p][v], y, Advance(p, "mprotect"), brk'[p])
    BY <1>1, <1>2, <1>4, <2>2, <2>3, <2>4 DEF Proper
  <2> QED
    BY <1>1, <1>3, <1>4, <1>5, <2>1, <2>2, <2>3, <2>5, OwnWrites
<1> QED
  BY <1>6, <1>7

\* writes too,
LEMMA OwnWrite ==
  ASSUME OwnInv, NEW p \in Procs, NEW v \in Pages, NEW d \in Data, Write(p, v, d) \/ KernelWrite(p, v, d)
  PROVE  OwnInv'
<1>0. MapTypes /\ AreaTypes /\ FrameTypes
  BY Pieces
<1>1. /\ At(p) = "user" /\ data' \in [Frames -> Data] /\ entries' \in 0..MaxEntries
      /\ UNCHANGED <<pt, writable, vm, brk, rmap, locked, rc, call>>
  BY WriteEffect
<1>2. Alone(p) /\ Tracked(p)' /\ Inside(p)'
  <2>1. Rests(p) /\ \A q \in Procs : Rests(q)
    BY <1>1 DEF Rests
  <2>2. Tracked(p) /\ Inside(p)
    BY Pieces
  <2> QED
    BY <1>1, <2>1, <2>2, RestKeeps DEF Alone, At
<1>3. MapTypes' /\ AreaTypes' /\ FrameTypes'
  BY <1>0, <1>1 DEF MapTypes, AreaTypes, FrameTypes
<1> QED
  BY <1>2, <1>3, AloneKeeps

\* the first two steps of a page fault,
LEMMA OwnFault ==
  ASSUME OwnInv, NEW p \in Procs, (\E v \in Pages : FaultCopy(p, v)) \/ FaultDrop(p)
  PROVE  OwnInv'
<1>0. MapTypes /\ AreaTypes /\ FrameTypes /\ Tracked(p) /\ Inside(p)
  BY Pieces
<1>1. PICK v \in Pages : FaultCopy(p, v) \/ (FaultDrop(p) /\ v = call[p].page)
  BY Pieces DEF FaultDrop, Faulting
<1>2. /\ At(p) \in {"user", "faultDrop"} /\ Present(p, v) /\ vm[p][v] # {}
      /\ UNCHANGED <<pt, writable, vm, brk, rmap>> /\ entries' \in 0..MaxEntries /\ FrameTypes'
  <2>1. CASE FaultCopy(p, v)
    <3>1. /\ At(p) = "user" /\ Present(p, v) /\ "pending" \in vm[p][v]
          /\ Requested \in Frames /\ Take(Requested)
          /\ data' = [data EXCEPT ![Requested] = data[pt[p][v]]] /\ data[pt[p][v]] \in Data
          /\ UNCHANGED <<pt, writable, vm, brk, rmap>> /\ entries' \in 0..MaxEntries
      BY <2>1, FaultCopyEffect
    <3>2. FrameTypes'
      BY <1>0, <3>1, TakeIs
    <3> QED
      BY <3>1, <3>2
  <2>2. CASE FaultDrop(p) /\ v = call[p].page
    <3>1. /\ At(p) = "faultDrop" /\ Present(p, v) /\ pt[p][v] \in Frames
          /\ DecreaseReferenceCount(pt[p][v])
          /\ UNCHANGED <<pt, writable, vm, brk, rmap, entries>>
      BY <2>2, FaultDropEffect
    <3>2. FrameTypes'
      BY <1>0, <3>1, DecreaseIs
    <3>3. vm[p][v] # {} /\ entries' \in 0..MaxEntries
      BY <1>0, <2>2, <3>1 DEF Inside, Faulting, AreaTypes
    <3> QED
      BY <3>1, <3>2, <3>3
  <2> QED
    BY <1>1, <2>1, <2>2
<1>3. PICK r : Goes(p, r) /\ r.at \in {"faultDrop", "faultMap"} /\ r.page = v
  BY <1>1, FaultCopyEffect, FaultDropEffect
<1>4. call' \in [Procs -> Calling] /\ call'[p] = r /\ At(p)' = r.at
  BY <1>0, <1>3, GoesIs DEF At
<1>5. Inside(p)'
  BY <1>2, <1>3, <1>4 DEF Inside, Looping, Faulting, Present
<1>6. Tracked(p)' /\ Alone(p)
  BY <1>2, <1>3, TrackedStays, AloneGoes
<1>7. MapTypes' /\ AreaTypes'
  BY <1>0, <1>2, <1>4 DEF MapTypes, AreaTypes
<1> QED
  BY <1>2, <1>5, <1>6, <1>7, AloneKeeps

\* and its last.
LEMMA OwnFaultMap ==
  ASSUME OwnInv, NEW p \in Procs, FaultMap(p)
  PROVE  OwnInv'
<1>0. MapTypes /\ AreaTypes /\ FrameTypes /\ Tracked(p) /\ Inside(p)
  BY Pieces
<1>1. Faulting(p) /\ At(p) = "faultMap"
  BY DEF FaultMap, Faulting
<1>2. PICK v \in Pages : v = call[p].page
  BY <1>1, Pieces
<1>3. /\ call[p].frame \in Frames
      /\ Writes(p, v, call[p].frame, vm[p][v] \ {"pending"})
      /\ writable' = writable \cup {<<p, v>>} /\ Goes(p, InUser)
      /\ UNCHANGED <<brk, rmap, locked, rc, data, entries>>
  BY <1>2, FaultMapEffect
<1>4. call'[p] = InUser /\ Inside(p)'
  BY <1>0, <1>3, GoesIs, InUserIs, InsideUser DEF At
<1>5. /\ brk'[p] \in Nat /\ brk' \in [Procs -> 0..BrkSize] /\ brk'[p] >= brk[p] /\ brk'[p] = brk[p]
      /\ (\A q \in Procs \ {p} : brk'[q] = brk[q]) /\ brk[p] \in Nat
  BY <1>3, Stays
<1>6. Present(p, v) /\ vm[p][v] # {}
  BY <1>0, <1>1, <1>2 DEF Inside
<1>7. "us" \in vm[p][v] \ {"pending"}
  BY <1>0, <1>6 DEF Tracked
<1>8. v \in BrkArea => v < BrkBase + brk'[p]
  BY <1>0, <1>5, <1>6, Constants DEF Tracked, Pages, Present
<1>9. Proper(p, v, call[p].frame, vm[p][v] \ {"pending"}, InUser, brk'[p])
  BY <1>1, <1>2, <1>5, <1>7, <1>8, InUserIs DEF Proper
<1>10. FrameTypes' /\ writable' \subseteq Procs \X Pages
  BY <1>0, <1>3 DEF FrameTypes, MapTypes
<1>11. InUser.at # "fork"
  BY InUserIs
<1> QED
  BY <1>1, <1>3, <1>4, <1>5, <1>9, <1>10, <1>11, OwnWrites

\* No other process begins to fork the child of q.
LEMMA FamilyStays ==
  ASSUME OwnInv, NEW q \in Procs, NEW d \in Procs, Rests(q), Rests(d), At(q) = "fork", d = call[q].child,
         \A o \in Procs \ {q} : At(o)' = "fork" /\ call'[o].child = d => At(o) = "fork" /\ call[o].child = d
  PROVE  Family(q)'
<1>1. Family(q)
  BY DEF OwnInv
<1>2. /\ At(d) = "new" /\ brk[d] = brk[q] /\ call[q].page \in 1..(NPages + 1)
      /\ \A v \in Pages : pt[d][v] = IF v < call[q].page THEN pt[q][v] ELSE None
      /\ \A o \in Procs : At(o) = "fork" /\ call[o].child = d => o = q
  BY <1>1 DEF Family
<1>3. /\ At(q)' = "fork" /\ call'[q].child = d /\ call'[q].page = call[q].page
      /\ At(d)' = "new" /\ brk'[d] = brk'[q] /\ pt'[d] = pt[d] /\ pt'[q] = pt[q]
  BY <1>2 DEF Rests, At
<1>4. \A o \in Procs : At(o)' = "fork" /\ call'[o].child = d => o = q
  BY <1>2
<1> QED
  BY <1>2, <1>3, <1>4 DEF Family

\* The pages a process has mapped are tracked, unless it is leaving one.
LEMMA MappedTracked ==
  ASSUME OwnInv, NEW p \in Procs, At(p) \in {"user", "fork", "new"}, NEW v \in Pages, vm[p][v] = {}
  PROVE  pt[p][v] = None
<1>1. Tracked(p)
  BY DEF OwnInv
<1>2. ~Leaving(p, v) /\ ~Ending(p)
  BY DEF Leaving, Ending
<1> QED
  BY <1>1, <1>2 DEF Tracked, Present

\* ForkStart keeps OwnInv: the new child is nobody else's.
LEMMA OwnForkStart ==
  ASSUME OwnInv, NEW p \in Procs, NEW c \in Procs, ForkStart(p, c)
  PROVE  OwnInv'
<1>0. MapTypes /\ AreaTypes /\ FrameTypes /\ Tracked(p)
  BY Pieces
<1>1. /\ At(p) = "user" /\ At(c) = "none" /\ UNCHANGED <<pt, writable, data>> /\ entries' \in 0..MaxEntries
      /\ \E taken \in SUBSET Free :
              locked' = locked \cup taken /\ rc' = [f \in Frames |-> IF f \in taken THEN 1 ELSE rc[f]]
      /\ vm' = [vm EXCEPT ![c] = ChildMarks(p)] /\ ChildMarks(p) \in [Pages -> SUBSET Flags]
      /\ brk' = [brk EXCEPT ![c] = brk[p]] /\ rmap' = [rmap EXCEPT ![c] = rmap[p]]
  BY ForkStartEffect
<1>2. /\ call' \in [Procs -> Calling] /\ (\A q \in Procs \ {p, c} : call'[q] = call[q])
      /\ call'[p].at = "fork" /\ call'[p].child = c /\ call'[p].page = NextTracked(vm[p], 1)
      /\ call'[c].at = "new"
  BY ForkStartEffect
<1>3. c # p
  BY <1>1
<1>4. MapTypes'
  BY <1>0, <1>1 DEF MapTypes
<1>5. AreaTypes'
  BY <1>0, <1>1, <1>2 DEF AreaTypes
<1>6. FrameTypes'
  <2>1. PICK taken \in SUBSET Free :
          locked' = locked \cup taken /\ rc' = [f \in Frames |-> IF f \in taken THEN 1 ELSE rc[f]]
    BY <1>1
  <2>2. locked' \subseteq Frames /\ data' \in [Frames -> Data]
    BY <2>1, <1>0, <1>1 DEF FrameTypes, Free
  <2>3. rc' \in [Frames -> Nat]
    BY <2>1, <1>0 DEF FrameTypes
  <2> QED
    BY <2>2, <2>3 DEF FrameTypes
<1>7. At(p)' = "fork" /\ At(c)' = "new"
  BY <1>2 DEF At
<1>8. /\ pt'[p] = pt[p] /\ vm'[p] = vm[p] /\ brk'[p] = brk[p]
      /\ pt'[c] = pt[c] /\ vm'[c] = ChildMarks(p) /\ brk'[c] = brk[p]
      /\ \A q \in Procs \ {p, c} : Rests(q)
  BY <1>0, <1>1, <1>2, <1>3 DEF MapTypes, AreaTypes, Rests
<1>9. Tracked(p)' /\ Inside(p)'
  <2>1. \A w \in Pages : ~Leaving(p, w) /\ Present(p, w)' = Present(p, w)
    BY <1>1 DEF Leaving, Present
  <2>2. Tracked(p)'
    BY <1>0, <1>1, <1>7, <1>8, <2>1 DEF Tracked, Ending
  <2> QED
    BY <2>2, <1>7 DEF Inside, Looping, Faulting
<1>10. \A v \in Pages : pt[c][v] = None
  BY <1>1 DEF OwnInv, Tracked
<1>11. Tracked(c)' /\ Inside(c)'
  <2>1. \A v \in Pages : ChildMarks(p)[v] = {} \/ "us" \in ChildMarks(p)[v]
    BY <1>0 DEF ChildMarks, Tracked, StackFlags
  <2>2. \A v \in Pages : ~Present(c, v)'
    BY <1>8, <1>10 DEF Present
  <2>3. \A v \in BrkArea : pt'[c][v] = None
    BY <1>8, <1>10, Areas
  <2>4. Tracked(c)'
    BY <1>7, <1>8, <2>1, <2>2, <2>3 DEF Tracked
  <2> QED
    BY <2>4, <1>7 DEF Inside, Looping, Faulting
<1>12. Family(p)'
  <2>1. vm[p] \in [Pages -> SUBSET Flags] /\ 1 \in Nat /\ 1 > 0 /\ 1 <= NPages + 1
    BY <1>0, Constants DEF MapTypes
  <2>2. PICK n \in Nat : /\ n = NextTracked(vm[p], 1) /\ 1 <= n /\ n <= NPages + 1
                         /\ \A w \in Pages : 1 <= w /\ w < n => vm[p][w] = {}
    BY <2>1, NextIs
  <2>3. \A w \in Pages : w < n => pt[p][w] = None
    BY <2>2, <1>1, MappedTracked DEF Pages
  <2>4. n \in 1..(NPages + 1)
    BY <2>2, Constants
  <2>5. \A q \in Procs : At(q)' = "fork" /\ call'[q].child = c => q = p
    <3> SUFFICES ASSUME NEW q \in Procs, q # p, At(q)' = "fork", call'[q].child = c PROVE FALSE
      OBVIOUS
    <3>1. q # c
      BY <1>7
    <3>2. At(q) = "fork" /\ call[q].child = c
      BY <3>1, <1>8 DEF Rests, At
    <3>3. Family(q)
      BY DEF OwnInv
    <3> QED
      BY <3>2, <3>3, <1>1 DEF Family
  <2> QED
    BY <1>2, <1>7, <1>8, <1>10, <2>2, <2>3, <2>4, <2>5 DEF Family
<1>13. ASSUME NEW q \in Procs \ {p, c} PROVE Tracked(q)' /\ Inside(q)' /\ Family(q)'
  <2>1. Rests(q) /\ Tracked(q) /\ Inside(q) /\ Family(q)
    BY <1>8, <1>13 DEF OwnInv
  <2>2. CASE At(q) = "fork"
    <3>1. PICK d \in Procs : d = call[q].child /\ At(d) = "new"
      BY <2>1, <2>2 DEF Family
    <3>2. d # p /\ d # c
      BY <3>1, <1>1
    <3>3. Rests(d)
      BY <3>2, <1>8
    <3>4. ASSUME NEW o \in Procs \ {q}, At(o)' = "fork", call'[o].child = d
          PROVE  At(o) = "fork" /\ call[o].child = d
      <4>1. o # p /\ o # c
        BY <1>2, <1>7, <3>2, <3>4
      <4> QED
        BY <4>1, <1>8, <3>4 DEF Rests, At
    <3> QED
      BY <2>1, <2>2, <3>1, <3>3, <3>4, FamilyStays, RestKeeps
  <2>3. CASE At(q) # "fork"
    <3>1. At(q)' # "fork"
      BY <2>1, <2>3 DEF Rests, At
    <3> QED
      BY <2>1, <3>1, RestKeeps DEF Family
  <2> QED
    BY <2>2, <2>3
<1>14. Family(c)'
  BY <1>7 DEF Family
<1>15. TypeOK'
  BY <1>4, <1>5, <1>6, TypePartsNext
<1> QED
  BY <1>9, <1>11, <1>12, <1>13, <1>14, <1>15 DEF OwnInv

\* ForkReady keeps OwnInv: the child has all of the parent's pages.
LEMMA OwnForkReady ==
  ASSUME OwnInv, NEW p \in Procs, ForkReady(p)
  PROVE  OwnInv'
<1>0. MapTypes /\ AreaTypes /\ FrameTypes /\ Family(p)
  BY Pieces
<1>1. PICK c \in Procs : c = call[p].child /\ \A q \in Procs : At(q) = "fork" /\ call[q].child = c => q = p
  BY <1>0 DEF ForkReady, Family
<1>2. /\ At(p) = "fork" /\ At(c) = "new" /\ call[p].page > NPages
      /\ UNCHANGED <<pt, writable, vm, brk, rmap, locked, rc, data, entries>>
      /\ call' \in [Procs -> Calling] /\ call'[p] = InUser /\ call'[c] = InUser
      /\ \A q \in Procs \ {p, c} : call'[q] = call[q]
  BY <1>1, ForkReadyEffect
<1>3. TypeOK'
  <2>1. MapTypes' /\ AreaTypes' /\ FrameTypes'
    BY <1>0, <1>2 DEF MapTypes, AreaTypes, FrameTypes
  <2> QED
    BY <2>1, TypePartsNext
<1>4. At(p)' = "user" /\ At(c)' = "user" /\ \A q \in Procs \ {p, c} : Rests(q)
  BY <1>2, InUserIs DEF At, Rests
<1>5. ASSUME NEW q \in {p, c} PROVE Tracked(q)' /\ Inside(q)' /\ Family(q)'
  <2>1. Tracked(q) /\ q \in Procs /\ At(q)' = "user" /\ At(q) \in {"fork", "new"}
    BY <1>2, <1>4, <1>5 DEF OwnInv
  <2>2. \A w \in Pages : ~Leaving(q, w) /\ Present(q, w)' = Present(q, w)
    BY <1>2, <2>1 DEF Leaving, Present
  <2>3. Tracked(q)'
    BY <1>2, <2>1, <2>2 DEF Tracked, Ending
  <2> QED
    BY <2>1, <2>3 DEF Inside, Looping, Faulting, Family
<1>6. ASSUME NEW q \in Procs \ {p, c} PROVE Tracked(q)' /\ Inside(q)' /\ Family(q)'
  <2>1. Rests(q) /\ Tracked(q) /\ Inside(q) /\ Family(q)
    BY <1>4, <1>6 DEF OwnInv
  <2>2. CASE At(q) = "fork"
    <3>1. PICK d \in Procs : d = call[q].child /\ At(d) = "new"
      BY <2>1, <2>2 DEF Family
    <3>2. d # p /\ d # c
      BY <3>1, <1>1, <1>2, <1>6, <2>2
    <3>3. Rests(d)
      BY <3>2, <1>4
    <3>4. ASSUME NEW o \in Procs \ {q}, At(o)' = "fork", call'[o].child = d
          PROVE  At(o) = "fork" /\ call[o].child = d
      <4>1. o # p /\ o # c
        BY <1>4, <3>4
      <4> QED
        BY <4>1, <1>4, <3>4 DEF Rests, At
    <3> QED
      BY <2>1, <2>2, <3>1, <3>3, <3>4, FamilyStays, RestKeeps
  <2>3. CASE At(q) # "fork"
    <3>1. At(q)' # "fork"
      BY <2>1, <2>3 DEF Rests, At
    <3> QED
      BY <2>1, <3>1, RestKeeps DEF Family
  <2> QED
    BY <2>2, <2>3
<1> QED
  BY <1>3, <1>5, <1>6 DEF OwnInv

\* ForkPage keeps OwnInv: pages between two tracked ones are not mapped.
LEMMA OwnForkPage ==
  ASSUME OwnInv, NEW p \in Procs, ForkPage(p)
  PROVE  OwnInv'
<1>0. MapTypes /\ AreaTypes /\ FrameTypes /\ Family(p) /\ Tracked(p)
  BY Pieces
<1>1. PICK c \in Procs :
        /\ c = call[p].child /\ At(c) = "new" /\ brk[c] = brk[p] /\ At(p) = "fork"
        /\ \A v \in Pages : pt[c][v] = IF v < call[p].page THEN pt[p][v] ELSE None
        /\ \A q \in Procs : At(q) = "fork" /\ call[q].child = c => q = p
  BY <1>0 DEF ForkPage, Family
<1>2. PICK v \in Pages, y \in SUBSET Flags : Shared(p, c, v, y)
  BY <1>1, ForkPageEffect
<1>3. /\ v = call[p].page /\ c # p
      /\ pt' \in [Procs -> [Pages -> Frames \cup {None}]] /\ Put(pt, pt', c, v, pt[p][v])
      /\ vm' \in [Procs -> [Pages -> SUBSET Flags]]
      /\ (\A q \in Procs, w \in Pages : vm'[q][w] = IF w = v /\ q \in {p, c} THEN y ELSE vm[q][w])
      /\ y = (IF "cow" \in vm[p][v] THEN vm[p][v] \cup {"pending"} ELSE vm[p][v])
      /\ writable' \subseteq writable \cup {<<c, v>>}
      /\ UNCHANGED <<brk, rmap, locked, data, entries>>
  BY <1>2 DEF Shared
<1>4. /\ rc' = [rc EXCEPT ![Physical(p, v)] = @ + 1]
      /\ \E r : /\ Goes(p, r) /\ r.at = "fork" /\ r.page = NextTracked(vm[p], v + 1) /\ r.child = c
  BY <1>2 DEF Shared
<1>5. PICK r : /\ Goes(p, r) /\ r.at = "fork" /\ r.page = NextTracked(vm[p], v + 1) /\ r.child = c
  BY <1>4
<1>6. call' \in [Procs -> Calling] /\ call'[p] = r /\ \A q \in Procs \ {p} : call'[q] = call[q]
  BY <1>0, <1>5, GoesIs
<1>7. At(p)' = "fork" /\ At(c)' = "new"
  BY <1>1, <1>3, <1>5, <1>6 DEF At
<1>8. TypeOK'
  <2>1. MapTypes' /\ AreaTypes'
    BY <1>0, <1>3, <1>6 DEF MapTypes, AreaTypes
  <2>2. rc' \in [Frames -> Nat]
    <3>1. PICK f \in Frames : f = Physical(p, v)
      BY <1>0, Constants DEF Physical, Present, MapTypes, Frames
    <3>2. rc[f] + 1 \in Nat
      BY <1>0 DEF FrameTypes
    <3> QED
      BY <1>0, <1>4, <3>1, <3>2 DEF FrameTypes
  <2>3. FrameTypes'
    BY <1>0, <1>3, <2>2 DEF FrameTypes
  <2> QED
    BY <2>1, <2>3, TypePartsNext
<1>9. ASSUME NEW q \in Procs \ {p, c} PROVE Rests(q)
  <2>1. \A w \in Pages : pt'[q][w] = pt[q][w] /\ vm'[q][w] = vm[q][w]
    BY <1>3, <1>9 DEF Put
  <2>2. pt'[q] \in [Pages -> Frames \cup {None}] /\ pt[q] \in [Pages -> Frames \cup {None}]
        /\ vm'[q] \in [Pages -> SUBSET Flags] /\ vm[q] \in [Pages -> SUBSET Flags]
    BY <1>0, <1>3 DEF MapTypes
  <2>3. pt'[q] = pt[q]
    BY <2>1, <2>2
  <2>4. vm'[q] = vm[q]
    BY <2>1, <2>2
  <2> QED
    BY <1>3, <1>6, <2>3, <2>4 DEF Rests
<1>10. \A w \in Pages : /\ pt'[p][w] = pt[p][w] /\ pt'[c][w] = IF w = v THEN pt[p][v] ELSE pt[c][w]
                        /\ vm'[p][w] = IF w = v THEN y ELSE vm[p][w]
                        /\ vm'[c][w] = IF w = v THEN y ELSE vm[c][w]
  BY <1>3 DEF Put
<1>11. (y = {} \/ "us" \in y) /\ (y = {} => vm[p][v] = {}) /\ (y = {} => pt[p][v] = None)
  <2>1. vm[p][v] = {} => pt[p][v] = None
    BY <1>1, MappedTracked
  <2> QED
    BY <1>0, <1>3, <2>1 DEF Tracked
<1>12. \A w \in Pages : vm[p][w] = {} => pt[p][w] = None
  BY <1>1, MappedTracked
<1>13. \A w \in Pages : vm[c][w] = {} => pt[c][w] = None
  BY <1>1, MappedTracked
<1>14. Tracked(c)
  BY DEF OwnInv
<1>15. Tracked(p)' /\ Inside(p)'
  <2>1. \A w \in Pages : (vm'[p][w] = {} \/ "us" \in vm'[p][w]) /\ (Present(p, w)' => vm'[p][w] # {})
    BY <1>0, <1>10, <1>11, <1>12 DEF Tracked, Present
  <2>2. \A w \in BrkArea : w >= BrkBase + brk'[p] => pt'[p][w] = None
    BY <1>0, <1>3, <1>10, Areas DEF Tracked
  <2> QED
    BY <1>7, <2>1, <2>2 DEF Tracked, Inside, Looping, Faulting
<1>16. Tracked(c)' /\ Inside(c)' /\ Family(c)'
  <2>1. \A w \in Pages : (vm'[c][w] = {} \/ "us" \in vm'[c][w]) /\ (Present(c, w)' => vm'[c][w] # {})
    BY <1>14, <1>10, <1>11, <1>13 DEF Tracked, Present
  <2>2. \A w \in BrkArea : w >= BrkBase + brk'[c] => pt'[c][w] = None
    BY <1>0, <1>1, <1>3, <1>10, <1>14, Areas DEF Tracked
  <2> QED
    BY <1>7, <2>1, <2>2 DEF Tracked, Inside, Looping, Faulting, Family
<1>17. Family(p)'
  <2>1. vm[p] \in [Pages -> SUBSET Flags] /\ v \in Nat /\ v + 1 \in Nat /\ v + 1 > 0 /\ v + 1 <= NPages + 1
    BY <1>0, Constants DEF MapTypes, Pages
  <2>2. PICK n \in Nat : /\ n = NextTracked(vm[p], v + 1) /\ v + 1 <= n /\ n <= NPages + 1
                         /\ \A w \in Pages : v + 1 <= w /\ w < n => vm[p][w] = {}
    BY <2>1, NextIs
  <2>3. n \in 1..(NPages + 1)
    BY <2>1, <2>2, Constants
  <2>4. ASSUME NEW w \in Pages PROVE pt'[c][w] = IF w < n THEN pt'[p][w] ELSE None
    <3>0. w \in Nat /\ pt[c][w] = IF w < v THEN pt[p][w] ELSE None
      BY <1>1, <1>3, <2>4 DEF Pages
    <3>1. CASE w < v
      BY <3>0, <3>1, <1>10, <2>1, <2>2
    <3>2. CASE w = v
      BY <3>2, <1>10, <2>1, <2>2
    <3>3. CASE v < w /\ w < n
      <4>1. vm[p][w] = {}
        BY <3>0, <3>3, <2>1, <2>2
      <4>2. pt[p][w] = None /\ pt[c][w] = None
        BY <4>1, <1>12, <3>0, <3>3, <2>1
      <4> QED
        BY <3>3, <4>2, <1>10
    <3>4. CASE v < w /\ ~(w < n)
      BY <3>0, <3>4, <1>10, <2>1, <2>2
    <3> QED
      BY <3>0, <2>1, <3>1, <3>2, <3>3, <3>4
  <2>5. \A q \in Procs : At(q)' = "fork" /\ call'[q].child = c => q = p
    BY <1>1, <1>6 DEF At
  <2>6. brk'[c] = brk'[p] /\ call'[p].child = c /\ call'[p].page = n
    BY <1>1, <1>3, <1>5, <1>6, <2>2
  <2> QED
    BY <1>7, <2>3, <2>4, <2>5, <2>6 DEF Family
<1>18. ASSUME NEW q \in Procs \ {p, c} PROVE Tracked(q)' /\ Inside(q)' /\ Family(q)'
  <2>1. Rests(q) /\ Tracked(q) /\ Inside(q) /\ Family(q)
    BY <1>9, <1>18 DEF OwnInv
  <2>2. CASE At(q) = "fork"
    <3>1. PICK d \in Procs : d = call[q].child /\ At(d) = "new"
      BY <2>1, <2>2 DEF Family
    <3>2. d # p /\ d # c
      BY <3>1, <1>1, <1>18, <2>2
    <3>3. Rests(d)
      BY <3>2, <1>9
    <3>4. ASSUME NEW o \in Procs \ {q}, At(o)' = "fork", call'[o].child = d
          PROVE  At(o) = "fork" /\ call[o].child = d
      <4>1. o # p
        BY <1>5, <1>6, <3>2, <3>4
      <4> QED
        BY <4>1, <1>6, <3>4 DEF At
    <3> QED
      BY <2>1, <2>2, <3>1, <3>3, <3>4, FamilyStays, RestKeeps
  <2>3. CASE At(q) # "fork"
    <3>1. At(q)' # "fork"
      BY <2>1, <2>3 DEF Rests, At
    <3> QED
      BY <2>1, <3>1, RestKeeps DEF Family
  <2> QED
    BY <2>2, <2>3
<1> QED
  BY <1>8, <1>15, <1>16, <1>17, <1>18 DEF OwnInv

\* Exit keeps OwnInv,
LEMMA OwnExit ==
  ASSUME OwnInv, NEW p \in Procs, Exit(p)
  PROVE  OwnInv'
<1>0. MapTypes /\ AreaTypes /\ FrameTypes /\ Tracked(p)
  BY Pieces
<1>1. /\ At(p) = "user" /\ UNCHANGED <<pt, writable, brk, rmap, locked, rc, data>>
      /\ entries' \in 0..MaxEntries
      /\ vm' = [vm EXCEPT ![p] = ExitMarks(p)] /\ ExitMarks(p) \in [Pages -> SUBSET Flags]
  BY ExitEffect
<1>2. PICK r : /\ Goes(p, r) /\ r.at = "exit" /\ r.page \in Pages /\ ExitMarks(p)[r.page] # {}
               /\ \A w \in Pages : w < r.page => ExitMarks(p)[w] = {}
  BY ExitEffect
<1>3. call' \in [Procs -> Calling] /\ call'[p] = r /\ At(p)' = "exit"
  BY <1>0, <1>2, GoesIs DEF At
<1>4. MapTypes' /\ AreaTypes' /\ FrameTypes'
  BY <1>0, <1>1, <1>3 DEF MapTypes, AreaTypes, FrameTypes
<1>5. vm'[p] = ExitMarks(p) /\ \A q \in Procs \ {p} : vm'[q] = vm[q]
  BY <1>0, <1>1 DEF MapTypes
<1>6. Tracked(p)'
  <2>1. \A v \in Pages : ExitMarks(p)[v] = {} \/ "us" \in ExitMarks(p)[v]
    BY <1>0 DEF ExitMarks, Tracked
  <2> QED
    BY <1>0, <1>1, <1>3, <1>5, <2>1 DEF Tracked, Ending
<1>7. Inside(p)'
  BY <1>2, <1>3, <1>5 DEF Inside, Looping, Faulting
<1>8. Alone(p)
  <2>1. r.at # "fork" /\ At(p) \notin {"fork", "new"}
    BY <1>1, <1>2
  <2> QED
    BY <1>1, <1>2, <1>5, <2>1, AloneGoes
<1> QED
  BY <1>4, <1>6, <1>7, <1>8, AloneKeeps

\* and ExitPage.
LEMMA OwnExitPage ==
  ASSUME OwnInv, NEW p \in Procs, ExitPage(p)
  PROVE  OwnInv'
<1>0. MapTypes /\ AreaTypes /\ FrameTypes /\ Tracked(p) /\ Inside(p)
  BY Pieces
<1>1. PICK v \in Pages : v = call[p].page
  BY Pieces DEF ExitPage
<1>2. /\ At(p) = "exit" /\ Physical(p, v) \in Frames /\ DecreaseReferenceCount(Physical(p, v))
      /\ vm' \in [Procs -> [Pages -> SUBSET Flags]] /\ Put(vm, vm', p, v, {})
      /\ UNCHANGED <<brk, rmap, entries>>
  BY <1>1, ExitPageEffect
<1>3. PICK r : Goes(p, r) /\ (OnwardExit(p, v, r) \/ LastExit(p, v, r))
  BY <1>1, ExitPageEffect
<1>4. FrameTypes'
  BY <1>0, <1>2, DecreaseIs
<1>5. call' \in [Procs -> Calling] /\ call'[p] = r /\ At(p)' = r.at
  BY <1>0, <1>3, GoesIs DEF At
<1>6. /\ pt' \in [Procs -> [Pages -> Frames \cup {None}]] /\ writable' \subseteq Procs \X Pages
      /\ \A q \in Procs \ {p} : pt'[q] = pt[q]
  BY <1>0, <1>3 DEF OnwardExit, LastExit, MapTypes
<1>7. \A q \in Procs \ {p} : vm'[q] = vm[q]
  <2> SUFFICES ASSUME NEW q \in Procs \ {p} PROVE vm'[q] = vm[q]
    OBVIOUS
  <2>1. vm'[q] \in [Pages -> SUBSET Flags] /\ vm[q] \in [Pages -> SUBSET Flags]
    BY <1>0, <1>2 DEF MapTypes
  <2>2. \A w \in Pages : vm'[q][w] = vm[q][w]
    BY <1>2 DEF Put
  <2> QED
    BY <2>1, <2>2
<1>8. MapTypes' /\ AreaTypes'
  BY <1>0, <1>2, <1>5, <1>6 DEF MapTypes, AreaTypes
<1>9. \A w \in Pages : vm'[p][w] = IF w = v THEN {} ELSE vm[p][w]
  BY <1>2 DEF Put
<1>10. r.at \in {"exit", "dead"}
  BY <1>3 DEF OnwardExit, LastExit
<1>11. Tracked(p)'
  <2>1. \A w \in Pages : vm'[p][w] = {} \/ "us" \in vm'[p][w]
    BY <1>0, <1>9 DEF Tracked
  <2>2. CASE OnwardExit(p, v, r)
    BY <1>0, <1>2, <1>5, <2>1, <2>2 DEF Tracked, Ending, OnwardExit
  <2>3. CASE LastExit(p, v, r)
    <3>1. \A w \in Pages : pt'[p][w] = None
      BY <1>0, <2>3 DEF LastExit, MapTypes
    <3> QED
      BY <1>5, <1>10, <2>1, <3>1, Areas DEF Tracked, Ending
  <2> QED
    BY <1>3, <2>2, <2>3
<1>12. Inside(p)'
  <2>1. CASE OnwardExit(p, v, r)
    <3>1. r.page \in Pages /\ v < r.page /\ vm[p][r.page] # {} /\ r.at = "exit"
          /\ \A w \in Pages : v < w /\ w < r.page => vm[p][w] = {}
      BY <2>1 DEF OnwardExit
    <3>2. \A w \in Pages : w < v => vm[p][w] = {}
      BY <1>0, <1>1, <1>2 DEF Inside
    <3>3. vm'[p][r.page] # {}
      BY <3>1, <1>9 DEF Pages
    <3>4. \A w \in Pages : w < r.page => vm'[p][w] = {}
      BY <3>1, <3>2, <1>9 DEF Pages
    <3> QED
      BY <1>5, <3>1, <3>3, <3>4 DEF Inside, Looping, Faulting
  <2>2. CASE LastExit(p, v, r)
    BY <1>5, <2>2 DEF LastExit, Inside, Looping, Faulting
  <2> QED
    BY <1>3, <2>1, <2>2
<1>13. Alone(p)
  <2>1. r.at # "fork" /\ At(p) \notin {"fork", "new"}
    BY <1>2, <1>10
  <2> QED
    BY <1>2, <1>3, <1>6, <1>7, <2>1, AloneGoes
<1> QED
  BY <1>4, <1>8, <1>11, <1>12, <1>13, AloneKeeps

\* One step of p.
Steps(p) ==
  \/ Entering(p)
  \/ \E n \in 1..BrkSize : Brk(p, n)
  \/ \E v \in Pages : FaultCopy(p, v) \/ \E d \in Data \ {Zero} : Write(p, v, d) \/ KernelWrite(p, v, d)
  \/ \E c \in Procs : ForkStart(p, c)
  \/ MmapDrop(p) \/ MmapMap(p) \/ UnmapDrop(p) \/ UnmapClear(p) \/ MprotectPage(p)
  \/ BrkPage(p) \/ FaultDrop(p) \/ FaultMap(p)
  \/ ForkPage(p) \/ ForkReady(p) \/ Exit(p) \/ ExitPage(p)

\* Next in these terms.
LEMMA NextSteps == Next <=> \E p \in Procs : Steps(p)
BY DEF Next, Steps, Entering

\* Every step of a process keeps OwnInv.
LEMMA OwnStep ==
  ASSUME OwnInv, NEW p \in Procs, Steps(p)
  PROVE  OwnInv'
<1>1. CASE Entering(p) \/ \E n \in 1..BrkSize : Brk(p, n)
  BY <1>1, OwnEnter, OwnBrk
<1>2. CASE \E v \in Pages : \E d \in Data \ {Zero} : Write(p, v, d) \/ KernelWrite(p, v, d)
  BY <1>2, OwnWrite
<1>3. CASE (\E v \in Pages : FaultCopy(p, v)) \/ FaultDrop(p)
  BY <1>3, OwnFault
<1>4. CASE \E c \in Procs : ForkStart(p, c)
  BY <1>4, OwnForkStart
<1>5. CASE MmapDrop(p) \/ MmapMap(p) \/ UnmapDrop(p) \/ UnmapClear(p) \/ MprotectPage(p) \/ BrkPage(p)
  BY <1>5, OwnDrop, OwnMap, OwnClear, OwnProtect
<1>6. CASE FaultMap(p) \/ ForkPage(p) \/ ForkReady(p) \/ Exit(p) \/ ExitPage(p)
  BY <1>6, OwnFaultMap, OwnForkPage, OwnForkReady, OwnExit, OwnExitPage
<1> QED
  BY <1>1, <1>2, <1>3, <1>4, <1>5, <1>6, Zenon DEF Steps

\* OwnInv is inductive.
LEMMA OwnNext ==
  ASSUME OwnInv, [Next]_vars
  PROVE  OwnInv'
<1>1. CASE Next
  BY <1>1, NextSteps, OwnStep
<1>2. CASE UNCHANGED vars
  <2>1. /\ UNCHANGED <<pt, writable, vm, brk, rmap, locked, rc, data, call, entries>>
    BY <1>2 DEF vars
  <2>2. TypeOK'
    BY <2>1 DEF OwnInv, TypeOK
  <2>3. ASSUME NEW q \in Procs PROVE Tracked(q)' /\ Inside(q)' /\ Family(q)'
    <3>1. Tracked(q) /\ Inside(q) /\ Family(q) /\ Rests(q)
      BY <2>1, <2>3 DEF OwnInv, Rests
    <3>2. Family(q)'
      BY <2>1, <3>1 DEF Family, At
    <3> QED
      BY <3>1, <3>2, RestKeeps
  <2> QED
    BY <2>2, <2>3 DEF OwnInv
<1> QED
  BY <1>1, <1>2

\* The first process.
LEMMA OwnInit == Init => OwnInv
<1> SUFFICES ASSUME Init PROVE OwnInv
  OBVIOUS
<1>1. PICK s \in Calling : s = InUser /\ s.at = "user"
  BY InUserIs
<1>2. PICK e : e = [s EXCEPT !.at = "none"]
  OBVIOUS
<1>3. e \in Calling /\ e.at = "none"
  BY <1>2 DEF Calling, Points
<1>4. call = [p \in Procs |-> IF p = 1 THEN s ELSE e]
  BY <1>1, <1>2 DEF Init
<1>5. AreaTypes
  <2>1. 0 \in 0..BrkSize /\ 0 \in 0..RmapSize /\ 0 \in 0..MaxEntries
    BY Constants
  <2>2. call \in [Procs -> Calling]
    BY <1>3, <1>4
  <2> QED
    BY <2>1, <2>2 DEF Init, AreaTypes
<1>6. \A v \in Stack : v - NPages + StackSize \in Frames /\ v - NPages + StackSize # 0
  BY Constants DEF Stack, Frames
<1>7. MapTypes
  <2>1. pt \in [Procs -> [Pages -> Frames \cup {None}]]
    BY <1>6 DEF Init
  <2>2. writable \subseteq Procs \X Pages
    BY Constants, Areas DEF Init, Procs
  <2>3. vm \in [Procs -> [Pages -> SUBSET Flags]]
    <3>1. StackFlags \in SUBSET Flags /\ {} \in SUBSET Flags
      BY DEF StackFlags, Flags
    <3> QED
      BY <3>1 DEF Init
  <2> QED
    BY <2>1, <2>2, <2>3 DEF MapTypes
<1>8. FrameTypes
  BY Constants DEF Init, FrameTypes, Frames
<1>9. ASSUME NEW p \in Procs PROVE Tracked(p) /\ Inside(p) /\ Family(p)
  <2>1. At(p) = IF p = 1 THEN "user" ELSE "none"
    BY <1>1, <1>3, <1>4, <1>9 DEF At
  <2>2. \A v \in Pages : /\ pt[p][v] = IF p = 1 /\ v \in Stack THEN v - NPages + StackSize ELSE None
                         /\ vm[p][v] = IF p = 1 /\ v \in Stack THEN StackFlags ELSE {}
    BY <1>9 DEF Init
  <2>3. \A v \in Pages : (vm[p][v] = {} \/ "us" \in vm[p][v]) /\ (pt[p][v] # None => vm[p][v] # {})
    BY <2>2 DEF StackFlags
  <2>4. \A v \in BrkArea : pt[p][v] = None
    BY <2>2, Areas
  <2>5. At(p) \in {"none", "dead"} => \A v \in Pages : pt[p][v] = None
    BY <2>1, <2>2
  <2>6. Tracked(p)
    BY <2>3, <2>4, <2>5 DEF Tracked, Present
  <2> QED
    BY <2>1, <2>6 DEF Inside, Family, Looping, Faulting
<1> QED
  BY <1>5, <1>7, <1>8, <1>9, TypeParts DEF OwnInv

\* Tables, trackers and handlers keep their types whatever the processes call
\* and however their steps mix; brk_offset and the loops of the handlers stay
\* inside their areas (sys_brk, sys_mmap, ClonePTM, vm_tracker_t::exit).
THEOREM AddressSpaceTypes == Spec => []TypeOK
<1>1. Init => OwnInv
  BY OwnInit
<1>2. OwnInv /\ [Next]_vars => OwnInv'
  BY OwnNext
<1>3. OwnInv => TypeOK
  BY DEF OwnInv
<1> QED
  BY <1>1, <1>2, <1>3, PTL DEF Spec

-----------------------------------------------------------------------------
(* The counts.                                                             *)

\* References and Copies in terms of Entry and Copy.
LEMMA ReferencesAre ==
  ASSUME NEW f \in Frames
  PROVE  /\ References(f) = {r \in Procs \X Pages : Entry(r[1], r[2]) = f}
         /\ Copies(f) = {p \in Procs : Copy(p) = f}
<1>1. f # None
  BY Constants
<1>2. \A r \in Procs \X Pages : Entry(r[1], r[2]) = f <=>
        /\ pt[r[1]][r[2]] = f /\ ~Leaving(r[1], r[2])
        /\ At(r[1]) \in {"exit", "dead"} => vm[r[1]][r[2]] # {}
  BY <1>1 DEF Entry
<1>3. \A p \in Procs : Copy(p) = f <=> At(p) \in {"faultDrop", "faultMap"} /\ call[p].frame = f
  BY <1>1 DEF Copy
<1> QED
  BY <1>2, <1>3 DEF References, Copies

\* Also after a step.
LEMMA ReferencesAreNext ==
  ASSUME NEW f \in Frames
  PROVE  /\ References(f)' = {r \in Procs \X Pages : Entry(r[1], r[2])' = f}
         /\ Copies(f)' = {p \in Procs : Copy(p)' = f}
<1>1. f # None
  BY Constants
<1>2. \A r \in Procs \X Pages : Entry(r[1], r[2])' = f <=>
        /\ pt'[r[1]][r[2]] = f /\ ~Leaving(r[1], r[2])'
        /\ At(r[1])' \in {"exit", "dead"} => vm'[r[1]][r[2]] # {}
  BY <1>1 DEF Entry
<1>3. \A p \in Procs : Copy(p)' = f <=> At(p)' \in {"faultDrop", "faultMap"} /\ call'[p].frame = f
  BY <1>1 DEF Copy
<1> QED
  BY <1>2, <1>3 DEF References, Copies

\* They are finite.
LEMMA FiniteSubset ==
  ASSUME NEW S \in SUBSET (Procs \X Pages), NEW T \in SUBSET Procs
  PROVE  IsFiniteSet(S) /\ IsFiniteSet(T) /\ Cardinality(S) \in Nat /\ Cardinality(T) \in Nat
<1>1. IsFiniteSet(Procs) /\ IsFiniteSet(Pages)
  BY Constants, FS_Interval DEF Procs, Pages
<1>2. IsFiniteSet(Procs \X Pages)
  BY <1>1, FS_Product
<1>3. IsFiniteSet(S) /\ IsFiniteSet(T)
  BY <1>1, <1>2, FS_Subset
<1> QED
  BY <1>3, FS_CardinalityType

\* So their numbers are numbers.
LEMMA Counts ==
  ASSUME NEW f \in Frames
  PROVE  /\ IsFiniteSet(References(f)) /\ IsFiniteSet(Copies(f))
         /\ Cardinality(References(f)) \in Nat /\ Cardinality(Copies(f)) \in Nat
<1>1. References(f) \in SUBSET (Procs \X Pages) /\ Copies(f) \in SUBSET Procs
  BY ReferencesAre
<1> QED
  BY <1>1, FiniteSubset

\* How many references frame f has.
Uses(f) == Cardinality(References(f)) + Cardinality(Copies(f))

\* MappedIsCounted, frame by frame.
Counted(f) == Uses(f) > 0 => f \in locked /\ rc[f] = Uses(f)

\* Together it is MappedIsCounted.
LEMMA CountedIs == MappedIsCounted <=> \A f \in Frames \ {0} : Counted(f)
BY DEF MappedIsCounted, Counted, Uses

\* Also after a step.
LEMMA CountedIsNext == MappedIsCounted' <=> \A f \in Frames \ {0} : Counted(f)'
BY DEF MappedIsCounted, Counted, Uses

\* An entry or a copy is a use.
LEMMA UsesType ==
  ASSUME NEW f \in Frames
  PROVE  /\ Uses(f) \in Nat
         /\ \A p \in Procs, v \in Pages : Entry(p, v) = f => Uses(f) > 0
         /\ \A p \in Procs : Copy(p) = f => Uses(f) > 0
         /\ Uses(f) = 0 => References(f) = {} /\ Copies(f) = {}
<1>1. /\ IsFiniteSet(References(f)) /\ IsFiniteSet(Copies(f))
      /\ Cardinality(References(f)) \in Nat /\ Cardinality(Copies(f)) \in Nat
  BY Counts
<1>2. (Cardinality(References(f)) = 0 <=> References(f) = {}) /\ (Cardinality(Copies(f)) = 0 <=> Copies(f) = {})
  BY <1>1, FS_EmptySet
<1>3. /\ References(f) = {r \in Procs \X Pages : Entry(r[1], r[2]) = f}
      /\ Copies(f) = {p \in Procs : Copy(p) = f}
  BY ReferencesAre
<1>4. \A p \in Procs, v \in Pages : Entry(p, v) = f => <<p, v>> \in References(f)
  BY <1>3
<1>5. \A p \in Procs, v \in Pages : Entry(p, v) = f => Uses(f) > 0
  <2> SUFFICES ASSUME NEW p \in Procs, NEW v \in Pages, Entry(p, v) = f PROVE Uses(f) > 0
    OBVIOUS
  <2>1. References(f) # {}
    BY <1>4
  <2> QED
    BY <1>1, <1>2, <2>1 DEF Uses
<1>6. \A p \in Procs : Copy(p) = f => Uses(f) > 0
  BY <1>1, <1>2, <1>3 DEF Uses
<1> QED
  BY <1>1, <1>2, <1>5, <1>6 DEF Uses

\* The uses after a step.
LEMMA UsesTypeNext ==
  ASSUME NEW f \in Frames
  PROVE  Uses(f)' = Cardinality(References(f)') + Cardinality(Copies(f)')
BY DEF Uses

\* What a step does to the references.
EntryTurns(p, v, x) ==
  \A q \in Procs, w \in Pages : Entry(q, w)' = IF q = p /\ w = v THEN x ELSE Entry(q, w)

\* The copy of p becomes x and nothing else changes.
CopyTurns(p, x) == \A q \in Procs : Copy(q)' = IF q = p THEN x ELSE Copy(q)

\* Nothing about frame f changes.
LEMMA UsesStay ==
  ASSUME NEW p \in Procs, NEW v \in Pages, NEW x, NEW z, NEW f \in Frames,
         EntryTurns(p, v, x), CopyTurns(p, z),
         Entry(p, v) = f <=> x = f, Copy(p) = f <=> z = f
  PROVE  Uses(f)' = Uses(f)
<1>1. \A r \in Procs \X Pages : Entry(r[1], r[2])' = f <=> Entry(r[1], r[2]) = f
  BY DEF EntryTurns
<1>2. \A q \in Procs : Copy(q)' = f <=> Copy(q) = f
  BY DEF CopyTurns
<1>3. References(f)' = References(f)
  <2>1. /\ References(f) = {r \in Procs \X Pages : Entry(r[1], r[2]) = f}
        /\ References(f)' = {r \in Procs \X Pages : Entry(r[1], r[2])' = f}
    BY ReferencesAre, ReferencesAreNext
  <2> QED
    BY <1>1, <2>1
<1>4. Copies(f)' = Copies(f)
  <2>1. Copies(f) = {q \in Procs : Copy(q) = f} /\ Copies(f)' = {q \in Procs : Copy(q)' = f}
    BY ReferencesAre, ReferencesAreNext
  <2> QED
    BY <1>2, <2>1
<1> QED
  BY <1>3, <1>4 DEF Uses

\* One entry more.
LEMMA UsesGrow ==
  ASSUME NEW p \in Procs, NEW v \in Pages, NEW f \in Frames,
         EntryTurns(p, v, f), CopyTurns(p, Copy(p)), Entry(p, v) # f
  PROVE  Uses(f)' = Uses(f) + 1
<1>1. \A r \in Procs \X Pages : Entry(r[1], r[2])' = f <=> Entry(r[1], r[2]) = f \/ r = <<p, v>>
  BY DEF EntryTurns
<1>2. \A q \in Procs : Copy(q)' = f <=> Copy(q) = f
  BY DEF CopyTurns
<1>3. References(f)' = References(f) \cup {<<p, v>>} /\ <<p, v>> \notin References(f)
  BY <1>1, ReferencesAre, ReferencesAreNext
<1>4. Copies(f)' = Copies(f)
  <2>1. Copies(f) = {q \in Procs : Copy(q) = f} /\ Copies(f)' = {q \in Procs : Copy(q)' = f}
    BY ReferencesAre, ReferencesAreNext
  <2> QED
    BY <1>2, <2>1
<1>5. IsFiniteSet(References(f)) /\ Cardinality(References(f)) \in Nat /\ Cardinality(Copies(f)) \in Nat
  BY Counts
<1>6. Cardinality(References(f)') = Cardinality(References(f)) + 1
  BY <1>3, <1>5, FS_AddElement
<1>7. Uses(f)' = Cardinality(References(f)') + Cardinality(Copies(f)')
  BY UsesTypeNext
<1> QED
  BY <1>4, <1>5, <1>6, <1>7 DEF Uses

\* One entry less.
LEMMA UsesShrink ==
  ASSUME NEW p \in Procs, NEW v \in Pages, NEW f \in Frames, NEW x, x # f,
         EntryTurns(p, v, x), CopyTurns(p, Copy(p)), Entry(p, v) = f
  PROVE  Uses(f)' = Uses(f) - 1
<1>1. \A r \in Procs \X Pages : Entry(r[1], r[2])' = f <=> Entry(r[1], r[2]) = f /\ r # <<p, v>>
  BY DEF EntryTurns
<1>2. \A q \in Procs : Copy(q)' = f <=> Copy(q) = f
  BY DEF CopyTurns
<1>3. References(f)' = References(f) \ {<<p, v>>} /\ <<p, v>> \in References(f)
  BY <1>1, ReferencesAre, ReferencesAreNext
<1>4. Copies(f)' = Copies(f)
  <2>1. Copies(f) = {q \in Procs : Copy(q) = f} /\ Copies(f)' = {q \in Procs : Copy(q)' = f}
    BY ReferencesAre, ReferencesAreNext
  <2> QED
    BY <1>2, <2>1
<1>5. IsFiniteSet(References(f)) /\ Cardinality(References(f)) \in Nat /\ Cardinality(Copies(f)) \in Nat
  BY Counts
<1>6. Cardinality(References(f)') = Cardinality(References(f)) - 1
  BY <1>3, <1>5, FS_RemoveElement
<1>7. Uses(f)' = Cardinality(References(f)') + Cardinality(Copies(f)')
  BY UsesTypeNext
<1> QED
  BY <1>4, <1>5, <1>6, <1>7 DEF Uses

\* One copy more.
LEMMA UsesCopied ==
  ASSUME NEW p \in Procs, NEW v \in Pages, NEW f \in Frames,
         EntryTurns(p, v, Entry(p, v)), CopyTurns(p, f), Copy(p) # f
  PROVE  Uses(f)' = Uses(f) + 1
<1>1. \A r \in Procs \X Pages : Entry(r[1], r[2])' = f <=> Entry(r[1], r[2]) = f
  BY DEF EntryTurns
<1>2. \A q \in Procs : Copy(q)' = f <=> Copy(q) = f \/ q = p
  BY DEF CopyTurns
<1>3. References(f)' = References(f)
  <2>1. /\ References(f) = {r \in Procs \X Pages : Entry(r[1], r[2]) = f}
        /\ References(f)' = {r \in Procs \X Pages : Entry(r[1], r[2])' = f}
    BY ReferencesAre, ReferencesAreNext
  <2> QED
    BY <1>1, <2>1
<1>4. Copies(f)' = Copies(f) \cup {p} /\ p \notin Copies(f)
  BY <1>2, ReferencesAre, ReferencesAreNext
<1>5. IsFiniteSet(Copies(f)) /\ Cardinality(References(f)) \in Nat /\ Cardinality(Copies(f)) \in Nat
  BY Counts
<1>6. Cardinality(Copies(f)') = Cardinality(Copies(f)) + 1
  BY <1>4, <1>5, FS_AddElement
<1>7. Uses(f)' = Cardinality(References(f)') + Cardinality(Copies(f)')
  BY UsesTypeNext
<1> QED
  BY <1>3, <1>5, <1>6, <1>7 DEF Uses

\* A copy becomes an entry.
LEMMA UsesMapped ==
  ASSUME NEW p \in Procs, NEW v \in Pages, NEW f \in Frames,
         EntryTurns(p, v, f), CopyTurns(p, None), Copy(p) = f, Entry(p, v) # f
  PROVE  Uses(f)' = Uses(f)
<1>0. f # None
  BY Constants
<1>1. \A r \in Procs \X Pages : Entry(r[1], r[2])' = f <=> Entry(r[1], r[2]) = f \/ r = <<p, v>>
  BY DEF EntryTurns
<1>2. \A q \in Procs : Copy(q)' = f <=> Copy(q) = f /\ q # p
  BY <1>0 DEF CopyTurns
<1>3. References(f)' = References(f) \cup {<<p, v>>} /\ <<p, v>> \notin References(f)
  BY <1>1, ReferencesAre, ReferencesAreNext
<1>4. Copies(f)' = Copies(f) \ {p} /\ p \in Copies(f)
  BY <1>2, ReferencesAre, ReferencesAreNext
<1>5. /\ IsFiniteSet(References(f)) /\ IsFiniteSet(Copies(f))
      /\ Cardinality(References(f)) \in Nat /\ Cardinality(Copies(f)) \in Nat
  BY Counts
<1>6. Cardinality(References(f)') = Cardinality(References(f)) + 1
  BY <1>3, <1>5, FS_AddElement
<1>7. Cardinality(Copies(f)') = Cardinality(Copies(f)) - 1
  BY <1>4, <1>5, FS_RemoveElement
<1>8. Uses(f)' = Cardinality(References(f)') + Cardinality(Copies(f)')
  BY UsesTypeNext
<1> QED
  BY <1>5, <1>6, <1>7, <1>8 DEF Uses

\* A frame whose references do not change stays counted.
LEMMA CountKept ==
  ASSUME NEW f \in Frames, Counted(f), Uses(f)' = Uses(f),
         f \in locked => f \in locked' /\ rc'[f] = rc[f]
  PROVE  Counted(f)'
<1>1. Uses(f) \in Nat
  BY UsesType
<1> QED
  BY <1>1 DEF Counted

\* A step that changes no reference keeps MappedIsCounted.
LEMMA CountSame ==
  ASSUME MappedIsCounted, NEW p \in Procs, NEW v \in Pages,
         EntryTurns(p, v, Entry(p, v)), CopyTurns(p, Copy(p)),
         \A f \in locked : f \in locked' /\ rc'[f] = rc[f]
  PROVE  MappedIsCounted'
<1>1. ASSUME NEW f \in Frames \ {0} PROVE Counted(f)'
  <2>1. Counted(f)
    BY <1>1, CountedIs
  <2>2. Uses(f)' = Uses(f)
    BY <1>1, UsesStay
  <2> QED
    BY <2>1, <2>2, CountKept
<1> QED
  BY <1>1, CountedIsNext

\* DecreaseReferenceCount does, with the entry that goes.
LEMMA CountDrop ==
  ASSUME FrameTypes, MappedIsCounted, NEW p \in Procs, NEW v \in Pages, NEW g \in Frames,
         EntryTurns(p, v, None), CopyTurns(p, Copy(p)),
         Entry(p, v) = g \/ (g = 0 /\ Entry(p, v) = None), DecreaseReferenceCount(g)
  PROVE  MappedIsCounted'
<1>0. rc \in [Frames -> Nat] /\ locked \subseteq Frames
  BY DEF FrameTypes
<1>1. ASSUME NEW f \in Frames \ {0} PROVE Counted(f)'
  <2>1. Counted(f) /\ f # None
    BY <1>1, CountedIs, Constants
  <2>2. CASE f # g
    <3>1. Entry(p, v) # f
      BY <1>1, <2>1, <2>2
    <3>2. Uses(f)' = Uses(f)
      BY <2>1, <3>1, UsesStay
    <3>3. f \in locked => f \in locked' /\ rc'[f] = rc[f]
      BY <1>0, <2>2 DEF DecreaseReferenceCount
    <3> QED
      BY <2>1, <3>2, <3>3, CountKept
  <2>3. CASE f = g
    <3>1. Entry(p, v) = f
      BY <1>1, <2>3
    <3>2. Uses(f)' = Uses(f) - 1 /\ Uses(f) \in Nat /\ Uses(f) > 0
      BY <2>1, <3>1, UsesShrink, UsesType
    <3>3. f \in locked /\ rc[f] = Uses(f)
      BY <2>1, <3>2 DEF Counted
    <3>4. rc'[f] = Uses(f) - 1 /\ (Uses(f) - 1 # 0 => locked' = locked)
      BY <1>0, <2>3, <3>2, <3>3 DEF DecreaseReferenceCount
    <3> QED
      BY <3>2, <3>3, <3>4 DEF Counted
  <2> QED
    BY <2>2, <2>3
<1> QED
  BY <1>1, CountedIsNext

\* A frame nobody refers to becomes an entry, or a copy.
LEMMA CountTake ==
  ASSUME FrameTypes, MappedIsCounted, NEW p \in Procs, NEW v \in Pages, NEW g \in Frames,
         Take(g), g = 0 \/ g \notin locked,
         \/ EntryTurns(p, v, g) /\ CopyTurns(p, Copy(p)) /\ Entry(p, v) = None
         \/ EntryTurns(p, v, Entry(p, v)) /\ CopyTurns(p, g) /\ Copy(p) = None
  PROVE  MappedIsCounted'
<1>0. rc \in [Frames -> Nat] /\ locked \subseteq Frames
  BY DEF FrameTypes
<1>1. ASSUME NEW f \in Frames \ {0} PROVE Counted(f)'
  <2>1. Counted(f) /\ f # None
    BY <1>1, CountedIs, Constants
  <2>2. CASE f # g
    <3>2. Uses(f)' = Uses(f)
      <4>1. CASE EntryTurns(p, v, g) /\ CopyTurns(p, Copy(p)) /\ Entry(p, v) = None
        BY <2>1, <2>2, <4>1, UsesStay
      <4>2. CASE EntryTurns(p, v, Entry(p, v)) /\ CopyTurns(p, g) /\ Copy(p) = None
        BY <2>1, <2>2, <4>2, UsesStay
      <4> QED
        BY <4>1, <4>2
    <3>3. f \in locked => f \in locked' /\ rc'[f] = rc[f]
      BY <1>0, <2>2 DEF Take
    <3> QED
      BY <2>1, <3>2, <3>3, CountKept
  <2>3. CASE f = g
    <3>1. f \notin locked
      BY <1>1, <2>3
    <3>2. Uses(f) = 0
      BY <2>1, <3>1, UsesType DEF Counted
    <3>3. Uses(f)' = Uses(f) + 1
      BY <2>1, <2>3, UsesGrow, UsesCopied
    <3>4. f \in locked' /\ rc'[f] = 1
      BY <1>0, <1>1, <2>3 DEF Take
    <3> QED
      BY <3>2, <3>3, <3>4 DEF Counted
  <2> QED
    BY <2>2, <2>3
<1> QED
  BY <1>1, CountedIsNext

\* Mapping the copy moves a reference.
LEMMA CountMapped ==
  ASSUME MappedIsCounted, NEW p \in Procs, NEW v \in Pages, NEW g \in Frames,
         EntryTurns(p, v, g), CopyTurns(p, None), Copy(p) = g, Entry(p, v) = None, UNCHANGED <<rc, locked>>
  PROVE  MappedIsCounted'
<1>1. ASSUME NEW f \in Frames \ {0} PROVE Counted(f)'
  <2>1. Counted(f) /\ f # None
    BY <1>1, CountedIs, Constants
  <2>2. Uses(f)' = Uses(f)
    <3>1. CASE f # g
      BY <2>1, <3>1, UsesStay
    <3>2. CASE f = g
      BY <2>1, <3>2, UsesMapped
    <3> QED
      BY <3>1, <3>2
  <2> QED
    BY <2>1, <2>2, CountKept
<1> QED
  BY <1>1, CountedIsNext

\* ClonePTM's IncreaseReferenceCount does, with the entry that comes.
LEMMA CountShare ==
  ASSUME FrameTypes, MappedIsCounted, NEW p \in Procs, NEW c \in Procs, NEW v \in Pages,
         NEW x \in Frames \cup {None}, NEW g \in Frames,
         EntryTurns(c, v, x), CopyTurns(c, Copy(c)), Entry(c, v) = None, Entry(p, v) = x,
         g = IF x # None THEN x ELSE 0, rc' = [rc EXCEPT ![g] = @ + 1], locked' = locked
  PROVE  MappedIsCounted'
<1>0. rc \in [Frames -> Nat]
  BY DEF FrameTypes
<1>1. ASSUME NEW f \in Frames \ {0} PROVE Counted(f)'
  <2>1. Counted(f) /\ f # None
    BY <1>1, CountedIs, Constants
  <2>2. CASE f # x
    <3>1. Uses(f)' = Uses(f)
      BY <2>1, <2>2, UsesStay
    <3>2. rc'[f] = rc[f]
      BY <1>0, <1>1, <2>2
    <3> QED
      BY <2>1, <3>1, <3>2, CountKept
  <2>3. CASE f = x
    <3>1. Uses(f)' = Uses(f) + 1 /\ Uses(f) \in Nat /\ Uses(f) > 0
      BY <2>1, <2>3, UsesGrow, UsesType
    <3>2. f \in locked /\ rc[f] = Uses(f)
      BY <2>1, <3>1 DEF Counted
    <3>3. rc'[f] = rc[f] + 1
      BY <1>0, <2>1, <2>3
    <3> QED
      BY <3>1, <3>2, <3>3 DEF Counted
  <2> QED
    BY <2>2, <2>3
<1> QED
  BY <1>1, CountedIsNext

-----------------------------------------------------------------------------

\* Processes that rest keep their references.
LEMMA RestsRefer ==
  ASSUME NEW q \in Procs, Rests(q)
  PROVE  (\A w \in Pages : Entry(q, w)' = Entry(q, w)) /\ Copy(q)' = Copy(q)
BY DEF Rests, Entry, Copy, At, Leaving

\* How the references of p itself change.
LEMMA TurnsIs ==
  ASSUME NEW p \in Procs, NEW v \in Pages, NEW x, NEW z, (\A q \in Procs \ {p} : Rests(q)),
         \A w \in Pages : Entry(p, w)' = IF w = v THEN x ELSE Entry(p, w), Copy(p)' = z
  PROVE  EntryTurns(p, v, x) /\ CopyTurns(p, z)
BY RestsRefer DEF EntryTurns, CopyTurns

-----------------------------------------------------------------------------
(* The references each step takes and gives back.                          *)

\* Where the page at hand has no reference.
Left == {"mmapMap", "unmapClear", "faultMap"}

\* The references of a change to one entry.
LEMMA WritesTurns ==
  ASSUME OwnInv, NEW p \in Procs, NEW v, NEW x, NEW y, NEW r, Writes(p, v, x, y), Goes(p, r),
         \A q \in Procs \ {p} : brk'[q] = brk[q],
         At(p) \notin {"exit", "dead"}, r.at \notin {"exit", "dead"},
         At(p) \in Left => call[p].page = v, r.at \in Left => r.page = v
  PROVE  /\ EntryTurns(p, v, IF r.at \in Left THEN None ELSE x)
         /\ CopyTurns(p, IF r.at \in {"faultDrop", "faultMap"} THEN r.frame ELSE None)
         /\ Entry(p, v) = IF At(p) \in Left THEN None ELSE pt[p][v]
<1>0. MapTypes /\ AreaTypes /\ v \in Pages
  BY Pieces DEF Writes
<1>1. call'[p] = r /\ At(p)' = r.at /\ \A q \in Procs \ {p} : call'[q] = call[q]
  BY <1>0, GoesIs DEF At
<1>2. \A q \in Procs \ {p} : Rests(q)
  BY <1>0, <1>1, WritesRests DEF Rests
<1>3. \A w \in Pages : pt'[p][w] = IF w = v THEN x ELSE pt[p][w]
  BY DEF Writes, Put
<1>4. Entry(p, v) = IF At(p) \in Left THEN None ELSE pt[p][v]
  BY DEF Entry, Leaving, Left
<1>5. ASSUME NEW w \in Pages
      PROVE Entry(p, w)' = IF w = v THEN (IF r.at \in Left THEN None ELSE x) ELSE Entry(p, w)
  <2>1. CASE w = v
    BY <1>1, <1>3, <2>1 DEF Entry, Leaving, Left, At
  <2>2. CASE w # v
    <3>1. Entry(p, w) = pt[p][w]
      BY <2>2 DEF Entry, Leaving, Left
    <3>2. Entry(p, w)' = pt'[p][w]
      BY <1>1, <2>2 DEF Entry, Leaving, Left, At
    <3> QED
      BY <1>3, <2>2, <3>1, <3>2
  <2> QED
    BY <2>1, <2>2
<1>6. Copy(p)' = IF r.at \in {"faultDrop", "faultMap"} THEN r.frame ELSE None
  BY <1>1 DEF Copy, At
<1> QED
  BY <1>0, <1>2, <1>4, <1>5, <1>6, TurnsIs

\* The tables stay.
LEMMA WritesNothing ==
  ASSUME OwnInv, NEW p \in Procs, NEW v \in Pages, UNCHANGED <<pt, vm>>
  PROVE  Writes(p, v, pt[p][v], vm[p][v])
<1>1. MapTypes /\ pt[p][v] \in Frames \cup {None} /\ vm[p][v] \in SUBSET Flags
  BY Pieces DEF MapTypes
<1> QED
  BY <1>1, WritesIs

\* When all rest no reference changes.
LEMMA RestTurns ==
  ASSUME NEW p \in Procs, NEW v \in Pages, \A q \in Procs : Rests(q)
  PROVE  EntryTurns(p, v, Entry(p, v)) /\ CopyTurns(p, Copy(p))
BY RestsRefer DEF EntryTurns, CopyTurns

\* The references of each step: none of a call that starts,
LEMMA EnterTurns ==
  ASSUME OwnInv, NEW p \in Procs, Entering(p) \/ (\E n \in 1..BrkSize : Brk(p, n)), NEW v \in Pages
  PROVE  EntryTurns(p, v, Entry(p, v)) /\ CopyTurns(p, Copy(p)) /\ UNCHANGED <<locked, rc>>
<1>0. AreaTypes
  BY Pieces
<1>1. At(p) = "user" /\ UNCHANGED <<pt, writable, vm, brk, locked, rc, data>>
  BY <1>0, EnterEffect, BrkEffect
<1>2. PICK r : Goes(p, r) /\ r.at \in {"mmap", "unmap", "mprotect", "brk"}
  <2>1. CASE Entering(p)
    BY <1>0, <2>1, EnterEffect DEF Begun, Goes
  <2>2. CASE \E n \in 1..BrkSize : Brk(p, n)
    BY <2>2, BrkEffect
  <2> QED
    BY <2>1, <2>2
<1>3. Writes(p, v, pt[p][v], vm[p][v])
  BY <1>1, WritesNothing
<1>4. /\ EntryTurns(p, v, IF r.at \in Left THEN None ELSE pt[p][v])
      /\ CopyTurns(p, IF r.at \in {"faultDrop", "faultMap"} THEN r.frame ELSE None)
      /\ Entry(p, v) = IF At(p) \in Left THEN None ELSE pt[p][v]
  <2>1. /\ At(p) \notin {"exit", "dead"} /\ r.at \notin {"exit", "dead"} /\ At(p) \notin Left /\ r.at \notin Left
    BY <1>1, <1>2 DEF Left
  <2> QED
    BY <1>1, <1>2, <1>3, <2>1, WritesTurns
<1>5. Copy(p) = None
  BY <1>1 DEF Copy
<1>6. r.at \notin Left /\ r.at \notin {"faultDrop", "faultMap"} /\ At(p) \notin Left
  BY <1>1, <1>2 DEF Left
<1> QED
  BY <1>1, <1>4, <1>5, <1>6

\* one less for MmapDrop and UnmapDrop,
LEMMA DropTurns ==
  ASSUME OwnInv, NEW p \in Procs, MmapDrop(p) \/ UnmapDrop(p), NEW v \in Pages, v = call[p].page
  PROVE  /\ EntryTurns(p, v, None) /\ CopyTurns(p, Copy(p)) /\ Entry(p, v) = pt[p][v] /\ Drops(p, v)
         /\ Copy(p) = None
<1>0. AreaTypes
  BY Pieces
<1>1. At(p) \in {"mmap", "unmap"} /\ Looping(p)
  BY DEF MmapDrop, UnmapDrop, Looping
<1>3. /\ UNCHANGED <<pt, writable, brk, rmap, entries>> /\ Drops(p, v)
      /\ Writes(p, v, pt[p][v], IF Present(p, v) THEN {} ELSE vm[p][v])
  BY MmapDropEffect, UnmapDropEffect
<1>4. PICK r : /\ Goes(p, r)
               /\ \/ r.at \in {"mmapMap", "unmapClear"} /\ r.page = v
                  \/ ~Present(p, v) /\ r = Advance(p, "unmap")
  BY MmapDropEffect, UnmapDropEffect
<1>5. (r.at \in {"mmapMap", "unmapClear"} /\ r.page = v) \/ (~Present(p, v) /\ r.at \in {"user", "unmap"})
  BY <1>1, <1>4, InsideAdvance
<1>6. /\ At(p) \notin {"exit", "dead"} /\ r.at \notin {"exit", "dead"} /\ At(p) \notin Left
      /\ (r.at \in Left => r.page = v) /\ r.at \notin {"faultDrop", "faultMap"}
      /\ (r.at \in Left \/ pt[p][v] = None)
  BY <1>1, <1>5 DEF Left, Present
<1>7. /\ EntryTurns(p, v, IF r.at \in Left THEN None ELSE pt[p][v])
      /\ CopyTurns(p, IF r.at \in {"faultDrop", "faultMap"} THEN r.frame ELSE None)
      /\ Entry(p, v) = IF At(p) \in Left THEN None ELSE pt[p][v]
  BY <1>3, <1>4, <1>6, WritesTurns
<1>8. Copy(p) = None
  BY <1>1 DEF Copy
<1> QED
  BY <1>3, <1>6, <1>7, <1>8

\* one more for MmapMap and BrkPage,
LEMMA MapTurns ==
  ASSUME OwnInv, NEW p \in Procs, MmapMap(p) \/ BrkPage(p), NEW v \in Pages, v = call[p].page
  PROVE  /\ EntryTurns(p, v, Requested) /\ CopyTurns(p, Copy(p)) /\ Entry(p, v) = None
         /\ Requested \in Frames /\ Take(Requested) /\ Copy(p) = None
<1>0. AreaTypes /\ Tracked(p) /\ Inside(p) /\ call[p].last \in Nat
  BY Pieces
<1>1. /\ Requested \in Frames /\ Take(Requested) /\ Writes(p, v, Requested, OwnFlags)
      /\ \/ /\ At(p) = "mmapMap" /\ brk' = brk /\ Goes(p, Advance(p, "mmap"))
         \/ /\ At(p) = "brk" /\ brk' = [brk EXCEPT ![p] = @ + 1] /\ Goes(p, Advance(p, "brk"))
  BY MapEffect
<1>2. PICK r : Goes(p, r) /\ r.at \in {"user", "mmap", "brk"}
  <2>1. CASE At(p) = "mmapMap"
    BY <1>1, <2>1, InsideAdvance DEF Looping
  <2>2. CASE At(p) = "brk"
    BY <1>1, <2>2, BrkAdvance
  <2> QED
    BY <1>1, <2>1, <2>2
<1>3. /\ At(p) \notin {"exit", "dead"} /\ r.at \notin {"exit", "dead"} /\ r.at \notin Left
      /\ r.at \notin {"faultDrop", "faultMap"}
  BY <1>1, <1>2 DEF Left
<1>4. \A q \in Procs \ {p} : brk'[q] = brk[q]
  BY <1>0, <1>1 DEF AreaTypes
<1>5. /\ EntryTurns(p, v, IF r.at \in Left THEN None ELSE Requested)
      /\ CopyTurns(p, IF r.at \in {"faultDrop", "faultMap"} THEN r.frame ELSE None)
      /\ Entry(p, v) = IF At(p) \in Left THEN None ELSE pt[p][v]
  BY <1>1, <1>2, <1>3, <1>4, WritesTurns
<1>6. Entry(p, v) = None
  <2>1. CASE At(p) = "mmapMap"
    BY <1>5, <2>1 DEF Left
  <2>2. CASE At(p) = "brk"
    <3>1. v = BrkBase + brk[p] /\ v <= call[p].last /\ call[p].last < BrkBase + BrkSize /\ brk[p] \in Nat /\ v \in Nat
      BY <1>0, <2>2 DEF Inside, AreaTypes, Pages
    <3>2. v \in BrkArea /\ v >= BrkBase + brk[p]
      BY <1>0, <3>1, Constants DEF BrkArea
    <3>3. pt[p][v] = None
      BY <1>0, <3>2 DEF Tracked
    <3> QED
      BY <1>5, <2>2, <3>3 DEF Left
  <2> QED
    BY <1>1, <2>1, <2>2
<1>7. Copy(p) = None
  BY <1>1 DEF Copy
<1> QED
  BY <1>1, <1>3, <1>5, <1>6, <1>7

\* Clearing an entry that was left, or protecting a page: x stays what p refers to.
Keeps(p, v, r, x, y) ==
  /\ Goes(p, r) /\ r.at \in {"user", "unmap", "mprotect"} /\ Writes(p, v, x, y)
  /\ (At(p) = "unmapClear" /\ x = None) \/ (At(p) = "mprotect" /\ x = pt[p][v])

\* and that is no change for UnmapClear and MprotectPage.
LEMMA StayTurns ==
  ASSUME OwnInv, NEW p \in Procs, UnmapClear(p) \/ MprotectPage(p), NEW v \in Pages, v = call[p].page
  PROVE  EntryTurns(p, v, Entry(p, v)) /\ CopyTurns(p, Copy(p)) /\ UNCHANGED <<locked, rc, data>>
         /\ Copy(p) = None
<1>0. AreaTypes
  BY Pieces
<1>1. Looping(p) /\ At(p) \in {"unmapClear", "mprotect"}
  BY DEF UnmapClear, MprotectPage, Looping
<1>2. UNCHANGED <<brk, locked, rc, data>>
  BY ClearEffect, ProtectEffect
<1>3. PICK r, x, y : Keeps(p, v, r, x, y)
  <2>1. CASE UnmapClear(p)
    <3>1. /\ At(p) = "unmapClear" /\ Writes(p, v, None, vm[p][v]) /\ Goes(p, Advance(p, "unmap"))
      BY <2>1, ClearEffect
    <3>2. Advance(p, "unmap").at \in {"user", "unmap"}
      BY <1>1, <3>1, InsideAdvance
    <3>3. Keeps(p, v, Advance(p, "unmap"), None, vm[p][v])
      BY <3>1, <3>2 DEF Keeps
    <3> QED
      BY <3>3
  <2>2. CASE MprotectPage(p)
    <3>1. /\ At(p) = "mprotect" /\ UNCHANGED <<pt, brk, rmap, locked, rc, data, entries>>
          /\ \/ ~Present(p, v) /\ UNCHANGED <<writable, vm>> /\ Goes(p, InUser)
             \/ /\ Goes(p, Advance(p, "mprotect")) /\ \E y : Writes(p, v, pt[p][v], y)
      BY <2>2, ProtectEffect
    <3>2. CASE UNCHANGED <<writable, vm>> /\ Goes(p, InUser)
      <4>1. Keeps(p, v, InUser, pt[p][v], vm[p][v])
        BY <3>1, <3>2, InUserIs, WritesNothing DEF Keeps
      <4> QED
        BY <4>1
    <3>3. CASE Goes(p, Advance(p, "mprotect")) /\ \E y : Writes(p, v, pt[p][v], y)
      <4>1. Advance(p, "mprotect").at \in {"user", "mprotect"}
        BY <1>1, <3>3, InsideAdvance
      <4>2. PICK y : Writes(p, v, pt[p][v], y)
        BY <3>3
      <4>3. Keeps(p, v, Advance(p, "mprotect"), pt[p][v], y)
        BY <3>1, <3>3, <4>1, <4>2 DEF Keeps
      <4> QED
        BY <4>3
    <3> QED
      BY <3>1, <3>2, <3>3
  <2> QED
    BY <2>1, <2>2
<1>4. /\ At(p) \notin {"exit", "dead"} /\ r.at \notin {"exit", "dead"} /\ r.at \notin Left
      /\ r.at \notin {"faultDrop", "faultMap"}
  BY <1>1, <1>3 DEF Left, Keeps
<1>5. /\ EntryTurns(p, v, IF r.at \in Left THEN None ELSE x)
      /\ CopyTurns(p, IF r.at \in {"faultDrop", "faultMap"} THEN r.frame ELSE None)
      /\ Entry(p, v) = IF At(p) \in Left THEN None ELSE pt[p][v]
  <2>1. Goes(p, r) /\ Writes(p, v, x, y)
    BY <1>3 DEF Keeps
  <2> QED
    BY <1>2, <1>4, <2>1, WritesTurns
<1>6. Entry(p, v) = x
  BY <1>3, <1>5 DEF Left, Keeps
<1>7. Copy(p) = None
  BY <1>1 DEF Copy
<1> QED
  BY <1>2, <1>4, <1>5, <1>6, <1>7

\* A page fault takes a reference to the copy,
LEMMA FaultCopyTurns ==
  ASSUME OwnInv, NEW p \in Procs, NEW v \in Pages, FaultCopy(p, v)
  PROVE  /\ EntryTurns(p, v, Entry(p, v)) /\ CopyTurns(p, Requested) /\ Copy(p) = None
         /\ Entry(p, v) = pt[p][v] /\ Requested \in Frames /\ Take(Requested)
<1>1. /\ At(p) = "user" /\ Requested \in Frames /\ Take(Requested)
      /\ UNCHANGED <<pt, writable, vm, brk, rmap>>
  BY FaultCopyEffect
<1>2. PICK r : Goes(p, r) /\ r.at = "faultDrop" /\ r.page = v /\ r.frame = Requested
  BY FaultCopyEffect
<1>3. Writes(p, v, pt[p][v], vm[p][v])
  BY <1>1, WritesNothing
<1>4. /\ At(p) \notin {"exit", "dead"} /\ r.at \notin {"exit", "dead"} /\ r.at \notin Left /\ At(p) \notin Left
  BY <1>1, <1>2 DEF Left
<1>5. /\ EntryTurns(p, v, IF r.at \in Left THEN None ELSE pt[p][v])
      /\ CopyTurns(p, IF r.at \in {"faultDrop", "faultMap"} THEN r.frame ELSE None)
      /\ Entry(p, v) = IF At(p) \in Left THEN None ELSE pt[p][v]
  BY <1>1, <1>2, <1>3, <1>4, WritesTurns
<1>6. Copy(p) = None
  BY <1>1 DEF Copy
<1> QED
  BY <1>1, <1>2, <1>4, <1>5, <1>6

\* gives back the old one,
LEMMA FaultDropTurns ==
  ASSUME OwnInv, NEW p \in Procs, FaultDrop(p), NEW v \in Pages, v = call[p].page
  PROVE  /\ EntryTurns(p, v, None) /\ CopyTurns(p, Copy(p)) /\ Copy(p) = call[p].frame
         /\ Entry(p, v) = pt[p][v] /\ pt[p][v] \in Frames /\ DecreaseReferenceCount(pt[p][v])
<1>1. /\ At(p) = "faultDrop" /\ Present(p, v) /\ pt[p][v] \in Frames
      /\ DecreaseReferenceCount(pt[p][v]) /\ UNCHANGED <<pt, writable, vm, brk, rmap, entries>>
  BY FaultDropEffect
<1>2. PICK r : Goes(p, r) /\ r.at = "faultMap" /\ r.page = v /\ r.frame = call[p].frame
  BY FaultDropEffect
<1>3. Writes(p, v, pt[p][v], vm[p][v])
  BY <1>1, WritesNothing
<1>4. /\ At(p) \notin {"exit", "dead"} /\ r.at \notin {"exit", "dead"} /\ r.at \in Left /\ At(p) \notin Left
  BY <1>1, <1>2 DEF Left
<1>5. /\ EntryTurns(p, v, IF r.at \in Left THEN None ELSE pt[p][v])
      /\ CopyTurns(p, IF r.at \in {"faultDrop", "faultMap"} THEN r.frame ELSE None)
      /\ Entry(p, v) = IF At(p) \in Left THEN None ELSE pt[p][v]
  BY <1>1, <1>2, <1>3, <1>4, WritesTurns
<1>6. Copy(p) = call[p].frame
  BY <1>1 DEF Copy
<1> QED
  BY <1>1, <1>2, <1>4, <1>5, <1>6

\* and maps the copy.
LEMMA FaultMapTurns ==
  ASSUME OwnInv, NEW p \in Procs, FaultMap(p), NEW v \in Pages, v = call[p].page
  PROVE  /\ EntryTurns(p, v, call[p].frame) /\ CopyTurns(p, None) /\ Copy(p) = call[p].frame
         /\ Entry(p, v) = None /\ call[p].frame \in Frames /\ UNCHANGED <<locked, rc, data>>
<1>1. /\ At(p) = "faultMap" /\ call[p].frame \in Frames /\ Writes(p, v, call[p].frame, vm[p][v] \ {"pending"})
      /\ Goes(p, InUser) /\ UNCHANGED <<brk, rmap, locked, rc, data, entries>>
  BY FaultMapEffect
<1>4. /\ At(p) \notin {"exit", "dead"} /\ InUser.at \notin {"exit", "dead"} /\ InUser.at \notin Left /\ At(p) \in Left
      /\ InUser.at \notin {"faultDrop", "faultMap"}
  BY <1>1, InUserIs DEF Left
<1>5. /\ EntryTurns(p, v, IF InUser.at \in Left THEN None ELSE call[p].frame)
      /\ CopyTurns(p, IF InUser.at \in {"faultDrop", "faultMap"} THEN InUser.frame ELSE None)
      /\ Entry(p, v) = IF At(p) \in Left THEN None ELSE pt[p][v]
  BY <1>1, <1>4, WritesTurns
<1>6. Copy(p) = call[p].frame
  BY <1>1 DEF Copy
<1> QED
  BY <1>1, <1>4, <1>5, <1>6

\* ForkStart only takes free frames.
LEMMA ForkStartTurns ==
  ASSUME OwnInv, NEW p \in Procs, NEW c \in Procs, ForkStart(p, c), NEW v \in Pages
  PROVE  /\ EntryTurns(p, v, Entry(p, v)) /\ CopyTurns(p, Copy(p))
         /\ \A f \in locked : f \in locked' /\ rc'[f] = rc[f]
<1>0. MapTypes /\ AreaTypes /\ FrameTypes
  BY Pieces
<1>1. /\ At(p) = "user" /\ At(c) = "none" /\ UNCHANGED <<pt, writable, data>>
      /\ vm' = [vm EXCEPT ![c] = ChildMarks(p)] /\ brk' = [brk EXCEPT ![c] = brk[p]]
      /\ (\A q \in Procs \ {p, c} : call'[q] = call[q]) /\ call'[p].at = "fork" /\ call'[c].at = "new"
  BY ForkStartEffect
<1>2. PICK taken \in SUBSET Free :
        locked' = locked \cup taken /\ rc' = [f \in Frames |-> IF f \in taken THEN 1 ELSE rc[f]]
  BY ForkStartEffect
<1>3. \A f \in locked : f \in locked' /\ rc'[f] = rc[f]
  BY <1>0, <1>2 DEF FrameTypes, Free
<1>4. ASSUME NEW q \in Procs, NEW w \in Pages PROVE Entry(q, w)' = Entry(q, w) /\ Copy(q)' = Copy(q)
  <2>1. CASE q \in {p, c}
    <3>1. At(q) \in {"user", "none"} /\ At(q)' \in {"fork", "new"}
      BY <1>1, <2>1 DEF At
    <3> QED
      BY <1>1, <3>1 DEF Entry, Copy, Leaving
  <2>2. CASE q \notin {p, c}
    <3>1. Rests(q)
      BY <1>0, <1>1, <1>4, <2>2 DEF Rests, MapTypes, AreaTypes
    <3> QED
      BY <1>4, <3>1, RestsRefer
  <2> QED
    BY <2>1, <2>2
<1> QED
  BY <1>3, <1>4 DEF EntryTurns, CopyTurns

\* ForkReady changes no reference.
LEMMA ForkReadyTurns ==
  ASSUME OwnInv, NEW p \in Procs, ForkReady(p), NEW v \in Pages
  PROVE  EntryTurns(p, v, Entry(p, v)) /\ CopyTurns(p, Copy(p)) /\ UNCHANGED <<locked, rc, data>>
<1>0. PICK c \in Procs : c = call[p].child
  BY Pieces DEF ForkReady, Family
<1>1. /\ At(p) = "fork" /\ At(c) = "new" /\ UNCHANGED <<pt, writable, vm, brk, rmap, locked, rc, data, entries>>
      /\ call'[p] = InUser /\ call'[c] = InUser /\ \A q \in Procs \ {p, c} : call'[q] = call[q]
  BY <1>0, ForkReadyEffect
<1>4. ASSUME NEW q \in Procs, NEW w \in Pages PROVE Entry(q, w)' = Entry(q, w) /\ Copy(q)' = Copy(q)
  <2>1. CASE q \in {p, c}
    <3>1. At(q) \in {"fork", "new"} /\ At(q)' = "user"
      BY <1>1, <2>1, InUserIs DEF At
    <3> QED
      BY <1>1, <3>1 DEF Entry, Copy, Leaving
  <2>2. CASE q \notin {p, c}
    <3>1. Rests(q)
      BY <1>1, <1>4, <2>2 DEF Rests
    <3> QED
      BY <1>4, <3>1, RestsRefer
  <2> QED
    BY <2>1, <2>2
<1> QED
  BY <1>1, <1>4 DEF EntryTurns, CopyTurns

\* ForkPage gives the child's entry one.
LEMMA ForkPageTurns ==
  ASSUME OwnInv, NEW p \in Procs, ForkPage(p), NEW c \in Procs, c = call[p].child,
         NEW v \in Pages, NEW y \in SUBSET Flags, Shared(p, c, v, y)
  PROVE  /\ EntryTurns(c, v, pt[p][v]) /\ CopyTurns(c, Copy(c))
         /\ Entry(c, v) = None /\ Entry(p, v) = pt[p][v] /\ pt[p][v] \in Frames \cup {None}
         /\ rc' = [rc EXCEPT ![Physical(p, v)] = @ + 1] /\ locked' = locked /\ Physical(p, v) \in Frames
         /\ Copy(c) = None
<1>0. MapTypes /\ AreaTypes /\ Family(p)
  BY Pieces
<1>1. /\ v = call[p].page /\ At(p) = "fork" /\ c # p /\ Put(pt, pt', c, v, pt[p][v])
      /\ (\A q \in Procs, w \in Pages : vm'[q][w] = IF w = v /\ q \in {p, c} THEN y ELSE vm[q][w])
      /\ rc' = [rc EXCEPT ![Physical(p, v)] = @ + 1] /\ locked' = locked
      /\ \E r : Goes(p, r) /\ r.at = "fork"
  BY DEF Shared
<1>2. At(c) = "new" /\ pt[c][v] = None
  BY <1>0, <1>1 DEF Family, Pages
<1>3. PICK r : Goes(p, r) /\ r.at = "fork"
  BY <1>1
<1>4. At(p)' = "fork" /\ \A q \in Procs \ {p} : call'[q] = call[q] /\ At(q)' = At(q)
  BY <1>0, <1>3, GoesIs DEF At
<1>5. Physical(p, v) \in Frames /\ pt[p][v] \in Frames \cup {None}
  BY <1>0, Constants DEF Physical, Present, MapTypes, Frames
<1>6. Entry(c, v) = None /\ Entry(p, v) = pt[p][v]
  BY <1>1, <1>2 DEF Entry, Leaving
<1>7. ASSUME NEW q \in Procs, NEW w \in Pages
      PROVE  Entry(q, w)' = IF q = c /\ w = v THEN pt[p][v] ELSE Entry(q, w)
  <2>1. pt'[q][w] = IF q = c /\ w = v THEN pt[p][v] ELSE pt[q][w]
    BY <1>1, <1>7 DEF Put
  <2>2. CASE q \in {p, c}
    <3>1. At(q) \in {"fork", "new"} /\ At(q)' \in {"fork", "new"}
      BY <1>1, <1>2, <1>4, <2>2
    <3> QED
      BY <2>1, <3>1 DEF Entry, Leaving
  <2>3. CASE q \notin {p, c}
    <3>1. pt'[q][w] = pt[q][w] /\ vm'[q][w] = vm[q][w] /\ call'[q] = call[q] /\ At(q)' = At(q)
      BY <1>1, <1>4, <1>7, <2>1, <2>3
    <3> QED
      BY <2>3, <3>1 DEF Entry, Leaving
  <2> QED
    BY <2>2, <2>3
<1>8. ASSUME NEW q \in Procs PROVE Copy(q)' = Copy(q)
  BY <1>1, <1>4, <1>8 DEF Copy
<1>9. Copy(c) = None
  BY <1>2 DEF Copy
<1> QED
  BY <1>1, <1>5, <1>6, <1>7, <1>8, <1>9 DEF EntryTurns, CopyTurns

\* Exit changes no reference: what it marks anew is not mapped or counted.
LEMMA ExitTurns ==
  ASSUME OwnInv, NEW p \in Procs, Exit(p), NEW v \in Pages
  PROVE  EntryTurns(p, v, Entry(p, v)) /\ CopyTurns(p, Copy(p)) /\ UNCHANGED <<locked, rc, data>>
<1>0. MapTypes /\ AreaTypes
  BY Pieces
<1>1. /\ At(p) = "user" /\ UNCHANGED <<pt, writable, brk, rmap, locked, rc, data>>
      /\ vm' = [vm EXCEPT ![p] = ExitMarks(p)]
  BY ExitEffect
<1>2. PICK r : Goes(p, r) /\ r.at = "exit"
  BY ExitEffect
<1>3. call'[p] = r /\ At(p)' = "exit" /\ \A q \in Procs \ {p} : call'[q] = call[q]
  BY <1>0, <1>2, GoesIs DEF At
<1>4. \A q \in Procs \ {p} : Rests(q)
  BY <1>0, <1>1, <1>3 DEF Rests, MapTypes
<1>5. ASSUME NEW w \in Pages PROVE Entry(p, w)' = Entry(p, w)
  <2>1. vm'[p][w] = {} => vm[p][w] = {}
    BY <1>0, <1>1, <1>5 DEF ExitMarks, MapTypes
  <2>2. vm'[p][w] = {} => pt[p][w] = None
    BY <1>1, <1>5, <2>1, MappedTracked
  <2>3. Entry(p, w) = pt[p][w]
    BY <1>1 DEF Entry, Leaving
  <2> QED
    BY <1>1, <1>3, <2>2, <2>3 DEF Entry, Leaving
<1>6. Copy(p)' = None /\ Copy(p) = None
  BY <1>1, <1>3 DEF Copy
<1> QED
  BY <1>1, <1>4, <1>5, <1>6, TurnsIs

\* ExitPage gives one back.
LEMMA ExitPageTurns ==
  ASSUME OwnInv, NEW p \in Procs, ExitPage(p), NEW v \in Pages, v = call[p].page
  PROVE  /\ EntryTurns(p, v, None) /\ CopyTurns(p, Copy(p)) /\ Copy(p) = None
         /\ Entry(p, v) = pt[p][v] /\ Physical(p, v) \in Frames /\ DecreaseReferenceCount(Physical(p, v))
<1>0. MapTypes /\ AreaTypes /\ Inside(p)
  BY Pieces
<1>1. /\ At(p) = "exit" /\ Physical(p, v) \in Frames /\ DecreaseReferenceCount(Physical(p, v))
      /\ vm' \in [Procs -> [Pages -> SUBSET Flags]] /\ Put(vm, vm', p, v, {})
      /\ UNCHANGED <<brk, rmap, entries>>
  BY ExitPageEffect
<1>2. PICK r : Goes(p, r) /\ (OnwardExit(p, v, r) \/ LastExit(p, v, r))
  BY ExitPageEffect
<1>3. call'[p] = r /\ At(p)' = r.at /\ \A q \in Procs \ {p} : call'[q] = call[q]
  BY <1>0, <1>2, GoesIs DEF At
<1>4. r.at \in {"exit", "dead"}
  BY <1>2 DEF OnwardExit, LastExit
<1>5. \A q \in Procs \ {p} : Rests(q)
  <2> SUFFICES ASSUME NEW q \in Procs \ {p} PROVE Rests(q)
    OBVIOUS
  <2>1. vm'[q] \in [Pages -> SUBSET Flags] /\ vm[q] \in [Pages -> SUBSET Flags]
    BY <1>0, <1>1 DEF MapTypes
  <2>2. \A w \in Pages : vm'[q][w] = vm[q][w]
    BY <1>1 DEF Put
  <2>3. vm'[q] = vm[q]
    BY <2>1, <2>2
  <2>4. pt'[q] = pt[q]
    BY <1>0, <1>2 DEF OnwardExit, LastExit, MapTypes
  <2> QED
    BY <1>1, <1>3, <2>3, <2>4 DEF Rests
<1>6. vm[p][v] # {} /\ \A w \in Pages : w < v => vm[p][w] = {}
  BY <1>0, <1>1 DEF Inside
<1>7. \A w \in Pages : vm'[p][w] = IF w = v THEN {} ELSE vm[p][w]
  BY <1>1 DEF Put
<1>8. Entry(p, v) = pt[p][v]
  BY <1>1, <1>6 DEF Entry, Leaving
<1>9. ASSUME NEW w \in Pages PROVE Entry(p, w)' = IF w = v THEN None ELSE Entry(p, w)
  <2>1. CASE w = v
    BY <1>3, <1>4, <1>7, <2>1 DEF Entry, Leaving
  <2>2. CASE w # v /\ OnwardExit(p, v, r)
    <3>1. pt'[p][w] = pt[p][w] /\ vm'[p][w] = vm[p][w] /\ At(p)' = "exit"
      BY <1>3, <1>7, <1>9, <2>2 DEF OnwardExit
    <3> QED
      BY <1>1, <2>2, <3>1 DEF Entry, Leaving
  <2>3. CASE w # v /\ LastExit(p, v, r)
    <3>1. vm[p][w] = {}
      BY <1>6, <1>9, <2>3 DEF LastExit, Pages
    <3>2. vm'[p][w] = {}
      BY <1>7, <1>9, <2>3, <3>1
    <3> QED
      BY <1>1, <1>3, <1>4, <2>3, <3>1, <3>2 DEF Entry, Leaving
  <2> QED
    BY <1>2, <2>1, <2>2, <2>3
<1>10. Copy(p)' = None /\ Copy(p) = None
  BY <1>1, <1>3, <1>4 DEF Copy
<1> QED
  BY <1>1, <1>5, <1>8, <1>9, <1>10, TurnsIs

-----------------------------------------------------------------------------

\* Every step of a process keeps MappedIsCounted.
LEMMA CountStep ==
  ASSUME OwnInv, MappedIsCounted, NEW p \in Procs, Steps(p)
  PROVE  MappedIsCounted'
<1>0. FrameTypes /\ MapTypes /\ locked \subseteq Frames
  BY Pieces DEF FrameTypes
<1>a. PICK u \in Pages : u = 1
  BY Constants DEF Pages
<1>b. Requested \in Frames /\ (Requested = 0 \/ Requested \notin locked)
  BY <1>0, RequestedIs
<1>1. CASE Entering(p) \/ \E n \in 1..BrkSize : Brk(p, n)
  BY <1>1, EnterTurns, CountSame
<1>2. CASE \E v \in Pages : \E d \in Data \ {Zero} : Write(p, v, d) \/ KernelWrite(p, v, d)
  <2>1. UNCHANGED <<pt, vm, brk, call, locked, rc>>
    BY <1>2, WriteEffect
  <2>2. \A q \in Procs : Rests(q)
    BY <2>1 DEF Rests
  <2> QED
    BY <2>1, <2>2, <1>a, RestTurns, CountSame
<1>3. CASE \E v \in Pages : FaultCopy(p, v)
  <2>1. PICK v \in Pages : FaultCopy(p, v)
    BY <1>3
  <2>2. EntryTurns(p, v, Entry(p, v)) /\ CopyTurns(p, Requested) /\ Copy(p) = None /\ Take(Requested)
    BY <2>1, FaultCopyTurns
  <2> QED
    BY <1>0, <1>b, <2>2, CountTake
<1>4. CASE \E c \in Procs : ForkStart(p, c)
  <2>1. EntryTurns(p, u, Entry(p, u)) /\ CopyTurns(p, Copy(p)) /\ \A f \in locked : f \in locked' /\ rc'[f] = rc[f]
    BY <1>4, ForkStartTurns
  <2> QED
    BY <2>1, CountSame
<1>5. CASE MmapDrop(p) \/ UnmapDrop(p)
  <2>1. PICK v \in Pages : v = call[p].page
    BY <1>5, Pieces DEF MmapDrop, UnmapDrop, Looping
  <2>2. EntryTurns(p, v, None) /\ CopyTurns(p, Copy(p)) /\ Entry(p, v) = pt[p][v] /\ Drops(p, v)
    BY <1>5, <2>1, DropTurns
  <2>3. CASE Present(p, v)
    <3>1. pt[p][v] \in Frames /\ DecreaseReferenceCount(pt[p][v])
      BY <1>0, <2>2, <2>3 DEF Drops, Present, MapTypes
    <3> QED
      BY <1>0, <2>2, <3>1, CountDrop
  <2>4. CASE ~Present(p, v)
    <3>1. Entry(p, v) = None /\ UNCHANGED <<rc, locked>>
      BY <2>2, <2>4 DEF Drops, Present
    <3> QED
      BY <2>2, <3>1, CountSame
  <2> QED
    BY <2>3, <2>4
<1>6. CASE MmapMap(p) \/ BrkPage(p)
  <2>1. PICK v \in Pages : v = call[p].page
    BY <1>6, Pieces DEF MmapMap, BrkPage, Looping
  <2>2. EntryTurns(p, v, Requested) /\ CopyTurns(p, Copy(p)) /\ Entry(p, v) = None /\ Take(Requested)
    BY <1>6, <2>1, MapTurns
  <2> QED
    BY <1>0, <1>b, <2>2, CountTake
<1>7. CASE UnmapClear(p) \/ MprotectPage(p)
  <2>1. PICK v \in Pages : v = call[p].page
    BY <1>7, Pieces DEF UnmapClear, MprotectPage, Looping
  <2>2. EntryTurns(p, v, Entry(p, v)) /\ CopyTurns(p, Copy(p)) /\ UNCHANGED <<locked, rc>>
    BY <1>7, <2>1, StayTurns
  <2> QED
    BY <2>2, CountSame
<1>8. CASE FaultDrop(p)
  <2>1. PICK v \in Pages : v = call[p].page
    BY <1>8, Pieces DEF FaultDrop, Faulting
  <2>2. /\ EntryTurns(p, v, None) /\ CopyTurns(p, Copy(p)) /\ Entry(p, v) = pt[p][v]
        /\ pt[p][v] \in Frames /\ DecreaseReferenceCount(pt[p][v])
    BY <1>8, <2>1, FaultDropTurns
  <2> QED
    BY <1>0, <2>2, CountDrop
<1>9. CASE FaultMap(p)
  <2>1. PICK v \in Pages : v = call[p].page
    BY <1>9, Pieces DEF FaultMap, Faulting
  <2>2. /\ EntryTurns(p, v, call[p].frame) /\ CopyTurns(p, None) /\ Copy(p) = call[p].frame
        /\ Entry(p, v) = None /\ call[p].frame \in Frames /\ UNCHANGED <<locked, rc>>
    BY <1>9, <2>1, FaultMapTurns
  <2> QED
    BY <2>2, CountMapped
<1>10. CASE ForkPage(p)
  <2>1. PICK c \in Procs : c = call[p].child
    BY <1>10, Pieces DEF ForkPage, Family
  <2>2. PICK v \in Pages, y \in SUBSET Flags : Shared(p, c, v, y)
    BY <1>10, <2>1, ForkPageEffect
  <2>3. /\ EntryTurns(c, v, pt[p][v]) /\ CopyTurns(c, Copy(c))
        /\ Entry(c, v) = None /\ Entry(p, v) = pt[p][v] /\ pt[p][v] \in Frames \cup {None}
        /\ rc' = [rc EXCEPT ![Physical(p, v)] = @ + 1] /\ locked' = locked /\ Physical(p, v) \in Frames
    BY <1>10, <2>1, <2>2, ForkPageTurns, ZenonT(60)
  <2>4. Physical(p, v) = IF pt[p][v] # None THEN pt[p][v] ELSE 0
    BY DEF Physical, Present
  <2> QED
    BY <1>0, <2>3, <2>4, CountShare
<1>11. CASE ForkReady(p) \/ Exit(p)
  <2>1. EntryTurns(p, u, Entry(p, u)) /\ CopyTurns(p, Copy(p)) /\ UNCHANGED <<locked, rc>>
    BY <1>11, ForkReadyTurns, ExitTurns
  <2> QED
    BY <2>1, CountSame
<1>12. CASE ExitPage(p)
  <2>1. PICK v \in Pages : v = call[p].page
    BY <1>12, Pieces DEF ExitPage
  <2>2. /\ EntryTurns(p, v, None) /\ CopyTurns(p, Copy(p)) /\ Entry(p, v) = pt[p][v]
        /\ Physical(p, v) \in Frames /\ DecreaseReferenceCount(Physical(p, v))
    BY <1>12, <2>1, ExitPageTurns
  <2>3. Entry(p, v) = Physical(p, v) \/ (Physical(p, v) = 0 /\ Entry(p, v) = None)
    BY <2>2 DEF Physical, Present
  <2> QED
    BY <1>0, <2>2, <2>3, CountDrop
<1> QED
  BY <1>1, <1>2, <1>3, <1>4, <1>5, <1>6, <1>7, <1>8, <1>9, <1>10, <1>11, <1>12, Zenon DEF Steps

\* CountInv is inductive.
LEMMA CountNext ==
  ASSUME CountInv, [Next]_vars
  PROVE  CountInv'
<1>0. OwnInv /\ MappedIsCounted
  BY DEF CountInv
<1>1. OwnInv'
  BY <1>0, OwnNext
<1>2. CASE Next
  <2>1. PICK p \in Procs : Steps(p)
    BY <1>2, NextSteps
  <2> QED
    BY <1>0, <1>1, <2>1, CountStep DEF CountInv
<1>3. CASE UNCHANGED vars
  <2>1. \A q \in Procs : Rests(q) /\ UNCHANGED <<locked, rc>>
    BY <1>3 DEF vars, Rests
  <2>2. PICK q \in Procs, u \in Pages : u = 1
    BY Constants DEF Pages, Procs
  <2>3. UNCHANGED <<locked, rc>>
    BY <1>3 DEF vars
  <2>4. MappedIsCounted'
    BY <1>0, <2>1, <2>2, <2>3, RestTurns, CountSame
  <2> QED
    BY <1>1, <2>4 DEF CountInv
<1> QED
  BY <1>2, <1>3

\* The first process's stack.
LEMMA CountInit == Init => CountInv
<1> SUFFICES ASSUME Init PROVE CountInv
  OBVIOUS
<1>0. OwnInv /\ MapTypes /\ AreaTypes
  BY OwnInit, TypeParts DEF OwnInv
<1>1. PICK s \in Calling : s = InUser /\ s.at = "user"
  BY InUserIs
<1>2. PICK e : e = [s EXCEPT !.at = "none"]
  OBVIOUS
<1>3. e.at = "none"
  BY <1>2 DEF Calling, Points
<1>4. call = [p \in Procs |-> IF p = 1 THEN s ELSE e]
  BY <1>1, <1>2 DEF Init
<1>5. \A p \in Procs : At(p) = IF p = 1 THEN "user" ELSE "none"
  BY <1>1, <1>3, <1>4 DEF At
<1>6. \A p \in Procs, v \in Pages : Entry(p, v) = IF p = 1 /\ v \in Stack THEN v - NPages + StackSize ELSE None
  BY <1>5 DEF Entry, Leaving, Init
<1>7. \A p \in Procs : Copy(p) = None
  BY <1>5 DEF Copy
<1>8. ASSUME NEW f \in Frames \ {0} PROVE Counted(f)
  <2>0. f # None /\ f \in Nat
    BY Constants DEF Frames
  <2>1. References(f) = {r \in Procs \X Pages : Entry(r[1], r[2]) = f} /\ Copies(f) = {p \in Procs : Copy(p) = f}
    BY <1>8, ReferencesAre
  <2>2. Copies(f) = {}
    BY <1>7, <2>0, <2>1
  <2>3. CASE f \in 1..StackSize
    <3>1. PICK v \in Pages : v = f + NPages - StackSize
      BY <2>0, <2>3, Constants DEF Pages
    <3>2. v \in Stack /\ 1 \in Procs
      BY <2>0, <2>3, <3>1, Constants DEF Stack, Procs
    <3>3. \A w \in Pages : w \in Stack /\ w - NPages + StackSize = f <=> w = v
      BY <2>0, <3>1, <3>2, Constants DEF Stack, Pages
    <3>4. \A r \in Procs \X Pages : Entry(r[1], r[2]) = f <=> r = <<1, v>>
      BY <1>6, <2>0, <3>2, <3>3
    <3>5. References(f) = {<<1, v>>}
      BY <2>1, <3>2, <3>4
    <3>6. Cardinality(References(f)) = 1 /\ Cardinality(Copies(f)) = 0
      BY <2>2, <3>5, FS_Singleton, FS_EmptySet
    <3>7. f \in locked /\ rc[f] = 1
      BY <1>8, <2>0, <2>3 DEF Init
    <3> QED
      BY <3>6, <3>7 DEF Counted, Uses
  <2>4. CASE f \notin 1..StackSize
    <3>1. \A v \in Stack : v - NPages + StackSize \in 1..StackSize
      BY Constants DEF Stack
    <3>2. \A r \in Procs \X Pages : Entry(r[1], r[2]) # f
      BY <1>6, <2>0, <2>4, <3>1
    <3>3. References(f) = {}
      BY <2>1, <3>2
    <3>4. Cardinality(References(f)) = 0 /\ Cardinality(Copies(f)) = 0
      BY <2>2, <3>3, FS_EmptySet
    <3> QED
      BY <3>4 DEF Counted, Uses
  <2> QED
    BY <2>3, <2>4
<1> QED
  BY <1>0, <1>8, CountedIs DEF CountInv

\* No frame is freed while somebody maps it, and its count is the number of its
\* users: for any number of processes, pages and frames, whatever they call and
\* however the steps of page faults, forks and exits that share frames mix
\* (DecreaseReferenceCount's callers in PageFault, sys_mmap, sys_unmap and
\* vm_tracker_t::exit; ClonePTM), also when memory runs out.
THEOREM MappedFramesAreCounted == Spec => []MappedIsCounted
<1>1. Init => CountInv
  BY CountInit
<1>2. CountInv /\ [Next]_vars => CountInv'
  BY CountNext
<1>3. CountInv => MappedIsCounted
  BY DEF CountInv
<1> QED
  BY <1>1, <1>2, <1>3, PTL DEF Spec

-----------------------------------------------------------------------------
(* Copy on write.                                                          *)

\* Nobody maps frame 0: it is what RequestPage returns without memory.
NoZero ==
  /\ 0 \in locked
  /\ \A p \in Procs : Copy(p) # 0 /\ \A v \in Pages : pt[p][v] # 0

\* The flags of p: what it can write waits for no copy, and everything is copied on
\* write; mprotect was given pages that wait for no copy.
Cow(p) ==
  /\ \A v \in Pages : <<p, v>> \in writable => Present(p, v) /\ (~Ending(p) => "pending" \notin vm[p][v])
  /\ ~Ending(p) => \A v \in Pages : vm[p][v] # {} => "cow" \in vm[p][v]
  /\ At(p) = "mprotect" => \A v \in call[p].page..call[p].last : "pending" \notin vm[p][v]

\* Page v of p waits for no copy.
Owns(p, v) == ~Ending(p) /\ Entry(p, v) # None /\ "pending" \notin vm[p][v]

\* A page that waits for no copy, and a copy not yet mapped, is nobody else's.
Apart ==
  /\ \A p \in Procs, v \in Pages : Owns(p, v) =>
       /\ \A q \in Procs, w \in Pages : Entry(q, w) = Entry(p, v) => q = p /\ w = v
       /\ \A q \in Procs : Copy(q) # Entry(p, v)
  /\ \A p \in Procs : Copy(p) # None =>
       /\ \A q \in Procs, w \in Pages : Entry(q, w) # Copy(p)
       /\ \A q \in Procs : Copy(q) = Copy(p) => q = p

\* The inductive invariant of copy on write.
PrivateInv == CountInv /\ NoZero /\ (\A p \in Procs : Cow(p)) /\ Apart

\* RequestPage finds a frame.
MemoryLeft == Free # {}

-----------------------------------------------------------------------------
(* Steps that keep memory private.                                         *)

\* References only go away, and no page starts to wait for no copy.
LEMMA ApartShrinks ==
  ASSUME Apart, \A q \in Procs, w \in Pages : Entry(q, w)' = Entry(q, w) \/ Entry(q, w)' = None,
         \A q \in Procs : Copy(q)' = Copy(q),
         \A q \in Procs, w \in Pages : Owns(q, w)' => Owns(q, w) /\ Entry(q, w)' = Entry(q, w)
  PROVE  Apart'
<1>1. ASSUME NEW p \in Procs, NEW v \in Pages, Owns(p, v)'
      PROVE  /\ \A q \in Procs, w \in Pages : Entry(q, w)' = Entry(p, v)' => q = p /\ w = v
             /\ \A q \in Procs : Copy(q)' # Entry(p, v)'
  <2>1. Owns(p, v) /\ Entry(p, v)' = Entry(p, v) /\ Entry(p, v) # None
    BY <1>1 DEF Owns
  <2>2. /\ \A q \in Procs, w \in Pages : Entry(q, w) = Entry(p, v) => q = p /\ w = v
        /\ \A q \in Procs : Copy(q) # Entry(p, v)
    BY <1>1, <2>1 DEF Apart
  <2> QED
    BY <2>1, <2>2
<1>2. ASSUME NEW p \in Procs, Copy(p)' # None
      PROVE  /\ \A q \in Procs, w \in Pages : Entry(q, w)' # Copy(p)'
             /\ \A q \in Procs : Copy(q)' = Copy(p)' => q = p
  BY <1>2 DEF Apart
<1> QED
  BY <1>1, <1>2 DEF Apart

\* p refers to a frame g nobody refers to, in page v or as a copy.
LEMMA ApartTakes ==
  ASSUME Apart, NEW p \in Procs, NEW v \in Pages, NEW g, g # None,
         \A q \in Procs, w \in Pages : Entry(q, w) # g, \A q \in Procs : Copy(q) # g,
         \/ EntryTurns(p, v, g) /\ CopyTurns(p, Copy(p))
         \/ EntryTurns(p, v, Entry(p, v)) /\ CopyTurns(p, g),
         \A q \in Procs, w \in Pages : Owns(q, w)' => Owns(q, w) \/ Entry(q, w)' = g
  PROVE  Apart'
<1>1. ASSUME NEW p1 \in Procs, NEW v1 \in Pages, Owns(p1, v1)'
      PROVE  /\ \A q \in Procs, w \in Pages : Entry(q, w)' = Entry(p1, v1)' => q = p1 /\ w = v1
             /\ \A q \in Procs : Copy(q)' # Entry(p1, v1)'
  <2>1. CASE Entry(p1, v1)' = g
    BY <1>1, <2>1 DEF EntryTurns, CopyTurns
  <2>2. CASE Entry(p1, v1)' # g
    <3>1. Owns(p1, v1) /\ Entry(p1, v1)' = Entry(p1, v1)
      BY <1>1, <2>2 DEF EntryTurns
    <3>2. /\ \A q \in Procs, w \in Pages : Entry(q, w) = Entry(p1, v1) => q = p1 /\ w = v1
          /\ \A q \in Procs : Copy(q) # Entry(p1, v1)
      BY <1>1, <3>1 DEF Apart
    <3> QED
      BY <2>2, <3>1, <3>2 DEF EntryTurns, CopyTurns
  <2> QED
    BY <2>1, <2>2
<1>2. ASSUME NEW p1 \in Procs, Copy(p1)' # None
      PROVE  /\ \A q \in Procs, w \in Pages : Entry(q, w)' # Copy(p1)'
             /\ \A q \in Procs : Copy(q)' = Copy(p1)' => q = p1
  <2>1. CASE Copy(p1)' = g
    BY <1>2, <2>1 DEF EntryTurns, CopyTurns
  <2>2. CASE Copy(p1)' # g
    <3>1. Copy(p1)' = Copy(p1)
      BY <1>2, <2>2 DEF CopyTurns
    <3>2. /\ \A q \in Procs, w \in Pages : Entry(q, w) # Copy(p1)
          /\ \A q \in Procs : Copy(q) = Copy(p1) => q = p1
      BY <1>2, <3>1 DEF Apart
    <3> QED
      BY <2>2, <3>1, <3>2 DEF EntryTurns, CopyTurns
  <2> QED
    BY <2>1, <2>2
<1> QED
  BY <1>1, <1>2 DEF Apart

\* The copy of p becomes page v.
LEMMA ApartMaps ==
  ASSUME Apart, NEW p \in Procs, NEW v \in Pages, NEW g, g # None, Copy(p) = g,
         EntryTurns(p, v, g), CopyTurns(p, None),
         \A q \in Procs, w \in Pages : Owns(q, w)' => Owns(q, w) \/ (q = p /\ w = v)
  PROVE  Apart'
<1>0. /\ \A q \in Procs, w \in Pages : Entry(q, w) # g
      /\ \A q \in Procs : Copy(q) = g => q = p
  BY DEF Apart
<1>1. ASSUME NEW p1 \in Procs, NEW v1 \in Pages, Owns(p1, v1)'
      PROVE  /\ \A q \in Procs, w \in Pages : Entry(q, w)' = Entry(p1, v1)' => q = p1 /\ w = v1
             /\ \A q \in Procs : Copy(q)' # Entry(p1, v1)'
  <2>1. CASE p1 = p /\ v1 = v
    BY <1>0, <1>1, <2>1 DEF EntryTurns, CopyTurns
  <2>2. CASE ~(p1 = p /\ v1 = v)
    <3>1. Owns(p1, v1) /\ Entry(p1, v1)' = Entry(p1, v1)
      BY <1>1, <2>2 DEF EntryTurns
    <3>2. /\ \A q \in Procs, w \in Pages : Entry(q, w) = Entry(p1, v1) => q = p1 /\ w = v1
          /\ (\A q \in Procs : Copy(q) # Entry(p1, v1)) /\ Entry(p1, v1) # None
      BY <1>1, <3>1 DEF Apart, Owns
    <3> QED
      BY <1>0, <3>1, <3>2 DEF EntryTurns, CopyTurns
  <2> QED
    BY <2>1, <2>2
<1>2. ASSUME NEW p1 \in Procs, Copy(p1)' # None
      PROVE  /\ \A q \in Procs, w \in Pages : Entry(q, w)' # Copy(p1)'
             /\ \A q \in Procs : Copy(q)' = Copy(p1)' => q = p1
  <2>1. p1 # p /\ Copy(p1)' = Copy(p1)
    BY <1>2 DEF CopyTurns
  <2>2. /\ \A q \in Procs, w \in Pages : Entry(q, w) # Copy(p1)
        /\ \A q \in Procs : Copy(q) = Copy(p1) => q = p1
    BY <1>2, <2>1 DEF Apart
  <2> QED
    BY <1>0, <1>2, <2>1, <2>2 DEF EntryTurns, CopyTurns
<1> QED
  BY <1>1, <1>2 DEF Apart

\* Page v of c becomes another reference to the frame of page v of p; both wait for a copy.
LEMMA ApartShares ==
  ASSUME Apart, NEW p \in Procs, NEW c \in Procs, NEW v \in Pages, NEW x, Entry(p, v) = x,
         EntryTurns(c, v, x), CopyTurns(c, Copy(c)),
         \A q \in Procs, w \in Pages :
            Owns(q, w)' => Owns(q, w) /\ ~(q \in {p, c} /\ w = v)
  PROVE  Apart'
<1>1. ASSUME NEW p1 \in Procs, NEW v1 \in Pages, Owns(p1, v1)'
      PROVE  /\ \A q \in Procs, w \in Pages : Entry(q, w)' = Entry(p1, v1)' => q = p1 /\ w = v1
             /\ \A q \in Procs : Copy(q)' # Entry(p1, v1)'
  <2>1. Owns(p1, v1) /\ Entry(p1, v1)' = Entry(p1, v1) /\ ~(p1 \in {p, c} /\ v1 = v)
    BY <1>1 DEF EntryTurns
  <2>2. /\ \A q \in Procs, w \in Pages : Entry(q, w) = Entry(p1, v1) => q = p1 /\ w = v1
        /\ (\A q \in Procs : Copy(q) # Entry(p1, v1))
    BY <1>1, <2>1 DEF Apart
  <2>3. x # Entry(p1, v1)
    BY <2>1, <2>2
  <2> QED
    BY <2>1, <2>2, <2>3 DEF EntryTurns, CopyTurns
<1>2. ASSUME NEW p1 \in Procs, Copy(p1)' # None
      PROVE  /\ \A q \in Procs, w \in Pages : Entry(q, w)' # Copy(p1)'
             /\ \A q \in Procs : Copy(q)' = Copy(p1)' => q = p1
  <2>1. Copy(p1)' = Copy(p1)
    BY <1>2 DEF CopyTurns
  <2>2. /\ \A q \in Procs, w \in Pages : Entry(q, w) # Copy(p1)
        /\ \A q \in Procs : Copy(q) = Copy(p1) => q = p1
    BY <1>2, <2>1 DEF Apart
  <2> QED
    BY <2>1, <2>2 DEF EntryTurns, CopyTurns
<1> QED
  BY <1>1, <1>2 DEF Apart

-----------------------------------------------------------------------------
\* The flags of a process that rests.
LEMMA CowRests ==
  ASSUME NEW q \in Procs, Cow(q), Rests(q), \A w \in Pages : <<q, w>> \in writable' => <<q, w>> \in writable
  PROVE  Cow(q)'
<1>1. At(q)' = At(q) /\ \A w \in Pages : Present(q, w)' = Present(q, w)
  BY DEF Rests, At, Present
<1>2. \A w \in Pages : <<q, w>> \in writable' => Present(q, w)' /\ (~Ending(q)' => "pending" \notin vm'[q][w])
  BY <1>1 DEF Cow, Ending, Rests
<1>3. ~Ending(q)' => \A w \in Pages : vm'[q][w] # {} => "cow" \in vm'[q][w]
  BY <1>1 DEF Cow, Ending, Rests
<1>4. At(q)' = "mprotect" => \A w \in call'[q].page..call'[q].last : "pending" \notin vm'[q][w]
  BY <1>1 DEF Cow, Rests
<1> QED
  BY <1>2, <1>3, <1>4 DEF Cow

\* The flags of p after a step that writes page v.
LEMMA CowWrites ==
  ASSUME OwnInv, NEW p \in Procs, Cow(p), NEW v, NEW x, NEW y, NEW r, Writes(p, v, x, y), Goes(p, r),
         At(p) \notin {"exit", "dead"},
         r.at = "mprotect" => \A w \in r.page..r.last : "pending" \notin vm'[p][w],
         \A w \in Pages : w # v /\ <<p, w>> \in writable' => <<p, w>> \in writable,
         <<p, v>> \in writable' => x # None /\ "pending" \notin y,
         y # {} => "cow" \in y
  PROVE  Cow(p)'
<1>0. MapTypes /\ AreaTypes /\ v \in Pages
  BY Pieces DEF Writes
<1>1. call'[p] = r /\ At(p)' = r.at
  BY <1>0, GoesIs DEF At
<1>2. \A w \in Pages : pt'[p][w] = (IF w = v THEN x ELSE pt[p][w]) /\ vm'[p][w] = IF w = v THEN y ELSE vm[p][w]
  BY DEF Writes, Put
<1>3. ASSUME NEW w \in Pages
      PROVE  /\ <<p, w>> \in writable' => Present(p, w)' /\ "pending" \notin vm'[p][w]
             /\ vm'[p][w] # {} => "cow" \in vm'[p][w]
  <2>1. CASE w = v
    BY <1>2, <2>1 DEF Present
  <2>2. CASE w # v
    BY <1>2, <2>2 DEF Present, Cow, Ending
  <2> QED
    BY <2>1, <2>2
<1> QED
  BY <1>1, <1>3 DEF Cow, Ending

\* What copy on write adds to the counts.
Safe == NoZero /\ (\A q \in Procs : Cow(q)) /\ Apart

\* While memory is left, a requested frame is one nobody refers to.
LEMMA FreshFrame ==
  ASSUME CountInv, NoZero, MemoryLeft
  PROVE  /\ Requested \in Frames /\ Requested # 0 /\ Requested # None /\ Requested \notin locked
         /\ \A q \in Procs, w \in Pages : Entry(q, w) # Requested
         /\ \A q \in Procs : Copy(q) # Requested
<1>1. locked \subseteq Frames /\ MappedIsCounted
  BY TypeParts DEF CountInv, OwnInv, FrameTypes
<1>2. Requested \in Frames /\ Requested \notin locked
  BY <1>1, RequestedIs DEF MemoryLeft
<1>3. Requested # 0 /\ Requested # None
  BY <1>2, Constants DEF NoZero
<1>4. Counted(Requested)
  BY <1>1, <1>2, <1>3, CountedIs
<1>5. Uses(Requested) = 0
  BY <1>2, <1>4, UsesType DEF Counted
<1>6. /\ \A q \in Procs, w \in Pages : Entry(q, w) = Requested => Uses(Requested) > 0
      /\ \A q \in Procs : Copy(q) = Requested => Uses(Requested) > 0
  BY <1>2, UsesType
<1> QED
  BY <1>2, <1>3, <1>5, <1>6

\* A process that rests owns no more than before.
LEMMA OwnsRests ==
  ASSUME NEW q \in Procs, Rests(q), NEW w \in Pages
  PROVE  Owns(q, w)' => Owns(q, w)
<1>1. At(q)' = At(q) /\ Entry(q, w)' = Entry(q, w) /\ vm'[q][w] = vm[q][w]
  BY RestsRefer DEF Rests, At
<1> QED
  BY <1>1 DEF Owns, Ending

\* The other processes when only p acts.
Others(p) ==
  /\ \A q \in Procs \ {p} : Rests(q)
  /\ \A q \in Procs \ {p}, w \in Pages : <<q, w>> \in writable' => <<q, w>> \in writable

\* Then only p's flags can go wrong,
LEMMA OthersCow ==
  ASSUME \A q \in Procs : Cow(q), NEW p \in Procs, Others(p), Cow(p)'
  PROVE  \A q \in Procs : Cow(q)'
<1> SUFFICES ASSUME NEW q \in Procs PROVE Cow(q)'
  OBVIOUS
<1>1. CASE q = p
  BY <1>1
<1>2. CASE q # p
  <2>1. Cow(q) /\ Rests(q) /\ \A w \in Pages : <<q, w>> \in writable' => <<q, w>> \in writable
    BY <1>2 DEF Others
  <2> QED
    BY <2>1, CowRests
<1> QED
  BY <1>1, <1>2

\* only p can map frame 0,
LEMMA OthersZero ==
  ASSUME NoZero, NEW p \in Procs, Others(p), 0 \in locked', Copy(p)' # 0, \A v \in Pages : pt'[p][v] # 0
  PROVE  NoZero'
<1>1. ASSUME NEW q \in Procs PROVE Copy(q)' # 0 /\ \A v \in Pages : pt'[q][v] # 0
  <2>1. CASE q = p
    BY <2>1
  <2>2. CASE q # p
    <3>1. Rests(q)
      BY <1>1, <2>2 DEF Others
    <3>2. Copy(q)' = Copy(q) /\ pt'[q] = pt[q]
      BY <1>1, <3>1, RestsRefer DEF Rests
    <3> QED
      BY <1>1, <3>2 DEF NoZero
  <2> QED
    BY <2>1, <2>2
<1> QED
  BY <1>1 DEF NoZero

\* and only p's pages can become owned.
LEMMA OthersOwns ==
  ASSUME NEW p \in Procs, Others(p), NEW q \in Procs \ {p}, NEW w \in Pages
  PROVE  Owns(q, w)' => Owns(q, w)
BY OwnsRests DEF Others

\* A change of one entry is such a step.
LEMMA OthersWrites ==
  ASSUME OwnInv, NEW p \in Procs, NEW v, NEW x, NEW y, NEW r, Writes(p, v, x, y), Goes(p, r),
         (\A q \in Procs \ {p} : brk'[q] = brk[q]),
         writable' \in {writable, writable \cup {<<p, v>>}, writable \ {<<p, v>>}}
  PROVE  Others(p)
<1>0. MapTypes /\ AreaTypes
  BY Pieces
<1>1. \A q \in Procs \ {p} : call'[q] = call[q]
  BY <1>0, GoesIs
<1>2. \A q \in Procs \ {p} : Rests(q)
  BY <1>0, <1>1, WritesRests DEF Rests
<1>3. \A q \in Procs \ {p}, w \in Pages : <<q, w>> \in writable' => <<q, w>> \in writable
  OBVIOUS
<1> QED
  BY <1>2, <1>3 DEF Others

\* What p owns after a step that writes page v.
LEMMA OwnsWrites ==
  ASSUME OwnInv, NEW p \in Procs, NEW v, NEW x, NEW y, NEW r, NEW e, Writes(p, v, x, y), Goes(p, r),
         EntryTurns(p, v, e), At(p) \notin {"exit", "dead"},
         NEW w \in Pages, w # v
  PROVE  Owns(p, w)' => Owns(p, w)
<1>1. vm'[p][w] = vm[p][w] /\ Entry(p, w)' = Entry(p, w)
  BY DEF Writes, Put, EntryTurns
<1> QED
  BY <1>1 DEF Owns, Ending

\* Low memory stays reserved.
LEMMA ZeroStays ==
  ASSUME 0 \in locked, NEW g \in Frames, Take(g) \/ DecreaseReferenceCount(g) \/ UNCHANGED locked
  PROVE  0 \in locked'
BY DEF Take, DecreaseReferenceCount

\* What Safe says of one process.
LEMMA SafeParts ==
  ASSUME CountInv, Safe, NEW p \in Procs
  PROVE  /\ OwnInv /\ MappedIsCounted /\ NoZero /\ Cow(p) /\ Apart /\ (\A q \in Procs : Cow(q)) /\ 0 \in locked
         /\ Copy(p) # 0 /\ (\A v \in Pages : pt[p][v] # 0) /\ 0 \in Frames
         /\ MapTypes /\ AreaTypes /\ FrameTypes
<1>1. OwnInv /\ MappedIsCounted /\ NoZero /\ Cow(p) /\ Apart /\ \A q \in Procs : Cow(q)
  BY DEF CountInv, Safe
<1>2. 0 \in Frames
  BY Constants DEF Frames
<1> QED
  BY <1>1, <1>2, Pieces DEF NoZero

\* A step of p alone that gives up a reference of page v, or none.
LEMMA SafeShrinks ==
  ASSUME CountInv, Safe, NEW p \in Procs, NEW v \in Pages, NEW x, Others(p), Cow(p)', 0 \in locked',
         \A w \in Pages : pt'[p][w] # 0,
         EntryTurns(p, v, x), CopyTurns(p, Copy(p)), x = None \/ x = Entry(p, v),
         \A w \in Pages : Owns(p, w)' => Owns(p, w)
  PROVE  Safe'
<1>0. NoZero /\ Apart /\ (\A q \in Procs : Cow(q)) /\ Copy(p) # 0
  BY SafeParts
<1>1. \A q \in Procs : Cow(q)'
  BY <1>0, OthersCow
<1>2. Copy(p)' # 0
  BY <1>0 DEF CopyTurns
<1>3. NoZero'
  BY <1>0, <1>2, OthersZero
<1>4. \A q \in Procs, w \in Pages : Owns(q, w)' => Owns(q, w)
  BY OthersOwns
<1>5. \A q \in Procs, w \in Pages : Entry(q, w)' = Entry(q, w) \/ Entry(q, w)' = None
  BY DEF EntryTurns
<1>6. \A q \in Procs, w \in Pages : Owns(q, w)' => Owns(q, w) /\ Entry(q, w)' = Entry(q, w)
  BY <1>4, <1>5 DEF Owns
<1>7. \A q \in Procs : Copy(q)' = Copy(q)
  BY DEF CopyTurns
<1>8. Apart'
  BY <1>0, <1>5, <1>6, <1>7, ApartShrinks
<1> QED
  BY <1>1, <1>3, <1>8 DEF Safe

\* Every step keeps Safe: a call that starts (mprotect is given pages that wait
\* for no copy),
LEMMA SafeEnter ==
  ASSUME "pending" \notin Calls, CountInv, Safe, NEW p \in Procs, Entering(p) \/ \E n \in 1..BrkSize : Brk(p, n)
  PROVE  Safe'
<1>0. OwnInv /\ Cow(p) /\ AreaTypes /\ MapTypes /\ 0 \in locked /\ \A w \in Pages : pt[p][w] # 0
  BY SafeParts
<1>a. PICK v \in Pages : v = 1
  BY Constants DEF Pages
<1>1. At(p) = "user" /\ UNCHANGED <<pt, writable, vm, brk, locked, rc, data>>
  BY <1>0, EnterEffect, BrkEffect
<1>2. PICK r : /\ Goes(p, r) /\ r.at \in {"mmap", "unmap", "mprotect", "brk"}
               /\ r.at = "mprotect" => \A w \in r.page..r.last : "pending" \notin vm[p][w]
  <2>1. CASE Entering(p)
    BY <1>0, <2>1, EnterEffect DEF Begun, Goes
  <2>2. CASE \E n \in 1..BrkSize : Brk(p, n)
    <3>1. PICK r : Goes(p, r) /\ r.at = "brk"
      BY <1>0, <2>2, BrkEffect
    <3> QED
      BY <3>1
  <2> QED
    BY <2>1, <2>2
<1>3. EntryTurns(p, v, Entry(p, v)) /\ CopyTurns(p, Copy(p))
  BY <1>0, EnterTurns
<1>4. Writes(p, v, pt[p][v], vm[p][v])
  BY <1>0, <1>1, WritesNothing
<1>5. Others(p)
  BY <1>0, <1>1, <1>2, <1>4, OthersWrites
<1>6. Cow(p)'
  <2>1. (<<p, v>> \in writable' => pt[p][v] # None /\ "pending" \notin vm[p][v]) /\ (vm[p][v] # {} => "cow" \in vm[p][v])
    BY <1>0, <1>1 DEF Cow, Ending, Present
  <2>2. At(p) \notin {"exit", "dead"} /\ (r.at = "mprotect" => \A w \in r.page..r.last : "pending" \notin vm'[p][w])
    BY <1>1, <1>2
  <2> QED
    BY <1>0, <1>1, <1>2, <1>4, <2>1, <2>2, CowWrites
<1>7. \A w \in Pages : Owns(p, w)' => Owns(p, w)
  BY <1>1, <1>3 DEF Owns, Ending, EntryTurns
<1> QED
  BY <1>0, <1>1, <1>3, <1>5, <1>6, <1>7, SafeShrinks

\* writes,
LEMMA SafeWrite ==
  ASSUME CountInv, Safe, NEW p \in Procs, NEW v \in Pages, NEW d \in Data, Write(p, v, d) \/ KernelWrite(p, v, d)
  PROVE  Safe'
<1>0. OwnInv /\ Cow(p) /\ 0 \in locked /\ \A w \in Pages : pt[p][w] # 0
  BY SafeParts
<1>1. UNCHANGED <<pt, writable, vm, brk, rmap, locked, rc, call>>
  BY <1>0, WriteEffect
<1>2. \A q \in Procs : Rests(q)
  BY <1>1 DEF Rests
<1>3. Others(p) /\ Cow(p)' /\ \A w \in Pages : Owns(p, w)' => Owns(p, w)
  BY <1>0, <1>1, <1>2, CowRests, OwnsRests DEF Others
<1>4. EntryTurns(p, v, Entry(p, v)) /\ CopyTurns(p, Copy(p))
  BY <1>2, RestTurns
<1> QED
  BY <1>0, <1>1, <1>3, <1>4, SafeShrinks

\* MmapDrop and UnmapDrop,
LEMMA SafeDrop ==
  ASSUME CountInv, Safe, NEW p \in Procs, MmapDrop(p) \/ UnmapDrop(p)
  PROVE  Safe'
<1>0. OwnInv /\ Cow(p) /\ 0 \in locked /\ MapTypes /\ \A w \in Pages : pt[p][w] # 0
  BY SafeParts
<1>1. At(p) \in {"mmap", "unmap"} /\ Looping(p)
  BY DEF MmapDrop, UnmapDrop, Looping
<1>2. PICK v \in Pages : v = call[p].page
  BY <1>0, <1>1, Pieces
<1>3. /\ UNCHANGED <<pt, writable, brk, rmap, entries>> /\ Drops(p, v)
      /\ Writes(p, v, pt[p][v], IF Present(p, v) THEN {} ELSE vm[p][v])
  BY <1>0, <1>2, MmapDropEffect, UnmapDropEffect
<1>4. PICK r : /\ Goes(p, r) /\ (r.at \in {"mmapMap", "unmapClear"} \/ r = Advance(p, "unmap"))
  BY <1>0, <1>2, MmapDropEffect, UnmapDropEffect
<1>5. r.at # "mprotect"
  BY <1>0, <1>1, <1>4, InsideAdvance
<1>6. EntryTurns(p, v, None) /\ CopyTurns(p, Copy(p))
  BY <1>0, <1>2, DropTurns
<1>7. 0 \in locked'
  <2>1. CASE Present(p, v)
    <3>1. pt[p][v] \in Frames /\ DecreaseReferenceCount(pt[p][v])
      BY <1>0, <1>3, <2>1 DEF Drops, Present, MapTypes
    <3> QED
      BY <1>0, <3>1, ZeroStays
  <2>2. CASE ~Present(p, v)
    BY <1>0, <1>3, <2>2 DEF Drops
  <2> QED
    BY <2>1, <2>2
<1>8. Others(p)
  BY <1>0, <1>3, <1>4, OthersWrites
<1>9. Cow(p)'
  <2>1. PICK y : y = IF Present(p, v) THEN {} ELSE vm[p][v]
    OBVIOUS
  <2>2. (<<p, v>> \in writable' => pt[p][v] # None /\ "pending" \notin y) /\ (y # {} => "cow" \in y)
    BY <1>0, <1>1, <1>3, <2>1 DEF Cow, Ending, Present
  <2>3. At(p) \notin {"exit", "dead"} /\ Writes(p, v, pt[p][v], y)
    BY <1>1, <1>3, <2>1
  <2> QED
    BY <1>0, <1>3, <1>4, <1>5, <2>2, <2>3, CowWrites
<1>10. ASSUME NEW w \in Pages PROVE Owns(p, w)' => Owns(p, w)
  <2>1. CASE w = v
    BY <1>6, <2>1 DEF Owns, EntryTurns
  <2>2. CASE w # v
    BY <1>0, <1>1, <1>3, <1>4, <1>6, <1>10, <2>2, OwnsWrites
  <2> QED
    BY <2>1, <2>2
<1>11. \A w \in Pages : pt'[p][w] # 0
  BY <1>0, <1>3
<1> QED
  BY <1>6, <1>7, <1>8, <1>9, <1>10, <1>11, SafeShrinks

\* UnmapClear,
LEMMA SafeClear ==
  ASSUME CountInv, Safe, NEW p \in Procs, UnmapClear(p)
  PROVE  Safe'
<1>0. OwnInv /\ Cow(p) /\ 0 \in locked /\ MapTypes /\ (\A w \in Pages : pt[p][w] # 0) /\ 0 \in Frames
  BY SafeParts
<1>1. At(p) = "unmapClear" /\ Looping(p)
  BY DEF UnmapClear, Looping
<1>2. PICK v \in Pages : v = call[p].page
  BY <1>0, <1>1, Pieces
<1>3. /\ UNCHANGED <<vm, brk, rmap, locked, rc, data, entries>>
      /\ Writes(p, v, None, vm[p][v]) /\ writable' = writable \ {<<p, v>>}
      /\ Goes(p, Advance(p, "unmap"))
  BY <1>0, <1>2, ClearEffect
<1>4. EntryTurns(p, v, Entry(p, v)) /\ CopyTurns(p, Copy(p))
  BY <1>0, <1>2, StayTurns
<1>5. Others(p)
  BY <1>0, <1>3, OthersWrites
<1>6. Cow(p)'
  <2>1. /\ (<<p, v>> \notin writable') /\ (vm[p][v] # {} => "cow" \in vm[p][v]) /\ At(p) \notin {"exit", "dead"}
        /\ \A w \in Pages : <<p, w>> \in writable' => <<p, w>> \in writable
    BY <1>0, <1>1, <1>3 DEF Cow, Ending
  <2>2. Advance(p, "unmap").at # "mprotect"
    BY <1>0, <1>1, <1>3, InsideAdvance
  <2> QED
    BY <1>0, <1>3, <2>1, <2>2, CowWrites
<1>7. \A w \in Pages : Owns(p, w)' => Owns(p, w)
  BY <1>1, <1>3, <1>4 DEF Owns, Ending, EntryTurns
<1>8. \A w \in Pages : pt'[p][w] # 0
  BY <1>0, <1>3, Constants DEF Writes, Put, Frames
<1> QED
  BY <1>0, <1>3, <1>4, <1>5, <1>6, <1>7, <1>8, SafeShrinks

\* MprotectPage, whose page waits for no copy,
LEMMA SafeProtect ==
  ASSUME CountInv, Safe, NEW p \in Procs, MprotectPage(p)
  PROVE  Safe'
<1>0. OwnInv /\ Cow(p) /\ 0 \in locked /\ MapTypes /\ AreaTypes /\ (\A w \in Pages : pt[p][w] # 0) /\ 0 \in Frames
  BY SafeParts
<1>1. At(p) = "mprotect" /\ Looping(p)
  BY DEF MprotectPage, Looping
<1>2. PICK v \in Pages : v = call[p].page
  BY <1>0, <1>1, Pieces
<1>3. UNCHANGED <<pt, brk, rmap, locked, rc, data, entries>>
  BY <1>0, <1>2, ProtectEffect
<1>4. EntryTurns(p, v, Entry(p, v)) /\ CopyTurns(p, Copy(p))
  BY <1>0, <1>2, StayTurns
<1>5. /\ call[p].page \in Nat /\ call[p].last \in Nat /\ call[p].page <= call[p].last
      /\ \A w \in call[p].page..call[p].last : "pending" \notin vm[p][w]
  BY <1>0, <1>1, Pieces DEF Inside, Cow
<1>6. "pending" \notin vm[p][v]
  BY <1>2, <1>5
<1>7. PICK r, y : /\ Goes(p, r) /\ Writes(p, v, pt[p][v], y)
                  /\ writable' \in {writable, writable \cup {<<p, v>>}, writable \ {<<p, v>>}}
                  /\ "pending" \notin y /\ (y # {} => "cow" \in y) /\ (<<p, v>> \in writable' => pt[p][v] # None)
                  /\ (r = InUser \/ r = Advance(p, "mprotect"))
  <2>1. CASE ~Present(p, v)
    <3>1. UNCHANGED <<writable, vm>> /\ Goes(p, InUser)
      BY <1>0, <1>2, <2>1, ProtectEffect
    <3>2. Writes(p, v, pt[p][v], vm[p][v])
      BY <1>0, <1>3, <3>1, WritesNothing
    <3>3. (vm[p][v] # {} => "cow" \in vm[p][v]) /\ (<<p, v>> \in writable' => pt[p][v] # None)
      BY <1>0, <1>1, <3>1 DEF Cow, Ending, Present
    <3> QED
      BY <1>6, <3>1, <3>2, <3>3
  <2>2. CASE Present(p, v)
    <3>1. /\ writable' \in {writable \cup {<<p, v>>}, writable \ {<<p, v>>}}
          /\ Goes(p, Advance(p, "mprotect"))
          /\ \E y : /\ Writes(p, v, pt[p][v], y)
                    /\ "us" \in y /\ "cow" \in y /\ "pending" \notin y
      BY <1>0, <1>2, <2>2, ProtectEffect
    <3> QED
      BY <2>2, <3>1 DEF Present
  <2> QED
    BY <2>1, <2>2
<1>8. \A w \in Pages : vm'[p][w] = IF w = v THEN y ELSE vm[p][w]
  BY <1>7 DEF Writes, Put
<1>9. Others(p)
  BY <1>0, <1>3, <1>7, OthersWrites
<1>10. Cow(p)'
  <2>1. r.at = "mprotect" => \A w \in r.page..r.last : "pending" \notin vm'[p][w]
    <3> SUFFICES ASSUME r.at = "mprotect", NEW w \in r.page..r.last PROVE "pending" \notin vm'[p][w]
      OBVIOUS
    <3>1. r # InUser /\ r = Advance(p, "mprotect") /\ "mprotect" \in Points /\ call \in [Procs -> Calling]
      BY <1>0, <1>7, InUserIs DEF Points, AreaTypes
    <3>2. call[p].page # call[p].last /\ r.page = call[p].page + 1 /\ r.last = call[p].last
      BY <3>1, AdvanceIs
    <3>3. w \in call[p].page..call[p].last /\ w # v
      BY <1>2, <1>5, <3>2
    <3>4. w \in Pages
      BY <1>0, <1>1, <3>3, Pieces DEF Inside
    <3> QED
      BY <1>5, <1>8, <3>3, <3>4
  <2>2. /\ At(p) \notin {"exit", "dead"} /\ (<<p, v>> \in writable' => pt[p][v] # None /\ "pending" \notin y)
        /\ (\A w \in Pages : w # v /\ <<p, w>> \in writable' => <<p, w>> \in writable)
        /\ (y # {} => "cow" \in y)
    BY <1>1, <1>7
  <2> QED
    BY <1>0, <1>7, <2>1, <2>2, CowWrites
<1>11. ASSUME NEW w \in Pages PROVE Owns(p, w)' => Owns(p, w)
  <2>1. CASE w = v
    BY <1>1, <1>4, <1>6, <2>1 DEF Owns, Ending, EntryTurns
  <2>2. CASE w # v
    BY <1>0, <1>1, <1>4, <1>7, <1>11, <2>2, OwnsWrites
  <2> QED
    BY <2>1, <2>2
<1>12. \A w \in Pages : pt'[p][w] # 0
  BY <1>0, <1>3
<1> QED
  BY <1>0, <1>3, <1>4, <1>9, <1>10, <1>11, <1>12, SafeShrinks

\* MmapMap and BrkPage, with a frame nobody has,
LEMMA SafeMap ==
  ASSUME CountInv, Safe, MemoryLeft, NEW p \in Procs, MmapMap(p) \/ BrkPage(p)
  PROVE  Safe'
<1>0. /\ OwnInv /\ Cow(p) /\ 0 \in locked /\ MapTypes /\ AreaTypes /\ (\A w \in Pages : pt[p][w] # 0) /\ 0 \in Frames
      /\ NoZero /\ Apart /\ (\A q \in Procs : Cow(q)) /\ Copy(p) # 0
  BY SafeParts
<1>1. PICK v \in Pages : v = call[p].page
  BY <1>0, Pieces DEF MmapMap, BrkPage, Looping
<1>2. /\ Requested \in Frames /\ Take(Requested)
      /\ Writes(p, v, Requested, OwnFlags) /\ writable' = writable \cup {<<p, v>>}
      /\ \/ /\ At(p) = "mmapMap" /\ brk' = brk /\ Goes(p, Advance(p, "mmap"))
         \/ /\ At(p) = "brk" /\ brk' = [brk EXCEPT ![p] = @ + 1] /\ Goes(p, Advance(p, "brk"))
  BY <1>0, <1>1, MapEffect
<1>3. PICK r : Goes(p, r) /\ r.at \in {"user", "mmap", "brk"}
  <2>1. CASE At(p) = "mmapMap"
    BY <1>0, <1>2, <2>1, InsideAdvance DEF Looping
  <2>2. CASE At(p) = "brk"
    BY <1>0, <1>2, <2>2, BrkAdvance
  <2> QED
    BY <1>2, <2>1, <2>2
<1>4. EntryTurns(p, v, Requested) /\ CopyTurns(p, Copy(p))
  BY <1>0, <1>1, MapTurns
<1>5. /\ Requested # 0 /\ Requested # None /\ (\A q \in Procs, w \in Pages : Entry(q, w) # Requested)
      /\ \A q \in Procs : Copy(q) # Requested
  BY <1>0, FreshFrame
<1>6. \A q \in Procs \ {p} : brk'[q] = brk[q]
  BY <1>0, <1>2 DEF AreaTypes
<1>7. Others(p)
  BY <1>0, <1>2, <1>3, <1>6, OthersWrites
<1>8. Cow(p)'
  <2>1. At(p) \notin {"exit", "dead"} /\ r.at # "mprotect" /\ "pending" \notin OwnFlags /\ "cow" \in OwnFlags
    BY <1>2, <1>3 DEF OwnFlags
  <2>2. \A w \in Pages : w # v /\ <<p, w>> \in writable' => <<p, w>> \in writable
    BY <1>2
  <2> QED
    BY <1>0, <1>2, <1>3, <1>5, <2>1, <2>2, CowWrites
<1>9. \A q \in Procs : Cow(q)'
  BY <1>0, <1>7, <1>8, OthersCow
<1>10. NoZero'
  <2>1. 0 \in locked' /\ Copy(p)' # 0
    BY <1>0, <1>2, <1>4, ZeroStays DEF CopyTurns
  <2>2. \A w \in Pages : pt'[p][w] # 0
    BY <1>0, <1>2, <1>5 DEF Writes, Put
  <2> QED
    BY <1>0, <1>7, <2>1, <2>2, OthersZero
<1>11. ASSUME NEW q \in Procs, NEW w \in Pages PROVE Owns(q, w)' => Owns(q, w) \/ Entry(q, w)' = Requested
  <2>1. CASE q = p /\ w = v
    BY <1>4, <2>1 DEF EntryTurns
  <2>2. CASE q = p /\ w # v
    <3>1. At(p) \notin {"exit", "dead"}
      BY <1>2
    <3> QED
      BY <1>0, <1>2, <1>3, <1>4, <1>11, <2>2, <3>1, OwnsWrites
  <2>3. CASE q # p
    BY <1>7, <1>11, <2>3, OthersOwns
  <2> QED
    BY <2>1, <2>2, <2>3
<1>12. Apart'
  BY <1>0, <1>4, <1>5, <1>11, ApartTakes
<1> QED
  BY <1>9, <1>10, <1>12 DEF Safe

\* FaultCopy, likewise,
LEMMA SafeFaultCopy ==
  ASSUME CountInv, Safe, MemoryLeft, NEW p \in Procs, NEW v \in Pages, FaultCopy(p, v)
  PROVE  Safe'
<1>0. /\ OwnInv /\ Cow(p) /\ 0 \in locked /\ MapTypes /\ AreaTypes /\ (\A w \in Pages : pt[p][w] # 0) /\ 0 \in Frames
      /\ NoZero /\ Apart /\ (\A q \in Procs : Cow(q)) /\ Copy(p) # 0
  BY SafeParts
<1>1. /\ At(p) = "user" /\ Present(p, v) /\ "pending" \in vm[p][v]
      /\ Requested \in Frames /\ Take(Requested) /\ UNCHANGED <<pt, writable, vm, brk, rmap>>
  BY <1>0, FaultCopyEffect
<1>2. PICK r : Goes(p, r) /\ r.at = "faultDrop"
  BY <1>0, FaultCopyEffect
<1>3. EntryTurns(p, v, Entry(p, v)) /\ CopyTurns(p, Requested)
  BY <1>0, FaultCopyTurns
<1>4. Writes(p, v, pt[p][v], vm[p][v])
  BY <1>0, <1>1, WritesNothing
<1>5. /\ Requested # 0 /\ Requested # None /\ (\A q \in Procs, w \in Pages : Entry(q, w) # Requested)
      /\ \A q \in Procs : Copy(q) # Requested
  BY <1>0, FreshFrame
<1>6. Others(p)
  BY <1>0, <1>1, <1>2, <1>4, OthersWrites
<1>7. Cow(p)'
  <2>1. (<<p, v>> \in writable' => pt[p][v] # None /\ "pending" \notin vm[p][v]) /\ (vm[p][v] # {} => "cow" \in vm[p][v])
    BY <1>0, <1>1 DEF Cow, Ending, Present
  <2>2. At(p) \notin {"exit", "dead"} /\ r.at # "mprotect"
    BY <1>1, <1>2
  <2> QED
    BY <1>0, <1>1, <1>2, <1>4, <2>1, <2>2, CowWrites
<1>8. \A q \in Procs : Cow(q)'
  BY <1>0, <1>6, <1>7, OthersCow
<1>9. NoZero'
  <2>1. 0 \in locked' /\ Copy(p)' # 0
    BY <1>0, <1>1, <1>3, <1>5, ZeroStays DEF CopyTurns
  <2>2. \A w \in Pages : pt'[p][w] # 0
    BY <1>0, <1>1
  <2> QED
    BY <1>0, <1>6, <2>1, <2>2, OthersZero
<1>10. ASSUME NEW q \in Procs, NEW w \in Pages PROVE Owns(q, w)' => Owns(q, w)
  <2>1. CASE q = p
    BY <1>1, <1>3, <2>1 DEF Owns, Ending, EntryTurns
  <2>2. CASE q # p
    BY <1>6, <1>10, <2>2, OthersOwns
  <2> QED
    BY <2>1, <2>2
<1>11. Apart'
  BY <1>0, <1>3, <1>5, <1>10, ApartTakes
<1> QED
  BY <1>8, <1>9, <1>11 DEF Safe

\* FaultDrop,
LEMMA SafeFaultDrop ==
  ASSUME CountInv, Safe, NEW p \in Procs, FaultDrop(p)
  PROVE  Safe'
<1>0. OwnInv /\ Cow(p) /\ 0 \in locked /\ MapTypes /\ \A w \in Pages : pt[p][w] # 0
  BY SafeParts
<1>1. PICK v \in Pages : v = call[p].page
  BY <1>0, Pieces DEF FaultDrop, Faulting
<1>2. /\ At(p) = "faultDrop" /\ pt[p][v] \in Frames
      /\ DecreaseReferenceCount(pt[p][v]) /\ UNCHANGED <<pt, writable, vm, brk, rmap, entries>>
  BY <1>0, <1>1, FaultDropEffect
<1>3. PICK r : Goes(p, r) /\ r.at = "faultMap"
  BY <1>0, <1>1, FaultDropEffect
<1>4. EntryTurns(p, v, None) /\ CopyTurns(p, Copy(p))
  BY <1>0, <1>1, FaultDropTurns
<1>5. Writes(p, v, pt[p][v], vm[p][v])
  BY <1>0, <1>2, WritesNothing
<1>6. Others(p)
  BY <1>0, <1>2, <1>3, <1>5, OthersWrites
<1>7. Cow(p)'
  <2>1. (<<p, v>> \in writable' => pt[p][v] # None /\ "pending" \notin vm[p][v]) /\ (vm[p][v] # {} => "cow" \in vm[p][v])
    BY <1>0, <1>2 DEF Cow, Ending, Present
  <2>2. At(p) \notin {"exit", "dead"} /\ r.at # "mprotect"
    BY <1>2, <1>3
  <2> QED
    BY <1>0, <1>2, <1>3, <1>5, <2>1, <2>2, CowWrites
<1>8. \A w \in Pages : Owns(p, w)' => Owns(p, w)
  BY <1>2, <1>4 DEF Owns, Ending, EntryTurns
<1>9. 0 \in locked'
  BY <1>0, <1>2, ZeroStays
<1>10. \A w \in Pages : pt'[p][w] # 0
  BY <1>0, <1>2
<1> QED
  BY <1>4, <1>6, <1>7, <1>8, <1>9, <1>10, SafeShrinks

\* FaultMap: the copy is nobody else's,
LEMMA SafeFaultMap ==
  ASSUME CountInv, Safe, NEW p \in Procs, FaultMap(p)
  PROVE  Safe'
<1>0. /\ OwnInv /\ Cow(p) /\ 0 \in locked /\ MapTypes /\ AreaTypes /\ (\A w \in Pages : pt[p][w] # 0) /\ 0 \in Frames
      /\ NoZero /\ Apart /\ (\A q \in Procs : Cow(q)) /\ Copy(p) # 0
  BY SafeParts
<1>1. PICK v \in Pages : v = call[p].page
  BY <1>0, Pieces DEF FaultMap, Faulting
<1>2. /\ At(p) = "faultMap" /\ call[p].frame \in Frames
      /\ Writes(p, v, call[p].frame, vm[p][v] \ {"pending"})
      /\ writable' = writable \cup {<<p, v>>} /\ Goes(p, InUser)
      /\ UNCHANGED <<brk, rmap, locked, rc, data, entries>>
  BY <1>0, <1>1, FaultMapEffect
<1>3. EntryTurns(p, v, call[p].frame) /\ CopyTurns(p, None) /\ Copy(p) = call[p].frame
  BY <1>0, <1>1, FaultMapTurns
<1>4. call[p].frame # 0 /\ call[p].frame # None /\ None # 0
  BY <1>0, <1>2, <1>3, Constants
<1>5. Others(p)
  BY <1>0, <1>2, OthersWrites
<1>6. Cow(p)'
  <2>1. /\ "pending" \notin vm[p][v] \ {"pending"}
        /\ (vm[p][v] \ {"pending"} # {} => "cow" \in vm[p][v] \ {"pending"})
        /\ At(p) \notin {"exit", "dead"} /\ InUser.at # "mprotect"
        /\ \A w \in Pages : w # v /\ <<p, w>> \in writable' => <<p, w>> \in writable
    BY <1>0, <1>2, InUserIs DEF Cow, Ending
  <2> QED
    BY <1>0, <1>2, <1>4, <2>1, CowWrites
<1>7. \A q \in Procs : Cow(q)'
  BY <1>0, <1>5, <1>6, OthersCow
<1>8. NoZero'
  <2>1. 0 \in locked' /\ Copy(p)' # 0
    BY <1>0, <1>2, <1>3, <1>4 DEF CopyTurns
  <2>2. \A w \in Pages : pt'[p][w] # 0
    BY <1>0, <1>2, <1>4 DEF Writes, Put
  <2> QED
    BY <1>0, <1>5, <2>1, <2>2, OthersZero
<1>9. ASSUME NEW q \in Procs, NEW w \in Pages PROVE Owns(q, w)' => Owns(q, w) \/ (q = p /\ w = v)
  <2>2. CASE q = p /\ w # v
    <3>1. At(p) \notin {"exit", "dead"}
      BY <1>2
    <3> QED
      BY <1>0, <1>2, <1>3, <1>9, <2>2, <3>1, OwnsWrites
  <2>3. CASE q # p
    BY <1>5, <1>9, <2>3, OthersOwns
  <2> QED
    BY <2>2, <2>3
<1>10. Apart'
  BY <1>0, <1>3, <1>4, <1>9, ApartMaps
<1> QED
  BY <1>7, <1>8, <1>10 DEF Safe

\* Exit,
LEMMA SafeExit ==
  ASSUME CountInv, Safe, NEW p \in Procs, Exit(p)
  PROVE  Safe'
<1>0. OwnInv /\ Cow(p) /\ 0 \in locked /\ MapTypes /\ AreaTypes /\ \A w \in Pages : pt[p][w] # 0
  BY SafeParts
<1>a. PICK v \in Pages : v = 1
  BY Constants DEF Pages
<1>1. /\ At(p) = "user" /\ UNCHANGED <<pt, writable, brk, rmap, locked, rc, data>>
      /\ vm' = [vm EXCEPT ![p] = ExitMarks(p)]
  BY <1>0, ExitEffect
<1>2. PICK r : Goes(p, r) /\ r.at = "exit"
  BY <1>0, ExitEffect
<1>3. call'[p] = r /\ At(p)' = "exit" /\ \A q \in Procs \ {p} : call'[q] = call[q]
  BY <1>0, <1>2, GoesIs DEF At
<1>4. EntryTurns(p, v, Entry(p, v)) /\ CopyTurns(p, Copy(p))
  BY <1>0, ExitTurns
<1>5. Others(p)
  BY <1>0, <1>1, <1>3 DEF Others, Rests, MapTypes
<1>6. Cow(p)' /\ \A w \in Pages : ~Owns(p, w)'
  BY <1>0, <1>1, <1>3 DEF Cow, Ending, Present, Owns
<1> QED
  BY <1>0, <1>1, <1>4, <1>5, <1>6, SafeShrinks

\* ExitPage,
LEMMA SafeExitPage ==
  ASSUME CountInv, Safe, NEW p \in Procs, ExitPage(p)
  PROVE  Safe'
<1>0. OwnInv /\ Cow(p) /\ 0 \in locked /\ MapTypes /\ AreaTypes /\ \A w \in Pages : pt[p][w] # 0
  BY SafeParts
<1>1. PICK v \in Pages : v = call[p].page
  BY <1>0, Pieces DEF ExitPage
<1>2. /\ At(p) = "exit" /\ Physical(p, v) \in Frames /\ DecreaseReferenceCount(Physical(p, v))
      /\ vm' \in [Procs -> [Pages -> SUBSET Flags]] /\ Put(vm, vm', p, v, {})
      /\ UNCHANGED <<brk, rmap, entries>>
  BY <1>0, <1>1, ExitPageEffect
<1>3. PICK r : Goes(p, r) /\ (OnwardExit(p, v, r) \/ LastExit(p, v, r))
  BY <1>0, <1>1, ExitPageEffect
<1>4. call'[p] = r /\ At(p)' \in {"exit", "dead"} /\ \A q \in Procs \ {p} : call'[q] = call[q]
  BY <1>0, <1>3, GoesIs DEF At, OnwardExit, LastExit
<1>5. EntryTurns(p, v, None) /\ CopyTurns(p, Copy(p))
  BY <1>0, <1>1, ExitPageTurns
<1>6. 0 \in locked'
  BY <1>0, <1>2, ZeroStays
<1>7. Others(p)
  <2>1. ASSUME NEW q \in Procs \ {p} PROVE Rests(q) /\ \A w \in Pages : <<q, w>> \in writable' => <<q, w>> \in writable
    <3>1. vm'[q] \in [Pages -> SUBSET Flags] /\ vm[q] \in [Pages -> SUBSET Flags]
      BY <1>0, <1>2, <2>1 DEF MapTypes
    <3>2. \A w \in Pages : vm'[q][w] = vm[q][w]
      BY <1>2, <2>1 DEF Put
    <3>3. vm'[q] = vm[q]
      BY <3>1, <3>2
    <3>4. pt'[q] = pt[q]
      BY <1>0, <1>3, <2>1 DEF OnwardExit, LastExit, MapTypes
    <3>5. \A w \in Pages : <<q, w>> \in writable' => <<q, w>> \in writable
      BY <1>3 DEF OnwardExit, LastExit
    <3> QED
      BY <1>2, <1>4, <2>1, <3>3, <3>4, <3>5 DEF Rests
  <2> QED
    BY <2>1 DEF Others
<1>8. Cow(p)' /\ \A w \in Pages : pt'[p][w] # 0
  <2>1. CASE OnwardExit(p, v, r)
    BY <1>0, <1>4, <2>1 DEF OnwardExit, Cow, Ending, Present
  <2>2. CASE LastExit(p, v, r)
    <3>1. (\A w \in Pages : <<p, w>> \notin writable') /\ \A w \in Pages : pt'[p][w] = None
      BY <1>0, <2>2 DEF LastExit, MapTypes
    <3> QED
      BY <1>4, <3>1, Constants DEF Cow, Ending
  <2> QED
    BY <1>3, <2>1, <2>2
<1>9. \A w \in Pages : ~Owns(p, w)'
  BY <1>4 DEF Owns, Ending
<1> QED
  BY <1>5, <1>6, <1>7, <1>8, <1>9, SafeShrinks

\* ForkStart,
LEMMA SafeForkStart ==
  ASSUME CountInv, Safe, NEW p \in Procs, NEW c \in Procs, ForkStart(p, c)
  PROVE  Safe'
<1>0. /\ OwnInv /\ Cow(p) /\ 0 \in locked /\ MapTypes /\ AreaTypes /\ NoZero /\ Apart /\ (\A q \in Procs : Cow(q))
  BY SafeParts
<1>a. PICK v \in Pages : v = 1
  BY Constants DEF Pages
<1>1. /\ At(p) = "user" /\ At(c) = "none" /\ UNCHANGED <<pt, writable, data>>
      /\ vm' = [vm EXCEPT ![c] = ChildMarks(p)] /\ brk' = [brk EXCEPT ![c] = brk[p]]
      /\ (\A q \in Procs \ {p, c} : call'[q] = call[q]) /\ call'[p].at = "fork" /\ call'[c].at = "new"
  BY <1>0, ForkStartEffect
<1>2. c # p /\ At(p)' = "fork" /\ At(c)' = "new"
  BY <1>1 DEF At
<1>3. /\ EntryTurns(p, v, Entry(p, v)) /\ CopyTurns(p, Copy(p)) /\ 0 \in locked'
  BY <1>0, ForkStartTurns
<1>4. \A q \in Procs, w \in Pages : Entry(q, w)' = Entry(q, w) /\ Copy(q)' = Copy(q)
  BY <1>3 DEF EntryTurns, CopyTurns
<1>5. \A w \in Pages : pt[c][w] = None /\ Entry(c, w) = None
  BY <1>0, <1>1 DEF OwnInv, Tracked, Entry
<1>6. vm'[p] = vm[p] /\ vm'[c] = ChildMarks(p) /\ \A q \in Procs \ {p, c} : Rests(q)
  BY <1>0, <1>1, <1>2 DEF MapTypes, AreaTypes, Rests
<1>7. NoZero'
  BY <1>0, <1>1, <1>3, <1>4, <1>a DEF NoZero
<1>8. ASSUME NEW q \in Procs PROVE Cow(q)'
  <2>1. CASE q = p
    BY <1>0, <1>1, <1>2, <1>6, <2>1 DEF Cow, Ending, Present
  <2>2. CASE q = c
    <3>1. \A w \in Pages : <<c, w>> \notin writable
      BY <1>0, <1>5 DEF Cow, Present
    <3>2. \A w \in Pages : ChildMarks(p)[w] # {} => "cow" \in ChildMarks(p)[w]
      BY <1>0, <1>1 DEF ChildMarks, Cow, Ending, StackFlags
    <3> QED
      BY <1>1, <1>2, <1>6, <2>2, <3>1, <3>2 DEF Cow
  <2>3. CASE q \notin {p, c}
    BY <1>0, <1>1, <1>6, <1>8, <2>3, CowRests
  <2> QED
    BY <2>1, <2>2, <2>3
<1>9. ASSUME NEW q \in Procs, NEW w \in Pages PROVE Owns(q, w)' => Owns(q, w)
  <2>1. CASE q = p
    BY <1>1, <1>4, <1>6, <2>1 DEF Owns, Ending
  <2>2. CASE q = c
    BY <1>4, <1>5, <2>2 DEF Owns
  <2>3. CASE q \notin {p, c}
    BY <1>6, <1>9, <2>3, OwnsRests
  <2> QED
    BY <2>1, <2>2, <2>3
<1>10. Apart'
  BY <1>0, <1>4, <1>9, ApartShrinks
<1> QED
  BY <1>7, <1>8, <1>10 DEF Safe

\* ForkReady: by then every page of parent and child waits for a copy,
LEMMA SafeForkReady ==
  ASSUME CountInv, Safe, NEW p \in Procs, ForkReady(p)
  PROVE  Safe'
<1>0. /\ OwnInv /\ Cow(p) /\ 0 \in locked /\ MapTypes /\ AreaTypes /\ NoZero /\ Apart /\ (\A q \in Procs : Cow(q))
  BY SafeParts
<1>a. PICK v \in Pages : v = 1
  BY Constants DEF Pages
<1>b. PICK c \in Procs : c = call[p].child
  BY <1>0, Pieces DEF ForkReady, Family
<1>1. /\ At(p) = "fork" /\ At(c) = "new" /\ UNCHANGED <<pt, writable, vm, brk, rmap, locked, rc, data, entries>>
      /\ call'[p] = InUser /\ call'[c] = InUser /\ \A q \in Procs \ {p, c} : call'[q] = call[q]
  BY <1>0, <1>b, ForkReadyEffect
<1>2. At(p)' = "user" /\ At(c)' = "user"
  BY <1>1, InUserIs DEF At
<1>3. EntryTurns(p, v, Entry(p, v)) /\ CopyTurns(p, Copy(p))
  BY <1>0, ForkReadyTurns
<1>4. \A q \in Procs, w \in Pages : Entry(q, w)' = Entry(q, w) /\ Copy(q)' = Copy(q)
  BY <1>3 DEF EntryTurns, CopyTurns
<1>5. \A q \in Procs \ {p, c} : Rests(q)
  BY <1>1 DEF Rests
<1>6. NoZero'
  BY <1>0, <1>1, <1>4, <1>a DEF NoZero
<1>7. ASSUME NEW q \in Procs PROVE Cow(q)' /\ \A w \in Pages : Owns(q, w)' => Owns(q, w)
  <2>1. CASE q \in {p, c}
    <3>1. At(q) \in {"fork", "new"} /\ At(q)' = "user" /\ Cow(q)
      BY <1>0, <1>1, <1>2, <2>1
    <3>2. \A w \in Pages : Present(q, w)' = Present(q, w)
      BY <1>1 DEF Present
    <3> QED
      BY <1>1, <1>4, <1>7, <3>1, <3>2 DEF Cow, Ending, Owns
  <2>2. CASE q \notin {p, c}
    BY <1>0, <1>1, <1>5, <1>7, <2>2, CowRests, OwnsRests
  <2> QED
    BY <2>1, <2>2
<1>8. Apart'
  BY <1>0, <1>4, <1>7, ApartShrinks
<1> QED
  BY <1>6, <1>7, <1>8 DEF Safe

\* and ForkPage, which makes the page read-only and pending in both.
LEMMA SafeForkPage ==
  ASSUME CountInv, Safe, NEW p \in Procs, ForkPage(p)
  PROVE  Safe'
<1>0. /\ OwnInv /\ Cow(p) /\ 0 \in locked /\ MapTypes /\ AreaTypes /\ NoZero /\ Apart /\ (\A q \in Procs : Cow(q))
      /\ (\A w \in Pages : pt[p][w] # 0)
  BY SafeParts
<1>1. PICK c \in Procs : c = call[p].child /\ At(c) = "new"
  BY <1>0, Pieces DEF ForkPage, Family
<1>2. PICK v \in Pages, y \in SUBSET Flags : Shared(p, c, v, y)
  BY <1>0, <1>1, ForkPageEffect
<1>3. /\ v = call[p].page /\ At(p) = "fork" /\ c # p /\ Put(pt, pt', c, v, pt[p][v])
      /\ vm' \in [Procs -> [Pages -> SUBSET Flags]]
      /\ pt' \in [Procs -> [Pages -> Frames \cup {None}]]
      /\ (\A q \in Procs, w \in Pages : vm'[q][w] = IF w = v /\ q \in {p, c} THEN y ELSE vm[q][w])
      /\ y = (IF "cow" \in vm[p][v] THEN vm[p][v] \cup {"pending"} ELSE vm[p][v])
      /\ ("cow" \in vm[p][v] => writable' = writable \ {<<p, v>>})
      /\ (<<p, v>> \notin writable => writable' = writable)
      /\ UNCHANGED <<brk, locked>>
      /\ \E r : Goes(p, r) /\ r.at = "fork"
  BY <1>2 DEF Shared
<1>4. /\ EntryTurns(c, v, pt[p][v]) /\ CopyTurns(c, Copy(c)) /\ Entry(c, v) = None /\ Entry(p, v) = pt[p][v]
  <2>1. OwnInv /\ ForkPage(p) /\ c = call[p].child /\ Shared(p, c, v, y)
    BY <1>0, <1>1, <1>2
  <2>2. /\ EntryTurns(c, v, pt[p][v]) /\ CopyTurns(c, Copy(c))
        /\ Entry(c, v) = None /\ Entry(p, v) = pt[p][v] /\ pt[p][v] \in Frames \cup {None}
        /\ rc' = [rc EXCEPT ![Physical(p, v)] = @ + 1] /\ locked' = locked /\ Physical(p, v) \in Frames
    BY <2>1, ForkPageTurns, ZenonT(60)
  <2> QED
    BY <2>2
<1>5. At(p)' = "fork" /\ At(c)' = "new" /\ \A q \in Procs \ {p} : call'[q] = call[q]
  <2>1. PICK r : Goes(p, r) /\ r.at = "fork"
    BY <1>3
  <2> QED
    BY <1>0, <1>1, <1>3, <2>1, GoesIs DEF At
<1>6. vm[p][v] = {} => pt[p][v] = None
  BY <1>0, <1>3, MappedTracked
<1>7. vm[p][v] = {} \/ "cow" \in vm[p][v]
  BY <1>0, <1>3 DEF Cow, Ending
<1>8. <<p, v>> \notin writable' /\ <<c, v>> \notin writable' /\ writable' \subseteq writable
  <2>1. <<c, v>> \notin writable
    <3>1. pt[c][v] = None
      BY <1>1, <1>4 DEF Entry, Leaving
    <3> QED
      BY <1>0, <3>1 DEF Cow, Present
  <2>2. CASE "cow" \in vm[p][v]
    BY <1>3, <2>1, <2>2
  <2>3. CASE vm[p][v] = {}
    <3>1. <<p, v>> \notin writable
      BY <1>0, <1>6, <2>3 DEF Cow, Present
    <3> QED
      BY <1>3, <2>1, <3>1
  <2> QED
    BY <1>7, <2>2, <2>3
<1>9. \A q \in Procs, w \in Pages : pt'[q][w] = IF q = c /\ w = v THEN pt[p][v] ELSE pt[q][w]
  BY <1>3 DEF Put
<1>10. NoZero'
  <2>1. ASSUME NEW q \in Procs PROVE Copy(q)' # 0 /\ \A w \in Pages : pt'[q][w] # 0
    BY <1>0, <1>4, <1>9, <2>1 DEF NoZero, CopyTurns
  <2> QED
    BY <1>0, <1>3, <2>1 DEF NoZero
<1>11. ASSUME NEW q \in Procs \ {p, c} PROVE Rests(q)
  <2>1. \A w \in Pages : pt'[q][w] = pt[q][w] /\ vm'[q][w] = vm[q][w]
    BY <1>3, <1>9, <1>11
  <2>2. pt'[q] \in [Pages -> Frames \cup {None}] /\ pt[q] \in [Pages -> Frames \cup {None}]
        /\ vm'[q] \in [Pages -> SUBSET Flags] /\ vm[q] \in [Pages -> SUBSET Flags]
    BY <1>0, <1>3 DEF MapTypes
  <2>3. pt'[q] = pt[q]
    BY <2>1, <2>2
  <2>4. vm'[q] = vm[q]
    BY <2>1, <2>2
  <2> QED
    BY <1>3, <1>5, <2>3, <2>4 DEF Rests
<1>12. y # {} => "cow" \in y /\ "pending" \in y
  BY <1>3, <1>7
<1>13. ASSUME NEW q \in Procs PROVE Cow(q)'
  <2>1. CASE q \in {p, c}
    <3>1. At(q) \in {"fork", "new"} /\ At(q)' \in {"fork", "new"} /\ Cow(q) /\ ~Ending(q)
      BY <1>0, <1>1, <1>3, <1>5, <2>1 DEF Ending
    <3>2. ASSUME NEW w \in Pages
          PROVE  /\ (<<q, w>> \in writable' => Present(q, w)' /\ "pending" \notin vm'[q][w])
                 /\ (vm'[q][w] # {} => "cow" \in vm'[q][w])
      <4>1. CASE w = v
        BY <1>3, <1>8, <1>12, <2>1, <4>1
      <4>2. CASE w # v
        <5>1. pt'[q][w] = pt[q][w] /\ vm'[q][w] = vm[q][w]
          BY <1>3, <1>9, <1>13, <3>2, <4>2
        <5> QED
          BY <1>8, <3>1, <3>2, <5>1 DEF Cow, Present
      <4> QED
        BY <4>1, <4>2
    <3> QED
      BY <3>1, <3>2 DEF Cow
  <2>2. CASE q \notin {p, c}
    BY <1>0, <1>8, <1>11, <1>13, <2>2, CowRests
  <2> QED
    BY <2>1, <2>2
<1>14. ASSUME NEW q \in Procs, NEW w \in Pages, Owns(q, w)' PROVE Owns(q, w) /\ ~(q \in {p, c} /\ w = v)
  <2>1. CASE q \in {p, c}
    <3>1. ~Ending(q)
      BY <1>1, <1>3, <2>1 DEF Ending
    <3>2. CASE w = v
      <4>1. Entry(q, w)' = pt[p][v]
        <5>1. Entry(c, v)' = pt[p][v] /\ Entry(p, v)' = Entry(p, v)
          BY <1>3, <1>4 DEF EntryTurns
        <5> QED
          BY <1>4, <2>1, <3>2, <5>1
      <4>2. pt[p][v] # None /\ y # {}
        BY <1>3, <1>6, <1>14, <4>1 DEF Owns
      <4>3. "pending" \in vm'[q][w]
        BY <1>3, <1>12, <1>14, <2>1, <3>2, <4>2
      <4> QED
        BY <1>14, <4>3 DEF Owns
    <3>3. CASE w # v
      <4>1. Entry(q, w)' = Entry(q, w) /\ vm'[q][w] = vm[q][w]
        BY <1>3, <1>4, <1>14, <3>3 DEF EntryTurns
      <4> QED
        BY <1>14, <3>1, <3>3, <4>1 DEF Owns
    <3> QED
      BY <3>2, <3>3
  <2>2. CASE q \notin {p, c}
    BY <1>11, <1>14, <2>2, OwnsRests
  <2> QED
    BY <2>1, <2>2
<1>15. Apart'
  BY <1>0, <1>4, <1>14, ApartShares
<1> QED
  BY <1>10, <1>13, <1>15 DEF Safe

\* Every step of a process keeps Safe.
LEMMA SafeStep ==
  ASSUME "pending" \notin Calls, CountInv, Safe, MemoryLeft, NEW p \in Procs, Steps(p)
  PROVE  Safe'
<1>1. CASE Entering(p) \/ \E n \in 1..BrkSize : Brk(p, n)
  BY <1>1, SafeEnter
<1>2. CASE \E v \in Pages : \E d \in Data \ {Zero} : Write(p, v, d) \/ KernelWrite(p, v, d)
  BY <1>2, SafeWrite
<1>3. CASE (\E v \in Pages : FaultCopy(p, v)) \/ FaultDrop(p) \/ FaultMap(p)
  BY <1>3, SafeFaultCopy, SafeFaultDrop, SafeFaultMap
<1>4. CASE \E c \in Procs : ForkStart(p, c)
  BY <1>4, SafeForkStart
<1>5. CASE MmapDrop(p) \/ MmapMap(p) \/ UnmapDrop(p) \/ UnmapClear(p) \/ MprotectPage(p) \/ BrkPage(p)
  BY <1>5, SafeDrop, SafeMap, SafeClear, SafeProtect
<1>6. CASE ForkPage(p) \/ ForkReady(p) \/ Exit(p) \/ ExitPage(p)
  BY <1>6, SafeForkPage, SafeForkReady, SafeExit, SafeExitPage
<1> QED
  BY <1>1, <1>2, <1>3, <1>4, <1>5, <1>6, Zenon DEF Steps

\* PrivateInv is inductive while there is memory.
LEMMA PrivateNext ==
  ASSUME "pending" \notin Calls, PrivateInv, MemoryLeft, [Next]_vars
  PROVE  PrivateInv'
<1>0. CountInv /\ Safe /\ NoZero /\ Apart /\ \A q \in Procs : Cow(q)
  BY DEF PrivateInv, Safe
<1>1. CountInv'
  BY <1>0, CountNext
<1>2. CASE Next
  <2>1. PICK p \in Procs : Steps(p)
    BY <1>2, NextSteps
  <2>2. Safe'
    BY <1>0, <2>1, SafeStep
  <2> QED
    BY <1>1, <2>2 DEF PrivateInv, Safe
<1>3. CASE UNCHANGED vars
  <2>1. \A q \in Procs : Rests(q)
    BY <1>3 DEF vars, Rests
  <2>2. UNCHANGED <<locked, writable, pt>>
    BY <1>3 DEF vars
  <2>3. \A q \in Procs : Cow(q)'
    BY <1>0, <2>1, <2>2, CowRests
  <2>4. \A q \in Procs : Copy(q)' = Copy(q) /\ \A w \in Pages : Entry(q, w)' = Entry(q, w) /\ (Owns(q, w)' => Owns(q, w))
    BY <2>1, RestsRefer, OwnsRests
  <2>5. NoZero'
    BY <1>0, <2>2, <2>4 DEF NoZero
  <2>6. Apart'
    BY <1>0, <2>4, ApartShrinks
  <2> QED
    BY <1>1, <2>3, <2>5, <2>6 DEF PrivateInv
<1> QED
  BY <1>2, <1>3

\* The first process's stack is its own.
LEMMA PrivateInit == Init => PrivateInv
<1> SUFFICES ASSUME Init PROVE PrivateInv
  OBVIOUS
<1>0. CountInv /\ MapTypes
  BY CountInit, TypeParts DEF CountInv, OwnInv
<1>1. PICK s \in Calling : s = InUser /\ s.at = "user"
  BY InUserIs
<1>2. PICK e : e = [s EXCEPT !.at = "none"]
  OBVIOUS
<1>3. e.at = "none"
  BY <1>2 DEF Calling, Points
<1>4. call = [p \in Procs |-> IF p = 1 THEN s ELSE e]
  BY <1>1, <1>2 DEF Init
<1>5. \A p \in Procs : At(p) = IF p = 1 THEN "user" ELSE "none"
  BY <1>1, <1>3, <1>4 DEF At
<1>6. \A p \in Procs, v \in Pages :
        /\ pt[p][v] = IF p = 1 /\ v \in Stack THEN v - NPages + StackSize ELSE None
        /\ vm[p][v] = IF p = 1 /\ v \in Stack THEN StackFlags ELSE {}
        /\ Entry(p, v) = pt[p][v]
  BY <1>5 DEF Entry, Leaving, Init
<1>7. \A p \in Procs : Copy(p) = None
  BY <1>5 DEF Copy
<1>8. None # 0 /\ \A v \in Stack : v - NPages + StackSize # 0 /\ v - NPages + StackSize # None
  BY Constants DEF Stack
<1>9. NoZero
  BY <1>6, <1>7, <1>8, Constants DEF NoZero, Init
<1>10. \A p \in Procs : Cow(p)
  <2> SUFFICES ASSUME NEW p \in Procs PROVE Cow(p)
    OBVIOUS
  <2>1. \A v \in Pages : <<p, v>> \in writable => p = 1 /\ v \in Stack
    BY DEF Init
  <2>2. \A v \in Pages : <<p, v>> \in writable => Present(p, v) /\ "pending" \notin vm[p][v]
    BY <1>6, <1>8, <2>1 DEF Present, StackFlags
  <2> QED
    BY <1>5, <1>6, <2>2 DEF Cow, StackFlags
<1>11. Apart
  <2>1. ASSUME NEW p \in Procs, NEW v \in Pages, Entry(p, v) # None,
               NEW q \in Procs, NEW w \in Pages, Entry(q, w) = Entry(p, v)
        PROVE  q = p /\ w = v
    <3>1. p = 1 /\ q = 1 /\ v \in Stack /\ w \in Stack /\ v - NPages + StackSize = w - NPages + StackSize
      BY <1>6, <2>1
    <3> QED
      BY <3>1, Constants DEF Stack
  <2> QED
    BY <1>7, <2>1 DEF Apart, Owns
<1> QED
  BY <1>0, <1>9, <1>10, <1>11 DEF PrivateInv

\* PrivateInv is strong enough.
LEMMA PrivateImplies == PrivateInv => WritableIsPrivate
<1> SUFFICES ASSUME PrivateInv, NEW r \in writable, At(r[1]) = "user",
                    NEW q \in Procs, NEW w \in Pages, pt[q][w] = pt[r[1]][r[2]], ~Leaving(q, w),
                    At(q) \notin {"exit", "dead"}
             PROVE  <<q, w>> = r
  BY DEF WritableIsPrivate
<1>1. MapTypes /\ Apart /\ \A p \in Procs : Cow(p)
  BY TypeParts DEF PrivateInv, CountInv, OwnInv
<1>2. PICK p \in Procs, v \in Pages : r = <<p, v>>
  BY <1>1 DEF MapTypes
<1>3. At(p) = "user" /\ pt[q][w] = pt[p][v]
  BY <1>2
<1>4. Present(p, v) /\ ~Ending(p) /\ "pending" \notin vm[p][v]
  BY <1>1, <1>2, <1>3 DEF Cow, Ending
<1>5. Entry(p, v) = pt[p][v] /\ Entry(q, w) = pt[q][w]
  BY <1>3 DEF Entry, Leaving
<1>6. Owns(p, v)
  BY <1>4, <1>5 DEF Owns, Present
<1> QED
  BY <1>1, <1>2, <1>3, <1>5, <1>6 DEF Apart

\* What a process can write is mapped nowhere else (ClonePTM, PageFault): for any
\* number of processes, pages and frames, as long as there is memory and mprotect
\* and the kernel's own writes are only given pages that wait for no copy.
\* Without either the code shares writable frames: frame 0 is handed to
\* everyone, and mprotect drops VM_PENDING_COW.
THEOREM CopyOnWriteIsPrivate ==
  ASSUME "pending" \notin Calls
  PROVE  Spec /\ []MemoryLeft => []WritableIsPrivate
<1>1. Init => PrivateInv
  BY PrivateInit
<1>2. PrivateInv /\ MemoryLeft /\ [Next]_vars => PrivateInv'
  BY PrivateNext
<1>3. PrivateInv => WritableIsPrivate
  BY PrivateImplies
<1> QED
  BY <1>1, <1>2, <1>3, PTL DEF Spec

-----------------------------------------------------------------------------
(* What processes see.                                                     *)

\* The frame p reads at page v, None if it reads nothing there.
Window(p, v) ==
  IF At(p) \in {"none", "new", "exit", "dead"} THEN None
  ELSE IF call[p].page = v /\ At(p) \in {"mmapMap", "unmapClear"} THEN None
  ELSE IF call[p].page = v /\ At(p) \in {"faultDrop", "faultMap"} THEN call[p].frame
  ELSE pt[p][v]

\* What a process reads is what its window shows.
LEMMA SeenIs ==
  ASSUME MapTypes, AreaTypes, NEW p \in Procs, NEW v \in Pages
  PROVE  Seen(p, v) = IF Window(p, v) = None THEN Unmapped ELSE data[Window(p, v)]
<1>1. call[p].frame # None
  BY Constants DEF AreaTypes, Calling
<1> QED
  BY <1>1 DEF Seen, Window

\* Also after a step.
LEMMA SeenIsNext ==
  ASSUME MapTypes', AreaTypes', NEW p \in Procs, NEW v \in Pages
  PROVE  Seen(p, v)' = IF Window(p, v)' = None THEN Unmapped ELSE data'[Window(p, v)']
<1>1. call'[p].frame # None
  BY Constants DEF AreaTypes, Calling
<1> QED
  BY <1>1 DEF Seen, Window

\* A window is an entry or a copy, and so counted.
LEMMA WindowRefers ==
  ASSUME NEW p \in Procs, NEW v \in Pages, Window(p, v) # None
  PROVE  Window(p, v) = Entry(p, v) \/ Window(p, v) = Copy(p)
BY DEF Window, Entry, Copy, Leaving

\* Also after a step.
LEMMA WindowRefersNext ==
  ASSUME NEW p \in Procs, NEW v \in Pages, Window(p, v)' # None
  PROVE  Window(p, v)' = Entry(p, v)' \/ Window(p, v)' = Copy(p)'
BY DEF Window, Entry, Copy, Leaving

\* A window is a frame.
LEMMA WindowType ==
  ASSUME MapTypes, AreaTypes, NEW p \in Procs, NEW v \in Pages
  PROVE  Window(p, v) \in Frames \cup {None}
BY DEF Window, MapTypes, AreaTypes, Calling

\* Also after a step.
LEMMA WindowTypeNext ==
  ASSUME MapTypes', AreaTypes', NEW p \in Procs, NEW v \in Pages
  PROVE  Window(p, v)' \in Frames \cup {None}
BY DEF Window, MapTypes, AreaTypes, Calling

\* A frame somebody refers to after a step is in use then.
LEMMA UsedNext ==
  ASSUME NEW f \in Frames, MappedIsCounted', f # 0,
         (\E q \in Procs, w \in Pages : Entry(q, w)' = f) \/ (\E q \in Procs : Copy(q)' = f)
  PROVE  f \in locked'
<1>1. Counted(f)'
  BY CountedIsNext
<1>2. /\ References(f)' = {r \in Procs \X Pages : Entry(r[1], r[2])' = f}
      /\ Copies(f)' = {q \in Procs : Copy(q)' = f}
  BY ReferencesAreNext
<1>3. References(f)' # {} \/ Copies(f)' # {}
  <2>1. CASE \E q \in Procs, w \in Pages : Entry(q, w)' = f
    <3>1. PICK q \in Procs, w \in Pages : Entry(q, w)' = f
      BY <2>1
    <3>2. <<q, w>> \in References(f)'
      BY <1>2, <3>1
    <3> QED
      BY <3>2
  <2>2. CASE \E q \in Procs : Copy(q)' = f
    BY <1>2, <2>2
  <2> QED
    BY <2>1, <2>2
<1>4. PICK R \in SUBSET (Procs \X Pages) : R = References(f)'
  BY <1>2
<1>5. PICK C \in SUBSET Procs : C = Copies(f)'
  BY <1>2
<1>6. IsFiniteSet(R) /\ IsFiniteSet(C) /\ Cardinality(R) \in Nat /\ Cardinality(C) \in Nat
  BY FiniteSubset
<1>7. Cardinality(R) > 0 \/ Cardinality(C) > 0
  BY <1>3, <1>4, <1>5, <1>6, FS_EmptySet
<1>8. Uses(f)' = Cardinality(R) + Cardinality(C)
  BY <1>4, <1>5, UsesTypeNext
<1> QED
  BY <1>1, <1>6, <1>7, <1>8 DEF Counted

\* What q sees at w stays.
Steady(q, w) ==
  /\ Window(q, w)' = Window(q, w)
  /\ Window(q, w) # None => data'[Window(q, w)] = data[Window(q, w)]

\* Then q reads the same.
LEMMA SteadySeen ==
  ASSUME MapTypes, AreaTypes, MapTypes', AreaTypes', NEW q \in Procs, NEW w \in Pages, Steady(q, w)
  PROVE  Seen(q, w)' = Seen(q, w)
BY SeenIs, SeenIsNext DEF Steady

\* Giving back a reference changes no frame that somebody still reads.
LEMMA DropKeeps ==
  ASSUME FrameTypes, MapTypes', AreaTypes', MappedIsCounted', NoZero', NEW f \in Frames, DecreaseReferenceCount(f),
         NEW q \in Procs, NEW w \in Pages, Window(q, w)' # None
  PROVE  data'[Window(q, w)'] = data[Window(q, w)']
<1>1. PICK g \in Frames : g = Window(q, w)'
  BY WindowTypeNext
<1>2. g = Entry(q, w)' \/ g = Copy(q)'
  BY <1>1, WindowRefersNext
<1>3. g # 0
  BY <1>1, <1>2, Constants DEF NoZero, Entry
<1>4. g \in locked'
  BY <1>2, <1>3, UsedNext
<1>5. \/ data' = data
      \/ data' = [data EXCEPT ![f] = Zero] /\ locked' = locked \ {f}
  BY DEF DecreaseReferenceCount
<1>6. data'[g] = data[g]
  BY <1>4, <1>5 DEF FrameTypes
<1> QED
  BY <1>1, <1>6

\* Filling a requested frame changes no frame that somebody reads.
LEMMA TakeKeeps ==
  ASSUME CountInv, NoZero, MemoryLeft, NEW x, data' = [data EXCEPT ![Requested] = x],
         NEW q \in Procs, NEW w \in Pages, Window(q, w) # None
  PROVE  data'[Window(q, w)] = data[Window(q, w)]
<1>1. MapTypes /\ AreaTypes /\ FrameTypes
  BY TypeParts DEF CountInv, OwnInv
<1>2. PICK g \in Frames : g = Window(q, w)
  BY <1>1, WindowType
<1>3. g # Requested
  BY <1>2, FreshFrame, WindowRefers
<1>4. data'[g] = data[g]
  BY <1>1, <1>3 DEF FrameTypes
<1> QED
  BY <1>2, <1>4

\* The windows of a process that rests.
LEMMA WindowRests ==
  ASSUME NEW q \in Procs, pt'[q] = pt[q], call'[q] = call[q], NEW w \in Pages
  PROVE  Window(q, w)' = Window(q, w)
BY DEF Window, At

\* The refinement mapping, and a step of the abstract memory.
Memory == [p \in Procs |-> [v \in Pages |-> Seen(p, v)]]
Shown == Abstract!Next \/ Memory' = Memory

\* A step that nobody sees,
LEMMA ShownSame ==
  ASSUME \A q \in Procs, w \in Pages : Seen(q, w)' = Seen(q, w)
  PROVE  Shown
BY DEF Shown, Memory

\* a step that changes one page of one process,
LEMMA ShownPage ==
  ASSUME NEW p \in Procs, NEW v \in Pages,
         \A q \in Procs, w \in Pages : Seen(q, w)' = Seen(q, w) \/ (q = p /\ w = v),
         Seen(p, v)' \in {Zero, Unmapped} \/ (Seen(p, v) # Unmapped /\ Seen(p, v)' \in Data)
  PROVE  Shown
<1>1. ASSUME NEW q \in Procs \ {p} PROVE [w \in Pages |-> Seen(q, w)'] = [w \in Pages |-> Seen(q, w)]
  BY <1>1
<1>2. Memory' = [q \in Procs |-> [w \in Pages |-> Seen(q, w)']]
  BY DEF Memory
<1>3. Abstract!KeepOther(p)
  BY <1>1, <1>2 DEF Memory, Abstract!KeepOther
<1>4. Memory'[p] = [w \in Pages |-> Seen(p, w)'] /\ Memory[p] = [w \in Pages |-> Seen(p, w)]
  BY <1>2 DEF Memory
<1>5. Abstract!Page(p, v)
  BY <1>3, <1>4 DEF Memory, Abstract!Page
<1> QED
  BY <1>5 DEF Shown, Abstract!Next

\* the end of a process,
LEMMA ShownExit ==
  ASSUME NEW p \in Procs, \A q \in Procs, w \in Pages : Seen(q, w)' = Seen(q, w) \/ q = p,
         \A w \in Pages : Seen(p, w)' = Unmapped
  PROVE  Shown
<1>1. ASSUME NEW q \in Procs \ {p} PROVE [w \in Pages |-> Seen(q, w)'] = [w \in Pages |-> Seen(q, w)]
  BY <1>1
<1>2. Memory' = [q \in Procs |-> [w \in Pages |-> Seen(q, w)']]
  BY DEF Memory
<1>3. Abstract!KeepOther(p)
  BY <1>1, <1>2 DEF Memory, Abstract!KeepOther
<1>4. [w \in Pages |-> Seen(p, w)'] = [w \in Pages |-> Unmapped]
  OBVIOUS
<1>5. Abstract!Exit(p)
  BY <1>2, <1>3, <1>4 DEF Memory, Abstract!Exit, Abstract!Nothing
<1> QED
  BY <1>5 DEF Shown, Abstract!Next

\* the start of one.
LEMMA ShownFork ==
  ASSUME NEW p \in Procs, NEW c \in Procs \ {p},
         \A q \in Procs, w \in Pages : Seen(q, w)' = Seen(q, w) \/ q = c,
         \A w \in Pages : Seen(c, w) = Unmapped /\ Seen(c, w)' = Seen(p, w)
  PROVE  Shown
<1>1. ASSUME NEW q \in Procs \ {c} PROVE [w \in Pages |-> Seen(q, w)'] = [w \in Pages |-> Seen(q, w)]
  BY <1>1
<1>2. Memory' = [q \in Procs |-> [w \in Pages |-> Seen(q, w)']]
  BY DEF Memory
<1>3. Abstract!KeepOther(c)
  BY <1>1, <1>2 DEF Memory, Abstract!KeepOther
<1>4. [w \in Pages |-> Seen(c, w)'] = [w \in Pages |-> Seen(p, w)]
  OBVIOUS
<1>5. [w \in Pages |-> Seen(c, w)] = [w \in Pages |-> Unmapped]
  OBVIOUS
<1>6. Memory'[c] = Memory[p] /\ Memory[c] = [w \in Pages |-> Unmapped]
  BY <1>2, <1>4, <1>5 DEF Memory
<1>7. Abstract!Fork(p, c)
  BY <1>3, <1>6 DEF Memory, Abstract!Fork, Abstract!Nothing
<1> QED
  BY <1>7 DEF Shown, Abstract!Next

\* Where a process reads nothing; where a handler shows something else than the
\* entry of its page.
Hidden == {"none", "new", "exit", "dead"}
Special == {"mmapMap", "unmapClear", "faultDrop", "faultMap"}
\* The frame behind page v when the entry is x and the handler is at r.
Behind(r, x) == IF r.at \in {"mmapMap", "unmapClear"} THEN None
                ELSE IF r.at \in {"faultDrop", "faultMap"} THEN r.frame ELSE x

\* The windows of a change to one entry.
LEMMA WindowWrites ==
  ASSUME OwnInv, NEW p \in Procs, NEW v, NEW x, NEW y, NEW r, Writes(p, v, x, y), Goes(p, r),
         At(p) \notin Hidden, r.at \notin Hidden,
         At(p) \in Special => call[p].page = v, r.at \in Special => r.page = v
  PROVE  /\ \A q \in Procs, w \in Pages : Window(q, w)' = Window(q, w) \/ (q = p /\ w = v)
         /\ Window(p, v)' = Behind(r, x) /\ Window(p, v) = Behind(call[p], pt[p][v])
<1>0. AreaTypes /\ MapTypes
  BY Pieces
<1>1. call'[p] = r /\ \A q \in Procs \ {p} : call'[q] = call[q]
  BY <1>0, GoesIs
<1>2. \A q \in Procs, w \in Pages : pt'[q][w] = IF q = p /\ w = v THEN x ELSE pt[q][w]
  BY DEF Writes, Put
<1>3. v \in Pages
  BY DEF Writes
<1>4. ASSUME NEW q \in Procs \ {p}, NEW w \in Pages PROVE Window(q, w)' = Window(q, w)
  BY <1>1, <1>2, <1>4 DEF Window, At
<1>5. ASSUME NEW w \in Pages, w # v PROVE Window(p, w)' = Window(p, w)
  BY <1>1, <1>2, <1>5 DEF Window, At, Hidden, Special
<1>6. Window(p, v)' = Behind(r, x)
  BY <1>1, <1>2, <1>3 DEF Window, At, Hidden, Special, Behind
<1>7. Window(p, v) = Behind(call[p], pt[p][v])
  BY DEF Window, At, Hidden, Special, Behind
<1> QED
  BY <1>4, <1>5, <1>6, <1>7

\* What the steps below start from.
Sound == PrivateInv /\ PrivateInv' /\ MemoryLeft

\* In parts.
LEMMA SoundParts ==
  ASSUME Sound
  PROVE  /\ OwnInv /\ CountInv /\ NoZero /\ Apart /\ (\A p \in Procs : Cow(p)) /\ MemoryLeft
         /\ MapTypes /\ AreaTypes /\ FrameTypes
         /\ MappedIsCounted' /\ NoZero' /\ MapTypes' /\ AreaTypes' /\ FrameTypes'
BY TypeParts, TypePartsNext DEF Sound, PrivateInv, CountInv, OwnInv

\* The windows of all stay, but perhaps p's on page v.
Still(p, v) == \A q \in Procs, w \in Pages : Window(q, w)' = Window(q, w) \/ (q = p /\ w = v)

\* Then they see the same, whatever happens to frames that are given back or
\* requested.
LEMMA StillSeen ==
  ASSUME Sound, NEW p \in Procs, NEW v, Still(p, v),
         \/ data' = data
         \/ \E f \in Frames : DecreaseReferenceCount(f)
         \/ \E x : data' = [data EXCEPT ![Requested] = x]
  PROVE  \A q \in Procs, w \in Pages : Seen(q, w)' = Seen(q, w) \/ (q = p /\ w = v)
<1> SUFFICES ASSUME NEW q \in Procs, NEW w \in Pages, ~(q = p /\ w = v)
             PROVE  Seen(q, w)' = Seen(q, w)
  OBVIOUS
<1>0. /\ CountInv /\ NoZero /\ MemoryLeft /\ MapTypes /\ AreaTypes /\ FrameTypes
      /\ MappedIsCounted' /\ NoZero' /\ MapTypes' /\ AreaTypes'
  BY SoundParts
<1>1. Window(q, w)' = Window(q, w)
  BY DEF Still
<1>2. CASE data' = data
  BY <1>0, <1>1, <1>2, SteadySeen DEF Steady
<1>3. CASE \E f \in Frames : DecreaseReferenceCount(f)
  <2>1. Window(q, w)' # None => data'[Window(q, w)'] = data[Window(q, w)']
    BY <1>0, <1>3, DropKeeps
  <2> QED
    BY <1>0, <1>1, <2>1, SteadySeen DEF Steady
<1>4. CASE \E x : data' = [data EXCEPT ![Requested] = x]
  <2>1. Window(q, w) # None => data'[Window(q, w)] = data[Window(q, w)]
    BY <1>0, <1>4, TakeKeeps
  <2> QED
    BY <1>0, <1>1, <2>1, SteadySeen DEF Steady
<1> QED
  BY <1>2, <1>3, <1>4

\* A call that starts shows nothing.
LEMMA ShowsEnter ==
  ASSUME Sound, NEW p \in Procs, Entering(p) \/ \E n \in 1..BrkSize : Brk(p, n)
  PROVE  Shown
<1>0. OwnInv /\ AreaTypes
  BY SoundParts
<1>a. PICK v \in Pages : v = 1
  BY Constants DEF Pages
<1>1. /\ At(p) = "user" /\ UNCHANGED <<pt, vm, data>>
      /\ \E r : Goes(p, r) /\ r.at \in {"mmap", "unmap", "mprotect", "brk"}
  <2>1. CASE Entering(p)
    <3>1. /\ At(p) = "user" /\ UNCHANGED <<pt, vm, data>>
          /\ \E r : Begun(p, r) /\ call' = [call EXCEPT ![p] = r]
      BY <1>0, <2>1, EnterEffect
    <3> QED
      BY <3>1 DEF Begun, Goes
  <2>2. CASE \E n \in 1..BrkSize : Brk(p, n)
    <3>1. PICK n \in 1..BrkSize : Brk(p, n)
      BY <2>2
    <3> QED
      BY <1>0, <3>1, BrkEffect
  <2> QED
    BY <2>1, <2>2
<1>2. PICK r : Goes(p, r) /\ r.at \in {"mmap", "unmap", "mprotect", "brk"}
  BY <1>1
<1>3. Writes(p, v, pt[p][v], vm[p][v])
  BY <1>0, <1>1, WritesNothing
<1>4. At(p) \notin Hidden /\ r.at \notin Hidden /\ At(p) \notin Special /\ r.at \notin Special
  BY <1>1, <1>2 DEF Hidden, Special
<1>5. Still(p, v) /\ Window(p, v)' = Behind(r, pt[p][v]) /\ Window(p, v) = Behind(call[p], pt[p][v])
  BY <1>0, <1>2, <1>3, <1>4, WindowWrites DEF Still
<1>6. Still(p, 0)
  BY <1>1, <1>2, <1>5 DEF Still, Behind, At
<1>7. \A q \in Procs, w \in Pages : Seen(q, w)' = Seen(q, w) \/ (q = p /\ w = 0)
  BY <1>1, <1>6, StillSeen
<1> QED
  BY <1>7, ShownSame DEF Pages

\* A write shows only to the writer: the page is its own.
LEMMA ShowsWrite ==
  ASSUME "pending" \notin Calls, Sound, NEW p \in Procs, NEW v \in Pages, NEW d \in Data,
         Write(p, v, d) \/ KernelWrite(p, v, d)
  PROVE  Shown
<1>0. OwnInv /\ MapTypes /\ AreaTypes /\ FrameTypes /\ MapTypes' /\ AreaTypes' /\ Apart /\ Cow(p)
  BY SoundParts
<1>1. /\ At(p) = "user" /\ Present(p, v) /\ pt[p][v] \in Frames
      /\ data' = [data EXCEPT ![pt[p][v]] = d]
      /\ UNCHANGED <<pt, vm, call>>
      /\ <<p, v>> \in writable \/ "pending" \notin vm[p][v]
  BY <1>0, WriteEffect
<1>2. Entry(p, v) = pt[p][v] /\ Owns(p, v)
  BY <1>0, <1>1 DEF Entry, Leaving, Owns, Present, Cow, Ending
<1>3. \A q \in Procs, w \in Pages : Window(q, w)' = Window(q, w)
  BY <1>1, WindowRests
<1>4. ASSUME NEW q \in Procs, NEW w \in Pages, ~(q = p /\ w = v) PROVE Seen(q, w)' = Seen(q, w)
  <2>1. ASSUME Window(q, w) # None PROVE data'[Window(q, w)] = data[Window(q, w)]
    <3>1. PICK g \in Frames : g = Window(q, w)
      BY <1>0, <2>1, WindowType
    <3>2. g # pt[p][v]
      BY <1>0, <1>2, <1>4, <2>1, <3>1, WindowRefers DEF Apart
    <3>3. data'[g] = data[g]
      BY <1>0, <1>1, <3>2 DEF FrameTypes
    <3> QED
      BY <3>1, <3>3
  <2> QED
    BY <1>0, <1>3, <2>1, SteadySeen DEF Steady
<1>5. Window(p, v) = pt[p][v] /\ pt[p][v] # None
  BY <1>1 DEF Window, Present
<1>6. Seen(p, v) = data[pt[p][v]] /\ Seen(p, v)' = data'[pt[p][v]]
  BY <1>0, <1>3, <1>5, SeenIs, SeenIsNext
<1>7. data[pt[p][v]] \in Data /\ data'[pt[p][v]] = d
  BY <1>0, <1>1 DEF FrameTypes
<1>8. Seen(p, v) # Unmapped /\ Seen(p, v)' \in Data
  BY <1>6, <1>7, Constants
<1> QED
  BY <1>4, <1>8, ShownPage

\* MmapDrop and UnmapDrop unmap the page.
LEMMA ShowsDrop ==
  ASSUME Sound, NEW p \in Procs, MmapDrop(p) \/ UnmapDrop(p)
  PROVE  Shown
<1>0. OwnInv /\ MapTypes /\ AreaTypes /\ FrameTypes /\ MapTypes' /\ AreaTypes' /\ call \in [Procs -> Calling]
  BY SoundParts DEF AreaTypes
<1>1. PICK v \in Pages : v = call[p].page
  BY <1>0, Pieces DEF MmapDrop, UnmapDrop, Looping
<1>2. /\ At(p) \in {"mmap", "unmap"} /\ Drops(p, v) /\ UNCHANGED pt
      /\ Writes(p, v, pt[p][v], IF Present(p, v) THEN {} ELSE vm[p][v])
      /\ \E r : /\ Goes(p, r)
                /\ \/ r.at \in {"mmapMap", "unmapClear"} /\ r.page = v
                   \/ ~Present(p, v) /\ r.at \in {"user", "unmap"}
  <2>1. CASE MmapDrop(p)
    BY <1>0, <1>1, <2>1, MmapDropEffect
  <2>2. CASE UnmapDrop(p)
    <3>1. /\ At(p) = "unmap" /\ UNCHANGED pt /\ Drops(p, v)
          /\ Writes(p, v, pt[p][v], IF Present(p, v) THEN {} ELSE vm[p][v])
          /\ \E r : /\ Goes(p, r)
                    /\ \/ Present(p, v) /\ r.at = "unmapClear" /\ r.page = v
                       \/ ~Present(p, v) /\ r = Advance(p, "unmap")
      BY <1>0, <1>1, <2>2, UnmapDropEffect
    <3>2. "unmap" \in Points
      BY DEF Points
    <3>3. Advance(p, "unmap") = InUser \/ Advance(p, "unmap").at = "unmap"
      BY <1>0, <3>2, AdvanceIs
    <3> QED
      BY <3>1, <3>3, InUserIs
  <2> QED
    BY <2>1, <2>2
<1>3. PICK r : /\ Goes(p, r)
               /\ \/ r.at \in {"mmapMap", "unmapClear"} /\ r.page = v
                  \/ ~Present(p, v) /\ r.at \in {"user", "unmap"}
  BY <1>2
<1>4. At(p) \notin Hidden /\ r.at \notin Hidden /\ At(p) \notin Special /\ (r.at \in Special => r.page = v)
  BY <1>2, <1>3 DEF Hidden, Special
<1>5. Still(p, v) /\ Window(p, v)' = Behind(r, pt[p][v])
  BY <1>0, <1>2, <1>3, <1>4, WindowWrites DEF Still
<1>6. Window(p, v)' = None
  BY <1>3, <1>5 DEF Behind, Present
<1>7. data' = data \/ \E f \in Frames : DecreaseReferenceCount(f)
  BY <1>0, <1>2 DEF Drops, Present, MapTypes
<1>8. Seen(p, v)' = Unmapped
  BY <1>0, <1>6, SeenIsNext
<1>9. \A q \in Procs, w \in Pages : Seen(q, w)' = Seen(q, w) \/ (q = p /\ w = v)
  BY <1>5, <1>7, StillSeen
<1> QED
  BY <1>8, <1>9, ShownPage

\* MmapMap and BrkPage map zeroes.
LEMMA ShowsMap ==
  ASSUME Sound, NEW p \in Procs, MmapMap(p) \/ BrkPage(p)
  PROVE  Shown
<1>0. /\ OwnInv /\ MapTypes /\ AreaTypes /\ FrameTypes /\ MapTypes' /\ AreaTypes' /\ call \in [Procs -> Calling]
  BY SoundParts DEF AreaTypes
<1>1. PICK v \in Pages : v = call[p].page
  BY <1>0, Pieces DEF MmapMap, BrkPage, Looping
<1>2. /\ Requested \in Frames /\ data' = [data EXCEPT ![Requested] = Zero]
      /\ Writes(p, v, Requested, OwnFlags)
      /\ \/ At(p) = "mmapMap" /\ Goes(p, Advance(p, "mmap"))
         \/ At(p) = "brk" /\ Goes(p, Advance(p, "brk"))
  BY <1>0, <1>1, MapEffect
<1>3. \E r : Goes(p, r) /\ r.at \in {"user", "mmap", "brk"}
  <2>1. "mmap" \in Points /\ "brk" \in Points
    BY DEF Points
  <2>2. /\ Advance(p, "mmap") = InUser \/ Advance(p, "mmap").at = "mmap"
        /\ Advance(p, "brk") = InUser \/ Advance(p, "brk").at = "brk"
    BY <1>0, <2>1, AdvanceIs
  <2> QED
    BY <1>2, <2>2, InUserIs
<1>4. PICK r : Goes(p, r) /\ r.at \in {"user", "mmap", "brk"}
  BY <1>3
<1>5. At(p) \notin Hidden /\ r.at \notin Hidden /\ r.at \notin Special
  BY <1>2, <1>4 DEF Hidden, Special
<1>6. Still(p, v) /\ Window(p, v)' = Behind(r, Requested)
  BY <1>0, <1>1, <1>2, <1>4, <1>5, WindowWrites DEF Still
<1>7. Window(p, v)' = Requested
  BY <1>4, <1>6 DEF Behind
<1>8. data'[Requested] = Zero /\ Requested # None
  BY <1>0, <1>2, Constants DEF FrameTypes
<1>9. Seen(p, v)' = Zero
  BY <1>0, <1>7, <1>8, SeenIsNext
<1>10. \A q \in Procs, w \in Pages : Seen(q, w)' = Seen(q, w) \/ (q = p /\ w = v)
  BY <1>2, <1>6, StillSeen
<1> QED
  BY <1>9, <1>10, ShownPage

\* Nothing changes on the page at hand either.
LEMMA ShowsSame ==
  ASSUME Sound, NEW p \in Procs, NEW v \in Pages, Still(p, v), Seen(p, v)' = Seen(p, v),
         \/ data' = data
         \/ \E f \in Frames : DecreaseReferenceCount(f)
         \/ \E x : data' = [data EXCEPT ![Requested] = x]
  PROVE  Shown
<1>1. \A q \in Procs, w \in Pages : Seen(q, w)' = Seen(q, w) \/ (q = p /\ w = v)
  BY StillSeen
<1>2. \A q \in Procs, w \in Pages : Seen(q, w)' = Seen(q, w)
  BY <1>1
<1> QED
  BY <1>2, ShownSame

\* UnmapClear shows nothing: the page was gone already.
LEMMA ShowsClear ==
  ASSUME Sound, NEW p \in Procs, UnmapClear(p)
  PROVE  Shown
<1>0. OwnInv /\ MapTypes /\ AreaTypes /\ MapTypes' /\ AreaTypes' /\ call \in [Procs -> Calling]
  BY SoundParts DEF AreaTypes
<1>1. PICK v \in Pages : v = call[p].page
  BY <1>0, Pieces DEF UnmapClear, Looping
<1>2. At(p) = "unmapClear" /\ data' = data /\ Writes(p, v, None, vm[p][v]) /\ Goes(p, Advance(p, "unmap"))
  BY <1>0, <1>1, ClearEffect
<1>3. PICK r : r = Advance(p, "unmap") /\ Goes(p, r)
  BY <1>2
<1>4. r.at \in {"user", "unmap"}
  <2>1. "unmap" \in Points
    BY DEF Points
  <2> QED
    BY <1>0, <1>3, <2>1, AdvanceIs, InUserIs
<1>5. At(p) \notin Hidden /\ r.at \notin Hidden /\ r.at \notin Special
  BY <1>2, <1>4 DEF Hidden, Special
<1>6. Still(p, v) /\ Window(p, v)' = Behind(r, None) /\ Window(p, v) = Behind(call[p], pt[p][v])
  <2>1. /\ OwnInv /\ Writes(p, v, None, vm[p][v]) /\ Goes(p, r) /\ At(p) \notin Hidden /\ r.at \notin Hidden
        /\ (At(p) \in Special => call[p].page = v) /\ (r.at \in Special => r.page = v)
    BY <1>0, <1>1, <1>2, <1>3, <1>5
  <2>2. /\ \A q \in Procs, w \in Pages : Window(q, w)' = Window(q, w) \/ (q = p /\ w = v)
        /\ Window(p, v)' = Behind(r, None) /\ Window(p, v) = Behind(call[p], pt[p][v])
    BY <2>1, WindowWrites, ZenonT(60)
  <2> QED
    BY <2>2 DEF Still
<1>7. Window(p, v)' = None /\ Window(p, v) = None
  BY <1>2, <1>4, <1>6 DEF Behind, At
<1>8. Seen(p, v)' = Seen(p, v)
  BY <1>0, <1>7, SeenIs, SeenIsNext
<1> QED
  BY <1>2, <1>6, <1>8, ShowsSame

\* MprotectPage shows nothing.
LEMMA ShowsProtect ==
  ASSUME Sound, NEW p \in Procs, MprotectPage(p)
  PROVE  Shown
<1>0. OwnInv /\ MapTypes /\ AreaTypes /\ MapTypes' /\ AreaTypes' /\ call \in [Procs -> Calling]
  BY SoundParts DEF AreaTypes
<1>1. PICK v \in Pages : v = call[p].page
  BY <1>0, Pieces DEF MprotectPage, Looping
<1>2. /\ At(p) = "mprotect" /\ data' = data /\ pt' = pt
      /\ \E r, y : Goes(p, r) /\ r.at \in {"user", "mprotect"} /\ Writes(p, v, pt[p][v], y)
  <2>1. /\ At(p) = "mprotect" /\ data' = data /\ pt' = pt
        /\ \/ vm' = vm /\ Goes(p, InUser)
           \/ Goes(p, Advance(p, "mprotect")) /\ \E y : Writes(p, v, pt[p][v], y)
    BY <1>0, <1>1, ProtectEffect
  <2>2. CASE vm' = vm /\ Goes(p, InUser)
    BY <1>0, <2>1, <2>2, WritesNothing, InUserIs
  <2>3. CASE Goes(p, Advance(p, "mprotect")) /\ \E y : Writes(p, v, pt[p][v], y)
    <3>1. "mprotect" \in Points
      BY DEF Points
    <3>2. Advance(p, "mprotect").at \in {"user", "mprotect"}
      BY <1>0, <3>1, AdvanceIs, InUserIs
    <3> QED
      BY <2>1, <2>3, <3>2
  <2> QED
    BY <2>1, <2>2, <2>3
<1>3. PICK r, y : Goes(p, r) /\ r.at \in {"user", "mprotect"} /\ Writes(p, v, pt[p][v], y)
  BY <1>2
<1>4. At(p) \notin Hidden /\ r.at \notin Hidden /\ r.at \notin Special /\ At(p) \notin Special
  BY <1>2, <1>3 DEF Hidden, Special
<1>5. Still(p, v) /\ Window(p, v)' = Behind(r, pt[p][v]) /\ Window(p, v) = Behind(call[p], pt[p][v])
  <2>1. /\ OwnInv /\ Writes(p, v, pt[p][v], y) /\ Goes(p, r) /\ At(p) \notin Hidden /\ r.at \notin Hidden
        /\ (At(p) \in Special => call[p].page = v) /\ (r.at \in Special => r.page = v)
    BY <1>0, <1>3, <1>4
  <2>2. /\ \A q \in Procs, w \in Pages : Window(q, w)' = Window(q, w) \/ (q = p /\ w = v)
        /\ Window(p, v)' = Behind(r, pt[p][v]) /\ Window(p, v) = Behind(call[p], pt[p][v])
    BY <2>1, WindowWrites, ZenonT(60)
  <2> QED
    BY <2>2 DEF Still
<1>6. Window(p, v)' = Window(p, v)
  BY <1>2, <1>3, <1>5 DEF Behind, At
<1>7. Seen(p, v)' = Seen(p, v)
  BY <1>0, <1>2, <1>6, SteadySeen DEF Steady
<1> QED
  BY <1>2, <1>5, <1>7, ShowsSame

\* The copy of a page fault reads like the page.
LEMMA ShowsFaultCopy ==
  ASSUME Sound, NEW p \in Procs, NEW v \in Pages, FaultCopy(p, v)
  PROVE  Shown
<1>0. OwnInv /\ MapTypes /\ AreaTypes /\ FrameTypes /\ MapTypes' /\ AreaTypes'
  BY SoundParts
<1>1. /\ At(p) = "user" /\ Present(p, v) /\ Requested \in Frames
      /\ data' = [data EXCEPT ![Requested] = data[pt[p][v]]]
      /\ UNCHANGED <<pt, vm>>
      /\ \E r : /\ Goes(p, r) /\ r.at = "faultDrop" /\ r.page = v /\ r.frame = Requested
  BY <1>0, FaultCopyEffect
<1>2. PICK r : Goes(p, r) /\ r.at = "faultDrop" /\ r.page = v /\ r.frame = Requested
  BY <1>1
<1>3. Writes(p, v, pt[p][v], vm[p][v])
  BY <1>0, <1>1, WritesNothing
<1>4. At(p) \notin Hidden /\ r.at \notin Hidden /\ At(p) \notin Special
  BY <1>1, <1>2 DEF Hidden, Special
<1>5. Still(p, v) /\ Window(p, v)' = Behind(r, pt[p][v]) /\ Window(p, v) = Behind(call[p], pt[p][v])
  BY <1>0, <1>2, <1>3, <1>4, WindowWrites DEF Still
<1>6. Window(p, v)' = Requested /\ Window(p, v) = pt[p][v]
  BY <1>1, <1>2, <1>5 DEF Behind, At
<1>7. data'[Requested] = data[pt[p][v]]
  BY <1>0, <1>1 DEF FrameTypes
<1>8. Requested # None /\ pt[p][v] # None
  BY <1>1, Constants DEF Present
<1>9. Seen(p, v)' = Seen(p, v)
  BY <1>0, <1>6, <1>7, <1>8, SeenIs, SeenIsNext
<1> QED
  BY <1>1, <1>5, <1>9, ShowsSame

\* Giving the old frame back shows to nobody who shares it.
LEMMA ShowsFaultDrop ==
  ASSUME Sound, NEW p \in Procs, FaultDrop(p)
  PROVE  Shown
<1>0. /\ OwnInv /\ MapTypes /\ AreaTypes /\ FrameTypes
      /\ MappedIsCounted' /\ NoZero' /\ MapTypes' /\ AreaTypes'
  BY SoundParts
<1>1. PICK v \in Pages : v = call[p].page
  BY <1>0, Pieces DEF FaultDrop, Faulting
<1>2. /\ At(p) = "faultDrop" /\ pt[p][v] \in Frames /\ DecreaseReferenceCount(pt[p][v]) /\ UNCHANGED <<pt, vm>>
      /\ \E r : /\ Goes(p, r) /\ r.at = "faultMap" /\ r.page = v /\ r.frame = call[p].frame
  BY <1>0, <1>1, FaultDropEffect
<1>3. PICK r : Goes(p, r) /\ r.at = "faultMap" /\ r.page = v /\ r.frame = call[p].frame
  BY <1>2
<1>4. Writes(p, v, pt[p][v], vm[p][v])
  BY <1>0, <1>2, WritesNothing
<1>5. At(p) \notin Hidden /\ r.at \notin Hidden
  BY <1>2, <1>3 DEF Hidden
<1>6. Still(p, v) /\ Window(p, v)' = Behind(r, pt[p][v]) /\ Window(p, v) = Behind(call[p], pt[p][v])
  BY <1>0, <1>1, <1>3, <1>4, <1>5, WindowWrites DEF Still
<1>7. Window(p, v)' = Window(p, v)
  BY <1>2, <1>3, <1>6 DEF Behind, At
<1>8. Window(p, v)' # None => data'[Window(p, v)'] = data[Window(p, v)']
  BY <1>0, <1>2, DropKeeps
<1>9. Seen(p, v)' = Seen(p, v)
  BY <1>0, <1>7, <1>8, SteadySeen DEF Steady
<1> QED
  BY <1>2, <1>6, <1>9, ShowsSame

\* Mapping the copy shows nothing.
LEMMA ShowsFaultMap ==
  ASSUME Sound, NEW p \in Procs, FaultMap(p)
  PROVE  Shown
<1>0. OwnInv /\ MapTypes /\ AreaTypes /\ MapTypes' /\ AreaTypes'
  BY SoundParts
<1>1. PICK v \in Pages : v = call[p].page
  BY <1>0, Pieces DEF FaultMap, Faulting
<1>2. /\ At(p) = "faultMap" /\ Writes(p, v, call[p].frame, vm[p][v] \ {"pending"})
      /\ Goes(p, InUser) /\ data' = data
  BY <1>0, <1>1, FaultMapEffect
<1>3. PICK r : r = InUser /\ Goes(p, r) /\ r.at = "user"
  BY <1>2, InUserIs
<1>4. At(p) \notin Hidden /\ r.at \notin Hidden /\ r.at \notin Special
  BY <1>2, <1>3 DEF Hidden, Special
<1>5. Still(p, v) /\ Window(p, v)' = Behind(r, call[p].frame) /\ Window(p, v) = Behind(call[p], pt[p][v])
  BY <1>0, <1>1, <1>2, <1>3, <1>4, WindowWrites DEF Still
<1>6. Window(p, v)' = Window(p, v)
  BY <1>2, <1>3, <1>5 DEF Behind, At
<1>7. Seen(p, v)' = Seen(p, v)
  BY <1>0, <1>2, <1>6, SteadySeen DEF Steady
<1> QED
  BY <1>2, <1>5, <1>7, ShowsSame

\* All windows stay, whichever page is named.
LEMMA ShowsStill ==
  ASSUME Sound, \A q \in Procs, w \in Pages : Window(q, w)' = Window(q, w), data' = data
  PROVE  Shown
<1>0. MapTypes /\ AreaTypes /\ MapTypes' /\ AreaTypes'
  BY SoundParts
<1>1. \A q \in Procs, w \in Pages : Seen(q, w)' = Seen(q, w)
  BY <1>0, SteadySeen DEF Steady
<1> QED
  BY <1>1, ShownSame

\* ForkStart and ForkPage show nothing,
LEMMA ShowsForkStart ==
  ASSUME Sound, NEW p \in Procs, NEW c \in Procs, ForkStart(p, c)
  PROVE  Shown
<1>0. OwnInv
  BY SoundParts
<1>1. /\ At(p) = "user" /\ At(c) = "none" /\ UNCHANGED <<pt, data>>
      /\ (\A q \in Procs \ {p, c} : call'[q] = call[q])
      /\ call'[p].at = "fork" /\ call'[c].at = "new"
  BY <1>0, ForkStartEffect
<1>2. ASSUME NEW q \in Procs, NEW w \in Pages PROVE Window(q, w)' = Window(q, w)
  <2>1. CASE q = p
    BY <1>1, <2>1 DEF Window, At
  <2>2. CASE q = c
    BY <1>1, <2>2 DEF Window, At
  <2>3. CASE q \notin {p, c}
    BY <1>1, <1>2, <2>3, WindowRests
  <2> QED
    BY <2>1, <2>2, <2>3
<1> QED
  BY <1>1, <1>2, ShowsStill

\* the child does not run yet,
LEMMA ShowsForkPage ==
  ASSUME Sound, NEW p \in Procs, ForkPage(p)
  PROVE  Shown
<1>0. OwnInv /\ AreaTypes
  BY SoundParts
<1>1. PICK c \in Procs : c = call[p].child /\ At(c) = "new"
  BY <1>0, Pieces DEF ForkPage, Family
<1>2. PICK v \in Pages, y \in SUBSET Flags : Shared(p, c, v, y)
  BY <1>0, <1>1, ForkPageEffect
<1>3. /\ At(p) = "fork" /\ c # p /\ Put(pt, pt', c, v, pt[p][v]) /\ data' = data
      /\ \E r : Goes(p, r) /\ r.at = "fork"
  BY <1>2 DEF Shared
<1>4. At(p)' = "fork" /\ \A q \in Procs \ {p} : call'[q] = call[q]
  <2>1. PICK r : Goes(p, r) /\ r.at = "fork"
    BY <1>3
  <2> QED
    BY <1>0, <2>1, GoesIs DEF At
<1>5. \A q \in Procs \ {c}, w \in Pages : pt'[q][w] = pt[q][w]
  BY <1>3 DEF Put
<1>6. ASSUME NEW q \in Procs, NEW w \in Pages PROVE Window(q, w)' = Window(q, w)
  <2>1. CASE q = p
    BY <1>3, <1>4, <1>5, <2>1 DEF Window
  <2>2. CASE q = c
    <3>1. At(c)' = "new"
      BY <1>1, <1>3, <1>4 DEF At
    <3> QED
      BY <1>1, <2>2, <3>1 DEF Window
  <2>3. CASE q \notin {p, c}
    BY <1>4, <1>5, <1>6, <2>3 DEF Window, At
  <2> QED
    BY <2>1, <2>2, <2>3
<1> QED
  BY <1>3, <1>6, ShowsStill

\* ForkReady shows the child a copy of its parent's memory.
LEMMA ShowsForkReady ==
  ASSUME Sound, NEW p \in Procs, ForkReady(p)
  PROVE  Shown
<1>0. OwnInv /\ MapTypes /\ AreaTypes /\ MapTypes' /\ AreaTypes'
  BY SoundParts
<1>1. PICK c \in Procs : c = call[p].child
  BY <1>0, Pieces DEF ForkReady, Family
<1>2. /\ At(p) = "fork" /\ At(c) = "new" /\ call[p].page > NPages /\ UNCHANGED <<pt, data>>
      /\ call'[p] = InUser /\ call'[c] = InUser /\ \A q \in Procs \ {p, c} : call'[q] = call[q]
  BY <1>0, <1>1, ForkReadyEffect
<1>3. At(p)' = "user" /\ At(c)' = "user" /\ c # p
  BY <1>2, InUserIs DEF At
<1>4. \A w \in Pages : pt[c][w] = pt[p][w]
  <2>1. \A w \in Pages : w < call[p].page
    BY <1>0, <1>2, Pieces, Constants DEF Pages
  <2> QED
    BY <1>0, <1>1, <1>2, <2>1, Pieces DEF Family
<1>5. ASSUME NEW q \in Procs \ {c}, NEW w \in Pages PROVE Window(q, w)' = Window(q, w)
  <2>1. CASE q = p
    BY <1>2, <1>3, <2>1 DEF Window
  <2>2. CASE q # p
    BY <1>2, <1>5, <2>2, WindowRests
  <2> QED
    BY <2>1, <2>2
<1>6. \A w \in Pages : Window(c, w) = None /\ Window(c, w)' = pt[c][w] /\ Window(p, w) = pt[p][w]
  BY <1>2, <1>3 DEF Window
<1>7. ASSUME NEW q \in Procs, NEW w \in Pages PROVE Seen(q, w)' = Seen(q, w) \/ q = c
  BY <1>0, <1>2, <1>5, <1>7, SteadySeen DEF Steady
<1>8. ASSUME NEW w \in Pages PROVE Seen(c, w) = Unmapped /\ Seen(c, w)' = Seen(p, w)
  BY <1>0, <1>2, <1>4, <1>6, <1>8, SeenIs, SeenIsNext
<1> QED
  BY <1>3, <1>7, <1>8, ShownFork

\* Exit ends a memory.
LEMMA ShowsExit ==
  ASSUME Sound, NEW p \in Procs, Exit(p)
  PROVE  Shown
<1>0. OwnInv /\ MapTypes /\ AreaTypes /\ MapTypes' /\ AreaTypes'
  BY SoundParts
<1>1. UNCHANGED <<pt, data>> /\ \E r : Goes(p, r) /\ r.at = "exit"
  BY <1>0, ExitEffect
<1>2. At(p)' = "exit" /\ \A q \in Procs \ {p} : call'[q] = call[q]
  <2>1. PICK r : Goes(p, r) /\ r.at = "exit"
    BY <1>1
  <2> QED
    BY <1>0, <2>1, GoesIs DEF At
<1>3. ASSUME NEW q \in Procs, NEW w \in Pages PROVE Seen(q, w)' = Seen(q, w) \/ q = p
  BY <1>0, <1>1, <1>2, <1>3, WindowRests, SteadySeen DEF Steady
<1>4. ASSUME NEW w \in Pages PROVE Seen(p, w)' = Unmapped
  <2>1. Window(p, w)' = None
    BY <1>2 DEF Window
  <2> QED
    BY <1>0, <2>1, SeenIsNext
<1> QED
  BY <1>3, <1>4, ShownExit

\* The frames then go one by one, out of everybody's sight.
LEMMA ShowsExitPage ==
  ASSUME Sound, NEW p \in Procs, ExitPage(p)
  PROVE  Shown
<1>0. OwnInv /\ MapTypes /\ AreaTypes /\ MapTypes' /\ AreaTypes'
  BY SoundParts
<1>1. PICK v \in Pages : v = call[p].page
  BY <1>0, Pieces DEF ExitPage
<1>2. /\ At(p) = "exit" /\ Physical(p, v) \in Frames /\ DecreaseReferenceCount(Physical(p, v))
      /\ \E r : Goes(p, r) /\ (OnwardExit(p, v, r) \/ LastExit(p, v, r))
  BY <1>0, <1>1, ExitPageEffect
<1>3. PICK r : Goes(p, r) /\ (OnwardExit(p, v, r) \/ LastExit(p, v, r))
  BY <1>2
<1>4. r.at \in {"exit", "dead"} /\ \A q \in Procs \ {p} : pt'[q] = pt[q]
  BY <1>0, <1>3 DEF OnwardExit, LastExit, MapTypes
<1>5. call'[p] = r /\ \A q \in Procs \ {p} : call'[q] = call[q]
  BY <1>0, <1>3, GoesIs
<1>6. ASSUME NEW q \in Procs, NEW w \in Pages PROVE Window(q, w)' = Window(q, w)
  <2>1. CASE q = p
    BY <1>2, <1>4, <1>5, <2>1 DEF Window, At
  <2>2. CASE q # p
    BY <1>4, <1>5, <1>6, <2>2, WindowRests
  <2> QED
    BY <2>1, <2>2
<1>7. Still(p, v) /\ Still(p, 0)
  BY <1>6 DEF Still
<1>8. \A q \in Procs, w \in Pages : Seen(q, w)' = Seen(q, w) \/ (q = p /\ w = 0)
  BY <1>2, <1>7, StillSeen
<1>9. \A q \in Procs, w \in Pages : Seen(q, w)' = Seen(q, w)
  BY <1>8 DEF Pages
<1> QED
  BY <1>9, ShownSame

\* Every step of a process is a step of its own memory, or none.
LEMMA ShowsStep ==
  ASSUME "pending" \notin Calls, Sound, NEW p \in Procs, Steps(p)
  PROVE  Shown
<1>1. CASE Entering(p) \/ \E n \in 1..BrkSize : Brk(p, n)
  BY <1>1, ShowsEnter
<1>2. CASE \E v \in Pages : FaultCopy(p, v)
  BY <1>2, ShowsFaultCopy
<1>3. CASE \E v \in Pages : \E d \in Data \ {Zero} : Write(p, v, d) \/ KernelWrite(p, v, d)
  BY <1>3, ShowsWrite
<1>4. CASE \E c \in Procs : ForkStart(p, c)
  BY <1>4, ShowsForkStart
<1>5. CASE MmapDrop(p) \/ UnmapDrop(p)
  BY <1>5, ShowsDrop
<1>6. CASE MmapMap(p) \/ BrkPage(p)
  BY <1>6, ShowsMap
<1>7. CASE UnmapClear(p) \/ MprotectPage(p)
  BY <1>7, ShowsClear, ShowsProtect
<1>8. CASE FaultDrop(p) \/ FaultMap(p)
  BY <1>8, ShowsFaultDrop, ShowsFaultMap
<1>9. CASE ForkPage(p) \/ ForkReady(p)
  BY <1>9, ShowsForkPage, ShowsForkReady
<1>10. CASE Exit(p) \/ ExitPage(p)
  BY <1>10, ShowsExit, ShowsExitPage
<1> QED
  BY <1>1, <1>2, <1>3, <1>4, <1>5, <1>6, <1>7, <1>8, <1>9, <1>10 DEF Steps

\* The first process's stack is zeroes.
LEMMA ShownInit == Init => Abstract!Init
<1> SUFFICES ASSUME Init PROVE Abstract!Init
  OBVIOUS
<1>1. PICK p \in Procs : p = 1
  BY Constants DEF Procs
<1>2. ASSUME NEW q \in Procs, NEW w \in Pages PROVE Seen(q, w) \in {Zero, Unmapped} /\ (q # p => Seen(q, w) = Unmapped)
  <2>1. call[q] = IF q = 1 THEN InUser ELSE [InUser EXCEPT !.at = "none"]
    BY DEF Init
  <2>2. CASE q = 1
    <3>1. call[q] = InUser
      BY <2>1, <2>2
    <3>2. At(q) = "user"
      BY <3>1, InUserIs DEF At
    <3>3. Seen(q, w) = IF pt[q][w] = None THEN Unmapped ELSE data[pt[q][w]]
      BY <3>2 DEF Seen
    <3>4. pt[q][w] = None \/ (w \in Stack /\ pt[q][w] = w - NPages + StackSize)
      BY DEF Init
    <3>5. w \in Stack => w - NPages + StackSize \in Frames
      BY Constants DEF Stack, Frames, Pages
    <3>6. data = [f \in Frames |-> Zero]
      BY DEF Init
    <3> QED
      BY <1>1, <2>2, <3>3, <3>4, <3>5, <3>6
  <2>3. CASE q # 1
    <3>1. call[q] = [InUser EXCEPT !.at = "none"]
      BY <2>1, <2>3
    <3>2. At(q) = "none"
      BY <3>1 DEF At, InUser
    <3> QED
      BY <3>2 DEF Seen
  <2> QED
    BY <2>2, <2>3
<1>3. PICK m \in [Pages -> {Zero, Unmapped}] : m = [w \in Pages |-> Seen(p, w)]
  BY <1>2
<1>4. ASSUME NEW q \in Procs
      PROVE  [w \in Pages |-> Seen(q, w)] = IF q = p THEN m ELSE [w \in Pages |-> Unmapped]
  BY <1>2, <1>3, <1>4
<1>5. Memory = [q \in Procs |-> IF q = p THEN m ELSE [w \in Pages |-> Unmapped]]
  BY <1>4 DEF Memory
<1> QED
  BY <1>5 DEF Memory, Abstract!Init, Abstract!Nothing

\* Each process has a memory of its own, PrivateMemory: sharing frames after
\* fork, copying them in PageFault and giving them back shows to no process.
\* For any number of processes, pages and frames, under the assumptions of
\* CopyOnWriteIsPrivate.
THEOREM MemoryIsPrivate ==
  ASSUME "pending" \notin Calls
  PROVE  Spec /\ []MemoryLeft => Implements
<1>1. Init => PrivateInv
  BY PrivateInit
<1>2. PrivateInv /\ MemoryLeft /\ [Next]_vars => PrivateInv'
  BY PrivateNext
<1>3. Init => Abstract!Init
  BY ShownInit
<1>4. PrivateInv /\ PrivateInv' /\ MemoryLeft /\ [Next]_vars => [Abstract!Next]_Memory
  <2> SUFFICES ASSUME PrivateInv, PrivateInv', MemoryLeft, [Next]_vars
               PROVE  Shown
    BY DEF Shown
  <2>0. Sound
    BY DEF Sound
  <2>1. CASE Next
    BY <2>0, <2>1, NextSteps, ShowsStep
  <2>2. CASE UNCHANGED vars
    <3>1. UNCHANGED <<pt, call, data>>
      BY <2>2 DEF vars
    <3>2. \A q \in Procs, w \in Pages : Window(q, w)' = Window(q, w)
      BY <3>1, WindowRests
    <3> QED
      BY <2>0, <3>1, <3>2, ShowsStill
  <2> QED
    BY <2>1, <2>2
<1>5. PrivateInv /\ PrivateInv' /\ MemoryLeft /\ [Next]_vars
      => [Abstract!Next]_([p \in Procs |-> [v \in Pages |-> Seen(p, v)]])
  BY <1>4 DEF Memory
<1> QED
  BY <1>1, <1>2, <1>3, <1>5, PTL DEF Spec, Implements, Abstract!Spec
=============================================================================
