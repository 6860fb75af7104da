--------------------------------- MODULE Heap ---------------------------------
(***************************************************************************)
(* The kernel heap (memory/heap.cpp): a doubly linked list of segments,    *)
(* each a header followed by its payload, first fit, splitting on          *)
(* allocation and merging with both neighbours on free. malloc and free    *)
(* hold heap_lock with interrupts off, so each is one step.                *)
(*                                                                         *)
(* The unit of memory is 16 bytes, to which malloc rounds sizes up.        *)
(***************************************************************************)
EXTENDS Integers, FiniteSetsExt

CONSTANTS
  Header,      \* sizeof(heap_header), in units (3)
  PageUnits,   \* units of a page (256)
  InitPages,   \* pages InitializeHeap maps
  SparePages,  \* a bound: the pages the heap may grow by, and there are frames for
  MaxRequest   \* bounds the size asked for, in units

ASSUME HeapConstants ==
  /\ Header \in Nat \ {0}
  /\ PageUnits \in Nat /\ PageUnits > 2 * Header
  /\ InitPages \in Nat \ {0} /\ SparePages \in Nat
  /\ MaxRequest \in Nat \ {0}

Null == 0
HeapBase == 1

VARIABLES
  heap,     \* the headers in memory, and heap_end
  top,      \* LastHeapAddress
  pages,    \* what is left of SparePages
  used,     \* heap_used
  failed    \* some malloc has returned nullptr

vars == <<heap, top, pages, used, failed>>

-----------------------------------------------------------------------------
(* The list of segments, as a value: size, next and previous of every       *)
(* header by its address, the addresses of the free ones, and heap_end. The *)
(* methods of heap_header map one such value to the next.                   *)

Segs(hp) == DOMAIN hp.size
\* The address after segment a.
End(hp, a) == a + Header + hp.size[a]

\* Mutant: the successor's previous is not updated.
SplitOneWay(hp, a, n) ==
  LET b == a + Header + n
      S == Segs(hp) \union {b}
  IN  IF hp.size[a] <= n + Header THEN hp
      ELSE [size |-> [x \in S |-> IF x = b THEN hp.size[a] - (n + Header)
                                  ELSE IF x = a THEN n ELSE hp.size[x]],
            next |-> [x \in S |-> IF x = b THEN hp.next[a]
                                  ELSE IF x = a THEN b ELSE hp.next[x]],
            prev |-> [x \in S |-> IF x = b THEN a ELSE hp.prev[x]],
            free |-> hp.free \union {b},
            end  |-> IF hp.end = a THEN b ELSE hp.end]

\* heap_header::split: the rest of segment a beyond n units becomes a free
\* segment of its own, if it can hold a header and more.
Split(hp, a, n) ==
  LET b == a + Header + n
      S == Segs(hp) \union {b}
  IN  IF hp.size[a] <= n + Header THEN hp
      ELSE [size |-> [x \in S |-> IF x = b THEN hp.size[a] - (n + Header)
                                  ELSE IF x = a THEN n ELSE hp.size[x]],
            next |-> [x \in S |-> IF x = b THEN hp.next[a]
                                  ELSE IF x = a THEN b ELSE hp.next[x]],
            prev |-> [x \in S |-> IF x = b THEN a
                                  ELSE IF x = hp.next[a] THEN b ELSE hp.prev[x]],
            free |-> hp.free \union {b},
            end  |-> IF hp.end = a THEN b ELSE hp.end]

\* merge_forwards on a, and merge_backwards on the successor of a: a takes
\* in the segment that follows it.
Absorb(hp, a) ==
  LET b == hp.next[a]
      S == Segs(hp) \ {b}
  IN  [size |-> [x \in S |-> IF x = a THEN hp.size[a] + hp.size[b] + Header ELSE hp.size[x]],
       next |-> [x \in S |-> IF x = a THEN hp.next[b] ELSE hp.next[x]],
       prev |-> [x \in S |-> IF x = hp.next[b] THEN a ELSE hp.prev[x]],
       free |-> hp.free \ {b},
       end  |-> IF hp.end = b THEN a ELSE hp.end]

\* The last segment u units longer.
Widen(hp, u) == [hp EXCEPT !.size[hp.end] = @ + u]

\* Mutant: the new memory stays with the last segment, in use or not.
GrowInPlace(hp, u) == Widen(hp, u)

\* ExpandHeap, given u units of new pages: the last segment takes them, and
\* if it is in use they are split off it again.
Grow(hp, u) ==
  IF hp.end \in hp.free THEN Widen(hp, u)
  ELSE Split(Widen(hp, u), hp.end, hp.size[hp.end])

SetFree(hp, a) == [hp EXCEPT !.free = @ \union {a}]
SetUsed(hp, a) == [hp EXCEPT !.free = @ \ {a}]

\* The segments find_free_segment would accept, and the one it returns: the
\* list is in order of addresses, so the first is the lowest.
Fits(hp, n) == {a \in hp.free : hp.size[a] >= n}
FirstFit(hp, n) == Min(Fits(hp, n))

\* Mutant: ExpandHeap(n).
WantedOnce(n) == (n + PageUnits - 1) \div PageUnits

\* The pages ExpandHeap(2 * n) maps.
Wanted(n) == (2 * n + PageUnits - 1) \div PageUnits

\* free marks a free and merges it with its free neighbours, the next one
\* first.
MergeNext(hp, a) ==
  IF hp.next[a] # Null /\ hp.next[a] \in hp.free THEN Absorb(hp, a) ELSE hp
MergePrev(hp, a) ==
  IF hp.prev[a] # Null /\ hp.prev[a] \in hp.free THEN Absorb(hp, hp.prev[a]) ELSE hp
\* Mutant: without merge_backwards.
ReleaseForward(hp, a) == MergeNext(SetFree(hp, a), a)

\* Both merges.
Release(hp, a) == MergePrev(MergeNext(SetFree(hp, a), a), a)

-----------------------------------------------------------------------------
\* InitializeHeap
Init ==
  /\ heap = [size |-> [a \in {HeapBase} |-> InitPages * PageUnits - Header],
             next |-> [a \in {HeapBase} |-> Null],
             prev |-> [a \in {HeapBase} |-> Null],
             free |-> {HeapBase},
             end  |-> HeapBase]
  /\ top = HeapBase + InitPages * PageUnits
  /\ pages = SparePages
  /\ used = 0
  /\ failed = FALSE

\* Mutant: heap_used grows by the size asked for.
TakeAsked(hp, n) ==
  LET a == FirstFit(hp, n)
  IN  /\ heap' = SetUsed(Split(hp, a, n), a)
      /\ used' = used + n
      /\ UNCHANGED failed

\* The rest of malloc once the list hp has a segment of n units.
Take(hp, n) ==
  LET a == FirstFit(hp, n)
  IN  /\ heap' = SetUsed(Split(hp, a, n), a)
      /\ used' = used + heap'.size[a]
      /\ UNCHANGED failed

\* malloc(n) finding a segment at the first search.
MallocFits(n) ==
  /\ Fits(heap, n) # {}
  /\ Take(heap, n)
  /\ UNCHANGED <<top, pages>>

\* malloc(n) after ExpandHeap(2 * n): the second search may fail too.  Without
\* frames left RequestPage does not return nullptr but frame 0, so the break
\* of ExpandHeap is never taken: see the README.
MallocGrows(n) ==
  LET g == Wanted(n)
      hp == Grow(heap, g * PageUnits)
  IN  /\ Fits(heap, n) = {} /\ g <= pages
      /\ top' = top + g * PageUnits
      /\ pages' = pages - g
      /\ IF Fits(hp, n) # {} THEN Take(hp, n)
         ELSE heap' = hp /\ failed' = TRUE /\ UNCHANGED used

\* free of a segment in use. (A second free is recognised by segment->free
\* and changes nothing.)
Free(a) ==
  /\ a \notin heap.free
  /\ heap' = Release(heap, a)
  /\ used' = used - heap.size[a]
  /\ UNCHANGED <<top, pages, failed>>

Next ==
  \/ \E n \in 1 .. MaxRequest : MallocFits(n) \/ MallocGrows(n)
  \/ \E a \in Segs(heap) : Free(a)

Spec == Init /\ [][Next]_vars

-----------------------------------------------------------------------------
(* Properties.                                                              *)

\* Types of the state.
Typed(hp) ==
  /\ Segs(hp) \subseteq Nat \ {Null}
  /\ hp \in [size : [Segs(hp) -> Nat], next : [Segs(hp) -> Nat], prev : [Segs(hp) -> Nat],
             free : SUBSET Segs(hp), end : Segs(hp)]
TypeOK ==
  /\ Typed(heap)
  /\ top \in Nat /\ pages \in 0 .. SparePages
  /\ used \in Nat /\ failed \in BOOLEAN

\* The list is a chain without gap or overlap: it starts at heap_start, each
\* segment's next is the address where it ends, previous mirrors next, and
\* heap_end is the last segment and ends at LastHeapAddress. So the repair
\* in fix_corrupted_stack is never needed.
Chain(hp, t) ==
  /\ hp.next[hp.end] = Null /\ End(hp, hp.end) = t
  /\ HeapBase \in Segs(hp) /\ hp.prev[HeapBase] = Null
  /\ \A a \in Segs(hp) :
       /\ a >= HeapBase /\ hp.size[a] >= 1 /\ End(hp, a) <= t
       /\ a # hp.end => /\ hp.next[a] = End(hp, a) /\ End(hp, a) \in Segs(hp)
                        /\ hp.prev[End(hp, a)] = a
       /\ a # HeapBase => hp.prev[a] \in Segs(hp) /\ hp.next[hp.prev[a]] = a
       /\ \A b \in Segs(hp) : a < b => End(hp, a) <= b
Tiled == Chain(heap, top)

\* free merges with both neighbours, so that no two free segments are ever
\* adjacent, whatever the order of calls: splitting in malloc and in
\* ExpandHeap never leaves such a pair either.
Joined(hp) == \A a \in hp.free : hp.next[a] \notin hp.free
Coalesced == Joined(heap)

\* The segments in use.
InUse(hp) == Segs(hp) \ hp.free

\* The units of the payloads of the segments in use.
UnitsInUse(hp) == UNION {{a} \X (1 .. hp.size[a]) : a \in InUse(hp)}

\* heap_used is the size of the segments in use: what free subtracts is what
\* malloc added, even if ExpandHeap grew the last segment in between.
UsedIsSum == used = Cardinality(UnitsInUse(heap))

\* Expanding by twice the size asked for is always enough, whether the last
\* segment takes the new pages or they are split off it behind a header of
\* their own: the second search never fails, and malloc never returns nullptr.
MallocSucceeds == ~failed

\* The blocks callers hold, and the specification they rely on: the list
\* implements an allocator that never hands out overlapping memory and never
\* moves, shrinks or takes back a block.
Blocks(hp) ==
  {[first |-> a + Header, last |-> End(hp, a) - 1] : a \in InUse(hp)}
Abstract == INSTANCE Allocation WITH held <- Blocks(heap)
Implements == Abstract!Spec
=============================================================================
