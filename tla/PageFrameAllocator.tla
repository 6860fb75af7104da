------------------------- MODULE PageFrameAllocator -------------------------
(***************************************************************************)
(* The physical page allocator (paging/PageFrameAllocator.cpp): one entry  *)
(* per page frame with a LOCKED flag and an 8-bit reference count, and the *)
(* free/used statistics. Requests and frees run under the allocator's      *)
(* lock, so each is one step; DecreaseReferenceCount takes the entry's     *)
(* lock for the count and the allocator's lock for the free, so it is two. *)
(*                                                                         *)
(* "refs" is what the callers believe: how many of them (page tables,      *)
(* stacks, driver buffers) refer to a frame.                               *)
(*                                                                         *)
(* No name here is one of VmTracker's, so that one module can prove about  *)
(* the frames and about the areas.                                         *)
(***************************************************************************)
EXTENDS Integers, FiniteSets

CONSTANTS
  TotalPages,   \* total_pages: the frames are 0..TotalPages-1
  Usable,       \* frames the memory map reports as usable
  Reserved,     \* frames Initialize reserves again: low memory, the page table
  RefMod,       \* 2^width of reference_count (256)
  MaxRun,       \* the largest request of contiguous pages
  MaxHeld,      \* bounds the references the callers hold together
  MaxShare,     \* bounds the references to one frame (copy on write)
  MaxPending,   \* CPUs that can be inside DecreaseReferenceCount
  MaxFailed     \* bounds the requests that find no memory

ASSUME AllocatorConstants ==
  /\ TotalPages \in Nat \ {0}
  /\ Usable \subseteq 0..(TotalPages - 1) /\ Reserved \subseteq 0..(TotalPages - 1)
  /\ 0 \in Reserved
  /\ RefMod \in Nat /\ RefMod > 1
  /\ MaxRun \in Nat /\ MaxHeld \in Nat /\ MaxShare \in Nat
  /\ MaxPending \in Nat /\ MaxFailed \in Nat

\* The entries the bounds checks let through: "> total_pages" admits one more
\* than the table has.
Entries == 0..TotalPages

VARIABLES
  locked,    \* per entry: PAGE_FLAGS_LOCKED
  rc,        \* per entry: reference_count
  freeMem,   \* free_memory, in pages
  usedMem,   \* used_memory, in pages
  refs,      \* per entry: references the callers hold
  toFree,    \* per entry: calls that saw the count at 0 and will FreePage it
  failed     \* requests so far that found no memory

frameVars == <<locked, rc, freeMem, usedMem, refs, toFree, failed>>

\* The statistics, the table and the callers' view have their types.
FrameTypes ==
  /\ locked \in [Entries -> BOOLEAN]
  /\ rc \in [Entries -> 0..(RefMod - 1)]
  /\ freeMem \in Int /\ usedMem \in Int
  /\ refs \in [Entries -> Nat]
  /\ toFree \in [Entries -> Nat]
  /\ failed \in 0..MaxFailed

\* Initialize: everything locked, usable memory unlocked, then reservations,
\* which count as used memory whether the page was usable or not. The entry
\* past the table is whatever memory holds.
Initialize ==
  /\ \E past \in BOOLEAN :
       locked = [f \in Entries |-> IF f = TotalPages THEN past
                                   ELSE f \notin Usable \/ f \in Reserved]
  /\ rc = [f \in Entries |-> 0]
  /\ freeMem = Cardinality(Usable) - Cardinality(Reserved)
  /\ usedMem = 0
  /\ refs = [f \in Entries |-> 0]
  /\ toFree = [f \in Entries |-> 0]
  /\ failed = 0

\* IsLocked answers false beyond the entries.
IsLocked(f) == f \in Entries /\ locked[f]

SumOver(g) == LET Sum[f \in Entries] == g[f] + (IF f = 0 THEN 0 ELSE Sum[f - 1])
              IN  Sum[TotalPages]
Held == SumOver(refs)

-----------------------------------------------------------------------------
\* RequestPage takes the lowest unlocked frame.
RequestPage ==
  /\ Held < MaxHeld
  /\ \E f \in 0..(TotalPages - 1) :
       /\ ~IsLocked(f) /\ \A g \in 0..(f - 1) : IsLocked(g)
       /\ locked' = [locked EXCEPT ![f] = TRUE]
       /\ rc' = [rc EXCEPT ![f] = 1]
       /\ refs' = [refs EXCEPT ![f] = @ + 1]
  /\ freeMem' = freeMem - 1
  /\ usedMem' = usedMem + 1
  /\ UNCHANGED <<toFree, failed>>

\* A request that finds no memory returns physical_to_virtual(0), an address
\* callers that look for nullptr take for a page: frame 0.
ReturnZero ==
  /\ failed < MaxFailed /\ failed' = failed + 1
  /\ refs' = [refs EXCEPT ![0] = @ + 1]
  /\ UNCHANGED <<rc, freeMem, usedMem, toFree>>

RequestPageNone ==
  /\ Held < MaxHeld
  /\ \A f \in 0..(TotalPages - 1) : IsLocked(f)
  /\ ReturnZero
  /\ UNCHANGED locked

\* Mutant: only the first frame of the run is looked at.
RunStartFree(i, n) == ~IsLocked(i)

\* The n frames from i on look free.
RunFree(i, n) == \A b \in i..(i + n - 1) : ~IsLocked(b)

\* The first frame where n frames look free. (A locked frame b moves the
\* search on to b + 1: no run that contains b is free.)
FirstRun(i, n) == RunFree(i, n) /\ \A j \in 0..(i - 1) : ~RunFree(j, n)

RequestPages(n) ==
  /\ Held + n <= MaxHeld
  /\ \E i \in 0..(TotalPages - 1) :
       LET run == i..(i + n - 1)
       IN  /\ FirstRun(i, n)
           /\ run \subseteq Entries
           /\ locked' = [f \in Entries |-> f \in run \/ locked[f]]
           /\ rc' = [f \in Entries |-> IF f \in run THEN 1 ELSE rc[f]]
           /\ refs' = [f \in Entries |-> IF f \in run THEN refs[f] + 1 ELSE refs[f]]
  /\ freeMem' = freeMem - n
  /\ usedMem' = usedMem + n
  /\ UNCHANGED <<toFree, failed>>

\* No run of n frames.
RequestPagesNone(n) ==
  /\ Held + n <= MaxHeld
  /\ \A i \in 0..(TotalPages - 1) : ~RunFree(i, n)
  /\ ReturnZero
  /\ UNCHANGED locked

\* The run leaves the table: LockPages locks up to its end, then fails, and
\* those pages stay locked. Nothing is found after that.
RequestPagesPastEnd(n) ==
  /\ Held + n <= MaxHeld
  /\ \E i \in 0..(TotalPages - 1) :
       /\ FirstRun(i, n)
       /\ ~(i..(i + n - 1) \subseteq Entries)
       /\ locked' = [f \in Entries |-> f >= i \/ locked[f]]
  /\ ReturnZero

\* UnlockPage and the statistics.
Release(f) ==
  /\ locked' = [locked EXCEPT ![f] = FALSE]
  /\ freeMem' = freeMem + 1
  /\ usedMem' = usedMem - 1

\* FreePage on the virtual address of a frame its only owner gives back
\* (stacks, buffers); reference_count is left as it is.
FreePage(f) ==
  /\ refs[f] = 1
  /\ Release(f)
  /\ refs' = [refs EXCEPT ![f] = 0]
  /\ UNCHANGED <<rc, toFree, failed>>

\* IncreaseReferenceCount, by a caller that holds a reference (ClonePTM).
IncreaseReferenceCount(f) ==
  /\ Held < MaxHeld
  /\ refs[f] > 0 /\ refs[f] < MaxShare
  /\ rc' = [rc EXCEPT ![f] = (@ + 1) % RefMod]
  /\ refs' = [refs EXCEPT ![f] = @ + 1]
  /\ UNCHANGED <<locked, freeMem, usedMem, toFree, failed>>

\* Mutant: the test for 0 comes before the decrement.
DecreaseTestFirst(f) ==
  /\ refs[f] > 0 /\ SumOver(toFree) < MaxPending
  /\ rc' = [rc EXCEPT ![f] = IF @ > 0 THEN @ - 1 ELSE 0]
  /\ toFree' = [toFree EXCEPT ![f] = IF rc[f] = 0 THEN @ + 1 ELSE @]
  /\ refs' = [refs EXCEPT ![f] = @ - 1]
  /\ UNCHANGED <<locked, freeMem, usedMem, failed>>

\* DecreaseReferenceCount, by a caller that gives its reference up: the count
\* under the entry's lock ...
DecreaseReferenceCount(f) ==
  /\ refs[f] > 0 /\ SumOver(toFree) < MaxPending
  /\ LET n == IF rc[f] > 0 THEN rc[f] - 1 ELSE 0
     IN  /\ rc' = [rc EXCEPT ![f] = n]
         /\ toFree' = [toFree EXCEPT ![f] = IF n = 0 THEN @ + 1 ELSE @]
  /\ refs' = [refs EXCEPT ![f] = @ - 1]
  /\ UNCHANGED <<locked, freeMem, usedMem, failed>>

\* ... then FreePage, which ignores frame numbers below 1 MiB: frame 0 here.
FreeCounted(f) ==
  /\ toFree[f] > 0
  /\ toFree' = [toFree EXCEPT ![f] = @ - 1]
  /\ IF f = 0 THEN UNCHANGED <<locked, freeMem, usedMem>> ELSE Release(f)
  /\ UNCHANGED <<rc, refs, failed>>

FrameNext ==
  \/ RequestPage \/ RequestPageNone
  \/ \E n \in 2..MaxRun : RequestPages(n) \/ RequestPagesNone(n) \/ RequestPagesPastEnd(n)
  \/ \E f \in Entries :
       \/ FreePage(f) \/ IncreaseReferenceCount(f)
       \/ DecreaseReferenceCount(f) \/ FreeCounted(f)

FrameSpec == Initialize /\ [][FrameNext]_frameVars

-----------------------------------------------------------------------------
\* A frame somebody refers to is locked, so that no request hands it out a
\* second time, and its reference_count is the number of references: the last
\* one to go frees it, and nobody before. Frame 0, the one a failed request
\* names, is left out.
HeldIsCounted ==
  \A f \in Entries \ {0} : refs[f] > 0 => locked[f] /\ rc[f] = refs[f]

\* The same for frame 0: it is reserved, and no caller holds it as a page.
OutOfMemoryIsSeen == refs[0] > 0 => locked[0] /\ rc[0] = refs[0]

\* While no request has failed, no frame is lost: one that is usable, referred
\* to by nobody and not on its way to FreePage is unlocked. Nor do the
\* statistics lose one: while the entry past the table is not in use,
\* free_memory counts the unlocked frames, up to the reserved pages that were
\* not usable, which Initialize subtracts all the same.
NoLeak ==
  failed = 0 =>
    /\ \A f \in Usable \ Reserved : locked[f] => refs[f] > 0 \/ toFree[f] > 0
    /\ refs[TotalPages] + toFree[TotalPages] = 0 =>
         Cardinality({f \in 0..(TotalPages - 1) : ~locked[f]})
           = freeMem + Cardinality(Reserved \ Usable)
=============================================================================
