----------------------------- MODULE MemoryProofs -----------------------------
(***************************************************************************)
(* The page frames and the areas of a task's memory, which share no state. *)
(*                                                                         *)
(* No page frame but 0 is ever handed out twice or freed while somebody    *)
(* refers to it, and until a request fails none is lost, for any memory    *)
(* map and any size of memory, as long as no frame has more references     *)
(* than reference_count can hold.                                          *)
(*                                                                         *)
(* The list of areas of a task answers as a map from pages to flags, for   *)
(* any number of pages and any sequence of calls and forks that does not   *)
(* mark a page that is marked. What a call does to a list is stated page   *)
(* by page: a page has no area (Without), or one area with the flags f and *)
(* no other (Says). Nothing is assumed of the order of the areas, and      *)
(* little where they overlap, so the lemmas hold of the list of a child    *)
(* while it is being made.                                                 *)
(***************************************************************************)
EXTENDS PageFrameAllocator, VmTracker, FiniteSetTheorems, SequenceTheorems, WellFoundedInduction,
        TLAPS

-----------------------------------------------------------------------------
(* The page frames.                                                        *)

FrameTable ==
  /\ locked \in [Entries -> BOOLEAN]
  /\ rc \in [Entries -> 0..(RefMod - 1)]
  /\ refs \in [Entries -> Nat]
  /\ toFree \in [Entries -> Nat]

\* A frame between the two steps of DecreaseReferenceCount is locked, nobody
\* refers to it any more, and one call alone will free it.
PendingIsUnheld ==
  \A f \in Entries \ {0} :
    toFree[f] > 0 => locked[f] /\ refs[f] = 0 /\ toFree[f] = 1

FrameInv == FrameTable /\ HeldIsCounted /\ PendingIsUnheld

\* The constants, for the steps below.
LEMMA Sizes ==
  /\ 0 \in Entries /\ RefMod \in Nat /\ RefMod > 1
  /\ 0 \in 0..(RefMod - 1) /\ 1 \in 0..(RefMod - 1)
  /\ \A f \in 0..(TotalPages - 1) : f \in Entries
BY AllocatorConstants DEF Entries

LEMMA FrameInit == Initialize => FrameInv
<1> SUFFICES ASSUME Initialize PROVE FrameInv
  OBVIOUS
<1>1. FrameTable
  <2>1. locked \in [Entries -> BOOLEAN]
    BY DEF Initialize
  <2> QED
    BY <2>1, Sizes DEF Initialize, FrameTable
<1>2. HeldIsCounted /\ PendingIsUnheld
  BY Sizes DEF Initialize, HeldIsCounted, PendingIsUnheld
<1> QED
  BY <1>1, <1>2 DEF FrameInv

\* Handing out a set of unlocked frames.
LEMMA GrantInv ==
  ASSUME FrameInv, NEW run \in SUBSET Entries, \A f \in run : ~locked[f],
         \A f \in Entries : locked'[f] = (f \in run \/ locked[f]),
         \A f \in Entries : rc'[f] = IF f \in run THEN 1 ELSE rc[f],
         \A f \in Entries : refs'[f] = IF f \in run THEN refs[f] + 1 ELSE refs[f],
         FrameTable', UNCHANGED toFree
  PROVE  FrameInv'
<1>1. \A f \in run \ {0} : refs[f] = 0 /\ toFree[f] = 0
  BY DEF FrameInv, FrameTable, HeldIsCounted, PendingIsUnheld
<1>2. HeldIsCounted'
  BY <1>1 DEF FrameInv, FrameTable, HeldIsCounted
<1>3. PendingIsUnheld'
  BY <1>1 DEF FrameInv, FrameTable, PendingIsUnheld
<1> QED
  BY <1>2, <1>3 DEF FrameInv

LEMMA RequestInv ==
  ASSUME FrameInv, \/ RequestPage
              \/ \E n \in 2..MaxRun : RequestPages(n)
  PROVE  FrameInv'
<1>1. CASE RequestPage
  <2>1. PICK f \in 0..(TotalPages - 1) :
             /\ ~IsLocked(f)
             /\ locked' = [locked EXCEPT ![f] = TRUE]
             /\ rc' = [rc EXCEPT ![f] = 1]
             /\ refs' = [refs EXCEPT ![f] = @ + 1]
    BY <1>1 DEF RequestPage
  <2>2. f \in Entries /\ ~locked[f] /\ toFree' = toFree
    BY <1>1, <2>1, Sizes DEF IsLocked, RequestPage
  <2>3. FrameTable'
    BY <2>1, <2>2, Sizes DEF FrameInv, FrameTable
  <2> DEFINE run == {f}
  <2>4. \A g \in Entries : locked'[g] = (g \in run \/ locked[g])
    BY <2>1, <2>2 DEF FrameInv, FrameTable
  <2>5. \A g \in Entries : /\ rc'[g] = IF g \in run THEN 1 ELSE rc[g]
                           /\ refs'[g] = IF g \in run THEN refs[g] + 1 ELSE refs[g]
    BY <2>1, <2>2 DEF FrameInv, FrameTable
  <2> QED
    BY <2>2, <2>3, <2>4, <2>5, GrantInv
<1>2. ASSUME NEW n \in 2..MaxRun, RequestPages(n) PROVE FrameInv'
  <2>1. PICK i \in 0..(TotalPages - 1) :
             /\ FirstRun(i, n)
             /\ i..(i + n - 1) \subseteq Entries
             /\ locked' = [f \in Entries |-> f \in i..(i + n - 1) \/ locked[f]]
             /\ rc' = [f \in Entries |-> IF f \in i..(i + n - 1) THEN 1 ELSE rc[f]]
             /\ refs' = [f \in Entries |-> IF f \in i..(i + n - 1) THEN refs[f] + 1 ELSE refs[f]]
    BY <1>2 DEF RequestPages
  <2> DEFINE run == i..(i + n - 1)
  <2>2. run \in SUBSET Entries /\ \A f \in run : ~locked[f]
    BY <2>1 DEF FirstRun, RunFree, IsLocked
  <2>3. toFree' = toFree
    BY <1>2 DEF RequestPages
  <2> HIDE DEF run
  <2>4. FrameTable'
    <3>1. locked' \in [Entries -> BOOLEAN]
      BY <2>1
    <3>2. rc' \in [Entries -> 0..(RefMod - 1)] /\ refs' \in [Entries -> Nat]
      BY <2>1, Sizes DEF FrameInv, FrameTable
    <3> QED
      BY <2>3, <3>1, <3>2 DEF FrameInv, FrameTable
  <2> QED
    BY <2>1, <2>2, <2>3, <2>4, GrantInv DEF run
<1> QED
  BY <1>1, <1>2

\* A failed request locks frames at most, and adds a reference to frame 0.
LEMMA FailedInv ==
  ASSUME FrameInv, \/ RequestPageNone
              \/ \E n \in 2..MaxRun : RequestPagesNone(n) \/ RequestPagesPastEnd(n)
  PROVE  FrameInv'
<1>1. ReturnZero
  BY DEF RequestPageNone, RequestPagesNone, RequestPagesPastEnd
<1>2. locked' \in [Entries -> BOOLEAN] /\ \A f \in Entries : locked[f] => locked'[f]
  <2>1. CASE UNCHANGED locked
    BY <2>1 DEF FrameInv, FrameTable
  <2>2. CASE \E i \in 0..(TotalPages - 1) : locked' = [f \in Entries |-> f >= i \/ locked[f]]
    BY <2>2
  <2> QED
    BY <2>1, <2>2 DEF RequestPageNone, RequestPagesNone, RequestPagesPastEnd
<1>3. /\ rc' = rc /\ toFree' = toFree /\ refs' \in [Entries -> Nat]
      /\ \A f \in Entries \ {0} : refs'[f] = refs[f]
  BY <1>1, Sizes DEF ReturnZero, FrameInv, FrameTable
<1> QED
  BY <1>2, <1>3 DEF FrameInv, FrameTable, HeldIsCounted, PendingIsUnheld

\* Giving a frame back.
LEMMA FreeInv ==
  ASSUME FrameInv, NEW f \in Entries, FreePage(f) \/ FreeCounted(f)
  PROVE  FrameInv'
<1>1. locked' \in [Entries -> BOOLEAN] /\ \A g \in Entries \ {0, f} : locked'[g] = locked[g]
  BY DEF FreePage, FreeCounted, Release, FrameInv, FrameTable
<1>2. CASE FreePage(f)
  <2>1. /\ refs[f] = 1 /\ refs' = [refs EXCEPT ![f] = 0] /\ rc' = rc /\ toFree' = toFree
    BY <1>2 DEF FreePage
  <2>2. f # 0 => toFree[f] = 0
    BY <2>1 DEF FrameInv, FrameTable, PendingIsUnheld
  <2> QED
    BY <1>1, <2>1, <2>2 DEF FrameInv, FrameTable, HeldIsCounted, PendingIsUnheld
<1>3. CASE FreeCounted(f)
  <2>1. /\ toFree[f] > 0 /\ toFree' = [toFree EXCEPT ![f] = @ - 1]
        /\ rc' = rc /\ refs' = refs
    BY <1>3 DEF FreeCounted
  <2>2. f # 0 => refs[f] = 0 /\ toFree[f] = 1
    BY <2>1 DEF FrameInv, PendingIsUnheld
  <2>3. toFree' \in [Entries -> Nat]
    BY <2>1 DEF FrameInv, FrameTable
  <2> QED
    BY <1>1, <2>1, <2>2, <2>3 DEF FrameInv, FrameTable, HeldIsCounted, PendingIsUnheld
<1> QED
  BY <1>2, <1>3

\* Sharing a frame, and giving a share up.
LEMMA CountInv ==
  ASSUME MaxShare < RefMod, FrameInv, NEW f \in Entries,
         IncreaseReferenceCount(f) \/ DecreaseReferenceCount(f)
  PROVE  FrameInv'
<1>1. CASE IncreaseReferenceCount(f)
  <2>1. /\ refs[f] > 0 /\ refs[f] < MaxShare
        /\ rc' = [rc EXCEPT ![f] = (rc[f] + 1) % RefMod]
        /\ refs' = [refs EXCEPT ![f] = refs[f] + 1]
        /\ UNCHANGED <<locked, toFree>>
    BY <1>1 DEF IncreaseReferenceCount
  <2>2. (rc[f] + 1) % RefMod \in 0..(RefMod - 1)
    BY Sizes DEF FrameInv, FrameTable
  <2>3. f # 0 => (rc[f] + 1) % RefMod = refs[f] + 1
    <3>1. f # 0 => rc[f] = refs[f]
      BY <2>1 DEF FrameInv, HeldIsCounted
    <3>2. refs[f] + 1 \in 0..(RefMod - 1)
      BY <2>1, Sizes, AllocatorConstants DEF FrameInv, FrameTable
    <3>3. \A x \in 0..(RefMod - 1) : x % RefMod = x
      BY Sizes
    <3> QED
      BY <3>1, <3>2, <3>3
  <2>4. FrameTable'
    BY <2>1, <2>2 DEF FrameInv, FrameTable
  <2>5. HeldIsCounted'
    BY <2>1, <2>3 DEF FrameInv, FrameTable, HeldIsCounted
  <2>6. PendingIsUnheld'
    BY <2>1 DEF FrameInv, FrameTable, PendingIsUnheld
  <2> QED
    BY <2>4, <2>5, <2>6 DEF FrameInv
<1>2. CASE DecreaseReferenceCount(f)
  <2> DEFINE n == IF rc[f] > 0 THEN rc[f] - 1 ELSE 0
  <2>1. /\ refs[f] > 0
        /\ rc' = [rc EXCEPT ![f] = n]
        /\ toFree' = [toFree EXCEPT ![f] = IF n = 0 THEN toFree[f] + 1 ELSE toFree[f]]
        /\ refs' = [refs EXCEPT ![f] = refs[f] - 1]
        /\ UNCHANGED locked
    BY <1>2 DEF DecreaseReferenceCount
  <2>2. n \in 0..(RefMod - 1)
    BY Sizes DEF FrameInv, FrameTable
  <2>3. f # 0 => n = refs[f] - 1 /\ locked[f] /\ toFree[f] = 0
    BY <2>1 DEF FrameInv, FrameTable, HeldIsCounted, PendingIsUnheld
  <2> HIDE DEF n
  <2>4. FrameTable'
    BY <2>1, <2>2 DEF FrameInv, FrameTable
  <2>5. HeldIsCounted'
    BY <2>1, <2>3 DEF FrameInv, FrameTable, HeldIsCounted
  <2>6. PendingIsUnheld'
    BY <2>1, <2>3 DEF FrameInv, FrameTable, PendingIsUnheld
  <2> QED
    BY <2>4, <2>5, <2>6 DEF FrameInv
<1> QED
  BY <1>1, <1>2

\* Every step preserves the invariant.
LEMMA FrameStep == ASSUME MaxShare < RefMod, FrameInv, [FrameNext]_frameVars PROVE FrameInv'
<1>1. CASE UNCHANGED frameVars
  BY <1>1 DEF frameVars, FrameInv, FrameTable, HeldIsCounted, PendingIsUnheld
<1>2. CASE FrameNext
  BY <1>2, RequestInv, FailedInv, FreeInv, CountInv DEF FrameNext
<1> QED
  BY <1>1, <1>2

\* RequestPage(s), FreePage and the two-step DecreaseReferenceCount keep the
\* count of every frame but 0 exact and the frame locked while it is not 0, so
\* that copy-on-write neighbours never lose a page under each other.
THEOREM FramesAreCounted ==
  ASSUME MaxShare < RefMod
  PROVE  FrameSpec => []HeldIsCounted
<1>1. Initialize => FrameInv
  BY FrameInit
<1>2. FrameInv /\ [FrameNext]_frameVars => FrameInv'
  BY FrameStep
<1>3. FrameInv => HeldIsCounted
  BY DEF FrameInv
<1> QED
  BY <1>1, <1>2, <1>3, PTL DEF FrameSpec

-----------------------------------------------------------------------------
(* No frame and no count is lost while no request fails.                   *)

Table == 0..(TotalPages - 1)
Unlocked == {f \in Table : ~locked[f]}

\* Nobody has frame 0, which is reserved.
ZeroIsReserved == locked[0] /\ refs[0] = 0 /\ toFree[0] = 0

LockedIsUsed == \A f \in Usable \ Reserved : locked[f] => refs[f] > 0 \/ toFree[f] > 0

\* The entry past the table is in the statistics while it is in use.
PastInUse == IF refs[TotalPages] + toFree[TotalPages] > 0 THEN 1 ELSE 0

StatisticsAgree == Cardinality(Unlocked) = freeMem + Cardinality(Reserved \ Usable) + PastInUse

LeakInv ==
  /\ failed \in Nat /\ freeMem \in Int
  /\ failed = 0 => ZeroIsReserved /\ LockedIsUsed /\ StatisticsAgree

LEMMA TableFacts ==
  /\ TotalPages \in Nat \ {0} /\ TotalPages \in Entries /\ TotalPages \notin Table
  /\ Entries = Table \cup {TotalPages} /\ 0 \in Table
  /\ Usable \subseteq Table /\ Reserved \subseteq Table /\ 0 \in Reserved
  /\ Table \in SUBSET Nat
BY AllocatorConstants DEF Table, Entries

LEMMA FiniteTable ==
  /\ IsFiniteSet(Table)
  /\ \A S \in SUBSET Table : IsFiniteSet(S) /\ Cardinality(S) \in Nat
<1>1. IsFiniteSet(Table)
  BY FS_Interval, TableFacts DEF Table
<1> QED
  BY <1>1, FS_Subset, FS_CardinalityType

LEMMA InitLeak == Initialize => LeakInv
<1> SUFFICES ASSUME Initialize PROVE LeakInv
  OBVIOUS
<1>1. Unlocked = Usable \ Reserved
  <2>1. \A f \in Table : locked[f] <=> f \notin Usable \/ f \in Reserved
    BY TableFacts DEF Initialize
  <2> QED
    BY <2>1, TableFacts DEF Unlocked
<1>2. /\ Cardinality(Usable \ Reserved) = Cardinality(Usable) - Cardinality(Usable \cap Reserved)
      /\ Cardinality(Reserved \ Usable) = Cardinality(Reserved) - Cardinality(Usable \cap Reserved)
  <2>1. Reserved \cap Usable = Usable \cap Reserved
    OBVIOUS
  <2>2. IsFiniteSet(Usable) /\ IsFiniteSet(Reserved)
    BY FiniteTable, TableFacts
  <2>3. Cardinality(Usable \ Reserved) = Cardinality(Usable) - Cardinality(Usable \cap Reserved)
    BY <2>2, FS_Difference
  <2>4. Cardinality(Reserved \ Usable) = Cardinality(Reserved) - Cardinality(Reserved \cap Usable)
    BY <2>2, FS_Difference
  <2> QED
    BY <2>1, <2>3, <2>4
<1>3. /\ Cardinality(Usable) \in Nat /\ Cardinality(Reserved) \in Nat
      /\ Cardinality(Usable \cap Reserved) \in Nat
  BY FiniteTable, TableFacts
<1>4. PastInUse = 0
  BY TableFacts DEF Initialize, PastInUse
<1>5. freeMem = Cardinality(Usable) - Cardinality(Reserved) /\ failed = 0
  BY DEF Initialize
<1>6. StatisticsAgree
  BY <1>1, <1>2, <1>3, <1>4, <1>5 DEF StatisticsAgree
<1>7. ZeroIsReserved /\ LockedIsUsed
  BY TableFacts DEF Initialize, ZeroIsReserved, LockedIsUsed
<1> QED
  BY <1>3, <1>5, <1>6, <1>7 DEF LeakInv

\* Locking the frames run of the table, or unlocking one, moves the number of
\* unlocked frames by as many.
LEMMA CountLocked ==
  ASSUME NEW run \in SUBSET Unlocked, Unlocked' = Unlocked \ run
  PROVE  /\ Cardinality(Unlocked') = Cardinality(Unlocked) - Cardinality(run)
         /\ Cardinality(Unlocked) \in Nat /\ Cardinality(run) \in Nat
<1>1. Unlocked \in SUBSET Table /\ run \in SUBSET Table /\ Unlocked \cap run = run
  BY DEF Unlocked
<1> QED
  BY <1>1, FiniteTable, FS_Difference

LEMMA CountUnlocked ==
  ASSUME NEW f \in Table \ Unlocked, Unlocked' = Unlocked \cup {f}
  PROVE  /\ Cardinality(Unlocked') = Cardinality(Unlocked) + 1
         /\ Cardinality(Unlocked) \in Nat
<1>1. IsFiniteSet(Unlocked) /\ Cardinality(Unlocked) \in Nat
  BY FiniteTable DEF Unlocked
<1> QED
  BY <1>1, FS_AddElement

\* A granted run of n entries, the one past the table among them or not.
LEMMA GrantLeak ==
  ASSUME FrameInv, FrameInv', LeakInv, failed = 0, failed' = 0, NEW n \in Nat,
         NEW run \in SUBSET Entries, \A f \in run : ~locked[f],
         IsFiniteSet(run), Cardinality(run) = n,
         \A f \in Entries : locked'[f] = (f \in run \/ locked[f]),
         \A f \in Entries : refs'[f] = IF f \in run THEN refs[f] + 1 ELSE refs[f],
         freeMem' = freeMem - n, UNCHANGED toFree
  PROVE  LeakInv'
<1> DEFINE low == run \ {TotalPages}
<1>0. freeMem \in Int /\ ZeroIsReserved /\ LockedIsUsed /\ StatisticsAgree
  BY DEF LeakInv
<1>1. low \in SUBSET Unlocked /\ Unlocked' = Unlocked \ low
  BY TableFacts DEF Unlocked
<1>2. /\ Cardinality(Unlocked') = Cardinality(Unlocked) - Cardinality(low)
      /\ Cardinality(Unlocked) \in Nat /\ Cardinality(low) \in Nat
  BY <1>1, CountLocked
<1>3. Cardinality(low) = IF TotalPages \in run THEN n - 1 ELSE n
  BY FS_RemoveElement
<1>4. PastInUse' = IF TotalPages \in run THEN 1 ELSE PastInUse
  <2>1. refs[TotalPages] \in Nat /\ toFree[TotalPages] \in Nat
    BY TableFacts DEF FrameInv, FrameTable
  <2> QED
    BY <2>1, TableFacts DEF PastInUse
<1>5. TotalPages \in run => PastInUse = 0
  <2>1. TotalPages \in run => refs[TotalPages] = 0 /\ toFree[TotalPages] = 0
    BY TableFacts DEF FrameInv, FrameTable, HeldIsCounted, PendingIsUnheld
  <2> QED
    BY <2>1 DEF PastInUse
<1>6. StatisticsAgree'
  <2>1. Cardinality(Reserved \ Usable) \in Nat /\ PastInUse \in Nat
    BY FiniteTable, TableFacts DEF PastInUse
  <2> HIDE DEF low
  <2> QED
    BY <1>0, <1>2, <1>3, <1>4, <1>5, <2>1 DEF StatisticsAgree
<1>7. ZeroIsReserved'
  BY <1>0, TableFacts DEF ZeroIsReserved
<1>8. LockedIsUsed'
  BY <1>0, TableFacts DEF LockedIsUsed, FrameInv, FrameTable
<1> QED
  BY <1>0, <1>6, <1>7, <1>8 DEF LeakInv

LEMMA RequestLeak ==
  ASSUME FrameInv, FrameInv', LeakInv, failed = 0,
         \/ RequestPage
         \/ \E n \in 2..MaxRun : RequestPages(n)
  PROVE  LeakInv'
<1>1. CASE RequestPage
  <2>1. PICK f \in Table :
             /\ ~IsLocked(f)
             /\ locked' = [locked EXCEPT ![f] = TRUE]
             /\ refs' = [refs EXCEPT ![f] = @ + 1]
    BY <1>1 DEF RequestPage, Table
  <2>2. f \in Entries /\ ~locked[f] /\ toFree' = toFree /\ freeMem' = freeMem - 1 /\ failed' = failed
    BY <1>1, <2>1, TableFacts DEF IsLocked, RequestPage
  <2> DEFINE run == {f}
  <2>3. \A g \in Entries : locked'[g] = (g \in run \/ locked[g])
    BY <2>1, <2>2 DEF FrameInv, FrameTable
  <2>4. \A g \in Entries : refs'[g] = IF g \in run THEN refs[g] + 1 ELSE refs[g]
    BY <2>1, <2>2 DEF FrameInv, FrameTable
  <2>5. IsFiniteSet(run) /\ Cardinality(run) = 1
    BY FS_Singleton
  <2>6. run \in SUBSET Entries /\ \A g \in run : ~locked[g]
    BY <2>2
  <2> HIDE DEF run
  <2> QED
    BY <2>2, <2>3, <2>4, <2>5, <2>6, GrantLeak
<1>2. ASSUME NEW n \in 2..MaxRun, RequestPages(n) PROVE LeakInv'
  <2>1. PICK i \in Table :
             /\ FirstRun(i, n)
             /\ i..(i + n - 1) \subseteq Entries
             /\ locked' = [f \in Entries |-> f \in i..(i + n - 1) \/ locked[f]]
             /\ refs' = [f \in Entries |-> IF f \in i..(i + n - 1) THEN refs[f] + 1 ELSE refs[f]]
    BY <1>2 DEF RequestPages, Table
  <2> DEFINE run == i..(i + n - 1)
  <2>2. run \in SUBSET Entries /\ \A f \in run : ~locked[f]
    BY <2>1 DEF FirstRun, RunFree, IsLocked
  <2>3. toFree' = toFree /\ freeMem' = freeMem - n /\ failed' = failed
    BY <1>2 DEF RequestPages
  <2>4. IsFiniteSet(run) /\ Cardinality(run) = n
    <3>1. i \in Int /\ i + n - 1 \in Int /\ n \in Nat /\ n > 0
      BY TableFacts, AllocatorConstants
    <3>2. IsFiniteSet(run) /\ Cardinality(run) = IF i > i + n - 1 THEN 0 ELSE (i + n - 1) - i + 1
      BY <3>1, FS_Interval
    <3> QED
      BY <3>1, <3>2
  <2>5. n \in Nat
    BY AllocatorConstants
  <2>6. /\ \A f \in Entries : locked'[f] = (f \in run \/ locked[f])
        /\ \A f \in Entries : refs'[f] = IF f \in run THEN refs[f] + 1 ELSE refs[f]
    BY <2>1
  <2> HIDE DEF run
  <2> QED
    BY <2>2, <2>3, <2>4, <2>5, <2>6, GrantLeak
<1> QED
  BY <1>1, <1>2

LEMMA FreeLeak ==
  ASSUME FrameInv, FrameInv', LeakInv, failed = 0, NEW f \in Entries, FreePage(f) \/ FreeCounted(f)
  PROVE  LeakInv'
<1>0. /\ freeMem \in Int /\ ZeroIsReserved /\ LockedIsUsed /\ StatisticsAgree
      /\ refs \in [Entries -> Nat] /\ toFree \in [Entries -> Nat]
      /\ locked \in [Entries -> BOOLEAN]
  BY DEF LeakInv, FrameInv, FrameTable
<1>1. f # 0 /\ locked[f]
  BY <1>0 DEF FreePage, FreeCounted, ZeroIsReserved, FrameInv, HeldIsCounted, PendingIsUnheld
<1>2. /\ locked' = [locked EXCEPT ![f] = FALSE] /\ freeMem' = freeMem + 1 /\ failed' = failed
      /\ refs[f] + toFree[f] = 1 /\ refs'[f] = 0 /\ toFree'[f] = 0
      /\ \A g \in Entries \ {f} : refs'[g] = refs[g] /\ toFree'[g] = toFree[g]
  <2>1. CASE FreePage(f)
    <3>1. toFree[f] = 0
      BY <1>0, <1>1, <2>1 DEF FreePage, FrameInv, PendingIsUnheld
    <3> QED
      BY <1>0, <2>1, <3>1 DEF FreePage, Release
  <2>2. CASE FreeCounted(f)
    <3>1. refs[f] = 0 /\ toFree[f] = 1
      BY <1>0, <1>1, <2>2 DEF FreeCounted, FrameInv, PendingIsUnheld
    <3> QED
      BY <1>0, <1>1, <2>2, <3>1 DEF FreeCounted, Release
  <2> QED
    BY <2>1, <2>2
<1>3. StatisticsAgree'
  <2>0. Cardinality(Reserved \ Usable) \in Nat
    BY FiniteTable, TableFacts
  <2>1. CASE f = TotalPages
    <3>1. Unlocked' = Unlocked /\ PastInUse = 1 /\ PastInUse' = 0
      BY <1>0, <1>2, <2>1, TableFacts DEF Unlocked, PastInUse
    <3> QED
      BY <1>0, <1>2, <2>0, <3>1 DEF StatisticsAgree
  <2>2. CASE f # TotalPages
    <3>1. f \in Table \ Unlocked /\ Unlocked' = Unlocked \cup {f}
      BY <1>0, <1>1, <1>2, <2>2, TableFacts DEF Unlocked
    <3>2. Cardinality(Unlocked') = Cardinality(Unlocked) + 1 /\ Cardinality(Unlocked) \in Nat
      BY <3>1, CountUnlocked
    <3>3. PastInUse' = PastInUse /\ PastInUse \in Nat
      BY <1>2, <2>2, TableFacts DEF PastInUse
    <3> QED
      BY <1>0, <1>2, <2>0, <3>2, <3>3 DEF StatisticsAgree
  <2> QED
    BY <2>1, <2>2
<1>4. ZeroIsReserved'
  BY <1>0, <1>1, <1>2, Sizes DEF ZeroIsReserved
<1>5. LockedIsUsed'
  BY <1>0, <1>2, TableFacts DEF LockedIsUsed
<1> QED
  BY <1>0, <1>2, <1>3, <1>4, <1>5 DEF LeakInv

LEMMA CountLeak ==
  ASSUME FrameInv, FrameInv', LeakInv, failed = 0, NEW f \in Entries,
         IncreaseReferenceCount(f) \/ DecreaseReferenceCount(f)
  PROVE  LeakInv'
<1>0. /\ freeMem \in Int /\ ZeroIsReserved /\ LockedIsUsed /\ StatisticsAgree
      /\ refs \in [Entries -> Nat] /\ toFree \in [Entries -> Nat] /\ rc \in [Entries -> Nat]
  BY Sizes DEF LeakInv, FrameInv, FrameTable
<1>1. refs[f] > 0 /\ f # 0 /\ rc[f] = refs[f] /\ UNCHANGED <<locked, freeMem, failed>>
  BY <1>0 DEF IncreaseReferenceCount, DecreaseReferenceCount, ZeroIsReserved, FrameInv, HeldIsCounted
<1>2. /\ refs'[f] + toFree'[f] > 0 /\ refs'[f] \in Nat /\ toFree'[f] \in Nat
      /\ \A g \in Entries \ {f} : refs'[g] = refs[g] /\ toFree'[g] = toFree[g]
  BY <1>0, <1>1 DEF IncreaseReferenceCount, DecreaseReferenceCount
<1>3. Unlocked' = Unlocked /\ PastInUse' = PastInUse
  BY <1>0, <1>1, <1>2, TableFacts DEF Unlocked, PastInUse
<1>4. StatisticsAgree'
  BY <1>0, <1>1, <1>3 DEF StatisticsAgree
<1>5. ZeroIsReserved'
  BY <1>0, <1>1, <1>2, Sizes DEF ZeroIsReserved
<1>6. LockedIsUsed'
  BY <1>0, <1>1, <1>2, TableFacts DEF LockedIsUsed
<1> QED
  BY <1>0, <1>1, <1>4, <1>5, <1>6 DEF LeakInv

LEMMA NextLeak ==
  ASSUME FrameInv, FrameInv', LeakInv, [FrameNext]_frameVars PROVE LeakInv'
<1>0. failed \in Nat /\ freeMem \in Int
  BY DEF LeakInv
<1>1. CASE UNCHANGED frameVars
  BY <1>1 DEF frameVars, LeakInv, ZeroIsReserved, LockedIsUsed, StatisticsAgree, Unlocked, PastInUse
<1>2. CASE \/ RequestPageNone
           \/ \E n \in 2..MaxRun : RequestPagesNone(n) \/ RequestPagesPastEnd(n)
  <2>1. ReturnZero
    BY <1>2 DEF RequestPageNone, RequestPagesNone, RequestPagesPastEnd
  <2>2. failed' = failed + 1 /\ freeMem' = freeMem
    BY <2>1 DEF ReturnZero
  <2> QED
    BY <1>0, <2>2 DEF LeakInv
<1>3. CASE failed # 0 /\ FrameNext
  <2>1. (failed' = failed \/ failed' = failed + 1) /\ freeMem' \in Int
    BY <1>0, <1>3, AllocatorConstants
    DEF FrameNext, RequestPage, RequestPageNone, RequestPages, RequestPagesNone, RequestPagesPastEnd,
        ReturnZero, FreePage, Release, IncreaseReferenceCount, DecreaseReferenceCount, FreeCounted
  <2> QED
    BY <1>0, <1>3, <2>1 DEF LeakInv
<1>4. CASE failed = 0 /\ FrameNext
  BY <1>2, <1>4, RequestLeak, FreeLeak, CountLeak DEF FrameNext
<1> QED
  BY <1>1, <1>3, <1>4

\* Until a request fails, requests, frees and shared counts lose no frame and
\* no page of the statistics, on any memory map: a usable frame nobody has is
\* unlocked, and free_memory is the number of unlocked frames up to the
\* reserved ones that were never usable.
THEOREM FramesAreNotLost ==
  ASSUME MaxShare < RefMod PROVE FrameSpec => []NoLeak
<1>1. Initialize => FrameInv /\ LeakInv
  BY FrameInit, InitLeak
<1>2. FrameInv /\ LeakInv /\ [FrameNext]_frameVars => (FrameInv /\ LeakInv)'
  BY FrameStep, NextLeak
<1>3. FrameInv /\ LeakInv => NoLeak
  <2> SUFFICES ASSUME FrameInv, LeakInv, failed = 0
               PROVE  /\ LockedIsUsed
                      /\ refs[TotalPages] + toFree[TotalPages] = 0 =>
                           Cardinality(Unlocked) = freeMem + Cardinality(Reserved \ Usable)
    BY DEF NoLeak, LockedIsUsed, Unlocked, Table
  <2>1. Cardinality(Reserved \ Usable) \in Nat
    BY FiniteTable, TableFacts
  <2> QED
    BY <2>1 DEF LeakInv, StatisticsAgree, PastInUse
<1> QED
  BY <1>1, <1>2, <1>3, PTL DEF FrameSpec

-----------------------------------------------------------------------------
(* The areas.                                                              *)

\* An area within the pages; its flags say either that it may not be shared or that it is
\* copied on a write, as those of every caller do.
Fine(f) == f \in SUBSET Flags /\ ("noshare" \in f <=> "cow" \notin f)
Areas == {x \in [address : Pages, size : 1..LastPage, flags : SUBSET Flags] :
            x.address + x.size <= LastPage + 1 /\ Fine(x.flags)}

Covers(x, v) == x.address <= v /\ v < x.address + x.size

\* No area of l has page v; one area has it, and the flags f.
Without(l, v) == \A i \in 1..Len(l) : ~Covers(l[i], v)
Says(l, v, f) == \E i \in 1..Len(l) : /\ Covers(l[i], v) /\ l[i].flags = f
                                      /\ \A j \in 1..Len(l) : Covers(l[j], v) => j = i

\* k is l with the pages of a new area marked, and the other pages as they were.
Marked(l, k, a, n, f) ==
  /\ k \in Seq(Areas)
  /\ \A v \in Pages :
       /\ v \in a..(a + n - 1) => (Without(l, v) => Says(k, v, f))
       /\ v \notin a..(a + n - 1) => /\ Without(l, v) => Without(k, v)
                                     /\ \A g : Says(l, v, g) => Says(k, v, g)

\* A set of numbers has a least one.
LEMMA LeastOf ==
  ASSUME NEW S \in SUBSET Nat, S # {}
  PROVE  \E m \in S : \A x \in S : m <= x
<1>1. PICK m \in S : \A x \in S : <<x, m>> \notin OpToRel(<, Nat)
  BY NatLessThanWellFounded, WFMin
<1>2. \A x \in S : ~(x < m)
  BY <1>1 DEF OpToRel
<1> QED
  BY <1>2

\* What the assumption on the constants says, in parts.
LEMMA Bounds ==
  /\ UserPages \in Nat /\ KernelPages \in Nat /\ StackSize \in Nat /\ LastPage \in Nat /\ StackStart \in Nat
  /\ 1 <= StackSize /\ StackSize <= UserPages /\ UserPages <= LastPage
  /\ StackStart >= 1 /\ StackStart + StackSize = UserPages + 1 /\ LastPage = UserPages + KernelPages
  /\ Pages = 1..LastPage
  BY TrackerConstants DEF LastPage, StackStart, Pages

\* The fields of an area.
LEMMA AreaIs ==
  ASSUME NEW x \in Areas
  PROVE  /\ x.address \in Int /\ x.size \in Int /\ x.address >= 1 /\ x.size >= 1
         /\ x.address + x.size <= LastPage + 1 /\ Fine(x.flags)
         /\ x = Area(x.address, x.size, x.flags)
  BY Bounds DEF Areas, Area

\* An area within the pages, with flags of a caller.
LEMMA IsArea ==
  ASSUME NEW a \in Int, NEW n \in Int, NEW f, Fine(f), a >= 1, n >= 1, a + n <= LastPage + 1
  PROVE  /\ Area(a, n, f) \in Areas
         /\ Area(a, n, f).address = a /\ Area(a, n, f).size = n /\ Area(a, n, f).flags = f
  BY Bounds DEF Areas, Area, Fine

-----------------------------------------------------------------------------
(* Marking.                                                                *)

\* The first index that satisfies a test, or 0.
FirstOf(I) == IF I # {} THEN CHOOSE m \in I : \A x \in I : m <= x ELSE 0

\* A walk of the list stops at an area with the property, if there is one.
LEMMA FirstIs ==
  ASSUME NEW I \in SUBSET Nat
  PROVE  IF I = {} THEN FirstOf(I) = 0 ELSE FirstOf(I) \in I
  BY LeastOf DEF FirstOf

\* An area widened, alone or with its neighbour joined to it.
LEMMA WidenIs ==
  ASSUME NEW l \in Seq(Areas), NEW i \in 1..Len(l), NEW a \in Int, NEW n \in Int, NEW x \in Areas,
         n >= 1, x.flags = l[i].flags,
         \A v \in Pages : Covers(x, v) <=> Covers(l[i], v) \/ v \in a..(a + n - 1)
  PROVE  Marked(l, ReplaceAt(l, i, x), a, n, x.flags)
<1>1. PICK k : k = ReplaceAt(l, i, x)
  OBVIOUS
<1>2. k \in Seq(Areas) /\ Len(k) = Len(l) /\ \A j \in 1..Len(l) : k[j] = IF j = i THEN x ELSE l[j]
  BY <1>1 DEF ReplaceAt
<1>3. ASSUME NEW v \in Pages PROVE Covers(x, v) <=> Covers(l[i], v) \/ v \in a..(a + n - 1)
  OBVIOUS
<1>4. ASSUME NEW v \in Pages, v \in a..(a + n - 1), Without(l, v) PROVE Says(k, v, x.flags)
  BY <1>2, <1>3, <1>4 DEF Says, Without
<1>5. ASSUME NEW v \in Pages, v \notin a..(a + n - 1), Without(l, v) PROVE Without(k, v)
  BY <1>2, <1>3, <1>5 DEF Without
<1>6. ASSUME NEW v \in Pages, v \notin a..(a + n - 1), NEW g, Says(l, v, g) PROVE Says(k, v, g)
  <2>1. PICK j \in 1..Len(l) : /\ Covers(l[j], v) /\ l[j].flags = g
                               /\ \A h \in 1..Len(l) : Covers(l[h], v) => h = j
    BY <1>6 DEF Says
  <2>2. Covers(k[j], v) /\ k[j].flags = g
    BY <1>2, <1>3, <1>6, <2>1
  <2>3. \A h \in 1..Len(k) : Covers(k[h], v) => h = j
    BY <1>2, <1>3, <1>6, <2>1
  <2> QED
    BY <1>2, <2>2, <2>3 DEF Says
<1> QED
  BY <1>1, <1>2, <1>4, <1>5, <1>6 DEF Marked

\* mark_allocation widens an area and joins the next one to it.
LEMMA JoinIs ==
  ASSUME NEW l \in Seq(Areas), NEW i \in 1..Len(l), i < Len(l), NEW a \in Int, NEW n \in Int, NEW x \in Areas,
         n >= 1, x.flags = l[i].flags, x.flags = l[i + 1].flags,
         \A v \in Pages : Covers(x, v) <=> Covers(l[i], v) \/ v \in a..(a + n - 1) \/ Covers(l[i + 1], v)
  PROVE  Marked(l, ReplaceAt(RemoveAt(l, i + 1), i, x), a, n, x.flags)
<1>1. PICK k : k = ReplaceAt(RemoveAt(l, i + 1), i, x)
  OBVIOUS
<1>0. i \in Int /\ Len(l) \in Int
  OBVIOUS
<1>2. PICK r : r = RemoveAt(l, i + 1)
  OBVIOUS
<1>3. r \in Seq(Areas) /\ Len(r) = Len(l) - 1 /\ \A j \in 1..Len(r) : r[j] = IF j <= i THEN l[j] ELSE l[j + 1]
  <2>1. PICK s : s = SubSeq(l, 1, i)
    OBVIOUS
  <2>2. s \in Seq(Areas) /\ Len(s) = i /\ \A j \in 1..Len(s) : s[j] = l[j]
    BY <1>0, <2>1
  <2>3. PICK e : e = SubSeq(l, i + 2, Len(l))
    OBVIOUS
  <2>4. e \in Seq(Areas) /\ Len(e) = Len(l) - i - 1 /\ \A j \in 1..Len(e) : e[j] = l[i + 1 + j]
    BY <1>0, <2>3
  <2>5. r = s \o e
    BY <1>0, <1>2, <2>1, <2>3 DEF RemoveAt
  <2>6. r \in Seq(Areas) /\ Len(r) = Len(l) - 1
    <3>1. r \in Seq(Areas) /\ Len(r) = Len(s) + Len(e)
      BY <2>2, <2>4, <2>5, ConcatProperties
    <3> QED
      BY <1>0, <2>2, <2>4, <3>1
  <2>7. ASSUME NEW j \in 1..Len(r) PROVE r[j] = IF j <= i THEN l[j] ELSE l[j + 1]
    <3>1. r[j] = IF j <= Len(s) THEN s[j] ELSE e[j - Len(s)]
      BY <2>2, <2>4, <2>5
    <3>2. CASE j <= i
      BY <1>0, <2>2, <3>1, <3>2
    <3>3. CASE j > i
      <4>1. j - i \in 1..Len(e) /\ i + 1 + (j - i) = j + 1
        BY <1>0, <2>4, <2>6, <3>3
      <4> QED
        BY <1>0, <2>2, <2>4, <3>1, <3>3, <4>1
    <3> QED
      BY <1>0, <3>2, <3>3
  <2> QED
    BY <2>6, <2>7
<1>4. /\ k \in Seq(Areas) /\ Len(k) = Len(l) - 1
      /\ \A j \in 1..Len(k) : k[j] = IF j = i THEN x ELSE IF j < i THEN l[j] ELSE l[j + 1]
  BY <1>0, <1>1, <1>2, <1>3 DEF ReplaceAt
<1>5. ASSUME NEW v \in Pages
      PROVE  Covers(x, v) <=> Covers(l[i], v) \/ v \in a..(a + n - 1) \/ Covers(l[i + 1], v)
  OBVIOUS
<1>6. ASSUME NEW v \in Pages, v \in a..(a + n - 1), Without(l, v) PROVE Says(k, v, x.flags)
  <2>1. i \in 1..Len(k) /\ k[i] = x /\ Covers(x, v)
    BY <1>0, <1>4, <1>5, <1>6
  <2>2. ASSUME NEW j \in 1..Len(k), j # i PROVE ~Covers(k[j], v)
    <3>1. \E h \in 1..Len(l) : k[j] = l[h]
      BY <1>0, <1>4, <2>2
    <3> QED
      BY <1>6, <3>1 DEF Without
  <2> QED
    BY <2>1, <2>2 DEF Says
<1>7. ASSUME NEW v \in Pages, v \notin a..(a + n - 1), Without(l, v) PROVE Without(k, v)
  BY <1>0, <1>4, <1>5, <1>7 DEF Without
<1>8. ASSUME NEW v \in Pages, v \notin a..(a + n - 1), NEW g, Says(l, v, g) PROVE Says(k, v, g)
  <2>1. PICK j \in 1..Len(l) : /\ Covers(l[j], v) /\ l[j].flags = g
                               /\ \A h \in 1..Len(l) : Covers(l[h], v) => h = j
    BY <1>8 DEF Says
  <2>2. PICK c : c = IF j <= i THEN j ELSE j - 1
    OBVIOUS
  <2>3. c \in 1..Len(k) /\ Covers(k[c], v) /\ k[c].flags = g
    <3>1. CASE j <= i
      <4>1. c = j /\ c \in 1..Len(k) /\ k[c] = IF j = i THEN x ELSE l[j]
        BY <1>0, <1>4, <2>2, <3>1
      <4> QED
        BY <1>5, <2>1, <4>1
    <3>2. CASE j = i + 1
      <4>1. c = i /\ c \in 1..Len(k) /\ k[c] = x
        BY <1>0, <1>4, <2>2, <3>2
      <4> QED
        BY <1>5, <2>1, <3>2, <4>1
    <3>3. CASE j > i + 1
      <4>1. c \in 1..Len(k) /\ k[c] = l[j]
        BY <1>0, <1>4, <2>2, <3>3
      <4> QED
        BY <2>1, <4>1
    <3> QED
      BY <1>0, <3>1, <3>2, <3>3
  <2>4. \A h \in 1..Len(k) : Covers(k[h], v) => h = c
    <3> SUFFICES ASSUME NEW h \in 1..Len(k), Covers(k[h], v) PROVE h = c
      OBVIOUS
    <3>1. CASE h = i
      <4>1. k[h] = x
        BY <1>4, <3>1
      <4>2. Covers(l[i], v) \/ Covers(l[i + 1], v)
        BY <1>5, <1>8, <4>1
      <4>3. j = i \/ j = i + 1
        BY <1>0, <2>1, <4>2
      <4> QED
        BY <1>0, <2>2, <3>1, <4>3
    <3>2. CASE h < i
      <4>1. k[h] = l[h] /\ h \in 1..Len(l)
        BY <1>0, <1>4, <3>2
      <4>2. h = j
        BY <2>1, <4>1
      <4> QED
        BY <1>0, <2>2, <3>2, <4>2
    <3>3. CASE h > i
      <4>1. k[h] = l[h + 1] /\ h + 1 \in 1..Len(l)
        BY <1>0, <1>4, <3>3
      <4>2. h + 1 = j
        BY <2>1, <4>1
      <4> QED
        BY <1>0, <2>2, <3>3, <4>2
    <3> QED
      BY <1>0, <3>1, <3>2, <3>3
  <2> QED
    BY <2>3, <2>4 DEF Says
<1> QED
  BY <1>1, <1>4, <1>6, <1>7, <1>8 DEF Marked

\* An area of its own.
LEMMA InsertIs ==
  ASSUME NEW l \in Seq(Areas), NEW at \in 1..(Len(l) + 1), NEW k \in Seq(Areas), NEW x \in Areas,
         Len(k) = Len(l) + 1,
         \A j \in 1..Len(k) : k[j] = IF j = at THEN x ELSE IF j < at THEN l[j] ELSE l[j - 1]
  PROVE  Marked(l, k, x.address, x.size, x.flags)
<1>0. at \in Int /\ Len(l) \in Int /\ x.address \in Int /\ x.size \in Int
  BY AreaIs
<1>1. ASSUME NEW v \in Pages PROVE Covers(x, v) <=> v \in x.address..(x.address + x.size - 1)
  BY <1>0, Bounds DEF Covers
<1>2. ASSUME NEW h \in 1..Len(k), h # at
      PROVE  \E j \in 1..Len(l) : k[h] = l[j] /\ h = IF j < at THEN j ELSE j + 1
  <2>1. CASE h < at
    BY <1>0, <2>1
  <2>2. CASE h > at
    <3>1. h - 1 \in 1..Len(l) /\ k[h] = l[h - 1] /\ ~(h - 1 < at)
      BY <1>0, <2>2
    <3> QED
      BY <1>0, <3>1
  <2> QED
    BY <1>0, <1>2, <2>1, <2>2
<1>3. ASSUME NEW j \in 1..Len(l), NEW c, c = IF j < at THEN j ELSE j + 1
      PROVE  c \in 1..Len(k) /\ k[c] = l[j]
  <2>1. CASE j < at
    BY <1>0, <1>3, <2>1
  <2>2. CASE ~(j < at)
    <3>1. c = j + 1 /\ c \in 1..Len(k) /\ c # at /\ ~(c < at) /\ c - 1 = j
      BY <1>0, <1>3, <2>2
    <3> QED
      BY <3>1
  <2> QED
    BY <2>1, <2>2
<1>4. at \in 1..Len(k) /\ k[at] = x
  BY <1>0
<1>6. ASSUME NEW v \in Pages, v \in x.address..(x.address + x.size - 1), Without(l, v)
      PROVE  Says(k, v, x.flags)
  <2>1. at \in 1..Len(k) /\ Covers(k[at], v) /\ k[at].flags = x.flags
    BY <1>1, <1>4, <1>6
  <2>2. \A h \in 1..Len(k) : Covers(k[h], v) => h = at
    <3> SUFFICES ASSUME NEW h \in 1..Len(k), Covers(k[h], v), h # at PROVE FALSE
      OBVIOUS
    <3> QED
      BY <1>2, <1>6 DEF Without
  <2> QED
    BY <2>1, <2>2 DEF Says
<1>7. ASSUME NEW v \in Pages, v \notin x.address..(x.address + x.size - 1), Without(l, v)
      PROVE  Without(k, v)
  <2> SUFFICES ASSUME NEW h \in 1..Len(k), Covers(k[h], v) PROVE FALSE
    BY DEF Without
  <2>1. h # at
    BY <1>1, <1>4, <1>7
  <2> QED
    BY <1>2, <1>7, <2>1 DEF Without
<1>8. ASSUME NEW v \in Pages, v \notin x.address..(x.address + x.size - 1), NEW g, Says(l, v, g)
      PROVE  Says(k, v, g)
  <2>1. PICK j \in 1..Len(l) : /\ Covers(l[j], v) /\ l[j].flags = g
                               /\ \A h \in 1..Len(l) : Covers(l[h], v) => h = j
    BY <1>8 DEF Says
  <2>2. PICK c : c = IF j < at THEN j ELSE j + 1
    OBVIOUS
  <2>3. c \in 1..Len(k) /\ Covers(k[c], v) /\ k[c].flags = g
    BY <1>3, <2>1, <2>2
  <2>4. \A h \in 1..Len(k) : Covers(k[h], v) => h = c
    <3> SUFFICES ASSUME NEW h \in 1..Len(k), Covers(k[h], v) PROVE h = c
      OBVIOUS
    <3>1. h # at
      BY <1>1, <1>4, <1>8
    <3> QED
      BY <1>2, <2>1, <2>2, <3>1
  <2> QED
    BY <2>3, <2>4 DEF Says
<1> QED
  BY <1>6, <1>7, <1>8 DEF Marked

\* add_to_list: wherever the area goes, its pages are marked and no other.
LEMMA AddIs ==
  ASSUME NEW l \in Seq(Areas), NEW x \in Areas
  PROVE  Marked(l, AddToList(l, x), x.address, x.size, x.flags)
<1>1. PICK k : k = AddToList(l, x)
  OBVIOUS
<1>2. PICK at \in 1..(Len(l) + 1) :
        /\ k \in Seq(Areas) /\ Len(k) = Len(l) + 1
        /\ \A j \in 1..Len(k) : k[j] = IF j = at THEN x ELSE IF j < at THEN l[j] ELSE l[j - 1]
  <2>1. CASE l = <<>> \/ x.address < l[1].address
    <3>1. k = <<x>> \o l
      BY <1>1, <2>1 DEF AddToList
    <3>2. k \in Seq(Areas) /\ Len(k) = Len(l) + 1
          /\ \A j \in 1..Len(k) : k[j] = IF j = 1 THEN x ELSE l[j - 1]
      BY <3>1
    <3> QED
      BY <3>2
  <2>2. CASE ~(l = <<>> \/ x.address < l[1].address)
    <3>1. PICK I : I = {i \in 2..Len(l) : l[i].address >= x.address}
      OBVIOUS
    <3>2. PICK at : at = IF FirstOf(I) = 0 THEN Len(l) + 1 ELSE FirstOf(I)
      OBVIOUS
    <3>3. SelectInSubSeq(l, 2, Len(l), LAMBDA w : w.address >= x.address) = FirstOf(I)
      BY <3>1 DEF SelectInSubSeq, FirstOf, Min
    <3>4. k = InsertAt(l, at, x)
      BY <1>1, <2>2, <3>2, <3>3 DEF AddToList
    <3>5. at \in 1..(Len(l) + 1)
      <4>1. I \in SUBSET Nat
        BY <3>1
      <4> QED
        BY <3>1, <3>2, <4>1, FirstIs
    <3>6. k = SubSeq(l, 1, at - 1) \o <<x>> \o SubSeq(l, at, Len(l))
      BY <3>4 DEF InsertAt
    <3>7. k \in Seq(Areas) /\ Len(k) = Len(l) + 1
          /\ \A j \in 1..Len(k) : k[j] = IF j = at THEN x ELSE IF j < at THEN l[j] ELSE l[j - 1]
      <4>1. PICK s : s = SubSeq(l, 1, at - 1)
        OBVIOUS
      <4>2. s \in Seq(Areas) /\ Len(s) = at - 1 /\ \A j \in 1..Len(s) : s[j] = l[j]
        BY <3>5, <4>1
      <4>3. PICK e : e = SubSeq(l, at, Len(l))
        OBVIOUS
      <4>4. e \in Seq(Areas) /\ Len(e) = Len(l) - at + 1 /\ \A j \in 1..Len(e) : e[j] = l[at + j - 1]
        BY <3>5, <4>3
      <4>5. PICK h : h = s \o <<x>>
        OBVIOUS
      <4>6. h \in Seq(Areas) /\ Len(h) = at /\ \A j \in 1..Len(h) : h[j] = IF j = at THEN x ELSE l[j]
        BY <3>5, <4>2, <4>5
      <4>7. k = h \o e
        BY <3>6, <4>1, <4>3, <4>5
      <4>8. k \in Seq(Areas) /\ Len(k) = Len(l) + 1
        <5>1. k \in Seq(Areas) /\ Len(k) = Len(h) + Len(e)
          BY <4>4, <4>6, <4>7, ConcatProperties
        <5> QED
          BY <3>5, <4>4, <4>6, <5>1
      <4>9. ASSUME NEW j \in 1..Len(k)
            PROVE  k[j] = IF j = at THEN x ELSE IF j < at THEN l[j] ELSE l[j - 1]
        <5>1. k[j] = IF j <= at THEN h[j] ELSE e[j - at]
          <6>1. \A i \in 1..(Len(h) + Len(e)) : k[i] = IF i <= Len(h) THEN h[i] ELSE e[i - Len(h)]
            BY <4>4, <4>6, <4>7, ConcatProperties
          <6>2. j \in 1..(Len(h) + Len(e))
            BY <4>4, <4>6, <4>7, ConcatProperties
          <6> QED
            BY <4>6, <6>1, <6>2
        <5>2. CASE j <= at
          BY <3>5, <4>6, <5>1, <5>2
        <5>3. CASE j > at
          <6>1. j - at \in 1..Len(e) /\ at + (j - at) - 1 = j - 1
            BY <3>5, <4>4, <4>8, <5>3
          <6>2. k[j] = e[j - at]
            BY ONLY <3>5, <4>8, <5>1, <5>3, l \in Seq(Areas), j \in 1..Len(k)
          <6>3. e[j - at] = l[at + (j - at) - 1]
            <7>1. PICK n : n = j - at
              OBVIOUS
            <7>2. e[n] = l[at + n - 1]
              BY ONLY <4>4, <6>1, <7>1
            <7> QED
              BY ONLY <7>1, <7>2
          <6> QED
            BY ONLY <3>5, <5>3, <6>1, <6>2, <6>3
        <5> QED
          BY <3>5, <5>2, <5>3
      <4> QED
        BY <4>8, <4>9
    <3> QED
      BY <3>5, <3>7
  <2> QED
    BY <2>1, <2>2
<1> QED
  BY <1>1, <1>2, InsertIs

\* mark_allocation marks the pages asked for and no other: whichever area it
\* widens or joins, also in a list whose areas overlap.
LEMMA MarkIs ==
  ASSUME NEW l \in Seq(Areas), NEW a \in Int, NEW n \in Int, NEW f, Fine(f),
         a >= 1, n >= 1, a + n <= LastPage + 1
  PROVE  Marked(l, MarkAllocation(l, a, n, f), a, n, f)
<1>1. PICK I : I = {j \in 1..Len(l) : Extends(l[j], a, n, f)}
  OBVIOUS
<1>2. PICK i : i = FirstOf(I)
  OBVIOUS
<1>3. SelectInSeq(l, LAMBDA vm : Extends(vm, a, n, f)) = i
  BY <1>1, <1>2 DEF SelectInSeq, FirstOf, Min
<1>4. I \in SUBSET Nat
  BY <1>1
<1>5. i = 0 \/ (i \in 1..Len(l) /\ Extends(l[i], a, n, f))
  BY <1>1, <1>2, <1>4, FirstIs
<1>6. PICK k : k = MarkAllocation(l, a, n, f)
  OBVIOUS
<1>7. PICK x : x = Area(a, n, f)
  OBVIOUS
<1>8. x \in Areas /\ x.address = a /\ x.size = n /\ x.flags = f
  BY <1>7, IsArea
<1>9. CASE i = 0
  <2>1. k = AddToList(l, x)
    BY <1>3, <1>6, <1>7, <1>9 DEF MarkAllocation
  <2> QED
    BY <1>6, <1>8, <2>1, AddIs
<1>10. CASE i # 0
  <2>1. PICK o : o = l[i]
    OBVIOUS
  <2>2. /\ i \in 1..Len(l) /\ o \in Areas /\ o.flags = f
        /\ o.address \in Int /\ o.size \in Int /\ o.address >= 1 /\ o.size >= 1 /\ o.address + o.size <= LastPage + 1
        /\ o.address + o.size = a \/ a + n = o.address
    BY <1>5, <1>10, <2>1, AreaIs DEF Extends, End
  <2>3. CASE a + n = o.address
    <3>1. PICK y : y = Area(a, o.size + n, f)
      OBVIOUS
    <3>2. k = ReplaceAt(l, i, y)
      BY <1>3, <1>6, <1>10, <2>1, <2>3, <3>1 DEF MarkAllocation
    <3>3. y \in Areas /\ y.address = a /\ y.size = o.size + n /\ y.flags = f
      BY <2>2, <2>3, <3>1, IsArea
    <3>4. ASSUME NEW v \in Pages PROVE Covers(y, v) <=> Covers(l[i], v) \/ v \in a..(a + n - 1)
      BY <2>1, <2>2, <2>3, <3>3, Bounds DEF Covers
    <3> QED
      BY <1>6, <2>1, <2>2, <3>2, <3>3, <3>4, WidenIs
  <2>4. CASE a + n # o.address
    <3>1. PICK y : y = Area(o.address, o.size + n, f)
      OBVIOUS
    <3>2. y \in Areas /\ y.address = o.address /\ y.size = o.size + n /\ y.flags = f
      BY <2>2, <2>4, <3>1, IsArea
    <3>3. ASSUME NEW v \in Pages PROVE Covers(y, v) <=> Covers(l[i], v) \/ v \in a..(a + n - 1)
      BY <2>1, <2>2, <2>4, <3>2, Bounds DEF Covers
    <3>4. PICK j : j = (i < Len(l) /\ l[i + 1].address = End(y) /\ l[i + 1].flags = f)
      OBVIOUS
    <3>5. k = IF i < Len(l) /\ l[i + 1].address = End(y) /\ l[i + 1].flags = f
              THEN ReplaceAt(RemoveAt(l, i + 1), i, Area(y.address, y.size + l[i + 1].size, f))
              ELSE ReplaceAt(l, i, y)
      BY <1>3, <1>6, <1>10, <2>1, <2>4, <3>1 DEF MarkAllocation
    <3>6. CASE i < Len(l) /\ l[i + 1].address = End(y) /\ l[i + 1].flags = f
      <4>1. PICK p : p = l[i + 1]
        OBVIOUS
      <4>2. /\ p \in Areas /\ p.flags = f /\ p.address = y.address + y.size
            /\ p.address \in Int /\ p.size \in Int /\ p.size >= 1 /\ p.address + p.size <= LastPage + 1
        BY <2>2, <3>6, <4>1, AreaIs DEF End
      <4>3. PICK z : z = Area(y.address, y.size + p.size, f)
        OBVIOUS
      <4>4. z \in Areas /\ z.address = y.address /\ z.size = y.size + p.size /\ z.flags = f
        <5>1. y.size \in Int /\ y.size >= 1 /\ y.address \in Int /\ y.address >= 1
          BY <2>2, <3>2
        <5>2. y.size + p.size \in Int /\ y.size + p.size >= 1
              /\ y.address + (y.size + p.size) <= LastPage + 1
          BY <4>2, <5>1, Bounds
        <5> QED
          BY <4>3, <5>1, <5>2, IsArea
      <4>5. ASSUME NEW v \in Pages
            PROVE  Covers(z, v) <=> Covers(l[i], v) \/ v \in a..(a + n - 1) \/ Covers(l[i + 1], v)
        <5>1. Covers(z, v) <=> Covers(y, v) \/ Covers(p, v)
          <6>1. y.address \in Int /\ y.size \in Int /\ y.size >= 1 /\ v \in Int
            BY <2>2, <3>2, Bounds
          <6> QED
            BY <4>2, <4>4, <6>1 DEF Covers
        <5> QED
          BY <3>3, <4>1, <5>1
      <4>6. k = ReplaceAt(RemoveAt(l, i + 1), i, z)
        BY <3>5, <3>6, <4>1, <4>3
      <4> QED
        BY <1>6, <2>1, <2>2, <3>6, <4>1, <4>2, <4>4, <4>5, <4>6, JoinIs
    <3>7. CASE ~(i < Len(l) /\ l[i + 1].address = End(y) /\ l[i + 1].flags = f)
      <4>1. k = ReplaceAt(l, i, y)
        BY <3>5, <3>7
      <4> QED
        BY <1>6, <2>1, <2>2, <3>2, <3>3, <4>1, WidenIs
    <3> QED
      BY <3>6, <3>7
  <2> QED
    BY <2>3, <2>4
<1> QED
  BY <1>9, <1>10

-----------------------------------------------------------------------------
(* Removing and changing.                                                  *)

\* g folds step over 1..n, from b.
Folds(g, S, b, n, step) ==
  g \in [0..n -> S] /\ g[0] = b /\ \A i \in 1..n : g[i] = step[<<g[i - 1], i>>]

\* Folding a function over 1..n has a result.
LEMMA FoldIs ==
  ASSUME NEW S, NEW b \in S, NEW n \in Nat, NEW step \in [S \X (1..n) -> S]
  PROVE  \E g : Folds(g, S, b, n, step)
<1> DEFINE Good(m, g) == g \in [0..m -> S] /\ g[0] = b /\ \A i \in 1..m : g[i] = step[<<g[i - 1], i>>]
<1> SUFFICES ASSUME ~(\E g : Good(n, g)) PROVE FALSE
  BY DEF Folds
<1>1. PICK D : D = {m \in 0..n : ~(\E g : Good(m, g))}
  OBVIOUS
<1>2. PICK m \in D : \A x \in D : m <= x
  <2>1. D \in SUBSET Nat /\ n \in D
    BY <1>1
  <2> QED
    BY <2>1, LeastOf
<1>3. m \in 0..n /\ ~(\E g : Good(m, g))
  BY <1>1, <1>2
<1>4. CASE m = 0
  <2>1. PICK g : g = [i \in 0..0 |-> b]
    OBVIOUS
  <2>2. Good(0, g)
    BY <2>1
  <2> QED
    BY <1>3, <1>4, <2>2
<1>5. CASE m # 0
  <2>1. m - 1 \in 0..n /\ m - 1 \notin D
    <3>1. m \in 1..n /\ m - 1 \in 0..n /\ ~(m <= m - 1)
      BY <1>3, <1>5
    <3> QED
      BY <1>2, <3>1
  <2>2. PICK g : Good(m - 1, g)
    BY <1>1, <2>1
  <2>3. PICK h : h = [i \in 0..m |-> IF i = m THEN step[<<g[m - 1], m>>] ELSE g[i]]
    OBVIOUS
  <2>4. g \in [0..(m - 1) -> S] /\ g[0] = b /\ \A i \in 1..(m - 1) : g[i] = step[<<g[i - 1], i>>]
    BY <2>2
  <2>5. m \in 1..n /\ m - 1 \in 0..(m - 1)
    BY <1>3, <1>5
  <2>6. g[m - 1] \in S
    BY <2>4, <2>5
  <2>7. step[<<g[m - 1], m>>] \in S
    BY <2>5, <2>6
  <2>8. h \in [0..m -> S]
    BY <2>3, <2>4, <2>5, <2>7
  <2>9. h[0] = b
    BY <2>3, <2>4, <2>5
  <2>10. ASSUME NEW i \in 1..m PROVE h[i] = step[<<h[i - 1], i>>]
    <3>1. i - 1 \in 0..m /\ i - 1 # m /\ h[i - 1] = g[i - 1]
      BY <2>3, <2>5
    <3>2. CASE i = m
      BY <2>3, <2>5, <3>1, <3>2
    <3>3. CASE i # m
      <4>1. i \in 1..(m - 1) /\ h[i] = g[i]
        BY <2>3, <2>5, <3>3
      <4> QED
        BY <2>4, <3>1, <4>1
    <3> QED
      BY <3>2, <3>3
  <2>11. Good(m, h)
    BY <2>8, <2>9, <2>10
  <2> QED
    BY <1>3, <2>11
<1> QED
  BY <1>4, <1>5

\* A property of the steps of such a sequence, given by the set of the steps that have it.
LEMMA StepsHave ==
  ASSUME NEW n \in Nat, NEW P \in SUBSET (0..n), 0 \in P, \A i \in 1..n : i - 1 \in P => i \in P
  PROVE  n \in P
<1> SUFFICES ASSUME n \notin P PROVE FALSE
  OBVIOUS
<1>1. PICK D : D = (0..n) \ P
  OBVIOUS
<1>2. PICK m \in D : \A x \in D : m <= x
  <2>1. D \in SUBSET Nat /\ n \in D
    BY <1>1
  <2> QED
    BY <2>1, LeastOf
<1>3. m \in 1..n /\ m - 1 \in 0..n /\ m - 1 \notin D
  BY <1>1, <1>2
<1> QED
  BY <1>1, <1>2, <1>3

\* The areas of two lists, one behind the other.
LEMMA CatIs ==
  ASSUME NEW l \in Seq(Areas), NEW k \in Seq(Areas), NEW v
  PROVE  /\ l \o k \in Seq(Areas)
         /\ Without(l, v) /\ Without(k, v) => Without(l \o k, v)
         /\ \A g : Says(l, v, g) /\ Without(k, v) => Says(l \o k, v, g)
         /\ \A g : Without(l, v) /\ Says(k, v, g) => Says(l \o k, v, g)
<1>1. PICK c : c = l \o k
  OBVIOUS
<1>2. /\ c \in Seq(Areas) /\ Len(c) = Len(l) + Len(k)
      /\ \A i \in 1..Len(c) : c[i] = IF i <= Len(l) THEN l[i] ELSE k[i - Len(l)]
  BY <1>1, ConcatProperties
<1>3. Len(l) \in Nat /\ Len(k) \in Nat
  OBVIOUS
<1>4. ASSUME NEW i \in 1..Len(c), i > Len(l) PROVE i - Len(l) \in 1..Len(k) /\ c[i] = k[i - Len(l)]
  BY <1>2, <1>3, <1>4
<1>5. ASSUME NEW i \in 1..Len(c), i <= Len(l) PROVE i \in 1..Len(l) /\ c[i] = l[i]
  BY <1>2, <1>3, <1>5
<1>6. ASSUME NEW i \in 1..Len(l) PROVE i \in 1..Len(c) /\ c[i] = l[i]
  BY <1>2, <1>3
<1>7. ASSUME NEW i \in 1..Len(k) PROVE Len(l) + i \in 1..Len(c) /\ c[Len(l) + i] = k[i]
  <2>1. Len(l) + i \in 1..Len(c) /\ ~(Len(l) + i <= Len(l)) /\ (Len(l) + i) - Len(l) = i
    BY <1>2, <1>3
  <2> QED
    BY <1>2, <2>1
<1>8. Without(l, v) /\ Without(k, v) => Without(c, v)
  BY <1>3, <1>4, <1>5 DEF Without
<1>9. ASSUME NEW g, Says(l, v, g), Without(k, v) PROVE Says(c, v, g)
  <2>1. PICK i \in 1..Len(l) : Covers(l[i], v) /\ l[i].flags = g /\ \A j \in 1..Len(l) : Covers(l[j], v) => j = i
    BY <1>9 DEF Says
  <2>2. ASSUME NEW j \in 1..Len(c), Covers(c[j], v) PROVE j = i
    BY <1>3, <1>4, <1>5, <1>9, <2>1, <2>2 DEF Without
  <2> QED
    BY <1>6, <2>1, <2>2 DEF Says
<1>10. ASSUME NEW g, Without(l, v), Says(k, v, g) PROVE Says(c, v, g)
  <2>1. PICK i \in 1..Len(k) : Covers(k[i], v) /\ k[i].flags = g /\ \A j \in 1..Len(k) : Covers(k[j], v) => j = i
    BY <1>10 DEF Says
  <2>2. ASSUME NEW j \in 1..Len(c), Covers(c[j], v) PROVE j = Len(l) + i
    <3>1. ~(j <= Len(l))
      BY <1>5, <1>10, <2>2 DEF Without
    <3>2. j - Len(l) \in 1..Len(k) /\ Covers(k[j - Len(l)], v)
      BY <1>3, <1>4, <2>2, <3>1
    <3> QED
      BY <1>3, <2>1, <3>2
  <2> QED
    BY <1>7, <2>1, <2>2 DEF Says
<1> QED
  BY <1>1, <1>2, <1>8, <1>9, <1>10

\* A list of one area.
LEMMA OneArea ==
  ASSUME NEW x \in Areas, NEW v
  PROVE  <<x>> \in Seq(Areas) /\ (Covers(x, v) => Says(<<x>>, v, x.flags)) /\ (~Covers(x, v) => Without(<<x>>, v))
  BY DEF Says, Without

\* The empty list.
LEMMA NoArea ==
  ASSUME NEW v
  PROVE  <<>> \in Seq(Areas) /\ Without(<<>>, v)
  BY DEF Without

\* What is left of an area.
LEMMA PiecesIs ==
  ASSUME NEW x \in Areas, NEW s \in Int, NEW e \in Int, s <= e, NEW v \in Pages
  PROVE  /\ Pieces(x, s, e) \in Seq(Areas)
         /\ v \in s..(e - 1) \/ ~Covers(x, v) => Without(Pieces(x, s, e), v)
         /\ v \notin s..(e - 1) /\ Covers(x, v) => Says(Pieces(x, s, e), v, x.flags)
<1>0. x.address \in Int /\ x.size \in Int /\ x.address >= 1 /\ x.size >= 1 /\ v \in Int /\ LastPage \in Int
      /\ x.address + x.size <= LastPage + 1 /\ Fine(x.flags)
  BY AreaIs, Bounds
<1>1. CASE x.address + x.size <= s \/ x.address >= e
  <2>1. Pieces(x, s, e) = <<x>>
    BY <1>1 DEF Pieces, End
  <2>2. Covers(x, v) => v \notin s..(e - 1)
    BY <1>0, <1>1 DEF Covers
  <2> QED
    BY <2>1, <2>2, OneArea
<1>2. CASE ~(x.address + x.size <= s \/ x.address >= e)
  <2>1. PICK p : p = IF s > x.address THEN <<Area(x.address, s - x.address, x.flags)>> ELSE <<>>
    OBVIOUS
  <2>2. PICK q : q = IF e < x.address + x.size THEN <<Area(e, (x.address + x.size) - e, x.flags)>> ELSE <<>>
    OBVIOUS
  <2>3. Pieces(x, s, e) = p \o q
    BY <1>2, <2>1, <2>2 DEF Pieces, End
  <2>4. p \in Seq(Areas) /\ (IF Covers(x, v) /\ v < s THEN Says(p, v, x.flags) ELSE Without(p, v))
    <3>1. CASE s > x.address
      <4>1. PICK y : y = Area(x.address, s - x.address, x.flags)
        OBVIOUS
      <4>2. y \in Areas /\ y.address = x.address /\ y.size = s - x.address /\ y.flags = x.flags
        <5>1. s - x.address \in Int /\ s - x.address >= 1 /\ x.address + (s - x.address) <= LastPage + 1
          BY <1>0, <1>2, <3>1
        <5> QED
          BY <1>0, <4>1, <5>1, IsArea
      <4>3. Covers(y, v) <=> Covers(x, v) /\ v < s
        BY <1>0, <1>2, <4>2 DEF Covers
      <4> QED
        BY <2>1, <3>1, <4>1, <4>2, <4>3, OneArea
    <3>2. CASE ~(s > x.address)
      BY <1>0, <2>1, <3>2, NoArea DEF Covers
    <3> QED
      BY <3>1, <3>2
  <2>5. q \in Seq(Areas) /\ (IF Covers(x, v) /\ v >= e THEN Says(q, v, x.flags) ELSE Without(q, v))
    <3>1. CASE e < x.address + x.size
      <4>1. PICK y : y = Area(e, (x.address + x.size) - e, x.flags)
        OBVIOUS
      <4>2. y \in Areas /\ y.address = e /\ y.size = (x.address + x.size) - e /\ y.flags = x.flags
        <5>1. (x.address + x.size) - e \in Int /\ (x.address + x.size) - e >= 1 /\ e >= 1
              /\ e + ((x.address + x.size) - e) <= LastPage + 1
          BY <1>0, <1>2, <3>1
        <5> QED
          BY <1>0, <4>1, <5>1, IsArea
      <4>3. Covers(y, v) <=> Covers(x, v) /\ v >= e
        BY <1>0, <1>2, <4>2 DEF Covers
      <4> QED
        BY <2>2, <3>1, <4>1, <4>2, <4>3, OneArea
    <3>2. CASE ~(e < x.address + x.size)
      BY <1>0, <2>2, <3>2, NoArea DEF Covers
    <3> QED
      BY <3>1, <3>2
  <2>6. v < s => ~(v >= e)
    BY <1>0
  <2>7. v \in s..(e - 1) <=> ~(v < s) /\ ~(v >= e)
    BY <1>0
  <2> QED
    BY <2>3, <2>4, <2>5, <2>6, <2>7, CatIs
<1> QED
  BY <1>1, <1>2

\* The first i areas.
WithoutTo(l, i, v) == \A j \in 1..i : ~Covers(l[j], v)
SaysTo(l, i, v, f) == \E j \in 1..i : /\ Covers(l[j], v) /\ l[j].flags = f
                                      /\ \A h \in 1..i : Covers(l[h], v) => h = j

\* k is l without pages a..(a + n - 1).
Removed(l, i, k, a, n) ==
  /\ k \in Seq(Areas)
  /\ \A v \in Pages :
       /\ v \in a..(a + n - 1) \/ WithoutTo(l, i, v) => Without(k, v)
       /\ v \notin a..(a + n - 1) => \A g : SaysTo(l, i, v, g) => Says(k, v, g)

\* remove_allocation takes the pages asked for out of every area, and no other page.
LEMMA RemoveIs ==
  ASSUME NEW l \in Seq(Areas), NEW a \in Int, NEW n \in Nat
  PROVE  Removed(l, Len(l), RemoveAllocation(l, a, n), a, n)
<1> DEFINE Solves(g) == g = [i \in 0..Len(l) |-> IF i = 0 THEN <<>> ELSE g[i - 1] \o Pieces(l[i], a, a + n)]
<1> DEFINE left == CHOOSE g : Solves(g)
<1>1. RemoveAllocation(l, a, n) = left[Len(l)]
  BY DEF RemoveAllocation
<1>2. \A i \in 1..Len(l) : \A v \in Pages :
        /\ Pieces(l[i], a, a + n) \in Seq(Areas)
        /\ v \in a..(a + n - 1) \/ ~Covers(l[i], v) => Without(Pieces(l[i], a, a + n), v)
        /\ v \notin a..(a + n - 1) /\ Covers(l[i], v) => Says(Pieces(l[i], a, a + n), v, l[i].flags)
  BY PiecesIs
<1>3. 1 \in Pages /\ Len(l) \in Nat
  BY Bounds
<1>4. PICK step : step = [w \in Seq(Areas) \X (1..Len(l)) |-> w[1] \o Pieces(l[w[2]], a, a + n)]
  OBVIOUS
<1>5. step \in [Seq(Areas) \X (1..Len(l)) -> Seq(Areas)]
  BY <1>2, <1>3, <1>4, CatIs
<1>6. PICK g : Folds(g, Seq(Areas), <<>>, Len(l), step)
  <2>1. <<>> \in Seq(Areas)
    OBVIOUS
  <2> QED
    BY <1>3, <1>5, <2>1, FoldIs
<1>7. Solves(g)
  <2>1. ASSUME NEW i \in 0..Len(l)
        PROVE  g[i] = IF i = 0 THEN <<>> ELSE g[i - 1] \o Pieces(l[i], a, a + n)
    <3>1. CASE i # 0
      <4>1. i \in 1..Len(l) /\ i - 1 \in 0..Len(l)
        BY <1>3, <3>1
      <4>2. g[i - 1] \in Seq(Areas)
        BY <1>6, <4>1 DEF Folds
      <4> QED
        BY <1>4, <1>6, <3>1, <4>1, <4>2 DEF Folds
    <3> QED
      BY <1>6, <3>1 DEF Folds
  <2> QED
    BY <1>6, <2>1 DEF Folds
<1>8. Solves(left)
  BY <1>7
<1>9. PICK f : f = left
  OBVIOUS
<1>10. \A i \in 0..Len(l) : f[i] = IF i = 0 THEN <<>> ELSE f[i - 1] \o Pieces(l[i], a, a + n)
  BY <1>8, <1>9
<1> HIDE DEF Solves, left
<1>11. PICK P : P = {i \in 0..Len(l) : Removed(l, i, f[i], a, n)}
  OBVIOUS
<1>12. 0 \in P
  <2>1. f[0] = <<>>
    BY <1>3, <1>10
  <2>2. \A v, o : ~SaysTo(l, 0, v, o)
    BY DEF SaysTo
  <2>3. <<>> \in Seq(Areas) /\ \A v : Without(<<>>, v)
    BY NoArea
  <2>4. Removed(l, 0, f[0], a, n)
    BY <2>1, <2>2, <2>3 DEF Removed
  <2> QED
    BY <1>3, <1>11, <2>4
<1>13. ASSUME NEW i \in 1..Len(l), i - 1 \in P PROVE i \in P
  <2>1. PICK q : q = Pieces(l[i], a, a + n)
    OBVIOUS
  <2>2. PICK p : p = f[i - 1]
    OBVIOUS
  <2>3. f[i] = p \o q
    <3>1. i \in 0..Len(l) /\ i # 0
      OBVIOUS
    <3> QED
      BY <1>10, <2>1, <2>2, <3>1
  <2>4. p \in Seq(Areas) /\ q \in Seq(Areas)
    BY <1>2, <1>3, <1>11, <1>13, <2>1, <2>2 DEF Removed
  <2>5. PICK k : k = p \o q
    OBVIOUS
  <2>6. ASSUME NEW v \in Pages, v \in a..(a + n - 1) \/ WithoutTo(l, i, v) PROVE Without(k, v)
    <3>1. Without(p, v)
      BY <1>11, <1>13, <2>2, <2>6 DEF Removed, WithoutTo
    <3>2. Without(q, v)
      BY <1>2, <2>1, <2>6 DEF WithoutTo
    <3> QED
      BY <2>4, <2>5, <3>1, <3>2, CatIs
  <2>7. ASSUME NEW v \in Pages, v \notin a..(a + n - 1), NEW o, SaysTo(l, i, v, o) PROVE Says(k, v, o)
    <3>1. PICK j \in 1..i : Covers(l[j], v) /\ l[j].flags = o /\ \A h \in 1..i : Covers(l[h], v) => h = j
      BY <2>7 DEF SaysTo
    <3>2. CASE j = i
      <4>1. WithoutTo(l, i - 1, v)
        BY <3>1, <3>2 DEF WithoutTo
      <4>2. Without(p, v)
        BY <1>11, <1>13, <2>2, <4>1 DEF Removed
      <4>3. Says(q, v, o)
        BY <1>2, <2>1, <2>7, <3>1, <3>2
      <4> QED
        BY <2>4, <2>5, <4>2, <4>3, CatIs
    <3>3. CASE j # i
      <4>1. SaysTo(l, i - 1, v, o)
        <5>1. j \in 1..(i - 1) /\ \A h \in 1..(i - 1) : h \in 1..i
          BY <3>1, <3>3
        <5> QED
          BY <3>1, <5>1 DEF SaysTo
      <4>2. Says(p, v, o)
        BY <1>11, <1>13, <2>2, <2>7, <4>1 DEF Removed
      <4>3. Without(q, v)
        BY <1>2, <2>1, <3>1, <3>3
      <4> QED
        BY <2>4, <2>5, <4>2, <4>3, CatIs
    <3> QED
      BY <3>2, <3>3
  <2>8. k \in Seq(Areas)
    BY <2>4, <2>5, CatIs
  <2>9. i \in 0..Len(l)
    OBVIOUS
  <2> QED
    BY <1>11, <2>3, <2>5, <2>6, <2>7, <2>8, <2>9 DEF Removed
<1>14. Len(l) \in P
  <2>1. P \in SUBSET (0..Len(l))
    BY <1>11
  <2> QED
    BY <1>3, <1>12, <1>13, <2>1, StepsHave
<1> QED
  BY <1>1, <1>9, <1>11, <1>14

\* k is l with the flags of pages a..(a + n - 1) changed.
Changed(l, k, a, n, f) ==
  /\ k \in Seq(Areas)
  /\ \A v \in Pages :
       /\ v \in a..(a + n - 1) => Says(k, v, f)
       /\ v \notin a..(a + n - 1) => /\ Without(l, v) => Without(k, v)
                                     /\ \A g : Says(l, v, g) => Says(k, v, g)

\* All areas are the first Len(l) ones.
LEMMA ToEnd ==
  ASSUME NEW l, NEW v
  PROVE  WithoutTo(l, Len(l), v) = Without(l, v) /\ \A g : SaysTo(l, Len(l), v, g) = Says(l, v, g)
  BY DEF WithoutTo, Without, SaysTo, Says

\* change_flags gives the pages asked for the new flags, also where areas overlap.
LEMMA ChangeIs ==
  ASSUME NEW l \in Seq(Areas), NEW a \in Int, NEW n \in Int, NEW f, Fine(f),
         a >= 1, n >= 1, a + n <= LastPage + 1
  PROVE  Changed(l, ChangeFlags(l, a, n, f), a, n, f)
<1>1. PICK r : r = RemoveAllocation(l, a, n)
  OBVIOUS
<1>2. Removed(l, Len(l), r, a, n)
  BY <1>1, RemoveIs
<1>3. r \in Seq(Areas)
  BY <1>2 DEF Removed
<1>4. PICK k : k = MarkAllocation(r, a, n, f)
  OBVIOUS
<1>5. Marked(r, k, a, n, f)
  BY <1>3, <1>4, MarkIs
<1>6. k = ChangeFlags(l, a, n, f)
  BY <1>1, <1>4 DEF ChangeFlags
<1>7. ASSUME NEW v \in Pages, v \in a..(a + n - 1) PROVE Says(k, v, f)
  BY <1>2, <1>5, <1>7 DEF Removed, Marked
<1>8. ASSUME NEW v \in Pages, v \notin a..(a + n - 1)
      PROVE  (Without(l, v) => Without(k, v)) /\ \A g : Says(l, v, g) => Says(k, v, g)
  BY <1>2, <1>5, <1>8, ToEnd DEF Removed, Marked
<1> QED
  BY <1>5, <1>6, <1>7, <1>8 DEF Changed, Marked

-----------------------------------------------------------------------------
(* Forking.                                                                *)

\* An area that is pending has the pages it had.
LEMMA PendingIs ==
  ASSUME NEW x \in Areas
  PROVE  /\ Pending(x) \in Areas /\ Pending(x).address = x.address /\ Pending(x).size = x.size
         /\ Pending(x).flags = IF "cow" \in x.flags THEN x.flags \cup {"pending"} ELSE x.flags
<1>1. x \in [address : Pages, size : 1..LastPage, flags : SUBSET Flags] /\ Fine(x.flags)
      /\ x.address + x.size <= LastPage + 1
  BY DEF Areas
<1>2. CASE "cow" \in x.flags
  <2>1. Pending(x) = [x EXCEPT !.flags = x.flags \cup {"pending"}]
    BY <1>2 DEF Pending
  <2>2. PICK y : y = Pending(x)
    OBVIOUS
  <2>3. y \in [address : Pages, size : 1..LastPage, flags : SUBSET Flags]
        /\ y.address = x.address /\ y.size = x.size /\ y.flags = x.flags \cup {"pending"}
    BY <1>1, <2>1, <2>2 DEF Flags
  <2>4. Fine(y.flags)
    BY <1>1, <1>2, <2>3 DEF Fine, Flags
  <2> QED
    BY <1>1, <1>2, <2>2, <2>3, <2>4 DEF Areas
<1> QED
  BY <1>2 DEF Pending

\* One of the first i areas may be shared and has page v.
Shared(l, i, v) == \E j \in 1..i : Covers(l[j], v) /\ "noshare" \notin l[j].flags

\* k is d with areas of l copied into it: what is not shared stays.
Copied(l, i, d, k) ==
  /\ k \in Seq(Areas)
  /\ \A v \in Pages : ~Shared(l, i, v) => /\ Without(d, v) => Without(k, v)
                                          /\ \A g : Says(d, v, g) => Says(k, v, g)

\* copy_vmm changes no page but those of the areas that may be shared.
LEMMA CopyIs ==
  ASSUME NEW l \in Seq(Areas), NEW d \in Seq(Areas)
  PROVE  Copied(l, Len(l), d, CopyVmm(d, l))
<1> DEFINE Put(k, i) == IF "noshare" \in l[i].flags THEN k
                        ELSE MarkAllocation(k, l[i].address, l[i].size, l[i].flags)
<1> DEFINE Solves(g) == g = [i \in 0..Len(l) |-> IF i = 0 THEN d ELSE Put(g[i - 1], i)]
<1> DEFINE copied == CHOOSE g : Solves(g)
<1>1. CopyVmm(d, l) = copied[Len(l)]
  <2>1. \A g : [i \in 0..Len(l) |-> IF i = 0 THEN d
                 ELSE IF "noshare" \in l[i].flags THEN g[i - 1]
                 ELSE MarkAllocation(g[i - 1], l[i].address, l[i].size, l[i].flags)]
               = [i \in 0..Len(l) |-> IF i = 0 THEN d ELSE Put(g[i - 1], i)]
    OBVIOUS
  <2> QED
    BY <2>1 DEF CopyVmm
<1>2. ASSUME NEW i \in 1..Len(l), NEW k \in Seq(Areas)
      PROVE  /\ Put(k, i) \in Seq(Areas)
             /\ "noshare" \in l[i].flags => Put(k, i) = k
             /\ "noshare" \notin l[i].flags => Marked(k, Put(k, i), l[i].address, l[i].size, l[i].flags)
  <2>1. l[i] \in Areas
    OBVIOUS
  <2>2. Marked(k, MarkAllocation(k, l[i].address, l[i].size, l[i].flags), l[i].address, l[i].size, l[i].flags)
    BY <2>1, AreaIs, MarkIs
  <2> QED
    BY <2>2 DEF Marked
<1>3. Len(l) \in Nat
  OBVIOUS
<1> HIDE DEF Put
<1>4. PICK step : step = [w \in Seq(Areas) \X (1..Len(l)) |-> Put(w[1], w[2])]
  OBVIOUS
<1>5. step \in [Seq(Areas) \X (1..Len(l)) -> Seq(Areas)]
  BY <1>2, <1>4
<1>6. PICK g : Folds(g, Seq(Areas), d, Len(l), step)
  BY <1>3, <1>5, FoldIs
<1>7. Solves(g)
  <2>1. ASSUME NEW i \in 0..Len(l)
        PROVE  g[i] = IF i = 0 THEN d ELSE Put(g[i - 1], i)
    <3>1. CASE i # 0
      <4>1. i \in 1..Len(l) /\ i - 1 \in 0..Len(l)
        BY <1>3, <3>1
      <4>2. g[i - 1] \in Seq(Areas)
        BY <1>6, <4>1 DEF Folds
      <4> QED
        BY <1>4, <1>6, <3>1, <4>1, <4>2 DEF Folds
    <3> QED
      BY <1>6, <3>1 DEF Folds
  <2> QED
    BY <1>6, <2>1 DEF Folds
<1>8. Solves(copied)
  BY <1>7
<1>9. PICK f : f = copied
  OBVIOUS
<1>10. \A i \in 0..Len(l) : f[i] = IF i = 0 THEN d ELSE Put(f[i - 1], i)
  BY <1>8, <1>9
<1> HIDE DEF Solves, copied
<1>11. PICK P : P = {i \in 0..Len(l) : Copied(l, i, d, f[i])}
  OBVIOUS
<1>12. 0 \in P
  <2>1. f[0] = d
    BY <1>3, <1>10
  <2> QED
    BY <1>3, <1>11, <2>1 DEF Copied
<1>13. ASSUME NEW i \in 1..Len(l), i - 1 \in P PROVE i \in P
  <2>1. PICK k : k = f[i - 1]
    OBVIOUS
  <2>2. i \in 0..Len(l) /\ i # 0
    OBVIOUS
  <2>3. f[i] = Put(k, i)
    BY <1>10, <2>1, <2>2
  <2>4. Copied(l, i - 1, d, k)
    BY <1>11, <1>13, <2>1
  <2>5. k \in Seq(Areas)
    BY <2>4 DEF Copied
  <2>6. PICK h : h = Put(k, i)
    OBVIOUS
  <2>7. ASSUME NEW v \in Pages, ~Shared(l, i, v)
        PROVE  (Without(d, v) => Without(h, v)) /\ \A o : Says(d, v, o) => Says(h, v, o)
    <3>1. ~Shared(l, i - 1, v)
      BY <2>7 DEF Shared
    <3>2. (Without(d, v) => Without(k, v)) /\ \A o : Says(d, v, o) => Says(k, v, o)
      BY <2>4, <3>1 DEF Copied
    <3>3. CASE "noshare" \in l[i].flags
      BY <1>2, <2>5, <2>6, <3>2, <3>3
    <3>4. CASE "noshare" \notin l[i].flags
      <4>1. ~Covers(l[i], v)
        BY <2>7, <3>4 DEF Shared
      <4>2. v \notin l[i].address..(l[i].address + l[i].size - 1)
        <5>1. l[i] \in Areas
          OBVIOUS
        <5> QED
          BY <4>1, <5>1, AreaIs DEF Covers
      <4>3. Marked(k, h, l[i].address, l[i].size, l[i].flags)
        BY <1>2, <2>5, <2>6, <3>4
      <4> QED
        BY <3>2, <4>2, <4>3 DEF Marked
    <3> QED
      BY <3>3, <3>4
  <2>8. h \in Seq(Areas)
    BY <1>2, <2>5, <2>6
  <2> QED
    BY <1>11, <2>2, <2>3, <2>6, <2>7, <2>8 DEF Copied
<1>14. Len(l) \in P
  <2>1. P \in SUBSET (0..Len(l))
    BY <1>11
  <2> QED
    BY <1>3, <1>12, <1>13, <2>1, StepsHave
<1> QED
  BY <1>1, <1>9, <1>11, <1>14

\* ClonePTM changes the pages of an area one by one.
LEMMA PagesIs ==
  ASSUME NEW d \in Seq(Areas), NEW x \in Areas, "cow" \in x.flags, "noshare" \notin x.flags
  PROVE  Changed(d, PendPages(d, x), x.address, x.size, Pending(x).flags)
<1> DEFINE Put(k, o) == ChangeFlags(k, x.address + o - 1, 1, Pending(x).flags)
<1> DEFINE Solves(g) == g = [o \in 0..x.size |-> IF o = 0 THEN d ELSE Put(g[o - 1], o)]
<1> DEFINE paged == CHOOSE g : Solves(g)
<1>1. PendPages(d, x) = paged[x.size]
  BY DEF PendPages
<1>0. /\ x.address \in Int /\ x.size \in Nat /\ x.address >= 1 /\ x.size >= 1 /\ LastPage \in Int
      /\ x.address + x.size <= LastPage + 1 /\ Fine(Pending(x).flags)
  <2>1. PICK y : y = Pending(x)
    OBVIOUS
  <2>2. y \in Areas /\ Fine(y.flags)
    BY <2>1, PendingIs, AreaIs
  <2> QED
    BY <2>1, <2>2, AreaIs, Bounds
<1>2. ASSUME NEW o \in 1..x.size, NEW k \in Seq(Areas)
      PROVE  Put(k, o) \in Seq(Areas) /\ Changed(k, Put(k, o), x.address + o - 1, 1, Pending(x).flags)
  <2>1. x.address + o - 1 \in Int /\ x.address + o - 1 >= 1 /\ x.address + o - 1 + 1 <= LastPage + 1
    BY <1>0
  <2>2. Changed(k, Put(k, o), x.address + o - 1, 1, Pending(x).flags)
    <3>1. PICK a, f : a = x.address + o - 1 /\ f = Pending(x).flags
      OBVIOUS
    <3>2. a \in Int /\ 1 \in Int /\ Fine(f) /\ a >= 1 /\ 1 >= 1 /\ a + 1 <= LastPage + 1
      BY <1>0, <2>1, <3>1
    <3>3. Changed(k, ChangeFlags(k, a, 1, f), a, 1, f)
      BY <3>2, ChangeIs
    <3> QED
      BY <3>1, <3>3
  <2> QED
    BY <2>2 DEF Changed
<1>3. x.size \in Nat
  BY <1>0
<1> HIDE DEF Put
<1>4. PICK step : step = [w \in Seq(Areas) \X (1..x.size) |-> Put(w[1], w[2])]
  OBVIOUS
<1>5. step \in [Seq(Areas) \X (1..x.size) -> Seq(Areas)]
  BY <1>2, <1>4
<1>6. PICK g : Folds(g, Seq(Areas), d, x.size, step)
  BY <1>3, <1>5, FoldIs
<1>7. Solves(g)
  <2>1. ASSUME NEW o \in 0..x.size
        PROVE  g[o] = IF o = 0 THEN d ELSE Put(g[o - 1], o)
    <3>1. CASE o # 0
      <4>1. o \in 1..x.size /\ g[o - 1] \in Seq(Areas)
        BY <1>3, <1>6, <3>1 DEF Folds
      <4> QED
        BY <1>4, <1>6, <3>1, <4>1 DEF Folds
    <3> QED
      BY <1>6, <3>1 DEF Folds
  <2> QED
    BY <1>6, <2>1 DEF Folds
<1>8. Solves(paged)
  BY <1>7
<1>9. PICK f : f = paged
  OBVIOUS
<1>10. \A o \in 0..x.size : f[o] = IF o = 0 THEN d ELSE Put(f[o - 1], o)
  BY <1>8, <1>9
<1> HIDE DEF Solves, paged
<1>11. PICK P : P = {o \in 0..x.size : Changed(d, f[o], x.address, o, Pending(x).flags)}
  OBVIOUS
<1>12. 0 \in P
  <2>1. f[0] = d
    BY <1>3, <1>10
  <2>2. \A v \in Pages : v \notin x.address..(x.address + 0 - 1)
    BY <1>0
  <2>3. Changed(d, f[0], x.address, 0, Pending(x).flags)
    BY <2>1, <2>2 DEF Changed
  <2> QED
    BY <1>3, <1>11, <2>3
<1>13. ASSUME NEW o \in 1..x.size, o - 1 \in P PROVE o \in P
  <2>1. PICK k : k = f[o - 1]
    OBVIOUS
  <2>2. o \in 0..x.size /\ o # 0 /\ o \in Int
    BY <1>3
  <2>3. f[o] = Put(k, o)
    BY <1>10, <2>1, <2>2
  <2>4. Changed(d, k, x.address, o - 1, Pending(x).flags)
    BY <1>11, <1>13, <2>1
  <2>5. k \in Seq(Areas)
    BY <2>4 DEF Changed
  <2>6. PICK h : h = Put(k, o)
    OBVIOUS
  <2>7. Changed(k, h, x.address + o - 1, 1, Pending(x).flags)
    BY <1>2, <2>5, <2>6
  <2>8. ASSUME NEW v \in Pages
        PROVE  /\ v \in x.address..(x.address + o - 1)
                    <=> v \in x.address..(x.address + (o - 1) - 1) \/ v \in (x.address + o - 1)..(x.address + o - 1 + 1 - 1)
               /\ v \in x.address..(x.address + (o - 1) - 1) => v \notin (x.address + o - 1)..(x.address + o - 1 + 1 - 1)
    BY <1>0, <2>2, Bounds
  <2>9. Changed(d, h, x.address, o, Pending(x).flags)
    BY <2>4, <2>7, <2>8 DEF Changed
  <2> QED
    BY <1>11, <2>2, <2>3, <2>6, <2>9
<1>14. x.size \in P
  <2>1. P \in SUBSET (0..x.size)
    BY <1>11
  <2> QED
    BY <1>3, <1>12, <1>13, <2>1, StepsHave
<1> QED
  BY <1>1, <1>9, <1>11, <1>14

\* k is c with the pages of the first i areas that may be shared pending.
Child(l, i, c, k) ==
  /\ k \in Seq(Areas)
  /\ \A v \in Pages :
       /\ ~Shared(l, i, v) => /\ Without(c, v) => Without(k, v)
                              /\ \A g : Says(c, v, g) => Says(k, v, g)
       /\ \A j \in 1..i :
            /\ Covers(l[j], v) /\ "noshare" \notin l[j].flags
            /\ \A h \in 1..Len(l) : Covers(l[h], v) => h = j
            => Says(k, v, Pending(l[j]).flags)

\* An area that may be shared is pending in the child, another one is left out.
LEMMA PendIs ==
  ASSUME NEW d \in Seq(Areas), NEW x \in Areas
  PROVE  /\ PendPages(d, x) \in Seq(Areas)
         /\ "noshare" \in x.flags => PendPages(d, x) = d
         /\ "noshare" \notin x.flags => Changed(d, PendPages(d, x), x.address, x.size, Pending(x).flags)
<1>1. CASE "noshare" \in x.flags
  BY <1>1 DEF PendPages
<1>2. CASE "noshare" \notin x.flags
  <2>1. "cow" \in x.flags
    BY <1>2, AreaIs DEF Fine
  <2>2. Changed(d, PendPages(d, x), x.address, x.size, Pending(x).flags)
    BY <1>2, <2>1, PagesIs
  <2> QED
    BY <1>2, <2>2 DEF Changed
<1> QED
  BY <1>1, <1>2

\* The child's list: whatever copy_vmm left on the pages that are shared, changing
\* them one by one puts them right.
LEMMA ChildIs ==
  ASSUME NEW l \in Seq(Areas), NEW c \in Seq(Areas),
         c = CopyVmm(MarkAllocation(<<>>, StackStart, StackSize, StackFlags), l)
  PROVE  Child(l, Len(l), c, ChildList(l))
<1> DEFINE Put(k, i) == PendPages(k, l[i])
<1> DEFINE Solves(g) == g = [i \in 0..Len(l) |-> IF i = 0 THEN c ELSE Put(g[i - 1], i)]
<1> DEFINE child == CHOOSE g : Solves(g)
<1>1. ChildList(l) = child[Len(l)]
  BY DEF ChildList
<1>2. ASSUME NEW i \in 1..Len(l), NEW k \in Seq(Areas)
      PROVE  /\ Put(k, i) \in Seq(Areas) /\ l[i] \in Areas
             /\ "noshare" \in l[i].flags => Put(k, i) = k
             /\ "noshare" \notin l[i].flags => Changed(k, Put(k, i), l[i].address, l[i].size, Pending(l[i]).flags)
  <2>1. l[i] \in Areas
    OBVIOUS
  <2> QED
    BY <2>1, PendIs
<1>3. Len(l) \in Nat
  OBVIOUS
<1> HIDE DEF Put
<1>4. PICK step : step = [w \in Seq(Areas) \X (1..Len(l)) |-> Put(w[1], w[2])]
  OBVIOUS
<1>5. step \in [Seq(Areas) \X (1..Len(l)) -> Seq(Areas)]
  BY <1>2, <1>4
<1>6. PICK g : Folds(g, Seq(Areas), c, Len(l), step)
  BY <1>3, <1>5, FoldIs
<1>7. Solves(g)
  <2>1. ASSUME NEW i \in 0..Len(l)
        PROVE  g[i] = IF i = 0 THEN c ELSE Put(g[i - 1], i)
    <3>1. CASE i # 0
      <4>1. i \in 1..Len(l) /\ i - 1 \in 0..Len(l)
        BY <1>3, <3>1
      <4>2. g[i - 1] \in Seq(Areas)
        BY <1>6, <4>1 DEF Folds
      <4> QED
        BY <1>4, <1>6, <3>1, <4>1, <4>2 DEF Folds
    <3> QED
      BY <1>6, <3>1 DEF Folds
  <2> QED
    BY <1>6, <2>1 DEF Folds
<1>8. Solves(child)
  BY <1>7
<1>9. PICK f : f = child
  OBVIOUS
<1>10. \A i \in 0..Len(l) : f[i] = IF i = 0 THEN c ELSE Put(f[i - 1], i)
  BY <1>8, <1>9
<1> HIDE DEF Solves, child
<1>11. PICK P : P = {i \in 0..Len(l) : Child(l, i, c, f[i])}
  OBVIOUS
<1>12. 0 \in P
  <2>1. f[0] = c
    BY <1>3, <1>10
  <2> QED
    BY <1>3, <1>11, <2>1 DEF Child
<1>13. ASSUME NEW i \in 1..Len(l), i - 1 \in P PROVE i \in P
  <2>1. PICK k : k = f[i - 1]
    OBVIOUS
  <2>2. i \in 0..Len(l) /\ i # 0
    OBVIOUS
  <2>3. f[i] = Put(k, i)
    BY <1>10, <2>1, <2>2
  <2>4. Child(l, i - 1, c, k)
    BY <1>11, <1>13, <2>1
  <2>5. k \in Seq(Areas)
    BY <2>4 DEF Child
  <2>6. PICK h : h = Put(k, i)
    OBVIOUS
  <2>7. ASSUME NEW v \in Pages PROVE Covers(l[i], v) <=> v \in l[i].address..(l[i].address + l[i].size - 1)
    <3>1. l[i].address \in Int /\ l[i].size \in Int /\ v \in Int
      BY <1>2, <2>5, AreaIs, Bounds
    <3> QED
      BY <3>1 DEF Covers
  <2>8. ASSUME NEW v \in Pages, ~Covers(l[i], v) \/ "noshare" \in l[i].flags
        PROVE  (Without(k, v) => Without(h, v)) /\ \A o : Says(k, v, o) => Says(h, v, o)
    <3>1. CASE "noshare" \in l[i].flags
      BY <1>2, <2>5, <2>6, <3>1
    <3>2. CASE "noshare" \notin l[i].flags
      <4>1. Changed(k, h, l[i].address, l[i].size, Pending(l[i]).flags)
        BY <1>2, <2>5, <2>6, <3>2
      <4> QED
        BY <2>7, <2>8, <3>2, <4>1 DEF Changed
    <3> QED
      BY <3>1, <3>2
  <2>9. ASSUME NEW v \in Pages, ~Shared(l, i, v)
        PROVE  (Without(c, v) => Without(h, v)) /\ \A o : Says(c, v, o) => Says(h, v, o)
    <3>1. ~Shared(l, i - 1, v) /\ (~Covers(l[i], v) \/ "noshare" \in l[i].flags)
      BY <2>9 DEF Shared
    <3>2. (Without(c, v) => Without(k, v)) /\ \A o : Says(c, v, o) => Says(k, v, o)
      BY <2>4, <3>1 DEF Child
    <3> QED
      BY <2>8, <3>1, <3>2
  <2>10. ASSUME NEW v \in Pages, NEW j \in 1..i, Covers(l[j], v), "noshare" \notin l[j].flags,
                \A b \in 1..Len(l) : Covers(l[b], v) => b = j
         PROVE  Says(h, v, Pending(l[j]).flags)
    <3>1. CASE j = i
      <4>1. Changed(k, h, l[i].address, l[i].size, Pending(l[i]).flags)
        BY <1>2, <2>5, <2>6, <2>10, <3>1
      <4> QED
        BY <2>7, <2>10, <3>1, <4>1 DEF Changed
    <3>2. CASE j # i
      <4>1. j \in 1..(i - 1) /\ ~Covers(l[i], v)
        BY <2>10, <3>2
      <4>2. Says(k, v, Pending(l[j]).flags)
        BY <2>4, <2>10, <4>1 DEF Child
      <4> QED
        BY <2>8, <4>1, <4>2
    <3> QED
      BY <3>1, <3>2
  <2>11. h \in Seq(Areas)
    BY <1>2, <2>5, <2>6
  <2>12. Child(l, i, c, h)
    BY <2>9, <2>10, <2>11 DEF Child
  <2> QED
    BY <1>11, <2>2, <2>3, <2>6, <2>12
<1>14. Len(l) \in P
  <2>1. P \in SUBSET (0..Len(l))
    BY <1>11
  <2> QED
    BY <1>3, <1>12, <1>13, <2>1, StepsHave
<1> QED
  BY <1>1, <1>9, <1>11, <1>14

-----------------------------------------------------------------------------
(* The inductive invariant.                                                *)

\* Every page has the area asked for, and no other.
Answers(l, ask, v) == IF ask[v] = {} THEN Without(l, v) ELSE Says(l, v, ask[v])

Tracked ==
  /\ asked \in [Pages -> SUBSET Flags]
  /\ vm_list \in Seq(Areas)
  /\ \A v \in Pages : Answers(vm_list, asked, v)

\* The flags callers mark pages with.
LEMMA FlagsFine ==
  /\ \A f \in FlagSets : Fine(f) /\ f # {}
  /\ Fine(StackFlags) /\ StackFlags # {}
  BY DEF FlagSets, UserFlags, TableFlags, StackFlags, Fine, Flags

\* The reference map after a call.
LEMMA AskIs ==
  ASSUME Tracked, NEW a \in Int, NEW n \in Int, NEW f \in SUBSET Flags, Ask(a, n, f)
  PROVE  /\ asked' \in [Pages -> SUBSET Flags]
         /\ \A v \in Pages : asked'[v] = IF v \in a..(a + n - 1) THEN f ELSE asked[v]
  BY DEF Ask, Tracked

\* An empty list answers for pages nobody asked for.
LEMMA TrackedInit == Init => Tracked
  BY NoArea DEF Init, Tracked, Answers

\* Marking pages that are not marked.
LEMMA TrackedMark ==
  ASSUME Tracked, "remark" \notin Faults,
         NEW a \in Pages, NEW n \in 1..UserPages, NEW f \in FlagSets, Mark(a, n, f)
  PROVE  Tracked'
<1>1. a \in Int /\ n \in Int /\ a >= 1 /\ n >= 1 /\ a + n <= LastPage + 1
  BY Bounds DEF Mark
<1>2. Fine(f) /\ f # {} /\ f \in SUBSET Flags
  BY FlagsFine DEF Fine
<1>3. /\ vm_list \in Seq(Areas) /\ \A v \in Pages : Answers(vm_list, asked, v)
  BY DEF Tracked
<1>4. Marked(vm_list, vm_list', a, n, f)
  BY <1>1, <1>2, <1>3, MarkIs DEF Mark
<1>5. asked' \in [Pages -> SUBSET Flags]
      /\ \A v \in Pages : asked'[v] = IF v \in a..(a + n - 1) THEN f ELSE asked[v]
  BY <1>1, <1>2, AskIs DEF Mark
<1>6. ASSUME NEW v \in Pages, v \in a..(a + n - 1) PROVE Without(vm_list, v)
  <2>1. GetFlags(vm_list, v) = {}
    BY <1>6 DEF Mark, Markable
  <2>2. PICK I : I = {i \in 1..Len(vm_list) : v >= vm_list[i].address /\ v < End(vm_list[i])}
    OBVIOUS
  <2>3. GetFlags(vm_list, v) = IF FirstOf(I) = 0 THEN {} ELSE vm_list[FirstOf(I)].flags
    BY <2>2 DEF GetFlags, SelectInSeq, FirstOf, Min
  <2>4. CASE I = {}
    BY <1>3, <2>2, <2>4, AreaIs, Bounds DEF Without, Covers, End
  <2>5. CASE I # {}
    <3>1. FirstOf(I) \in 1..Len(vm_list)
      BY <2>2, <2>5, FirstIs
    <3>2. Fine(vm_list[FirstOf(I)].flags)
      BY <1>3, <3>1, AreaIs
    <3> QED
      BY <2>1, <2>3, <3>1, <3>2 DEF Fine
  <2> QED
    BY <2>4, <2>5
<1>7. ASSUME NEW v \in Pages PROVE Answers(vm_list', asked', v)
  BY <1>2, <1>3, <1>4, <1>5, <1>6, <1>7 DEF Answers, Marked
<1> QED
  BY <1>4, <1>5, <1>7 DEF Tracked, Marked

\* Removing pages.
LEMMA TrackedUnmark ==
  ASSUME Tracked, NEW a \in Pages, NEW n \in 1..UserPages, Unmark(a, n)
  PROVE  Tracked'
<1>1. a \in Int /\ n \in Nat
  BY Bounds
<1>2. /\ vm_list \in Seq(Areas) /\ \A v \in Pages : Answers(vm_list, asked, v)
  BY DEF Tracked
<1>3. Removed(vm_list, Len(vm_list), vm_list', a, n)
  BY <1>1, <1>2, RemoveIs DEF Unmark
<1>4. asked' \in [Pages -> SUBSET Flags]
      /\ \A v \in Pages : asked'[v] = IF v \in a..(a + n - 1) THEN {} ELSE asked[v]
  BY <1>1, AskIs DEF Unmark
<1>5. ASSUME NEW v \in Pages PROVE Answers(vm_list', asked', v)
  BY <1>2, <1>3, <1>4, <1>5, ToEnd DEF Answers, Removed
<1> QED
  BY <1>3, <1>4, <1>5 DEF Tracked, Removed

\* Changing the flags of pages.
LEMMA TrackedChange ==
  ASSUME Tracked, NEW a \in Pages, NEW n \in 1..UserPages, NEW f \in FlagSets, Change(a, n, f)
  PROVE  Tracked'
<1>1. a \in Int /\ n \in Int /\ a >= 1 /\ n >= 1 /\ a + n <= LastPage + 1
  BY Bounds DEF Change
<1>2. Fine(f) /\ f # {} /\ f \in SUBSET Flags
  BY FlagsFine DEF Fine
<1>3. /\ vm_list \in Seq(Areas) /\ \A v \in Pages : Answers(vm_list, asked, v)
  BY DEF Tracked
<1>4. Changed(vm_list, vm_list', a, n, f)
  BY <1>1, <1>2, <1>3, ChangeIs DEF Change
<1>5. asked' \in [Pages -> SUBSET Flags]
      /\ \A v \in Pages : asked'[v] = IF v \in a..(a + n - 1) THEN f ELSE asked[v]
  BY <1>1, <1>2, AskIs DEF Change
<1>6. ASSUME NEW v \in Pages PROVE Answers(vm_list', asked', v)
  BY <1>2, <1>3, <1>4, <1>5, <1>6 DEF Answers, Changed
<1> QED
  BY <1>4, <1>5, <1>6 DEF Tracked, Changed

\* The flags of a page are those of a caller.
LEMMA SaysFine ==
  ASSUME NEW l \in Seq(Areas), NEW v, NEW f, Says(l, v, f)
  PROVE  Fine(f) /\ f # {}
<1>1. PICK i \in 1..Len(l) : l[i].flags = f
  BY DEF Says
<1>2. l[i] \in Areas
  OBVIOUS
<1> QED
  BY <1>1, <1>2, AreaIs DEF Fine

\* ClonePTM marks the areas of the parent pending in place.
LEMMA ParentIs ==
  ASSUME NEW l \in Seq(Areas)
  PROVE  /\ ParentList(l) \in Seq(Areas)
         /\ \A v : Without(l, v) => Without(ParentList(l), v)
         /\ \A v, f : Says(l, v, f) => Says(ParentList(l), v, IF "cow" \in f THEN f \cup {"pending"} ELSE f)
<1>1. PICK k : k = ParentList(l)
  OBVIOUS
<1>2. ASSUME NEW i \in 1..Len(l)
      PROVE  LET y == IF "noshare" \in l[i].flags THEN l[i] ELSE Pending(l[i])
             IN /\ y \in Areas /\ y.address = l[i].address /\ y.size = l[i].size
                /\ y.flags = IF "cow" \in l[i].flags THEN l[i].flags \cup {"pending"} ELSE l[i].flags
  <2>1. l[i] \in Areas
    OBVIOUS
  <2>2. "noshare" \in l[i].flags => "cow" \notin l[i].flags
    BY <2>1, AreaIs DEF Fine
  <2> QED
    BY <2>1, <2>2, PendingIs
<1>3. k = [i \in 1..Len(l) |-> IF "noshare" \in l[i].flags THEN l[i] ELSE Pending(l[i])]
  BY <1>1 DEF ParentList
<1>4. k \in Seq(Areas) /\ Len(k) = Len(l)
  <2>1. k \in [1..Len(l) -> Areas]
    BY <1>2, <1>3
  <2> QED
    BY <2>1
<1>5. \A i \in 1..Len(l) : /\ k[i].address = l[i].address /\ k[i].size = l[i].size
                           /\ k[i].flags = IF "cow" \in l[i].flags THEN l[i].flags \cup {"pending"} ELSE l[i].flags
  BY <1>2, <1>3
<1>6. \A v : \A i \in 1..Len(l) : Covers(k[i], v) <=> Covers(l[i], v)
  BY <1>5 DEF Covers
<1>7. \A v : Without(l, v) => Without(k, v)
  BY <1>4, <1>6 DEF Without
<1>8. ASSUME NEW v, NEW f, Says(l, v, f)
      PROVE  Says(k, v, IF "cow" \in f THEN f \cup {"pending"} ELSE f)
  BY <1>4, <1>5, <1>6, <1>8 DEF Says
<1> QED
  BY <1>1, <1>4, <1>7, <1>8

\* The parent of a fork.
LEMMA TrackedForkParent ==
  ASSUME Tracked, ForkParent
  PROVE  Tracked'
<1>1. /\ vm_list \in Seq(Areas) /\ \A v \in Pages : Answers(vm_list, asked, v)
      /\ asked \in [Pages -> SUBSET Flags]
  BY DEF Tracked
<1>2. vm_list' = ParentList(vm_list) /\ asked' = [v \in Pages |-> AskedPending(v)]
  BY DEF ForkParent
<1>3. asked' \in [Pages -> SUBSET Flags]
  BY <1>1, <1>2 DEF AskedPending, Flags
<1>4. ASSUME NEW v \in Pages PROVE Answers(vm_list', asked', v)
  <2>1. asked'[v] = IF "cow" \in asked[v] THEN asked[v] \cup {"pending"} ELSE asked[v]
    BY <1>2 DEF AskedPending
  <2>2. CASE asked[v] = {}
    <3>1. Without(vm_list, v)
      BY <1>1, <2>2 DEF Answers
    <3>2. asked'[v] = {}
      BY <2>1, <2>2
    <3> QED
      BY <1>1, <1>2, <3>1, <3>2, ParentIs DEF Answers
  <2>3. CASE asked[v] # {}
    <3>1. Says(vm_list, v, asked[v])
      BY <1>1, <2>3 DEF Answers
    <3>2. asked'[v] # {}
      BY <2>1, <2>3
    <3> QED
      BY <1>1, <1>2, <2>1, <3>1, <3>2, ParentIs DEF Answers
  <2> QED
    BY <2>2, <2>3
<1> QED
  BY <1>1, <1>2, <1>3, <1>4, ParentIs DEF Tracked

\* The child of a fork: its list overlaps itself after copy_vmm, where the parent's
\* areas meet the new stack, and answers as asked at the end.
LEMMA TrackedForkChild ==
  ASSUME Tracked, ForkChild
  PROVE  Tracked'
<1>1. /\ vm_list \in Seq(Areas) /\ \A v \in Pages : Answers(vm_list, asked, v)
      /\ asked \in [Pages -> SUBSET Flags]
  BY DEF Tracked
<1>2. PICK s : s = MarkAllocation(<<>>, StackStart, StackSize, StackFlags)
  OBVIOUS
<1>3. Marked(<<>>, s, StackStart, StackSize, StackFlags)
  <2>1. <<>> \in Seq(Areas) /\ StackStart \in Int /\ StackSize \in Int /\ Fine(StackFlags)
        /\ StackStart >= 1 /\ StackSize >= 1 /\ StackStart + StackSize <= LastPage + 1
    BY Bounds, FlagsFine
  <2> QED
    BY <1>2, <2>1, MarkIs
<1>4. PICK c : c = CopyVmm(s, vm_list)
  OBVIOUS
<1>5. Copied(vm_list, Len(vm_list), s, c)
  BY <1>1, <1>3, <1>4, CopyIs DEF Marked
<1>6. PICK k : k = ChildList(vm_list)
  OBVIOUS
<1>7. Child(vm_list, Len(vm_list), c, k)
  BY <1>1, <1>2, <1>4, <1>5, <1>6, ChildIs DEF Copied
<1>8. vm_list' = k
  BY <1>6 DEF ForkChild
<1>9. \A v \in Pages : asked'[v] = IF asked[v] # {} /\ "noshare" \notin asked[v] THEN AskedPending(v)
                                   ELSE IF v \in StackStart..UserPages THEN StackFlags ELSE {}
  BY DEF ForkChild
<1>10. asked' \in [Pages -> SUBSET Flags]
  BY <1>1 DEF ForkChild, AskedPending, Flags, StackFlags
<1>11. ASSUME NEW v \in Pages PROVE Answers(k, asked', v)
  <2>1. CASE asked[v] # {} /\ "noshare" \notin asked[v]
    <3>1. Says(vm_list, v, asked[v])
      BY <1>1, <2>1 DEF Answers
    <3>2. PICK j \in 1..Len(vm_list) : /\ Covers(vm_list[j], v) /\ vm_list[j].flags = asked[v]
                                       /\ \A h \in 1..Len(vm_list) : Covers(vm_list[h], v) => h = j
      BY <3>1 DEF Says
    <3>3. Says(k, v, Pending(vm_list[j]).flags)
      BY <1>7, <2>1, <3>2 DEF Child
    <3>4. vm_list[j] \in Areas
      BY <1>1
    <3>5. asked'[v] = Pending(vm_list[j]).flags
      BY <1>9, <2>1, <3>2, <3>4, PendingIs DEF AskedPending
    <3>6. asked'[v] # {}
      BY <1>9, <2>1 DEF AskedPending
    <3> QED
      BY <3>3, <3>5, <3>6 DEF Answers
  <2>2. CASE ~(asked[v] # {} /\ "noshare" \notin asked[v])
    <3>1. ~Shared(vm_list, Len(vm_list), v)
      <4>1. CASE asked[v] = {}
        BY <1>1, <4>1 DEF Answers, Without, Shared
      <4>2. CASE asked[v] # {}
        <5>1. Says(vm_list, v, asked[v])
          BY <1>1, <4>2 DEF Answers
        <5> QED
          BY <2>2, <4>2, <5>1 DEF Says, Shared
      <4> QED
        BY <4>1, <4>2
    <3>2. (Without(s, v) => Without(k, v)) /\ \A g : Says(s, v, g) => Says(k, v, g)
      BY <1>5, <1>7, <3>1 DEF Copied, Child
    <3>3. asked'[v] = IF v \in StackStart..UserPages THEN StackFlags ELSE {}
      BY <1>9, <2>2
    <3>4. v \in StackStart..UserPages <=> v \in StackStart..(StackStart + StackSize - 1)
      BY Bounds
    <3>5. Without(<<>>, v)
      BY NoArea
    <3>6. CASE v \in StackStart..UserPages
      BY <1>3, <3>2, <3>3, <3>4, <3>5, <3>6, FlagsFine DEF Marked, Answers
    <3>7. CASE v \notin StackStart..UserPages
      BY <1>3, <3>2, <3>3, <3>4, <3>5, <3>7 DEF Marked, Answers
    <3> QED
      BY <3>6, <3>7
  <2> QED
    BY <2>1, <2>2
<1>12. k \in Seq(Areas)
  BY <1>7 DEF Child
<1> QED
  BY <1>8, <1>10, <1>11, <1>12 DEF Tracked

\* Every call keeps the list and the map together.
LEMMA TrackedNext ==
  ASSUME "remark" \notin Faults
  PROVE  Tracked /\ [Next]_vars => Tracked'
<1> SUFFICES ASSUME Tracked, [Next]_vars PROVE Tracked'
  OBVIOUS
<1>1. ASSUME NEW a \in Pages, NEW n \in 1..UserPages, Unmark(a, n) PROVE Tracked'
  BY <1>1, TrackedUnmark
<1>2. ASSUME NEW a \in Pages, NEW n \in 1..UserPages, NEW f \in FlagSets, Mark(a, n, f) PROVE Tracked'
  BY <1>2, TrackedMark
<1>3. ASSUME NEW a \in Pages, NEW n \in 1..UserPages, NEW f \in FlagSets, Change(a, n, f) PROVE Tracked'
  BY <1>3, TrackedChange
<1>4. CASE ForkParent
  BY <1>4, TrackedForkParent
<1>5. CASE ForkChild
  BY <1>5, TrackedForkChild
<1>6. CASE Exit
  BY <1>6, NoArea DEF Exit, Tracked, Answers
<1>7. CASE UNCHANGED vars
  BY <1>7 DEF vars, Tracked
<1> QED
  BY <1>1, <1>2, <1>3, <1>4, <1>5, <1>6, <1>7 DEF Next

\* The inductive invariant holds of every list.
LEMMA TrackedAlways ==
  ASSUME "remark" \notin Faults
  PROVE  Spec => []Tracked
  BY TrackedInit, TrackedNext, PTL DEF Spec

-----------------------------------------------------------------------------
(* Theorems.                                                               *)

\* The list stays a list of areas within the pages, as long as no caller marks
\* pages that are marked.
THEOREM TrackerTypes ==
  ASSUME "remark" \notin Faults
  PROVE  Spec => []TypeOK
<1>1. Tracked => TypeOK
  <2> SUFFICES ASSUME Tracked PROVE TypeOK
    OBVIOUS
  <2>1. asked \in [Pages -> SUBSET Flags] /\ vm_list \in Seq(Areas)
    BY DEF Tracked
  <2>2. Areas \subseteq [address : Pages, size : 1..LastPage, flags : SUBSET Flags]
    BY DEF Areas
  <2>3. vm_list \in Seq([address : Pages, size : 1..LastPage, flags : SUBSET Flags])
    <3>1. PICK T : T = [address : Pages, size : 1..LastPage, flags : SUBSET Flags]
      OBVIOUS
    <3>2. Areas \subseteq T
      BY <2>2, <3>1
    <3>3. vm_list \in Seq(T)
      BY <2>1, <3>2
    <3> QED
      BY <3>1, <3>3
  <2> QED
    BY <2>1, <2>3 DEF TypeOK
<1> QED
  BY <1>1, TrackedAlways, PTL

\* After any sequence of marks, removals, flag changes and forks no two areas overlap:
\* get_page finds the only area with a page, and exit gives each page back once, as
\* long as no caller marks pages that are marked.
THEOREM AreasAreDisjoint ==
  ASSUME "remark" \notin Faults
  PROVE  Spec => []Disjoint
<1>1. Tracked => Disjoint
  <2> SUFFICES ASSUME Tracked, NEW i \in 1..Len(vm_list), NEW j \in 1..Len(vm_list), i < j,
                      ~(End(vm_list[i]) <= vm_list[j].address), ~(End(vm_list[j]) <= vm_list[i].address)
               PROVE  FALSE
    BY DEF Disjoint
  <2>1. /\ vm_list \in Seq(Areas) /\ \A v \in Pages : Answers(vm_list, asked, v)
    BY DEF Tracked
  <2>2. PICK x, y : x = vm_list[i] /\ y = vm_list[j]
    OBVIOUS
  <2>3. x \in Areas /\ y \in Areas
    BY <2>1, <2>2
  <2>4. PICK v : v = IF x.address < y.address THEN y.address ELSE x.address
    OBVIOUS
  <2>5. v \in Pages /\ Covers(x, v) /\ Covers(y, v)
    <3>1. x.address + x.size > y.address /\ y.address + y.size > x.address
      BY <2>2, <2>3, AreaIs DEF End
    <3>2. /\ x.address \in Pages /\ y.address \in Pages /\ x.address \in Int /\ y.address \in Int
          /\ x.size \in Int /\ y.size \in Int /\ x.size > 0 /\ y.size > 0
      <4>1. \A z \in Areas : z.address \in Int /\ z.size \in Int /\ z.size >= 1 /\ z.address \in Pages
        BY AreaIs, Bounds
      <4> QED
        BY <2>3, <4>1
    <3> QED
      BY <2>4, <3>1, <3>2 DEF Covers
  <2>6. ~Without(vm_list, v)
    BY <2>2, <2>5 DEF Without
  <2>7. Says(vm_list, v, asked[v])
    BY <2>1, <2>5, <2>6 DEF Answers
  <2>8. i = j
    BY <2>2, <2>5, <2>7 DEF Says
  <2> QED
    BY <2>8
<1> QED
  BY <1>1, TrackedAlways, PTL

\* After any such sequence get_page answers as a map from pages to flags would,
\* for any number of pages and any stack, in parents and in children, under the same
\* condition.
THEOREM ListAnswersAsAMap ==
  ASSUME "remark" \notin Faults
  PROVE  Spec => []AnswersAsAsked
<1>1. Tracked => AnswersAsAsked
  <2> SUFFICES ASSUME Tracked, NEW v \in Pages PROVE GetFlags(vm_list, v) = asked[v]
    BY DEF AnswersAsAsked
  <2>1. /\ vm_list \in Seq(Areas) /\ Answers(vm_list, asked, v)
    BY DEF Tracked
  <2>2. PICK I : I = {i \in 1..Len(vm_list) : v >= vm_list[i].address /\ v < End(vm_list[i])}
    OBVIOUS
  <2>3. GetFlags(vm_list, v) = IF FirstOf(I) = 0 THEN {} ELSE vm_list[FirstOf(I)].flags
    BY <2>2 DEF GetFlags, SelectInSeq, FirstOf, Min
  <2>4. \A i \in 1..Len(vm_list) : i \in I <=> Covers(vm_list[i], v)
    <3> SUFFICES ASSUME NEW i \in 1..Len(vm_list) PROVE i \in I <=> Covers(vm_list[i], v)
      OBVIOUS
    <3>1. vm_list[i] \in Areas
      BY <2>1
    <3> QED
      BY <2>2, <3>1, AreaIs, Bounds DEF Covers, End
  <2>5. IF I = {} THEN FirstOf(I) = 0 ELSE FirstOf(I) \in I
    BY <2>2, FirstIs
  <2>6. CASE asked[v] = {}
    <3>1. I = {}
      BY <2>1, <2>2, <2>4, <2>6 DEF Answers, Without
    <3> QED
      BY <2>3, <2>5, <2>6, <3>1
  <2>7. CASE asked[v] # {}
    <3>1. PICK j \in 1..Len(vm_list) : /\ Covers(vm_list[j], v) /\ vm_list[j].flags = asked[v]
                                       /\ \A h \in 1..Len(vm_list) : Covers(vm_list[h], v) => h = j
      BY <2>1, <2>7 DEF Answers, Says
    <3>2. FirstOf(I) = j /\ j # 0
      BY <2>2, <2>4, <2>5, <3>1
    <3> QED
      BY <2>3, <3>1, <3>2
  <2> QED
    BY <2>6, <2>7
<1> QED
  BY <1>1, TrackedAlways, PTL
=============================================================================
