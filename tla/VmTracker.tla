----------------------------- MODULE VmTracker ------------------------------
(***************************************************************************)
(* The virtual memory tracker of a task (vm_tracker.cpp): a sorted list of *)
(* areas with flags. Marking joins neighbours, removing trims and splits   *)
(* areas, changing flags is both. fork copies the list of the parent into  *)
(* that of the child, which already has its stack (ClonePTM, copy_vmm).    *)
(* Addresses and sizes are in pages; pages above UserPages stand for the   *)
(* kernel addresses of page tables. total_marked_memory, a statistic, is   *)
(* left out. "asked" is the reference: the flags each page should have     *)
(* after the calls so far, page by page.                                   *)
(***************************************************************************)
EXTENDS Integers, Sequences, SequencesExt

CONSTANTS
  UserPages,   \* user pages are 1..UserPages, the stack at their end
  StackSize,
  KernelPages, \* pages after them: page tables
  Faults       \* "remark": a page that is marked may be marked again

ASSUME TrackerConstants ==
  /\ UserPages \in Nat /\ KernelPages \in Nat
  /\ StackSize \in 1..UserPages
  /\ Faults \subseteq {"remark"}

LastPage   == UserPages + KernelPages
Pages      == 1..LastPage
StackStart == UserPages - StackSize + 1
UserFlags  == {{"cow"}, {"cow", "rw"}}
StackFlags == {"cow", "rw"}
TableFlags == {"noshare", "rw"}                \* VM_FLAG_DO_NOT_SHARE
FlagSets   == UserFlags \cup {TableFlags}
Flags      == {"cow", "rw", "noshare", "pending"}

VARIABLES vm_list, asked

vars == <<vm_list, asked>>

\* The list has the type of a list of areas, the reference that of a map.
TypeOK == /\ asked \in [Pages -> SUBSET Flags]
          /\ vm_list \in Seq([address : Pages, size : 1..LastPage, flags : SUBSET Flags])

Area(a, n, flags) == [address |-> a, size |-> n, flags |-> flags]
End(vm) == vm.address + vm.size

\* add_to_list: before the first area, or after the areas that start below.
AddToList(list, vm) ==
  IF list = <<>> \/ vm.address < list[1].address THEN <<vm>> \o list
  ELSE LET below == SelectInSubSeq(list, 2, Len(list), LAMBDA w : w.address >= vm.address)
           at == IF below = 0 THEN Len(list) + 1 ELSE below
       IN  InsertAt(list, at, vm)

Extends(vm, a, n, flags) == (End(vm) = a \/ a + n = vm.address) /\ vm.flags = flags

\* mark_allocation widens the first area it touches that has the same flags,
\* joining it with the next one, or adds an area.
MarkAllocation(list, a, n, flags) ==
  LET i == SelectInSeq(list, LAMBDA vm : Extends(vm, a, n, flags))
  IN  IF i = 0 THEN AddToList(list, Area(a, n, flags))
      ELSE IF a + n = list[i].address
      THEN ReplaceAt(list, i, Area(a, list[i].size + n, flags))
      ELSE LET wide == Area(list[i].address, list[i].size + n, flags)
           IN  IF /\ i < Len(list)
                  /\ list[i + 1].address = End(wide) /\ list[i + 1].flags = flags
               THEN ReplaceAt(RemoveAt(list, i + 1), i,
                              Area(wide.address, wide.size + list[i + 1].size, flags))
               ELSE ReplaceAt(list, i, wide)

\* Mutant: an area cut in the middle loses its end.
PiecesNoSuffix(vm, start, end) ==
  IF End(vm) <= start \/ vm.address >= end THEN <<vm>>
  ELSE IF start > vm.address THEN <<Area(vm.address, start - vm.address, vm.flags)>>
  ELSE IF end < End(vm) THEN <<Area(end, End(vm) - end, vm.flags)>> ELSE <<>>

\* What _handle_trimming and the removal of whole areas leave of an area.
Pieces(vm, start, end) ==
  IF End(vm) <= start \/ vm.address >= end THEN <<vm>>
  ELSE (IF start > vm.address THEN <<Area(vm.address, start - vm.address, vm.flags)>> ELSE <<>>)
       \o (IF end < End(vm) THEN <<Area(end, End(vm) - end, vm.flags)>> ELSE <<>>)

RemoveAllocation(list, a, n) ==
  LET left[i \in 0..Len(list)] ==
        IF i = 0 THEN <<>> ELSE left[i - 1] \o Pieces(list[i], a, a + n)
  IN  left[Len(list)]

\* Mutant: the new area comes on top of the old ones.
ChangeFlagsOnTop(list, a, n, flags) == MarkAllocation(list, a, n, flags)

ChangeFlags(list, a, n, flags) == MarkAllocation(RemoveAllocation(list, a, n), a, n, flags)

\* copy_vmm: the areas that may be shared are marked in the other list too.
CopyVmm(dest, src) ==
  LET copied[i \in 0..Len(src)] ==
        IF i = 0 THEN dest
        ELSE IF "noshare" \in src[i].flags THEN copied[i - 1]
        ELSE MarkAllocation(copied[i - 1], src[i].address, src[i].size, src[i].flags)
  IN  copied[Len(src)]

Pending(vm) == IF "cow" \in vm.flags THEN [vm EXCEPT !.flags = @ \cup {"pending"}] ELSE vm

\* ClonePTM marks the copy-on-write areas of the parent pending in place, and
\* those of the child page by page.
ParentList(list) == [i \in 1..Len(list) |->
                      IF "noshare" \in list[i].flags THEN list[i] ELSE Pending(list[i])]
PendPages(dest, vm) ==
  LET paged[o \in 0..vm.size] ==
        IF o = 0 THEN dest
        ELSE ChangeFlags(paged[o - 1], vm.address + o - 1, 1, Pending(vm).flags)
  IN  IF "noshare" \in vm.flags \/ "cow" \notin vm.flags THEN dest ELSE paged[vm.size]

ChildList(list) ==
  LET stack == MarkAllocation(<<>>, StackStart, StackSize, StackFlags)
      child[i \in 0..Len(list)] ==
        IF i = 0 THEN CopyVmm(stack, list) ELSE PendPages(child[i - 1], list[i])
  IN  child[Len(list)]

\* get_page: the first area with the page; {} when there is none.
GetFlags(list, v) ==
  LET i == SelectInSeq(list, LAMBDA vm : v >= vm.address /\ v < End(vm))
  IN  IF i = 0 THEN {} ELSE list[i].flags

-----------------------------------------------------------------------------
Init == vm_list = <<>> /\ asked = [v \in Pages |-> {}]

Ask(a, n, flags) == asked' = [v \in Pages |-> IF v \in a..(a + n - 1) THEN flags ELSE asked[v]]

\* mmap over a mapping removes what was there first, MapMemory marks the page
\* of a new table. Nothing keeps brk out of an area that mmap has marked, nor
\* the segments of a program out of each other's last page ("remark").
Markable(v) == "remark" \in Faults \/ GetFlags(vm_list, v) = {}

Mark(a, n, flags) ==
  /\ \A v \in a..(a + n - 1) : Markable(v)
  /\ \/ flags \in UserFlags /\ a + n - 1 <= UserPages
     \/ flags = TableFlags /\ a > UserPages /\ n = 1
  /\ vm_list' = MarkAllocation(vm_list, a, n, flags)
  /\ Ask(a, n, flags)

\* mmap over existing pages, and munmap.
Unmark(a, n) ==
  /\ a + n - 1 <= UserPages
  /\ vm_list' = RemoveAllocation(vm_list, a, n)
  /\ Ask(a, n, {})

\* mprotect, the page fault and exit.
Change(a, n, flags) ==
  /\ flags \in UserFlags /\ a + n - 1 <= UserPages
  /\ vm_list' = ChangeFlags(vm_list, a, n, flags)
  /\ Ask(a, n, flags)

\* A fork, seen from the parent and from the child: copy-on-write pages are
\* pending in both, the child has the pages that may be shared, and a stack.
AskedPending(v) == IF "cow" \in asked[v] THEN asked[v] \cup {"pending"} ELSE asked[v]

ForkParent ==
  /\ vm_list' = ParentList(vm_list)
  /\ asked' = [v \in Pages |-> AskedPending(v)]

ForkChild ==
  /\ vm_list' = ChildList(vm_list)
  /\ asked' = [v \in Pages |-> IF asked[v] # {} /\ "noshare" \notin asked[v] THEN AskedPending(v)
                               ELSE IF v \in StackStart..UserPages THEN StackFlags ELSE {}]

\* exit is called with force: every area goes.
Exit == vm_list' = <<>> /\ asked' = [v \in Pages |-> {}]

Next == \/ \E a \in Pages, n \in 1..UserPages :
             \/ Unmark(a, n)
             \/ \E flags \in FlagSets : Mark(a, n, flags) \/ Change(a, n, flags)
        \/ ForkParent \/ ForkChild \/ Exit

Spec == Init /\ [][Next]_vars

-----------------------------------------------------------------------------
\* No two areas overlap, so that get_page finds the only area with a page and
\* exit gives each page back once. The child's list overlaps itself in
\* copy_vmm and must come out of that. (It need not come out sorted.)
Disjoint == \A i, j \in 1..Len(vm_list) :
              i < j => End(vm_list[i]) <= vm_list[j].address \/ End(vm_list[j]) <= vm_list[i].address

\* The list answers as the map would: joining, trimming and splitting areas
\* changes the pages asked for and no other, in parents and children too.
AnswersAsAsked == \A v \in Pages : GetFlags(vm_list, v) = asked[v]
=============================================================================
