---------------------------- MODULE AddressSpace ----------------------------
(***************************************************************************)
(* The memory of processes: page tables (paging/PageTableManager.cpp), the *)
(* pages the VM tracker knows of with their flags, copy on write in        *)
(* ClonePTM and PageFault, and mmap, munmap, mprotect, brk, fork and exit  *)
(* over the counted frames of the page frame allocator.                    *)
(*                                                                         *)
(* Only its own task changes a process's table and tracker, but frames are *)
(* shared: each handler is split where it takes or gives back a frame, and *)
(* steps of other processes come between. The levels of a page table are   *)
(* one function from pages to frames; the frames that hold the tables, the *)
(* NX and caching bits, and the constant flags of the tracker are left     *)
(* out. Frame 0 is low memory: reserved, and what a request without memory *)
(* returns. Frames are counted by the real allocator with 8 bits;          *)
(* PageFrameAllocator has that.                                            *)
(***************************************************************************)
EXTENDS Integers, FiniteSets, FiniteSetsExt

CONSTANTS
  NProcs,     \* process slots, taken in order and never reused
  NPages,     \* user pages 1..NPages; the stack is at the end
  StackSize,  \* pages of a stack
  BrkBase,    \* BRK_DEFAULT_BASE and RMAP_DEFAULT_BASE, as pages, and bounds on
  BrkSize,    \* the pages a process takes from there
  RmapBase,
  RmapSize,
  MaxLength,  \* the longest range given to mmap, munmap and mprotect
  NFrames,    \* frames 1..NFrames are usable memory
  Addrs,      \* the pages processes name in mmap, munmap and mprotect: not in the
              \* brk area or the stack, where a mark could overlap another one
  Data,       \* what a page can hold
  Zero,
  Calls,      \* the calls processes issue; "pending": on any page, otherwise
              \* mprotect and kernel writes only get pages that wait for no copy
  MaxEntries, \* bounds how often they enter the kernel together
  None, Unmapped

ASSUME AddressSpaceConstants ==
  /\ NProcs \in Nat \ {0} /\ NPages \in Nat \ {0} /\ NFrames \in Nat
  /\ StackSize \in 1..(NPages - 1) /\ StackSize <= NFrames
  /\ BrkBase \in 1..NPages /\ BrkSize \in Nat /\ BrkBase + BrkSize <= NPages + 1
  /\ RmapBase \in 1..NPages /\ RmapSize \in Nat /\ RmapBase + RmapSize <= NPages + 1
  /\ MaxEntries \in Nat /\ MaxLength \in Nat
  /\ Addrs \subseteq 1..NPages
  /\ Zero \in Data /\ Unmapped \notin Data
  /\ None \notin Int

Procs  == 1..NProcs
Pages  == 1..NPages
Frames == 0..NFrames
Stack  == (NPages - StackSize + 1)..NPages
BrkArea == BrkBase..(BrkBase + BrkSize - 1)

ASSUME AreasDisjoint ==
  /\ BrkArea \cap Stack = {}
  /\ \A v \in Addrs \cup RmapBase..(RmapBase + RmapSize - 1) : v \notin BrkArea \cup Stack

VARIABLES
  pt,      \* per process and page: the frame it maps, None if not present
  writable,\* the present entries <<p, v>> with the Write bit
  vm,      \* per process and page: the tracker's flags, {} if not tracked
  brk,     \* brk_offset, in pages
  rmap,    \* rmap_offset
  locked,  \* the frames in use
  rc,      \* reference_count of each frame
  data,    \* what each frame holds
  call,    \* per process: where it is inside the kernel
  entries  \* system calls and page faults so far

vars == <<pt, writable, vm, brk, rmap, locked, rc, data, call, entries>>

Flags == {"us", "rw", "cow", "pending"}   \* VM_FLAG_US is on every tracked page
Points == {"none", "new", "user", "mmap", "mmapMap", "unmap", "unmapClear", "mprotect",
           "brk", "faultDrop", "faultMap", "fork", "exit", "dead"}

\* The tables, the tracker, the frames and the places in the code have their types.
TypeOK ==
  /\ pt \in [Procs -> [Pages -> Frames \cup {None}]]
  /\ writable \subseteq Procs \X Pages
  /\ vm \in [Procs -> [Pages -> SUBSET Flags]]
  /\ brk \in [Procs -> 0..BrkSize] /\ rmap \in [Procs -> 0..RmapSize]
  /\ locked \subseteq Frames
  /\ rc \in [Frames -> Nat]
  /\ data \in [Frames -> Data]
  /\ call \in [Procs -> [at : Points, page : Nat, last : Nat, frame : Frames,
                         prot : SUBSET {"w"}, child : 0..NProcs]]
  /\ entries \in 0..MaxEntries

At(p) == call[p].at
InUser == [at |-> "user", page |-> 0, last |-> 0, frame |-> 0, prot |-> {}, child |-> 0]
Loop(at, first, last) == [InUser EXCEPT !.at = at, !.page = first, !.last = last]
\* The caller goes on with the next page of its loop, or returns.
Advance(p, at) == IF call[p].page = call[p].last THEN InUser
                  ELSE [call[p] EXCEPT !.at = at, !.page = @ + 1]

\* Process p, running in user mode, enters the kernel, here for a system call.
Enter(p) == At(p) = "user" /\ entries < MaxEntries /\ entries' = entries + 1
Issue(p, name) == name \in Calls /\ Enter(p)

Settled(p, range) == "pending" \in Calls \/ \A v \in range : "pending" \notin vm[p][v]

StackFlags == {"us", "rw", "cow"}
OwnFlags   == {"us", "rw", "cow"}      \* what mmap and brk mark

\* The first process: create_process has mapped its stack (_allocate_stack)
\* and nothing else.
Init ==
  /\ pt = [p \in Procs |-> [v \in Pages |->
             IF p = 1 /\ v \in Stack THEN v - NPages + StackSize ELSE None]]
  /\ writable = {1} \X Stack
  /\ vm = [p \in Procs |-> [v \in Pages |-> IF p = 1 /\ v \in Stack THEN StackFlags ELSE {}]]
  /\ brk = [p \in Procs |-> 0] /\ rmap = [p \in Procs |-> 0]
  /\ locked = 0..StackSize
  /\ rc = [f \in Frames |-> IF f \in 1..StackSize THEN 1 ELSE 0]
  /\ data = [f \in Frames |-> Zero]
  /\ call = [p \in Procs |-> IF p = 1 THEN InUser ELSE [InUser EXCEPT !.at = "none"]]
  /\ entries = 0

-----------------------------------------------------------------------------
(* The page frame allocator, as these callers use it.                      *)

\* RequestPage: the lowest free frame, or frame 0 when there is none.
Free == Frames \ locked
Requested == IF Free = {} THEN 0 ELSE Min(Free)
Take(f) == /\ locked' = locked \cup {f}
           /\ rc' = IF f = 0 THEN rc ELSE [rc EXCEPT ![f] = 1]

\* Mutant: the last reference but one already frees the frame.
DecreaseReferenceCountEarly(f) ==
  /\ rc' = [rc EXCEPT ![f] = IF @ > 0 THEN @ - 1 ELSE 0]
  /\ locked' = IF rc[f] <= 2 /\ f # 0 THEN locked \ {f} ELSE locked
  /\ UNCHANGED data

\* DecreaseReferenceCount: counts down, frees at zero; FreePage ignores low memory.
\* What a free frame held is forgotten: whoever requests it fills it.
DecreaseReferenceCount(f) ==
  LET n == IF rc[f] > 0 THEN rc[f] - 1 ELSE 0
      freed == n = 0 /\ f # 0
  IN  /\ rc' = [rc EXCEPT ![f] = n]
      /\ locked' = IF freed THEN locked \ {f} ELSE locked
      /\ data' = IF freed THEN [data EXCEPT ![f] = Zero] ELSE data

\* GetFlag(Present), and SetFlag(Write), which leaves absent pages alone.
Present(p, v) == pt[p][v] # None
SetWrite(p, v, on) == IF Present(p, v) /\ on THEN writable \cup {<<p, v>>}
                      ELSE writable \ {<<p, v>>}

\* getPhysicalAddress gives 0 for a page that is not present.
Physical(p, v) == IF Present(p, v) THEN pt[p][v] ELSE 0

\* SetMapping copies the entry of page v of p to c.
SetMapping(c, v, p, w) ==
  /\ pt' = [pt EXCEPT ![c][v] = pt[p][v]]
  /\ writable' = IF <<p, v>> \in w THEN w \cup {<<c, v>>} ELSE w

\* MapMemory: present and writable.
MapMemory(p, v, f) ==
  /\ pt' = [pt EXCEPT ![p][v] = f]
  /\ writable' = writable \cup {<<p, v>>}

-----------------------------------------------------------------------------
(* mmap, munmap, mprotect, brk.                                            *)

\* Where sys_mmap puts n pages: the address asked for if MAP_FIXED or nothing is
\* there, else the next pages of the area (addr 0 is nullptr).
Collides(p, addr, n) == \E v \in addr..(addr + n - 1) : Present(p, v)
Fresh(p, addr, n, fixed) == addr = 0 \/ (~fixed /\ Collides(p, addr, n))

Mmap(p, addr, n, fixed) ==
  /\ Issue(p, "mmap")
  /\ addr..(addr + n - 1) \subseteq Addrs \/ addr = 0
  /\ IF Fresh(p, addr, n, fixed)
     THEN /\ rmap[p] + n <= RmapSize
          /\ rmap' = [rmap EXCEPT ![p] = @ + n]
          /\ call' = [call EXCEPT ![p] =
                Loop("mmap", RmapBase + rmap[p], RmapBase + rmap[p] + n - 1)]
     ELSE /\ call' = [call EXCEPT ![p] = Loop("mmap", addr, addr + n - 1)]
          /\ UNCHANGED rmap
  /\ UNCHANGED <<pt, writable, vm, brk, locked, rc, data>>

\* A page that is there loses its frame and its mark; its entry stays for now.
MmapDrop(p) ==
  /\ At(p) = "mmap"
  /\ LET v == call[p].page
     IN  IF Present(p, v)
         THEN /\ DecreaseReferenceCount(pt[p][v])
              /\ vm' = [vm EXCEPT ![p][v] = {}]
         ELSE UNCHANGED <<rc, locked, data, vm>>
  /\ call' = [call EXCEPT ![p].at = "mmapMap"]
  /\ UNCHANGED <<pt, writable, brk, rmap, entries>>

MmapMap(p) ==
  /\ At(p) = "mmapMap"
  /\ LET v == call[p].page  f == Requested
     IN  /\ Take(f)
         /\ data' = [data EXCEPT ![f] = Zero]
         /\ MapMemory(p, v, f)
         /\ vm' = [vm EXCEPT ![p][v] = OwnFlags]
  /\ call' = [call EXCEPT ![p] = Advance(p, "mmap")]
  /\ UNCHANGED <<brk, rmap, entries>>

\* sys_unmap, one page at a time, skipping those that are not present.
Unmap(p, addr, n) ==
  /\ Issue(p, "munmap")
  /\ addr..(addr + n - 1) \subseteq Addrs
  /\ call' = [call EXCEPT ![p] = Loop("unmap", addr, addr + n - 1)]
  /\ UNCHANGED <<pt, writable, vm, brk, rmap, locked, rc, data>>

UnmapDrop(p) ==
  /\ At(p) = "unmap"
  /\ LET v == call[p].page
     IN  IF ~Present(p, v)
         THEN /\ call' = [call EXCEPT ![p] = Advance(p, "unmap")]
              /\ UNCHANGED <<vm, rc, locked, data>>
         ELSE /\ vm' = [vm EXCEPT ![p][v] = {}]
              /\ DecreaseReferenceCount(pt[p][v])
              /\ call' = [call EXCEPT ![p].at = "unmapClear"]
  /\ UNCHANGED <<pt, writable, brk, rmap, entries>>

UnmapClear(p) ==
  /\ At(p) = "unmapClear"
  /\ pt' = [pt EXCEPT ![p][call[p].page] = None]
  /\ writable' = writable \ {<<p, call[p].page>>}
  /\ call' = [call EXCEPT ![p] = Advance(p, "unmap")]
  /\ UNCHANGED <<vm, brk, rmap, locked, rc, data, entries>>

\* sys_mprotect returns at the first page that is not there. The new flags of a
\* page do not include VM_PENDING_COW.
Mprotect(p, addr, n, prot) ==
  /\ Issue(p, "mprotect")
  /\ addr..(addr + n - 1) \subseteq Addrs /\ Settled(p, addr..(addr + n - 1))
  /\ call' = [call EXCEPT ![p] = [Loop("mprotect", addr, addr + n - 1) EXCEPT !.prot = prot]]
  /\ UNCHANGED <<pt, writable, vm, brk, rmap, locked, rc, data>>

MprotectPage(p) ==
  /\ At(p) = "mprotect"
  /\ LET v == call[p].page  w == "w" \in call[p].prot
     IN  IF ~Present(p, v)
         THEN /\ call' = [call EXCEPT ![p] = InUser]
              /\ UNCHANGED <<writable, vm>>
         ELSE /\ writable' = SetWrite(p, v, w)
              /\ vm' = [vm EXCEPT ![p][v] = {"us", "cow"} \cup (IF w THEN {"rw"} ELSE {})]
              /\ call' = [call EXCEPT ![p] = Advance(p, "mprotect")]
  /\ UNCHANGED <<pt, brk, rmap, locked, rc, data, entries>>

\* sys_brk only grows; n pages, one at a time, over whatever is mapped there.
Brk(p, n) ==
  /\ Issue(p, "brk")
  /\ brk[p] + n <= BrkSize
  /\ call' = [call EXCEPT ![p] = Loop("brk", BrkBase + brk[p], BrkBase + brk[p] + n - 1)]
  /\ UNCHANGED <<pt, writable, vm, brk, rmap, locked, rc, data>>

BrkPage(p) ==
  /\ At(p) = "brk"
  /\ LET v == call[p].page  f == Requested
     IN  /\ Take(f)
         /\ data' = [data EXCEPT ![f] = Zero]
         /\ vm' = [vm EXCEPT ![p][v] = OwnFlags]
         /\ MapMemory(p, v, f)
  /\ brk' = [brk EXCEPT ![p] = @ + 1]
  /\ call' = [call EXCEPT ![p] = Advance(p, "brk")]
  /\ UNCHANGED <<rmap, entries>>

-----------------------------------------------------------------------------
(* Memory accesses. A task that is not in the kernel reads and writes.     *)

Write(p, v, d) ==
  /\ At(p) = "user" /\ Present(p, v) /\ <<p, v>> \in writable
  /\ data' = [data EXCEPT ![pt[p][v]] = d]
  /\ UNCHANGED <<pt, writable, vm, brk, rmap, locked, rc, call, entries>>

\* task_t::write_memory: the kernel writes for a system call of p, through the
\* frame's kernel address; it looks at the User bit only.
KernelWrite(p, v, d) ==
  /\ Issue(p, "write_memory") /\ Settled(p, {v}) /\ Physical(p, v) # 0
  /\ data' = [data EXCEPT ![pt[p][v]] = d]
  /\ UNCHANGED <<pt, writable, vm, brk, rmap, locked, rc, call>>

\* PageFault on a write to a page that waits for its copy: a new frame with the
\* data, then the old one's reference, then the new mapping. Any other write
\* to a page that is not writable is a kernel panic; tasks here make none.
FaultCopy(p, v) ==
  /\ Enter(p) /\ <<p, v>> \notin writable
  /\ "pending" \in vm[p][v] /\ Physical(p, v) # 0
  /\ LET f == Requested
     IN  /\ Take(f)
         /\ data' = [data EXCEPT ![f] = data[pt[p][v]]]
         /\ call' = [call EXCEPT ![p] = [Loop("faultDrop", v, v) EXCEPT !.frame = f]]
  /\ UNCHANGED <<pt, writable, vm, brk, rmap>>

FaultDrop(p) ==
  /\ At(p) = "faultDrop"
  /\ DecreaseReferenceCount(pt[p][call[p].page])
  /\ call' = [call EXCEPT ![p].at = "faultMap"]
  /\ UNCHANGED <<pt, writable, vm, brk, rmap, entries>>

\* Mutant: the old frame stays mapped.
FaultMapOld(p) ==
  /\ At(p) = "faultMap"
  /\ LET v == call[p].page
     IN  /\ MapMemory(p, v, pt[p][v])
         /\ vm' = [vm EXCEPT ![p][v] = @ \ {"pending"}]
  /\ call' = [call EXCEPT ![p] = InUser]
  /\ UNCHANGED <<brk, rmap, locked, rc, data, entries>>

\* MapMemory makes the page writable whether or not the tracker says RW.
FaultMap(p) ==
  /\ At(p) = "faultMap"
  /\ LET v == call[p].page
     IN  /\ MapMemory(p, v, call[p].frame)
         /\ vm' = [vm EXCEPT ![p][v] = @ \ {"pending"}]
  /\ call' = [call EXCEPT ![p] = InUser]
  /\ UNCHANGED <<brk, rmap, locked, rc, data, entries>>

-----------------------------------------------------------------------------
(* fork and exit.                                                          *)

\* The loops over the tracker's areas visit the tracked pages in order; page
\* NPages + 1 is the end of the list.
NextTracked(flags, v) == Min({w \in Pages : w >= v /\ flags[w] # {}} \cup {NPages + 1})

\* fork_process: _create_task_structure gives the child a stack, mapped in the
\* kernel's own table because the child has none yet (nothing refers to those
\* frames again), and marks it in the child's tracker; ClonePTM first copies
\* the parent's marks.
ForkStart(p, c) ==
  /\ Issue(p, "fork")
  /\ At(c) = "none" /\ \A q \in 1..(c - 1) : At(q) # "none"
  /\ LET taken == {f \in Free : Cardinality({g \in Free : g < f}) < StackSize}
     IN  /\ locked' = locked \cup taken
         /\ rc' = [f \in Frames |-> IF f \in taken THEN 1 ELSE rc[f]]
  /\ vm' = [vm EXCEPT ![c] = [v \in Pages |-> IF vm[p][v] # {} THEN vm[p][v]
                                              ELSE IF v \in Stack THEN StackFlags ELSE {}]]
  /\ brk' = [brk EXCEPT ![c] = brk[p]] /\ rmap' = [rmap EXCEPT ![c] = rmap[p]]
  /\ call' = [call EXCEPT ![p] = [Loop("fork", NextTracked(vm[p], 1), NPages) EXCEPT !.child = c],
                          ![c].at = "new"]
  /\ UNCHANGED <<pt, writable, data>>

\* Mutant: the parent's entry stays writable.
ForkPageWritable(p) ==
  /\ At(p) = "fork" /\ call[p].page <= NPages
  /\ LET v == call[p].page
         c == call[p].child
         nflags == vm[p][v] \cup {"pending"}
     IN  /\ vm' = [vm EXCEPT ![p][v] = nflags, ![c][v] = nflags]
         /\ SetMapping(c, v, p, writable)
         /\ rc' = [rc EXCEPT ![Physical(p, v)] = @ + 1]
         /\ call' = [call EXCEPT ![p].page = NextTracked(vm[p], v + 1)]
  /\ UNCHANGED <<brk, rmap, locked, data, entries>>

\* ClonePTM's loop over the parent's pages. A copy-on-write page becomes
\* read-only and pending in both; any other is shared as it is.
ForkPage(p) ==
  /\ At(p) = "fork" /\ call[p].page <= NPages
  /\ LET v == call[p].page
         c == call[p].child
         cow == "cow" \in vm[p][v]
         nflags == IF cow THEN vm[p][v] \cup {"pending"} ELSE vm[p][v]
     IN  /\ vm' = [vm EXCEPT ![p][v] = nflags, ![c][v] = nflags]
         /\ SetMapping(c, v, p, IF cow THEN SetWrite(p, v, FALSE) ELSE writable)
         /\ rc' = [rc EXCEPT ![Physical(p, v)] = @ + 1]
         /\ call' = [call EXCEPT ![p].page = NextTracked(vm[p], v + 1)]
  /\ UNCHANGED <<brk, rmap, locked, data, entries>>

ForkReady(p) ==
  /\ At(p) = "fork" /\ call[p].page > NPages
  /\ call' = [call EXCEPT ![p] = InUser, ![call[p].child] = InUser]
  /\ UNCHANGED <<pt, writable, vm, brk, rmap, locked, rc, data, entries>>

\* task_t::exit changes the flags of what it takes for the stack: user_stack_top
\* is the address of the stack's last page, so the range is one page too low.
Exit(p) ==
  /\ Issue(p, "exit")
  /\ LET flags == [v \in Pages |-> IF v \in (NPages - StackSize)..(NPages - 1) THEN {"us", "rw"}
                                   ELSE vm[p][v]]
     IN  /\ vm' = [vm EXCEPT ![p] = flags]
         /\ call' = [call EXCEPT ![p] = Loop("exit", NextTracked(flags, 1), NPages)]
  /\ UNCHANGED <<pt, writable, brk, rmap, locked, rc, data>>

\* vm_tracker_t::exit: every tracked page gives its reference back; the pages of
\* the table itself come last, and with them the entries are gone.
ExitPage(p) ==
  /\ At(p) = "exit"
  /\ LET v == call[p].page
         next == NextTracked(vm[p], v + 1)
     IN  /\ DecreaseReferenceCount(Physical(p, v))
         /\ vm' = [vm EXCEPT ![p][v] = {}]
         /\ IF next <= NPages
            THEN /\ call' = [call EXCEPT ![p].page = next]
                 /\ UNCHANGED <<pt, writable>>
            ELSE /\ call' = [call EXCEPT ![p] = [InUser EXCEPT !.at = "dead"]]
                 /\ pt' = [pt EXCEPT ![p] = [w \in Pages |-> None]]
                 /\ writable' = {r \in writable : r[1] # p}
  /\ UNCHANGED <<brk, rmap, entries>>

-----------------------------------------------------------------------------
Next == \E p \in Procs :
  \/ \E addr \in 0..NPages, n \in 1..MaxLength :
       \/ \E fixed \in BOOLEAN : Mmap(p, addr, n, fixed)
       \/ Unmap(p, addr, n)
       \/ \E prot \in SUBSET {"w"} : Mprotect(p, addr, n, prot)
  \/ \E n \in 1..BrkSize : Brk(p, n)
  \/ \E v \in Pages : FaultCopy(p, v) \/ \E d \in Data \ {Zero} : Write(p, v, d) \/ KernelWrite(p, v, d)
  \/ \E c \in Procs : ForkStart(p, c)
  \/ MmapDrop(p) \/ MmapMap(p) \/ UnmapDrop(p) \/ UnmapClear(p) \/ MprotectPage(p)
  \/ BrkPage(p) \/ FaultDrop(p) \/ FaultMap(p)
  \/ ForkPage(p) \/ ForkReady(p) \/ Exit(p) \/ ExitPage(p)

Spec == Init /\ [][Next]_vars

-----------------------------------------------------------------------------
(* Properties.                                                             *)

\* The handler of p has given back the frame of v and not changed its entry yet.
Leaving(p, v) == At(p) \in {"mmapMap", "unmapClear", "faultMap"} /\ call[p].page = v

\* The references to f: entries of live tables, and the copies of page faults.
References(f) ==
  {r \in Procs \X Pages :
     /\ pt[r[1]][r[2]] = f /\ ~Leaving(r[1], r[2])
     /\ At(r[1]) \in {"exit", "dead"} => vm[r[1]][r[2]] # {}}
Copies(f) == {p \in Procs : At(p) \in {"faultDrop", "faultMap"} /\ call[p].frame = f}

\* Nothing is freed while it is mapped: a frame some process refers to is in use
\* and its count is the number of references, whatever faults, forks and exits
\* of the sharing processes come between each other's steps.
MappedIsCounted ==
  \A f \in Frames \ {0} :
    LET n == Cardinality(References(f)) + Cardinality(Copies(f))
    IN  n > 0 => f \in locked /\ rc[f] = n

\* A frame a process can write is mapped nowhere else (copy on write: ClonePTM
\* makes shared pages read-only, PageFault gives the writer its own copy).
WritableIsPrivate ==
  \A r \in writable : At(r[1]) = "user" =>
    \A q \in Procs, w \in Pages :
      /\ pt[q][w] = pt[r[1]][r[2]] /\ ~Leaving(q, w)
      /\ At(q) \notin {"exit", "dead"}
      => <<q, w>> = r

\* The first process and its children exist in a memory of their own.
Seen(p, v) ==
  IF At(p) \in {"none", "new", "exit", "dead"} THEN Unmapped
  ELSE IF call[p].page = v /\ At(p) \in {"mmapMap", "unmapClear"} THEN Unmapped
  ELSE IF call[p].page = v /\ At(p) \in {"faultDrop", "faultMap"} THEN data[call[p].frame]
  ELSE IF pt[p][v] = None THEN Unmapped ELSE data[pt[p][v]]

Abstract == INSTANCE PrivateMemory WITH
  mem <- [p \in Procs |-> [v \in Pages |-> Seen(p, v)]]

\* Each process sees a memory of its own: sharing frames after fork and copying
\* them on a page fault shows in no process's data.
Implements == Abstract!Spec
=============================================================================
