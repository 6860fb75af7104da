# A TLA+ verification of the dioOS kernel

dioOS is a small SMP x86-64 kernel in C++ (`src/kernel`). It has no tests and no
design documents; what the code promises is in its comments and in how its parts
use each other. This project models the parts that carry the kernel's own logic,
checks them with TLC on small instances and proves the main results with TLAPS
for every size.

## The system

| Part | State | Operations | Talks to |
|---|---|---|---|
| Task scheduler (`scheduling/task_scheduler`) | the task list and, per task, state, previous state, slice, block type, deadline, process ids; per CPU the current task | timer tick, swap, block, sleep, wake, create, exit | everything that blocks |
| Process calls (`syscalls/process`) | none of their own | fork, vfork, execve, wait4, exit_group, nanosleep, setpgid | scheduler, address spaces, descriptors |
| Input events (`events.cpp`, `drivers/ps2`) | a ring of 64 events per node | write (interrupt handler), read (blocks) | scheduler's wake-ups |
| Page frame allocator (`paging/PageFrameAllocator.cpp`) | per frame LOCKED and an 8-bit reference count; statistics | request, free, count up, count down | heap, page tables, stacks, drivers |
| Kernel heap (`memory/heap.cpp`) | a doubly linked list of segments | malloc, free, expand | page frame allocator |
| Address spaces (`paging/PageTableManager.cpp`, `interrupts/exceptions.cpp`, `syscalls/memory`) | page tables with copy-on-write marks | map, unmap, protect, clone, page fault | frame allocator, VM tracker |
| VM tracker (`vm_tracker.cpp`) | a list of intervals with flags | mark, remove with trimming, change flags | mmap, exit |
| Descriptors and pipes (`task_scheduler.cpp`, `helpers/pipes.cpp`) | per task a list of descriptors; per pipe a buffer and its two ends | open, close, dup, read, write | VFS, scheduler (yield) |
| VFS and memfs (`filesystem/vfs`, `memfs`) | the node tree with reference counts | resolve, open, close, mkdir, unlink, mount | file systems |
| ext2, FAT32 | bitmaps, inodes, cluster chains on disk | allocate, extend, truncate, directory entries | block devices |
| Block devices (`drivers/storage`) | queues and command slots | submit, poll for completion | frame allocator |
| Locks (`scheduling/{spinlock,semaphore,mutex}`) | a word, a count, an owner | lock, unlock, wait, post | scheduler |

What is hard here: system calls run with interrupts on, so they are preempted
anywhere; the scheduler state of one task is written by its own CPU, by other
CPUs and by interrupt handlers; "look, unlock, block" sequences; `exit()` takes
a task apart that other CPUs can see; frames, nodes and pipes are shared and
counted; memory and disks run out; several tasks wait on one device queue; files
and directories are changed through copies that nothing locks, on a disk that may
lose power at any moment. `PROJECT.json` lists
the hazards at their lines.

## Modules

`Scheduler.tla` is the scheduler with the calls that change task states. A list
walk under `task_list_lock`, which also turns interrupts off, is one step; what the
code does outside such sections is split into steps that anything can come
between. `pc` and `arg` are a task's place inside its system call.

| Model | Code |
|---|---|
| `Tick` | `apic_timer_handler_cpp` (advances the clock on the first CPU) and `scheduler_tick` |
| `ExecuteNextTask`: `SaveTask`, `CanRun`, `GetFreeTask`, `Reset...`, `Choose` | `_execute_next_task` and the functions it calls, up to the unlock |
| `RunTask` | `_run_task`: until it has run, the CPU still uses the old task's stack (`on`) though the new task is RUNNING (`next`) |
| `SwapTasks`, `Block`, `SleepDeadline`/`SleepBlock` | `_swap_tasks`, `Block`, `ScheduleFor` (its two writes) |
| `ForkProcess`, `MarkReady`, `VforkBlock` | `fork_process`, `mark_ready`, `sys_vfork` |
| `WaitEnter`, `WaitScan`, `WaitBlock`, `Reap` | `sys_wait4` |
| `ExitEnter`, `ExitZombie`, `ExitFree`, `ExitWake`, `ExitLeave` | `exit_group`, `exit_process`, `task_t::exit` (interrupts off) |
| `KeyWrite`, `KeyWake`, `EventRead`, `EventBlock` | keyboard handler with `event_node_t::write`, and `event_node_t::read` |

The deadline `until` is kept as ticks left, so that time needs no unbounded
clock; -1 means passed. The block type MEMORY_NON_ZERO of the semaphore is not
part of the model yet. `Calls` selects the system calls tasks issue, so that a
run can ask what holds without some of them.

`PageFrameAllocator.tla` has one action per operation of the allocator.
`DecreaseReferenceCount` is two: the count changes under the entry's lock, the
free comes after it. `refs` is what the callers believe they hold. A request
without memory gives its caller frame 0, as the code's `physical_to_virtual(0)`
does. Entry `TotalPages`, one past the table, exists because the bounds checks
admit it; what it holds at the start is arbitrary. Its specification is
`Initialize`, `FrameNext` and `FrameSpec`, named apart from `VmTracker`'s because
one module proves about both.

`Heap.tla` has the segment list as a value and `split`, the two merges and
`ExpandHeap` as operators on it; `malloc` and `free` are actions. The unit is 16
bytes. `Allocation.tla` is the specification callers rely on; `Heap`'s
`Implements` is the refinement. `SparePages` bounds the growth of an instance and is no
limit of the code's: when the frames have run out, `ExpandHeap` does not stop at its
`page == nullptr` (line 129), since `RequestPage` gives it the address of frame 0, which it
maps at the end of the heap as any other, after clearing it. What callers then find is
the subject of `OutOfMemoryIsSeen` of `PageFrameAllocator`; `Heap` grows only while the pages
that `ExpandHeap` asks for are there.

`AddressSpace.tla` is the memory of processes. A page table is a function from pages
to frames with a set of writable entries, the tracker a map from pages to flags.
Only a task itself changes its table, but frames are shared between tasks, so
every handler is split where it takes or gives back a frame.

| Model | Code |
|---|---|
| `Mmap`, then `MmapDrop`, `MmapMap` per page | `sys_mmap`: the old frame's count and mark, then the new frame, mapping and mark |
| `Unmap`, `UnmapDrop`, `UnmapClear` | `sys_unmap`: count down, then clear the entry |
| `Mprotect`, `MprotectPage`; `Brk`, `BrkPage` | `sys_mprotect`, `sys_brk` |
| `FaultCopy`, `FaultDrop`, `FaultMap` | `PageFault` on a copy-on-write page: new frame with the data, old count, new mapping |
| `KernelWrite` | `task_t::write_memory`, the kernel's writes for system calls |
| `ForkStart`, `ForkPage`, `ForkReady` | `fork_process` and `ClonePTM`'s loop |
| `Exit`, `ExitPage` | `task_t::exit`'s memory part and `vm_tracker_t::exit` |

A fault that ends in a kernel panic is not a step of the model. The frames that
hold page tables, and the levels of a table, are left out. What a free frame
held is forgotten, since whoever requests one fills it. A request without memory
gives frame 0 as in the code; the instances have enough frames that it does not
happen; what it does is the subject of `PageFrameAllocator`. `PrivateMemory.tla` is the
abstract specification: each process has a memory of its own, fork copies it,
and nothing else of a process shows in another.

`VmTracker.tla` is the tracker's list itself: `MarkAllocation`, `RemoveAllocation`,
`ChangeFlags`, `CopyVmm` and the list work of `ClonePTM` as operators, and next to it
the map of flags that the calls ask for (`asked`). It justifies `AddressSpace`'s use of
a plain map for the tracker. `mark_allocation` does not look whether a page is marked already,
and leaves that to its callers: `mmap` removes the old mark first, but `brk` marks
whatever follows its end, where a fixed `mmap` may be (`brk.cpp:17`), and `load_header` of
`elf.cpp` (168-195) marks the last page of a segment again when the next one starts in it. The run
and the proofs are about marks of unmarked pages (`Markable`).

`Pipes.tla` is descriptors and pipes. A descriptor list is a count per node; the
node's `ref_count`, the pipe's 8-bit `ref_cnt` and the two end pointers are kept
apart as in the code, and closing is three steps.

| Model | Code |
|---|---|
| `PipeCall`; `Dup`, `Dup2Close`, `Dup2Open` | `create_pipe` with `pipe`, `pipe2`; `sys_dup`, `F_DUPFD`, `sys_dup2` |
| `CloseBegin`, `CloseEnd`, `CloseFree` | `close_fd` with the count of `vnode_t::close`; `v_close` under the pipe's lock; the deletes |
| `Fork`, `ForkOpen`, `ForkCount`, `ForkReady` | `fork_process`'s loop: `vnode_t::open`, then `v_open` and `open_node` |
| `Execve`; `Exit`, `ExitClose`, `ExitDone` | `clone_for_execve`'s copy without `open()`; `task_t::exit` |
| `ReadCall`, `ReadWake`, `ReadCopy` | `sys_read`, the unlocked wait of `v_pipe_read`, its locked part |
| `WriteCall`, `WriteChunk` | `sys_write`, `v_pipe_write` |

`Nvme.tla` is the driver's I/O path. A byte stands for itself, its content for the
task that wrote it. The controller (`Fetch`, `Move`, `Complete`) is external: it works
on commands in any order, one logical block at a time, and may fail.

| Model | Code |
|---|---|
| `Request`, `Continue`, `Return` | `nvme_ns_vnode_read`, `nvme_ns_vnode_write` and the chunk loops |
| `CreatePrps`, `Lists`, `FreedPrps` | `create_prps`, `free_prps` |
| `Submit` | `_send_io_command` under `submission_lock` |
| `Look`, `Match`, `Advance`, `Wrap`, `Status` | its wait loop: address of the head, comparison, `head++`, wrap and doorbell, status after the unlock |

`BlockDevice.tla` is what file systems expect of a device node, and `Nvme`'s
`Implements` the refinement. The driver lays out its lists in pages of `PageSize`, the
largest that CAP.MPSMAX allows, and the controller walks them in pages of `Mps`, which is
what CC.MPS says. The driver leaves that field at 0 (4096 bytes), so that the two agree only on
controllers whose MPSMAX is 0: `PageAssumption` says so and `"mps"` in `Faults` lifts it.

`Ext2.tla` is the block and inode side of the ext2 driver. A block is `Words` words,
which are entries of an indirect block or data; data words name the file and
the logical block they were written for. `inodes` and `disk` are what the disk holds,
`copy` the inode a call works on in memory, so that a state with the copies taken away
is what a power failure leaves. One locked search or change of the bitmaps is a step, and so is
one write of a block. `SetRoot`, `SetTable` and `Grow` take the allocation of a block, its zeros and
the pointer to it for one step, since between them nobody else knows of the block, and a power failure
leaves a marked block that nothing names, as in the step before; `UnlinkEnd` takes the write of the inode
and `_free_inode` for one, since the inode is in no directory. Freeing a block and forgetting it are two
steps (`Shrink`, `Clear`), and others may have the block in between.

A block of the file system is taken to be one or several logical blocks of the disk, but an inode is a part
of one: `update_inode` writes at most 128 bytes, for which the disk's driver reads the logical block, changes
it and writes it back (`nvme.cpp:567-576`). Those are `SaveRead` and the `Save` of the call's
last step, and two tasks that save neighbouring inodes at once undo each other's work (`"rmw"`). Sizes wrap
at `SizeMod` in a write: `size_upper = end_pos << 32` (line 563) is always 0; the model is of volumes with
the large-file feature, without which `truncate` drops the upper half as well. Block 0 holds `Boot`, the
words of a boot record or a superblock, on which `_set_physical_block` works when it could not get a first indirect
block.

| Model | Code |
|---|---|
| `FreeBlock`, `AllocateBlock`, `FreeBlocks`, `FreeInode` | `_allocate_block`, `_free_block`, `_allocate_inode` |
| `Level`, `Path`, `GetPhysical` | `_get_physical_block` and its helpers |
| `SetRoot`, `SetTable`, `NoTable`, `SetEntry` | `_set_physical_block` with `_create_indirect_block` |
| `Load`, `RunLength` | `load_inode_contents` |
| `Write`, `WriteFound`, `WriteAllocate`, `WriteData`, `WriteEnd` | `write_inode_contents` |
| `Truncate`, `Shrink`, `Clear`, `Grow`, `TruncateEnd` | `truncate_inode` |
| `SaveRead`, and `Save` in the actions that end a call | `update_inode`, through the disk's write of part of a logical block |
| `Create`, `CreateInit`; `Unlink`, `UnlinkBlock`, `UnlinkTable`, `UnlinkEnd` | `create_file`; `ext2_vnode_unlink`, `free_inode_contents` |

`Directory.tla` is one directory: the entries in its blocks (`dir`), the VFS's child list
with `directory_cached`, and `find_file`, `creat` and `unlink` through both.
`NameMap.tla` is the abstract specification. Units are four bytes. The model is of
volumes with blocks of 4096 bytes; on smaller ones `directory_remove_entry` works on
four blocks at a time.

| Model | Code |
|---|---|
| `FindCached`, `FindLoad`, `FindMerge` | `vnode_t::find_file` and `read_dir` with `ext2_vnode_read_dir` |
| `AddRead`, `AddNoInode`, `AddWrite`, `AddNoSpace`, `AddStale` | `vnode_t::creat`, `create_file`, `directory_add_entry` |
| `RemoveRead`, `RemoveWrite`, `Forget` | `vnode_t::unlink`, `ext2_vnode_unlink`, `directory_remove_entry` |

`Nvme` justifies that `Ext2` and `Directory` read and write a whole block in one step (writes of parts of one
logical block are what its `Implements` leaves out, and `Ext2` has them in two steps), and `Ext2`
that `Directory` has its blocks to itself.

The constant `Faults` of these four modules and of `VmTracker` lets defects of the code loose, each named
where it acts. After some of them the program works on freed memory, or the
damage is such that every property falls. The runs leave them out, so that they show
what holds up to the first such defect; the section after the runs says what each
of them breaks.

`MC*.tla` give values to constants a `.cfg` cannot write. Operators commented
"Mutant" are faulty variants of the definition that follows them; nothing uses
them, and `PROJECT.json` pairs each with the property that must fail under it.
`TypeOK` in every module gives the types of its variables; it is proved for
`Scheduler`, `AddressSpace` and `Pipes` and holds on the instances of the other runs, which
check the deeper invariants only.

## Runs

Passing:

| Run | Instance | Shows |
|---|---|---|
| `sched_smp` | 2 CPUs, a pinned kernel thread, a process, one fork; yield, fork, exit, setpgid | `OneCpuPerTask`, `RunningIsHeld`, `ReadyBeforeRun`, `ListIsLiveTasks`, `TypeOK` |
| `sched_up` | 1 CPU, a process and a child; every call but setpgid, wait4 with every pid argument (a pid, any child, its own group, another group, which no child is in), slices of 2 ticks, sleeps of up to 2, 2 keys | `ExitOwnsTask`, `NoEarlyWake`, `ZombieForever` |
| `sched_fair` | 2 CPUs, 3 tasks, fairness | `NoStarvation` |
| `pfa_ops` | 7 frames with a hole, usable to the end; runs of up to 3, 5 references, 2 CPUs releasing | `HeldIsCounted`, `NoLeak` |
| `heap_ops` | headers of 2 units, pages of 5, 5 pages, requests of up to 6 | `Tiled`, `Coalesced`, `UsedIsSum`, `MallocSucceeds`, `Implements` |
| `mm_ops` | 3 processes, 5 pages (2 of brk, 1 for mmap, 2 of stack), 9 frames, 4 entries into the kernel; mprotect and kernel writes on pages that wait for no copy | `MappedIsCounted`, `WritableIsPrivate`, `Implements` (of `PrivateMemory`) |
| `vm_ops` | 5 user pages with a stack of 2, 2 page-table pages, all ranges and flags, unbounded calls, no page marked twice | `Disjoint`, `AnswersAsAsked` |
| `pipes_ops` | 2 tasks, 1 pipe, 3 descriptors each, every call, transfers of two windows, bad user buffers | `CountsAgree`, `UsesAreLive`, `NothingLeaks`, `InOrder`, `ReadyIsTrue`, `EofReaches` |
| `nvme_io` | 2 tasks, queues of 3, 3 logical blocks of 2 bytes in chunks of 2, pages of 1 byte, PRP lists of 2 entries, device errors | `OnceInFlight`, `PrpsCover`, `Implements` (of `BlockDevice`), `Returns` |
| `ext2_ops` | 2 tasks, 6 calls, 2 groups of 4 blocks of which 5 are free and of 2 inodes that share a logical block, files of up to 4 blocks: 1 direct, 2 single indirect, 1 double indirect; writes of the first two blocks and of the last, truncates to nothing and into the third block | `CountsAgree`, `NotShared`, `CrashSafe`, `NothingLeaks`, `ReadsBack` |
| `dir_ops` | 2 tasks, 3 names of two lengths, 2 inodes, 2 blocks, unbounded calls | `Tiles`, `OneEntry`, `CacheCoherent`, `Implements` (of `NameMap`) |

The bounds are chosen so that the cases the properties are about happen: more
tasks than CPUs and a task created while both run; a parent that waits before,
during and after its child's exit; deadlines longer and shorter than a slice;
a frame shared three times and released on two CPUs at once; requests that
fill, overrun and exhaust memory; a heap in which every split, merge with either
or both neighbours, and growth with a free and with a used last segment occurs (a run with one
page fewer already reaches every branch); a fork
of a fork, so that one frame has three owners, with page faults and exits of
all three inside each other's steps (the two forks leave two more entries, or
one fork three); a tracker list in which an area is cut at its start, its end and
in its middle, joined on either side, and overlaid by the child's stack during
fork; a pipe whose last two descriptors of either end are closed by two tasks at
once, with a reader inside; completion and submission queues that go round more
than once with commands in flight, requests of one and of two chunks, of two pages (PRP2) and of four (two lists; other sizes are
left to the proof), partial writes in two passes; a volume that is full at each point of a write and of a truncate, holes,
neighbouring and scattered blocks, hints at either group; directories with one full
block, with slack in the middle and removed first entries. `mm_ops`, `nvme_io`,
`ext2_ops`, `pipes_ops` and `dir_ops` may stop: their bounded calls run out, the last
task exits, or only a defect they leave out could come next.

Violated, a disagreement of the code with a comment in it (quoted in `PROJECT.json`):
`sched_two_cpus` finds that a task woken between `Block` and its swap runs on two CPUs.

More disagreements show in the same models without a run of their own:

* `NoLostChild` fails (1 CPU, `MaxPid = 2`, `Calls = {"fork", "wait", "exit"}`): a child exits
  between `wait4`'s scan and its block, and the parent sleeps for ever.
* `ZombieForever` fails once sleeps and process groups meet (1 CPU, 2 tasks, `MaxSleep = 1`,
  `Calls = {"setpgid", "sleep", "exit"}`): a sleeper killed through its group becomes
  runnable again when its deadline passes. On two CPUs sleeps alone are enough
  (`Calls = {"sleep", "exit"}`): a task woken between `Block` and its swap is on both CPUs,
  sleeps on one and exits on the other. Without either the property is proved
  (`ZombiesStayDead`).
* `OutOfMemoryIsSeen` fails (8 frames, `MaxRun = 1`, `MaxFailed = 1`): a request without memory
  returns the address of frame 0, while callers such as `sys_mmap` and `ExpandHeap` test for
  `nullptr`.
* `Implements` of `AddressSpace` fails when `Calls` of `mm_ops` gets `"pending"` in the place of
  `"mprotect"`: `write_memory` writes a frame that parent and child share, and the
  kernel's write for one shows in the other.
* `StackExclusive` fails on two CPUs with yields alone (`Calls = {"yield"}`): a task
  saved as PAUSED is started by a second CPU before the first has left its stack.
* `NoLostEvent` fails (`Calls = {"event"}`, one key) the way `NoLostChild` does.
* `NoStarvation` fails once `Pinned` holds the last task of `sched_fair`: a CPU without
  work keeps renewing the slices of the tasks ahead of the pinned one.
* `ExitOwnsTask` fails with 2 CPUs, 1 process and `Calls = {"fork", "wnohang", "exit"}`:
  `wait4` deletes a task that `exit()` on another CPU still uses.
* `NoZombieUser` fails with 1 CPU, 2 tasks and `Calls = {"setpgid", "exit"}`: after exiting
  another member of its group the caller's own `exit()` returns.
* `SleeperWakes` fails under `FairSpec` with 1 CPU, 2 tasks, `Calls = {"sleep"}` and
  `MaxSleep = 1`: a task preempted inside `ScheduleFor` past its deadline never wakes.
* `WritableIsPrivate` fails when `Calls` of `mm_ops` gets `"pending"` too: after fork,
  `mprotect(PROT_WRITE)` on a shared page makes it writable and forgets that it
  waits for its copy.
* Requests of pages can include frame `TotalPages`, which does not exist: the bounds
  checks compare with `>`.
* `Faults = {"remark"}` in `vm_ops`: `Disjoint` and `AnswersAsAsked` fail. A page marked twice has two
  areas, and the one that comes first in the list answers for it.
* `Faults = {"dup"}` in `pipes_ops`: `UsesAreLive` fails. `dup`, `dup2`, `fcntl` and `execve` make
  descriptors without `open()`; the close of one of two deletes the node of the other.
* `Faults = {"race"}` in `pipes_ops`: `UsesAreLive` fails. A second closer of a node deletes it
  between the first one's count and its `v_close`.
* `Faults = {"rmw"}` in `nvme_io`: `Implements` fails. Two partial writes of one logical block
  read it, and each writes the other's bytes back as they were.
* `Faults = {"lap"}` with `LbaSize = LbaCount = ChunkLbas = 1`, one range, no `DeviceErrors` and `MaxCalls = 3`:
  `Returns` and `OnceInFlight` fail. A waiting task holds the address of an entry for a whole lap of the
  queue and takes a later command's answer for its own, or reads a later one's status.
* `Faults = {"overrun"}` in `nvme_io`: `Implements` fails. While the head is one past the end, a waiting task
  compares with what lies behind the queue, and may take it for its answer.
* `Faults = {"sct"}` in `nvme_io`: `Implements` fails. The status is cut to its code (line 387), so an error
  whose code is 0, with another status code type, counts as success and nothing was moved.
* `Faults = {"mps"}` with `PageSize = 2` and `Mps = 1` in `nvme_io`: `PrpsCover` fails. The controller walks
  smaller pages than the driver has counted (lines 97, 293-297): a transfer of up to one of the driver's
  pages has no PRP2 (652), and longer ones name one of several pages. The list has room for
  `PAGE_SIZE` bytes (664, 713), of which `memset` clears `page_size` (670).
* `Faults = {"rmw"}` in `ext2_ops`: `NotShared`, `CrashSafe`, `NothingLeaks` and `ReadsBack` fail. Two
  tasks save two inodes of one logical block at once, and the later write brings the other file's inode
  back as it was: with freed blocks, or without those just allocated.
* `Faults = {"race"}` in `ext2_ops`: `CrashSafe` fails. Two tasks write one file through two copies
  of its inode; the last save forgets, or revives, the other's blocks.
* `Faults = {"garbage"}` in `ext2_ops`: `CrashSafe` fails. `_free_double_indirect` and
  `_free_triple_indirect` free the blocks named by a buffer they never filled.
* `Ranges` with `<<3, 1>>` in `ext2_ops`: `ReadsBack` fails. The first write to part of a new
  block leaves the rest of it as the last owner left it, inside the file.
* `Faults = {"race"}` in `dir_ops`: `OneEntry` and `CacheCoherent` fail. Two creats write the same
  block, or the same name twice; a look-up that read the disk before a creat marks
  the child list up to date after it.
* `Faults = {"dead"}` in `dir_ops`: `OneEntry` fails. The first entry of a block keeps its name
  when it is removed; the next unlink of that name finds it, and leaves the live entry with
  a freed inode.

Seen while modelling the file and device side. Part of the models: a write that leaves a file at 4 GiB or more drops the upper half of its size,
and its blocks behind the size that is left are never freed; without a first indirect block ext2 works on block
0; any close of a descriptor of an end, a forked copy too, clears the pipe's pointer to that end, so
that readers see the end of the file and writers `-EPIPE` early; two readers can
make one of them return 0 with a writer left; a read whose user buffer is bad has
taken its bytes out of the pipe; a write of ext2 that found no space still moves the
end of the file; blocks are lost when an indirect block cannot be had, when
`truncate` returns `-EIO`, and when a file with double indirect blocks is unlinked (`lost`);
a directory that cannot grow leaves an inode without a name. Outside them: `zero_buf` is freed
twice when a truncate runs out of space; `!blk->read(...)` takes negative errors
for success; preallocated directory blocks have entries of size 0, on which
`directory_add_entry` loops for ever; the wait for a completion turns interrupts on under its
callers' spinlocks, so that a preempted holder can leave its CPU spinning; a killed waiter
leaves its answer at the head of the completion queue for ever; `unlink` clears the node's parent
before its close, so the parent's reference is never given back.

Seen while modelling `AddressSpace` and `VmTracker`, and part of the models where they touch
their state: the stack that `fork_process` allocates for a child is mapped in the
kernel's table and never freed; `PageFault` makes a read-only page writable once
it has been copied; `mmap` without an address does not look at what a fixed
mapping put in its area; a child's tracker list may come out of fork unsorted,
which no reader of it minds.

Fairness (`FairSpec`): the timer of each CPU keeps firing, and the local APIC
holds its interrupt while interrupts are off, hence strong fairness of `Tick`; a
CPU goes on executing kernel code it is in (weak fairness of `RunTask` and
`Resume`); a handler that has started finishes (`KeyWake`). No task has to issue a
system call and nobody has to press a key. `Pipes` and `Nvme` assume of each task that is inside the
kernel that it goes on (weak fairness of its steps): a waiting reader gives the CPU up
and gets it back, which is `NoStarvation`, and a task in `hlt` is woken by the timer. Of the controller `Nvme`
assumes that it fetches what it is told of and works on every command. `Ext2` and
`Directory` state no fairness and no liveness.

## Proofs

Every theorem is for any values of the constants that satisfy the modules' `ASSUME`s (any
number of CPUs, tasks, frames, pages, pipes ...) and the hypotheses given here. A hypothesis
that is not about sizes is one the code needs: the violations listed above are what happens
without it.

`SchedulerProofs.tla`

| Theorem | States | Hypotheses |
|---|---|---|
| `SchedulerTypes`, `TaskListIntact` | `TypeOK`; `ListIsLiveTasks` | none |
| `NonBlockingOneCpu`, `NonBlockingRunningHeld` | `OneCpuPerTask`, `RunningIsHeld` | only the calls in `NonBlocking` (`sched_two_cpus` is the counterexample) |
| `ChildReadyBeforeRun` | `ReadyBeforeRun` | none |
| `SleepersNotWokenEarly` | `NoEarlyWake` | none |
| `ExitOwnsItsTask` | `ExitOwnsTask` | one CPU |
| `ZombiesStayDead` | `ZombieForever` | one CPU, no setpgid |

The invariants say which task each CPU holds in each phase of a switch, and that a task
held by a CPU is RUNNING, or dead and leaving (`Inv`); that a deadline and a block
type other than UNSPECIFIED never go together (`TimedIsPlain`); that `exit()`, which runs
with interrupts off, has the only CPU to itself, so that a zombie has been freed or its
`exit()` is just about to (`ExitInvariant`); and that a zombie has no deadline and was not
asleep when it died (`ZombieInvariant`), which is where one CPU and groups of one are needed:
`_reset_counters` gives a ZOMBIE with a passed deadline its old state back.

`MemoryProofs.tla`, the page frames: `FramesAreCounted` (`HeldIsCounted`) and `FramesAreNotLost` (`NoLeak`), for any
memory map, if at most `MaxShare < RefMod` references share a frame. The invariant
adds that a frame about to be freed has no references, that an unlocked frame
has none, and that the statistics are the number of unlocked frames corrected by the entry past the
table.

`HeapProofs.tla`: one lemma per operation of the list (`SplitSound`, `AbsorbSound`,
`WidenSound`, `GrowSound`, `TakeSound`, `ReleaseSound`) says that it keeps a chain a
chain and what it does to the segments in use. From them `HeapIntact` (`Tiled`),
`HeapCoalesced`, `HeapMallocSucceeds` (`MallocSucceeds`; pages must be longer than two headers, an
assumption of `Heap`, and the pages `ExpandHeap` asks for are there), `HeapUsedIsSum` (the payloads in use are a set of units, whose cardinality is the sum),
`HeapTypes` and `HeapImplements`, the refinement of `Allocation`.

`AddressSpaceProofs.tla`: `AddressSpaceTypes` and `MappedFramesAreCounted` (`MappedIsCounted`), without
hypotheses: also when memory runs out and with every call. `OwnInv` relates each
process's table, tracker and place in the kernel: what is mapped is tracked (`Tracked`), a
handler works on the pages it was given (`Inside`), a child under construction belongs
to one parent and has its pages up to the loop's place (`Family`). One lemma per action
says what it changes (`...Effect`), one that it keeps `OwnInv` (`Own...`), and one which entries it turns
from one frame to another (`...Turns`); the sets of references are then counted.

In the same module: `CopyOnWriteIsPrivate` (`WritableIsPrivate`) and `MemoryIsPrivate` (the
refinement of `PrivateMemory`), if `Calls` leaves out `"pending"` and `MemoryLeft` holds
throughout, that is, a request finds a frame. Both are necessary: `mprotect` forgets that
a page waits for its copy, `write_memory` writes the shared frame, and frame 0, which is
what a failed request returns, would be everyone's. `PrivateInv` adds to the counts that a
page that waits for no copy, and a fault's copy not yet mapped, is nobody else's (`Apart`), that what is
writable waits for no copy (`Cow`), and that frame 0 is nobody's (`NoZero`). `Apart` alone is
not inductive: that a frame requested is nobody's follows from the counts. The refinement goes
through the frame each process sees at a page (`Window`), which only `MmapDrop`, `MmapMap`,
`UnmapDrop`, writes, fork and exit change.

`MemoryProofs.tla`, the areas of a task: `TrackerTypes` (`TypeOK`), `AreasAreDisjoint` (`Disjoint`) and `ListAnswersAsAMap`
(`AnswersAsAsked`), if `Faults` does not have `"remark"`: pages that are marked are unmarked before. What a call does to the list is stated page by page: a page has no
area (`Without`), or one area with the flags `f` and no other (`Says`). Nothing is assumed of the order of
the areas and little of areas that overlap, because the list of a child does overlap itself between
`copy_vmm` and the end of `ClonePTM`. The invariant `Tracked` says that every page answers as it was asked
for, which gives `Disjoint`, too. The loops over the list are folds; the proofs
show once that a fold over `0..n` exists (`FoldIs`) and then go along it by the least index at which a claim
could fail (`LeastOf`), since the library's induction cannot be instantiated.

`PipesProofs.tla`: `PipeIsAQueue` (`InOrder`) and `PipeReadiness` (`ReadyIsTrue`), with every defect of
`Faults` let loose. The invariant adds the operands each call in
progress has (`Placed`) and that a pipe not yet made is empty.

In the same module: `CountsKept` (`CountsAgree`), with every defect let loose and every width of the
count; `NoUseAfterFree` (`UsesAreLive`), `NodesAndPipesFreed` (`NothingLeaks`) and `PipesTypes`, if
`Faults` is empty and the count cannot wrap (`NoWrap`: four opens for each possible
descriptor are fewer than `RefMod`). A count of descriptors summed over
tasks is the cardinality of a set of pairs (`Stack...`), which makes the sum provable
without induction. `OwnInv` says what a task in a call holds, `CountInv` adds the counts, and
`LiveInv` the lifetimes: a node with a descriptor has a complete `open()`, one task
at a time is in its `close()`, whoever will delete it closed the last descriptor, and
the same for pipes.

`DirectoryProofs.tla`: `OneEntryOfAName` (`OneEntry`), `ChildListIsTheDisk` (`CacheCoherent`),
`BlocksAreFull` (`Tiles`), `DirectoryIsAMap` (the refinement of `NameMap`) and `DirectoryTypes`
(`TypeOK`), for any number of tasks, names, inodes and blocks, if `Faults` is empty. Both defects are
necessary exclusions: with either `OneEntry` fails. What is left to prove is what look-ups
beside an unlink, and `creat` alone, do between reading and writing.
`Tiled` says a block has offsets that each entry's size leads from one to the next, `Sits` where a
live entry is, `Single` that it is the only one of its name and inode. `DirInv` adds what each task
has read that must still hold when it writes: the block in the buffer is the one on the disk with
one change (`Adding`, `Removing`), and what a merge has found is right except for a name whose
unlink is yet to take it out of the child list (`Knows`). Without this exception the invariant is
false: an entry leaves the disk one step before its node leaves the list. `Tiles` sums
sizes by recursion over the entries; the proof shows that the offsets solve the recursion's equation
and that nothing else does.

`Ext2Proofs.tla`, for any groups, files, tasks and calls:

| Theorem | States | Hypotheses |
|---|---|---|
| `FreeCountsKept`, `Ext2Types` | `CountsAgree`, `TypeOK` | `[]FollowsBlocks` |
| `BlocksNotShared`, `CrashLeavesFilesSafe`, `BlocksNotLeaked` | `NotShared`, `CrashSafe`, `NothingLeaks` | `[]FollowsBlocks`, `Faults` empty, `SizesFit` |
| `TwoLevelFiles` | these three, `CountsAgree` and `FollowsBlocks` | `Faults` empty, `SizesFit`, no triple indirect blocks (`TwoLevels`), zeros in block 0 |

`FollowsBlocks` says that no task takes a word of data for the number of an indirect block. It is no
formality: when `_set_physical_block` finds no space for the block of a root pointer, it goes on in block 0, and the
entry that one file's data block has got there may be read as an indirect block by a file with more
levels. With two levels, the driver then sets an entry in that block, which is nobody's; with three it
takes a word of its data for a block number. For files of two levels `TwoLevelFiles` therefore needs no such
hypothesis, if block 0 holds zeros at the start, as on a volume with blocks of 1024 bytes and no boot record. On
one with larger blocks it has the superblock, and an entry that falls on a word of it is followed as a block number: this
is a case of `FollowsBlocks` failing. The run `ext2_ops` has two levels, and a block 0 with data and a zero. That
`Faults` is empty is necessary for the second row: the violations are listed above. `SizesFit` says that no file
reaches 4 GiB (`SizeMod`), since a longer one loses the upper half of its size in a write, and its blocks
with it.

The invariant is `Sound`. `InOrder` is what holds whatever the tasks do to one another: types, where a call
may be (`Going`), and counts that are the numbers of clear bits (`Marks`). `Tidy(W)` is about positions,
which are a pointer of an inode or an entry of an indirect block below it: each position has
its block for itself, in the inodes on disk and in the copies the tasks work on (`Apart`, `Owned`); every
used block has a position, a task or block 0 that holds it (`Covered`), where `W` are the blocks that hang on
block 0; what lies behind the end of a file is known as lost or about to be freed (`Beyond`, `Astray`); and a
task in a call holds the block it has found or made (`Stands`, `Writes`, `Spare`). `RootsOnly`: pointers that no
logical block uses are 0. `Exact`: what a task has read of a logical block of inodes is still what the disk holds,
so that writing it back changes one inode only. A block that `truncate` has freed and still names is
excepted from its task's positions until `Clear` (`Parted`). `CrashSafe` alone is not inductive, since it says nothing of blocks that
a task has allocated and no inode names yet.
Each step changes the positions in one of four ways, and there is one lemma for each: it leaves them
(`SameStep`), puts a block at one (`PutStep`), gives some up (`ShedStep`), or hangs a block on block 0
(`LostStep`). `NotShared` and `CrashSafe` compare the numbers of blocks and of their roles; the last part of the module
(`Named`, `RolesOf`) shows that a block's role in a file is its position.

`NvmeProofs.tla`: `CommandsOnceInFlight` (`OnceInFlight`), for any number of tasks, queue sizes and laps, if
`Faults` has neither `"lap"` nor `"overrun"`, and `[]FreshIds`: a `command_id` is given out only while no task
waits under it. All three are needed. The 8-bit `command_id` comes round after 256 commands, and nothing
looks whether a slow one still has it; in the runs, it cannot come round. The invariant
`QueueInv` places every command (`Placed`), says which laps the phases of the completion entries are of
(`Phases`), that a task about to move the head has its answer there (`Found`), and that an entry a task looks at
that is no longer the head is not its answer (`Passed`). That the queues never overflow is not checked by the
code: it follows from fewer tasks than entries (`QueueAssumption`, `RoomIs`).
`NodeIsABlockDevice` (`Implements`): if `Faults` has neither `"rmw"` nor `"sct"` either, a namespace node is the block
device of `BlockDevice.tla`, for any disk, chunk size and requests. Its invariant `DeviceInv` stands on `QueueInv`.
A task's chunk lies within its request (`Asked`). The pages of a partial write hold what the disk holds around
the caller's bytes, in both passes (`Filled`), which needs that no other write to those blocks is in progress (`Alone`);
two writes of whole blocks may race, and then the same block is named by both. A task that has an answer of
success has no block left to move (`Told`), because blocks are moved only for commands without an answer. The
four steps the device sees are the call, the move of a block, the return, and nothing: the first pass of a partial
write moves blocks into memory that the caller never sees. The lemmas before it (`DivMod` to `BlocksAre`) are the
arithmetic of offsets, lengths and logical blocks, rounding included.
`ListsCoverTheTransfer` (`PrpsCover`): for every size of transfer, page and list, if driver and controller agree on
the page size (`"mps"` not in `Faults`), whatever the other faults and `FreshIds`. `create_prps`, `free_prps` and the controller each walk a chain of lists. Each walk is a
recursion with a measure that decreases, so it has a result (`RecursionIs`), and what holds of the last list, and of
a list if it does of the next, holds of all (`FromBehind`). From these come what the driver builds (`BuildIs`), what the
controller reads (`WalkIs`, `SeenIs`) and what is freed (`FreedIs`); the invariant `PrpsInv` ties them to the chunk of a
task.

Only model-checked:

* what needs fairness, since the prover does not handle liveness: `NoStarvation`,
  `SleeperWakes`, `EofReaches`, `Returns`;
* `ReadsBack` of `Ext2`: what a read finds depends on the runs of neighbouring blocks that `Load` follows and on
  what each block last held, as data or as a block of pointers.

## Not modelled, and the plan

Next, in this order:

1. `Sync`: semaphore and mutex over `ScheduleFor`, with the spinlock that a driver's `sti`
   opens; `EventRing`: the ring's indices and the unlocked copy.
2. `Paths`: path resolution, mounts and the reference counts of nodes with a parent, memfs;
   `Exec`: execve and vfork, whose child shares its parent's table but not its tracker.
3. `Fat32` (cluster chains), `Ahci` (command slots, whose `command_issue` and `interrupt_status` are
   changed without a lock), `Poll` and the terminal's line discipline.

Not modelled inside the modelled parts: descriptors of other nodes than pipes, their numbers and
offsets; NVMe's admin queue and initialisation; ext2's symbolic links, hard links,
`save_metadata`, mkdir, rmdir and I/O errors; `_allocate_blocks`, which nobody calls.

Out of reach or without state that steps contend for: hardware register
programming (APIC, HPET, PCI), boot, graphics, text formatting. `acpica`, `printf.c`,
`minidbg` and `setup` are third-party code; with the Linux headers under `setup/include` they
are more than nine tenths of the repository's lines. The kernel's own code is fewer than
30000 lines, headers included, and the models are of its parts that decide something.
