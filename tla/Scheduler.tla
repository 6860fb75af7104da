------------------------------ MODULE Scheduler ------------------------------
(***************************************************************************)
(* The preemptive SMP task scheduler of the kernel                         *)
(* (scheduling/task_scheduler/task_scheduler.cpp) with the system calls    *)
(* that change task states: fork, vfork, wait4, exit_group, nanosleep,     *)
(* setpgid, a blocking read of an input event node, and the plain yield of *)
(* a pipe read.                                                            *)
(*                                                                         *)
(* Every task list walk runs with task_list_lock held and interrupts off,  *)
(* so it is one step; what the code does between two such walks, with      *)
(* interrupts on, is a step of its own that ticks, key presses and the     *)
(* other CPUs can come before.                                             *)
(***************************************************************************)
EXTENDS Integers, Sequences, FiniteSets

CONSTANTS
  CPUs,          \* the processors that run the scheduler
  BSP,           \* the first local APIC: its ticks are the clock
  MaxPid,        \* pids are 1..MaxPid: bounds the number of forks
  NInit,         \* tasks 1..NInit are on the list at the start
  Kernel,        \* those of them that are kernel threads (is_krnl)
  Pinned,        \* those of them that may run on the BSP only (affinity 1)
  DefaultCount,  \* TASK_SCHED_DEFAULT_COUNT
  MaxSleep,      \* the longest sleep, in ticks
  MaxKeys,       \* bounds the key presses of a behaviour
  WaitArgs,      \* pid arguments of wait4
  Calls          \* the system calls the tasks issue

Tasks == 1..MaxPid
InitTasks == 1..NInit
None == 0                    \* nullptr
Idle == MaxPid + 1           \* the CPU's idle task, and its boot context
AnyChild == -1
Groups == {-g : g \in 2..MaxPid}   \* how wait4 names a process group
WaitPids == Tasks \cup {AnyChild, 0} \cup Groups

AllCalls == {"yield", "fork", "vfork", "wait", "wnohang", "exit", "sleep",
             "event", "setpgid"}

ASSUME SchedulerConstants ==
  /\ BSP \in CPUs
  /\ MaxPid \in Nat \ {0} /\ NInit \in Tasks
  /\ Kernel \subseteq InitTasks /\ Pinned \subseteq InitTasks
  /\ DefaultCount \in Nat \ {0}
  /\ MaxSleep \in Nat /\ MaxKeys \in Nat
  /\ WaitArgs \subseteq WaitPids
  /\ Calls \subseteq AllCalls

VARIABLES
  list,      \* task_list, in list order
  tstate,    \* task_state
  prevst,    \* previous_state
  ready,     \* is_ready
  counter,   \* ticks left of the time slice
  btype,     \* block_type
  bctx,      \* block_context
  until,     \* schedule_until, as ticks left: NoDeadline, or -1 once passed
  ppid, pgid,
  freed,     \* stacks, address space and FPU area given back by exit()
  deleted,   \* task_t structures deleted
  currentPid,\* the next pid to hand out
  current,   \* per CPU: local->current_task
  next,      \* per CPU: the task chosen, while _run_task has not started it
  on,        \* per CPU: the task whose code and stack the CPU uses
  pc, arg,   \* per task: place in its system call, and the call's operand
  events,    \* events unread in the ring of /dev/input/event0
  keys,      \* keys pressed so far
  irq        \* the keyboard handler has written an event, not yet woken readers

sched == <<list, tstate, prevst, ready, counter, btype, bctx, until>>
procs == <<ppid, pgid, freed, deleted, currentPid>>
cpus  == <<current, next, on>>
calls == <<pc, arg>>
input == <<events, keys, irq>>
vars  == <<sched, procs, cpus, calls, input>>

NoDeadline == MaxSleep + 1   \* schedule_until = 0
Expired == -1

TaskStates == {"STOPPED", "RUNNING", "PAUSED", "BLOCKED", "ZOMBIE"}
BlockTypes == {"UNSPECIFIED", "WAIT_FOR_CHILD", "WAITING_ON_EVENT"}

ExitSteps == {"exit_next", "exit_free", "exit_wake", "exit_leave"}
PCs == {"user", "fork", "vfork", "vfork_block", "sleep_block",
        "swap", "swap_wait", "swap_event", "wait", "wnohang", "wait_block",
        "reap", "event", "event_block", "exited"} \cup ExitSteps

Range(s) == {s[i] : i \in DOMAIN s}
Allowed(t, c) == t \in Pinned => c = BSP     \* affinity & (1 << cpu_id)

SchedTypes ==
  /\ list \in Seq(Tasks)
  /\ tstate \in [Tasks -> TaskStates] /\ prevst \in [Tasks -> TaskStates]
  /\ ready \in [Tasks -> BOOLEAN] /\ counter \in [Tasks -> 0..DefaultCount]
  /\ btype \in [Tasks -> BlockTypes]
  /\ bctx \in [Tasks -> WaitPids]
  /\ until \in [Tasks -> Expired..NoDeadline]

ProcTypes ==
  /\ ppid \in [Tasks -> Tasks \cup {0}] /\ pgid \in [Tasks -> Tasks]
  /\ freed \in SUBSET Tasks /\ deleted \in SUBSET Tasks
  /\ currentPid \in 1..(MaxPid + 1)

CpuTypes ==
  /\ current \in [CPUs -> Tasks \cup {None, Idle}]
  /\ next \in [CPUs -> Tasks \cup {None, Idle}]
  /\ on \in [CPUs -> Tasks \cup {Idle}]

CallTypes == pc \in [Tasks -> PCs] /\ arg \in [Tasks -> WaitPids]

InputTypes == events \in 0..MaxKeys /\ keys \in 0..MaxKeys /\ irq \in BOOLEAN

\* Every field of a task_t, of the CPU-local data and of the event ring holds
\* a value of its type.
TypeOK == SchedTypes /\ ProcTypes /\ CpuTypes /\ CallTypes /\ InputTypes

Init ==
  /\ list = [i \in 1..NInit |-> i]
  /\ tstate = [t \in Tasks |-> "STOPPED"] /\ prevst = [t \in Tasks |-> "STOPPED"]
  /\ ready = [t \in Tasks |-> t \in InitTasks]
  /\ counter = [t \in Tasks |-> DefaultCount]
  /\ btype = [t \in Tasks |-> "UNSPECIFIED"] /\ bctx = [t \in Tasks |-> 0]
  /\ until = [t \in Tasks |-> NoDeadline]
  /\ ppid = [t \in Tasks |-> 0] /\ pgid = [t \in Tasks |-> t]
  /\ freed = {} /\ deleted = {} /\ currentPid = NInit + 1
  /\ current = [c \in CPUs |-> None] /\ next = [c \in CPUs |-> None]
  /\ on = [c \in CPUs |-> Idle]
  /\ pc = [t \in Tasks |-> "user"] /\ arg = [t \in Tasks |-> 0]
  /\ events = 0 /\ keys = 0 /\ irq = FALSE

-----------------------------------------------------------------------------
(* Choosing the next task: _execute_next_task, under the list lock.        *)

\* Mutant: any current task is paused.
SaveTaskAlways(c) ==
  [t \in Tasks |-> IF t = current[c] THEN "PAUSED" ELSE tstate[t]]

\* Mutant: the state is left as it is.
SaveTaskNever(c) == tstate

\* _save_task: a RUNNING task becomes PAUSED, any other state is kept.
SaveTask(c) ==
  [t \in Tasks |->
     IF t = current[c] /\ tstate[t] = "RUNNING" THEN "PAUSED" ELSE tstate[t]]

\* Mutant: without the test for RUNNING.
CanRunElsewhere(t, c, st, cnt) ==
  ready[t] /\ st[t] \notin {"BLOCKED", "ZOMBIE"} /\ cnt[t] > 0 /\ Allowed(t, c)

\* Mutant: without the test of is_ready.
CanRunUnready(t, c, st, cnt) ==
  st[t] \notin {"RUNNING", "BLOCKED", "ZOMBIE"} /\ cnt[t] > 0 /\ Allowed(t, c)

\* The test _get_free_task makes on one list element.
CanRun(t, c, st, cnt) ==
  /\ ready[t]
  /\ st[t] \notin {"RUNNING", "BLOCKED", "ZOMBIE"}
  /\ cnt[t] > 0
  /\ Allowed(t, c)

\* _get_free_task returns t: the first list element that can run.
GetFreeTask(t, c, st, cnt) ==
  \E i \in DOMAIN list :
    /\ list[i] = t
    /\ CanRun(t, c, st, cnt)
    /\ \A j \in 1..(i - 1) : ~CanRun(list[j], c, st, cnt)

\* _get_free_task returns nullptr.
NoFreeTask(c, st, cnt) == \A t \in Range(list) : ~CanRun(t, c, st, cnt)

\* _reset_counters visits t.
Resets(t, c, st) == t \in Range(list) /\ st[t] # "RUNNING" /\ Allowed(t, c)

\* Its effect on task_state: a passed deadline restores the previous state.
\* (_should_unblock is false of every task: no caller blocks on a user address.)
ResetState(c, st, u) ==
  [t \in Tasks |->
     IF Resets(t, c, st) /\ u[t] = Expired
     THEN IF prevst[t] = "RUNNING" THEN "PAUSED" ELSE prevst[t]
     ELSE st[t]]

ResetUntil(c, st, u) ==
  [t \in Tasks |->
     IF Resets(t, c, st) /\ u[t] = Expired THEN NoDeadline ELSE u[t]]

\* Mutant: no new time slices.
ResetCounterNever(c, st, cnt) == cnt

\* Its effect on the time slices.
ResetCounter(c, st, cnt) ==
  [t \in Tasks |-> IF Resets(t, c, st) THEN DefaultCount ELSE cnt[t]]

\* next->task_state = RUNNING, and the lock is released.
Choose(t, c, st, cnt, u) ==
  /\ tstate' = [st EXCEPT ![t] = "RUNNING"]
  /\ counter' = cnt
  /\ until' = u
  /\ next' = [next EXCEPT ![c] = t]

ChooseIdle(c, st, cnt, u) ==
  /\ tstate' = st
  /\ counter' = cnt
  /\ until' = u
  /\ next' = [next EXCEPT ![c] = Idle]

ExecuteNextTask(c, cnt, u) ==
  LET st  == SaveTask(c)
      rst == ResetState(c, st, u)
      rcn == ResetCounter(c, st, cnt)
      run == ResetUntil(c, st, u)
  IN  /\ \/ \E t \in Tasks : GetFreeTask(t, c, st, cnt) /\ Choose(t, c, st, cnt, u)
         \/ /\ NoFreeTask(c, st, cnt)
            /\ \/ \E t \in Tasks : /\ GetFreeTask(t, c, rst, rcn)
                                   /\ Choose(t, c, rst, rcn, run)
               \/ /\ NoFreeTask(c, rst, rcn)
                  /\ ChooseIdle(c, rst, rcn, run)
      /\ UNCHANGED <<list, prevst, ready, btype, bctx, procs, current, on, input>>

\* Mutant: without the test for nullptr.
RunTaskNull(c) ==
  /\ current' = [current EXCEPT ![c] = next[c]]
  /\ on' = [on EXCEPT ![c] = next[c]]
  /\ next' = [next EXCEPT ![c] = None]
  /\ UNCHANGED <<sched, procs, calls, input>>

\* _run_task: the chosen task's registers and stack replace those in use.
RunTask(c) ==
  /\ next[c] # None
  /\ current' = [current EXCEPT ![c] = next[c]]
  /\ on' = [on EXCEPT ![c] = next[c]]
  /\ next' = [next EXCEPT ![c] = None]
  /\ UNCHANGED <<sched, procs, calls, input>>

-----------------------------------------------------------------------------
(* Interrupts.                                                             *)

\* Mutant: exit() leaves interrupts on.
InterruptsOnInExit(c) == next[c] = None /\ ~(irq /\ c = BSP)

\* exit() runs with interrupts off; so do the scheduler and the key handler.
InterruptsOn(c) ==
  /\ next[c] = None
  /\ on[c] \in Tasks => pc[on[c]] \notin ExitSteps
  /\ ~(irq /\ c = BSP)

\* tick_count of the first local APIC advances: deadlines come closer.
Aged(c) ==
  [t \in Tasks |->
     IF c = BSP /\ until[t] \notin {NoDeadline, Expired} THEN until[t] - 1 ELSE until[t]]

\* The slice of the current task after this tick.
Charged(c) ==
  [t \in Tasks |->
     IF t = current[c] /\ counter[t] > 0 THEN counter[t] - 1 ELSE counter[t]]

\* apic_timer_handler: count the tick, then scheduler_tick. The idle task is
\* never on the list, so its counter stays 0 after its first slice.
Tick(c) ==
  /\ InterruptsOn(c)
  /\ IF current[c] \in Tasks /\ Charged(c)[current[c]] > 0
     THEN /\ counter' = Charged(c) /\ until' = Aged(c)
          /\ UNCHANGED <<list, tstate, prevst, ready, btype, bctx,
                         procs, cpus, calls, input>>
     ELSE ExecuteNextTask(c, Charged(c), Aged(c)) /\ UNCHANGED calls

\* Mutant: the type of the block is not compared.
WakeAllBlockedTasks(type) ==
  tstate' = [t \in Tasks |->
               IF t \in Range(list) /\ tstate[t] = "BLOCKED" THEN "PAUSED" ELSE tstate[t]]

\* wake_blocked_tasks(WAITING_ON_EVENT)
WakeBlockedTasks(type) ==
  tstate' = [t \in Tasks |->
               IF t \in Range(list) /\ tstate[t] = "BLOCKED" /\ btype[t] = type
               THEN "PAUSED" ELSE tstate[t]]

\* The keyboard handler, on the BSP: event_node_t::write puts the event in
\* the ring under the ring's lock ...
KeyWrite ==
  /\ InterruptsOn(BSP) /\ keys < MaxKeys
  /\ keys' = keys + 1 /\ events' = events + 1 /\ irq' = TRUE
  /\ UNCHANGED <<sched, procs, cpus, calls>>

\* ... and then wakes the readers.
KeyWake ==
  /\ irq
  /\ irq' = FALSE
  /\ WakeBlockedTasks("WAITING_ON_EVENT")
  /\ UNCHANGED <<list, prevst, ready, counter, btype, bctx, until,
                 procs, cpus, calls, events, keys>>

-----------------------------------------------------------------------------
(* System calls: steps of the task t whose code runs on CPU c.             *)

At(t, c, place) ==
  /\ on[c] = t /\ next[c] = None /\ ~(irq /\ c = BSP)
  /\ pc[t] = place

Goto(t, place) == pc' = [pc EXCEPT ![t] = place]

\* _swap_tasks: the software interrupt enters scheduler_tick(regs, true).
SwapTasks(t, c, from, to) ==
  /\ At(t, c, from)
  /\ ExecuteNextTask(c, counter, until)
  /\ Goto(t, to) /\ UNCHANGED arg

\* Block: the state changes here, the CPU is given up by the swap after it.
Block(t, type, context) ==
  /\ until' = [until EXCEPT ![t] = NoDeadline]
  /\ btype' = [btype EXCEPT ![t] = type]
  /\ bctx' = [bctx EXCEPT ![t] = context]
  /\ prevst' = [prevst EXCEPT ![t] = tstate[t]]
  /\ tstate' = [tstate EXCEPT ![t] = "BLOCKED"]
  /\ UNCHANGED <<list, ready, counter>>

\* A pipe read that finds the pipe empty yields and looks again.
Yield(t, c) == "yield" \in Calls /\ SwapTasks(t, c, "user", "user")

\* fork_process: the child is on the list before it is ready.
ForkProcess(t, c, call) ==
  /\ call \in Calls
  /\ At(t, c, "user") /\ t \notin Kernel
  /\ currentPid \in Tasks
  /\ currentPid' = currentPid + 1
  /\ list' = Append(list, currentPid)
  /\ ppid' = [ppid EXCEPT ![currentPid] = t]
  /\ arg' = [arg EXCEPT ![t] = currentPid]
  /\ Goto(t, call)
  /\ UNCHANGED <<tstate, prevst, ready, counter, btype, bctx, until,
                 pgid, freed, deleted, cpus, input>>

\* sys_fork returns after mark_ready; sys_vfork goes on to block.
MarkReady(t, c, from, to) ==
  /\ At(t, c, from)
  /\ ready' = [ready EXCEPT ![arg[t]] = TRUE]
  /\ Goto(t, to)
  /\ UNCHANGED <<list, tstate, prevst, counter, btype, bctx, until,
                 procs, cpus, arg, input>>

VforkBlock(t, c) ==
  /\ At(t, c, "vfork_block")
  /\ Block(t, "WAIT_FOR_CHILD", arg[t])
  /\ Goto(t, "swap")
  /\ UNCHANGED <<procs, cpus, arg, input>>

\* clock_nanosleep, ScheduleFor: the deadline is written first ...
SleepDeadline(t, c) ==
  /\ "sleep" \in Calls
  /\ At(t, c, "user")
  /\ \E n \in 0..MaxSleep : until' = [until EXCEPT ![t] = n]
  /\ btype' = [btype EXCEPT ![t] = "UNSPECIFIED"]
  /\ bctx' = [bctx EXCEPT ![t] = 0]
  /\ Goto(t, "sleep_block")
  /\ UNCHANGED <<list, tstate, prevst, ready, counter, procs, cpus, arg, input>>

\* ... and the state after it.
SleepBlock(t, c) ==
  /\ At(t, c, "sleep_block")
  /\ prevst' = [prevst EXCEPT ![t] = tstate[t]]
  /\ tstate' = [tstate EXCEPT ![t] = "BLOCKED"]
  /\ Goto(t, "swap")
  /\ UNCHANGED <<list, ready, counter, btype, bctx, until, procs, cpus, arg, input>>

\* event_node_t::read, one event: look at the ring under its lock.
EventEnter(t, c) ==
  /\ "event" \in Calls
  /\ At(t, c, "user")
  /\ Goto(t, "event")
  /\ UNCHANGED <<sched, procs, cpus, arg, input>>

EventRead(t, c) ==
  /\ At(t, c, "event")
  /\ IF events = 0 THEN Goto(t, "event_block") /\ UNCHANGED events
                   ELSE Goto(t, "user") /\ events' = events - 1
  /\ UNCHANGED <<sched, procs, cpus, arg, keys, irq>>

EventBlock(t, c) ==
  /\ At(t, c, "event_block")
  /\ Block(t, "WAITING_ON_EVENT", 0)
  /\ Goto(t, "swap_event")
  /\ UNCHANGED <<procs, cpus, arg, input>>

\* wait4
WaitEnter(t, c, call) ==
  /\ call \in Calls
  /\ At(t, c, "user") /\ t \notin Kernel
  /\ \E p \in WaitArgs : arg' = [arg EXCEPT ![t] = p]
  /\ Goto(t, call)
  /\ UNCHANGED <<sched, procs, cpus, input>>

IsChild(t, u) == u # t /\ ppid[u] = t

\* The pid argument p of a wait4 of t selects the child u.
Matches(t, u, p) ==
  \/ p = AnyChild
  \/ p \in Tasks /\ u = p
  \/ p = 0 /\ pgid[u] = pgid[t]
  \/ p \in Groups /\ pgid[u] = -p

\* The zombie the scan of wait4 stops at: the first on the list.
FirstZombie(t, u) ==
  \E i \in DOMAIN list :
    LET Hit(w) == IsChild(t, w) /\ Matches(t, w, arg[t]) /\ tstate[w] = "ZOMBIE"
    IN  /\ list[i] = u /\ Hit(u)
        /\ \A j \in 1..(i - 1) : ~Hit(list[j])

\* The scan of the list, under its lock.
WaitScan(t, c, call) ==
  /\ At(t, c, call)
  /\ \/ /\ \E u \in Tasks : FirstZombie(t, u) /\ arg' = [arg EXCEPT ![t] = u]
        /\ Goto(t, "reap")
     \/ /\ ~\E u \in Tasks : FirstZombie(t, u)
        /\ Goto(t, IF call = "wnohang" \/ ~\E u \in Range(list) : IsChild(t, u)
                   THEN "user" ELSE "wait_block")
        /\ UNCHANGED arg
  /\ UNCHANGED <<sched, procs, cpus, input>>

WaitBlock(t, c) ==
  /\ At(t, c, "wait_block")
  /\ Block(t, "WAIT_FOR_CHILD", arg[t])
  /\ Goto(t, "swap_wait")
  /\ UNCHANGED <<procs, cpus, arg, input>>

\* Mutant: the previous element's next is cleared.
Before(s, t) ==
  LET i == CHOOSE k \in DOMAIN s : s[k] = t
  IN  IF t \notin Range(s) THEN s ELSE [k \in 1..(i - 1) |-> s[k]]

\* The list after _remove_task_from_list(t).
Without(s, t) ==
  LET i == CHOOSE k \in DOMAIN s : s[k] = t
  IN  IF t \notin Range(s) THEN s
      ELSE [k \in 1..(Len(s) - 1) |-> IF k < i THEN s[k] ELSE s[k + 1]]

\* _remove_task_from_list(child); delete child
Reap(t, c) ==
  /\ At(t, c, "reap")
  /\ list' = Without(list, arg[t])
  /\ deleted' = deleted \cup {arg[t]}
  /\ Goto(t, "user")
  /\ UNCHANGED <<tstate, prevst, ready, counter, btype, bctx, until,
                 ppid, pgid, freed, currentPid, cpus, arg, input>>

Setpgid(t, c) ==
  /\ "setpgid" \in Calls
  /\ At(t, c, "user") /\ t \notin Kernel
  /\ \E u, g \in Range(list) : pgid' = [pgid EXCEPT ![u] = g]
  /\ UNCHANGED <<sched, ppid, freed, deleted, currentPid, cpus, calls, input>>

-----------------------------------------------------------------------------
(* exit_group: exit_process walks the list without the lock and calls      *)
(* exit() on the other members of the process group, then on the caller.   *)
(* exit() turns interrupts off and moves to the CPU's scheduler stack.     *)

ExitEnter(t, c) ==
  /\ "exit" \in Calls
  /\ At(t, c, "user")
  /\ arg' = [arg EXCEPT ![t] = 0]
  /\ Goto(t, "exit_next")
  /\ UNCHANGED <<sched, procs, cpus, input>>

\* Members of the group that the walk has still to exit, by list position.
GroupMember(t, i) ==
  /\ list[i] # t /\ pgid[list[i]] = pgid[t] /\ tstate[list[i]] # "ZOMBIE"
  /\ \A j \in DOMAIN list : list[j] = arg[t] => i > j

\* The next task to exit; a kernel thread calls exit() on itself alone.
NextVictim(t, v) ==
  \/ /\ t \notin Kernel
     /\ \E i \in DOMAIN list : /\ list[i] = v /\ GroupMember(t, i)
                               /\ \A j \in 1..(i - 1) : ~GroupMember(t, j)
  \/ v = t /\ (t \in Kernel \/ ~\E i \in DOMAIN list : GroupMember(t, i))

ExitZombie(t, c) ==
  /\ At(t, c, "exit_next")
  /\ \E v \in Tasks :
       /\ NextVictim(t, v)
       /\ tstate' = [tstate EXCEPT ![v] = "ZOMBIE"]
       /\ arg' = [arg EXCEPT ![t] = v]
  /\ Goto(t, "exit_free")
  /\ UNCHANGED <<list, prevst, ready, counter, btype, bctx, until, procs, cpus, input>>

ExitFree(t, c) ==
  /\ At(t, c, "exit_free")
  /\ freed' = freed \cup {arg[t]}
  /\ Goto(t, "exit_wake")
  /\ UNCHANGED <<sched, ppid, pgid, deleted, currentPid, cpus, arg, input>>

\* _wake_waiting_tasks(pid)
WakeWaitingTasks(p) ==
  tstate' = [u \in Tasks |->
               IF /\ u \in Range(list) /\ tstate[u] = "BLOCKED"
                  /\ btype[u] = "WAIT_FOR_CHILD" /\ bctx[u] \in {AnyChild, p}
               THEN "PAUSED" ELSE tstate[u]]

ExitWake(t, c) ==
  /\ At(t, c, "exit_wake")
  /\ WakeWaitingTasks(arg[t])
  /\ Goto(t, "exit_leave")
  /\ UNCHANGED <<list, prevst, ready, counter, btype, bctx, until,
                 procs, cpus, arg, input>>

\* The CPU forgets its current task; only an exit() of the current task swaps.
\* Otherwise exit() returns: to exit_process, or for the caller to user mode.
ExitLeave(t, c) ==
  /\ At(t, c, "exit_leave")
  /\ current' = [current EXCEPT ![c] = None]
  /\ IF arg[t] \in Kernel
     THEN list' = Without(list, arg[t]) /\ deleted' = deleted \cup {arg[t]}
     ELSE UNCHANGED <<list, deleted>>
  /\ Goto(t, IF arg[t] # t THEN "exit_next"
             ELSE IF current[c] = t THEN "exited" ELSE "user")
  /\ UNCHANGED <<tstate, prevst, ready, counter, btype, bctx, until,
                 ppid, pgid, freed, currentPid, next, on, arg, input>>

-----------------------------------------------------------------------------
\* A new system call. handle_syscall needs the CPU's current_task.
Enter(t, c) ==
  /\ current[c] = t
  /\ \/ Yield(t, c)
     \/ ForkProcess(t, c, "fork") \/ ForkProcess(t, c, "vfork")
     \/ SleepDeadline(t, c) \/ EventEnter(t, c)
     \/ WaitEnter(t, c, "wait") \/ WaitEnter(t, c, "wnohang")
     \/ Setpgid(t, c) \/ ExitEnter(t, c)

\* The rest of a system call.
Resume(t, c) ==
  \/ MarkReady(t, c, "fork", "user") \/ MarkReady(t, c, "vfork", "vfork_block")
  \/ VforkBlock(t, c) \/ SleepBlock(t, c)
  \/ EventRead(t, c) \/ EventBlock(t, c)
  \/ WaitScan(t, c, "wait") \/ WaitScan(t, c, "wnohang")
  \/ WaitBlock(t, c) \/ Reap(t, c)
  \/ SwapTasks(t, c, "swap", "user") \/ SwapTasks(t, c, "swap_wait", "wait")
  \/ SwapTasks(t, c, "swap_event", "event")
  \/ ExitZombie(t, c) \/ ExitFree(t, c) \/ ExitWake(t, c) \/ ExitLeave(t, c)
  \/ SwapTasks(t, c, "exited", "exited")

Next ==
  \/ \E c \in CPUs : Tick(c) \/ RunTask(c)
  \/ \E c \in CPUs, t \in Tasks : Enter(t, c) \/ Resume(t, c)
  \/ KeyWrite \/ KeyWake

Spec == Init /\ [][Next]_vars

\* The timer of every CPU keeps firing, and the local APIC holds its interrupt
\* until interrupts are on (SF); a CPU executes the kernel code it
\* is in; no task has to make a system call, and no key has to be pressed.
Fairness ==
  /\ \A c \in CPUs : SF_vars(Tick(c)) /\ WF_vars(RunTask(c))
  /\ \A c \in CPUs : WF_vars(\E t \in Tasks : Resume(t, c))
  /\ WF_vars(KeyWake)

FairSpec == Spec /\ Fairness

-----------------------------------------------------------------------------
(* Properties.                                                             *)

\* The task CPU c executes, or is about to once _execute_next_task has
\* chosen it and released the list lock.
Holder(c) == IF next[c] # None THEN next[c] ELSE on[c]

\* No task is executed by two CPUs: what the RUNNING test of _get_free_task
\* is for.
OneCpuPerTask ==
  \A c, d \in CPUs : c # d /\ Holder(c) = Holder(d) => Holder(c) = Idle

\* A task marked RUNNING is held by a CPU. One that is not would be skipped
\* by every later _get_free_task and _reset_counters, and never run again.
RunningIsHeld ==
  \A t \in Tasks : tstate[t] = "RUNNING" => \E c \in CPUs : Holder(c) = t

\* A forked child, on the list from _create_task_structure on, is not run
\* before fork_process has filled in its registers and mark_ready was called.
ReadyBeforeRun == \A c \in CPUs : Holder(c) \in Tasks => ready[Holder(c)]

\* Once exit() has made a task a ZOMBIE no step of any CPU (save, reset,
\* wake, sleep) brings it back to life.  So it is on one CPU, as long as only
\* tasks themselves exit: a task that another CPU or a group exit kills while it
\* sleeps has its previous_state restored at the deadline.
ZombieForever ==
  [][\A t \in Tasks : tstate[t] = "ZOMBIE" => tstate'[t] = "ZOMBIE"]_vars

\* A task_t is exit()'s until exit() has finished with it: wait4 deletes none
\* whose stacks, address space and FPU area have not been given back, and
\* none that an exit() still works on.
ExitOwnsTask ==
  /\ deleted \subseteq freed
  /\ \A t \in Tasks : pc[t] \in {"exit_free", "exit_wake", "exit_leave"}
                         => arg[t] \notin deleted

\* A sleeping task leaves BLOCKED only when its deadline has come, or dies:
\* no key press and no child's exit ends a ScheduleFor early.
NoEarlyWake ==
  [][\A t \in Tasks :
       tstate[t] = "BLOCKED" /\ until[t] \in 1..MaxSleep
         => tstate'[t] \in {"BLOCKED", "ZOMBIE"}]_vars

\* A list walk by _remove_task_from_list or fork keeps every task that is
\* not deleted on the list, once.
ListIsLiveTasks ==
  /\ Range(list) = {t \in Tasks : t < currentPid} \ deleted
  /\ \A i, j \in DOMAIN list : list[i] = list[j] => i = j

\* A ready task that could run and may run on any CPU does get one: the time
\* slices and the resets of _reset_counters starve nobody.
NoStarvation ==
  \A t \in Tasks :
    (ready[t] /\ tstate[t] \in {"STOPPED", "PAUSED"})
      ~> (tstate[t] \in {"RUNNING", "ZOMBIE"})

\* Whoever goes to sleep with a deadline (ScheduleFor) does not stay BLOCKED.
SleeperWakes ==
  \A t \in Tasks :
    (tstate[t] = "BLOCKED" /\ btype[t] = "UNSPECIFIED") ~> (tstate[t] # "BLOCKED")

\* A parent is not left blocked in wait4 or vfork when the child it waits for
\* has become a zombie and that child's exit() is over.
NoLostChild ==
  \A t, u \in Tasks :
    /\ tstate[t] = "BLOCKED" /\ btype[t] = "WAIT_FOR_CHILD"
    /\ u \in Range(list) /\ ppid[u] = t /\ tstate[u] = "ZOMBIE"
    /\ bctx[t] \in {AnyChild, u}
    => \E v \in Tasks : pc[v] \in ExitSteps /\ arg[v] = u

\* A reader is not left blocked with an event in the ring and no wake coming.
NoLostEvent ==
  \A t \in Tasks :
    tstate[t] = "BLOCKED" /\ btype[t] = "WAITING_ON_EVENT" /\ events > 0 => irq

\* A task that exit() has made a ZOMBIE, and whose stacks it has freed, does
\* not go back to user mode: exit() of the caller never returns.
NoZombieUser ==
  \A c \in CPUs : on[c] \in Tasks /\ tstate[on[c]] = "ZOMBIE" => pc[on[c]] # "user"

\* No two CPUs use the stack of one task.
StackExclusive == \A c, d \in CPUs : c # d /\ on[c] = on[d] => on[c] = Idle
=============================================================================
