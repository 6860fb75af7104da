--------------------------- MODULE SchedulerProofs ---------------------------
(***************************************************************************)
(* What holds of the scheduler for any number of tasks, ticks and keys:    *)
(* on any number of CPUs, the types, the task list, that no child runs     *)
(* before it is ready and no sleeper is woken early; as long as no task    *)
(* blocks, that every task has at most one CPU; on one CPU, that exit()    *)
(* owns the task it ends and that a zombie stays dead.                     *)
(***************************************************************************)
EXTENDS Scheduler, TLAPS

\* The system calls that never set a task BLOCKED.
NonBlocking == {"yield", "fork", "exit", "setpgid"}

NonBlockingPCs == {"user", "fork", "exited"} \cup ExitSteps

\* The part of the type invariant the argument needs.
Types ==
  /\ tstate \in [Tasks -> TaskStates]
  /\ until \in [Tasks -> Expired..NoDeadline]
  /\ current \in [CPUs -> Tasks \cup {None, Idle}]
  /\ next \in [CPUs -> Tasks \cup {None, Idle}]
  /\ on \in [CPUs -> Tasks \cup {Idle}]
  /\ pc \in [Tasks -> NonBlockingPCs]
  /\ arg \in [Tasks -> WaitPids]

\* Nobody sleeps or blocks.
Awake == \A t \in Tasks : tstate[t] # "BLOCKED" /\ until[t] = NoDeadline

\* A task some CPU holds cannot be chosen by another.
HeldIsTaken ==
  \A c \in CPUs : Holder(c) \in Tasks => tstate[Holder(c)] \in {"RUNNING", "ZOMBIE"}

\* The CPU saves the task it executes, or that task is dying.
CurrentIsOn ==
  \A c \in CPUs : next[c] = None =>
    \/ current[c] = on[c]
    \/ /\ current[c] = None
       /\ on[c] \in Tasks => tstate[on[c]] = "ZOMBIE" \/ pc[on[c]] \in ExitSteps

\* What exit() works on is a zombie, and so is a task that has left it.
DyingIsZombie ==
  \A t \in Tasks :
    /\ pc[t] \in {"exit_free", "exit_wake", "exit_leave"}
         => arg[t] \in Tasks /\ tstate[arg[t]] = "ZOMBIE"
    /\ pc[t] = "exited" => tstate[t] = "ZOMBIE"

Inv ==
  /\ Types /\ Awake
  /\ OneCpuPerTask /\ RunningIsHeld
  /\ HeldIsTaken /\ CurrentIsOn /\ DyingIsZombie

-----------------------------------------------------------------------------
\* The special values differ from every pid.
LEMMA Distinct ==
  /\ None \notin Tasks /\ Idle \notin Tasks /\ None # Idle
  /\ NoDeadline # Expired /\ NoDeadline \in Expired..NoDeadline
BY SchedulerConstants DEF Tasks, None, Idle, NoDeadline, Expired

\* The initial state satisfies the invariant.
LEMMA InitInv == Init => Inv
<1> SUFFICES ASSUME Init PROVE Inv
  OBVIOUS
<1>1. Types
  BY Distinct DEF Init, Types, TaskStates, NonBlockingPCs, WaitPids
<1>2. \A c \in CPUs : Holder(c) = Idle
  BY DEF Init, Holder
<1> QED
  BY <1>1, <1>2, Distinct
  DEF Init, Inv, Awake, OneCpuPerTask, RunningIsHeld, HeldIsTaken, CurrentIsOn,
      DyingIsZombie

\* _execute_next_task, entered on a CPU that is not in the middle of exit(),
\* hands out a task no CPU holds.
LEMMA ExecuteInv ==
  ASSUME Inv, NEW c \in CPUs, next[c] = None,
         on[c] \in Tasks => pc[on[c]] \notin ExitSteps,
         NEW cnt, ExecuteNextTask(c, cnt, until), UNCHANGED <<pc, arg>>
  PROVE  Inv'
<1> DEFINE st == SaveTask(c)
<1> USE DEF Inv, Types
<1>0. pc' = pc
  OBVIOUS
<1>1. /\ st \in [Tasks -> TaskStates]
      /\ \A t \in Tasks : st[t] = IF t = current[c] /\ tstate[t] = "RUNNING"
                                  THEN "PAUSED" ELSE tstate[t]
  BY DEF SaveTask, TaskStates
<1>2. ResetState(c, st, until) = st
  <2>1. \A t \in Tasks : until[t] # Expired
    BY Distinct DEF Awake
  <2> QED
    BY <1>1, <2>1 DEF ResetState
<1>3. ResetUntil(c, st, until) = until
  <2>1. \A t \in Tasks : until[t] # Expired
    BY Distinct DEF Awake
  <2> QED
    BY <2>1 DEF ResetUntil
<1>4. \/ \E t \in Tasks : /\ st[t] \notin {"RUNNING", "BLOCKED", "ZOMBIE"}
                          /\ tstate' = [st EXCEPT ![t] = "RUNNING"]
                          /\ next' = [next EXCEPT ![c] = t]
      \/ tstate' = st /\ next' = [next EXCEPT ![c] = Idle]
  BY <1>2 DEF ExecuteNextTask, Choose, ChooseIdle, GetFreeTask, CanRun
<1>5. until' = until /\ UNCHANGED <<current, on>>
  BY <1>3 DEF ExecuteNextTask, Choose, ChooseIdle
<1>6. current[c] = on[c] \/ (current[c] = None /\ (on[c] \in Tasks => tstate[on[c]] = "ZOMBIE"))
  BY DEF CurrentIsOn
<1>7. \A d \in CPUs : d # c => Holder(d)' = Holder(d)
  BY <1>4, <1>5 DEF Holder
<1>8. Holder(c) = on[c]
  BY DEF Holder
<1>9. \A t \in Tasks : st[t] = "RUNNING" => \E d \in CPUs : d # c /\ Holder(d) = t
  BY <1>1, <1>6, <1>8, Distinct DEF RunningIsHeld
<1>10. \A d \in CPUs : d # c /\ Holder(d) \in Tasks => st[Holder(d)] \in {"RUNNING", "ZOMBIE"}
  <2> SUFFICES ASSUME NEW d \in CPUs, d # c, Holder(d) \in Tasks
               PROVE  st[Holder(d)] = tstate[Holder(d)]
    BY DEF HeldIsTaken
  <2>1. Holder(d) # on[c]
    BY <1>8, Distinct DEF OneCpuPerTask
  <2> QED
    BY <1>1, <1>6, <2>1, Distinct
<1>11. CASE tstate' = st /\ next' = [next EXCEPT ![c] = Idle]
  <2>1. Holder(c)' = Idle
    BY <1>11, Distinct DEF Holder
  <2>2. Types'
    BY <1>0, <1>1, <1>5, <1>11
  <2>3. Awake'
    BY <1>1, <1>5, <1>11 DEF Awake
  <2>4. OneCpuPerTask'
    BY <1>7, <2>1 DEF OneCpuPerTask
  <2>5. RunningIsHeld'
    BY <1>7, <1>9, <1>11 DEF RunningIsHeld
  <2>6. HeldIsTaken'
    BY <1>7, <1>10, <1>11, <2>1, Distinct DEF HeldIsTaken
  <2>7. CurrentIsOn'
    <3>1. \A t \in Tasks : tstate[t] = "ZOMBIE" => tstate'[t] = "ZOMBIE"
      BY <1>1, <1>11
    <3> QED
      BY <1>0, <1>5, <1>11, <3>1, Distinct DEF CurrentIsOn
  <2>8. DyingIsZombie'
    BY <1>0, <1>1, <1>11 DEF DyingIsZombie
  <2> QED
    BY <2>2, <2>3, <2>4, <2>5, <2>6, <2>7, <2>8
<1>12. ASSUME NEW t \in Tasks, st[t] \notin {"RUNNING", "BLOCKED", "ZOMBIE"},
              tstate' = [st EXCEPT ![t] = "RUNNING"], next' = [next EXCEPT ![c] = t]
       PROVE  Inv'
  <2>1. Holder(c)' = t
    BY <1>12, Distinct DEF Holder
  <2>0. \A u \in Tasks : tstate[u] = "ZOMBIE" => tstate'[u] = "ZOMBIE"
    BY <1>1, <1>12
  <2>2. Types'
    BY <1>0, <1>1, <1>5, <1>12 DEF TaskStates
  <2>3. Awake'
    BY <1>1, <1>5, <1>12 DEF Awake
  <2>4. OneCpuPerTask'
    BY <1>7, <1>10, <1>12, <2>1 DEF OneCpuPerTask
  <2>5. RunningIsHeld'
    BY <1>1, <1>7, <1>9, <1>12, <2>1 DEF RunningIsHeld
  <2>6. HeldIsTaken'
    BY <1>1, <1>7, <1>10, <1>12, <2>1, Distinct DEF HeldIsTaken
  <2>7. CurrentIsOn'
    BY <1>0, <1>5, <1>12, <2>0, Distinct DEF CurrentIsOn
  <2>8. DyingIsZombie'
    BY <1>0, <2>0 DEF DyingIsZombie
  <2> QED
    BY <2>2, <2>3, <2>4, <2>5, <2>6, <2>7, <2>8
<1> QED
  BY <1>4, <1>11, <1>12

\* A timer tick.
LEMMA TickInv == ASSUME Inv, NEW c \in CPUs, Tick(c) PROVE Inv'
<1> USE DEF Inv, Types
<1>1. Aged(c) = until
  BY DEF Awake, Aged
<1>2. next[c] = None /\ (on[c] \in Tasks => pc[on[c]] \notin ExitSteps)
  BY DEF Tick, InterruptsOn
<1>3. CASE ExecuteNextTask(c, Charged(c), Aged(c)) /\ UNCHANGED calls
  BY <1>1, <1>2, <1>3, ExecuteInv DEF calls
<1>4. CASE counter' = Charged(c) /\ until' = Aged(c)
           /\ UNCHANGED <<list, tstate, prevst, ready, btype, bctx, procs, cpus, calls, input>>
  BY <1>1, <1>4
  DEF Awake, OneCpuPerTask, RunningIsHeld, HeldIsTaken, CurrentIsOn, DyingIsZombie,
      Holder, cpus, calls
<1> QED
  BY <1>3, <1>4 DEF Tick

\* A software interrupt from the end of a system call.
LEMMA SwapInv ==
  ASSUME Inv, NEW t \in Tasks, NEW c \in CPUs, NEW place \in {"user", "exited"},
         SwapTasks(t, c, place, place)
  PROVE  Inv'
<1>1. next[c] = None /\ on[c] = t /\ pc[t] = place
  BY DEF SwapTasks, At
<1>2. pc' = pc
  BY <1>1 DEF SwapTasks, Goto, Inv, Types
<1> QED
  BY <1>1, <1>2, ExecuteInv DEF SwapTasks, ExitSteps

\* _run_task completes what _execute_next_task began: nobody's holder changes.
LEMMA RunInv == ASSUME Inv, NEW c \in CPUs, RunTask(c) PROVE Inv'
<1> USE DEF Inv, Types, RunTask, sched, procs, calls, input
<1>1. \A d \in CPUs : Holder(d)' = Holder(d)
  BY Distinct DEF Holder
<1>2. Types'
  BY Distinct
<1>3. CurrentIsOn'
  BY DEF CurrentIsOn
<1> QED
  BY <1>1, <1>2, <1>3
  DEF Awake, OneCpuPerTask, RunningIsHeld, HeldIsTaken, DyingIsZombie

\* Steps that change no task state and move a task between places where
\* it is neither exiting nor dead.
LEMMA PlainInv ==
  ASSUME Inv, NEW t \in Tasks, NEW c \in CPUs,
         next[c] = None, on[c] = t, current[c] = t \/ pc[t] \notin ExitSteps,
         pc[t] \in {"user", "fork"},
         NEW p \in {"user", "fork", "exit_next"}, pc' = [pc EXCEPT ![t] = p],
         arg' \in [Tasks -> WaitPids],
         \A u \in Tasks \ {t} : arg'[u] = arg[u],
         UNCHANGED <<tstate, until, cpus>>
  PROVE  Inv'
<1> USE DEF Inv, Types, cpus
<1>1. Types'
  BY DEF NonBlockingPCs, ExitSteps
<1>2. \A d \in CPUs : Holder(d)' = Holder(d)
  BY DEF Holder
<1>3. CurrentIsOn'
  BY DEF CurrentIsOn, ExitSteps
<1>4. DyingIsZombie'
  BY DEF DyingIsZombie
<1> QED
  BY <1>1, <1>2, <1>3, <1>4
  DEF Awake, OneCpuPerTask, RunningIsHeld, HeldIsTaken

\* The four steps of exit().
LEMMA ExitInv ==
  ASSUME Inv, NEW t \in Tasks, NEW c \in CPUs,
         \/ ExitZombie(t, c) \/ ExitFree(t, c) \/ ExitWake(t, c) \/ ExitLeave(t, c)
  PROVE  Inv'
<1> USE DEF Inv, Types, At, Goto, cpus
<1>0. \A u \in Tasks : pc[u] \in PCs
  BY DEF NonBlockingPCs, PCs
<1>1. CASE ExitZombie(t, c)
  <2>1. PICK v \in Tasks : /\ tstate' = [tstate EXCEPT ![v] = "ZOMBIE"]
                           /\ arg' = [arg EXCEPT ![t] = v]
    BY <1>1 DEF ExitZombie
  <2>2. pc[t] = "exit_next" /\ pc' = [pc EXCEPT ![t] = "exit_free"] /\ UNCHANGED <<until, cpus>>
    BY <1>1 DEF ExitZombie
  <2>3. Types'
    BY <2>1, <2>2 DEF TaskStates, NonBlockingPCs, ExitSteps, WaitPids
  <2>4. \A d \in CPUs : Holder(d)' = Holder(d)
    BY <2>2 DEF Holder
  <2>5. Awake'
    BY <2>1, <2>2 DEF Awake
  <2>6. RunningIsHeld'
    BY <2>1, <2>4 DEF RunningIsHeld
  <2>7. HeldIsTaken'
    BY <2>1, <2>4 DEF HeldIsTaken
  <2>8. CurrentIsOn'
    BY <2>1, <2>2 DEF CurrentIsOn, ExitSteps
  <2>9. DyingIsZombie'
    BY <2>1, <2>2 DEF DyingIsZombie
  <2> QED
    BY <2>3, <2>4, <2>5, <2>6, <2>7, <2>8, <2>9 DEF OneCpuPerTask
<1>2. CASE ExitFree(t, c)
  <2>1. /\ pc[t] = "exit_free" /\ pc' = [pc EXCEPT ![t] = "exit_wake"]
        /\ UNCHANGED <<tstate, until, arg, cpus>>
    BY <1>2 DEF ExitFree, sched
  <2> QED
    BY <2>1 DEF Awake, OneCpuPerTask, RunningIsHeld, HeldIsTaken, CurrentIsOn,
                DyingIsZombie, Holder, NonBlockingPCs, ExitSteps
<1>3. CASE ExitWake(t, c)
  <2>1. tstate' = tstate
    BY <1>3 DEF ExitWake, WakeWaitingTasks, Awake
  <2>2. /\ pc[t] = "exit_wake" /\ pc' = [pc EXCEPT ![t] = "exit_leave"]
        /\ UNCHANGED <<until, arg, cpus>>
    BY <1>3 DEF ExitWake
  <2> QED
    BY <2>1, <2>2 DEF Awake, OneCpuPerTask, RunningIsHeld, HeldIsTaken, CurrentIsOn,
                DyingIsZombie, Holder, NonBlockingPCs, ExitSteps
<1>4. CASE ExitLeave(t, c)
  <2>1. /\ on[c] = t /\ next[c] = None /\ pc[t] = "exit_leave"
        /\ current' = [current EXCEPT ![c] = None]
        /\ UNCHANGED <<tstate, until, arg, next, on>>
    BY <1>4 DEF ExitLeave
  <2>2. PICK p \in {"exit_next", "exited", "user"} :
             pc' = [pc EXCEPT ![t] = p] /\ (p # "exit_next" => arg[t] = t)
    BY <1>4 DEF ExitLeave
  <2>3. Types'
    BY <2>1, <2>2 DEF NonBlockingPCs, ExitSteps
  <2>4. \A d \in CPUs : Holder(d)' = Holder(d)
    BY <2>1 DEF Holder
  <2>5. arg[t] = t => tstate[t] = "ZOMBIE"
    BY <2>1 DEF DyingIsZombie
  <2>6. CurrentIsOn'
    <3> SUFFICES ASSUME NEW d \in CPUs, next[d] = None
                 PROVE  \/ current'[d] = on[d]
                        \/ /\ current'[d] = None
                           /\ on[d] \in Tasks => tstate[on[d]] = "ZOMBIE" \/ pc'[on[d]] \in ExitSteps
      BY <2>1 DEF CurrentIsOn
    <3>1. CASE d = c
      BY <2>1, <2>2, <2>5, <3>1 DEF ExitSteps
    <3>2. CASE d # c
      <4>1. on[d] # t
        BY <2>1, <3>2, Distinct DEF OneCpuPerTask, Holder
      <4> QED
        BY <2>1, <2>2, <3>2, <4>1 DEF CurrentIsOn
    <3> QED
      BY <3>1, <3>2
  <2>7. DyingIsZombie'
    BY <2>1, <2>2, <2>5 DEF DyingIsZombie
  <2> QED
    BY <2>1, <2>3, <2>4, <2>6, <2>7
    DEF Awake, OneCpuPerTask, RunningIsHeld, HeldIsTaken
<1> QED
  BY <1>1, <1>2, <1>3, <1>4

\* Every step of the system preserves the invariant.
LEMMA NextInv == ASSUME Calls \subseteq NonBlocking, Inv, [Next]_vars PROVE Inv'
<1>1. CASE UNCHANGED vars
  BY <1>1 DEF vars, sched, cpus, calls, Inv, Types, Awake, OneCpuPerTask, RunningIsHeld,
              HeldIsTaken, CurrentIsOn, DyingIsZombie, Holder
<1>2. CASE KeyWrite \/ KeyWake
  <2>1. UNCHANGED <<tstate, until, cpus, calls>>
    <3>1. CASE KeyWrite
      BY <3>1 DEF KeyWrite, sched
    <3>2. CASE KeyWake
      BY <3>2 DEF KeyWake, WakeBlockedTasks, Inv, Types, Awake
    <3> QED
      BY <1>2, <3>1, <3>2
  <2> QED
    BY <2>1 DEF cpus, calls, Inv, Types, Awake, OneCpuPerTask, RunningIsHeld,
                HeldIsTaken, CurrentIsOn, DyingIsZombie, Holder
<1>3. ASSUME NEW c \in CPUs, Tick(c) \/ RunTask(c) PROVE Inv'
  BY <1>3, TickInv, RunInv
<1>4. ASSUME NEW c \in CPUs, NEW t \in Tasks, Enter(t, c) PROVE Inv'
  <2>1. CASE Yield(t, c)
    BY <2>1, SwapInv DEF Yield
  <2>2. CASE ForkProcess(t, c, "fork")
    BY <2>2, PlainInv, SchedulerConstants
    DEF ForkProcess, At, Goto, Inv, Types, ExitSteps, WaitPids
  <2>3. CASE Setpgid(t, c)
    <3>1. UNCHANGED <<tstate, until, cpus, calls>>
      BY <2>3 DEF Setpgid, sched
    <3> QED
      BY <3>1 DEF cpus, calls, Inv, Types, Awake, OneCpuPerTask, RunningIsHeld,
                  HeldIsTaken, CurrentIsOn, DyingIsZombie, Holder
  <2>4. CASE ExitEnter(t, c)
    BY <2>4, PlainInv
    DEF ExitEnter, At, Goto, sched, Inv, Types, ExitSteps, WaitPids
  <2> QED
    BY <1>4, <2>1, <2>2, <2>3, <2>4
    DEF Enter, NonBlocking, ForkProcess, SleepDeadline, EventEnter, WaitEnter
<1>5. ASSUME NEW c \in CPUs, NEW t \in Tasks, Resume(t, c) PROVE Inv'
  <2>1. pc[t] \in NonBlockingPCs
    BY DEF Inv, Types
  <2>2. CASE MarkReady(t, c, "fork", "user")
    BY <2>2, PlainInv DEF MarkReady, At, Goto, Inv, Types, ExitSteps
  <2>3. CASE SwapTasks(t, c, "exited", "exited")
    BY <2>3, SwapInv
  <2>4. CASE ExitZombie(t, c) \/ ExitFree(t, c) \/ ExitWake(t, c) \/ ExitLeave(t, c)
    BY <2>4, ExitInv
  <2> QED
    BY <1>5, <2>1, <2>2, <2>3, <2>4
    DEF Resume, NonBlockingPCs, ExitSteps, MarkReady, VforkBlock, SleepBlock, EventRead,
        EventBlock, WaitScan, WaitBlock, Reap, SwapTasks, At
<1> QED
  BY <1>1, <1>2, <1>3, <1>4, <1>5 DEF Next

\* In a system whose tasks only yield, fork, join process groups and exit, no
\* task is ever executed by two CPUs: the RUNNING test of _get_free_task, the
\* PAUSED of _save_task and the handling of current_task in exit() together
\* suffice.
THEOREM NonBlockingOneCpu ==
  ASSUME Calls \subseteq NonBlocking
  PROVE  Spec => []OneCpuPerTask
<1>1. Init => Inv
  BY InitInv
<1>2. Inv /\ [Next]_vars => Inv'
  BY NextInv
<1>3. Inv => OneCpuPerTask
  BY DEF Inv
<1> QED
  BY <1>1, <1>2, <1>3, PTL DEF Spec

\* In the same system no task is lost: one marked RUNNING, which every later
\* _get_free_task and _reset_counters skips, is the task of some CPU.
THEOREM NonBlockingRunningHeld ==
  ASSUME Calls \subseteq NonBlocking
  PROVE  Spec => []RunningIsHeld
<1>1. Init => Inv
  BY InitInv
<1>2. Inv /\ [Next]_vars => Inv'
  BY NextInv
<1>3. Inv => RunningIsHeld
  BY DEF Inv
<1> QED
  BY <1>1, <1>2, <1>3, PTL DEF Spec

-----------------------------------------------------------------------------
(* Type correctness and the task list, for all system calls.               *)

NoRepeats(s) == \A i, j \in DOMAIN s : s[i] = s[j] => i = j

\* _remove_task_from_list takes out one task and keeps the others, in order.
LEMMA WithoutList ==
  ASSUME NEW s \in Seq(Tasks), NoRepeats(s), NEW t
  PROVE  /\ Without(s, t) \in Seq(Tasks)
         /\ Range(Without(s, t)) = Range(s) \ {t}
         /\ NoRepeats(Without(s, t))
<1>1. CASE t \notin Range(s)
  BY <1>1 DEF Without
<1>2. CASE t \in Range(s)
  <2> DEFINE i == CHOOSE k \in DOMAIN s : s[k] = t
             w == [k \in 1..(Len(s) - 1) |-> IF k < i THEN s[k] ELSE s[k + 1]]
  <2>1. i \in 1..Len(s) /\ s[i] = t
    BY <1>2 DEF Range
  <2>2. Without(s, t) = w
    BY <1>2 DEF Without
  <2>3. Len(s) - 1 \in Nat /\ w \in Seq(Tasks) /\ DOMAIN w = 1..(Len(s) - 1)
    BY <2>1
  <2> HIDE DEF i
  <2>4. ASSUME NEW u \in Range(w) PROVE u \in Range(s) \ {t}
    <3>1. PICK k \in 1..(Len(s) - 1) : u = w[k]
      BY <2>3 DEF Range
    <3> QED
      BY <2>1, <3>1 DEF Range, NoRepeats
  <2>5. ASSUME NEW u \in Range(s) \ {t} PROVE u \in Range(w)
    <3>1. PICK k \in 1..Len(s) : u = s[k] /\ k # i
      BY <2>1, <2>5 DEF Range
    <3>2. CASE k < i
      <4>1. k \in 1..(Len(s) - 1) /\ w[k] = u
        BY <2>1, <3>1, <3>2
      <4> QED
        BY <2>3, <4>1 DEF Range
    <3>3. CASE k > i
      <4>1. k - 1 \in 1..(Len(s) - 1) /\ w[k - 1] = u
        BY <2>1, <3>1, <3>3
      <4> QED
        BY <2>3, <4>1 DEF Range
    <3> QED
      BY <2>1, <3>1, <3>2, <3>3
  <2>6. NoRepeats(w)
    BY <2>1, <2>3 DEF NoRepeats
  <2> HIDE DEF w
  <2> QED
    BY <2>2, <2>3, <2>4, <2>5, <2>6
<1> QED
  BY <1>1, <1>2

\* The operand of a call in progress is a task that was created.
Operands ==
  \A t \in Tasks :
    /\ pc[t] \in {"exit_free", "exit_wake", "exit_leave"} => arg[t] \in Tasks
    /\ pc[t] = "reap" => arg[t] \in Tasks /\ arg[t] < currentPid

TypeInv ==
  /\ TypeOK /\ ListIsLiveTasks
  /\ Operands
  /\ events <= keys
  /\ NInit < currentPid
  /\ \A t \in deleted : t < currentPid

\* What _execute_next_task does to the scheduler's fields keeps their types.
LEMMA ExecuteType ==
  ASSUME TypeInv, NEW c \in CPUs, NEW cnt \in [Tasks -> 0..DefaultCount],
         NEW u \in [Tasks -> Expired..NoDeadline], ExecuteNextTask(c, cnt, u)
  PROVE  /\ tstate' \in [Tasks -> TaskStates] /\ counter' \in [Tasks -> 0..DefaultCount]
         /\ until' \in [Tasks -> Expired..NoDeadline]
         /\ next' \in [CPUs -> Tasks \cup {None, Idle}]
<1> DEFINE st == SaveTask(c)
<1>1. st \in [Tasks -> TaskStates]
  BY DEF SaveTask, TaskStates, TypeInv, TypeOK, SchedTypes
<1>2. ResetState(c, st, u) \in [Tasks -> TaskStates]
  BY <1>1 DEF ResetState, TaskStates, TypeInv, TypeOK, SchedTypes
<1>3. ResetCounter(c, st, cnt) \in [Tasks -> 0..DefaultCount]
  BY SchedulerConstants DEF ResetCounter
<1>4. ResetUntil(c, st, u) \in [Tasks -> Expired..NoDeadline]
  BY Distinct DEF ResetUntil
<1>5. PICK s \in [Tasks -> TaskStates], n \in [Tasks -> 0..DefaultCount],
           d \in [Tasks -> Expired..NoDeadline] :
        \/ ChooseIdle(c, s, n, d)
        \/ \E t \in Tasks : Choose(t, c, s, n, d)
  BY <1>1, <1>2, <1>3, <1>4 DEF ExecuteNextTask
<1>6. next \in [CPUs -> Tasks \cup {None, Idle}]
  BY DEF TypeInv, TypeOK, CpuTypes
<1>7. CASE ChooseIdle(c, s, n, d)
  BY <1>6, <1>7 DEF ChooseIdle
<1>8. ASSUME NEW t \in Tasks, Choose(t, c, s, n, d)
      PROVE  /\ tstate' \in [Tasks -> TaskStates] /\ counter' = n /\ until' = d
             /\ next' \in [CPUs -> Tasks \cup {None, Idle}]
  BY <1>6, <1>8 DEF Choose, TaskStates
<1> QED
  BY <1>5, <1>7, <1>8

\* _execute_next_task touches neither the list nor the processes' lifetimes.
LEMMA ExecuteKeeps ==
  ASSUME TypeInv, NEW c \in CPUs, NEW cnt \in [Tasks -> 0..DefaultCount],
         NEW u \in [Tasks -> Expired..NoDeadline], ExecuteNextTask(c, cnt, u),
         UNCHANGED arg,
         NEW t \in Tasks, NEW p \in PCs \ {"reap", "exit_free", "exit_wake", "exit_leave"},
         pc' = [pc EXCEPT ![t] = p] \/ pc' = pc
  PROVE  TypeInv'
<1>1. /\ tstate' \in [Tasks -> TaskStates] /\ counter' \in [Tasks -> 0..DefaultCount]
      /\ until' \in [Tasks -> Expired..NoDeadline]
      /\ next' \in [CPUs -> Tasks \cup {None, Idle}]
  BY ExecuteType
<1>2. UNCHANGED <<list, prevst, ready, btype, bctx, procs, current, on, input>>
  BY DEF ExecuteNextTask
<1>3. TypeOK'
  <2>1. SchedTypes'
    BY <1>1, <1>2 DEF TypeInv, TypeOK, SchedTypes
  <2>2. ProcTypes' /\ InputTypes'
    BY <1>2 DEF TypeInv, TypeOK, ProcTypes, InputTypes, procs, input
  <2>3. CpuTypes'
    BY <1>1, <1>2 DEF TypeInv, TypeOK, CpuTypes
  <2>4. CallTypes'
    BY DEF TypeInv, TypeOK, CallTypes
  <2> QED
    BY <2>1, <2>2, <2>3, <2>4 DEF TypeOK
<1>4. Operands'
  BY <1>2 DEF TypeInv, TypeOK, CallTypes, Operands, procs
<1>5. ListIsLiveTasks'
  <2>1. ListIsLiveTasks /\ UNCHANGED <<list, currentPid, deleted>>
    BY <1>2 DEF TypeInv, procs
  <2> QED
    BY <2>1 DEF ListIsLiveTasks, Range
<1>6. events' <= keys' /\ NInit < currentPid' /\ \A x \in deleted' : x < currentPid'
  BY <1>2 DEF TypeInv, procs, input
<1> QED
  BY <1>3, <1>4, <1>5, <1>6 DEF TypeInv

\* The list after a fork.
LEMMA ForkList ==
  ASSUME TypeInv, currentPid \in Tasks, list' = Append(list, currentPid),
         currentPid' = currentPid + 1, UNCHANGED deleted
  PROVE  list' \in Seq(Tasks) /\ ListIsLiveTasks'
<1> USE DEF TypeInv, TypeOK, SchedTypes, ProcTypes
<1>1. list' \in Seq(Tasks) /\ Len(list') = Len(list) + 1
  OBVIOUS
<1>2. \A i \in 1..Len(list) : list'[i] = list[i]
  OBVIOUS
<1>3. list'[Len(list) + 1] = currentPid
  OBVIOUS
<1>4. Range(list') = Range(list) \cup {currentPid}
  <2>1. DOMAIN list' = DOMAIN list \cup {Len(list) + 1} /\ DOMAIN list = 1..Len(list)
    BY <1>1
  <2>2. \A x : x \in Range(list') <=> x \in Range(list) \cup {currentPid}
    BY <1>2, <1>3, <2>1 DEF Range
  <2> QED
    BY <2>2
<1>5. currentPid \notin Range(list) /\ currentPid \notin deleted
  BY DEF ListIsLiveTasks, Tasks
<1>6. Range(list') = {t \in Tasks : t < currentPid'} \ deleted'
  BY <1>4, <1>5 DEF ListIsLiveTasks, Tasks
<1>7. NoRepeats(list')
  <2>1. \A i \in 1..Len(list) : list[i] # currentPid
    BY <1>5 DEF Range
  <2>2. \A i, j \in 1..Len(list) : list[i] = list[j] => i = j
    BY DEF ListIsLiveTasks
  <2> QED
    BY <1>1, <1>2, <1>3, <2>1, <2>2 DEF NoRepeats
<1> QED
  BY <1>1, <1>6, <1>7 DEF ListIsLiveTasks, NoRepeats

\* The list after a task structure is deleted.
LEMMA DeleteList ==
  ASSUME TypeInv, NEW a \in Tasks, list' = Without(list, a),
         deleted' = deleted \cup {a}, UNCHANGED currentPid
  PROVE  list' \in Seq(Tasks) /\ ListIsLiveTasks'
<1> USE DEF TypeInv, TypeOK, SchedTypes, ProcTypes
<1>1. NoRepeats(list)
  BY DEF ListIsLiveTasks, NoRepeats
<1>2. list' \in Seq(Tasks) /\ Range(list') = Range(list) \ {a} /\ NoRepeats(list')
  BY <1>1, WithoutList
<1> QED
  BY <1>2 DEF ListIsLiveTasks, NoRepeats

\* The initial state.
LEMMA InitType == Init => TypeInv
<1> SUFFICES ASSUME Init PROVE TypeInv
  OBVIOUS
<1> USE SchedulerConstants DEF Init
<1>1. SchedTypes
  BY DEF SchedTypes, Tasks, TaskStates, BlockTypes, Expired, NoDeadline, InitTasks, WaitPids
<1>2. ProcTypes /\ CpuTypes /\ CallTypes /\ InputTypes
  <2>1. ProcTypes
    BY DEF ProcTypes, Tasks
  <2>2. CpuTypes
    BY DEF CpuTypes
  <2>3. CallTypes
    BY DEF CallTypes, PCs, WaitPids
  <2>4. InputTypes
    <3>1. events = 0 /\ keys = 0 /\ irq = FALSE
      BY Zenon
    <3> HIDE DEF Init
    <3>2. irq \in BOOLEAN
      BY <3>1, Zenon
    <3>3. events \in 0..MaxKeys /\ keys \in 0..MaxKeys
      BY <3>1
    <3> QED
      BY <3>2, <3>3 DEF InputTypes
  <2> QED
    BY <2>1, <2>2, <2>3, <2>4
<1>3. ListIsLiveTasks
  <2>1. DOMAIN list = 1..NInit /\ \A i \in 1..NInit : list[i] = i
    OBVIOUS
  <2>2. Range(list) = 1..NInit
    BY <2>1 DEF Range
  <2>3. {t \in Tasks : t < currentPid} \ deleted = 1..NInit
    BY DEF Tasks
  <2> QED
    BY <2>1, <2>2, <2>3 DEF ListIsLiveTasks
<1>4. Operands
  BY DEF Operands
<1> QED
  BY <1>1, <1>2, <1>3, <1>4 DEF TypeInv, TypeOK, Tasks

\* The rest of the invariant, for a step that neither creates nor deletes tasks.
LEMMA QuietType ==
  ASSUME TypeInv, TypeOK', Operands', events' <= keys',
         UNCHANGED <<list, currentPid, deleted>>
  PROVE  TypeInv'
BY DEF TypeInv, ListIsLiveTasks, Range

\* A step of the task t that changes its pc and its fields only.
LEMMA OwnFieldsType ==
  ASSUME TypeInv, NEW t \in Tasks,
         NEW p \in PCs \ {"reap", "exit_free", "exit_wake", "exit_leave"},
         pc' = [pc EXCEPT ![t] = p],
         arg' \in [Tasks -> WaitPids],
         \A u \in Tasks \ {t} : arg'[u] = arg[u],
         SchedTypes', ProcTypes', CpuTypes', InputTypes', events' <= keys',
         UNCHANGED <<list, currentPid, deleted>>
  PROVE  TypeInv'
<1>1. CallTypes'
  BY DEF TypeInv, TypeOK, CallTypes
<1>2. Operands'
  BY DEF TypeInv, TypeOK, CallTypes, Operands
<1> QED
  BY <1>1, <1>2, QuietType DEF TypeOK

\* Block keeps the types of what it writes.
LEMMA BlockType ==
  ASSUME TypeInv, NEW t \in Tasks, NEW type \in BlockTypes,
         NEW x \in WaitPids, Block(t, type, x)
  PROVE  SchedTypes'
BY Distinct DEF Block, TypeInv, TypeOK, SchedTypes, TaskStates

\* Starting a system call.
LEMMA EnterType ==
  ASSUME TypeInv, NEW t \in Tasks, NEW c \in CPUs, Enter(t, c)
  PROVE  TypeInv'
<1> USE DEF Goto
<1>0. SchedTypes /\ ProcTypes /\ CpuTypes /\ CallTypes /\ InputTypes /\ Operands /\ events <= keys
  BY DEF TypeInv, TypeOK
<1>1. CASE Yield(t, c)
  BY <1>0, <1>1, ExecuteKeeps DEF Yield, SwapTasks, PCs, ExitSteps, SchedTypes
<1>2. ASSUME NEW call \in {"fork", "vfork"}, ForkProcess(t, c, call) PROVE TypeInv'
  <2>1. list' \in Seq(Tasks) /\ ListIsLiveTasks'
    BY <1>2, ForkList DEF ForkProcess
  <2>2. SchedTypes' /\ CpuTypes' /\ InputTypes'
    BY <1>0, <1>2, <2>1 DEF ForkProcess, SchedTypes, CpuTypes, InputTypes, cpus, input
  <2>3. ProcTypes'
    <3>1. currentPid' \in 1..(MaxPid + 1)
      BY <1>0, <1>2, SchedulerConstants DEF ForkProcess, ProcTypes, Tasks
    <3> QED
      BY <1>0, <1>2, <3>1 DEF ForkProcess, ProcTypes
  <2>4. CallTypes' /\ Operands'
    BY <1>0, <1>2 DEF ForkProcess, CallTypes, Operands, PCs, ProcTypes, Tasks, WaitPids
  <2>5. events' <= keys' /\ NInit < currentPid' /\ \A x \in deleted' : x < currentPid'
    <3>1. /\ currentPid' = currentPid + 1 /\ deleted' = deleted /\ currentPid \in Nat
          /\ events' = events /\ keys' = keys
      BY <1>0, <1>2, SchedulerConstants DEF ForkProcess, ProcTypes, input
    <3>2. NInit < currentPid /\ \A x \in deleted : x < currentPid /\ x \in Nat
      BY <1>0 DEF TypeInv, ProcTypes, Tasks
    <3> QED
      BY <1>0, <3>1, <3>2, SchedulerConstants DEF Tasks
  <2> QED
    BY <2>1, <2>2, <2>3, <2>4, <2>5 DEF TypeInv, TypeOK
<1>3. CASE SleepDeadline(t, c)
  <2>1. SchedTypes'
    BY <1>0, <1>3, SchedulerConstants
    DEF SleepDeadline, SchedTypes, BlockTypes, Expired, NoDeadline, WaitPids
  <2> QED
    BY <1>0, <1>3, <2>1, OwnFieldsType
    DEF SleepDeadline, PCs, ExitSteps, procs, cpus, input, ProcTypes, CpuTypes, CallTypes, InputTypes
<1>4. CASE EventEnter(t, c)
  BY <1>0, <1>4, OwnFieldsType
  DEF EventEnter, PCs, ExitSteps, sched, procs, cpus, input, SchedTypes, ProcTypes, CpuTypes,
      CallTypes, InputTypes
<1>5. ASSUME NEW call \in {"wait", "wnohang"}, WaitEnter(t, c, call) PROVE TypeInv'
  <2>1. arg' \in [Tasks -> WaitPids] /\ \A u \in Tasks \ {t} : arg'[u] = arg[u]
    BY <1>0, <1>5, SchedulerConstants DEF WaitEnter, CallTypes
  <2> QED
    BY <1>0, <1>5, <2>1, OwnFieldsType
    DEF WaitEnter, PCs, ExitSteps, sched, procs, cpus, input, SchedTypes, ProcTypes, CpuTypes,
        InputTypes
<1>6. CASE Setpgid(t, c)
  <2>1. ProcTypes'
    BY <1>0, <1>6 DEF Setpgid, ProcTypes, SchedTypes, Range
  <2>2. SchedTypes' /\ CpuTypes' /\ CallTypes' /\ InputTypes' /\ Operands' /\ events' <= keys'
    BY <1>0, <1>6 DEF Setpgid, sched, cpus, calls, input, SchedTypes, CpuTypes, CallTypes,
                      InputTypes, Operands
  <2> QED
    BY <1>6, <2>1, <2>2, QuietType DEF Setpgid, TypeOK, sched
<1>7. CASE ExitEnter(t, c)
  BY <1>0, <1>7, OwnFieldsType
  DEF ExitEnter, PCs, ExitSteps, sched, procs, cpus, input, SchedTypes, ProcTypes, CpuTypes,
      CallTypes, InputTypes, WaitPids
<1> QED
  BY <1>1, <1>2, <1>3, <1>4, <1>5, <1>6, <1>7 DEF Enter

\* Finishing a system call other than exit_group.
LEMMA ResumeType ==
  ASSUME TypeInv, NEW t \in Tasks, NEW c \in CPUs,
         \/ MarkReady(t, c, "fork", "user") \/ MarkReady(t, c, "vfork", "vfork_block")
         \/ VforkBlock(t, c) \/ SleepBlock(t, c) \/ EventRead(t, c) \/ EventBlock(t, c)
         \/ WaitScan(t, c, "wait") \/ WaitScan(t, c, "wnohang") \/ WaitBlock(t, c) \/ Reap(t, c)
         \/ SwapTasks(t, c, "swap", "user") \/ SwapTasks(t, c, "swap_wait", "wait")
         \/ SwapTasks(t, c, "swap_event", "event") \/ SwapTasks(t, c, "exited", "exited")
  PROVE  TypeInv'
<1> USE DEF Goto
<1>0. SchedTypes /\ ProcTypes /\ CpuTypes /\ CallTypes /\ InputTypes /\ Operands /\ events <= keys
  BY DEF TypeInv, TypeOK
<1>a. arg \in [Tasks -> WaitPids]
  BY <1>0 DEF CallTypes
<1>1. ASSUME NEW from, NEW to \in {"user", "vfork_block"}, MarkReady(t, c, from, to) PROVE TypeInv'
  <2>1. SchedTypes'
    BY <1>0, <1>1 DEF MarkReady, SchedTypes
  <2> QED
    BY <1>0, <1>a, <1>1, <2>1, OwnFieldsType
    DEF MarkReady, PCs, ExitSteps, procs, cpus, input, ProcTypes, CpuTypes, InputTypes
<1>2. ASSUME NEW type \in BlockTypes, NEW x \in WaitPids,
             NEW p \in {"swap", "swap_wait", "swap_event"},
             Block(t, type, x), pc' = [pc EXCEPT ![t] = p], UNCHANGED <<procs, cpus, arg, input>>
      PROVE  TypeInv'
  <2>1. SchedTypes' /\ UNCHANGED list
    BY <1>2, BlockType DEF Block
  <2> QED
    BY <1>0, <1>a, <1>2, <2>1, OwnFieldsType
    DEF PCs, ExitSteps, procs, cpus, input, ProcTypes, CpuTypes, InputTypes
<1>3. CASE VforkBlock(t, c) \/ WaitBlock(t, c) \/ EventBlock(t, c)
  BY <1>a, <1>2, <1>3 DEF VforkBlock, WaitBlock, EventBlock, BlockTypes, WaitPids
<1>4. CASE SleepBlock(t, c)
  <2>1. SchedTypes'
    BY <1>0, <1>4 DEF SleepBlock, SchedTypes, TaskStates
  <2> QED
    BY <1>0, <1>a, <1>4, <2>1, OwnFieldsType
    DEF SleepBlock, PCs, ExitSteps, procs, cpus, input, ProcTypes, CpuTypes, InputTypes
<1>5. CASE EventRead(t, c)
  <2>1. UNCHANGED <<sched, procs, cpus, arg, keys, irq>>
    BY <1>5 DEF EventRead
  <2>2. events' \in 0..MaxKeys /\ events' <= keys'
    BY <1>0, <1>5, <2>1, SchedulerConstants DEF EventRead, InputTypes
  <2>3. InputTypes'
    BY <1>0, <2>1, <2>2 DEF InputTypes
  <2>4. PICK p \in {"event_block", "user"} : pc' = [pc EXCEPT ![t] = p]
    BY <1>5 DEF EventRead
  <2> QED
    BY <1>0, <1>a, <2>1, <2>2, <2>3, <2>4, OwnFieldsType
    DEF PCs, ExitSteps, sched, procs, cpus, SchedTypes, ProcTypes, CpuTypes
<1>6. ASSUME NEW call \in {"wait", "wnohang"}, WaitScan(t, c, call) PROVE TypeInv'
  <2>1. UNCHANGED <<sched, procs, cpus, input>>
    BY <1>6 DEF WaitScan
  <2>2. CASE \E u \in Tasks : FirstZombie(t, u) /\ arg' = [arg EXCEPT ![t] = u]
             /\ pc' = [pc EXCEPT ![t] = "reap"]
    <3>1. PICK u \in Tasks : /\ FirstZombie(t, u) /\ arg' = [arg EXCEPT ![t] = u]
                             /\ pc' = [pc EXCEPT ![t] = "reap"]
      BY <2>2
    <3>2. u < currentPid
      BY <3>1 DEF FirstZombie, TypeInv, ListIsLiveTasks, Range
    <3>3. CallTypes' /\ Operands'
      BY <1>0, <2>1, <3>1, <3>2 DEF CallTypes, Operands, PCs, procs, WaitPids
    <3>4. SchedTypes' /\ ProcTypes' /\ CpuTypes' /\ InputTypes' /\ events' <= keys'
      BY <1>0, <2>1 DEF sched, procs, cpus, input, SchedTypes, ProcTypes, CpuTypes, InputTypes
    <3> QED
      BY <2>1, <3>3, <3>4, QuietType DEF TypeOK, sched, procs
  <2>3. CASE UNCHANGED arg /\ \E p \in {"user", "wait_block"} : pc' = [pc EXCEPT ![t] = p]
    BY <1>0, <1>a, <2>1, <2>3, OwnFieldsType
    DEF PCs, ExitSteps, sched, procs, cpus, input, SchedTypes, ProcTypes, CpuTypes, InputTypes
  <2> QED
    BY <1>6, <2>2, <2>3 DEF WaitScan
<1>7. CASE Reap(t, c)
  <2>1. /\ arg[t] \in Tasks /\ arg[t] < currentPid
        /\ list' = Without(list, arg[t]) /\ deleted' = deleted \cup {arg[t]}
        /\ pc' = [pc EXCEPT ![t] = "user"]
        /\ UNCHANGED <<tstate, prevst, ready, counter, btype, bctx, until,
                       ppid, pgid, freed, currentPid, cpus, arg, input>>
    BY <1>0, <1>7 DEF Reap, At, Operands
  <2>2. list' \in Seq(Tasks) /\ ListIsLiveTasks'
    BY <2>1, DeleteList
  <2>3. SchedTypes' /\ ProcTypes' /\ CpuTypes' /\ InputTypes'
    BY <1>0, <2>1, <2>2 DEF SchedTypes, ProcTypes, CpuTypes, InputTypes, cpus, input
  <2>4. CallTypes' /\ Operands'
    BY <1>0, <2>1 DEF CallTypes, Operands, PCs
  <2>5. events' <= keys' /\ NInit < currentPid' /\ \A x \in deleted' : x < currentPid'
    BY <2>1 DEF TypeInv, input
  <2> QED
    BY <2>2, <2>3, <2>4, <2>5 DEF TypeInv, TypeOK
<1>8. ASSUME NEW from, NEW to \in {"user", "wait", "event", "exited"}, SwapTasks(t, c, from, to)
      PROVE  TypeInv'
  BY <1>0, <1>8, ExecuteKeeps DEF SwapTasks, PCs, ExitSteps, SchedTypes
<1> QED
  BY <1>1, <1>3, <1>4, <1>5, <1>6, <1>7, <1>8

\* The steps of exit().
LEMMA ExitType ==
  ASSUME TypeInv, NEW t \in Tasks, NEW c \in CPUs,
         \/ ExitZombie(t, c) \/ ExitFree(t, c) \/ ExitWake(t, c) \/ ExitLeave(t, c)
  PROVE  TypeInv'
<1> USE DEF Goto
<1>0. SchedTypes /\ ProcTypes /\ CpuTypes /\ CallTypes /\ InputTypes /\ Operands /\ events <= keys
  BY DEF TypeInv, TypeOK
<1>1. CASE ExitZombie(t, c)
  <2>1. PICK v \in Tasks : /\ tstate' = [tstate EXCEPT ![v] = "ZOMBIE"]
                           /\ arg' = [arg EXCEPT ![t] = v]
    BY <1>1 DEF ExitZombie
  <2>2. SchedTypes' /\ ProcTypes' /\ CpuTypes' /\ InputTypes' /\ events' <= keys'
    BY <1>0, <1>1, <2>1 DEF ExitZombie, procs, cpus, input, SchedTypes, ProcTypes, CpuTypes,
                            InputTypes, TaskStates
  <2>3. CallTypes' /\ Operands'
    BY <1>0, <1>1, <2>1 DEF ExitZombie, CallTypes, Operands, PCs, ExitSteps, procs, WaitPids
  <2> QED
    BY <1>1, <2>2, <2>3, QuietType DEF ExitZombie, TypeOK, procs
<1>2. CASE ExitFree(t, c)
  <2>1. SchedTypes' /\ CpuTypes' /\ InputTypes' /\ events' <= keys'
    BY <1>0, <1>2 DEF ExitFree, sched, cpus, input, SchedTypes, CpuTypes, InputTypes
  <2>2. ProcTypes'
    BY <1>0, <1>2 DEF ExitFree, At, Operands, ProcTypes
  <2>3. CallTypes' /\ Operands'
    BY <1>0, <1>2 DEF ExitFree, At, CallTypes, Operands, PCs, ExitSteps
  <2> QED
    BY <1>2, <2>1, <2>2, <2>3, QuietType DEF ExitFree, TypeOK, sched
<1>3. CASE ExitWake(t, c)
  <2>1. SchedTypes' /\ ProcTypes' /\ CpuTypes' /\ InputTypes' /\ events' <= keys'
    BY <1>0, <1>3 DEF ExitWake, WakeWaitingTasks, procs, cpus, input, SchedTypes, ProcTypes,
                      CpuTypes, InputTypes, TaskStates
  <2>3. CallTypes' /\ Operands'
    BY <1>0, <1>3 DEF ExitWake, At, CallTypes, Operands, PCs, ExitSteps, procs
  <2> QED
    BY <1>3, <2>1, <2>3, QuietType DEF ExitWake, TypeOK, procs
<1>4. CASE ExitLeave(t, c)
  <2>1. /\ arg[t] \in Tasks
        /\ UNCHANGED <<tstate, prevst, ready, counter, btype, bctx, until,
                       ppid, pgid, freed, currentPid, next, on, arg, input>>
    BY <1>0, <1>4 DEF ExitLeave, At, Operands
  <2>2. /\ list' \in Seq(Tasks) /\ deleted' \in SUBSET Tasks /\ ListIsLiveTasks'
        /\ \A x \in deleted' : x < currentPid
    <3>1. CASE arg[t] \in Kernel
      <4>1. arg[t] < currentPid
        <5>0. Kernel \subseteq InitTasks /\ NInit \in Tasks /\ MaxPid \in Nat
          BY SchedulerConstants
        <5>1. NInit \in Nat
          BY <5>0 DEF Tasks
        <5>3. currentPid \in Nat
          BY <1>0, <5>0 DEF ProcTypes
        <5>4. arg[t] \in 1..NInit
          BY <3>1, <5>0 DEF InitTasks
        <5>2. NInit < currentPid
          BY DEF TypeInv
        <5> QED
          BY <5>1, <5>2, <5>3, <5>4
      <4>2. list' = Without(list, arg[t]) /\ deleted' = deleted \cup {arg[t]}
        BY <1>4, <3>1 DEF ExitLeave
      <4>3. list' \in Seq(Tasks) /\ ListIsLiveTasks'
        BY <2>1, <4>2, DeleteList
      <4> QED
        BY <1>0, <2>1, <4>1, <4>2, <4>3 DEF TypeInv, ProcTypes
    <3>2. CASE arg[t] \notin Kernel
      BY <1>0, <1>4, <2>1, <3>2 DEF ExitLeave, TypeInv, SchedTypes, ProcTypes, ListIsLiveTasks, Range
    <3> QED
      BY <3>1, <3>2
  <2>3. SchedTypes' /\ ProcTypes' /\ InputTypes' /\ events' <= keys'
    BY <1>0, <2>1, <2>2 DEF SchedTypes, ProcTypes, InputTypes, input
  <2>4. CpuTypes'
    BY <1>0, <1>4, <2>1 DEF ExitLeave, CpuTypes
  <2>5. PICK p \in {"exit_next", "exited", "user"} : pc' = [pc EXCEPT ![t] = p]
    BY <1>4 DEF ExitLeave
  <2>6. CallTypes' /\ Operands'
    BY <1>0, <2>1, <2>5 DEF CallTypes, Operands, PCs, ExitSteps
  <2> QED
    BY <2>1, <2>2, <2>3, <2>4, <2>6 DEF TypeInv, TypeOK
<1> QED
  BY <1>1, <1>2, <1>3, <1>4

\* Interrupts and task switches.
LEMMA CpuType ==
  ASSUME TypeInv, \/ \E c \in CPUs : Tick(c) \/ RunTask(c)
                  \/ KeyWrite \/ KeyWake
  PROVE  TypeInv'
<1>0. SchedTypes /\ ProcTypes /\ CpuTypes /\ CallTypes /\ InputTypes /\ Operands /\ events <= keys
  BY DEF TypeInv, TypeOK
<1>1. ASSUME NEW c \in CPUs, Tick(c) PROVE TypeInv'
  <2>1. Charged(c) \in [Tasks -> 0..DefaultCount]
    BY <1>0, SchedulerConstants DEF Charged, SchedTypes
  <2>2. Aged(c) \in [Tasks -> Expired..NoDeadline]
    BY <1>0, SchedulerConstants DEF Aged, SchedTypes, Expired, NoDeadline
  <2>3. CASE ExecuteNextTask(c, Charged(c), Aged(c)) /\ UNCHANGED calls
    <3>1. 1 \in Tasks /\ "user" \in PCs \ {"reap", "exit_free", "exit_wake", "exit_leave"}
      BY SchedulerConstants DEF Tasks, PCs
    <3> QED
      BY <2>1, <2>2, <2>3, <3>1, ExecuteKeeps DEF calls
  <2>4. CASE counter' = Charged(c) /\ until' = Aged(c)
             /\ UNCHANGED <<list, tstate, prevst, ready, btype, bctx, procs, cpus, calls, input>>
    <3>1. SchedTypes' /\ ProcTypes' /\ CpuTypes' /\ CallTypes' /\ InputTypes' /\ events' <= keys'
      BY <1>0, <2>1, <2>2, <2>4 DEF procs, cpus, calls, input, SchedTypes, ProcTypes, CpuTypes,
                                    CallTypes, InputTypes
    <3>2. Operands'
      BY <1>0, <2>4 DEF Operands, procs, calls
    <3> QED
      BY <2>4, <3>1, <3>2, QuietType DEF TypeOK, procs
  <2> QED
    BY <1>1, <2>3, <2>4 DEF Tick
<1>2. ASSUME NEW c \in CPUs, RunTask(c) PROVE TypeInv'
  <2>1. SchedTypes' /\ ProcTypes' /\ CallTypes' /\ InputTypes' /\ Operands' /\ events' <= keys'
    BY <1>0, <1>2 DEF RunTask, sched, procs, calls, input, SchedTypes, ProcTypes, CallTypes,
                      InputTypes, Operands
  <2>2. CpuTypes'
    BY <1>0, <1>2, Distinct DEF RunTask, CpuTypes
  <2> QED
    BY <1>2, <2>1, <2>2, QuietType DEF RunTask, TypeOK, sched, procs
<1>3. CASE KeyWrite
  <2>1. SchedTypes' /\ ProcTypes' /\ CpuTypes' /\ CallTypes' /\ Operands'
    BY <1>0, <1>3 DEF KeyWrite, sched, procs, cpus, calls, SchedTypes, ProcTypes, CpuTypes,
                      CallTypes, Operands
  <2>2. events' \in 0..MaxKeys /\ keys' \in 0..MaxKeys /\ events' <= keys' /\ irq' = TRUE
    BY <1>0, <1>3, SchedulerConstants DEF KeyWrite, InputTypes
  <2>3. InputTypes'
    BY <2>2 DEF InputTypes
  <2> QED
    BY <1>3, <2>1, <2>2, <2>3, QuietType DEF KeyWrite, TypeOK, sched, procs
<1>4. CASE KeyWake
  <2>1. SchedTypes'
    BY <1>0, <1>4 DEF KeyWake, WakeBlockedTasks, SchedTypes, TaskStates
  <2>2. ProcTypes' /\ CpuTypes' /\ CallTypes' /\ InputTypes' /\ Operands' /\ events' <= keys'
    BY <1>0, <1>4 DEF KeyWake, procs, cpus, calls, ProcTypes, CpuTypes, CallTypes, InputTypes,
                      Operands
  <2> QED
    BY <1>4, <2>1, <2>2, QuietType DEF KeyWake, TypeOK, procs
<1> QED
  BY <1>1, <1>2, <1>3, <1>4

\* Every step preserves the type invariant.
LEMMA NextType == ASSUME TypeInv, [Next]_vars PROVE TypeInv'
<1>1. CASE UNCHANGED vars
  BY <1>1 DEF vars, sched, procs, cpus, calls, input, TypeInv, TypeOK, SchedTypes, ProcTypes,
              CpuTypes, CallTypes, InputTypes, Operands, ListIsLiveTasks, Range
<1>2. CASE Next
  BY <1>2, CpuType, EnterType, ResumeType, ExitType DEF Next, Resume
<1> QED
  BY <1>1, <1>2

\* Whatever system calls the tasks issue, and however many CPUs there are,
\* the scheduler's fields keep their types.
THEOREM SchedulerTypes == Spec => []TypeOK
<1>1. Init => TypeInv
  BY InitType
<1>2. TypeInv /\ [Next]_vars => TypeInv'
  BY NextType
<1>3. TypeInv => TypeOK
  BY DEF TypeInv
<1> QED
  BY <1>1, <1>2, <1>3, PTL DEF Spec

\* Fork, wait4 and the exit of a kernel thread keep the task list intact on
\* any number of CPUs: every task created and not yet deleted is on it, once.
THEOREM TaskListIntact == Spec => []ListIsLiveTasks
<1>1. Init => TypeInv
  BY InitType
<1>2. TypeInv /\ [Next]_vars => TypeInv'
  BY NextType
<1>3. TypeInv => ListIsLiveTasks
  BY DEF TypeInv
<1> QED
  BY <1>1, <1>2, <1>3, PTL DEF Spec

-----------------------------------------------------------------------------
(* What _execute_next_task may do, for the properties of single tasks.     *)

\* The task it hands out is on the list, ready, and RUNNING; a blocked or dead
\* task whose deadline has not passed is left alone, and one whose deadline
\* has passed loses the deadline.
LEMMA ExecuteEffect ==
  ASSUME TypeInv, NEW c \in CPUs, NEW cnt, NEW u \in [Tasks -> Expired..NoDeadline],
         ExecuteNextTask(c, cnt, u)
  PROVE  /\ \/ next' = [next EXCEPT ![c] = Idle]
            \/ \E t \in Tasks : /\ next' = [next EXCEPT ![c] = t]
                                /\ ready[t] /\ t \in Range(list) /\ tstate'[t] = "RUNNING"
         /\ \A t \in Tasks :
              /\ u[t] # Expired /\ tstate[t] \in {"BLOCKED", "ZOMBIE"} => tstate'[t] = tstate[t]
              /\ until'[t] = u[t] \/ until'[t] = NoDeadline
              /\ tstate[t] = "BLOCKED" => tstate'[t] = "BLOCKED" \/ until'[t] = NoDeadline
              /\ tstate'[t] = "ZOMBIE" => tstate[t] = "ZOMBIE" \/ prevst[t] = "ZOMBIE"
         /\ UNCHANGED <<list, prevst, ready, btype, bctx, procs, current, on, input>>
<1> DEFINE st == SaveTask(c)
           rst == ResetState(c, st, u)
           run == ResetUntil(c, st, u)
           Left(s, d) ==
             \A t \in Tasks :
               /\ u[t] # Expired /\ tstate[t] \in {"BLOCKED", "ZOMBIE"} => s[t] = tstate[t]
               /\ d[t] = u[t] \/ d[t] = NoDeadline
               /\ tstate[t] = "BLOCKED" => s[t] = "BLOCKED" \/ d[t] = NoDeadline
               /\ s[t] = "ZOMBIE" => tstate[t] = "ZOMBIE" \/ prevst[t] = "ZOMBIE"
<1>1. /\ st \in [Tasks -> TaskStates]
      /\ \A t \in Tasks : st[t] = IF t = current[c] /\ tstate[t] = "RUNNING"
                                  THEN "PAUSED" ELSE tstate[t]
  BY DEF SaveTask, TaskStates, TypeInv, TypeOK, SchedTypes
<1>2. Left(st, u)
  BY <1>1
<1>3. rst \in [Tasks -> TaskStates] /\ Left(rst, run)
  <2>1. prevst \in [Tasks -> TaskStates]
    BY DEF TypeInv, TypeOK, SchedTypes
  <2>2. \A t \in Tasks :
          \/ rst[t] = st[t] /\ run[t] = u[t]
          \/ /\ u[t] = Expired /\ run[t] = NoDeadline
             /\ rst[t] = IF prevst[t] = "RUNNING" THEN "PAUSED" ELSE prevst[t]
    BY DEF ResetState, ResetUntil
  <2>3. rst \in [Tasks -> TaskStates]
    BY <1>1, <2>1 DEF ResetState, TaskStates
  <2> HIDE DEF st, rst, run
  <2> QED
    BY <1>1, <2>1, <2>2, <2>3
<1> HIDE DEF Left, st, rst, run
<1>4. PICK s, n, d :
        /\ s \in [Tasks -> TaskStates] /\ Left(s, d)
        /\ \/ ChooseIdle(c, s, n, d)
           \/ \E t \in Tasks : GetFreeTask(t, c, s, n) /\ Choose(t, c, s, n, d)
  <2> USE DEF st, rst, run
  <2>1. \/ \E t \in Tasks : GetFreeTask(t, c, st, cnt) /\ Choose(t, c, st, cnt, u)
        \/ \E t \in Tasks : /\ GetFreeTask(t, c, rst, ResetCounter(c, st, cnt))
                            /\ Choose(t, c, rst, ResetCounter(c, st, cnt), run)
        \/ ChooseIdle(c, rst, ResetCounter(c, st, cnt), run)
    BY DEF ExecuteNextTask
  <2> HIDE DEF st, rst, run
  <2> QED
    BY <1>1, <1>2, <1>3, <2>1
<1>5. UNCHANGED <<list, prevst, ready, btype, bctx, procs, current, on, input>>
  BY DEF ExecuteNextTask
<1>6. CASE ChooseIdle(c, s, n, d)
  BY <1>4, <1>5, <1>6 DEF ChooseIdle, Left
<1>7. ASSUME NEW t \in Tasks, GetFreeTask(t, c, s, n), Choose(t, c, s, n, d)
      PROVE  /\ next' = [next EXCEPT ![c] = t] /\ ready[t] /\ t \in Range(list)
             /\ tstate'[t] = "RUNNING"
             /\ Left(tstate', until')
  <2>1. ready[t] /\ t \in Range(list) /\ s[t] \notin {"RUNNING", "BLOCKED", "ZOMBIE"}
    BY <1>7 DEF GetFreeTask, CanRun, Range
  <2>2. tstate' = [s EXCEPT ![t] = "RUNNING"] /\ until' = d /\ next' = [next EXCEPT ![c] = t]
    BY <1>7 DEF Choose
  <2> QED
    BY <1>4, <2>1, <2>2 DEF Left
<1> QED
  BY <1>4, <1>5, <1>6, <1>7 DEF Left

\* No step but mark_ready writes is_ready, and that one sets it.
LEMMA ReadyGrows ==
  ASSUME TypeInv, [Next]_vars, NEW t \in Tasks, ready[t] PROVE ready'[t]
<1>1. ready \in [Tasks -> BOOLEAN]
  BY DEF TypeInv, TypeOK, SchedTypes
<1>2. ASSUME NEW c \in CPUs, NEW cnt, NEW u, ExecuteNextTask(c, cnt, u) PROVE ready' = ready
  BY <1>2 DEF ExecuteNextTask
<1>3. ASSUME NEW c \in CPUs, NEW v \in Tasks, NEW from, NEW to, MarkReady(v, c, from, to)
      PROVE  ready'[t]
  BY <1>1, <1>3 DEF MarkReady
<1>4. ASSUME NEW c \in CPUs, NEW v \in Tasks, Enter(v, c) PROVE ready' = ready
  BY <1>2, <1>4
  DEF Enter, Yield, SwapTasks, ForkProcess, SleepDeadline, EventEnter, WaitEnter, Setpgid,
      ExitEnter, sched
<1>5. ASSUME NEW c \in CPUs, NEW v \in Tasks, Resume(v, c) PROVE ready'[t]
  <2>1. CASE MarkReady(v, c, "fork", "user") \/ MarkReady(v, c, "vfork", "vfork_block")
    BY <1>3, <2>1
  <2>2. CASE \/ VforkBlock(v, c) \/ SleepBlock(v, c) \/ EventRead(v, c) \/ EventBlock(v, c)
             \/ WaitScan(v, c, "wait") \/ WaitScan(v, c, "wnohang") \/ WaitBlock(v, c) \/ Reap(v, c)
             \/ ExitZombie(v, c) \/ ExitFree(v, c) \/ ExitWake(v, c) \/ ExitLeave(v, c)
    BY <2>2 DEF VforkBlock, SleepBlock, EventRead, EventBlock, WaitScan, WaitBlock, Reap,
                Block, ExitZombie, ExitFree, ExitWake, ExitLeave, sched
  <2>3. ASSUME NEW from, NEW to, SwapTasks(v, c, from, to) PROVE ready'[t]
    BY <1>2, <2>3 DEF SwapTasks
  <2> QED
    BY <1>5, <2>1, <2>2, <2>3 DEF Resume
<1>6. ASSUME NEW c \in CPUs, Tick(c) \/ RunTask(c) PROVE ready' = ready
  BY <1>2, <1>6 DEF Tick, RunTask, sched
<1>7. CASE UNCHANGED vars \/ KeyWrite \/ KeyWake
  BY <1>7 DEF vars, sched, KeyWrite, KeyWake
<1> QED
  BY <1>4, <1>5, <1>6, <1>7 DEF Next

\* A step that is neither a task switch nor the end of one leaves every CPU
\* with the task it had.
LEMMA OthersKeepCpus ==
  ASSUME NEW v \in Tasks, NEW c \in CPUs,
         \/ ForkProcess(v, c, "fork") \/ ForkProcess(v, c, "vfork")
         \/ SleepDeadline(v, c) \/ EventEnter(v, c)
         \/ WaitEnter(v, c, "wait") \/ WaitEnter(v, c, "wnohang")
         \/ Setpgid(v, c) \/ ExitEnter(v, c)
         \/ MarkReady(v, c, "fork", "user") \/ MarkReady(v, c, "vfork", "vfork_block")
         \/ VforkBlock(v, c) \/ SleepBlock(v, c) \/ EventRead(v, c) \/ EventBlock(v, c)
         \/ WaitScan(v, c, "wait") \/ WaitScan(v, c, "wnohang") \/ WaitBlock(v, c) \/ Reap(v, c)
         \/ ExitZombie(v, c) \/ ExitFree(v, c) \/ ExitWake(v, c) \/ ExitLeave(v, c)
  PROVE  UNCHANGED <<next, on>>
BY DEF ForkProcess, SleepDeadline, EventEnter, WaitEnter, Setpgid, ExitEnter, MarkReady,
       VforkBlock, SleepBlock, EventRead, EventBlock, WaitScan, WaitBlock, Reap,
       ExitZombie, ExitFree, ExitWake, ExitLeave, cpus

\* A CPU keeps its task, or goes idle, or takes a ready task from the list.
LEMMA HolderStep ==
  ASSUME TypeInv, [Next]_vars, NEW d \in CPUs
  PROVE  \/ Holder(d)' \in {Holder(d), Idle}
         \/ Holder(d)' \in Tasks /\ ready[Holder(d)'] /\ Holder(d)' \in Range(list)
<1> USE Distinct
<1>0. /\ next \in [CPUs -> Tasks \cup {None, Idle}] /\ on \in [CPUs -> Tasks \cup {Idle}]
      /\ until \in [Tasks -> Expired..NoDeadline]
  BY DEF TypeInv, TypeOK, CpuTypes, SchedTypes
<1>1. ASSUME NEW c \in CPUs, NEW cnt, NEW u \in [Tasks -> Expired..NoDeadline],
             ExecuteNextTask(c, cnt, u)
      PROVE  \/ Holder(d)' \in {Holder(d), Idle}
             \/ Holder(d)' \in Tasks /\ ready[Holder(d)'] /\ Holder(d)' \in Range(list)
  <2>1. /\ on' = on
        /\ \/ next' = [next EXCEPT ![c] = Idle]
           \/ \E t \in Tasks : /\ next' = [next EXCEPT ![c] = t]
                               /\ ready[t] /\ t \in Range(list)
    BY <1>1, ExecuteEffect
  <2> QED
    BY <1>0, <2>1 DEF Holder
<1>2. ASSUME NEW c \in CPUs, RunTask(c) PROVE Holder(d)' = Holder(d)
  BY <1>0, <1>2 DEF RunTask, Holder
<1>3. ASSUME NEW c \in CPUs, Tick(c)
      PROVE  \/ Holder(d)' \in {Holder(d), Idle}
             \/ Holder(d)' \in Tasks /\ ready[Holder(d)'] /\ Holder(d)' \in Range(list)
  <2>1. Aged(c) \in [Tasks -> Expired..NoDeadline]
    BY <1>0, SchedulerConstants DEF Aged, Expired, NoDeadline
  <2>2. CASE UNCHANGED cpus
    BY <2>2 DEF cpus, Holder
  <2> QED
    BY <1>1, <1>3, <2>1, <2>2 DEF Tick
<1>4. ASSUME NEW c \in CPUs, NEW v \in Tasks, NEW from, NEW to, SwapTasks(v, c, from, to)
      PROVE  \/ Holder(d)' \in {Holder(d), Idle}
             \/ Holder(d)' \in Tasks /\ ready[Holder(d)'] /\ Holder(d)' \in Range(list)
  BY <1>0, <1>1, <1>4 DEF SwapTasks
<1>5. CASE UNCHANGED <<next, on>>
  BY <1>5 DEF Holder
<1>6. ASSUME NEW c \in CPUs, NEW v \in Tasks, Enter(v, c) \/ Resume(v, c)
      PROVE  UNCHANGED <<next, on>> \/ \E from, to : SwapTasks(v, c, from, to)
  BY <1>6, OthersKeepCpus DEF Enter, Resume, Yield
<1>7. CASE UNCHANGED vars \/ KeyWrite \/ KeyWake
  BY <1>5, <1>7 DEF vars, cpus, KeyWrite, KeyWake
<1> QED
  BY <1>2, <1>3, <1>4, <1>5, <1>6, <1>7 DEF Next

\* A forked child is on the list from _create_task_structure on, but whatever
\* the tasks call and however many CPUs search the list, none takes it before
\* mark_ready, when fork_process has filled in its registers and stack.
THEOREM ChildReadyBeforeRun == Spec => []ReadyBeforeRun
<1> USE DEF ReadyBeforeRun
<1>1. Init => TypeInv /\ ReadyBeforeRun
  <2>1. Init => ReadyBeforeRun
    BY Distinct DEF Init, Holder
  <2> QED
    BY <2>1, InitType
<1>2. TypeInv /\ ReadyBeforeRun /\ [Next]_vars => (TypeInv /\ ReadyBeforeRun)'
  <2> SUFFICES ASSUME TypeInv, ReadyBeforeRun, [Next]_vars,
                      NEW c \in CPUs', Holder(c)' \in Tasks'
               PROVE  ready'[Holder(c)']
    BY NextType
  <2>1. \/ Holder(c)' = Holder(c)
        \/ Holder(c)' \in Tasks /\ ready[Holder(c)']
    BY HolderStep, Distinct DEF Tasks
  <2>2. Holder(c)' \in Tasks /\ ready[Holder(c)']
    BY <2>1 DEF Tasks
  <2> QED
    BY <2>2, ReadyGrows
<1> QED
  BY <1>1, <1>2, PTL DEF Spec

-----------------------------------------------------------------------------
(* Sleeping tasks.                                                         *)

\* Only ScheduleFor sets a deadline, and it sets the type of the block with it.
TimedIsPlain == \A t \in Tasks : until[t] # NoDeadline => btype[t] = "UNSPECIFIED"

\* What a step of the system may do to the task t that waits for its deadline.
StaysAsleep(t) ==
  /\ until'[t] # NoDeadline => btype'[t] = "UNSPECIFIED"
  /\ tstate[t] = "BLOCKED" /\ until[t] \in 1..MaxSleep => tstate'[t] \in {"BLOCKED", "ZOMBIE"}

LEMMA SleepStep ==
  ASSUME TypeInv, TimedIsPlain, [Next]_vars, NEW t \in Tasks PROVE StaysAsleep(t)
<1> DEFINE Near(u) == \/ u[t] = until[t]
                      \/ until[t] \notin {NoDeadline, Expired} /\ u[t] = until[t] - 1
<1>0. /\ until \in [Tasks -> Expired..NoDeadline] /\ btype \in [Tasks -> BlockTypes]
      /\ tstate \in [Tasks -> TaskStates] /\ NoDeadline = MaxSleep + 1 /\ Expired = -1
      /\ MaxSleep \in Nat
      /\ until[t] # NoDeadline => btype[t] = "UNSPECIFIED"
  BY SchedulerConstants DEF TypeInv, TypeOK, SchedTypes, NoDeadline, Expired, TimedIsPlain
<1>1. ASSUME NEW c \in CPUs, NEW cnt, NEW u \in [Tasks -> Expired..NoDeadline],
             Near(u),
             ExecuteNextTask(c, cnt, u)
      PROVE  StaysAsleep(t)
  <2>1. /\ u[t] # Expired /\ tstate[t] \in {"BLOCKED", "ZOMBIE"} => tstate'[t] = tstate[t]
        /\ until'[t] = u[t] \/ until'[t] = NoDeadline
        /\ btype' = btype
    BY <1>1, ExecuteEffect
  <2> QED
    BY <1>0, <1>1, <2>1 DEF StaysAsleep
<1>a. Near(until)
  OBVIOUS
<1>2. ASSUME NEW c \in CPUs, Tick(c) PROVE StaysAsleep(t)
  <2>1. /\ Aged(c) \in [Tasks -> Expired..NoDeadline]
        /\ Near(Aged(c))
    <3>1. Aged(c)[t] = IF c = BSP /\ until[t] \notin {NoDeadline, Expired}
                       THEN until[t] - 1 ELSE until[t]
      BY DEF Aged
    <3>2. Aged(c) \in [Tasks -> Expired..NoDeadline]
      BY <1>0 DEF Aged
    <3> QED
      BY <3>1, <3>2
  <2>2. CASE until' = Aged(c) /\ UNCHANGED <<tstate, btype>>
    BY <1>0, <2>1, <2>2 DEF StaysAsleep
  <2> HIDE DEF Near
  <2> QED
    BY <1>1, <1>2, <2>1, <2>2 DEF Tick
<1>3. ASSUME NEW c \in CPUs, NEW v \in Tasks, NEW from, NEW to, SwapTasks(v, c, from, to)
      PROVE  StaysAsleep(t)
  <2> HIDE DEF Near
  <2> QED
    BY <1>0, <1>1, <1>a, <1>3 DEF SwapTasks
<1>4. CASE UNCHANGED <<tstate, until, btype>>
  BY <1>0, <1>4 DEF StaysAsleep
<1>5. ASSUME NEW v \in Tasks, NEW type, NEW x, Block(v, type, x) PROVE StaysAsleep(t)
  BY <1>0, <1>5 DEF Block, StaysAsleep
<1>6. ASSUME NEW c \in CPUs, NEW v \in Tasks, Enter(v, c) PROVE StaysAsleep(t)
  <2>1. CASE SleepDeadline(v, c)
    BY <1>0, <2>1 DEF SleepDeadline, StaysAsleep
  <2>2. CASE \/ ForkProcess(v, c, "fork") \/ ForkProcess(v, c, "vfork") \/ EventEnter(v, c)
             \/ WaitEnter(v, c, "wait") \/ WaitEnter(v, c, "wnohang")
             \/ Setpgid(v, c) \/ ExitEnter(v, c)
    BY <1>4, <2>2 DEF ForkProcess, EventEnter, WaitEnter, Setpgid, ExitEnter, sched
  <2> QED
    BY <1>3, <1>6, <2>1, <2>2 DEF Enter, Yield
<1>7. ASSUME NEW c \in CPUs, NEW v \in Tasks, Resume(v, c) PROVE StaysAsleep(t)
  <2>1. CASE \/ MarkReady(v, c, "fork", "user") \/ MarkReady(v, c, "vfork", "vfork_block")
             \/ EventRead(v, c) \/ WaitScan(v, c, "wait") \/ WaitScan(v, c, "wnohang")
             \/ Reap(v, c) \/ ExitFree(v, c) \/ ExitLeave(v, c)
    BY <1>4, <2>1 DEF MarkReady, EventRead, WaitScan, Reap, ExitFree, ExitLeave, sched
  <2>2. CASE VforkBlock(v, c) \/ EventBlock(v, c) \/ WaitBlock(v, c)
    BY <1>5, <2>2 DEF VforkBlock, EventBlock, WaitBlock
  <2>3. CASE SleepBlock(v, c)
    BY <1>0, <2>3 DEF SleepBlock, StaysAsleep
  <2>4. CASE ExitZombie(v, c)
    BY <1>0, <2>4 DEF ExitZombie, StaysAsleep
  <2>5. CASE ExitWake(v, c)
    BY <1>0, <2>5 DEF ExitWake, WakeWaitingTasks, StaysAsleep
  <2> QED
    BY <1>3, <1>7, <2>1, <2>2, <2>3, <2>4, <2>5 DEF Resume
<1>8. CASE KeyWake
  BY <1>0, <1>8 DEF KeyWake, WakeBlockedTasks, StaysAsleep
<1>9. CASE UNCHANGED vars \/ KeyWrite \/ \E c \in CPUs : RunTask(c)
  BY <1>4, <1>9 DEF vars, KeyWrite, RunTask, sched
<1> QED
  BY <1>2, <1>6, <1>7, <1>8, <1>9 DEF Next

\* On any number of CPUs, and whatever is called, a task in ScheduleFor leaves
\* BLOCKED only at its deadline or by dying: the deadline and the type of the
\* block are written together, so no wake of another type finds it.
THEOREM SleepersNotWokenEarly == Spec => NoEarlyWake
<1>1. Init => TypeInv /\ TimedIsPlain
  <2>1. Init => TimedIsPlain
    BY DEF Init, TimedIsPlain
  <2> QED
    BY <2>1, InitType
<1>2. TypeInv /\ TimedIsPlain /\ [Next]_vars => (TypeInv /\ TimedIsPlain)'
  <2> SUFFICES ASSUME TypeInv, TimedIsPlain, [Next]_vars PROVE TimedIsPlain'
    BY NextType
  <2> QED
    BY SleepStep DEF TimedIsPlain, StaysAsleep, Tasks, NoDeadline
<1>3. TypeInv /\ TimedIsPlain /\ [Next]_vars =>
        [\A t \in Tasks :
           tstate[t] = "BLOCKED" /\ until[t] \in 1..MaxSleep
             => tstate'[t] \in {"BLOCKED", "ZOMBIE"}]_vars
  BY SleepStep DEF StaysAsleep
<1> QED
  BY <1>1, <1>2, <1>3, PTL DEF Spec, NoEarlyWake

-----------------------------------------------------------------------------
(* exit() and wait4 on one CPU.                                            *)

OnBsp(t) == on[BSP] = t /\ next[BSP] = None

\* exit() runs with interrupts off: the CPU is its caller's until it is over.
ExitHasCpu == \A t \in Tasks : pc[t] \in ExitSteps => OnBsp(t)

\* A kernel thread exits alone, and as the CPU's current task.
KernelExitsAlone ==
  \A t \in Kernel :
    pc[t] \in ExitSteps => current[BSP] = t /\ (pc[t] # "exit_next" => arg[t] = t)

\* What exit() has passed exit_free with, and what wait4 is about to delete.
FreedFirst ==
  \A t \in Tasks :
    /\ pc[t] \in {"exit_wake", "exit_leave"} => arg[t] \in freed
    /\ pc[t] = "reap" => arg[t] \in freed /\ arg[t] # t

\* A zombie has been freed, or the exit() that made it one is about to.
DeadIsFreed ==
  \A t \in Tasks :
    "ZOMBIE" \in {tstate[t], prevst[t]}
      => t \in freed \/ \E v \in Tasks : pc[v] = "exit_free" /\ arg[v] = t

\* The task the CPU executes exists, unless it is a kernel thread at the very
\* end of exit(), which deletes itself.
HolderLives ==
  Holder(BSP) \in Tasks /\ pc[Holder(BSP)] # "exited" => Holder(BSP) \notin deleted

ExitInvariant ==
  ExitHasCpu /\ KernelExitsAlone /\ FreedFirst /\ DeadIsFreed /\ HolderLives /\ ExitOwnsTask

\* A task switch: no exit() is in progress.
LEMMA ExecuteExit ==
  ASSUME CPUs = {BSP}, TypeInv, ExitInvariant,
         next[BSP] = None, on[BSP] \in Tasks => pc[on[BSP]] \notin ExitSteps,
         NEW cnt, NEW u \in [Tasks -> Expired..NoDeadline], ExecuteNextTask(BSP, cnt, u),
         UNCHANGED arg,
         \/ pc' = pc
         \/ \E t \in Tasks, p \in PCs \ (ExitSteps \cup {"reap"}) : pc' = [pc EXCEPT ![t] = p]
  PROVE  ExitInvariant'
<1> USE DEF ExitInvariant
<1>0. /\ pc \in [Tasks -> PCs] /\ tstate \in [Tasks -> TaskStates]
      /\ next \in [CPUs -> Tasks \cup {None, Idle}]
  BY DEF TypeInv, TypeOK, CallTypes, SchedTypes, CpuTypes
<1>1. \A t \in Tasks : pc[t] \notin ExitSteps
  BY DEF ExitHasCpu, OnBsp
<1>2. \A t \in Tasks : pc'[t] \notin ExitSteps /\ (pc'[t] = "reap" => pc[t] = "reap")
  BY <1>0, <1>1
<1>3. /\ \/ next' = [next EXCEPT ![BSP] = Idle]
         \/ \E t \in Tasks : next' = [next EXCEPT ![BSP] = t] /\ t \in Range(list)
      /\ \A t \in Tasks : tstate'[t] = "ZOMBIE" => tstate[t] = "ZOMBIE" \/ prevst[t] = "ZOMBIE"
      /\ UNCHANGED <<prevst, freed, deleted>>
  BY ExecuteEffect, SchedulerConstants DEF procs
<1>4. HolderLives'
  BY <1>0, <1>3, Distinct, SchedulerConstants DEF HolderLives, Holder, TypeInv, ListIsLiveTasks
<1>5. FreedFirst'
  BY <1>2, <1>3 DEF FreedFirst, ExitSteps
<1>6. DeadIsFreed'
  <2>1. \A t \in Tasks : "ZOMBIE" \in {tstate[t], prevst[t]} => t \in freed
    BY <1>1 DEF DeadIsFreed, ExitSteps
  <2> QED
    BY <1>3, <2>1 DEF DeadIsFreed
<1>7. ExitHasCpu' /\ KernelExitsAlone' /\ ExitOwnsTask'
  <2>1. Kernel \subseteq Tasks
    BY SchedulerConstants DEF InitTasks, Tasks
  <2> QED
    BY <1>2, <1>3, <2>1 DEF ExitHasCpu, KernelExitsAlone, ExitOwnsTask, ExitSteps
<1> QED
  BY <1>4, <1>5, <1>6, <1>7

\* A step of the task on the CPU outside exit(): it may block itself and look
\* for a zombie to reap.
CallStep(t, p) ==
  /\ OnBsp(t) /\ pc[t] \notin ExitSteps \cup {"exited"}
  /\ p \in PCs \ {"exit_free", "exit_wake", "exit_leave", "exited"}
  /\ pc' = [pc EXCEPT ![t] = p]
  /\ p = "exit_next" => current[BSP] = t
  /\ \A v \in Tasks \ {t} : arg'[v] = arg[v]
  /\ p = "reap" => arg'[t] \in freed /\ arg'[t] # t
  /\ \A v \in Tasks : "ZOMBIE" \in {tstate'[v], prevst'[v]} => "ZOMBIE" \in {tstate[v], prevst[v]}
  /\ deleted' = deleted \/ (pc[t] = "reap" /\ deleted' = deleted \cup {arg[t]})
  /\ UNCHANGED <<freed, cpus>>

LEMMA CallExit ==
  ASSUME CPUs = {BSP}, TypeInv, ExitInvariant, NEW t \in Tasks, NEW p, CallStep(t, p)
  PROVE  ExitInvariant'
<1> USE DEF ExitInvariant, CallStep
<1>0. pc \in [Tasks -> PCs] /\ Kernel \subseteq Tasks
  BY SchedulerConstants DEF TypeInv, TypeOK, CallTypes, InitTasks, Tasks
<1>1. \A v \in Tasks : pc[v] \notin ExitSteps
  BY DEF ExitHasCpu, OnBsp
<1>2. \A v \in Tasks : pc'[v] \in ExitSteps => v = t /\ p = "exit_next"
  BY <1>0, <1>1 DEF ExitSteps
<1>3. HolderLives'
  <2>1. Holder(BSP)' = t /\ Holder(BSP) = t
    BY DEF Holder, OnBsp, cpus
  <2>2. t \notin deleted
    BY <2>1 DEF HolderLives
  <2>3. pc[t] = "reap" => arg[t] # t
    BY DEF FreedFirst
  <2> QED
    BY <2>1, <2>2, <2>3 DEF HolderLives
<1>4. ExitHasCpu' /\ KernelExitsAlone'
  BY <1>0, <1>2 DEF ExitHasCpu, KernelExitsAlone, OnBsp, cpus
<1>5. FreedFirst'
  BY <1>0, <1>2 DEF FreedFirst, ExitSteps
<1>6. DeadIsFreed'
  <2>1. \A v \in Tasks : "ZOMBIE" \in {tstate[v], prevst[v]} => v \in freed
    BY <1>1 DEF DeadIsFreed, ExitSteps
  <2> QED
    BY <2>1 DEF DeadIsFreed
<1>7. ExitOwnsTask'
  <2>1. pc[t] = "reap" => arg[t] \in freed
    BY DEF FreedFirst
  <2> QED
    BY <1>2, <2>1 DEF ExitOwnsTask, ExitSteps
<1> QED
  BY <1>3, <1>4, <1>5, <1>6, <1>7

\* The steps of exit().
LEMMA ExitExit ==
  ASSUME CPUs = {BSP}, TypeInv, ExitInvariant, NEW t \in Tasks,
         \/ ExitZombie(t, BSP) \/ ExitFree(t, BSP) \/ ExitWake(t, BSP) \/ ExitLeave(t, BSP)
  PROVE  ExitInvariant'
<1> USE DEF ExitInvariant, Goto
<1>0. /\ pc \in [Tasks -> PCs] /\ arg \in [Tasks -> WaitPids]
      /\ tstate \in [Tasks -> TaskStates] /\ current \in [CPUs -> Tasks \cup {None, Idle}]
      /\ Kernel \subseteq Tasks
  <2>1. Kernel \subseteq Tasks
    BY SchedulerConstants DEF InitTasks, Tasks
  <2> QED
    BY <2>1 DEF TypeInv, TypeOK, CallTypes, SchedTypes, CpuTypes
<1>1. on[BSP] = t /\ next[BSP] = None /\ pc[t] \in ExitSteps
  BY DEF ExitZombie, ExitFree, ExitWake, ExitLeave, At, ExitSteps
<1>2. \A v \in Tasks : v # t => pc[v] \notin ExitSteps
  BY <1>1 DEF ExitHasCpu, OnBsp
<1>3. t \notin deleted
  BY <1>1 DEF HolderLives, Holder, ExitSteps
<1>4. CASE ExitZombie(t, BSP)
  <2>1. PICK v \in Tasks : /\ NextVictim(t, v) /\ tstate' = [tstate EXCEPT ![v] = "ZOMBIE"]
                           /\ arg' = [arg EXCEPT ![t] = v]
    BY <1>4 DEF ExitZombie
  <2>2. /\ pc[t] = "exit_next" /\ pc' = [pc EXCEPT ![t] = "exit_free"]
        /\ UNCHANGED <<prevst, freed, deleted, cpus>>
    BY <1>4 DEF ExitZombie, At, procs
  <2>3. v \notin deleted /\ (t \in Kernel => v = t)
    BY <1>3, <2>1 DEF NextVictim, TypeInv, ListIsLiveTasks, Range
  <2>4. ExitHasCpu' /\ HolderLives'
    BY <1>0, <1>1, <1>2, <1>3, <2>2 DEF ExitHasCpu, OnBsp, HolderLives, Holder, cpus
  <2>5. KernelExitsAlone'
    BY <1>0, <1>1, <1>2, <2>1, <2>2, <2>3 DEF KernelExitsAlone, cpus, ExitSteps
  <2>6. FreedFirst'
    BY <1>0, <2>1, <2>2 DEF FreedFirst
  <2>7. DeadIsFreed'
    BY <1>0, <2>1, <2>2 DEF DeadIsFreed
  <2>8. ExitOwnsTask'
    BY <1>0, <2>1, <2>2, <2>3 DEF ExitOwnsTask
  <2> QED
    BY <2>4, <2>5, <2>6, <2>7, <2>8
<1>5. CASE ExitFree(t, BSP)
  <2>1. /\ pc[t] = "exit_free" /\ pc' = [pc EXCEPT ![t] = "exit_wake"]
        /\ freed' = freed \cup {arg[t]} /\ UNCHANGED <<tstate, prevst, deleted, cpus, arg>>
    BY <1>5 DEF ExitFree, At, sched
  <2>2. ExitHasCpu' /\ HolderLives' /\ KernelExitsAlone'
    BY <1>0, <1>1, <1>2, <1>3, <2>1
    DEF ExitHasCpu, OnBsp, HolderLives, Holder, KernelExitsAlone, cpus, ExitSteps
  <2>3. FreedFirst' /\ ExitOwnsTask'
    BY <1>0, <2>1 DEF FreedFirst, ExitOwnsTask
  <2>4. DeadIsFreed'
    BY <1>0, <1>2, <2>1 DEF DeadIsFreed, ExitSteps
  <2> QED
    BY <2>2, <2>3, <2>4
<1>6. CASE ExitWake(t, BSP)
  <2>1. /\ pc[t] = "exit_wake" /\ pc' = [pc EXCEPT ![t] = "exit_leave"]
        /\ UNCHANGED <<prevst, freed, deleted, cpus, arg>>
    BY <1>6 DEF ExitWake, At, procs
  <2>2. \A v \in Tasks : tstate'[v] = "ZOMBIE" => tstate[v] = "ZOMBIE"
    BY <1>0, <1>6 DEF ExitWake, WakeWaitingTasks
  <2>3. ExitHasCpu' /\ HolderLives' /\ KernelExitsAlone'
    BY <1>0, <1>1, <1>2, <1>3, <2>1
    DEF ExitHasCpu, OnBsp, HolderLives, Holder, KernelExitsAlone, cpus, ExitSteps
  <2>4. FreedFirst' /\ ExitOwnsTask'
    BY <1>0, <2>1 DEF FreedFirst, ExitOwnsTask
  <2>5. DeadIsFreed'
    BY <1>0, <2>1, <2>2 DEF DeadIsFreed
  <2> QED
    BY <2>3, <2>4, <2>5
<1>7. CASE ExitLeave(t, BSP)
  <2>1. /\ pc[t] = "exit_leave" /\ arg[t] \in Tasks
        /\ current' = [current EXCEPT ![BSP] = None]
        /\ UNCHANGED <<tstate, prevst, freed, next, on, arg>>
        /\ IF arg[t] \in Kernel THEN deleted' = deleted \cup {arg[t]} ELSE deleted' = deleted
    BY <1>7 DEF ExitLeave, At, TypeInv, Operands
  <2>2. PICK p \in {"exit_next", "exited", "user"} :
             /\ pc' = [pc EXCEPT ![t] = p]
             /\ arg[t] = t /\ current[BSP] = t => p = "exited"
             /\ arg[t] = t => p # "exit_next"
    BY <1>7 DEF ExitLeave
  <2>3. t \in Kernel => p = "exited"
    BY <1>1, <2>1, <2>2 DEF KernelExitsAlone
  <2>4. arg[t] \in freed
    BY <2>1 DEF FreedFirst
  <2>5. \A v \in Tasks : pc'[v] \in ExitSteps => v = t /\ p = "exit_next"
    BY <1>0, <1>2, <2>2 DEF ExitSteps
  <2>6. ExitHasCpu' /\ KernelExitsAlone'
    BY <1>0, <1>1, <2>1, <2>3, <2>5 DEF ExitHasCpu, KernelExitsAlone, OnBsp
  <2>7. HolderLives'
    BY <1>0, <1>1, <1>3, <2>1, <2>2, <2>3 DEF HolderLives, Holder
  <2>8. FreedFirst'
    BY <1>0, <2>1, <2>2 DEF FreedFirst
  <2>9. DeadIsFreed'
    BY <1>0, <2>1, <2>2 DEF DeadIsFreed
  <2>10. ExitOwnsTask'
    BY <1>0, <2>1, <2>2, <2>4, <2>5 DEF ExitOwnsTask, ExitSteps
  <2> QED
    BY <2>6, <2>7, <2>8, <2>9, <2>10
<1> QED
  BY <1>4, <1>5, <1>6, <1>7

\* Every step of a one-CPU system preserves the invariant.
LEMMA NextExit ==
  ASSUME CPUs = {BSP}, TypeInv, ExitInvariant, [Next]_vars PROVE ExitInvariant'
<1>0. /\ pc \in [Tasks -> PCs] /\ arg \in [Tasks -> WaitPids]
      /\ tstate \in [Tasks -> TaskStates] /\ prevst \in [Tasks -> TaskStates]
      /\ until \in [Tasks -> Expired..NoDeadline]
  BY DEF TypeInv, TypeOK, CallTypes, SchedTypes
<1>1. CASE Tick(BSP)
  <2>1. next[BSP] = None /\ (on[BSP] \in Tasks => pc[on[BSP]] \notin ExitSteps)
    BY <1>1 DEF Tick, InterruptsOn
  <2>2. Aged(BSP) \in [Tasks -> Expired..NoDeadline]
    BY <1>0, SchedulerConstants DEF Aged, Expired, NoDeadline
  <2>3. CASE ExecuteNextTask(BSP, Charged(BSP), Aged(BSP)) /\ UNCHANGED calls
    BY <2>1, <2>2, <2>3, ExecuteExit DEF calls
  <2>4. CASE UNCHANGED <<tstate, prevst, procs, cpus, calls>>
    BY <2>4 DEF procs, cpus, calls, ExitInvariant, ExitHasCpu, KernelExitsAlone, FreedFirst,
                DeadIsFreed, HolderLives, Holder, ExitOwnsTask, OnBsp
  <2> QED
    BY <1>1, <2>3, <2>4 DEF Tick
<1>2. CASE RunTask(BSP)
  <2>1. /\ next[BSP] # None
        /\ UNCHANGED <<tstate, prevst, freed, deleted, pc, arg>>
    BY <1>2 DEF RunTask, sched, procs, calls
  <2>2. \A t \in Tasks : pc[t] \notin ExitSteps
    BY <2>1 DEF ExitInvariant, ExitHasCpu, OnBsp
  <2>3. Holder(BSP)' = Holder(BSP)
    BY <1>2, SchedulerConstants DEF RunTask, Holder, TypeInv, TypeOK, CpuTypes
  <2>4. Kernel \subseteq Tasks
    BY SchedulerConstants DEF InitTasks, Tasks
  <2> QED
    BY <2>1, <2>2, <2>3, <2>4
    DEF ExitInvariant, ExitHasCpu, KernelExitsAlone, FreedFirst, DeadIsFreed, HolderLives,
        ExitOwnsTask
<1>3. ASSUME NEW t \in Tasks, NEW from \in PCs \ ExitSteps,
             NEW to \in PCs \ (ExitSteps \cup {"reap"}), SwapTasks(t, BSP, from, to)
      PROVE  ExitInvariant'
  <2>1. /\ next[BSP] = None /\ on[BSP] = t /\ pc[t] = from
        /\ ExecuteNextTask(BSP, counter, until) /\ arg' = arg /\ pc' = [pc EXCEPT ![t] = to]
    BY <1>3 DEF SwapTasks, At, Goto
  <2> QED
    BY <1>0, <2>1, ExecuteExit
<1>4. ASSUME NEW t \in Tasks, Enter(t, BSP) PROVE ExitInvariant'
  <2> USE DEF At, Goto
  <2>1. CASE Yield(t, BSP)
    BY <1>3, <2>1 DEF Yield, PCs, ExitSteps
  <2>2. CASE ForkProcess(t, BSP, "fork") \/ ForkProcess(t, BSP, "vfork")
    <3>1. PICK p \in {"fork", "vfork"} : pc' = [pc EXCEPT ![t] = p]
      BY <2>2 DEF ForkProcess
    <3>2. /\ OnBsp(t) /\ pc[t] = "user" /\ \A v \in Tasks \ {t} : arg'[v] = arg[v]
          /\ UNCHANGED <<tstate, prevst, freed, deleted, cpus>>
      BY <1>0, <2>2 DEF ForkProcess, OnBsp
    <3>9. CallStep(t, p)
      BY <3>1, <3>2 DEF CallStep, PCs, ExitSteps
    <3> QED
      BY <3>9, CallExit
  <2>3. CASE SleepDeadline(t, BSP) \/ EventEnter(t, BSP) \/ ExitEnter(t, BSP)
    <3>1. PICK p \in {"sleep_block", "event", "exit_next"} : pc' = [pc EXCEPT ![t] = p]
      BY <2>3 DEF SleepDeadline, EventEnter, ExitEnter
    <3>2. /\ OnBsp(t) /\ pc[t] = "user" /\ \A v \in Tasks \ {t} : arg'[v] = arg[v]
          /\ UNCHANGED <<tstate, prevst, freed, deleted, cpus>> /\ current[BSP] = t
      BY <1>0, <1>4, <2>3 DEF Enter, SleepDeadline, EventEnter, ExitEnter, OnBsp, sched, procs
    <3>9. CallStep(t, p)
      BY <3>1, <3>2 DEF CallStep, PCs, ExitSteps
    <3> QED
      BY <3>9, CallExit
  <2>4. CASE WaitEnter(t, BSP, "wait") \/ WaitEnter(t, BSP, "wnohang")
    <3>1. PICK p \in {"wait", "wnohang"} : pc' = [pc EXCEPT ![t] = p]
      BY <2>4 DEF WaitEnter
    <3>2. /\ OnBsp(t) /\ pc[t] = "user" /\ \A v \in Tasks \ {t} : arg'[v] = arg[v]
          /\ UNCHANGED <<tstate, prevst, freed, deleted, cpus>>
      BY <1>0, <2>4 DEF WaitEnter, OnBsp, sched, procs
    <3>9. CallStep(t, p)
      BY <3>1, <3>2 DEF CallStep, PCs, ExitSteps
    <3> QED
      BY <3>9, CallExit
  <2>5. CASE Setpgid(t, BSP)
    BY <2>5 DEF Setpgid, sched, cpus, calls, ExitInvariant, ExitHasCpu, KernelExitsAlone,
                FreedFirst, DeadIsFreed, HolderLives, Holder, ExitOwnsTask, OnBsp
  <2> QED
    BY <1>4, <2>1, <2>2, <2>3, <2>4, <2>5 DEF Enter
<1>5. ASSUME NEW t \in Tasks, Resume(t, BSP) PROVE ExitInvariant'
  <2> USE DEF At, Goto
  <2>1. CASE MarkReady(t, BSP, "fork", "user") \/ MarkReady(t, BSP, "vfork", "vfork_block")
    <3>1. PICK p \in {"user", "vfork_block"} : pc' = [pc EXCEPT ![t] = p]
      BY <2>1 DEF MarkReady
    <3>2. /\ OnBsp(t) /\ pc[t] \in {"fork", "vfork"} /\ arg' = arg
          /\ UNCHANGED <<tstate, prevst, freed, deleted, cpus>>
      BY <2>1 DEF MarkReady, OnBsp, procs
    <3>9. CallStep(t, p)
      BY <3>1, <3>2 DEF CallStep, PCs, ExitSteps
    <3> QED
      BY <3>9, CallExit
  <2>2. CASE \/ VforkBlock(t, BSP) \/ SleepBlock(t, BSP) \/ EventBlock(t, BSP) \/ WaitBlock(t, BSP)
    <3>1. PICK p \in {"swap", "swap_event", "swap_wait"} : pc' = [pc EXCEPT ![t] = p]
      BY <2>2 DEF VforkBlock, SleepBlock, EventBlock, WaitBlock
    <3>2. /\ OnBsp(t) /\ pc[t] \in {"vfork_block", "sleep_block", "event_block", "wait_block"}
          /\ UNCHANGED <<freed, deleted, cpus, arg>>
          /\ tstate' = [tstate EXCEPT ![t] = "BLOCKED"] /\ prevst' = [prevst EXCEPT ![t] = tstate[t]]
      BY <2>2 DEF VforkBlock, SleepBlock, EventBlock, WaitBlock, Block, OnBsp, procs
    <3>3. \A v \in Tasks : "ZOMBIE" \in {tstate'[v], prevst'[v]}
                             => "ZOMBIE" \in {tstate[v], prevst[v]}
      BY <1>0, <3>2
    <3>9. CallStep(t, p)
      BY <3>1, <3>2, <3>3 DEF CallStep, PCs, ExitSteps
    <3> QED
      BY <3>9, CallExit
  <2>3. CASE EventRead(t, BSP)
    <3>1. PICK p \in {"user", "event_block"} : pc' = [pc EXCEPT ![t] = p]
      BY <2>3 DEF EventRead
    <3>2. /\ OnBsp(t) /\ pc[t] = "event"
          /\ UNCHANGED <<tstate, prevst, freed, deleted, cpus, arg>>
      BY <2>3 DEF EventRead, OnBsp, procs, sched
    <3>9. CallStep(t, p)
      BY <3>1, <3>2 DEF CallStep, PCs, ExitSteps
    <3> QED
      BY <3>9, CallExit
  <2>4. CASE WaitScan(t, BSP, "wait") \/ WaitScan(t, BSP, "wnohang")
    <3>1. /\ OnBsp(t) /\ pc[t] \in {"wait", "wnohang"}
          /\ UNCHANGED <<tstate, prevst, freed, deleted, cpus>>
      BY <2>4 DEF WaitScan, OnBsp, procs, sched
    <3>2. ASSUME NEW u \in Tasks, FirstZombie(t, u), arg' = [arg EXCEPT ![t] = u],
                 pc' = [pc EXCEPT ![t] = "reap"]
          PROVE  ExitInvariant'
      <4>1. tstate[u] = "ZOMBIE" /\ u # t
        BY <3>2 DEF FirstZombie, IsChild
      <4>2. \A v \in Tasks : pc[v] \notin ExitSteps
        BY <3>1 DEF ExitInvariant, ExitHasCpu, OnBsp, ExitSteps
      <4>3. u \in freed
        BY <4>1, <4>2 DEF ExitInvariant, DeadIsFreed, ExitSteps
      <4>4. arg'[t] = u /\ \A v \in Tasks \ {t} : arg'[v] = arg[v]
        BY <1>0, <3>2
      <4>9. CallStep(t, "reap")
        BY <3>1, <3>2, <4>1, <4>3, <4>4 DEF CallStep, PCs, ExitSteps
      <4> QED
        BY <4>9, CallExit
    <3>3. ASSUME NEW p \in {"user", "wait_block"}, pc' = [pc EXCEPT ![t] = p], arg' = arg
          PROVE  ExitInvariant'
      <4>1. CallStep(t, p)
        BY <3>1, <3>3 DEF CallStep, PCs, ExitSteps
      <4> QED
        BY <4>1, CallExit
    <3> QED
      BY <2>4, <3>2, <3>3 DEF WaitScan
  <2>5. CASE Reap(t, BSP)
    <3>1. /\ OnBsp(t) /\ pc[t] = "reap" /\ deleted' = deleted \cup {arg[t]}
          /\ pc' = [pc EXCEPT ![t] = "user"]
          /\ UNCHANGED <<tstate, prevst, freed, cpus, arg>>
      BY <2>5 DEF Reap, OnBsp
    <3>9. CallStep(t, "user")
      BY <3>1 DEF CallStep, PCs, ExitSteps
    <3> QED
      BY <3>9, CallExit
  <2>6. CASE \/ SwapTasks(t, BSP, "swap", "user") \/ SwapTasks(t, BSP, "swap_wait", "wait")
             \/ SwapTasks(t, BSP, "swap_event", "event") \/ SwapTasks(t, BSP, "exited", "exited")
    BY <1>3, <2>6 DEF PCs, ExitSteps
  <2> QED
    BY <1>5, <2>1, <2>2, <2>3, <2>4, <2>5, <2>6, ExitExit DEF Resume
<1>6. CASE KeyWake
  <2>1. \A v \in Tasks : tstate'[v] = "ZOMBIE" => tstate[v] = "ZOMBIE"
    BY <1>0, <1>6 DEF KeyWake, WakeBlockedTasks
  <2>2. UNCHANGED <<prevst, procs, cpus, calls>>
    BY <1>6 DEF KeyWake
  <2> QED
    BY <2>1, <2>2 DEF procs, cpus, calls, ExitInvariant, ExitHasCpu, KernelExitsAlone,
                      FreedFirst, DeadIsFreed, HolderLives, Holder, ExitOwnsTask, OnBsp
<1>7. CASE UNCHANGED vars \/ KeyWrite
  <2>1. UNCHANGED <<sched, procs, cpus, calls>>
    BY <1>7 DEF vars, KeyWrite
  <2> QED
    BY <2>1 DEF sched, procs, cpus, calls, ExitInvariant, ExitHasCpu, KernelExitsAlone,
                FreedFirst, DeadIsFreed, HolderLives, Holder, ExitOwnsTask, OnBsp
<1> QED
  BY <1>1, <1>2, <1>4, <1>5, <1>6, <1>7 DEF Next

\* With one CPU wait4 never deletes a task_t that exit() still uses, whatever
\* is called and whichever groups exit: exit() keeps interrupts off from the
\* ZOMBIE it writes to the stacks it frees.
THEOREM ExitOwnsItsTask ==
  ASSUME CPUs = {BSP} PROVE Spec => []ExitOwnsTask
<1>1. Init => TypeInv /\ ExitInvariant
  <2>1. Init => ExitInvariant
    BY Distinct, SchedulerConstants
    DEF Init, ExitInvariant, ExitHasCpu, KernelExitsAlone, FreedFirst, DeadIsFreed,
        HolderLives, Holder, ExitOwnsTask, ExitSteps, InitTasks, Tasks
  <2> QED
    BY <2>1, InitType
<1>2. TypeInv /\ ExitInvariant /\ [Next]_vars => (TypeInv /\ ExitInvariant)'
  BY NextType, NextExit
<1>3. ExitInvariant => ExitOwnsTask
  BY DEF ExitInvariant
<1> QED
  BY <1>1, <1>2, <1>3, PTL DEF Spec

-----------------------------------------------------------------------------
(* Zombies stay dead.                                                      *)

\* Nobody is in another's process group, so every exit_group is of one task.
OwnGroup == \A t \in Tasks : pgid[t] = t

\* exit() runs with interrupts off, for the CPU's current task, which is awake.
ExitIsOfCurrent ==
  \A t \in Tasks :
    pc[t] \in ExitSteps =>
      /\ OnBsp(t) /\ current[BSP] = t /\ tstate[t] # "BLOCKED"
      /\ pc[t] # "exit_next" => arg[t] = t

\* A zombie is in exit() or past it, and nobody slept as one.
DeadIsGone ==
  \A t \in Tasks :
    /\ tstate[t] = "ZOMBIE" => pc[t] \in {"exit_free", "exit_wake", "exit_leave", "exited"}
    /\ prevst[t] # "ZOMBIE"

\* A deadline belongs to a task that sleeps or is about to.
SleeperIsTimed ==
  \A t \in Tasks :
    until[t] # NoDeadline
      => btype[t] = "UNSPECIFIED" /\ (pc[t] = "sleep_block" \/ tstate[t] = "BLOCKED")

\* A blocked task that still has the CPU is about to give it up.
BlockedLeaves ==
  Holder(BSP) \in Tasks /\ tstate[Holder(BSP)] = "BLOCKED"
    => next[BSP] = None /\ pc[Holder(BSP)] \in {"swap", "swap_wait", "swap_event"}

ZombieInvariant == OwnGroup /\ ExitIsOfCurrent /\ DeadIsGone /\ SleeperIsTimed /\ BlockedLeaves

DeadStayDead == \A t \in Tasks : tstate[t] = "ZOMBIE" => tstate'[t] = "ZOMBIE"

ZombieStep == ZombieInvariant' /\ DeadStayDead

ZombieTypes ==
  /\ pc \in [Tasks -> PCs] /\ arg \in [Tasks -> WaitPids]
  /\ tstate \in [Tasks -> TaskStates] /\ prevst \in [Tasks -> TaskStates]
  /\ until \in [Tasks -> Expired..NoDeadline] /\ btype \in [Tasks -> BlockTypes]
  /\ next \in [CPUs -> Tasks \cup {None, Idle}]

\* A task switch: a zombie has no deadline that could bring it back.
LEMMA ExecuteZombie ==
  ASSUME CPUs = {BSP}, TypeInv, ZombieTypes, ZombieInvariant,
         next[BSP] = None, on[BSP] \in Tasks => pc[on[BSP]] \notin ExitSteps,
         NEW cnt, NEW u \in [Tasks -> Expired..NoDeadline], ExecuteNextTask(BSP, cnt, u),
         \A t \in Tasks : u[t] = NoDeadline <=> until[t] = NoDeadline,
         UNCHANGED arg,
         \/ pc' = pc
         \/ \E t \in Tasks, p \in PCs \ ExitSteps :
              /\ pc' = [pc EXCEPT ![t] = p]
              /\ pc[t] # "sleep_block" /\ (pc[t] = "exited" => p = "exited")
  PROVE  ZombieStep
<1> USE DEF ZombieInvariant, ZombieTypes
<1>1. \A v \in Tasks : pc[v] \notin ExitSteps
  BY DEF ExitIsOfCurrent, OnBsp
<1>2. \A v \in Tasks : /\ pc'[v] \notin ExitSteps
                       /\ pc[v] = "sleep_block" => pc'[v] = "sleep_block"
                       /\ pc[v] = "exited" => pc'[v] = "exited"
  BY <1>1
<1>3. /\ \/ next' = [next EXCEPT ![BSP] = Idle]
         \/ \E v \in Tasks : next' = [next EXCEPT ![BSP] = v] /\ tstate'[v] = "RUNNING"
      /\ \A v \in Tasks :
           /\ u[v] # Expired /\ tstate[v] \in {"BLOCKED", "ZOMBIE"} => tstate'[v] = tstate[v]
           /\ until'[v] = u[v] \/ until'[v] = NoDeadline
           /\ tstate[v] = "BLOCKED" => tstate'[v] = "BLOCKED" \/ until'[v] = NoDeadline
           /\ tstate'[v] = "ZOMBIE" => tstate[v] = "ZOMBIE" \/ prevst[v] = "ZOMBIE"
      /\ UNCHANGED <<prevst, btype, pgid>>
  BY ExecuteEffect, SchedulerConstants DEF procs
<1>4. DeadStayDead
  <2> SUFFICES ASSUME NEW v \in Tasks, tstate[v] = "ZOMBIE" PROVE tstate'[v] = "ZOMBIE"
    BY DEF DeadStayDead
  <2>1. until[v] = NoDeadline
    BY DEF DeadIsGone, SleeperIsTimed
  <2> QED
    BY <1>3, <2>1, Distinct
<1>5. OwnGroup' /\ ExitIsOfCurrent'
  BY <1>2, <1>3 DEF OwnGroup, ExitIsOfCurrent
<1>6. DeadIsGone'
  BY <1>1, <1>2, <1>3 DEF DeadIsGone, ExitSteps
<1>7. SleeperIsTimed'
  BY <1>2, <1>3 DEF SleeperIsTimed, NoDeadline
<1>8. BlockedLeaves'
  BY <1>3, Distinct, SchedulerConstants DEF BlockedLeaves, Holder
<1> QED
  BY <1>4, <1>5, <1>6, <1>7, <1>8 DEF ZombieStep

\* A step of the task on the CPU outside exit(): it changes no state but its
\* own, to BLOCKED, and no deadline but its own.
QuietCall(t, p) ==
  /\ OnBsp(t) /\ pc[t] \notin ExitSteps \cup {"exited"}
  /\ p \in PCs \ {"exit_free", "exit_wake", "exit_leave", "exited"}
  /\ pc' = [pc EXCEPT ![t] = p]
  /\ p = "exit_next" => current[BSP] = t
  /\ \A v \in Tasks \ {t} : arg'[v] = arg[v]
  /\ \/ /\ pc[t] \notin {"sleep_block", "swap", "swap_wait", "swap_event"}
        /\ UNCHANGED <<tstate, prevst, until, btype>>
     \/ /\ p \in {"swap", "swap_wait", "swap_event"}
        /\ tstate' = [tstate EXCEPT ![t] = "BLOCKED"]
        /\ prevst' = [prevst EXCEPT ![t] = tstate[t]]
        /\ \/ UNCHANGED <<until, btype>>
           \/ \E type : /\ until' = [until EXCEPT ![t] = NoDeadline]
                        /\ btype' = [btype EXCEPT ![t] = type]
     \/ /\ pc[t] = "user" /\ p = "sleep_block"
        /\ \E n : until' = [until EXCEPT ![t] = n]
        /\ btype' = [btype EXCEPT ![t] = "UNSPECIFIED"]
        /\ UNCHANGED <<tstate, prevst>>
  /\ UNCHANGED <<pgid, cpus>>

LEMMA CallZombie ==
  ASSUME CPUs = {BSP}, ZombieTypes, ZombieInvariant, NEW t \in Tasks, NEW p, QuietCall(t, p)
  PROVE  ZombieStep
<1> USE DEF ZombieInvariant, ZombieTypes
<1>0. /\ on[BSP] = t /\ next[BSP] = None /\ Holder(BSP) = t /\ Holder(BSP)' = t
      /\ pc' = [pc EXCEPT ![t] = p] /\ pgid' = pgid
  BY DEF QuietCall, OnBsp, cpus, Holder
<1>1. \A v \in Tasks : pc[v] \notin ExitSteps
  BY <1>0 DEF ExitIsOfCurrent, OnBsp, QuietCall
<1>2. \A v \in Tasks : pc'[v] \in ExitSteps => v = t /\ p = "exit_next"
  BY <1>0, <1>1 DEF QuietCall, ExitSteps
<1>3. tstate[t] = "BLOCKED" => pc[t] \in {"swap", "swap_wait", "swap_event"}
  BY <1>0 DEF BlockedLeaves
<1>4. tstate[t] # "ZOMBIE"
  BY <1>1 DEF DeadIsGone, QuietCall, ExitSteps
<1>5. OwnGroup'
  BY <1>0 DEF OwnGroup
<1>6. /\ \A v \in Tasks \ {t} : /\ tstate'[v] = tstate[v] /\ prevst'[v] = prevst[v]
                                /\ until'[v] = until[v] /\ btype'[v] = btype[v]
                                /\ pc'[v] = pc[v]
      /\ tstate'[t] \in {tstate[t], "BLOCKED"} /\ prevst'[t] \in {prevst[t], tstate[t]}
  BY <1>0 DEF QuietCall
<1>7. DeadStayDead /\ DeadIsGone'
  BY <1>4, <1>6 DEF DeadStayDead, DeadIsGone
<1>8. /\ p = "exit_next" => tstate'[t] # "BLOCKED" /\ current'[BSP] = t /\ OnBsp(t)'
      /\ tstate'[t] = "BLOCKED" => p \in {"swap", "swap_wait", "swap_event"}
      /\ until'[t] # NoDeadline => /\ btype'[t] = "UNSPECIFIED"
                                   /\ p = "sleep_block" \/ tstate'[t] = "BLOCKED"
  <2>1. CASE /\ pc[t] \notin {"sleep_block", "swap", "swap_wait", "swap_event"}
             /\ UNCHANGED <<tstate, prevst, until, btype>>
    BY <1>0, <1>3, <2>1 DEF QuietCall, SleeperIsTimed, cpus, OnBsp
  <2>2. CASE /\ p \in {"swap", "swap_wait", "swap_event"}
             /\ tstate' = [tstate EXCEPT ![t] = "BLOCKED"]
             /\ \/ UNCHANGED <<until, btype>>
                \/ \E type : /\ until' = [until EXCEPT ![t] = NoDeadline]
                             /\ btype' = [btype EXCEPT ![t] = type]
    BY <2>2 DEF SleeperIsTimed
  <2>3. CASE /\ pc[t] = "user" /\ p = "sleep_block"
             /\ btype' = [btype EXCEPT ![t] = "UNSPECIFIED"]
             /\ UNCHANGED <<tstate, prevst>>
    BY <1>3, <2>3
  <2> QED
    BY <2>1, <2>2, <2>3 DEF QuietCall
<1>9. SleeperIsTimed'
  BY <1>0, <1>6, <1>8 DEF SleeperIsTimed, NoDeadline
<1>10. ExitIsOfCurrent'
  <2> SUFFICES ASSUME NEW v \in Tasks, pc'[v] \in ExitSteps
               PROVE  /\ OnBsp(v)' /\ current'[BSP] = v /\ tstate'[v] # "BLOCKED"
                      /\ pc'[v] = "exit_next"
    BY DEF ExitIsOfCurrent
  <2>1. v = t /\ p = "exit_next" /\ pc'[v] = p
    BY <1>0, <1>2
  <2> QED
    BY <1>8, <2>1
<1>11. BlockedLeaves'
  <2>1. next'[BSP] = None /\ pc'[t] = p
    BY <1>0 DEF QuietCall, cpus
  <2> QED
    BY <1>0, <1>8, <2>1 DEF BlockedLeaves
<1> QED
  BY <1>5, <1>7, <1>9, <1>10, <1>11 DEF ZombieStep

\* The steps of exit().
LEMMA ExitStepZombie ==
  ASSUME CPUs = {BSP}, ZombieTypes, ZombieInvariant, NEW t \in Tasks,
         \/ ExitZombie(t, BSP) \/ ExitFree(t, BSP) \/ ExitWake(t, BSP) \/ ExitLeave(t, BSP)
  PROVE  ZombieStep
<1> USE DEF ZombieInvariant, ZombieTypes, Goto
<1>1. on[BSP] = t /\ next[BSP] = None /\ pc[t] \in ExitSteps
  BY DEF ExitZombie, ExitFree, ExitWake, ExitLeave, At, ExitSteps
<1>2. /\ \A v \in Tasks : v # t => pc[v] \notin ExitSteps
      /\ current[BSP] = t /\ tstate[t] # "BLOCKED" /\ (pc[t] # "exit_next" => arg[t] = t)
  BY <1>1 DEF ExitIsOfCurrent, OnBsp
<1>3. until[t] = NoDeadline
  BY <1>1, <1>2 DEF SleeperIsTimed, ExitSteps
<1>4. CASE ExitZombie(t, BSP)
  <2>1. /\ pc[t] = "exit_next" /\ pc' = [pc EXCEPT ![t] = "exit_free"]
        /\ UNCHANGED <<prevst, until, btype, pgid, cpus>>
    BY <1>4 DEF ExitZombie, At, procs
  <2>2. tstate' = [tstate EXCEPT ![t] = "ZOMBIE"] /\ arg' = [arg EXCEPT ![t] = t]
    <3>1. PICK v \in Tasks : /\ NextVictim(t, v) /\ tstate' = [tstate EXCEPT ![v] = "ZOMBIE"]
                             /\ arg' = [arg EXCEPT ![t] = v]
      BY <1>4 DEF ExitZombie
    <3>2. \A i \in DOMAIN list : list[i] \in Tasks => ~GroupMember(t, i)
      BY DEF GroupMember, OwnGroup
    <3>3. v = t
      BY <3>1, <3>2 DEF NextVictim
    <3> QED
      BY <3>1, <3>3
  <2>3. OwnGroup' /\ DeadIsGone' /\ DeadStayDead
    BY <2>1, <2>2 DEF OwnGroup, DeadIsGone, DeadStayDead
  <2>4. ExitIsOfCurrent'
    BY <1>1, <1>2, <2>1, <2>2 DEF ExitIsOfCurrent, OnBsp, cpus
  <2>5. SleeperIsTimed'
    BY <1>3, <2>1, <2>2 DEF SleeperIsTimed, NoDeadline
  <2>6. BlockedLeaves'
    BY <1>1, <2>1, <2>2 DEF BlockedLeaves, Holder, cpus
  <2> QED
    BY <2>3, <2>4, <2>5, <2>6 DEF ZombieStep
<1>5. CASE ExitFree(t, BSP) \/ ExitWake(t, BSP)
  <2>1. PICK p \in {"exit_wake", "exit_leave"} : pc' = [pc EXCEPT ![t] = p] /\ pc[t] # "exit_next"
    BY <1>5 DEF ExitFree, ExitWake, At
  <2>2. UNCHANGED <<prevst, until, btype, pgid, cpus, arg>>
    BY <1>5 DEF ExitFree, ExitWake, sched, procs
  <2>3. \A v \in Tasks : \/ tstate'[v] = tstate[v]
                        \/ /\ tstate[v] = "BLOCKED" /\ tstate'[v] = "PAUSED"
                           /\ btype[v] = "WAIT_FOR_CHILD"
    BY <1>5 DEF ExitFree, ExitWake, sched, WakeWaitingTasks
  <2>4. OwnGroup' /\ DeadIsGone' /\ DeadStayDead
    BY <2>1, <2>2, <2>3 DEF OwnGroup, DeadIsGone, DeadStayDead
  <2>5. ExitIsOfCurrent'
    BY <1>1, <1>2, <2>1, <2>2, <2>3 DEF ExitIsOfCurrent, OnBsp, cpus
  <2>6. SleeperIsTimed'
    BY <1>3, <2>1, <2>2, <2>3 DEF SleeperIsTimed, NoDeadline
  <2>7. BlockedLeaves'
    BY <1>1, <1>2, <2>1, <2>2, <2>3 DEF BlockedLeaves, Holder, cpus
  <2> QED
    BY <2>4, <2>5, <2>6, <2>7 DEF ZombieStep
<1>6. CASE ExitLeave(t, BSP)
  <2>1. /\ pc[t] = "exit_leave" /\ pc' = [pc EXCEPT ![t] = "exited"]
        /\ UNCHANGED <<tstate, prevst, until, btype, pgid, next, on, arg>>
    BY <1>2, <1>6 DEF ExitLeave, At
  <2>2. OwnGroup' /\ DeadIsGone' /\ DeadStayDead
    BY <2>1 DEF OwnGroup, DeadIsGone, DeadStayDead
  <2>3. ExitIsOfCurrent'
    BY <1>2, <2>1 DEF ExitIsOfCurrent, ExitSteps
  <2>4. SleeperIsTimed' /\ BlockedLeaves'
    BY <1>1, <1>2, <1>3, <2>1 DEF SleeperIsTimed, NoDeadline, BlockedLeaves, Holder
  <2> QED
    BY <2>2, <2>3, <2>4 DEF ZombieStep
<1> QED
  BY <1>4, <1>5, <1>6

\* Every step of a one-CPU system without setpgid.
LEMMA NextZombie ==
  ASSUME CPUs = {BSP}, "setpgid" \notin Calls, TypeInv, ZombieInvariant, [Next]_vars
  PROVE  ZombieStep
<1>0. ZombieTypes
  BY DEF ZombieTypes, TypeInv, TypeOK, CallTypes, SchedTypes, CpuTypes
<1>1. CASE Tick(BSP)
  <2>1. next[BSP] = None /\ (on[BSP] \in Tasks => pc[on[BSP]] \notin ExitSteps)
    BY <1>1 DEF Tick, InterruptsOn
  <2>2. /\ Aged(BSP) \in [Tasks -> Expired..NoDeadline]
        /\ \A t \in Tasks : Aged(BSP)[t] = NoDeadline <=> until[t] = NoDeadline
    BY <1>0, SchedulerConstants DEF ZombieTypes, Aged, Expired, NoDeadline
  <2>3. CASE ExecuteNextTask(BSP, Charged(BSP), Aged(BSP)) /\ UNCHANGED calls
    BY <1>0, <2>1, <2>2, <2>3, ExecuteZombie DEF calls
  <2>4. CASE until' = Aged(BSP) /\ UNCHANGED <<tstate, prevst, btype, procs, cpus, calls>>
    <3>1. DeadStayDead /\ OwnGroup' /\ ExitIsOfCurrent' /\ DeadIsGone' /\ BlockedLeaves'
      BY <2>4 DEF procs, cpus, calls, ZombieInvariant, DeadStayDead, OwnGroup, ExitIsOfCurrent,
                  DeadIsGone, BlockedLeaves, Holder, OnBsp
    <3>2. SleeperIsTimed'
      BY <2>2, <2>4 DEF calls, ZombieInvariant, SleeperIsTimed, NoDeadline
    <3> QED
      BY <3>1, <3>2 DEF ZombieStep, ZombieInvariant
  <2> QED
    BY <1>1, <2>3, <2>4 DEF Tick
<1>2. CASE RunTask(BSP)
  <2>1. /\ next[BSP] # None /\ next'[BSP] = None
        /\ UNCHANGED <<tstate, prevst, until, btype, pgid, pc, arg>>
    BY <1>0, <1>2, SchedulerConstants DEF RunTask, sched, procs, calls, ZombieTypes
  <2>2. \A t \in Tasks : pc[t] \notin ExitSteps
    BY <2>1 DEF ZombieInvariant, ExitIsOfCurrent, OnBsp
  <2>3. Holder(BSP)' = Holder(BSP)
    BY <1>2, SchedulerConstants DEF RunTask, Holder, TypeInv, TypeOK, CpuTypes
  <2> QED
    BY <2>1, <2>2, <2>3
    DEF ZombieStep, ZombieInvariant, DeadStayDead, OwnGroup, ExitIsOfCurrent, DeadIsGone,
        SleeperIsTimed, BlockedLeaves, NoDeadline
<1>3. ASSUME NEW t \in Tasks, NEW from \in PCs \ (ExitSteps \cup {"sleep_block"}),
             NEW to \in PCs \ ExitSteps, from = "exited" => to = "exited",
             SwapTasks(t, BSP, from, to)
      PROVE  ZombieStep
  <2>1. /\ next[BSP] = None /\ on[BSP] = t /\ pc[t] = from
        /\ ExecuteNextTask(BSP, counter, until) /\ arg' = arg /\ pc' = [pc EXCEPT ![t] = to]
    BY <1>3 DEF SwapTasks, At, Goto
  <2> QED
    BY <1>0, <1>3, <2>1, ExecuteZombie DEF ZombieTypes
<1>4. ASSUME NEW t \in Tasks, Enter(t, BSP) PROVE ZombieStep
  <2> USE DEF At, Goto
  <2>0. arg \in [Tasks -> WaitPids]
    BY <1>0 DEF ZombieTypes
  <2>1. CASE Yield(t, BSP)
    BY <1>3, <2>1 DEF Yield, PCs, ExitSteps
  <2>2. CASE ForkProcess(t, BSP, "fork") \/ ForkProcess(t, BSP, "vfork")
    <3>1. PICK p \in {"fork", "vfork"} : pc' = [pc EXCEPT ![t] = p]
      BY <2>2 DEF ForkProcess
    <3>2. /\ OnBsp(t) /\ pc[t] = "user" /\ \A v \in Tasks \ {t} : arg'[v] = arg[v]
          /\ UNCHANGED <<tstate, prevst, until, btype, pgid, cpus>>
      BY <2>0, <2>2 DEF ForkProcess, OnBsp
    <3>3. QuietCall(t, p)
      BY <3>1, <3>2 DEF QuietCall, PCs, ExitSteps
    <3> QED
      BY <1>0, <3>3, CallZombie
  <2>3. CASE EventEnter(t, BSP) \/ ExitEnter(t, BSP) \/ WaitEnter(t, BSP, "wait")
             \/ WaitEnter(t, BSP, "wnohang")
    <3>1. PICK p \in {"event", "exit_next", "wait", "wnohang"} : pc' = [pc EXCEPT ![t] = p]
      BY <2>3 DEF EventEnter, ExitEnter, WaitEnter
    <3>2. /\ OnBsp(t) /\ pc[t] = "user" /\ \A v \in Tasks \ {t} : arg'[v] = arg[v]
          /\ UNCHANGED <<tstate, prevst, until, btype, pgid, cpus>> /\ current[BSP] = t
      BY <2>0, <1>4, <2>3 DEF Enter, EventEnter, ExitEnter, WaitEnter, OnBsp, sched, procs
    <3>3. QuietCall(t, p)
      BY <3>1, <3>2 DEF QuietCall, PCs, ExitSteps
    <3> QED
      BY <1>0, <3>3, CallZombie
  <2>4. CASE SleepDeadline(t, BSP)
    <3>1. /\ OnBsp(t) /\ pc[t] = "user" /\ pc' = [pc EXCEPT ![t] = "sleep_block"]
          /\ \E n : until' = [until EXCEPT ![t] = n]
          /\ btype' = [btype EXCEPT ![t] = "UNSPECIFIED"]
          /\ UNCHANGED <<tstate, prevst, pgid, cpus, arg>>
      BY <2>4 DEF SleepDeadline, OnBsp, procs
    <3>2. QuietCall(t, "sleep_block")
      BY <3>1 DEF QuietCall, PCs, ExitSteps
    <3> QED
      BY <1>0, <3>2, CallZombie
  <2> QED
    BY <1>4, <2>1, <2>2, <2>3, <2>4 DEF Enter, Setpgid
<1>5. ASSUME NEW t \in Tasks, Resume(t, BSP) PROVE ZombieStep
  <2> USE DEF At, Goto
  <2>0. arg \in [Tasks -> WaitPids]
    BY <1>0 DEF ZombieTypes
  <2>1. CASE \/ MarkReady(t, BSP, "fork", "user") \/ MarkReady(t, BSP, "vfork", "vfork_block")
             \/ EventRead(t, BSP) \/ Reap(t, BSP)
    <3>1. PICK p \in {"user", "vfork_block", "event_block"} : pc' = [pc EXCEPT ![t] = p]
      BY <2>1 DEF MarkReady, EventRead, Reap
    <3>2. /\ OnBsp(t) /\ pc[t] \in {"fork", "vfork", "event", "reap"} /\ arg' = arg
          /\ UNCHANGED <<tstate, prevst, until, btype, pgid, cpus>>
      BY <2>1 DEF MarkReady, EventRead, Reap, OnBsp, procs, sched
    <3>3. QuietCall(t, p)
      BY <3>1, <3>2 DEF QuietCall, PCs, ExitSteps
    <3> QED
      BY <1>0, <3>3, CallZombie
  <2>2. CASE WaitScan(t, BSP, "wait") \/ WaitScan(t, BSP, "wnohang")
    <3>1. PICK p \in {"user", "wait_block", "reap"} : pc' = [pc EXCEPT ![t] = p]
      BY <2>2 DEF WaitScan
    <3>2. /\ OnBsp(t) /\ pc[t] \in {"wait", "wnohang"} /\ \A v \in Tasks \ {t} : arg'[v] = arg[v]
          /\ UNCHANGED <<tstate, prevst, until, btype, pgid, cpus>>
      BY <2>0, <2>2 DEF WaitScan, OnBsp, procs, sched
    <3>3. QuietCall(t, p)
      BY <3>1, <3>2 DEF QuietCall, PCs, ExitSteps
    <3> QED
      BY <1>0, <3>3, CallZombie
  <2>3. CASE VforkBlock(t, BSP) \/ EventBlock(t, BSP) \/ WaitBlock(t, BSP) \/ SleepBlock(t, BSP)
    <3>1. PICK p \in {"swap", "swap_event", "swap_wait"} : pc' = [pc EXCEPT ![t] = p]
      BY <2>3 DEF VforkBlock, SleepBlock, EventBlock, WaitBlock
    <3>2. /\ OnBsp(t) /\ pc[t] \in {"vfork_block", "sleep_block", "event_block", "wait_block"}
          /\ UNCHANGED <<pgid, cpus, arg>>
          /\ tstate' = [tstate EXCEPT ![t] = "BLOCKED"] /\ prevst' = [prevst EXCEPT ![t] = tstate[t]]
          /\ \/ UNCHANGED <<until, btype>>
             \/ \E type : /\ until' = [until EXCEPT ![t] = NoDeadline]
                          /\ btype' = [btype EXCEPT ![t] = type]
      BY <2>3 DEF VforkBlock, SleepBlock, EventBlock, WaitBlock, Block, OnBsp, procs
    <3>3. QuietCall(t, p)
      BY <3>1, <3>2 DEF QuietCall, PCs, ExitSteps
    <3> QED
      BY <1>0, <3>3, CallZombie
  <2>4. CASE \/ SwapTasks(t, BSP, "swap", "user") \/ SwapTasks(t, BSP, "swap_wait", "wait")
             \/ SwapTasks(t, BSP, "swap_event", "event") \/ SwapTasks(t, BSP, "exited", "exited")
    BY <1>3, <2>4 DEF PCs, ExitSteps
  <2> QED
    BY <1>0, <1>5, <2>1, <2>2, <2>3, <2>4, ExitStepZombie DEF Resume
<1>6. CASE KeyWake
  <2>1. \A v \in Tasks : \/ tstate'[v] = tstate[v]
                        \/ /\ tstate[v] = "BLOCKED" /\ tstate'[v] = "PAUSED"
                           /\ btype[v] = "WAITING_ON_EVENT"
    BY <1>6 DEF KeyWake, WakeBlockedTasks
  <2>2. UNCHANGED <<prevst, until, btype, pgid, cpus, calls>>
    BY <1>6 DEF KeyWake, procs
  <2> QED
    BY <2>1, <2>2
    DEF cpus, calls, ZombieStep, ZombieInvariant, DeadStayDead, OwnGroup, ExitIsOfCurrent,
        DeadIsGone, SleeperIsTimed, BlockedLeaves, NoDeadline, Holder, OnBsp
<1>7. CASE UNCHANGED vars \/ KeyWrite
  <2>1. UNCHANGED <<sched, procs, cpus, calls>>
    BY <1>7 DEF vars, KeyWrite
  <2> QED
    BY <2>1
    DEF sched, procs, cpus, calls, ZombieStep, ZombieInvariant, DeadStayDead, OwnGroup,
        ExitIsOfCurrent, DeadIsGone, SleeperIsTimed, BlockedLeaves, NoDeadline, Holder, OnBsp
<1> QED
  BY <1>1, <1>2, <1>4, <1>5, <1>6, <1>7 DEF Next

\* With one CPU, and as long as no setpgid puts two tasks in one group, no
\* save, reset, wake or sleep brings a ZOMBIE back. Both hypotheses are
\* needed: _reset_counters restores the state of a ZOMBIE whose deadline
\* passes, and the exit of a group (or another CPU) can kill a task that
\* has one.
THEOREM ZombiesStayDead ==
  ASSUME CPUs = {BSP}, "setpgid" \notin Calls PROVE Spec => ZombieForever
<1>1. Init => TypeInv /\ ZombieInvariant
  <2>1. Init => ZombieInvariant
    BY Distinct, SchedulerConstants
    DEF Init, ZombieInvariant, OwnGroup, ExitIsOfCurrent, DeadIsGone, SleeperIsTimed,
        BlockedLeaves, Holder, ExitSteps
  <2> QED
    BY <2>1, InitType
<1>2. TypeInv /\ ZombieInvariant /\ [Next]_vars => (TypeInv /\ ZombieInvariant)'
  BY NextType, NextZombie DEF ZombieStep
<1>3. TypeInv /\ ZombieInvariant /\ [Next]_vars =>
        [\A t \in Tasks : tstate[t] = "ZOMBIE" => tstate'[t] = "ZOMBIE"]_vars
  BY NextZombie DEF ZombieStep, DeadStayDead
<1> QED
  BY <1>1, <1>2, <1>3, PTL DEF Spec, ZombieForever
=============================================================================
