------------------------------- MODULE Pipes -------------------------------
(***************************************************************************)
(* File descriptors and pipes: the descriptor lists of the tasks           *)
(* (task_t::open_node, close_fd, get_fd), the reference counts of the      *)
(* pipe's two nodes (vnode_t::open, close), the pipe itself                *)
(* (helpers/pipes.cpp) and the system calls pipe, close, dup, dup2, fcntl, *)
(* read, write, fork, execve and exit as far as they touch descriptors.    *)
(*                                                                         *)
(* Every section the code executes under one spinlock, and every atomic    *)
(* instruction on a count, is one step.  A descriptor list is only changed *)
(* by its own task.  Byte number k of a pipe is the k-th byte written.     *)
(***************************************************************************)
EXTENDS Integers, Sequences, FiniteSets

CONSTANTS
  Tasks,      \* task structures
  Boot,       \* the task that runs first
  Pipes,      \* pipe_t structures
  None,       \* no task, no node
  MaxFds,     \* a bound on the length of a descriptor list
  MaxBare,    \* a bound on the descriptors of a node made without open()
  MaxBytes,   \* a bound on the bytes written to one pipe
  Lengths,    \* the byte counts read and write are called with
  Window,     \* READ_WINDOW and WRITE_WINDOW
  RefMod,     \* the range of the pipe's 8-bit ref_cnt
  Calls,      \* the system calls in use
  Faults      \* the defects let loose: see CloseBegin

ASSUME BootAssumption == Boot \in Tasks /\ None \notin Tasks /\ None \notin Pipes
ASSUME FiniteAssumption == IsFiniteSet(Tasks) /\ IsFiniteSet(Pipes)
ASSUME BoundAssumption ==
  /\ MaxFds \in Nat /\ MaxBare \in Nat /\ MaxBytes \in Nat /\ Window \in Nat \ {0}
  /\ Lengths \subseteq Nat \ {0}
  /\ RefMod \in Nat /\ RefMod > 2
ASSUME CallsAssumption ==
  /\ Calls \subseteq {"pipe", "close", "dup", "dup2", "nonblock",
                      "read", "write", "fork", "execve", "exit"}
  /\ Faults \subseteq {"dup", "race"}

Nodes == Pipes \X {"r", "w"}
ASSUME NodeAssumption == None \notin Nodes
Pipe(n) == n[1]
End(n) == n[2]

Ops == {"unused", "new", "user", "dead", "exit", "fork_open", "fork_count", "close_end",
        "close_free", "dup2", "read_wait", "read_lock", "write"}

VARIABLES
  fds,     \* [Tasks -> [Nodes -> how many of its descriptors name the node]]
  todo,    \* [Tasks -> the same for what its exit has still to close]
  op,      \* [Tasks -> where the task is]
  node,    \* [Tasks -> the node its system call works on]
  left,    \* [Tasks -> the bytes its read or write has still to move]
  child,   \* [Tasks -> the child its fork is filling in]
  nonblock, \* tasks whose read uses a descriptor with O_NONBLOCK
  old,     \* [Tasks -> the node its dup2 will duplicate]
  last,    \* tasks in close() of a node that saw new_ref_count = 0
  drop,    \* tasks in close() of a node that saw should_free
  after,   \* [Tasks -> what follows the close in progress]
  refs,    \* [Nodes -> ref_count of the vnode]
  nodes,   \* the vnodes that exist
  bare,    \* [Nodes -> descriptors made without vnode_t::open]
  made,    \* the pipes ever created
  pipes,   \* the pipes that exist
  cnt,     \* [Pipes -> ref_cnt of the pipe]
  rnode,   \* the pipes whose read_node is not null
  wnode,   \* the pipes whose write_node is not null
  ready,   \* the pipes whose read node says data_ready_to_read
  buf,     \* [Pipes -> the bytes in the buffer]
  sent,    \* [Pipes -> the number of bytes ever written]
  taken    \* [Pipes -> the last byte a read has taken out]

table == <<fds, todo>>
place == <<op, node, left, child, nonblock, old, after>>
close == <<last, drop>>
vnode == <<refs, nodes, bare>>
ends  == <<made, pipes, cnt, rnode, wnode>>
data  == <<ready, buf, sent, taken>>
vars  == <<table, place, close, vnode, ends, data>>

-----------------------------------------------------------------------------
(* Descriptor lists.                                                       *)

\* task_t::open_node and the unlinking of close_fd, on the list of task t.
OpenNode(list, t, n) == [list EXCEPT ![t][n] = @ + 1]

Unlinked(list, t, n) == [list EXCEPT ![t][n] = @ - 1]

\* The number of descriptors in the list of task t.
Length(t) == Cardinality({x \in Nodes \X (1..MaxFds) : x[2] <= fds[t][x[1]]})

\* The descriptors that name node n, the ones exit has yet to close included.
Slots(n) ==
  Cardinality({x \in Tasks \X (1..MaxFds) : x[2] <= fds[x[1]][n]})
    + Cardinality({x \in Tasks \X (1..MaxFds) : x[2] <= todo[x[1]][n]})

-----------------------------------------------------------------------------
Init ==
  /\ fds = [t \in Tasks |-> [n \in Nodes |-> 0]] /\ todo = fds
  /\ op = [t \in Tasks |-> IF t = Boot THEN "user" ELSE "unused"]
  /\ node = [t \in Tasks |-> None] /\ left = [t \in Tasks |-> 0]
  /\ child = [t \in Tasks |-> None] /\ old = [t \in Tasks |-> None]
  /\ nonblock = {}
  /\ after = [t \in Tasks |-> "user"]
  /\ last = {} /\ drop = {}
  /\ refs = [n \in Nodes |-> 0] /\ nodes = {} /\ bare = [n \in Nodes |-> 0]
  /\ made = {} /\ pipes = {} /\ cnt = [p \in Pipes |-> 0]
  /\ rnode = {} /\ wnode = {} /\ ready = {}
  /\ buf = [p \in Pipes |-> <<>>] /\ sent = [p \in Pipes |-> 0]
  /\ taken = [p \in Pipes |-> 0]

\* A task in its user program makes a system call.
In(t, call) == op[t] = "user" /\ call \in Calls
Goes(t, o) == op' = [op EXCEPT ![t] = o]

\* A local variable is forgotten when its function returns.
Leaves(t) == node' = [node EXCEPT ![t] = None]
Returns(t) == Leaves(t) /\ left' = [left EXCEPT ![t] = 0] /\ nonblock' = nonblock \ {t}

\* pipe, pipe2: create_pipe opens each node before its hooks are set, so
\* ref_cnt is set to 2 by hand.
PipeCall(t) ==
  /\ In(t, "pipe") /\ Length(t) + 2 <= MaxFds
  /\ \E p \in Pipes \ made :
       /\ made' = made \cup {p} /\ pipes' = pipes \cup {p}
       /\ rnode' = rnode \cup {p} /\ wnode' = wnode \cup {p}
       /\ cnt' = [cnt EXCEPT ![p] = 2]
       /\ nodes' = nodes \cup {<<p, "r">>, <<p, "w">>}
       /\ refs' = [refs EXCEPT ![<<p, "r">>] = 1, ![<<p, "w">>] = 1]
       /\ fds' = OpenNode(OpenNode(fds, t, <<p, "r">>), t, <<p, "w">>)
  /\ UNCHANGED <<todo, place, close, bare, data>>

-----------------------------------------------------------------------------
(* Closing: close_fd, vnode_t::close, v_close.                             *)

\* Somebody is between the two counts of an open() of node n.
Opening(n) == {t \in Tasks : op[t] = "fork_count" /\ node[t] = n}

\* Somebody is in close() of node n and will look at it once more.
InClose(n) == {t \in Tasks : op[t] = "close_end" /\ node[t] = n}

\* vnode_t::close, first half: the descriptor is unlinked and the count of
\* its node taken down.  Two defects of the code make what follows an access
\* to freed memory, and are only let loose by Faults: a descriptor made
\* without open() (dup, execve) lets the count reach 0 early ("dup"), and a
\* second closer deletes the node under the first ("race").
CloseBegin(t, n, then) ==
  /\ refs[n] - Cardinality(Opening(n)) = 1 /\ Slots(n) > 1 => "dup" \in Faults
  /\ InClose(n) # {} => "race" \in Faults
  /\ refs' = [refs EXCEPT ![n] = @ - 1]
  /\ last' = IF refs[n] = 1 THEN last \cup {t} ELSE last \ {t}
  /\ op' = [op EXCEPT ![t] = "close_end"]
  /\ node' = [node EXCEPT ![t] = n]
  /\ after' = [after EXCEPT ![t] = then]
  /\ UNCHANGED <<left, child, nonblock, drop, nodes, bare, ends, data>>

\* sys_close of an open descriptor.
CloseCall(t) ==
  /\ In(t, "close")
  /\ \E n \in Nodes :
       fds[t][n] > 0 /\ CloseBegin(t, n, "user") /\ fds' = Unlinked(fds, t, n)
  /\ UNCHANGED <<todo, old>>

\* v_close: any close of the write end counts as the end of the writer.
WriterGone(n) == IF End(n) = "w" THEN wnode \ {Pipe(n)} ELSE wnode

\* Mutant: the pipe is freed by the close before the last.
ShouldFreeEarly(c) == c <= 1

ShouldFree(c) == c = 0

\* vnode_t::close, second half: v_close, under the pipe's lock.
CloseEnd(t) ==
  /\ op[t] = "close_end"
  /\ LET n == node[t]
         p == Pipe(n)
         c == (cnt[p] - 1) % RefMod
     IN  /\ cnt' = [cnt EXCEPT ![p] = c]
         /\ drop' = IF ShouldFree(c) THEN drop \cup {t} ELSE drop \ {t}
         /\ wnode' = WriterGone(n)
         /\ ready' = IF End(n) = "w" /\ p \in wnode /\ p \in rnode
                     THEN ready \cup {p} ELSE ready
         /\ rnode' = IF End(n) = "r" THEN rnode \ {p} ELSE rnode
  /\ Goes(t, "close_free")
  /\ UNCHANGED <<table, node, left, child, nonblock, old, after, last, vnode, made, pipes,
                 buf, sent, taken>>

\* Mutant: the node is not deleted when its last descriptor goes.
CloseFreePipeOnly(t) ==
  /\ op[t] = "close_free"
  /\ pipes' = IF t \in drop THEN pipes \ {Pipe(node[t])} ELSE pipes
  /\ nodes' = nodes
  /\ Goes(t, after[t]) /\ Leaves(t)
  /\ after' = [after EXCEPT ![t] = "user"]
  /\ last' = last \ {t} /\ drop' = drop \ {t}
  /\ UNCHANGED <<table, left, child, nonblock, old, refs, bare, made, cnt, rnode, wnode, data>>

\* The pipe goes with its last close, the node with its own.
CloseFree(t) ==
  /\ op[t] = "close_free"
  /\ pipes' = IF t \in drop THEN pipes \ {Pipe(node[t])} ELSE pipes
  /\ nodes' = IF t \in last THEN nodes \ {node[t]} ELSE nodes
  /\ Goes(t, after[t]) /\ Leaves(t)
  /\ after' = [after EXCEPT ![t] = "user"]
  /\ last' = last \ {t} /\ drop' = drop \ {t}
  /\ UNCHANGED <<table, left, child, nonblock, old, refs, bare, made, cnt, rnode, wnode, data>>

-----------------------------------------------------------------------------
(* Duplicating: dup, dup2, fcntl, fork, execve.                            *)

\* A descriptor for a node that is not opened for it.
Duplicate(t, n) ==
  /\ fds' = OpenNode(fds, t, n)
  /\ bare' = [bare EXCEPT ![n] = @ + 1]

\* sys_dup, F_DUPFD, and sys_dup2 to a free number: open_node without open().
\* F_DUPFD_CLOEXEC falls through to F_DUPFD and is two of these steps.
Dup(t) ==
  /\ In(t, "dup") /\ Length(t) < MaxFds
  /\ \E n \in Nodes : fds[t][n] > 0 /\ bare[n] < MaxBare /\ Duplicate(t, n)
  /\ UNCHANGED <<todo, place, close, refs, nodes, ends, data>>

\* sys_dup2 to a number in use, which is closed first.
Dup2Close(t) ==
  /\ In(t, "dup2")
  /\ \E n, m \in Nodes :
       /\ fds[t][n] > 0 /\ fds[t][m] > 0 /\ (n = m => fds[t][n] > 1)
       /\ bare[n] < MaxBare
       /\ CloseBegin(t, m, "dup2")
       /\ fds' = Unlinked(fds, t, m)
       /\ old' = [old EXCEPT ![t] = n]
  /\ UNCHANGED todo

Dup2Open(t) ==
  /\ op[t] = "dup2"
  /\ Duplicate(t, old[t])
  /\ Goes(t, "user") /\ old' = [old EXCEPT ![t] = None]
  /\ UNCHANGED <<todo, node, left, child, nonblock, after, close, refs, nodes, ends, data>>

\* fork_process takes a new task structure ...
Fork(t) ==
  /\ In(t, "fork")
  /\ \E c \in Tasks :
       /\ op[c] = "unused"
       /\ child' = [child EXCEPT ![t] = c]
       /\ op' = [op EXCEPT ![t] = "fork_open", ![c] = "new"]
  /\ UNCHANGED <<table, node, left, nonblock, old, after, close, vnode, ends, data>>

\* ... and copies the descriptors one by one: vnode_t::open counts ...
ForkOpen(t) ==
  /\ op[t] = "fork_open"
  /\ \E n \in Nodes :
       /\ fds[child[t]][n] < fds[t][n]
       /\ refs' = [refs EXCEPT ![n] = @ + 1]
       /\ node' = [node EXCEPT ![t] = n]
  /\ Goes(t, "fork_count")
  /\ UNCHANGED <<table, left, child, nonblock, old, after, close, nodes, bare, ends, data>>

\* Mutant: v_open is not called.
CountedNot(p) == cnt

\* v_open
Counted(p) == [cnt EXCEPT ![p] = (@ + 1) % RefMod]

\* ... v_open counts too, and open_node gives the child its descriptor.
ForkCount(t) ==
  /\ op[t] = "fork_count"
  /\ cnt' = Counted(Pipe(node[t]))
  /\ fds' = OpenNode(fds, child[t], node[t])
  /\ Goes(t, "fork_open") /\ Leaves(t)
  /\ UNCHANGED <<todo, left, child, nonblock, old, after, close, vnode, made, pipes, rnode,
                 wnode, data>>

\* sys_fork: the child is marked ready.
ForkReady(t) ==
  /\ op[t] = "fork_open"
  /\ fds[child[t]] = fds[t]
  /\ op' = [op EXCEPT ![t] = "user", ![child[t]] = "user"]
  /\ child' = [child EXCEPT ![t] = None]
  /\ UNCHANGED <<table, node, left, nonblock, old, after, close, vnode, ends, data>>

\* clone_for_execve gives the new task the descriptors that are not
\* O_CLOEXEC, without open(); then the old task exits.
Execve(t) ==
  /\ In(t, "execve")
  /\ \E c \in Tasks, kept \in [Nodes -> 0..MaxFds] :
       /\ op[c] = "unused"
       /\ \A n \in Nodes : kept[n] <= fds[t][n] /\ bare[n] + kept[n] <= MaxBare
       /\ fds' = [fds EXCEPT ![t] = [n \in Nodes |-> 0], ![c] = kept]
       /\ bare' = [n \in Nodes |-> bare[n] + kept[n]]
       /\ todo' = [todo EXCEPT ![t] = fds[t]]
       /\ op' = [op EXCEPT ![t] = "exit", ![c] = "user"]
  /\ UNCHANGED <<node, left, child, nonblock, old, after, close, refs, nodes, ends, data>>

\* exit: close_fd for every descriptor.
Exit(t) ==
  /\ In(t, "exit")
  /\ todo' = [todo EXCEPT ![t] = fds[t]]
  /\ fds' = [fds EXCEPT ![t] = [n \in Nodes |-> 0]]
  /\ Goes(t, "exit")
  /\ UNCHANGED <<node, left, child, nonblock, old, after, close, vnode, ends, data>>

ExitClose(t) ==
  /\ op[t] = "exit"
  /\ \E n \in Nodes :
       todo[t][n] > 0 /\ CloseBegin(t, n, "exit") /\ todo' = Unlinked(todo, t, n)
  /\ UNCHANGED <<fds, old>>

ExitDone(t) ==
  /\ op[t] = "exit" /\ \A n \in Nodes : todo[t][n] = 0
  /\ Goes(t, "dead")
  /\ UNCHANGED <<table, node, left, child, nonblock, old, after, close, vnode, ends, data>>

-----------------------------------------------------------------------------
(* Reading and writing.                                                    *)

Least(a, b) == IF a < b THEN a ELSE b

\* sys_read of the read end, up to v_pipe_read.  Each turn of its loop gives
\* up when the descriptor has O_NONBLOCK and the node has no data.
ReadCall(t) ==
  /\ In(t, "read")
  /\ \E p \in Pipes, len \in Lengths :
       /\ fds[t][<<p, "r">>] > 0
       /\ \/ nonblock' = nonblock
          \/ "nonblock" \in Calls /\ p \in ready /\ nonblock' = nonblock \cup {t}
       /\ node' = [node EXCEPT ![t] = <<p, "r">>]
       /\ left' = [left EXCEPT ![t] = len]
  /\ Goes(t, "read_wait")
  /\ UNCHANGED <<table, child, old, after, close, vnode, ends, data>>

\* Mutant: only a byte ends the wait.
HasByte(p) == buf[p] # <<>>

\* The loop of v_pipe_read ends: there is a byte, or no writer.
WaitOver(p) == buf[p] # <<>> \/ p \notin wnode

\* v_pipe_read looks at the pipe without its lock until there is a byte or
\* no writer; in between it yields the CPU.
ReadWake(t) ==
  /\ op[t] = "read_wait"
  /\ WaitOver(Pipe(node[t]))
  /\ Goes(t, "read_lock")
  /\ UNCHANGED <<table, node, left, child, nonblock, old, after, close, vnode, ends, data>>

\* Mutant: memmove forgets how much has been copied.
TakenFromEnd(b, c) == SubSeq(b, 1, Len(b) - c)

\* memmove closes the gap.
Taken(b, c) == SubSeq(b, c + 1, Len(b))

\* Mutant: the flag is cleared by every read.
DrainedAlways(p, b) == ready \ {p}

Drained(p, b) == IF b = <<>> THEN ready \ {p} ELSE ready

\* v_pipe_read under the lock, write_memory, and the tail of sys_read's loop:
\* a full window makes it ask for the next one.  The bytes are gone from the
\* pipe when the caller's buffer turns out to be bad.
ReadCopy(t) ==
  /\ op[t] = "read_lock"
  /\ LET p == Pipe(node[t])
         chunk == Least(left[t], Window)
         c == Least(Len(buf[p]), chunk)
         b == Taken(buf[p], c)
         r == IF c > 0 THEN Drained(p, b) ELSE ready
         more == c > 0 /\ c = chunk /\ left[t] > c
     IN  \E fault \in BOOLEAN :
           /\ fault => c > 0
           /\ buf' = [buf EXCEPT ![p] = b]
           /\ ready' = r
           /\ taken' = IF c > 0 THEN [taken EXCEPT ![p] = buf[p][c]] ELSE taken
           /\ IF more /\ ~fault /\ (t \in nonblock => p \in r)
              THEN Goes(t, "read_wait") /\ left' = [left EXCEPT ![t] = @ - c]
                   /\ UNCHANGED <<node, nonblock>>
              ELSE Goes(t, "user") /\ Returns(t)
  /\ UNCHANGED <<table, child, old, after, close, vnode, ends, sent>>

\* sys_write to the write end.
WriteCall(t) ==
  /\ In(t, "write")
  /\ \E p \in Pipes, len \in Lengths :
       /\ fds[t][<<p, "w">>] > 0 /\ sent[p] + len <= MaxBytes
       /\ node' = [node EXCEPT ![t] = <<p, "w">>]
       /\ left' = [left EXCEPT ![t] = len]
  /\ Goes(t, "write")
  /\ UNCHANGED <<table, child, nonblock, old, after, close, vnode, ends, data>>

\* One window of sys_write: -EFAULT when the caller's buffer is bad, -EPIPE
\* of v_pipe_write without a reader, else the whole window is appended, for
\* the buffer grows without a limit.
WriteChunk(t) ==
  /\ op[t] = "write"
  /\ LET p == Pipe(node[t])
         c == Least(left[t], Window)
     IN  \E fault \in BOOLEAN :
         IF fault \/ p \notin rnode
         THEN /\ Goes(t, "user") /\ Returns(t)
              /\ UNCHANGED <<buf, sent, ready>>
         ELSE /\ buf' = [buf EXCEPT ![p] = @ \o [i \in 1..c |-> sent[p] + i]]
              /\ sent' = [sent EXCEPT ![p] = @ + c]
              /\ ready' = ready \cup {p}
              /\ IF left[t] = c
                 THEN Goes(t, "user") /\ Returns(t)
                 ELSE Goes(t, "write") /\ left' = [left EXCEPT ![t] = @ - c]
                      /\ UNCHANGED <<node, nonblock>>
  /\ UNCHANGED <<table, child, old, after, close, vnode, ends, taken>>

-----------------------------------------------------------------------------
\* What a task does by itself once it has entered the kernel.
Step(t) ==
  \/ CloseEnd(t) \/ CloseFree(t) \/ Dup2Open(t)
  \/ ForkOpen(t) \/ ForkCount(t) \/ ForkReady(t)
  \/ ExitClose(t) \/ ExitDone(t)
  \/ ReadWake(t) \/ ReadCopy(t) \/ WriteChunk(t)

\* What its program asks for.
Call(t) ==
  \/ PipeCall(t) \/ CloseCall(t) \/ Dup(t)
  \/ Dup2Close(t) \/ Fork(t) \/ Execve(t) \/ Exit(t)
  \/ ReadCall(t) \/ WriteCall(t)

Next == \E t \in Tasks : Step(t) \/ Call(t)

\* A task in the kernel goes on: the scheduler starves nobody (Scheduler,
\* NoStarvation).  No program is obliged to make a call.
Spec == Init /\ [][Next]_vars /\ \A t \in Tasks : WF_vars(Step(t))

-----------------------------------------------------------------------------
(* Properties.                                                             *)

\* Every variable keeps its type.
TypeOK ==
  /\ fds \in [Tasks -> [Nodes -> Nat]] /\ todo \in [Tasks -> [Nodes -> Nat]]
  /\ op \in [Tasks -> Ops] /\ after \in [Tasks -> {"user", "dup2", "exit"}]
  /\ node \in [Tasks -> Nodes \cup {None}] /\ old \in [Tasks -> Nodes \cup {None}]
  /\ left \in [Tasks -> Nat] /\ child \in [Tasks -> Tasks \cup {None}]
  /\ nonblock \subseteq Tasks /\ last \subseteq Tasks /\ drop \subseteq Tasks
  /\ refs \in [Nodes -> Nat] /\ nodes \subseteq Nodes /\ bare \in [Nodes -> Nat]
  /\ made \subseteq Pipes /\ pipes \subseteq made /\ cnt \in [Pipes -> 0..(RefMod - 1)]
  /\ rnode \subseteq made /\ wnode \subseteq made /\ ready \subseteq made
  /\ buf \in [Pipes -> Seq(Nat)] /\ sent \in [Pipes -> Nat]
  /\ taken \in [Pipes -> Nat]

\* The count of a node is the number of descriptors opened for it, and the
\* count of the pipe the sum over its ends, whatever closes, forks and exits
\* are half way (vnode_t::open and close against v_open and v_close).
CountsAgree ==
  /\ \A n \in Nodes :
       refs[n] + bare[n] = Slots(n) + Cardinality(Opening(n))
  /\ \A p \in Pipes :
       LET r == <<p, "r">>
           w == <<p, "w">>
       IN  cnt[p] = (refs[r] - Cardinality(Opening(r)) + Cardinality(InClose(r))
                      + refs[w] - Cardinality(Opening(w)) + Cardinality(InClose(w))) % RefMod

\* No descriptor names a deleted node, and no task in a system call is about
\* to use a deleted node or pipe.
UsesAreLive ==
  /\ \A n \in Nodes : Slots(n) > 0 => n \in nodes
  /\ \A t \in Tasks :
       op[t] \in {"close_end", "fork_count", "read_wait", "read_lock", "write"} =>
         node[t] \in nodes /\ Pipe(node[t]) \in pipes

\* Nodes and pipes without a descriptor are deleted as soon as the closes in
\* progress are done.
NothingLeaks ==
  \A p \in made :
    (\A t \in Tasks : op[t] \notin {"close_end", "close_free", "fork_count"}) =>
      /\ \A e \in {"r", "w"} : Slots(<<p, e>>) = 0 => <<p, e>> \notin nodes
      /\ Slots(<<p, "r">>) + Slots(<<p, "w">>) = 0 => p \notin pipes

\* Bytes leave a pipe once and in the order of writing, and the buffer holds
\* the ones not read yet without a gap, whoever reads and writes window by
\* window at the same time.
InOrder ==
  \A p \in Pipes :
    /\ Len(buf[p]) = sent[p] - taken[p]
    /\ \A i \in 1..Len(buf[p]) : buf[p][i] = taken[p] + i

\* data_ready_to_read, which poll and O_NONBLOCK go by, is up whenever there
\* is a byte, and while there is a writer only then.
ReadyIsTrue ==
  \A p \in rnode :
    /\ buf[p] # <<>> => p \in ready
    /\ p \in wnode /\ p \in ready => buf[p] # <<>>

\* A reader of a pipe that no descriptor can write to any more does not wait
\* for ever.
EofReaches ==
  \A t \in Tasks, p \in Pipes :
    (op[t] = "read_wait" /\ Pipe(node[t]) = p /\ Slots(<<p, "w">>) = 0)
      ~> op[t] # "read_wait"
=============================================================================
