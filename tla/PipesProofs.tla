----------------------------- MODULE PipesProofs ----------------------------
(***************************************************************************)
(* Pipes and descriptors, for any number of tasks, pipes, windows, lengths *)
(* and descriptors. First what a pipe carries: every variable keeps its    *)
(* type and every call in progress its operands, so the buffer is a queue  *)
(* and its ready flag true. Then the reference counts of nodes and pipes   *)
(* and the lifetimes they decide. Descriptors are counted as dots: task t  *)
(* has as many dots over it as it has descriptors of a node.               *)
(***************************************************************************)
EXTENDS Pipes, SequenceTheorems, FiniteSetTheorems, TLAPS

\* The type invariant in parts.  refs is an integer here: with the defects of
\* dup and execve let loose a count goes below 0.
TableTypes ==
  fds \in [Tasks -> [Nodes -> Nat]] /\ todo \in [Tasks -> [Nodes -> Nat]]
PlaceTypes ==
  /\ op \in [Tasks -> Ops] /\ after \in [Tasks -> {"user", "dup2", "exit"}]
  /\ node \in [Tasks -> Nodes \cup {None}] /\ old \in [Tasks -> Nodes \cup {None}]
  /\ left \in [Tasks -> Nat] /\ child \in [Tasks -> Tasks \cup {None}]
  /\ nonblock \subseteq Tasks /\ last \subseteq Tasks /\ drop \subseteq Tasks
CountTypes ==
  /\ refs \in [Nodes -> Int] /\ nodes \subseteq Nodes /\ bare \in [Nodes -> Nat]
  /\ made \subseteq Pipes /\ pipes \subseteq made /\ cnt \in [Pipes -> 0..(RefMod - 1)]
  /\ rnode \subseteq made /\ wnode \subseteq made /\ ready \subseteq made
DataTypes ==
  /\ buf \in [Pipes -> Seq(Nat)] /\ sent \in [Pipes -> Nat]
  /\ taken \in [Pipes -> Nat]
Types == TableTypes /\ PlaceTypes /\ CountTypes /\ DataTypes

\* Task t is closing a descriptor; then it does what after says.
Closing(t) == op[t] \in {"close_end", "close_free"}
Copying(t) == op[t] \in {"read_wait", "read_lock", "write"}
Forking(t) == op[t] \in {"fork_open", "fork_count"}
Dup2ing(t) == op[t] = "dup2" \/ (Closing(t) /\ after[t] = "dup2")
Exiting(t) == op[t] = "exit" \/ (Closing(t) /\ after[t] = "exit")

\* A task in a system call has the operands of the call.
Placed ==
  \A t \in Tasks :
    /\ Closing(t) \/ Copying(t) \/ op[t] = "fork_count" => node[t] \in Nodes
    /\ Copying(t) => left[t] > 0
    /\ Dup2ing(t) => old[t] \in Nodes
    /\ Forking(t) => child[t] \in Tasks

\* Every variable has its type and every call its operands.
Basic == Types /\ Placed

\* What the assumptions say of the constants.
LEMMA Constants ==
  /\ Boot \in Tasks /\ None \notin Tasks /\ None \notin Nodes
  /\ MaxFds \in Nat /\ MaxBare \in Nat /\ MaxBytes \in Nat /\ Window \in Nat /\ Window > 0
  /\ \A len \in Lengths : len \in Nat /\ len > 0
  /\ RefMod \in Nat /\ RefMod > 2
BY BootAssumption, BoundAssumption, NodeAssumption

\* A node is an end of a pipe.
LEMMA NodeParts ==
  /\ \A p \in Pipes : <<p, "r">> \in Nodes /\ <<p, "w">> \in Nodes
  /\ \A n \in Nodes : Pipe(n) \in Pipes /\ End(n) \in {"r", "w"} /\ n = <<Pipe(n), End(n)>>
  /\ \A p \in Pipes : Pipe(<<p, "r">>) = p /\ Pipe(<<p, "w">>) = p
BY DEF Nodes, Pipe, End

\* An 8-bit count stays in its range.
LEMMA ModType == \A a \in Int : a % RefMod \in 0..(RefMod - 1)
BY Constants

\* The first state.
LEMMA BasicInit == Init => Basic
BY Constants DEF Init, Basic, Types, TableTypes, PlaceTypes, CountTypes, DataTypes, Placed, Ops, Closing, Copying, Forking, Dup2ing

\* A descriptor list stays one when a descriptor is added or taken out.
LEMMA ListTypes ==
  ASSUME NEW f \in [Tasks -> [Nodes -> Nat]], NEW t \in Tasks, NEW n \in Nodes
  PROVE  /\ OpenNode(f, t, n) \in [Tasks -> [Nodes -> Nat]]
         /\ f[t][n] > 0 => Unlinked(f, t, n) \in [Tasks -> [Nodes -> Nat]]
<1>1. [f[t] EXCEPT ![n] = @ + 1] \in [Nodes -> Nat]
  OBVIOUS
<1>2. f[t][n] > 0 => [f[t] EXCEPT ![n] = @ - 1] \in [Nodes -> Nat]
  OBVIOUS
<1> QED
  BY <1>1, <1>2 DEF OpenNode, Unlinked

\* Every step keeps the descriptor lists well formed.
LEMMA TableNext ==
  ASSUME Basic, NEW t \in Tasks, Step(t) \/ Call(t)
  PROVE  TableTypes'
<1> USE DEF TableTypes
<1>t. TableTypes
  BY DEF Basic, Types
<1>1. CASE PipeCall(t)
  <2>1. PICK p \in Pipes : fds' = OpenNode(OpenNode(fds, t, <<p, "r">>), t, <<p, "w">>)
    BY <1>1 DEF PipeCall
  <2>2. OpenNode(fds, t, <<p, "r">>) \in [Tasks -> [Nodes -> Nat]]
    BY <1>t, NodeParts, ListTypes
  <2>3. fds' \in [Tasks -> [Nodes -> Nat]]
    BY <2>1, <2>2, NodeParts, ListTypes
  <2> QED
    BY <1>1, <1>t, <2>3 DEF PipeCall
<1>2. CASE CloseCall(t)
  <2>1. PICK n \in Nodes : fds[t][n] > 0 /\ fds' = Unlinked(fds, t, n)
    BY <1>2 DEF CloseCall
  <2>2. todo' = todo
    BY <1>2 DEF CloseCall
  <2> QED
    BY <2>1, <2>2, <1>t, ListTypes
<1>3. CASE Dup(t)
  <2>1. PICK n \in Nodes : fds' = OpenNode(fds, t, n)
    BY <1>3 DEF Dup, Duplicate
  <2>2. todo' = todo
    BY <1>3 DEF Dup
  <2> QED
    BY <2>1, <2>2, <1>t, ListTypes
<1>4. CASE Dup2Close(t)
  <2>1. PICK n \in Nodes : fds[t][n] > 0 /\ fds' = Unlinked(fds, t, n)
    BY <1>4 DEF Dup2Close
  <2>2. todo' = todo
    BY <1>4 DEF Dup2Close
  <2> QED
    BY <2>1, <2>2, <1>t, ListTypes
<1>5. CASE Dup2Open(t)
  <2>1. old[t] \in Nodes
    BY <1>5 DEF Dup2Open, Basic, Placed, Dup2ing
  <2> QED
    BY <2>1, <1>5, <1>t, ListTypes DEF Dup2Open, Duplicate
<1>6. CASE ForkCount(t)
  <2>1. child[t] \in Tasks /\ node[t] \in Nodes
    BY <1>6 DEF ForkCount, Basic, Placed, Forking
  <2> QED
    BY <2>1, <1>6, <1>t, ListTypes DEF ForkCount
<1>7. CASE Execve(t)
  <2>1. PICK c \in Tasks, kept \in [Nodes -> 0..MaxFds] :
          /\ fds' = [fds EXCEPT ![t] = [n \in Nodes |-> 0], ![c] = kept]
          /\ todo' = [todo EXCEPT ![t] = fds[t]]
    BY <1>7 DEF Execve
  <2>2. kept \in [Nodes -> Nat] /\ [n \in Nodes |-> 0] \in [Nodes -> Nat]
    BY Constants
  <2> QED
    BY <2>1, <2>2, <1>t
<1>8. CASE Exit(t)
  <2>1. [n \in Nodes |-> 0] \in [Nodes -> Nat]
    OBVIOUS
  <2> QED
    BY <2>1, <1>8, <1>t DEF Exit
<1>9. CASE ExitClose(t)
  <2>1. PICK n \in Nodes : todo[t][n] > 0 /\ todo' = Unlinked(todo, t, n)
    BY <1>9 DEF ExitClose
  <2>2. fds' = fds
    BY <1>9 DEF ExitClose
  <2> QED
    BY <2>1, <2>2, <1>t, ListTypes
<1>10. ASSUME UNCHANGED table PROVE TableTypes'
  BY <1>t, <1>10 DEF table
<1> QED
  BY <1>1, <1>2, <1>3, <1>4, <1>5, <1>6, <1>7, <1>8, <1>9, <1>10
  DEF Step, Call, CloseEnd, CloseFree, ForkOpen, ForkReady, ExitDone, ReadWake, ReadCopy,
      WriteChunk, Fork, ReadCall, WriteCall

\* Every step keeps the buffers sequences of byte numbers.
LEMMA DataNext ==
  ASSUME Basic, NEW t \in Tasks, Step(t) \/ Call(t)
  PROVE  DataTypes'
<1>t. DataTypes
  BY DEF Basic, Types
<1>1. CASE ReadCopy(t)
  <2> DEFINE p == Pipe(node[t])
             c == Least(Len(buf[p]), Least(left[t], Window))
  <2>1. p \in Pipes /\ left[t] \in Nat
    BY <1>1, NodeParts DEF ReadCopy, Basic, Types, PlaceTypes, Placed, Copying
  <2>2. buf[p] \in Seq(Nat) /\ Len(buf[p]) \in Nat
    BY <2>1, <1>t DEF DataTypes
  <2>3. c \in Nat /\ c <= Len(buf[p])
    BY <2>1, <2>2, Constants DEF Least
  <2>4. Taken(buf[p], c) \in Seq(Nat)
    BY <2>2, <2>3 DEF Taken
  <2>5. c > 0 => buf[p][c] \in Nat
    BY <2>2, <2>3
  <2>6. /\ buf' = [buf EXCEPT ![p] = Taken(buf[p], c)]
        /\ taken' = IF c > 0 THEN [taken EXCEPT ![p] = buf[p][c]] ELSE taken
        /\ sent' = sent
    BY <1>1 DEF ReadCopy
  <2> HIDE DEF c
  <2> QED
    BY <1>t, <2>1, <2>4, <2>5, <2>6 DEF DataTypes
<1>2. CASE WriteChunk(t)
  <2> DEFINE p == Pipe(node[t])
             c == Least(left[t], Window)
             new == [i \in 1..c |-> sent[p] + i]
  <2>1. p \in Pipes /\ left[t] \in Nat
    BY <1>2, NodeParts DEF WriteChunk, Basic, Types, PlaceTypes, Placed, Copying
  <2>2. buf[p] \in Seq(Nat) /\ sent[p] \in Nat /\ c \in Nat
    BY <2>1, <1>t, Constants DEF DataTypes, Least
  <2>3. new \in Seq(Nat)
    <3> HIDE DEF c
    <3> QED
      BY <2>2, IsASeq
  <2>4. buf[p] \o new \in Seq(Nat)
    BY <2>2, <2>3
  <2>5. /\ taken' = taken
        /\ \/ UNCHANGED <<buf, sent>>
           \/ /\ buf' = [buf EXCEPT ![p] = @ \o new]
              /\ sent' = [sent EXCEPT ![p] = @ + c]
    BY <1>2 DEF WriteChunk
  <2>6. UNCHANGED <<buf, sent>> => DataTypes'
    BY <1>t, <2>5 DEF DataTypes
  <2> HIDE DEF c, new, p
  <2>7. ASSUME buf' = [buf EXCEPT ![p] = @ \o new], sent' = [sent EXCEPT ![p] = @ + c]
        PROVE  DataTypes'
    <3>1. buf' \in [Pipes -> Seq(Nat)]
      BY <1>t, <2>1, <2>4, <2>7 DEF DataTypes
    <3>2. sent' \in [Pipes -> Nat]
      BY <1>t, <2>1, <2>2, <2>7 DEF DataTypes
    <3> QED
      BY <3>1, <3>2, <1>t, <2>5 DEF DataTypes
  <2> QED
    BY <2>5, <2>6, <2>7
<1>3. ASSUME UNCHANGED <<buf, sent, taken>> PROVE DataTypes'
  BY <1>t, <1>3 DEF DataTypes
<1> QED
  BY <1>1, <1>2, <1>3
  DEF Step, Call, CloseEnd, CloseFree, ForkOpen, ForkReady, ExitDone, ReadWake, Dup2Open,
      ForkCount, ExitClose, CloseBegin, PipeCall, CloseCall, Dup, Dup2Close, Execve, Exit,
      Fork, ReadCall, WriteCall, data

\* Every step keeps the counts in range and the sets of nodes and pipes sets
\* of nodes and pipes.
LEMMA CountNext ==
  ASSUME Basic, NEW t \in Tasks, Step(t) \/ Call(t)
  PROVE  CountTypes'
<1>t. CountTypes
  BY DEF Basic, Types
<1> USE Constants, NodeParts
<1>1. CASE PipeCall(t)
  <2>1. PICK p \in Pipes :
          /\ made' = made \cup {p} /\ pipes' = pipes \cup {p}
          /\ rnode' = rnode \cup {p} /\ wnode' = wnode \cup {p}
          /\ cnt' = [cnt EXCEPT ![p] = 2]
          /\ nodes' = nodes \cup {<<p, "r">>, <<p, "w">>}
          /\ refs' = [refs EXCEPT ![<<p, "r">>] = 1, ![<<p, "w">>] = 1]
    BY <1>1 DEF PipeCall
  <2>2. bare' = bare /\ ready' = ready
    BY <1>1 DEF PipeCall, data
  <2>3. cnt' \in [Pipes -> 0..(RefMod - 1)] /\ refs' \in [Nodes -> Int]
    BY <1>t, <2>1 DEF CountTypes
  <2> QED
    BY <1>t, <2>1, <2>2, <2>3 DEF CountTypes
<1>2. CASE CloseEnd(t)
  <2>1. node[t] \in Nodes
    BY <1>2 DEF CloseEnd, Basic, Placed, Closing
  <2>2. (cnt[Pipe(node[t])] - 1) % RefMod \in 0..(RefMod - 1)
    BY <2>1, <1>t, ModType DEF CountTypes
  <2> QED
    BY <2>1, <2>2, <1>2, <1>t DEF CloseEnd, CountTypes, WriterGone, vnode
<1>3. CASE CloseFree(t)
  BY <1>3, <1>t DEF CloseFree, CountTypes, data
<1>4. CASE ForkCount(t)
  <2>1. node[t] \in Nodes
    BY <1>4 DEF ForkCount, Basic, Placed
  <2>2. (cnt[Pipe(node[t])] + 1) % RefMod \in 0..(RefMod - 1)
    BY <2>1, <1>t, ModType DEF CountTypes
  <2> QED
    BY <2>1, <2>2, <1>4, <1>t DEF ForkCount, CountTypes, Counted, vnode, data
<1>5. ASSUME UNCHANGED <<nodes, ends, ready>>, refs' \in [Nodes -> Int], bare' \in [Nodes -> Nat]
      PROVE  CountTypes'
  BY <1>5, <1>t DEF CountTypes, ends
<1>6. ASSUME UNCHANGED <<vnode, ends>>, ready' \subseteq made
      PROVE  CountTypes'
  BY <1>6, <1>t DEF CountTypes, ends, vnode
<1>7. ASSUME NEW n \in Nodes, NEW then, CloseBegin(t, n, then)
      PROVE  CountTypes'
  BY <1>5, <1>7, <1>t DEF CloseBegin, CountTypes, data
<1>8. CASE CloseCall(t)
  BY <1>7, <1>8 DEF CloseCall
<1>9. CASE Dup2Close(t)
  BY <1>7, <1>9 DEF Dup2Close
<1>10. CASE ExitClose(t)
  BY <1>7, <1>10 DEF ExitClose
<1>11. CASE Dup(t)
  BY <1>5, <1>11, <1>t DEF Dup, Duplicate, CountTypes, data
<1>12. CASE Dup2Open(t)
  <2>1. UNCHANGED <<nodes, ends, ready, refs>> /\ bare' = [bare EXCEPT ![old[t]] = @ + 1]
    BY <1>12 DEF Dup2Open, Duplicate, data
  <2>2. old[t] \in Nodes
    BY <1>12 DEF Dup2Open, Basic, Placed, Dup2ing
  <2>3. refs' \in [Nodes -> Int] /\ bare' \in [Nodes -> Nat]
    BY <2>1, <2>2, <1>t DEF CountTypes
  <2> QED
    BY <2>1, <2>3, <1>5
<1>13. CASE ForkOpen(t)
  BY <1>5, <1>13, <1>t DEF ForkOpen, CountTypes, data
<1>14. CASE Execve(t)
  BY <1>5, <1>14, <1>t DEF Execve, CountTypes, data
<1>15. CASE ReadCopy(t)
  BY <1>6, <1>15, <1>t DEF ReadCopy, CountTypes, Drained
<1>16. CASE WriteChunk(t)
  <2>1. UNCHANGED <<vnode, ends>> /\ ready' \subseteq made
    BY <1>16, <1>t DEF WriteChunk, CountTypes
  <2> QED
    BY <2>1, <1>6
<1>17. ASSUME UNCHANGED <<vnode, ends, data>> PROVE CountTypes'
  BY <1>17, <1>t DEF CountTypes, vnode, ends, data
<1> QED
  BY <1>1, <1>2, <1>3, <1>4, <1>8, <1>9, <1>10, <1>11, <1>12, <1>13, <1>14, <1>15, <1>16, <1>17
  DEF Step, Call, ForkReady, ExitDone, ReadWake, Exit, Fork, ReadCall, WriteCall

\* Every step leaves a task at a place, with the operands that place needs.
LEMMA PlaceNext ==
  ASSUME Basic, NEW t \in Tasks, Step(t) \/ Call(t)
  PROVE  PlaceTypes' /\ Placed'
<1>t. PlaceTypes /\ Placed
  BY DEF Basic, Types
<1> USE Constants DEF PlaceTypes, Placed, Ops, Closing, Copying, Forking, Dup2ing, place, close
<1>1. CASE PipeCall(t)
  BY <1>1, <1>t DEF PipeCall, In
<1>2. CASE CloseCall(t)
  BY <1>2, <1>t DEF CloseCall, In, CloseBegin
<1>3. CASE Dup(t)
  BY <1>3, <1>t DEF Dup, In
<1>4. CASE Dup2Close(t)
  BY <1>4, <1>t DEF Dup2Close, In, CloseBegin
<1>5. CASE Fork(t)
  BY <1>5, <1>t DEF Fork, In
<1>6. CASE Execve(t)
  BY <1>6, <1>t DEF Execve, In
<1>7. CASE Exit(t)
  BY <1>7, <1>t DEF Exit, In, Goes
<1>8. CASE ReadCall(t)
  <2>1. PICK p \in Pipes, len \in Lengths :
          /\ node' = [node EXCEPT ![t] = <<p, "r">>] /\ left' = [left EXCEPT ![t] = len]
          /\ nonblock' = nonblock \/ nonblock' = nonblock \cup {t}
    BY <1>8 DEF ReadCall
  <2>2. op' = [op EXCEPT ![t] = "read_wait"] /\ UNCHANGED <<child, old, after, close>>
    BY <1>8 DEF ReadCall, Goes
  <2>3. <<p, "r">> \in Nodes /\ len \in Nat /\ len > 0
    BY NodeParts
  <2> QED
    BY <2>1, <2>2, <2>3, <1>t
<1>9. CASE WriteCall(t)
  <2>1. PICK p \in Pipes, len \in Lengths :
          node' = [node EXCEPT ![t] = <<p, "w">>] /\ left' = [left EXCEPT ![t] = len]
    BY <1>9 DEF WriteCall
  <2>2. op' = [op EXCEPT ![t] = "write"] /\ UNCHANGED <<nonblock, child, old, after, close>>
    BY <1>9 DEF WriteCall, Goes
  <2>3. <<p, "w">> \in Nodes /\ len \in Nat /\ len > 0
    BY NodeParts
  <2> QED
    BY <2>1, <2>2, <2>3, <1>t
<1>10. CASE CloseEnd(t)
  BY <1>10, <1>t DEF CloseEnd, Goes, WriterGone
<1>11. CASE CloseFree(t)
  BY <1>11, <1>t DEF CloseFree, Goes, Leaves
<1>12. CASE Dup2Open(t)
  BY <1>12, <1>t DEF Dup2Open, Goes
<1>13. CASE ForkOpen(t)
  BY <1>13, <1>t DEF ForkOpen, Goes
<1>14. CASE ForkCount(t)
  BY <1>14, <1>t DEF ForkCount, Goes, Leaves
<1>15. CASE ForkReady(t)
  BY <1>15, <1>t DEF ForkReady
<1>16. CASE ExitClose(t)
  BY <1>16, <1>t DEF ExitClose, CloseBegin
<1>17. CASE ExitDone(t)
  BY <1>17, <1>t DEF ExitDone, Goes
<1>18. CASE ReadWake(t)
  BY <1>18, <1>t DEF ReadWake, Goes
<1>19. CASE ReadCopy(t)
  <2>1. \/ Goes(t, "user") /\ Returns(t)
        \/ /\ Goes(t, "read_wait") /\ UNCHANGED <<node, nonblock>>
           /\ \E c : /\ c \in Nat /\ left[t] > c
                     /\ left' = [left EXCEPT ![t] = @ - c]
    <3> DEFINE p == Pipe(node[t])
               c == Least(Len(buf[p]), Least(left[t], Window))
    <3>1. p \in Pipes /\ left[t] \in Nat
      BY <1>19, <1>t, NodeParts DEF ReadCopy
    <3>2. c \in Nat
      BY <3>1 DEF Least, Basic, Types, DataTypes
    <3> QED
      BY <3>2, <1>19 DEF ReadCopy
  <2>2. op[t] = "read_lock" /\ UNCHANGED <<child, old, after, close>>
    BY <1>19 DEF ReadCopy
  <2> QED
    BY <2>1, <2>2, <1>t DEF Goes, Returns, Leaves
<1>20. CASE WriteChunk(t)
  <2>1. \/ Goes(t, "user") /\ Returns(t)
        \/ /\ Goes(t, "write") /\ UNCHANGED <<node, nonblock>>
           /\ \E c : /\ c \in Nat /\ left[t] > c
                     /\ left' = [left EXCEPT ![t] = @ - c]
    <3> DEFINE c == Least(left[t], Window)
    <3>1. left[t] \in Nat
      BY <1>t
    <3>2. c \in Nat /\ c <= left[t]
      BY <3>1 DEF Least
    <3> QED
      BY <3>1, <3>2, <1>20 DEF WriteChunk
  <2>2. op[t] = "write" /\ UNCHANGED <<child, old, after, close>>
    BY <1>20 DEF WriteChunk
  <2> QED
    BY <2>1, <2>2, <1>t DEF Goes, Returns, Leaves
<1> QED
  BY <1>1, <1>2, <1>3, <1>4, <1>5, <1>6, <1>7, <1>8, <1>9, <1>10, <1>11, <1>12, <1>13, <1>14, <1>15, <1>16, <1>17, <1>18, <1>19, <1>20 DEF Step, Call

\* Nothing has been written to a pipe that was never created.
Unmade == \A p \in Pipes \ made : buf[p] = <<>>

\* The inductive invariant of the pipe's contents: InOrder and ReadyIsTrue
\* hold each other up.
DataInv == Basic /\ Unmade /\ InOrder /\ ReadyIsTrue

\* Types and operands are inductive.
LEMMA BasicNext ==
  ASSUME Basic, [Next]_vars
  PROVE  Basic'
<1>1. ASSUME NEW t \in Tasks, Step(t) \/ Call(t) PROVE Basic'
  BY <1>1, TableNext, PlaceNext, CountNext, DataNext DEF Basic, Types
<1>2. CASE UNCHANGED vars
  BY <1>2 DEF vars, table, place, close, vnode, ends, data, Basic, Types, TableTypes, PlaceTypes,
              CountTypes, DataTypes, Placed, Closing, Copying, Forking, Dup2ing
<1> QED
  BY <1>1, <1>2 DEF Next

\* The first state: no bytes.
LEMMA DataInvInit == Init => DataInv
<1> SUFFICES ASSUME Init PROVE DataInv
  OBVIOUS
<1>1. Basic
  BY BasicInit
<1>2. Unmade /\ InOrder /\ ReadyIsTrue
  BY DEF Init, Unmade, InOrder, ReadyIsTrue
<1> QED
  BY <1>1, <1>2 DEF DataInv

\* The bytes in s are the ones that come after byte number a.
Follow(s, a) == \A i \in 1..Len(s) : s[i] = a + i

\* What Taken and an append do to such a buffer.
LEMMA TakenBytes ==
  ASSUME NEW s \in Seq(Nat), NEW c \in Nat, c <= Len(s), NEW a \in Nat, Follow(s, a)
  PROVE  Len(Taken(s, c)) = Len(s) - c /\ Follow(Taken(s, c), a + c)
<1>1. Len(s) \in Nat
  OBVIOUS
<1>2. Len(SubSeq(s, c + 1, Len(s))) = Len(s) - c
  BY <1>1
<1>3. ASSUME NEW i \in 1..(Len(s) - c) PROVE SubSeq(s, c + 1, Len(s))[i] = (a + c) + i
  <2>1. SubSeq(s, c + 1, Len(s))[i] = s[c + i]
    BY <1>1, <1>3
  <2>2. c + i \in 1..Len(s)
    BY <1>1
  <2>3. s[c + i] = a + (c + i)
    BY <2>2 DEF Follow
  <2> QED
    BY <2>1, <2>3
<1> QED
  BY <1>2, <1>3 DEF Taken, Follow

\* v_pipe_write: the bytes appended follow the ones in the buffer.
LEMMA AppendedBytes ==
  ASSUME NEW s \in Seq(Nat), NEW new \in Seq(Nat), NEW a \in Nat,
         Follow(s, a), Follow(new, a + Len(s))
  PROVE  Len(s \o new) = Len(s) + Len(new) /\ Follow(s \o new, a)
<1>1. Len(s) \in Nat /\ Len(new) \in Nat
  OBVIOUS
<1>2. Len(s \o new) = Len(s) + Len(new)
  BY ConcatProperties
<1>3. ASSUME NEW i \in 1..(Len(s) + Len(new)) PROVE (s \o new)[i] = a + i
  <2>1. CASE i <= Len(s)
    BY <1>1, <2>1 DEF Follow
  <2>2. CASE i > Len(s)
    <3>1. (s \o new)[i] = new[i - Len(s)]
      BY <1>1, <2>2
    <3>2. i - Len(s) \in 1..Len(new)
      BY <1>1, <2>2
    <3>3. new[i - Len(s)] = (a + Len(s)) + (i - Len(s))
      BY <3>2 DEF Follow
    <3> QED
      BY <3>1, <3>3, <1>1
  <2> QED
    BY <2>1, <2>2, <1>1
<1> QED
  BY <1>2, <1>3 DEF Follow

\* A window leaves the buffer at its front.
LEMMA ReadCopyData ==
  ASSUME DataInv, NEW t \in Tasks, ReadCopy(t)
  PROVE  Unmade' /\ InOrder' /\ ReadyIsTrue'
<1> DEFINE p == Pipe(node[t])
           c == Least(Len(buf[p]), Least(left[t], Window))
           b == Taken(buf[p], c)
<1>1. p \in Pipes /\ left[t] \in Nat /\ left[t] > 0
  BY NodeParts DEF DataInv, Basic, Types, PlaceTypes, Placed, Copying, ReadCopy
<1>2. buf[p] \in Seq(Nat) /\ Len(buf[p]) \in Nat /\ buf \in [Pipes -> Seq(Nat)]
      /\ taken \in [Pipes -> Nat] /\ taken[p] \in Nat /\ sent[p] \in Nat
  BY <1>1 DEF DataInv, Basic, Types, DataTypes
<1>3. c \in Nat /\ c <= Len(buf[p]) /\ (c = 0 => Len(buf[p]) = 0)
  BY <1>1, <1>2, Constants DEF Least
<1>4. /\ buf' = [buf EXCEPT ![p] = b]
      /\ taken' = IF c > 0 THEN [taken EXCEPT ![p] = buf[p][c]] ELSE taken
      /\ ready' = IF c > 0 THEN (IF b = <<>> THEN ready \ {p} ELSE ready) ELSE ready
      /\ UNCHANGED <<sent, made, rnode, wnode>>
  BY DEF ReadCopy, Drained, ends
<1> HIDE DEF c
<1>a. Len(buf[p]) = sent[p] - taken[p] /\ Follow(buf[p], taken[p])
  BY <1>1 DEF DataInv, InOrder, Follow
<1>5. Len(b) = Len(buf[p]) - c /\ Follow(b, taken[p] + c)
  BY <1>a, <1>2, <1>3, TakenBytes
<1>6. c = 0 => b = <<>> /\ buf[p] = <<>>
  <2>1. b \in Seq(Nat)
    BY <1>2, <1>3 DEF Taken
  <2> QED
    BY <2>1, <1>2, <1>3, <1>5, EmptySeq
<1>7. taken'[p] = taken[p] + c
  <2>1. c > 0 => buf[p][c] = taken[p] + c
    BY <1>a, <1>3 DEF Follow
  <2> QED
    BY <2>1, <1>1, <1>2, <1>3, <1>4
<1>8. buf'[p] = b /\ \A q \in Pipes \ {p} : buf'[q] = buf[q] /\ taken'[q] = taken[q]
  BY <1>1, <1>2, <1>4
<1> HIDE DEF b
<1>9. InOrder'
  <2> SUFFICES ASSUME NEW q \in Pipes
               PROVE  /\ Len(buf'[q]) = sent'[q] - taken'[q]
                      /\ Follow(buf'[q], taken'[q])
    BY DEF InOrder, Follow
  <2>1. CASE q # p
    BY <2>1, <1>8, <1>4 DEF DataInv, InOrder, Follow
  <2>2. CASE q = p
    <3>1. buf'[q] = b /\ taken'[q] = taken[p] + c /\ sent'[q] = sent[p]
      BY <2>2, <1>4, <1>7, <1>8
    <3>2. Len(b) = sent[p] - (taken[p] + c)
      BY <1>a, <1>2, <1>3, <1>5
    <3> QED
      BY <3>1, <3>2, <1>5
  <2> QED
    BY <2>1, <2>2
<1>10. buf[p] = <<>> => b = <<>>
  <2>1. buf[p] = <<>> => Len(buf[p]) = 0
    OBVIOUS
  <2> QED
    BY <2>1, <1>2, <1>3, <1>6
<1>11. Unmade'
  BY <1>4, <1>8, <1>10 DEF DataInv, Unmade
<1>12. ReadyIsTrue'
  BY <1>1, <1>3, <1>4, <1>6, <1>8, <1>10 DEF DataInv, ReadyIsTrue, Basic, Types, CountTypes
<1> QED
  BY <1>9, <1>11, <1>12

\* A window is appended.
LEMMA WriteChunkData ==
  ASSUME DataInv, NEW t \in Tasks, WriteChunk(t)
  PROVE  Unmade' /\ InOrder' /\ ReadyIsTrue'
<1> DEFINE p == Pipe(node[t])
           c == Least(left[t], Window)
           new == [i \in 1..c |-> sent[p] + i]
<1>1. p \in Pipes /\ left[t] \in Nat /\ left[t] > 0
  BY NodeParts DEF DataInv, Basic, Types, PlaceTypes, Placed, Copying, WriteChunk
<1>2. /\ buf[p] \in Seq(Nat) /\ Len(buf[p]) \in Nat /\ buf \in [Pipes -> Seq(Nat)]
      /\ sent \in [Pipes -> Nat] /\ taken[p] \in Nat /\ sent[p] \in Nat
  BY <1>1 DEF DataInv, Basic, Types, DataTypes
<1>3. c \in Nat /\ c > 0
  BY <1>1, Constants DEF Least
<1>4. UNCHANGED <<taken, made, rnode, wnode>>
  BY DEF WriteChunk, ends
<1>5. ASSUME UNCHANGED <<buf, sent, ready>> PROVE Unmade' /\ InOrder' /\ ReadyIsTrue'
  BY <1>4, <1>5 DEF DataInv, Unmade, InOrder, ReadyIsTrue
<1>6. ASSUME buf' = [buf EXCEPT ![p] = @ \o new], sent' = [sent EXCEPT ![p] = @ + c],
             ready' = ready \cup {p}, p \in rnode
      PROVE  Unmade' /\ InOrder' /\ ReadyIsTrue'
  <2> HIDE DEF c
  <2>1. new \in Seq(Nat) /\ Len(new) = c
    BY <1>2, <1>3, IsASeq
  <2>a. Len(buf[p]) = sent[p] - taken[p] /\ Follow(buf[p], taken[p])
    BY <1>1 DEF DataInv, InOrder, Follow
  <2>b. Follow(new, taken[p] + Len(buf[p]))
    BY <2>a, <2>1, <1>2, <1>3 DEF Follow
  <2>2. Len(buf[p] \o new) = Len(buf[p]) + c /\ Follow(buf[p] \o new, taken[p])
    <3> HIDE DEF new, p
    <3> QED
      BY <2>a, <2>b, <2>1, <1>2, <1>3, AppendedBytes
  <2>3. buf'[p] = buf[p] \o new /\ sent'[p] = sent[p] + c
        /\ \A q \in Pipes \ {p} : buf'[q] = buf[q] /\ sent'[q] = sent[q]
    BY <1>1, <1>2, <1>6
  <2> HIDE DEF new
  <2>4. InOrder'
    <3> SUFFICES ASSUME NEW q \in Pipes
                 PROVE  /\ Len(buf'[q]) = sent'[q] - taken'[q]
                        /\ Follow(buf'[q], taken'[q])
      BY DEF InOrder, Follow
    <3>1. CASE q # p
      BY <3>1, <2>3, <1>4 DEF DataInv, InOrder, Follow
    <3>2. CASE q = p
      <4>1. buf'[q] = buf[p] \o new /\ taken'[q] = taken[p] /\ sent'[q] = sent[p] + c
        BY <3>2, <1>4, <2>3
      <4>2. Len(buf[p] \o new) = (sent[p] + c) - taken[p]
        BY <2>a, <2>2, <1>2, <1>3
      <4> QED
        BY <4>1, <4>2, <2>2
    <3> QED
      BY <3>1, <3>2
  <2>5. buf'[p] # <<>>
    BY <2>2, <2>3, <1>2, <1>3
  <2>6. p \in made
    BY <1>6 DEF DataInv, Basic, Types, CountTypes
  <2> QED
    BY <2>3, <2>4, <2>5, <2>6, <1>1, <1>4, <1>6 DEF DataInv, Unmade, ReadyIsTrue, Basic, Types, CountTypes
<1>7. \/ UNCHANGED <<buf, sent, ready>>
      \/ /\ buf' = [buf EXCEPT ![p] = @ \o new] /\ sent' = [sent EXCEPT ![p] = @ + c]
         /\ ready' = ready \cup {p} /\ p \in rnode
  BY DEF WriteChunk
<1> HIDE DEF c, new, p
<1> QED
  BY <1>5, <1>6, <1>7

\* Only ReadCopy, WriteChunk, PipeCall and CloseEnd touch what DataInv is about.
LEMMA DataInvNext ==
  ASSUME DataInv, [Next]_vars
  PROVE  DataInv'
<1>1. Basic'
  BY BasicNext DEF DataInv
<1>2. ASSUME UNCHANGED <<buf, sent, taken, ready, rnode, wnode>>, made \subseteq made'
      PROVE  Unmade' /\ InOrder' /\ ReadyIsTrue'
  BY <1>2, <1>1 DEF DataInv, Unmade, InOrder, ReadyIsTrue, Basic, Types, CountTypes
<1>3. ASSUME NEW t \in Tasks, Step(t) \/ Call(t)
      PROVE  Unmade' /\ InOrder' /\ ReadyIsTrue'
  <2>1. CASE PipeCall(t)
    <3>1. PICK p \in Pipes \ made : made' = made \cup {p} /\ rnode' = rnode \cup {p}
      BY <2>1 DEF PipeCall
    <3>2. UNCHANGED <<buf, sent, taken, ready>> 
      BY <2>1 DEF PipeCall, data
    <3>3. wnode' = wnode \cup {p}
      BY <2>1, <3>1 DEF PipeCall
    <3>4. p \notin ready /\ buf[p] = <<>>
      BY <3>1 DEF DataInv, Basic, Types, CountTypes, Unmade
    <3> QED
      BY <3>1, <3>2, <3>3, <3>4 DEF DataInv, Unmade, InOrder, ReadyIsTrue
  <2>2. CASE CloseEnd(t)
    BY <2>2, NodeParts DEF CloseEnd, WriterGone, DataInv, Unmade, InOrder, ReadyIsTrue
  <2>3. CASE ReadCopy(t)
    BY <2>3, ReadCopyData
  <2>4. CASE WriteChunk(t)
    BY <2>4, WriteChunkData
  <2>5. ASSUME NEW n, NEW then, CloseBegin(t, n, then)
        PROVE  Unmade' /\ InOrder' /\ ReadyIsTrue'
    BY <2>5, <1>2 DEF CloseBegin, data, ends
  <2>6. CASE CloseCall(t) \/ Dup2Close(t) \/ ExitClose(t)
    BY <2>5, <2>6 DEF CloseCall, Dup2Close, ExitClose
  <2>7. CASE \/ CloseFree(t) \/ Dup2Open(t) \/ ForkOpen(t) \/ ForkCount(t) \/ ForkReady(t)
             \/ ExitDone(t) \/ ReadWake(t) \/ Dup(t) \/ Fork(t) \/ Execve(t) \/ Exit(t)
             \/ ReadCall(t) \/ WriteCall(t)
    BY <2>7, <1>2 DEF CloseFree, Dup2Open, ForkOpen, ForkCount, ForkReady, ExitDone, ReadWake,
                      Dup, Fork, Execve, Exit, ReadCall, WriteCall, data, ends
  <2> QED
    BY <1>3, <2>1, <2>2, <2>3, <2>4, <2>6, <2>7 DEF Step, Call
<1>4. CASE UNCHANGED vars
  <2>1. UNCHANGED <<buf, sent, taken, ready, rnode, wnode>> /\ made \subseteq made'
    BY <1>4 DEF vars, data, ends
  <2> QED
    BY <1>1, <1>2, <2>1 DEF DataInv
<1> QED
  BY <1>1, <1>2, <1>3, <1>4 DEF DataInv, Next

\* A pipe is a queue (v_pipe_read and v_pipe_write): whoever reads and writes,
\* window by window and at the same time, every byte leaves once and in the
\* order of writing.  For any number of tasks and pipes, any window and any
\* lengths, and also with the defects of close() let loose.
THEOREM PipeIsAQueue == Spec => []InOrder
<1>1. DataInv => InOrder
  BY DEF DataInv
<1> QED
  BY <1>1, DataInvInit, DataInvNext, PTL DEF Spec

\* data_ready_to_read of the read node, which poll and O_NONBLOCK go by, is
\* true whenever there is a byte, and while there is a writer only then
\* (v_pipe_read, v_pipe_write, v_close): under the same assumptions.
THEOREM PipeReadiness == Spec => []ReadyIsTrue
<1>1. DataInv => ReadyIsTrue
  BY DEF DataInv
<1> QED
  BY <1>1, DataInvInit, DataInvNext, PTL DEF Spec

-----------------------------------------------------------------------------
(* Dots.                                                                   *)

\* g[s] copies of every s in S: the way descriptors are counted.
Stack(S, g) == {x \in S \X (1..MaxFds) : x[2] <= g[x[1]]}
StackBut(S, g, s) == {x \in S \X (1..MaxFds) : x[1] # s /\ x[2] <= g[x[1]]}

\* A stack is finite.
LEMMA StackFinite ==
  ASSUME NEW S, IsFiniteSet(S), NEW g, NEW s
  PROVE  /\ IsFiniteSet(Stack(S, g)) /\ IsFiniteSet(StackBut(S, g, s))
         /\ Cardinality(Stack(S, g)) \in Nat /\ Cardinality(StackBut(S, g, s)) \in Nat
         /\ Cardinality(Stack(S, g)) <= Cardinality(S) * MaxFds
<1>1. IsFiniteSet(1..MaxFds) /\ Cardinality(1..MaxFds) = MaxFds
  BY Constants, FS_Interval
<1>2. IsFiniteSet(S \X (1..MaxFds)) /\ Cardinality(S \X (1..MaxFds)) = Cardinality(S) * MaxFds
  BY <1>1, FS_Product
<1>3. Stack(S, g) \in SUBSET (S \X (1..MaxFds)) /\ StackBut(S, g, s) \in SUBSET (S \X (1..MaxFds))
  BY DEF Stack, StackBut
<1> QED
  BY <1>2, <1>3, FS_Subset, FS_CardinalityType

\* The dots over s are as many as its height.
LEMMA StackSplit ==
  ASSUME NEW S, IsFiniteSet(S), NEW g \in [S -> Nat], NEW s \in S, g[s] <= MaxFds
  PROVE  Cardinality(Stack(S, g)) = Cardinality(StackBut(S, g, s)) + g[s]
<1> DEFINE top == {s} \X (1..g[s])
<1>1. IsFiniteSet(1..g[s]) /\ Cardinality(1..g[s]) = g[s]
  BY FS_Interval
<1>2. IsFiniteSet({s}) /\ Cardinality({s}) = 1
  BY FS_Singleton
<1>3. IsFiniteSet(top) /\ Cardinality(top) = Cardinality({s}) * Cardinality(1..g[s])
  BY <1>1, <1>2, FS_Product
<1>4. Cardinality(top) = g[s]
  BY <1>1, <1>2, <1>3
<1>5. Stack(S, g) = StackBut(S, g, s) \cup top
  BY Constants DEF Stack, StackBut
<1>6. StackBut(S, g, s) \cap top = {}
  BY DEF StackBut
<1>7. IsFiniteSet(StackBut(S, g, s)) /\ Cardinality(StackBut(S, g, s)) \in Nat
  BY StackFinite
<1> HIDE DEF top
<1>8. Cardinality(StackBut(S, g, s) \cup top) = Cardinality(StackBut(S, g, s)) + Cardinality(top)
  <2>1. Cardinality(top) \in Nat
    BY <1>4
  <2>2. Cardinality(StackBut(S, g, s) \cup top) =
          Cardinality(StackBut(S, g, s)) + Cardinality(top) - Cardinality(StackBut(S, g, s) \cap top)
    BY <1>3, <1>7, FS_Union
  <2>3. Cardinality(StackBut(S, g, s) \cap top) = 0
    BY <1>6, FS_EmptySet
  <2> QED
    BY <2>1, <2>2, <2>3, <1>7
<1> QED
  BY <1>4, <1>5, <1>8

\* A change at s alone.
DifferAt(S, g, h, s) == \A u \in S \ {s} : h[u] = g[u]

\* A stack changes by as much as the one height that changes.
LEMMA StackChange ==
  ASSUME NEW S, IsFiniteSet(S), NEW g \in [S -> Nat], NEW h \in [S -> Nat], NEW s \in S,
         g[s] <= MaxFds, h[s] <= MaxFds, DifferAt(S, g, h, s)
  PROVE  Cardinality(Stack(S, h)) = (Cardinality(Stack(S, g)) - g[s]) + h[s]
<1>1. StackBut(S, h, s) = StackBut(S, g, s)
  BY DEF StackBut, DifferAt
<1>2. /\ Cardinality(Stack(S, g)) = Cardinality(StackBut(S, g, s)) + g[s]
      /\ Cardinality(Stack(S, h)) = Cardinality(StackBut(S, h, s)) + h[s]
  BY StackSplit
<1>3. Cardinality(StackBut(S, g, s)) \in Nat
  BY StackFinite
<1>4. g[s] \in Nat /\ h[s] \in Nat
  OBVIOUS
<1> QED
  BY <1>1, <1>2, <1>3, <1>4

\* A lower stack has fewer dots.
LEMMA StackMonotone ==
  ASSUME NEW S, IsFiniteSet(S), NEW g \in [S -> Nat], NEW h \in [S -> Nat],
         \A u \in S : h[u] <= g[u]
  PROVE  Cardinality(Stack(S, h)) <= Cardinality(Stack(S, g))
<1>1. Stack(S, h) \in SUBSET Stack(S, g)
  BY DEF Stack
<1> QED
  BY <1>1, StackFinite, FS_Subset

\* No height exceeds the whole.
LEMMA StackPositive ==
  ASSUME NEW S, IsFiniteSet(S), NEW g \in [S -> Nat]
  PROVE  /\ \A s \in S : g[s] <= MaxFds => g[s] <= Cardinality(Stack(S, g))
         /\ (\A s \in S : g[s] = 0) => Cardinality(Stack(S, g)) = 0
<1>1. ASSUME NEW s \in S, g[s] <= MaxFds PROVE g[s] <= Cardinality(Stack(S, g))
  BY <1>1, StackSplit, StackFinite
<1>2. ASSUME \A s \in S : g[s] = 0 PROVE Cardinality(Stack(S, g)) = 0
  <2>1. Stack(S, g) = {}
    BY <1>2 DEF Stack
  <2> QED
    BY <2>1, FS_EmptySet
<1> QED
  BY <1>1, <1>2

\* The heights Slots and Length count: how many descriptors each task has for
\* node n in the lists f, and how many a list g has for each node.
Column(f, n) == [u \in Tasks |-> f[u][n]]
Held(f, n) == Cardinality(Stack(Tasks, Column(f, n)))
Size(g) == Cardinality(Stack(Nodes, g))

\* There are finitely many nodes.
LEMMA NodesFinite == IsFiniteSet(Tasks) /\ IsFiniteSet(Nodes)
<1>1. IsFiniteSet({"r", "w"})
  <2>1. {"r", "w"} = {"r"} \cup {"w"}
    OBVIOUS
  <2>2. IsFiniteSet({"r"})
    BY FS_Singleton
  <2> QED
    BY <2>1, <2>2, FS_AddElement
<1> QED
  BY <1>1, FiniteAssumption, FS_Product DEF Nodes

\* Slots and Length in these terms.
LEMMA SlotsHeld ==
  /\ \A t : Length(t) = Size(fds[t])
  /\ \A n : Slots(n) = Held(fds, n) + Held(todo, n)
<1>1. \A t : Length(t) = Size(fds[t])
  BY DEF Length, Size, Stack
<1>2. ASSUME NEW n, NEW f
      PROVE {x \in Tasks \X (1..MaxFds) : x[2] <= f[x[1]][n]} = Stack(Tasks, Column(f, n))
  BY DEF Stack, Column
<1> QED
  BY <1>1, <1>2 DEF Slots, Held

\* They are numbers, bounded by all tasks with full lists.
LEMMA HeldNat ==
  ASSUME NEW f, NEW n
  PROVE  Held(f, n) \in Nat /\ Held(f, n) <= Cardinality(Tasks) * MaxFds
BY StackFinite, NodesFinite DEF Held

\* So is Slots.
LEMMA SlotsNat == \A n : Slots(n) \in Nat
BY SlotsHeld, HeldNat

\* StackChange for the tasks.
LEMMA TaskStackChange ==
  ASSUME NEW g \in [Tasks -> Nat], NEW h \in [Tasks -> Nat], NEW t \in Tasks,
         g[t] <= MaxFds, h[t] <= MaxFds, DifferAt(Tasks, g, h, t)
  PROVE  Cardinality(Stack(Tasks, h)) = (Cardinality(Stack(Tasks, g)) - g[t]) + h[t]
BY NodesFinite, StackChange

\* Only task t's list changes, as far as node n goes.
OthersHold(f, h, t, n) == \A u \in Tasks \ {t} : h[u][n] = f[u][n]

\* Then the descriptors of node n change by what t's list does.
LEMMA HeldChange ==
  ASSUME NEW f \in [Tasks -> [Nodes -> Nat]], NEW h \in [Tasks -> [Nodes -> Nat]],
         NEW t \in Tasks, NEW n \in Nodes, f[t][n] <= MaxFds, h[t][n] <= MaxFds,
         OthersHold(f, h, t, n)
  PROVE  Held(h, n) = (Held(f, n) - f[t][n]) + h[t][n]
<1>1. Column(f, n) \in [Tasks -> Nat] /\ Column(h, n) \in [Tasks -> Nat]
  BY DEF Column
<1>2. Column(f, n)[t] = f[t][n] /\ Column(h, n)[t] = h[t][n]
  BY DEF Column
<1>3. \A u \in Tasks \ {t} : Column(h, n)[u] = Column(f, n)[u]
  BY DEF Column, OthersHold
<1>4. DifferAt(Tasks, Column(f, n), Column(h, n), t)
  BY <1>3 DEF DifferAt
<1> HIDE DEF Column
<1>5. Cardinality(Stack(Tasks, Column(h, n)))
        = (Cardinality(Stack(Tasks, Column(f, n))) - Column(f, n)[t]) + Column(h, n)[t]
  BY <1>1, <1>2, <1>4, TaskStackChange
<1> QED
  BY <1>2, <1>5 DEF Held

\* And not at all when nobody's list changes.
LEMMA HeldSame ==
  ASSUME NEW f, NEW h, NEW n, \A u \in Tasks : h[u][n] = f[u][n]
  PROVE  Held(h, n) = Held(f, n)
<1>1. Column(f, n) = Column(h, n)
  BY DEF Column
<1> QED
  BY <1>1 DEF Held

\* The length of a list changes by the one node that changes.
LEMMA SizeChange ==
  ASSUME NEW g \in [Nodes -> Nat], NEW h \in [Nodes -> Nat], NEW n \in Nodes,
         g[n] <= MaxFds, h[n] <= MaxFds, DifferAt(Nodes, g, h, n)
  PROVE  Size(g) \in Nat /\ Size(h) = (Size(g) - g[n]) + h[n]
BY NodesFinite, StackChange, StackFinite DEF Size

\* No list has more descriptors of one node than it is long.
LEMMA SizeBound ==
  ASSUME NEW g \in [Nodes -> Nat]
  PROVE  /\ Size(g) \in Nat
         /\ \A n \in Nodes : g[n] <= MaxFds => g[n] <= Size(g)
         /\ (\A n \in Nodes : g[n] = 0) => Size(g) = 0
BY NodesFinite, StackFinite, StackPositive DEF Size

\* A smaller list is not longer.
LEMMA SizeMonotone ==
  ASSUME NEW g \in [Nodes -> Nat], NEW h \in [Nodes -> Nat], \A n \in Nodes : h[n] <= g[n]
  PROVE  Size(h) <= Size(g)
BY NodesFinite, StackMonotone DEF Size

-----------------------------------------------------------------------------
(* The descriptor lists.                                                   *)

\* What task t's descriptors promise: the list fits its bound, a call in
\* progress still has the descriptor it was made with, the one dup2 will
\* duplicate is open and there is room for the copy, only exit has a to-do list.
Owner(t) ==
  /\ Size(fds[t]) <= MaxFds
  /\ \A n \in Nodes : fds[t][n] <= MaxFds /\ todo[t][n] <= MaxFds
  /\ Copying(t) \/ op[t] = "fork_count" => fds[t][node[t]] > 0
  /\ Dup2ing(t) => fds[t][old[t]] > 0 /\ Size(fds[t]) < MaxFds
  /\ \A n \in Nodes : todo[t][n] > 0 => Exiting(t)
  /\ op[t] = "unused" => \A n \in Nodes : fds[t][n] = 0
Owners == \A t \in Tasks : Owner(t)

\* What fork relies on: the child is new and nobody else's, and has no more
\* descriptors than its parent.
Family ==
  \A t \in Tasks :
    Forking(t) =>
      /\ op[child[t]] = "new"
      /\ \A n \in Nodes : fds[child[t]][n] <= fds[t][n]
      /\ op[t] = "fork_count" => fds[child[t]][node[t]] < fds[t][node[t]]
      /\ \A u \in Tasks : Forking(u) /\ child[u] = child[t] => u = t

\* Nothing refers to a pipe that has not been created.
Made ==
  \A n \in Nodes :
    \/ Pipe(n) \in made
    \/ bare[n] = 0 /\ \A t \in Tasks : fds[t][n] = 0 /\ todo[t][n] = 0 /\ node[t] # n

\* The invariant of the descriptor lists.
OwnInv == Basic /\ Owners /\ Family /\ Made

\* open_node adds one descriptor.
LEMMA Opened ==
  ASSUME NEW f \in [Tasks -> [Nodes -> Nat]], NEW t \in Tasks, NEW n \in Nodes
  PROVE  /\ OpenNode(f, t, n) \in [Tasks -> [Nodes -> Nat]]
         /\ \A u \in Tasks \ {t} : OpenNode(f, t, n)[u] = f[u]
         /\ OpenNode(f, t, n)[t][n] = f[t][n] + 1
         /\ \A m \in Nodes \ {n} : OpenNode(f, t, n)[t][m] = f[t][m]
         /\ f[t][n] < MaxFds => Size(OpenNode(f, t, n)[t]) = Size(f[t]) + 1
<1> DEFINE g == OpenNode(f, t, n)
<1>1. /\ g \in [Tasks -> [Nodes -> Nat]]
      /\ \A u \in Tasks \ {t} : g[u] = f[u]
      /\ g[t][n] = f[t][n] + 1
      /\ \A m \in Nodes \ {n} : g[t][m] = f[t][m]
  BY ListTypes DEF OpenNode
<1> HIDE DEF g
<1>2. f[t] \in [Nodes -> Nat] /\ g[t] \in [Nodes -> Nat] /\ DifferAt(Nodes, f[t], g[t], n)
  BY <1>1 DEF DifferAt
<1>3. ASSUME f[t][n] < MaxFds PROVE Size(g[t]) = Size(f[t]) + 1
  <2>1. f[t][n] \in Nat /\ f[t][n] <= MaxFds /\ g[t][n] <= MaxFds
    BY <1>1, <1>2, <1>3, Constants
  <2>2. Size(f[t]) \in Nat /\ Size(g[t]) = (Size(f[t]) - f[t][n]) + g[t][n]
    BY <1>2, <2>1, SizeChange
  <2> QED
    BY <1>1, <2>1, <2>2
<1> QED
  BY <1>1, <1>3 DEF g

\* And the list is one longer.
LEMMA OpenedSize ==
  ASSUME NEW f \in [Tasks -> [Nodes -> Nat]], NEW t \in Tasks, NEW n \in Nodes, f[t][n] < MaxFds
  PROVE  Size(OpenNode(f, t, n)[t]) = Size(f[t]) + 1
BY Opened

\* close_fd takes one descriptor out.
LEMMA Closed ==
  ASSUME NEW f \in [Tasks -> [Nodes -> Nat]], NEW t \in Tasks, NEW n \in Nodes, f[t][n] > 0
  PROVE  /\ Unlinked(f, t, n) \in [Tasks -> [Nodes -> Nat]]
         /\ \A u \in Tasks \ {t} : Unlinked(f, t, n)[u] = f[u]
         /\ Unlinked(f, t, n)[t][n] = f[t][n] - 1
         /\ \A m \in Nodes \ {n} : Unlinked(f, t, n)[t][m] = f[t][m]
         /\ f[t][n] <= MaxFds => Size(Unlinked(f, t, n)[t]) = Size(f[t]) - 1
<1> DEFINE g == Unlinked(f, t, n)
<1>1. /\ g \in [Tasks -> [Nodes -> Nat]]
      /\ \A u \in Tasks \ {t} : g[u] = f[u]
      /\ g[t][n] = f[t][n] - 1
      /\ \A m \in Nodes \ {n} : g[t][m] = f[t][m]
  BY ListTypes DEF Unlinked
<1> HIDE DEF g
<1>2. f[t] \in [Nodes -> Nat] /\ g[t] \in [Nodes -> Nat] /\ DifferAt(Nodes, f[t], g[t], n)
  BY <1>1 DEF DifferAt
<1>3. ASSUME f[t][n] <= MaxFds PROVE Size(g[t]) = Size(f[t]) - 1
  <2>1. f[t][n] \in Nat /\ g[t][n] <= MaxFds
    BY <1>1, <1>2, <1>3, Constants
  <2>2. Size(f[t]) \in Nat /\ Size(g[t]) = (Size(f[t]) - f[t][n]) + g[t][n]
    BY <1>2, <1>3, <2>1, SizeChange
  <2> QED
    BY <1>1, <2>1, <2>2
<1> QED
  BY <1>1, <1>3 DEF g

\* The task u is where it was.
Rests(u) ==
  /\ fds'[u] = fds[u] /\ todo'[u] = todo[u] /\ op'[u] = op[u] /\ node'[u] = node[u]
  /\ after'[u] = after[u] /\ old'[u] = old[u] /\ child'[u] = child[u]

\* A step that leaves every other task alone and has nothing to do with fork.
Alone(t) ==
  /\ \A u \in Tasks \ {t} : Rests(u)
  /\ ~Forking(t) /\ ~Forking(t)' /\ op[t] \notin {"new", "unused", "dead"}

\* The steps of one task.
AloneSteps(t) ==
  \/ PipeCall(t) \/ CloseCall(t) \/ Dup(t) \/ Dup2Close(t) \/ Exit(t)
  \/ ReadCall(t) \/ WriteCall(t) \/ CloseEnd(t) \/ CloseFree(t) \/ Dup2Open(t)
  \/ ExitClose(t) \/ ExitDone(t) \/ ReadWake(t) \/ ReadCopy(t) \/ WriteChunk(t)

\* The first state: no descriptors.
LEMMA OwnInvInit == Init => OwnInv
<1> SUFFICES ASSUME Init PROVE OwnInv
  OBVIOUS
<1>1. Basic
  BY BasicInit
<1>2. \A t \in Tasks : fds[t] = [n \in Nodes |-> 0] /\ todo[t] = [n \in Nodes |-> 0]
  BY DEF Init
<1>3. [n \in Nodes |-> 0] \in [Nodes -> Nat]
  OBVIOUS
<1>4. Size([n \in Nodes |-> 0]) = 0
  BY <1>3, SizeBound
<1>5. Owners
  BY <1>2, <1>4, Constants DEF Owners, Owner, Init, Copying, Dup2ing, Closing
<1>6. Family /\ Made
  BY <1>2, Constants DEF Init, Family, Forking, Made
<1> QED
  BY <1>1, <1>5, <1>6 DEF OwnInv

\* A step of one task keeps the promises of the others.
LEMMA AloneOwners ==
  ASSUME Owners, NEW t \in Tasks, \A u \in Tasks \ {t} : Rests(u), Owner(t)'
  PROVE  Owners'
BY DEF Owners, Owner, Rests, Copying, Dup2ing, Closing, Exiting

\* And is nothing to any fork.
LEMMA AloneFamily ==
  ASSUME Basic, Family, NEW t \in Tasks, Alone(t)
  PROVE  Family'
<1>1. \A u \in Tasks : Forking(u)' => u # t /\ Forking(u) /\ Rests(u)
  BY DEF Alone, Rests, Forking
<1>2. \A u \in Tasks : Forking(u) => child[u] \in Tasks /\ op[child[u]] = "new" /\ child[u] # t
  BY DEF Basic, Placed, Family, Alone, Forking
<1>3. \A u \in Tasks : Forking(u) => Rests(child[u])
  BY <1>2 DEF Alone
<1> QED
  BY <1>1, <1>2, <1>3 DEF Family, Rests

\* The steps of one task leave the others alone.
LEMMA AloneStep ==
  ASSUME Basic, NEW t \in Tasks, AloneSteps(t)
  PROVE  Alone(t)
<1> USE DEF Alone, Rests, Forking, table, place
<1>t. TableTypes /\ PlaceTypes
  BY DEF Basic, Types
<1>1. CASE PipeCall(t)
  <2>1. PICK p \in Pipes : fds' = OpenNode(OpenNode(fds, t, <<p, "r">>), t, <<p, "w">>)
    BY <1>1 DEF PipeCall
  <2> QED
    BY <1>1, <2>1, <1>t DEF PipeCall, In, OpenNode, TableTypes, PlaceTypes
<1>2. CASE CloseCall(t)
  BY <1>2, <1>t DEF CloseCall, In, CloseBegin, Unlinked, TableTypes, PlaceTypes
<1>3. CASE Dup(t)
  BY <1>3, <1>t DEF Dup, In, Duplicate, OpenNode, TableTypes, PlaceTypes
<1>4. CASE Dup2Close(t)
  BY <1>4, <1>t DEF Dup2Close, In, CloseBegin, Unlinked, TableTypes, PlaceTypes
<1>5. CASE Exit(t)
  BY <1>5, <1>t DEF Exit, In, Goes, TableTypes, PlaceTypes
<1>6. CASE ReadCall(t)
  BY <1>6, <1>t DEF ReadCall, In, Goes, TableTypes, PlaceTypes
<1>7. CASE WriteCall(t)
  BY <1>7, <1>t DEF WriteCall, In, Goes, TableTypes, PlaceTypes
<1>8. CASE CloseEnd(t)
  BY <1>8, <1>t DEF CloseEnd, Goes, TableTypes, PlaceTypes
<1>9. CASE CloseFree(t)
  BY <1>9, <1>t DEF CloseFree, Goes, Leaves, TableTypes, PlaceTypes
<1>10. CASE Dup2Open(t)
  BY <1>10, <1>t DEF Dup2Open, Duplicate, OpenNode, Goes, TableTypes, PlaceTypes
<1>11. CASE ExitClose(t)
  BY <1>11, <1>t DEF ExitClose, CloseBegin, Unlinked, TableTypes, PlaceTypes
<1>12. CASE ExitDone(t)
  BY <1>12, <1>t DEF ExitDone, Goes, TableTypes, PlaceTypes
<1>13. CASE ReadWake(t)
  BY <1>13, <1>t DEF ReadWake, Goes, TableTypes, PlaceTypes
<1>14. CASE ReadCopy(t)
  BY <1>14, <1>t DEF ReadCopy, Goes, Returns, Leaves, TableTypes, PlaceTypes
<1>15. CASE WriteChunk(t)
  BY <1>15, <1>t DEF WriteChunk, Goes, Returns, Leaves, TableTypes, PlaceTypes
<1> QED
  BY <1>1, <1>2, <1>3, <1>4, <1>5, <1>6, <1>7, <1>8, <1>9, <1>10, <1>11, <1>12, <1>13, <1>14,
     <1>15 DEF AloneSteps

\* Closing one of its descriptors, a task comes nearer to what follows.
LEMMA CloseBeginOwner ==
  ASSUME OwnInv, NEW t \in Tasks, NEW n \in Nodes, fds[t][n] > 0, op[t] = "user",
         fds' = Unlinked(fds, t, n), todo' = todo, op'[t] = "close_end",
         \/ after'[t] = "user"
         \/ after'[t] = "dup2" /\ \E m \in Nodes : /\ old'[t] = m /\ fds[t][m] > 0
                                                   /\ m = n => fds[t][n] > 1
  PROVE  Owner(t)'
<1>1. /\ fds'[t][n] = fds[t][n] - 1 /\ \A m \in Nodes \ {n} : fds'[t][m] = fds[t][m]
      /\ Size(fds'[t]) = Size(fds[t]) - 1
  BY Closed DEF OwnInv, Basic, Types, TableTypes, Owners, Owner
<1>2. fds[t] \in [Nodes -> Nat] /\ todo[t] \in [Nodes -> Nat]
  BY DEF OwnInv, Basic, Types, TableTypes
<1>3. Size(fds[t]) \in Nat /\ Size(fds[t]) <= MaxFds
  BY <1>2, SizeBound DEF OwnInv, Owners, Owner
<1>4. \A m \in Nodes : todo[t][m] = 0
  BY <1>2 DEF OwnInv, Owners, Owner, Exiting, Closing
<1>5. \A m \in Nodes : fds'[t][m] <= MaxFds /\ fds'[t][m] <= fds[t][m]
  BY <1>1, <1>2, Constants DEF OwnInv, Owners, Owner
<1> QED
  BY <1>1, <1>2, <1>3, <1>4, <1>5, Constants
  DEF Owner, Copying, Dup2ing, Closing, Exiting

\* A step of one task keeps its own promises.
LEMMA AloneOwner ==
  ASSUME OwnInv, NEW t \in Tasks, AloneSteps(t)
  PROVE  Owner(t)'
<1>a. Owner(t)
  BY DEF OwnInv, Owners
<1>t. /\ fds \in [Tasks -> [Nodes -> Nat]] /\ todo \in [Tasks -> [Nodes -> Nat]]
      /\ fds[t] \in [Nodes -> Nat] /\ todo[t] \in [Nodes -> Nat]
  BY DEF OwnInv, Basic, Types, TableTypes
<1>p. PlaceTypes /\ Placed
  BY DEF OwnInv, Basic, Types
<1>s. Size(fds[t]) \in Nat /\ \A n \in Nodes : fds[t][n] <= Size(fds[t])
  BY <1>a, <1>t, SizeBound DEF Owner
<1> USE Constants
<1>m. ASSUME NEW n \in Nodes, fds' = OpenNode(fds, t, n), Size(fds[t]) < MaxFds, op'[t] = "user",
             todo' = todo, op[t] \in {"user", "dup2"}
      PROVE  Owner(t)'
  <2>1. /\ fds'[t][n] = fds[t][n] + 1 /\ \A m \in Nodes \ {n} : fds'[t][m] = fds[t][m]
        /\ Size(fds'[t]) = Size(fds[t]) + 1
    <3>1. fds[t][n] < MaxFds
      BY <1>m, <1>t, <1>s
    <3>2. /\ OpenNode(fds, t, n)[t][n] = fds[t][n] + 1
          /\ \A m \in Nodes \ {n} : OpenNode(fds, t, n)[t][m] = fds[t][m]
      BY <1>t, Opened
    <3>3. Size(OpenNode(fds, t, n)[t]) = Size(fds[t]) + 1
      BY <3>1, <1>t, OpenedSize
    <3> QED
      BY <3>2, <3>3, <1>m
  <2>2. \A m \in Nodes : fds'[t][m] <= MaxFds
    BY <2>1, <1>m, <1>s, <1>t, <1>a DEF Owner
  <2> QED
    BY <2>1, <2>2, <1>m, <1>s, <1>a, <1>t DEF Owner, Copying, Dup2ing, Closing, Exiting
<1>1. CASE PipeCall(t)
  <2>1. PICK p \in Pipes : fds' = OpenNode(OpenNode(fds, t, <<p, "r">>), t, <<p, "w">>)
    BY <1>1 DEF PipeCall
  <2> DEFINE r == <<p, "r">>
             w == <<p, "w">>
             f == OpenNode(fds, t, r)
  <2>2. r \in Nodes /\ w \in Nodes
    BY NodeParts
  <2>3. Size(fds[t]) + 2 <= MaxFds
    BY <1>1, SlotsHeld DEF PipeCall
  <2>4. /\ f \in [Tasks -> [Nodes -> Nat]]
        /\ f[t][r] = fds[t][r] + 1 /\ \A m \in Nodes \ {r} : f[t][m] = fds[t][m]
        /\ Size(f[t]) = Size(fds[t]) + 1
    <3> HIDE DEF r, w
    <3>1. fds[t][r] < MaxFds
      BY <2>2, <2>3, <1>t, <1>s
    <3>4. f \in [Tasks -> [Nodes -> Nat]]
      BY <2>2, <1>t, ListTypes
    <3>2. f[t][r] = fds[t][r] + 1 /\ \A m \in Nodes \ {r} : f[t][m] = fds[t][m]
      BY <2>2, <1>t DEF OpenNode
    <3>3. Size(f[t]) = Size(fds[t]) + 1
      BY <3>1, <2>2, <1>t, OpenedSize
    <3> QED
      BY <3>2, <3>3, <3>4
  <2> HIDE DEF f, r, w
  <2>5. f[t] \in [Nodes -> Nat] /\ Size(f[t]) \in Nat /\ \A n \in Nodes : f[t][n] < MaxFds
    BY <2>2, <2>3, <2>4, <1>t, <1>s, SizeBound
  <2>6. fds' = OpenNode(f, t, w)
    BY <2>1 DEF f, r, w
  <2>7. /\ fds'[t][w] = f[t][w] + 1 /\ \A m \in Nodes \ {w} : fds'[t][m] = f[t][m]
        /\ Size(fds'[t]) = Size(f[t]) + 1
    BY <2>2, <2>4, <2>5, <2>6, Opened
  <2>8. \A m \in Nodes : fds'[t][m] <= MaxFds
    BY <2>2, <2>5, <2>7
  <2>9. todo'[t] = todo[t] /\ op[t] = "user" /\ op'[t] = "user"
    BY <1>1 DEF PipeCall, In, place
  <2> QED
    BY <2>3, <2>4, <2>5, <2>7, <2>8, <2>9, <1>a, <1>s, <1>t DEF Owner, Copying, Dup2ing, Closing, Exiting
<1>2. CASE CloseCall(t)
  <2>1. PICK n \in Nodes : /\ fds[t][n] > 0 /\ CloseBegin(t, n, "user")
                           /\ fds' = Unlinked(fds, t, n)
    BY <1>2 DEF CloseCall
  <2>2. op[t] = "user" /\ todo' = todo
    BY <1>2 DEF CloseCall, In
  <2>3. op'[t] = "close_end" /\ after'[t] = "user"
    BY <2>1, <1>p DEF CloseBegin, PlaceTypes
  <2> QED
    BY <2>1, <2>2, <2>3, CloseBeginOwner
<1>3. CASE Dup(t)
  <2>1. PICK n \in Nodes : fds' = OpenNode(fds, t, n)
    BY <1>3 DEF Dup, Duplicate
  <2> QED
    BY <2>1, <1>3, <1>m, SlotsHeld DEF Dup, In, place
<1>4. CASE Dup2Close(t)
  <2>1. PICK n \in Nodes, m \in Nodes :
          /\ fds[t][n] > 0 /\ fds[t][m] > 0 /\ (n = m => fds[t][n] > 1)
          /\ CloseBegin(t, m, "dup2") /\ fds' = Unlinked(fds, t, m)
          /\ old' = [old EXCEPT ![t] = n]
    BY <1>4 DEF Dup2Close
  <2>2. op[t] = "user" /\ todo' = todo
    BY <1>4 DEF Dup2Close, In
  <2>3. op'[t] = "close_end" /\ after'[t] = "dup2" /\ old'[t] = n
    BY <2>1, <1>p DEF CloseBegin, PlaceTypes
  <2> QED
    BY <2>1, <2>2, <2>3, CloseBeginOwner
<1>5. CASE Exit(t)
  <2>1. fds'[t] = [n \in Nodes |-> 0] /\ todo'[t] = fds[t] /\ op'[t] = "exit"
    BY <1>5, <1>t, <1>p DEF Exit, Goes, PlaceTypes
  <2>2. fds'[t] \in [Nodes -> Nat]
    BY <2>1
  <2>3. Size(fds'[t]) = 0
    BY <2>1, <2>2, SizeBound
  <2> QED
    BY <2>1, <2>3, <1>a DEF Owner, Copying, Dup2ing, Closing, Exiting
<1>6. CASE ReadCall(t)
  <2>1. PICK p \in Pipes : fds[t][<<p, "r">>] > 0 /\ node' = [node EXCEPT ![t] = <<p, "r">>]
    BY <1>6 DEF ReadCall
  <2>2. op[t] = "user" /\ op'[t] = "read_wait" /\ node'[t] = <<p, "r">> /\ UNCHANGED table
    BY <1>6, <1>p, <2>1 DEF ReadCall, In, Goes, PlaceTypes
  <2> QED
    BY <2>1, <2>2, <1>a DEF Owner, Copying, Dup2ing, Closing, Exiting, table
<1>7. CASE WriteCall(t)
  <2>1. PICK p \in Pipes : fds[t][<<p, "w">>] > 0 /\ node' = [node EXCEPT ![t] = <<p, "w">>]
    BY <1>7 DEF WriteCall
  <2>2. op[t] = "user" /\ op'[t] = "write" /\ node'[t] = <<p, "w">> /\ UNCHANGED table
    BY <1>7, <1>p, <2>1 DEF WriteCall, In, Goes, PlaceTypes
  <2> QED
    BY <2>1, <2>2, <1>a DEF Owner, Copying, Dup2ing, Closing, Exiting, table
<1>8. CASE CloseEnd(t)
  BY <1>8, <1>a, <1>p DEF CloseEnd, Goes, table, PlaceTypes, Owner, Copying, Dup2ing, Closing, Exiting
<1>9. CASE CloseFree(t)
  BY <1>9, <1>a, <1>p DEF CloseFree, Goes, table, PlaceTypes, Owner, Copying, Dup2ing, Closing, Exiting
<1>10. CASE Dup2Open(t)
  <2>1. old[t] \in Nodes /\ Size(fds[t]) < MaxFds
    BY <1>10, <1>a, <1>p DEF Dup2Open, Owner, Placed, Dup2ing
  <2> QED
    BY <2>1, <1>10, <1>m, <1>p DEF Dup2Open, Duplicate, Goes, PlaceTypes
<1>11. CASE ExitClose(t)
  <2>1. PICK n \in Nodes : /\ todo[t][n] > 0 /\ CloseBegin(t, n, "exit")
                           /\ todo' = Unlinked(todo, t, n)
    BY <1>11 DEF ExitClose
  <2>2. op[t] = "exit" /\ fds' = fds
    BY <1>11 DEF ExitClose
  <2>3. op'[t] = "close_end" /\ after'[t] = "exit"
    BY <2>1, <1>p DEF CloseBegin, PlaceTypes
  <2>4. todo'[t][n] = todo[t][n] - 1 /\ \A m \in Nodes \ {n} : todo'[t][m] = todo[t][m]
    BY <2>1, <1>t, Closed
  <2> QED
    BY <2>1, <2>2, <2>3, <2>4, <1>a, <1>t DEF Owner, Copying, Dup2ing, Closing, Exiting
<1>12. CASE ExitDone(t)
  BY <1>12, <1>a, <1>p, <1>t DEF ExitDone, Goes, table, PlaceTypes, Owner, Copying, Dup2ing, Closing, Exiting
<1>13. CASE ReadWake(t)
  BY <1>13, <1>a, <1>p DEF ReadWake, Goes, table, PlaceTypes, Owner, Copying, Dup2ing, Closing, Exiting
<1>14. CASE ReadCopy(t)
  <2>1. op'[t] = "user" \/ (op'[t] = "read_wait" /\ node'[t] = node[t])
    BY <1>14, <1>p DEF ReadCopy, Goes, PlaceTypes
  <2>2. op[t] = "read_lock" /\ fds'[t] = fds[t] /\ todo'[t] = todo[t]
    BY <1>14 DEF ReadCopy, table
  <2> QED
    BY <2>1, <2>2, <1>a DEF Owner, Copying, Dup2ing, Closing, Exiting
<1>15. CASE WriteChunk(t)
  <2>1. op'[t] = "user" \/ (op'[t] = "write" /\ node'[t] = node[t])
    BY <1>15, <1>p DEF WriteChunk, Goes, PlaceTypes
  <2>2. op[t] = "write" /\ fds'[t] = fds[t] /\ todo'[t] = todo[t]
    BY <1>15 DEF WriteChunk, table
  <2> QED
    BY <2>1, <2>2, <1>a DEF Owner, Copying, Dup2ing, Closing, Exiting
<1> QED
  BY <1>1, <1>2, <1>3, <1>4, <1>5, <1>6, <1>7, <1>8, <1>9, <1>10, <1>11, <1>12, <1>13, <1>14,
     <1>15 DEF AloneSteps

\* The steps that involve a second task.
ForkSteps(t) == Fork(t) \/ ForkOpen(t) \/ ForkCount(t) \/ ForkReady(t) \/ Execve(t)

\* What a forking task and its child are to each other.
LEMMA Parent ==
  ASSUME OwnInv, NEW t \in Tasks, Forking(t)
  PROVE  /\ child[t] \in Tasks /\ child[t] # t /\ op[child[t]] = "new"
         /\ \A u \in Tasks : Forking(u) /\ child[u] = child[t] => u = t
BY DEF OwnInv, Basic, Placed, Family, Forking

\* They keep the promises of both.
LEMMA ForkOwners ==
  ASSUME OwnInv, NEW t \in Tasks, ForkSteps(t)
  PROVE  Owners'
<1> USE Constants
<1>o. \A u \in Tasks : Owner(u)
  BY DEF OwnInv, Owners
<1>t. /\ fds \in [Tasks -> [Nodes -> Nat]] /\ todo \in [Tasks -> [Nodes -> Nat]]
  BY DEF OwnInv, Basic, Types, TableTypes
<1>p. PlaceTypes /\ Placed
  BY DEF OwnInv, Basic, Types
<1>r. ASSUME NEW u \in Tasks, Rests(u) PROVE Owner(u)'
  BY <1>r, <1>o DEF Owner, Rests, Copying, Dup2ing, Closing, Exiting
<1>1. CASE Fork(t)
  <2>1. PICK c \in Tasks : op[c] = "unused" /\ op' = [op EXCEPT ![t] = "fork_open", ![c] = "new"]
    BY <1>1 DEF Fork
  <2>2. op[t] = "user" /\ UNCHANGED <<fds, todo, node, old, after>>
    BY <1>1 DEF Fork, In, table
  <2>3. op'[t] = "fork_open" /\ op'[c] = "new" /\ c # t /\ \A u \in Tasks \ {c, t} : op'[u] = op[u]
    BY <2>1, <2>2, <1>p DEF PlaceTypes
  <2>4. Owner(t)' /\ Owner(c)'
    BY <2>1, <2>2, <2>3, <1>o DEF Owner, Copying, Dup2ing, Closing, Exiting
  <2>5. ASSUME NEW u \in Tasks \ {c, t} PROVE Owner(u)'
    BY <2>2, <2>3, <1>o DEF Owner, Copying, Dup2ing, Closing, Exiting
  <2> QED
    BY <2>4, <2>5 DEF Owners
<1>2. CASE ForkOpen(t)
  <2>1. PICK n \in Nodes : fds[child[t]][n] < fds[t][n] /\ node' = [node EXCEPT ![t] = n]
    BY <1>2 DEF ForkOpen
  <2>2. op[t] = "fork_open" /\ op' = [op EXCEPT ![t] = "fork_count"] /\ UNCHANGED <<fds, todo, old, after>>
    BY <1>2 DEF ForkOpen, Goes, table
  <2>3. fds[t][n] > 0
    BY <2>1, <2>2, <1>t, <1>p DEF Placed, Forking
  <2> QED
    BY <2>1, <2>2, <2>3, <1>o, <1>p DEF PlaceTypes, Owners, Owner, Copying, Dup2ing, Closing, Exiting
<1>3. CASE ForkCount(t)
  <2>c. PICK c \in Tasks, n \in Nodes : c = child[t] /\ n = node[t]
    BY <1>3, <1>p DEF ForkCount, Forking, Placed
  <2>1. c # t /\ op[c] = "new"
    BY <1>3, <2>c, Parent DEF ForkCount, Forking
  <2>2. /\ fds' = OpenNode(fds, c, n) /\ UNCHANGED <<todo, old, after>> /\ op[t] = "fork_count"
        /\ op' = [op EXCEPT ![t] = "fork_open"] /\ node' = [node EXCEPT ![t] = None]
    BY <1>3, <2>c DEF ForkCount, Goes, Leaves
  <2>3. /\ \A u \in Tasks \ {c} : fds'[u] = fds[u]
        /\ fds'[c][n] = fds[c][n] + 1 /\ \A m \in Nodes \ {n} : fds'[c][m] = fds[c][m]
        /\ fds'[c] \in [Nodes -> Nat]
    BY <2>1, <2>2, <1>t, ListTypes DEF OpenNode
  <2>4. fds[c][n] < fds[t][n] /\ \A m \in Nodes : fds[c][m] <= fds[t][m]
    BY <2>2, <2>c DEF OwnInv, Family, Forking
  <2>5. \A m \in Nodes : fds'[c][m] <= fds[t][m]
    BY <2>1, <2>3, <2>4, <1>t
  <2>6. fds[t] \in [Nodes -> Nat] /\ Size(fds[t]) \in Nat /\ Size(fds'[c]) \in Nat
    BY <1>t, <2>3, SizeBound
  <2>7. Size(fds'[c]) <= Size(fds[t])
    BY <2>3, <2>5, <2>6, SizeMonotone
  <2>8. Owner(c)'
    <3>1. op'[c] = "new" /\ Size(fds[t]) <= MaxFds /\ todo'[c] = todo[c]
      BY <2>1, <2>2, <1>p, <1>o DEF PlaceTypes, Owner
    <3>2. \A m \in Nodes : fds'[c][m] <= MaxFds
      BY <2>1, <2>3, <2>5, <2>6, <1>o DEF Owner
    <3>3. \A m \in Nodes : todo[c][m] <= MaxFds /\ ~(todo[c][m] > 0)
      BY <2>1, <1>o DEF Owner, Exiting, Closing
    <3> QED
      BY <3>1, <3>2, <3>3, <2>6, <2>7 DEF Owner, Copying, Dup2ing, Closing, Exiting
  <2>9. Owner(t)'
    BY <2>1, <2>2, <2>3, <1>o, <1>p DEF PlaceTypes, Owner, Copying, Dup2ing, Closing, Exiting
  <2>10. ASSUME NEW u \in Tasks \ {c, t} PROVE Owner(u)'
    BY <2>2, <2>3, <1>o, <1>p DEF PlaceTypes, Owner, Copying, Dup2ing, Closing, Exiting
  <2> QED
    BY <2>8, <2>9, <2>10 DEF Owners
<1>4. CASE ForkReady(t)
  <2>1. child[t] \in Tasks /\ child[t] # t /\ op[child[t]] = "new" /\ op[t] = "fork_open"
    BY <1>4, Parent DEF ForkReady, Forking
  <2>c. PICK c \in Tasks : c = child[t]
    BY <2>1
  <2>2. op' = [op EXCEPT ![t] = "user", ![c] = "user"] /\ UNCHANGED <<fds, todo, node, old, after>>
    BY <1>4, <2>c DEF ForkReady, table
  <2>3. op'[t] = "user" /\ op'[c] = "user" /\ \A u \in Tasks \ {t, c} : op'[u] = op[u]
    BY <2>1, <2>2, <1>p DEF PlaceTypes
  <2>4. Owner(t)' /\ Owner(c)'
    BY <2>1, <2>c, <2>2, <2>3, <1>o DEF Owner, Copying, Dup2ing, Closing, Exiting
  <2>5. ASSUME NEW u \in Tasks \ {c, t} PROVE Owner(u)'
    BY <2>2, <2>3, <1>o DEF Owner, Copying, Dup2ing, Closing, Exiting
  <2> QED
    BY <2>4, <2>5 DEF Owners
<1>5. CASE Execve(t)
  <2>1. PICK c \in Tasks, kept \in [Nodes -> 0..MaxFds] :
          /\ op[c] = "unused"
          /\ \A n \in Nodes : kept[n] <= fds[t][n]
          /\ fds' = [fds EXCEPT ![t] = [n \in Nodes |-> 0], ![c] = kept]
          /\ todo' = [todo EXCEPT ![t] = fds[t]]
          /\ op' = [op EXCEPT ![t] = "exit", ![c] = "user"]
    BY <1>5 DEF Execve
  <2>2. op[t] = "user" /\ UNCHANGED <<node, old, after>>
    BY <1>5 DEF Execve, In
  <2>3. /\ c # t /\ op'[t] = "exit" /\ op'[c] = "user" /\ fds'[t] = [n \in Nodes |-> 0] /\ fds'[c] = kept
        /\ todo'[t] = fds[t] /\ todo'[c] = todo[c]
        /\ \A u \in Tasks \ {c, t} : op'[u] = op[u] /\ fds'[u] = fds[u] /\ todo'[u] = todo[u]
    BY <2>1, <2>2, <1>t, <1>p DEF PlaceTypes
  <2>4. kept \in [Nodes -> Nat] /\ [n \in Nodes |-> 0] \in [Nodes -> Nat] /\ fds[t] \in [Nodes -> Nat]
    BY <1>t
  <2>5. /\ Size(kept) <= Size(fds[t]) /\ Size([n \in Nodes |-> 0]) = 0
        /\ Size(kept) \in Nat /\ Size(fds[t]) \in Nat
    BY <2>1, <2>4, SizeMonotone, SizeBound
  <2>6. Owner(t)'
    BY <2>3, <2>5, <1>o DEF Owner, Copying, Dup2ing, Closing, Exiting
  <2>7. Owner(c)'
    <3>1. Size(kept) <= MaxFds
      BY <2>5, <1>o DEF Owner
    <3>2. \A n \in Nodes : todo[c][n] <= MaxFds /\ ~(todo[c][n] > 0)
      BY <2>1, <1>o DEF Owner, Exiting, Closing
    <3> QED
      BY <3>1, <3>2, <2>3 DEF Owner, Copying, Dup2ing, Closing, Exiting
  <2>8. ASSUME NEW u \in Tasks \ {c, t} PROVE Owner(u)'
    BY <2>2, <2>3, <1>o DEF Owner, Copying, Dup2ing, Closing, Exiting
  <2> QED
    BY <2>6, <2>7, <2>8 DEF Owners
<1> QED
  BY <1>1, <1>2, <1>3, <1>4, <1>5 DEF ForkSteps

\* And what fork relies on.
LEMMA ForkFamily ==
  ASSUME OwnInv, NEW t \in Tasks, ForkSteps(t)
  PROVE  Family'
<1> USE Constants
<1>t. /\ fds \in [Tasks -> [Nodes -> Nat]] /\ todo \in [Tasks -> [Nodes -> Nat]]
  BY DEF OwnInv, Basic, Types, TableTypes
<1>p. PlaceTypes /\ Placed /\ Family /\ Owners
  BY DEF OwnInv, Basic, Types
<1>f. \A u \in Tasks : Forking(u) =>
        /\ child[u] \in Tasks /\ child[u] # u /\ op[child[u]] = "new"
        /\ \A v \in Tasks : Forking(v) /\ child[v] = child[u] => v = u
  BY Parent
<1>1. CASE Fork(t)
  <2>1. PICK c \in Tasks : /\ op[c] = "unused" /\ op' = [op EXCEPT ![t] = "fork_open", ![c] = "new"]
                           /\ child' = [child EXCEPT ![t] = c]
    BY <1>1 DEF Fork
  <2>2. op[t] = "user" /\ UNCHANGED <<fds, node>>
    BY <1>1 DEF Fork, In, table
  <2>3. /\ op'[t] = "fork_open" /\ op'[c] = "new" /\ c # t /\ \A u \in Tasks \ {c, t} : op'[u] = op[u]
        /\ child'[t] = c /\ \A u \in Tasks \ {t} : child'[u] = child[u]
    BY <2>1, <2>2, <1>p DEF PlaceTypes
  <2>4. \A n \in Nodes : fds[c][n] = 0 /\ fds[c][n] <= fds[t][n]
    BY <2>1, <1>p, <1>t DEF Owners, Owner
  <2>5. \A u \in Tasks : Forking(u)' => u = t \/ (Forking(u) /\ u # t /\ child[u] # c /\ child[u] # t)
    BY <2>1, <2>2, <2>3, <1>f DEF Forking
  <2> QED
    BY <2>2, <2>3, <2>4, <2>5, <1>p, <1>f DEF Family, Forking
<1>2. CASE ForkOpen(t)
  <2>1. PICK n \in Nodes : fds[child[t]][n] < fds[t][n] /\ node' = [node EXCEPT ![t] = n]
    BY <1>2 DEF ForkOpen
  <2>2. /\ op[t] = "fork_open" /\ op' = [op EXCEPT ![t] = "fork_count"]
        /\ UNCHANGED <<fds, child>>
    BY <1>2 DEF ForkOpen, Goes, table
  <2>3. /\ op'[t] = "fork_count" /\ node'[t] = n
        /\ \A u \in Tasks \ {t} : op'[u] = op[u] /\ node'[u] = node[u]
    BY <2>1, <2>2, <1>p DEF PlaceTypes
  <2>4. \A u \in Tasks : (Forking(u)' <=> Forking(u)) /\ (op[u] = "new" => op'[u] = "new")
    BY <2>2, <2>3 DEF Forking
  <2> QED
    BY <2>1, <2>2, <2>3, <2>4, <1>p, <1>f DEF Family
<1>3. CASE ForkCount(t)
  <2> DEFINE c == child[t]
             n == node[t]
  <2>1. c \in Tasks /\ c # t /\ op[c] = "new" /\ n \in Nodes
    BY <1>3, <1>p, Parent DEF ForkCount, Forking, Placed
  <2>2. /\ fds' = OpenNode(fds, c, n) /\ child' = child /\ op[t] = "fork_count"
        /\ op' = [op EXCEPT ![t] = "fork_open"] /\ node' = [node EXCEPT ![t] = None]
    BY <1>3 DEF ForkCount, Goes, Leaves
  <2>3. /\ \A u \in Tasks \ {c} : fds'[u] = fds[u]
        /\ fds'[c][n] = fds[c][n] + 1 /\ \A m \in Nodes \ {n} : fds'[c][m] = fds[c][m]
    BY <2>1, <2>2, <1>t, ListTypes DEF OpenNode
  <2>4. fds[c][n] < fds[t][n] /\ \A m \in Nodes : fds[c][m] <= fds[t][m]
    BY <2>2, <1>p DEF Family, Forking
  <2>5. /\ op'[t] = "fork_open"
        /\ \A u \in Tasks \ {t} : op'[u] = op[u] /\ node'[u] = node[u]
    BY <2>2, <1>p DEF PlaceTypes
  <2>6. \A u \in Tasks : (Forking(u)' <=> Forking(u)) /\ (op[u] = "new" => op'[u] = "new")
    BY <2>2, <2>5 DEF Forking
  <2>7. \A u \in Tasks \ {t} : Forking(u) => child[u] # c /\ u # c
    BY <2>1, <2>2, <1>f DEF Forking
  <2> HIDE DEF n
  <2>8. \A m \in Nodes : fds'[c][m] <= fds'[t][m]
    BY <2>1, <2>3, <2>4, <1>t
  <2> QED
    BY <2>1, <2>2, <2>3, <2>5, <2>6, <2>7, <2>8, <1>p, <1>f DEF Family
<1>4. CASE ForkReady(t)
  <2>1. child[t] \in Tasks /\ child[t] # t /\ op[child[t]] = "new" /\ op[t] = "fork_open"
    BY <1>4, Parent DEF ForkReady, Forking
  <2>2. /\ op' = [op EXCEPT ![t] = "user", ![child[t]] = "user"] /\ UNCHANGED <<fds, node>>
        /\ child' = [child EXCEPT ![t] = None]
    BY <1>4 DEF ForkReady, table
  <2>3. /\ op'[t] = "user" /\ op'[child[t]] = "user" /\ \A u \in Tasks \ {t, child[t]} : op'[u] = op[u]
        /\ \A u \in Tasks \ {t} : child'[u] = child[u]
    BY <2>1, <2>2, <1>p DEF PlaceTypes
  <2>4. \A u \in Tasks : Forking(u)' => Forking(u) /\ u # t /\ u # child[t] /\ child[u] # child[t] /\ child[u] # t
    BY <2>1, <2>3, <1>f DEF Forking
  <2>5. \A u \in Tasks : Forking(u)' => /\ op'[child[u]] = op[child[u]] /\ child'[u] = child[u]
                                       /\ op'[u] = op[u]
    BY <2>3, <2>4, <1>f
  <2> QED
    BY <2>2, <2>4, <2>5, <1>p, <1>f DEF Family
<1>5. CASE Execve(t)
  <2>1. PICK c \in Tasks, kept \in [Nodes -> 0..MaxFds] :
          /\ op[c] = "unused"
          /\ fds' = [fds EXCEPT ![t] = [n \in Nodes |-> 0], ![c] = kept]
          /\ op' = [op EXCEPT ![t] = "exit", ![c] = "user"]
    BY <1>5 DEF Execve
  <2>2. op[t] = "user" /\ UNCHANGED <<node, child>>
    BY <1>5 DEF Execve, In
  <2>3. /\ op'[t] = "exit" /\ op'[c] = "user"
        /\ \A u \in Tasks \ {c, t} : op'[u] = op[u] /\ fds'[u] = fds[u]
    BY <2>1, <2>2, <1>t, <1>p DEF PlaceTypes
  <2>4. \A u \in Tasks : Forking(u)' => Forking(u) /\ u # t /\ u # c /\ child[u] # c /\ child[u] # t
    BY <2>1, <2>2, <2>3, <1>f DEF Forking
  <2>5. \A u \in Tasks : Forking(u)' => /\ op'[child[u]] = op[child[u]] /\ fds'[child[u]] = fds[child[u]]
                                       /\ fds'[u] = fds[u] /\ op'[u] = op[u]
    BY <2>3, <2>4, <1>f
  <2> QED
    BY <2>2, <2>4, <2>5, <1>p, <1>f DEF Family
<1> QED
  BY <1>1, <1>2, <1>3, <1>4, <1>5 DEF ForkSteps

\* Finitely many tasks are in the middle of an open() or close().
LEMMA BusyFinite ==
  \A n : /\ IsFiniteSet(Opening(n)) /\ IsFiniteSet(InClose(n))
         /\ Cardinality(Opening(n)) \in Nat /\ Cardinality(InClose(n)) \in Nat
<1>1. \A n : Opening(n) \in SUBSET Tasks /\ InClose(n) \in SUBSET Tasks
  BY DEF Opening, InClose
<1> QED
  BY <1>1, NodesFinite, FS_Subset, FS_CardinalityType

-----------------------------------------------------------------------------
(* The counts.                                                             *)

\* How a step changes the numbers that belong to node n.
Moves(n, slots, counted, extra, opens, closes) ==
  /\ Slots(n)' = Slots(n) + slots
  /\ refs'[n] = refs[n] + counted /\ bare'[n] = bare[n] + extra
  /\ Cardinality(Opening(n))' = Cardinality(Opening(n)) + opens
  /\ Cardinality(InClose(n))' = Cardinality(InClose(n)) + closes

\* Nothing about node n changes.
Still(n) == Moves(n, 0, 0, 0, 0, 0)

\* Nothing about any other node changes.
OnlyAt(n) == \A m \in Nodes \ {n} : Still(m)

\* The sums that make up Slots.
LEMMA SlotsNext ==
  \A n : Slots(n)' = Held(fds', n) + Held(todo', n)
<1>2. ASSUME NEW n, NEW f
      PROVE {x \in Tasks \X (1..MaxFds) : x[2] <= f[x[1]][n]} = Stack(Tasks, Column(f, n))
  BY DEF Stack, Column
<1> QED
  BY <1>2 DEF Slots, Held

\* No descriptor of node n comes or goes.
LEMMA SlotsSame ==
  ASSUME NEW n, \A u \in Tasks : fds'[u][n] = fds[u][n] /\ todo'[u][n] = todo[u][n]
  PROVE  Slots(n)' = Slots(n)
<1>1. Held(fds', n) = Held(fds, n)
  BY HeldSame
<1>2. Held(todo', n) = Held(todo, n)
  BY HeldSame
<1> QED
  BY <1>1, <1>2, SlotsNext, SlotsHeld

\* One task's lists change.
LEMMA SlotsChange ==
  ASSUME TableTypes, TableTypes', NEW t \in Tasks, NEW n \in Nodes,
         fds[t][n] <= MaxFds, fds'[t][n] <= MaxFds, todo[t][n] <= MaxFds, todo'[t][n] <= MaxFds,
         \A u \in Tasks \ {t} : fds'[u][n] = fds[u][n] /\ todo'[u][n] = todo[u][n]
  PROVE  Slots(n)' = Slots(n) + (fds'[t][n] - fds[t][n]) + (todo'[t][n] - todo[t][n])
<1>1. Held(fds', n) = (Held(fds, n) - fds[t][n]) + fds'[t][n]
  BY HeldChange DEF TableTypes, OthersHold
<1>2. Held(todo', n) = (Held(todo, n) - todo[t][n]) + todo'[t][n]
  BY HeldChange DEF TableTypes, OthersHold
<1>3. Held(fds, n) \in Nat /\ Held(todo, n) \in Nat
  BY HeldNat
<1>4. fds[t][n] \in Nat /\ fds'[t][n] \in Nat /\ todo[t][n] \in Nat /\ todo'[t][n] \in Nat
  BY DEF TableTypes
<1>5. Slots(n)' = Held(fds', n) + Held(todo', n) /\ Slots(n) = Held(fds, n) + Held(todo, n)
  BY SlotsNext, SlotsHeld
<1> QED
  BY <1>1, <1>2, <1>3, <1>4, <1>5

\* Nobody enters or leaves the middle of an open() or close().
BusySame(n) == Opening(n)' = Opening(n) /\ InClose(n)' = InClose(n)

\* What makes a node still.
LEMMA StillIf ==
  ASSUME NEW n \in Nodes, BusySame(n), Slots(n)' = Slots(n), refs'[n] = refs[n], bare'[n] = bare[n],
         CountTypes
  PROVE  Still(n)
BY SlotsNat, BusyFinite DEF Still, Moves, BusySame, CountTypes

\* One task is put in or taken out.
LEMMA BusyMove ==
  ASSUME NEW n, NEW t
  PROVE  /\ Opening(n)' = Opening(n) \cup {t} /\ t \notin Opening(n) =>
              Cardinality(Opening(n))' = Cardinality(Opening(n)) + 1
         /\ Opening(n)' = Opening(n) \ {t} /\ t \in Opening(n) =>
              Cardinality(Opening(n))' = Cardinality(Opening(n)) - 1
         /\ InClose(n)' = InClose(n) \cup {t} /\ t \notin InClose(n) =>
              Cardinality(InClose(n))' = Cardinality(InClose(n)) + 1
         /\ InClose(n)' = InClose(n) \ {t} /\ t \in InClose(n) =>
              Cardinality(InClose(n))' = Cardinality(InClose(n)) - 1
<1>1. IsFiniteSet(Opening(n)) /\ IsFiniteSet(InClose(n))
  BY BusyFinite
<1> QED
  BY <1>1, FS_AddElement, FS_RemoveElement

\* Every step keeps the promises of the descriptor lists.
LEMMA OwnersNext ==
  ASSUME OwnInv, NEW t \in Tasks, Step(t) \/ Call(t)
  PROVE  Basic' /\ Owners' /\ Family'
<1>1. Basic'
  BY BasicNext DEF OwnInv, Next
<1>2. AloneSteps(t) \/ ForkSteps(t)
  BY DEF Step, Call, AloneSteps, ForkSteps
<1>3. CASE AloneSteps(t)
  <2>1. Alone(t) /\ Owner(t)'
    BY <1>3, AloneStep, AloneOwner DEF OwnInv
  <2>2. Owners'
    BY <2>1, AloneOwners DEF OwnInv, Alone
  <2>3. Family'
    BY <2>1, AloneFamily DEF OwnInv
  <2> QED
    BY <1>1, <2>2, <2>3
<1>4. CASE ForkSteps(t)
  BY <1>1, <1>4, ForkOwners, ForkFamily
<1> QED
  BY <1>2, <1>3, <1>4

\* The tables before and after, as the lemmas above want them.
LEMMA Tables ==
  ASSUME OwnInv, NEW t \in Tasks, Step(t) \/ Call(t)
  PROVE  /\ TableTypes /\ TableTypes'
         /\ \A u \in Tasks, n \in Nodes :
              /\ fds[u][n] \in Nat /\ fds'[u][n] \in Nat /\ todo[u][n] \in Nat /\ todo'[u][n] \in Nat
              /\ fds[u][n] <= MaxFds /\ fds'[u][n] <= MaxFds
              /\ todo[u][n] <= MaxFds /\ todo'[u][n] <= MaxFds
<1>1. Basic' /\ Owners'
  BY OwnersNext
<1>2. Basic /\ Owners
  BY DEF OwnInv
<1>3. TableTypes /\ TableTypes'
  BY <1>1, <1>2 DEF Basic, Types
<1> QED
  BY <1>1, <1>2, <1>3 DEF TableTypes, Owners, Owner

\* A descriptor is unlinked and its close() begun.
Closes(t, n) ==
  \/ op[t] = "user" /\ fds[t][n] > 0 /\ fds' = Unlinked(fds, t, n) /\ todo' = todo
  \/ op[t] = "exit" /\ todo[t][n] > 0 /\ todo' = Unlinked(todo, t, n) /\ fds' = fds

\* The first half of close(): one descriptor, one count, one task in close().
LEMMA CloseEffect ==
  ASSUME OwnInv, NEW t \in Tasks, Step(t) \/ Call(t), NEW n \in Nodes, NEW then,
         CloseBegin(t, n, then), Closes(t, n)
  PROVE  /\ Moves(n, -1, -1, 0, 0, 1) /\ OnlyAt(n) /\ cnt' = cnt
         /\ op' = [op EXCEPT ![t] = "close_end"] /\ node' = [node EXCEPT ![t] = n]
<1>t. TableTypes /\ TableTypes' /\ CountTypes /\ PlaceTypes
  BY Tables DEF OwnInv, Basic, Types
<1>1. /\ (fds'[t][n] - fds[t][n]) + (todo'[t][n] - todo[t][n]) = -1
      /\ \A u \in Tasks \ {t} : fds'[u] = fds[u] /\ todo'[u] = todo[u]
      /\ \A m \in Nodes \ {n} : fds'[t][m] = fds[t][m] /\ todo'[t][m] = todo[t][m]
  <2>1. CASE op[t] = "user" /\ fds[t][n] > 0 /\ fds' = Unlinked(fds, t, n) /\ todo' = todo
    <3>1. /\ fds'[t][n] = fds[t][n] - 1
          /\ \A u \in Tasks \ {t} : fds'[u] = fds[u]
          /\ \A m \in Nodes \ {n} : fds'[t][m] = fds[t][m]
      BY <2>1, <1>t DEF Unlinked, TableTypes
    <3> QED
      BY <3>1, <2>1, Tables
  <2>2. CASE op[t] = "exit" /\ todo[t][n] > 0 /\ todo' = Unlinked(todo, t, n) /\ fds' = fds
    <3>1. /\ todo'[t][n] = todo[t][n] - 1
          /\ \A u \in Tasks \ {t} : todo'[u] = todo[u]
          /\ \A m \in Nodes \ {n} : todo'[t][m] = todo[t][m]
      BY <2>2, <1>t DEF Unlinked, TableTypes
    <3> QED
      BY <3>1, <2>2, Tables
  <2> QED
    BY <2>1, <2>2 DEF Closes
<1>2. Slots(n)' = Slots(n) + (fds'[t][n] - fds[t][n]) + (todo'[t][n] - todo[t][n])
  BY <1>1, Tables, SlotsChange
<1>3. Slots(n)' = Slots(n) + -1
  BY <1>1, <1>2, Tables, SlotsNat
<1>4. ASSUME NEW m \in Nodes \ {n} PROVE Slots(m)' = Slots(m)
  BY <1>1, SlotsSame
<1>5. /\ refs' = [refs EXCEPT ![n] = @ - 1] /\ bare' = bare /\ cnt' = cnt
      /\ op' = [op EXCEPT ![t] = "close_end"] /\ node' = [node EXCEPT ![t] = n]
  BY DEF CloseBegin, ends
<1>6. op[t] \in {"user", "exit"}
  BY DEF Closes
<1>7. /\ \A m \in Nodes : Opening(m)' = Opening(m)
      /\ InClose(n)' = InClose(n) \cup {t} /\ t \notin InClose(n)
      /\ \A m \in Nodes \ {n} : InClose(m)' = InClose(m)
  BY <1>5, <1>6, <1>t DEF PlaceTypes, Opening, InClose
<1>8. Moves(n, -1, -1, 0, 0, 1)
  <2>1. Cardinality(InClose(n))' = Cardinality(InClose(n)) + 1
    BY <1>7, BusyMove
  <2>2. Cardinality(Opening(n))' = Cardinality(Opening(n)) + 0
    BY <1>7, BusyFinite
  <2>3. refs'[n] = refs[n] + -1 /\ bare'[n] = bare[n] + 0
    BY <1>5, <1>t DEF CountTypes
  <2> QED
    BY <2>1, <2>2, <2>3, <1>3 DEF Moves
<1>9. ASSUME NEW m \in Nodes \ {n} PROVE Still(m)
  <2>1. refs'[m] = refs[m] /\ bare'[m] = bare[m] /\ BusySame(m)
    BY <1>5, <1>7, <1>t DEF CountTypes, BusySame
  <2> QED
    BY <2>1, <1>4, <1>t, StillIf
<1> QED
  BY <1>5, <1>8, <1>9 DEF OnlyAt

\* The second half: the task is out of close(), and the pipe counted down.
LEMMA EndEffect ==
  ASSUME OwnInv, NEW t \in Tasks, CloseEnd(t), NEW n \in Nodes, n = node[t]
  PROVE  /\ Moves(n, 0, 0, 0, 0, -1) /\ OnlyAt(n)
         /\ cnt' = [cnt EXCEPT ![Pipe(n)] = (cnt[Pipe(n)] - 1) % RefMod]
<1>t. CountTypes /\ PlaceTypes
  BY DEF OwnInv, Basic, Types
<1>1. /\ op[t] = "close_end" /\ op' = [op EXCEPT ![t] = "close_free"]
      /\ UNCHANGED <<fds, todo, node, refs, bare>>
      /\ cnt' = [cnt EXCEPT ![Pipe(n)] = (cnt[Pipe(n)] - 1) % RefMod]
  BY DEF CloseEnd, Goes, table, vnode
<1>2. /\ \A m \in Nodes : Opening(m)' = Opening(m)
      /\ InClose(n)' = InClose(n) \ {t} /\ t \in InClose(n)
      /\ \A m \in Nodes \ {n} : InClose(m)' = InClose(m)
  BY <1>1, <1>t DEF PlaceTypes, Opening, InClose
<1>3. \A m : Slots(m)' = Slots(m)
  BY <1>1, SlotsSame
<1>4. Moves(n, 0, 0, 0, 0, -1)
  <2>1. Cardinality(InClose(n))' = Cardinality(InClose(n)) + -1
    BY <1>2, BusyMove, BusyFinite
  <2> QED
    BY <2>1, <1>1, <1>2, <1>3, <1>t, BusyFinite, SlotsNat DEF Moves, CountTypes
<1>5. ASSUME NEW m \in Nodes \ {n} PROVE Still(m)
  BY <1>1, <1>2, <1>3, <1>t, StillIf DEF BusySame
<1> QED
  BY <1>1, <1>4, <1>5 DEF OnlyAt

\* dup and dup2: one descriptor that nobody counted.
LEMMA DupEffect ==
  ASSUME OwnInv, NEW t \in Tasks, Step(t) \/ Call(t), NEW n \in Nodes, Duplicate(t, n),
         Dup(t) \/ Dup2Open(t)
  PROVE  Moves(n, 1, 0, 1, 0, 0) /\ OnlyAt(n) /\ cnt' = cnt
<1>t. TableTypes /\ TableTypes' /\ CountTypes /\ PlaceTypes
  BY Tables DEF OwnInv, Basic, Types
<1>1. /\ fds' = OpenNode(fds, t, n) /\ bare' = [bare EXCEPT ![n] = @ + 1]
      /\ UNCHANGED <<todo, refs, cnt, node>>
  BY DEF Duplicate, Dup, Dup2Open, place, ends
<1>2. /\ fds'[t][n] = fds[t][n] + 1
      /\ \A u \in Tasks \ {t} : fds'[u] = fds[u]
      /\ \A m \in Nodes \ {n} : fds'[t][m] = fds[t][m]
  BY <1>1, <1>t DEF OpenNode, TableTypes
<1>3. Slots(n)' = Slots(n) + (fds'[t][n] - fds[t][n]) + (todo'[t][n] - todo[t][n])
  BY <1>1, <1>2, Tables, SlotsChange
<1>4. Slots(n)' = Slots(n) + 1
  BY <1>1, <1>2, <1>3, Tables, SlotsNat
<1>5. ASSUME NEW m \in Nodes \ {n} PROVE Slots(m)' = Slots(m)
  BY <1>1, <1>2, SlotsSame
<1>6. \A m \in Nodes : BusySame(m)
  BY <1>1, <1>t DEF Dup, Dup2Open, In, Goes, place, PlaceTypes, BusySame, Opening, InClose
<1>7. Moves(n, 1, 0, 1, 0, 0)
  BY <1>1, <1>4, <1>6, <1>t, BusyFinite DEF Moves, BusySame, CountTypes
<1>8. ASSUME NEW m \in Nodes \ {n} PROVE Still(m)
  BY <1>1, <1>5, <1>6, <1>t, StillIf DEF CountTypes
<1> QED
  BY <1>1, <1>7, <1>8 DEF OnlyAt

\* The first half of open(), in fork: the node's count.
LEMMA ForkOpenEffect ==
  ASSUME OwnInv, NEW t \in Tasks, op[t] = "fork_open", NEW n \in Nodes,
         op' = [op EXCEPT ![t] = "fork_count"], node' = [node EXCEPT ![t] = n],
         refs' = [refs EXCEPT ![n] = @ + 1], UNCHANGED <<fds, todo, bare>>
  PROVE  Moves(n, 0, 1, 0, 1, 0) /\ OnlyAt(n)
<1>t. CountTypes /\ PlaceTypes
  BY DEF OwnInv, Basic, Types
<1>1. /\ \A m \in Nodes : InClose(m)' = InClose(m)
      /\ Opening(n)' = Opening(n) \cup {t} /\ t \notin Opening(n)
      /\ \A m \in Nodes \ {n} : Opening(m)' = Opening(m)
  BY <1>t DEF PlaceTypes, Opening, InClose
<1>2. \A m : Slots(m)' = Slots(m)
  BY SlotsSame
<1>3. Moves(n, 0, 1, 0, 1, 0)
  <2>1. Cardinality(Opening(n))' = Cardinality(Opening(n)) + 1
    BY <1>1, BusyMove
  <2> QED
    BY <2>1, <1>1, <1>2, <1>t, BusyFinite, SlotsNat DEF Moves, CountTypes
<1>4. ASSUME NEW m \in Nodes \ {n} PROVE Still(m)
  BY <1>1, <1>2, <1>t, StillIf DEF BusySame, CountTypes
<1> QED
  BY <1>3, <1>4 DEF OnlyAt

\* The second half: the pipe's count, and the child's descriptor.
LEMMA ForkCountEffect ==
  ASSUME OwnInv, NEW t \in Tasks, ForkCount(t), NEW n \in Nodes, n = node[t]
  PROVE  /\ Moves(n, 1, 0, 0, -1, 0) /\ OnlyAt(n)
         /\ cnt' = [cnt EXCEPT ![Pipe(n)] = (@ + 1) % RefMod]
<1>a. Step(t) \/ Call(t)
  BY DEF Step
<1>t. TableTypes /\ TableTypes' /\ CountTypes /\ PlaceTypes
  BY <1>a, Tables DEF OwnInv, Basic, Types
<1>c. PICK c \in Tasks : c = child[t]
  BY DEF OwnInv, Basic, Placed, ForkCount, Forking
<1>1. /\ op[t] = "fork_count" /\ op' = [op EXCEPT ![t] = "fork_open"]
      /\ node' = [node EXCEPT ![t] = None] /\ fds' = OpenNode(fds, c, n)
      /\ cnt' = [cnt EXCEPT ![Pipe(n)] = (@ + 1) % RefMod]
      /\ UNCHANGED <<todo, refs, bare>>
  BY <1>c DEF ForkCount, Goes, Leaves, vnode, Counted
<1>2. /\ fds'[c][n] = fds[c][n] + 1
      /\ \A u \in Tasks \ {c} : fds'[u] = fds[u]
      /\ \A m \in Nodes \ {n} : fds'[c][m] = fds[c][m]
  BY <1>1, <1>t DEF OpenNode, TableTypes
<1>3. Slots(n)' = Slots(n) + (fds'[c][n] - fds[c][n]) + (todo'[c][n] - todo[c][n])
  BY <1>a, <1>1, <1>2, Tables, SlotsChange
<1>4. Slots(n)' = Slots(n) + 1
  BY <1>a, <1>1, <1>2, <1>3, Tables, SlotsNat
<1>5. ASSUME NEW m \in Nodes \ {n} PROVE Slots(m)' = Slots(m)
  BY <1>1, <1>2, SlotsSame
<1>6. /\ \A m \in Nodes : InClose(m)' = InClose(m)
      /\ Opening(n)' = Opening(n) \ {t} /\ t \in Opening(n)
      /\ \A m \in Nodes \ {n} : Opening(m)' = Opening(m)
  BY <1>1, <1>t, Constants DEF PlaceTypes, Opening, InClose
<1>7. Moves(n, 1, 0, 0, -1, 0)
  <2>1. Cardinality(Opening(n))' = Cardinality(Opening(n)) + -1
    BY <1>6, BusyMove, BusyFinite
  <2> QED
    BY <2>1, <1>1, <1>4, <1>6, <1>t, BusyFinite DEF Moves, CountTypes
<1>8. ASSUME NEW m \in Nodes \ {n} PROVE Still(m)
  BY <1>1, <1>5, <1>6, <1>t, StillIf DEF BusySame, CountTypes
<1> QED
  BY <1>1, <1>7, <1>8 DEF OnlyAt

\* A node in nobody's lists has no descriptors.
LEMMA NoSlots ==
  ASSUME TableTypes, NEW n \in Nodes, \A u \in Tasks : fds[u][n] = 0 /\ todo[u][n] = 0
  PROVE  Slots(n) = 0
<1>1. ASSUME NEW f \in [Tasks -> [Nodes -> Nat]], \A u \in Tasks : f[u][n] = 0
      PROVE  Held(f, n) = 0
  <2>1. Column(f, n) \in [Tasks -> Nat] /\ \A u \in Tasks : Column(f, n)[u] = 0
    BY <1>1 DEF Column
  <2>2. Stack(Tasks, Column(f, n)) = {}
    BY <2>1 DEF Stack
  <2> QED
    BY <2>2, FS_EmptySet DEF Held
<1>2. Held(fds, n) = 0 /\ Held(todo, n) = 0
  BY <1>1 DEF TableTypes
<1> QED
  BY <1>2, SlotsHeld

\* A new pipe: one descriptor on each end, and no trace of an earlier one.
Fresh(n) ==
  /\ Slots(n)' = 1 /\ refs'[n] = 1 /\ bare'[n] = 0 /\ refs[n] \in Int
  /\ Opening(n)' = {} /\ InClose(n)' = {} /\ Opening(n) = {} /\ InClose(n) = {} /\ Slots(n) = 0

\* pipe(): both ends have one descriptor, and nothing else changes.
LEMMA PipeEffect ==
  ASSUME OwnInv, NEW t \in Tasks, PipeCall(t), NEW p \in Pipes \ made,
         made' = made \cup {p}, cnt' = [cnt EXCEPT ![p] = 2],
         refs' = [refs EXCEPT ![<<p, "r">>] = 1, ![<<p, "w">>] = 1],
         fds' = OpenNode(OpenNode(fds, t, <<p, "r">>), t, <<p, "w">>)
  PROVE  /\ Fresh(<<p, "r">>) /\ Fresh(<<p, "w">>)
         /\ \A m \in Nodes \ {<<p, "r">>, <<p, "w">>} : Still(m)
<1>a. Step(t) \/ Call(t)
  BY DEF Call
<1>t. TableTypes /\ TableTypes' /\ CountTypes /\ PlaceTypes
  BY <1>a, Tables DEF OwnInv, Basic, Types
<1>n. <<p, "r">> \in Nodes /\ <<p, "w">> \in Nodes /\ Pipe(<<p, "r">>) = p /\ Pipe(<<p, "w">>) = p
  BY NodeParts
<1>u. UNCHANGED <<todo, place, bare>>
  BY DEF PipeCall
<1>1. ASSUME NEW n \in {<<p, "r">>, <<p, "w">>}
      PROVE  /\ n \in Nodes /\ Slots(n) = 0 /\ bare[n] = 0 /\ Opening(n) = {} /\ InClose(n) = {}
             /\ \A u \in Tasks : fds[u][n] = 0 /\ todo[u][n] = 0
  <2>1. n \in Nodes /\ Pipe(n) \notin made
    BY <1>n
  <2>2. bare[n] = 0 /\ \A u \in Tasks : fds[u][n] = 0 /\ todo[u][n] = 0 /\ node[u] # n
    BY <2>1 DEF OwnInv, Made
  <2>3. Slots(n) = 0
    BY <2>1, <2>2, <1>t, NoSlots
  <2> QED
    BY <2>1, <2>2, <2>3 DEF Opening, InClose
<1>2. /\ fds'[t][<<p, "r">>] = fds[t][<<p, "r">>] + 1 /\ fds'[t][<<p, "w">>] = fds[t][<<p, "w">>] + 1
      /\ \A m \in Nodes \ {<<p, "r">>, <<p, "w">>} : fds'[t][m] = fds[t][m]
      /\ \A u \in Tasks \ {t} : fds'[u] = fds[u]
  BY <1>n, <1>t DEF OpenNode, TableTypes
<1>3. \A m \in Nodes : BusySame(m)
  BY <1>u DEF place, BusySame, Opening, InClose
<1>4. ASSUME NEW n \in {<<p, "r">>, <<p, "w">>} PROVE Fresh(n)
  <2>1. n \in Nodes /\ fds'[t][n] = fds[t][n] + 1 /\ fds[t][n] = 0 /\ todo[t][n] = 0 /\ todo'[t][n] = 0
    BY <1>1, <1>2, <1>u
  <2>2. Slots(n)' = Slots(n) + (fds'[t][n] - fds[t][n]) + (todo'[t][n] - todo[t][n])
    BY <1>a, <1>2, <1>u, <2>1, Tables, SlotsChange
  <2>3. Slots(n)' = 1
    BY <1>1, <2>1, <2>2
  <2>4. refs'[n] = 1 /\ refs[n] \in Int
    BY <1>n, <1>t DEF CountTypes
  <2> QED
    BY <2>1, <2>3, <2>4, <1>1, <1>3, <1>u DEF Fresh, BusySame
<1>5. ASSUME NEW m \in Nodes \ {<<p, "r">>, <<p, "w">>} PROVE Still(m)
  <2>1. refs'[m] = refs[m] /\ bare'[m] = bare[m]
    BY <1>n, <1>t, <1>u DEF CountTypes
  <2>2. Slots(m)' = Slots(m)
    BY <1>2, <1>u, SlotsSame
  <2> QED
    BY <2>1, <2>2, <1>3, <1>t, StillIf
<1> QED
  BY <1>4, <1>5

\* execve: the descriptors kept are descriptors nobody counted; the old
\* task's move to the list exit works off.
LEMMA ExecveEffect ==
  ASSUME OwnInv, NEW t \in Tasks, Execve(t)
  PROVE  /\ \E kept \in [Nodes -> Nat] : \A n \in Nodes :
              kept[n] <= fds[t][n] /\ Moves(n, kept[n], 0, kept[n], 0, 0)
         /\ cnt' = cnt /\ \A n \in Nodes : BusySame(n)
<1>a. Step(t) \/ Call(t)
  BY DEF Call
<1>t. TableTypes /\ TableTypes' /\ CountTypes /\ PlaceTypes
  BY <1>a, Tables DEF OwnInv, Basic, Types
<1>1. PICK c \in Tasks, kept \in [Nodes -> 0..MaxFds] :
        /\ op[c] = "unused"
        /\ \A n \in Nodes : kept[n] <= fds[t][n]
        /\ fds' = [fds EXCEPT ![t] = [n \in Nodes |-> 0], ![c] = kept]
        /\ bare' = [n \in Nodes |-> bare[n] + kept[n]]
        /\ todo' = [todo EXCEPT ![t] = fds[t]]
        /\ op' = [op EXCEPT ![t] = "exit", ![c] = "user"]
  BY DEF Execve
<1>2. op[t] = "user" /\ UNCHANGED <<node, refs, cnt>>
  BY DEF Execve, In, ends
<1>3. c # t
  BY <1>1, <1>2
<1>4. \A n \in Nodes : BusySame(n)
  BY <1>1, <1>2, <1>3, <1>t DEF PlaceTypes, BusySame, Opening, InClose
<1>5. ASSUME NEW n \in Nodes PROVE Moves(n, kept[n], 0, kept[n], 0, 0)
  <2> DEFINE mid == [fds EXCEPT ![t] = [m \in Nodes |-> 0]]
  <2>1. mid \in [Tasks -> [Nodes -> Nat]] /\ mid[t][n] = 0 /\ mid[c][n] = fds[c][n]
        /\ \A u \in Tasks \ {t} : mid[u][n] = fds[u][n]
    BY <1>3, <1>t DEF TableTypes
  <2>2. /\ fds'[c][n] = kept[n] /\ fds'[t][n] = 0
        /\ \A u \in Tasks \ {c} : fds'[u][n] = mid[u][n]
    BY <1>1, <1>3, <1>t DEF TableTypes
  <2>3. todo'[t][n] = fds[t][n] /\ \A u \in Tasks \ {t} : todo'[u][n] = todo[u][n]
    BY <1>1, <1>t DEF TableTypes
  <2>4. fds[c][n] = 0 /\ todo[t][n] = 0
    BY <1>1, <1>2, <1>a, Tables DEF OwnInv, Owners, Owner, Exiting, Closing
  <2> HIDE DEF mid
  <2>5. /\ fds[t][n] \in Nat /\ fds[t][n] <= MaxFds /\ kept[n] \in Nat /\ kept[n] <= MaxFds
        /\ fds'[c][n] <= MaxFds /\ todo'[t][n] <= MaxFds /\ todo[t][n] <= MaxFds
        /\ mid[c][n] <= MaxFds /\ mid[t][n] <= MaxFds
    BY <1>a, <2>1, <2>4, Tables, Constants
  <2>d. OthersHold(fds, mid, t, n) /\ OthersHold(mid, fds', c, n) /\ OthersHold(todo, todo', t, n)
    BY <2>1, <2>2, <2>3 DEF OthersHold
  <2>6. Held(mid, n) = (Held(fds, n) - fds[t][n]) + mid[t][n]
    <3>1. fds \in [Tasks -> [Nodes -> Nat]] /\ mid \in [Tasks -> [Nodes -> Nat]]
      BY <1>t, <2>1 DEF TableTypes
    <3>2. fds[t][n] <= MaxFds /\ mid[t][n] <= MaxFds /\ OthersHold(fds, mid, t, n)
      BY <2>5, <2>d
    <3> QED
      BY <3>1, <3>2, HeldChange
  <2>7. Held(fds', n) = (Held(mid, n) - mid[c][n]) + fds'[c][n]
    <3>1. mid \in [Tasks -> [Nodes -> Nat]] /\ fds' \in [Tasks -> [Nodes -> Nat]]
      BY <1>t, <2>1 DEF TableTypes
    <3>2. mid[c][n] <= MaxFds /\ fds'[c][n] <= MaxFds /\ OthersHold(mid, fds', c, n)
      BY <2>5, <2>d
    <3> QED
      BY <3>1, <3>2, HeldChange
  <2>8. Held(todo', n) = (Held(todo, n) - todo[t][n]) + todo'[t][n]
    <3>1. todo \in [Tasks -> [Nodes -> Nat]] /\ todo' \in [Tasks -> [Nodes -> Nat]]
      BY <1>t DEF TableTypes
    <3>2. todo[t][n] <= MaxFds /\ todo'[t][n] <= MaxFds /\ OthersHold(todo, todo', t, n)
      BY <2>5, <2>d
    <3> QED
      BY <3>1, <3>2, HeldChange
  <2>9. Held(fds, n) \in Nat /\ Held(todo, n) \in Nat /\ Held(mid, n) \in Nat
    BY HeldNat
  <2>10. Held(fds', n) + Held(todo', n) = (Held(fds, n) + Held(todo, n)) + kept[n]
    BY <2>1, <2>2, <2>3, <2>4, <2>5, <2>6, <2>7, <2>8, <2>9
  <2>11. Slots(n)' = Slots(n) + kept[n]
    BY <2>10, SlotsNext, SlotsHeld
  <2> QED
    BY <2>11, <1>1, <1>2, <1>4, <1>t, BusyFinite DEF Moves, BusySame, CountTypes
<1>6. kept \in [Nodes -> Nat]
  BY Constants
<1> QED
  BY <1>1, <1>2, <1>4, <1>5, <1>6

\* The steps that change no count.
Quiet(t) ==
  \/ Fork(t) \/ ForkReady(t) \/ Exit(t) \/ ExitDone(t) \/ CloseFree(t)
  \/ ReadCall(t) \/ ReadWake(t) \/ ReadCopy(t) \/ WriteCall(t) \/ WriteChunk(t)

\* They do not.
LEMMA QuietEffect ==
  ASSUME OwnInv, NEW t \in Tasks, Quiet(t)
  PROVE  (\A n \in Nodes : Still(n)) /\ cnt' = cnt /\ (\A n \in Nodes : BusySame(n))
<1>a. Step(t) \/ Call(t)
  BY DEF Step, Call, Quiet
<1>t. TableTypes /\ TableTypes' /\ CountTypes /\ PlaceTypes
  BY <1>a, Tables DEF OwnInv, Basic, Types
<1>1. UNCHANGED <<refs, bare, cnt>>
  BY DEF Quiet, Fork, ForkReady, Exit, ExitDone, CloseFree, ReadCall, ReadWake, ReadCopy,
         WriteCall, WriteChunk, vnode, ends
<1>2. \A n \in Nodes : BusySame(n)
  <2>1. ASSUME \A u \in Tasks : \/ op'[u] = op[u] /\ node'[u] = node[u]
                                \/ op[u] \notin {"fork_count", "close_end"} /\ op'[u] \notin {"fork_count", "close_end"}
        PROVE  \A n \in Nodes : BusySame(n)
    BY <2>1 DEF BusySame, Opening, InClose
  <2>2. ASSUME NEW o, op'= [op EXCEPT ![t] = o], o \notin {"fork_count", "close_end"},
               op[t] \notin {"fork_count", "close_end"},
               \A u \in Tasks \ {t} : node'[u] = node[u]
        PROVE  \A n \in Nodes : BusySame(n)
    BY <2>1, <2>2, <1>t DEF PlaceTypes
  <2>3. CASE Fork(t)
    BY <2>1, <2>3, <1>t DEF Fork, In, PlaceTypes
  <2>4. CASE ForkReady(t)
    BY <2>1, <2>4, <1>t, Parent DEF ForkReady, PlaceTypes, Forking
  <2>5. CASE Exit(t) \/ ExitDone(t) \/ ReadWake(t)
    BY <2>2, <2>5 DEF Exit, ExitDone, ReadWake, In, Goes
  <2>6. CASE CloseFree(t)
    BY <2>2, <2>6, <1>t DEF CloseFree, Goes, Leaves, PlaceTypes
  <2>7. CASE ReadCall(t) \/ WriteCall(t)
    BY <2>2, <2>7, <1>t DEF ReadCall, WriteCall, In, Goes, PlaceTypes
  <2>8. CASE ReadCopy(t)
    BY <2>2, <2>8, <1>t DEF ReadCopy, Goes, Returns, Leaves, PlaceTypes
  <2>9. CASE WriteChunk(t)
    BY <2>2, <2>9, <1>t DEF WriteChunk, Goes, Returns, Leaves, PlaceTypes
  <2> QED
    BY <2>3, <2>4, <2>5, <2>6, <2>7, <2>8, <2>9 DEF Quiet
<1>3. \A n \in Nodes : Slots(n)' = Slots(n)
  <2>1. CASE Exit(t)
    <3> SUFFICES ASSUME NEW n \in Nodes PROVE Slots(n)' = Slots(n)
      OBVIOUS
    <3>1. /\ fds'[t][n] = 0 /\ todo'[t][n] = fds[t][n]
          /\ \A u \in Tasks \ {t} : fds'[u] = fds[u] /\ todo'[u] = todo[u]
      BY <2>1, <1>t DEF Exit, TableTypes
    <3>2. todo[t][n] = 0
      BY <2>1, <1>a, Tables DEF Exit, In, OwnInv, Owners, Owner, Exiting, Closing
    <3>3. Slots(n)' = Slots(n) + (fds'[t][n] - fds[t][n]) + (todo'[t][n] - todo[t][n])
      BY <3>1, <1>a, Tables, SlotsChange
    <3> QED
      BY <3>1, <3>2, <3>3, <1>a, Tables, SlotsNat
  <2>2. CASE UNCHANGED table
    BY <2>2, SlotsSame DEF table
  <2> QED
    BY <2>1, <2>2 DEF Quiet, Fork, ForkReady, ExitDone, CloseFree, ReadCall, ReadWake, ReadCopy,
         WriteCall, WriteChunk
<1> QED
  BY <1>1, <1>2, <1>3, <1>t, StillIf

\* Nothing comes to refer to a pipe that does not exist.
LEMMA MadeNext ==
  ASSUME OwnInv, NEW t \in Tasks, Step(t) \/ Call(t)
  PROVE  Made'
<1>t. TableTypes /\ CountTypes /\ PlaceTypes /\ Placed /\ Owner(t)
  BY DEF OwnInv, Basic, Types, Owners
<1>m. made \subseteq made'
  BY DEF Step, Call, PipeCall, CloseCall, Dup, Dup2Close, Fork, Execve, Exit, ReadCall, WriteCall,
         CloseEnd, CloseFree, Dup2Open, ForkOpen, ForkCount, ForkReady, ExitClose, ExitDone,
         ReadWake, ReadCopy, WriteChunk, CloseBegin, ends
<1> SUFFICES ASSUME NEW n \in Nodes, Pipe(n) \notin made'
             PROVE  bare'[n] = 0 /\ \A u \in Tasks : fds'[u][n] = 0 /\ todo'[u][n] = 0 /\ node'[u] # n
  BY DEF Made
<1>z. bare[n] = 0 /\ \A u \in Tasks : fds[u][n] = 0 /\ todo[u][n] = 0 /\ node[u] # n
  BY <1>m DEF OwnInv, Made
<1> USE Constants
<1>c. ASSUME NEW m \in Nodes, NEW then, CloseBegin(t, m, then), fds[t][m] > 0 \/ todo[t][m] > 0,
             \/ fds' = Unlinked(fds, t, m) /\ todo' = todo
             \/ todo' = Unlinked(todo, t, m) /\ fds' = fds
      PROVE  bare'[n] = 0 /\ \A u \in Tasks : fds'[u][n] = 0 /\ todo'[u][n] = 0 /\ node'[u] # n
  <2>1. m # n
    BY <1>c, <1>z
  <2> QED
    BY <2>1, <1>c, <1>z, <1>t DEF CloseBegin, Unlinked, TableTypes, PlaceTypes
<1>1. CASE PipeCall(t)
  <2>1. PICK p \in Pipes \ made :
          /\ made' = made \cup {p}
          /\ fds' = OpenNode(OpenNode(fds, t, <<p, "r">>), t, <<p, "w">>)
    BY <1>1 DEF PipeCall
  <2>2. n # <<p, "r">> /\ n # <<p, "w">>
    BY <2>1, NodeParts
  <2>3. \A u \in Tasks : fds'[u][n] = fds[u][n]
    BY <2>1, <2>2, <1>t, NodeParts DEF OpenNode, TableTypes
  <2> QED
    BY <2>3, <1>1, <1>z DEF PipeCall, place
<1>2. CASE CloseCall(t)
  BY <1>2, <1>c DEF CloseCall
<1>3. CASE Dup(t)
  BY <1>3, <1>z, <1>t DEF Dup, Duplicate, OpenNode, place, TableTypes, CountTypes
<1>4. CASE Dup2Close(t)
  BY <1>4, <1>c DEF Dup2Close
<1>5. CASE Execve(t)
  <2>1. PICK c \in Tasks, kept \in [Nodes -> 0..MaxFds] :
          /\ \A m \in Nodes : kept[m] <= fds[t][m]
          /\ fds' = [fds EXCEPT ![t] = [m \in Nodes |-> 0], ![c] = kept]
          /\ bare' = [m \in Nodes |-> bare[m] + kept[m]]
          /\ todo' = [todo EXCEPT ![t] = fds[t]]
    BY <1>5 DEF Execve
  <2>2. kept[n] = 0 /\ node' = node
    BY <2>1, <1>5, <1>z DEF Execve
  <2> QED
    BY <2>1, <2>2, <1>z, <1>t DEF TableTypes
<1>6. CASE Exit(t)
  BY <1>6, <1>z, <1>t DEF Exit, vnode, TableTypes
<1>7. CASE ReadCall(t)
  <2>1. PICK p \in Pipes : fds[t][<<p, "r">>] > 0 /\ node' = [node EXCEPT ![t] = <<p, "r">>]
    BY <1>7 DEF ReadCall
  <2>2. n # <<p, "r">> /\ UNCHANGED <<fds, todo, bare>>
    BY <2>1, <1>7, <1>z DEF ReadCall, table, vnode
  <2> QED
    BY <2>1, <2>2, <1>z, <1>t DEF PlaceTypes
<1>8. CASE WriteCall(t)
  <2>1. PICK p \in Pipes : fds[t][<<p, "w">>] > 0 /\ node' = [node EXCEPT ![t] = <<p, "w">>]
    BY <1>8 DEF WriteCall
  <2>2. n # <<p, "w">> /\ UNCHANGED <<fds, todo, bare>>
    BY <2>1, <1>8, <1>z DEF WriteCall, table, vnode
  <2> QED
    BY <2>1, <2>2, <1>z, <1>t DEF PlaceTypes
<1>9. CASE Dup2Open(t)
  <2>1. old[t] \in Nodes /\ fds[t][old[t]] > 0
    BY <1>9, <1>t DEF Dup2Open, Placed, Owner, Dup2ing
  <2>2. old[t] # n
    BY <2>1, <1>z
  <2> QED
    BY <2>1, <2>2, <1>9, <1>z, <1>t DEF Dup2Open, Duplicate, OpenNode, TableTypes, CountTypes
<1>10. CASE ForkOpen(t)
  <2>1. PICK m \in Nodes : fds[child[t]][m] < fds[t][m] /\ node' = [node EXCEPT ![t] = m]
    BY <1>10 DEF ForkOpen
  <2>2. child[t] \in Tasks
    BY <1>10, <1>t DEF ForkOpen, Placed, Forking
  <2>3. m # n
    BY <2>1, <2>2, <1>z
  <2> QED
    BY <2>1, <2>3, <1>10, <1>z, <1>t DEF ForkOpen, table, PlaceTypes
<1>11. CASE ForkCount(t)
  <2>1. child[t] \in Tasks /\ node[t] \in Nodes /\ node[t] # n
    BY <1>11, <1>t, <1>z DEF ForkCount, Placed, Forking
  <2> QED
    BY <2>1, <1>11, <1>z, <1>t DEF ForkCount, OpenNode, Leaves, vnode, TableTypes, PlaceTypes
<1>12. CASE ExitClose(t)
  BY <1>12, <1>c DEF ExitClose
<1>13. ASSUME UNCHANGED <<fds, todo, bare>>, \A u \in Tasks : node'[u] = node[u] \/ node'[u] = None
       PROVE  bare'[n] = 0 /\ \A u \in Tasks : fds'[u][n] = 0 /\ todo'[u][n] = 0 /\ node'[u] # n
  BY <1>13, <1>z
<1>14. CASE \/ Fork(t) \/ CloseEnd(t) \/ ForkReady(t) \/ ExitDone(t) \/ ReadWake(t)
  BY <1>13, <1>14 DEF Fork, CloseEnd, ForkReady, ExitDone, ReadWake, table, vnode
<1>15. CASE CloseFree(t)
  BY <1>13, <1>15, <1>t DEF CloseFree, Leaves, table, PlaceTypes
<1>16. CASE ReadCopy(t) \/ WriteChunk(t)
  <2>1. UNCHANGED <<fds, todo, bare>>
    BY <1>16 DEF ReadCopy, WriteChunk, table, vnode
  <2>2. node' = node \/ node' = [node EXCEPT ![t] = None]
    BY <1>16 DEF ReadCopy, WriteChunk, Returns, Leaves
  <2> QED
    BY <2>1, <2>2, <1>13, <1>t DEF PlaceTypes
<1> QED
  BY <1>1, <1>2, <1>3, <1>4, <1>5, <1>6, <1>7, <1>8, <1>9, <1>10, <1>11, <1>12, <1>14, <1>15, <1>16
  DEF Step, Call

\* The invariant of the descriptor lists is inductive.
LEMMA OwnInvNext ==
  ASSUME OwnInv, [Next]_vars
  PROVE  OwnInv'
<1>1. ASSUME NEW t \in Tasks, Step(t) \/ Call(t) PROVE OwnInv'
  BY <1>1, OwnersNext, MadeNext DEF OwnInv
<1>2. CASE UNCHANGED vars
  <2>1. Basic'
    BY BasicNext DEF OwnInv
  <2>2. UNCHANGED <<fds, todo, op, node, after, old, child, made, bare>>
    BY <1>2 DEF vars, table, place, vnode, ends
  <2>3. Owners' /\ Family' /\ Made'
    BY <2>2 DEF OwnInv, Owners, Owner, Family, Made, Copying, Dup2ing, Closing, Exiting, Forking
  <2> QED
    BY <2>1, <2>3 DEF OwnInv
<1> QED
  BY <1>1, <1>2 DEF Next

\* Arithmetic modulo the range of ref_cnt.
LEMMA DivMod ==
  ASSUME NEW m \in Nat, m > 0, NEW a \in Int
  PROVE  a \div m \in Int /\ a % m \in 0..(m - 1) /\ a = m * (a \div m) + (a % m)
OBVIOUS

\* Arithmetic modulo the range of ref_cnt.
LEMMA Multiples == 
  ASSUME NEW m \in Nat, NEW q \in Int, NEW s \in Int, s <= q - 1
  PROVE m * s <= m * q - m
<1>1. PICK k \in Nat : s = q - 1 - k
  <2>1. q - 1 - s \in Nat
    OBVIOUS
  <2> QED
    BY <2>1
<1>2. m * s = m * q - m - m * k
  BY <1>1
<1>3. m * k >= 0
  OBVIOUS
<1>4. m * s \in Int /\ m * q \in Int /\ m * k \in Int
  OBVIOUS
<1> QED
    BY <1>2, <1>3, <1>4

\* The remainder is unique.
LEMMA ModUnique ==
  ASSUME NEW m \in Nat, m > 0, NEW a \in Int, NEW q \in Int, NEW r \in 0..(m - 1), a = m * q + r
  PROVE  a % m = r
<1> DEFINE d == a \div m
           e == a % m
<1>1. d \in Int /\ e \in 0..(m - 1) /\ a = m * d + e
  BY DivMod
<1> HIDE DEF d, e
<1>2. ASSUME d <= q - 1 PROVE FALSE
  <2>1. m * d <= m * q - m
    BY <1>1, <1>2, Multiples
  <2>2. m * d \in Int /\ m * q \in Int
    BY <1>1
  <2> QED
    BY <1>1, <2>1, <2>2
<1>3. ASSUME q <= d - 1 PROVE FALSE
  <2>1. m * q <= m * d - m
    BY <1>1, <1>3, Multiples
  <2>2. m * d \in Int /\ m * q \in Int
    BY <1>1
  <2> QED
    BY <1>1, <2>1, <2>2
<1>4. d = q
  BY <1>1, <1>2, <1>3
<1>5. e = r
  <2>1. m * q \in Int
    OBVIOUS
  <2> QED
    BY <1>1, <1>4, <2>1
<1> QED
    BY <1>5 DEF e

\* A number in range is its own remainder.
LEMMA ModSmall == \A a \in 0..(RefMod - 1) : a % RefMod = a
BY Constants

\* Counting up or down commutes with the remainder.
LEMMA ModStep ==
  ASSUME NEW a \in Int
  PROVE  /\ ((a % RefMod) - 1) % RefMod = (a - 1) % RefMod
         /\ ((a % RefMod) + 1) % RefMod = (a + 1) % RefMod
<1> DEFINE m == RefMod
<1>m. m \in Nat /\ m > 2
  BY Constants
<1> HIDE DEF m
<1>1. PICK q \in Int, r \in 0..(m - 1) : a = m * q + r /\ a % m = r
  BY <1>m, DivMod
<1>2. m * q \in Int /\ m * (q - 1) = m * q - m /\ m * (q + 1) = m * q + m
  BY <1>m
<1>3. (r - 1) % m = (a - 1) % m
  <2>1. CASE r = 0
    <3>1. a - 1 = m * (q - 1) + (m - 1) /\ r - 1 = m * (-1) + (m - 1)
      BY <1>m, <1>1, <1>2, <2>1
    <3>2. (a - 1) % m = m - 1
      BY <3>1, <1>m, ModUnique
    <3>3. (r - 1) % m = m - 1
      BY <3>1, <1>m, ModUnique
    <3> QED
      BY <3>2, <3>3
  <2>2. CASE r > 0
    <3>1. a - 1 = m * q + (r - 1) /\ r - 1 = m * 0 + (r - 1) /\ r - 1 \in 0..(m - 1)
      BY <1>m, <1>1, <1>2, <2>2
    <3>2. (a - 1) % m = r - 1
      BY <3>1, <1>m, ModUnique
    <3>3. (r - 1) % m = r - 1
      BY <3>1, <1>m, ModUnique
    <3> QED
      BY <3>2, <3>3
  <2> QED
    BY <2>1, <2>2
<1>5. PICK b \in Int : b = a + 1
  OBVIOUS
<1>4. (r + 1) % m = (a + 1) % m
  <2>1. CASE r = m - 1
    <3>1. a + 1 = m * (q + 1) + 0 /\ r + 1 = m * 1 + 0
      BY <1>m, <1>1, <1>2, <2>1
    <3>4. PICK k \in Int : k = q + 1
      OBVIOUS
    <3>5. b = m * k + 0 /\ 0 \in 0..(m - 1)
      BY <3>1, <3>4, <1>m, <1>5
    <3>6. b % m = 0
      BY <3>5, <1>m, ModUnique
    <3>2. (a + 1) % m = 0
      BY <3>6, <1>5
    <3>3. (r + 1) % m = 0
      BY <3>1, <1>m, ModUnique
    <3> QED
      BY <3>2, <3>3
  <2>2. CASE r < m - 1
    <3>1. a + 1 = m * q + (r + 1) /\ r + 1 = m * 0 + (r + 1) /\ r + 1 \in 0..(m - 1)
      BY <1>m, <1>1, <1>2, <2>2
    <3>4. PICK k \in 0..(m - 1) : k = r + 1
      BY <3>1
    <3>5. b = m * q + k
      BY <3>1, <3>4, <1>m, <1>5
    <3>6. b % m = k
      BY <3>5, <1>m, ModUnique
    <3>2. (a + 1) % m = r + 1
      BY <3>4, <3>6, <1>5
    <3>3. (r + 1) % m = r + 1
      BY <3>1, <1>m, ModUnique
    <3> QED
      BY <3>2, <3>3
  <2> QED
    BY <2>1, <2>2, <1>m
<1> QED
  BY <1>1, <1>3, <1>4 DEF m

\* The opens of node n that count in the pipe's ref_cnt.
Use(n) == refs[n] - Cardinality(Opening(n)) + Cardinality(InClose(n))
Uses(p) == Use(<<p, "r">>) + Use(<<p, "w">>)

\* CountsAgree for one node and for one pipe.
AgreeAt(n) == refs[n] + bare[n] = Slots(n) + Cardinality(Opening(n))
AgreeOn(p) == cnt[p] = Uses(p) % RefMod

\* And for all.
Agreed == (\A n \in Nodes : AgreeAt(n)) /\ (\A p \in Pipes : AgreeOn(p))

\* CountsAgree is these parts.
LEMMA AgreeParts == CountTypes => (CountsAgree <=> Agreed)
<1> SUFFICES ASSUME CountTypes PROVE CountsAgree <=> Agreed
  OBVIOUS
<1>1. ASSUME NEW p \in Pipes
      PROVE  Uses(p) = refs[<<p, "r">>] - Cardinality(Opening(<<p, "r">>)) + Cardinality(InClose(<<p, "r">>))
                       + refs[<<p, "w">>] - Cardinality(Opening(<<p, "w">>)) + Cardinality(InClose(<<p, "w">>))
  <2>1. refs[<<p, "r">>] \in Int /\ refs[<<p, "w">>] \in Int
    BY NodeParts DEF CountTypes
  <2> QED
    BY <2>1, BusyFinite DEF Uses, Use
<1> QED
  BY <1>1 DEF CountsAgree, Agreed, AgreeAt, AgreeOn

\* After a step too.
LEMMA AgreePartsNext == CountTypes' => (CountsAgree' <=> Agreed')
BY AgreeParts, PTL

\* The numbers of a node are numbers.
LEMMA Numbers ==
  ASSUME CountTypes, NEW n \in Nodes
  PROVE  /\ refs[n] \in Int /\ bare[n] \in Nat /\ Slots(n) \in Nat /\ Use(n) \in Int
         /\ Cardinality(Opening(n)) \in Nat /\ Cardinality(InClose(n)) \in Nat
BY SlotsNat, BusyFinite DEF CountTypes, Use

\* A step whose changes balance keeps a node's count right.
LEMMA MovesAgree ==
  ASSUME CountTypes, NEW n \in Nodes,
         NEW s \in Int, NEW r \in Int, NEW b \in Int, NEW o \in Int, NEW c \in Int,
         Moves(n, s, r, b, o, c), r + b = s + o
  PROVE  /\ AgreeAt(n) => AgreeAt(n)'
         /\ Use(n)' = Use(n) + ((r - o) + c)
<1>1. /\ refs[n] \in Int /\ bare[n] \in Nat /\ Slots(n) \in Nat
      /\ Cardinality(Opening(n)) \in Nat /\ Cardinality(InClose(n)) \in Nat
  BY Numbers
<1>2. /\ Slots(n)' = Slots(n) + s /\ refs'[n] = refs[n] + r /\ bare'[n] = bare[n] + b
      /\ Cardinality(Opening(n))' = Cardinality(Opening(n)) + o
      /\ Cardinality(InClose(n))' = Cardinality(InClose(n)) + c
  BY DEF Moves
<1>3. AgreeAt(n) => AgreeAt(n)'
  BY <1>1, <1>2 DEF AgreeAt
<1>4. Use(n)' = Use(n) + ((r - o) + c)
  BY <1>1, <1>2 DEF Use
<1> QED
  BY <1>3, <1>4

\* As does one that changes nothing.
LEMMA StillAgree ==
  ASSUME CountTypes, NEW n \in Nodes, Still(n)
  PROVE  (AgreeAt(n) => AgreeAt(n)') /\ Use(n)' = Use(n)
BY Numbers DEF Still, Moves, AgreeAt, Use

\* A step that changes the use of one node by d, and the pipe's count with it.
LEMMA AgreeStep ==
  ASSUME CountTypes, CountsAgree, NEW n \in Nodes, NEW d \in {-1, 0, 1}, OnlyAt(n), AgreeAt(n)',
         Use(n)' = Use(n) + d, CountTypes',
         cnt' = [cnt EXCEPT ![Pipe(n)] = (@ + d) % RefMod]
  PROVE  CountsAgree'
<1>1. ASSUME NEW m \in Nodes PROVE AgreeAt(m)' /\ (m # n => Use(m)' = Use(m))
  BY StillAgree, AgreeParts DEF OnlyAt, Agreed
<1>2. ASSUME NEW p \in Pipes PROVE AgreeOn(p)'
  <2>1. AgreeOn(p) /\ <<p, "r">> \in Nodes /\ <<p, "w">> \in Nodes /\ <<p, "r">> # <<p, "w">>
    BY AgreeParts, NodeParts DEF Agreed
  <2>2. Use(<<p, "r">>) \in Int /\ Use(<<p, "w">>) \in Int /\ Uses(p) \in Int /\ Use(n) \in Int
    BY <2>1, Numbers DEF Uses
  <2>3. CASE p # Pipe(n)
    <3>1. n # <<p, "r">> /\ n # <<p, "w">>
      BY <2>3, NodeParts
    <3>2. Uses(p)' = Uses(p)
      BY <1>1, <2>1, <3>1 DEF Uses
    <3>3. cnt'[p] = cnt[p]
      BY <2>3 DEF CountTypes
    <3> QED
      BY <2>1, <3>2, <3>3 DEF AgreeOn
  <2>4. CASE p = Pipe(n)
    <3>1. n = <<p, "r">> \/ n = <<p, "w">>
      BY <2>4, NodeParts
    <3>2. Uses(p)' = Uses(p) + d
      <4>1. CASE n = <<p, "r">>
        BY <4>1, <1>1, <2>1, <2>2 DEF Uses
      <4>2. CASE n = <<p, "w">>
        BY <4>2, <1>1, <2>1, <2>2 DEF Uses
      <4> QED
        BY <3>1, <4>1, <4>2
    <3>3. cnt'[p] = ((Uses(p) % RefMod) + d) % RefMod
      BY <2>1, <2>4 DEF CountTypes, AgreeOn
    <3>4. ((Uses(p) % RefMod) + d) % RefMod = (Uses(p) + d) % RefMod
      <4>1. CASE d = 0
        <5>1. Uses(p) % RefMod \in 0..(RefMod - 1)
          BY <2>2, ModType
        <5>2. (Uses(p) % RefMod) + 0 = Uses(p) % RefMod /\ Uses(p) + 0 = Uses(p)
          BY <5>1, <2>2
        <5> QED
          BY <4>1, <5>1, <5>2, ModSmall
      <4>2. CASE d = 1
        BY <4>2, <2>2, ModStep
      <4>3. CASE d = -1
        <5>1. Uses(p) % RefMod \in 0..(RefMod - 1)
          BY <2>2, ModType
        <5>2. (Uses(p) % RefMod) + d = (Uses(p) % RefMod) - 1 /\ Uses(p) + d = Uses(p) - 1
          BY <5>1, <2>2, <4>3, Constants
        <5> QED
          BY <5>2, <2>2, ModStep
      <4> QED
        BY <4>1, <4>2, <4>3
    <3> QED
      BY <3>2, <3>3, <3>4 DEF AgreeOn
  <2> QED
    BY <2>3, <2>4
<1> QED
  BY <1>1, <1>2, AgreePartsNext DEF Agreed

\* A count that does not change, in the form of one that does.
LEMMA SameCount ==
  ASSUME CountTypes, NEW n \in Nodes, cnt' = cnt
  PROVE  cnt' = [cnt EXCEPT ![Pipe(n)] = (@ + 0) % RefMod]
<1>1. Pipe(n) \in Pipes /\ cnt[Pipe(n)] \in 0..(RefMod - 1)
  BY NodeParts DEF CountTypes
<1>2. cnt[Pipe(n)] + 0 = cnt[Pipe(n)] /\ cnt[Pipe(n)] % RefMod = cnt[Pipe(n)]
  BY <1>1, ModSmall, Constants
<1> QED
  BY <1>1, <1>2 DEF CountTypes

\* The close of a descriptor, whoever begins it.
LEMMA CloseSteps ==
  ASSUME OwnInv, NEW t \in Tasks, CloseCall(t) \/ Dup2Close(t) \/ ExitClose(t)
  PROVE  \E n \in Nodes, then \in {"user", "dup2", "exit"} : CloseBegin(t, n, then) /\ Closes(t, n)
<1>1. CASE CloseCall(t)
  BY <1>1 DEF CloseCall, Closes, In
<1>2. CASE Dup2Close(t)
  BY <1>2 DEF Dup2Close, Closes, In
<1>3. CASE ExitClose(t)
  BY <1>3 DEF ExitClose, Closes
<1> QED
  BY <1>1, <1>2, <1>3

\* Every step keeps the counts right.
LEMMA CountsNext ==
  ASSUME OwnInv, CountsAgree, NEW t \in Tasks, Step(t) \/ Call(t)
  PROVE  CountsAgree'
<1>t. CountTypes /\ CountTypes'
  BY OwnersNext DEF OwnInv, Basic, Types
<1>g. (\A n \in Nodes : AgreeAt(n)) /\ (\A p \in Pipes : AgreeOn(p))
  BY <1>t, AgreeParts DEF Agreed
<1>1. CASE CloseCall(t) \/ Dup2Close(t) \/ ExitClose(t)
  <2>1. PICK n \in Nodes, then \in {"user", "dup2", "exit"} : CloseBegin(t, n, then) /\ Closes(t, n)
    BY <1>1, CloseSteps
  <2>2. Moves(n, -1, -1, 0, 0, 1) /\ OnlyAt(n) /\ cnt' = cnt
    BY <2>1, CloseEffect
  <2>3. AgreeAt(n)' /\ Use(n)' = Use(n) + ((-1 - 0) + 1)
    BY <2>2, <1>t, <1>g, MovesAgree
  <2>4. Use(n)' = Use(n) + 0
    BY <2>3
  <2> QED
    BY <2>2, <2>3, <2>4, <1>t, SameCount, AgreeStep
<1>2. CASE CloseEnd(t)
  <2>1. PICK n \in Nodes : n = node[t]
    BY <1>2 DEF CloseEnd, OwnInv, Basic, Placed, Closing
  <2>2. /\ Moves(n, 0, 0, 0, 0, -1) /\ OnlyAt(n)
        /\ cnt' = [cnt EXCEPT ![Pipe(n)] = (cnt[Pipe(n)] - 1) % RefMod]
    BY <1>2, <2>1, EndEffect
  <2>3. AgreeAt(n)' /\ Use(n)' = Use(n) + ((0 - 0) + -1)
    BY <2>2, <1>t, <1>g, MovesAgree
  <2>4. Use(n)' = Use(n) + -1
    BY <2>3
  <2>5. cnt' = [cnt EXCEPT ![Pipe(n)] = (@ + -1) % RefMod]
    BY <2>2, <1>t, NodeParts DEF CountTypes
  <2> QED
    BY <2>2, <2>3, <2>4, <2>5, <1>t, AgreeStep
<1>3. CASE Dup(t) \/ Dup2Open(t)
  <2>1. PICK n \in Nodes : Duplicate(t, n)
    BY <1>3 DEF Dup, Dup2Open, OwnInv, Basic, Placed, Dup2ing
  <2>2. Moves(n, 1, 0, 1, 0, 0) /\ OnlyAt(n) /\ cnt' = cnt
    BY <1>3, <2>1, DupEffect
  <2>3. AgreeAt(n)' /\ Use(n)' = Use(n) + ((0 - 0) + 0)
    BY <2>2, <1>t, <1>g, MovesAgree
  <2>4. Use(n)' = Use(n) + 0
    BY <2>3
  <2> QED
    BY <2>2, <2>3, <2>4, <1>t, SameCount, AgreeStep
<1>4. CASE ForkOpen(t)
  <2>1. PICK n \in Nodes : refs' = [refs EXCEPT ![n] = @ + 1] /\ node' = [node EXCEPT ![t] = n]
    BY <1>4 DEF ForkOpen
  <2>2. Moves(n, 0, 1, 0, 1, 0) /\ OnlyAt(n) /\ cnt' = cnt
    BY <1>4, <2>1, ForkOpenEffect DEF ForkOpen, Goes, table, ends
  <2>3. AgreeAt(n)' /\ Use(n)' = Use(n) + ((1 - 1) + 0)
    BY <2>2, <1>t, <1>g, MovesAgree
  <2>4. Use(n)' = Use(n) + 0
    BY <2>3
  <2> QED
    BY <2>2, <2>3, <2>4, <1>t, SameCount, AgreeStep
<1>5. CASE ForkCount(t)
  <2>1. PICK n \in Nodes : n = node[t]
    BY <1>5 DEF ForkCount, OwnInv, Basic, Placed
  <2>2. /\ Moves(n, 1, 0, 0, -1, 0) /\ OnlyAt(n)
        /\ cnt' = [cnt EXCEPT ![Pipe(n)] = (@ + 1) % RefMod]
    BY <1>5, <2>1, ForkCountEffect
  <2>3. AgreeAt(n)' /\ Use(n)' = Use(n) + ((0 - -1) + 0)
    BY <2>2, <1>t, <1>g, MovesAgree
  <2>4. Use(n)' = Use(n) + 1
    BY <2>3
  <2> QED
    BY <2>2, <2>3, <2>4, <1>t, AgreeStep
<1>6. CASE PipeCall(t)
  <2>1. PICK p \in Pipes \ made :
          /\ made' = made \cup {p} /\ cnt' = [cnt EXCEPT ![p] = 2]
          /\ refs' = [refs EXCEPT ![<<p, "r">>] = 1, ![<<p, "w">>] = 1]
          /\ fds' = OpenNode(OpenNode(fds, t, <<p, "r">>), t, <<p, "w">>)
    BY <1>6 DEF PipeCall
  <2>2. /\ Fresh(<<p, "r">>) /\ Fresh(<<p, "w">>)
        /\ \A m \in Nodes \ {<<p, "r">>, <<p, "w">>} : Still(m)
    BY <1>6, <2>1, PipeEffect
  <2>3. ASSUME NEW n, Fresh(n) PROVE AgreeAt(n)' /\ Use(n)' = 1
    BY <2>3, FS_EmptySet DEF Fresh, AgreeAt, Use
  <2>4. ASSUME NEW m \in Nodes PROVE AgreeAt(m)'
    BY <2>2, <2>3, <1>t, <1>g, StillAgree
  <2>5. ASSUME NEW q \in Pipes PROVE AgreeOn(q)'
    <3>1. CASE q = p
      <4>1. Uses(q)' = 2 /\ cnt'[q] = 2
        BY <3>1, <2>1, <2>2, <2>3, <1>t DEF Uses, CountTypes
      <4> QED
        BY <4>1, ModSmall, Constants DEF AgreeOn
    <3>2. CASE q # p
      <4>1. <<q, "r">> \in Nodes /\ <<q, "w">> \in Nodes /\ Still(<<q, "r">>) /\ Still(<<q, "w">>)
        BY <3>2, <2>2, NodeParts
      <4>2. Uses(q)' = Uses(q) /\ cnt'[q] = cnt[q]
        BY <4>1, <3>2, <2>1, <1>t, StillAgree DEF Uses, CountTypes
      <4> QED
        BY <4>2, <1>g DEF AgreeOn
    <3> QED
      BY <3>1, <3>2
  <2> QED
    BY <2>4, <2>5, <1>t, AgreePartsNext DEF Agreed
<1>7. ASSUME cnt' = cnt, \A n \in Nodes : AgreeAt(n)' /\ Use(n)' = Use(n)
      PROVE  CountsAgree'
  <2>1. ASSUME NEW q \in Pipes PROVE AgreeOn(q)'
    <3>1. Uses(q)' = Uses(q)
      BY <1>7, NodeParts DEF Uses
    <3> QED
      BY <3>1, <1>7, <1>g DEF AgreeOn
  <2> QED
    BY <2>1, <1>7, <1>t, AgreePartsNext DEF Agreed
<1>8. CASE Execve(t)
  <2>1. PICK kept \in [Nodes -> Nat] : \A n \in Nodes : Moves(n, kept[n], 0, kept[n], 0, 0)
    BY <1>8, ExecveEffect
  <2>2. ASSUME NEW n \in Nodes PROVE AgreeAt(n)' /\ Use(n)' = Use(n)
    <3>1. kept[n] \in Int /\ 0 + kept[n] = kept[n] + 0 /\ Moves(n, kept[n], 0, kept[n], 0, 0)
      BY <2>1
    <3>2. AgreeAt(n)' /\ Use(n)' = Use(n) + ((0 - 0) + 0)
      BY <3>1, <1>t, <1>g, MovesAgree
    <3> QED
      BY <3>2, <1>t, Numbers
  <2> QED
    BY <2>2, <1>7, <1>8, ExecveEffect
<1>9. CASE Quiet(t)
  BY <1>7, <1>9, <1>t, <1>g, QuietEffect, StillAgree
<1> QED
  BY <1>1, <1>2, <1>3, <1>4, <1>5, <1>6, <1>8, <1>9 DEF Step, Call, Quiet

\* The inductive invariant of the counts.
CountInv == OwnInv /\ CountsAgree

\* The first state: all counts are 0.
LEMMA CountInvInit == Init => CountInv
<1> SUFFICES ASSUME Init PROVE CountInv
  OBVIOUS
<1>1. OwnInv
  BY OwnInvInit
<1>2. CountTypes /\ TableTypes
  BY <1>1 DEF OwnInv, Basic, Types
<1>3. ASSUME NEW n \in Nodes PROVE AgreeAt(n) /\ Use(n) = 0
  <2>1. Slots(n) = 0
    <3>1. \A u \in Tasks : fds[u][n] = 0 /\ todo[u][n] = 0
      BY DEF Init
    <3> QED
      BY <3>1, <1>2, NoSlots
  <2>2. Opening(n) = {} /\ InClose(n) = {}
    BY Constants DEF Init, Opening, InClose
  <2>3. refs[n] = 0 /\ bare[n] = 0
    BY DEF Init
  <2> QED
    BY <2>1, <2>2, <2>3, FS_EmptySet DEF AgreeAt, Use
<1>4. ASSUME NEW p \in Pipes PROVE AgreeOn(p)
  <2>1. Uses(p) = 0 /\ cnt[p] = 0
    BY <1>3, NodeParts DEF Uses, Init
  <2> QED
    BY <2>1, ModSmall, Constants DEF AgreeOn
<1> QED
  BY <1>1, <1>2, <1>3, <1>4, AgreeParts DEF CountInv, Agreed

\* The counts stay right.
LEMMA CountInvNext ==
  ASSUME CountInv, [Next]_vars
  PROVE  CountInv'
<1>1. OwnInv'
  BY OwnInvNext DEF CountInv
<1>2. ASSUME NEW t \in Tasks, Step(t) \/ Call(t) PROVE CountsAgree'
  BY <1>2, CountsNext DEF CountInv
<1>3. CASE UNCHANGED vars
  <2>1. UNCHANGED <<fds, todo, op, node, refs, bare, cnt>>
    BY <1>3 DEF vars, table, place, vnode, ends
  <2>2. CountsAgree'
    BY <2>1 DEF CountInv, CountsAgree, Slots, Opening, InClose
  <2> QED
    BY <1>1, <2>2 DEF CountInv
<1> QED
  BY <1>1, <1>2, <1>3 DEF CountInv, Next

\* The reference counts are right (vnode_t::open and close, v_open, v_close,
\* create_pipe): whatever opens, closes, forks and exits are half way in
\* whatever number of tasks, a node's ref_count is the number of descriptors
\* opened for it, and the pipe's 8-bit ref_cnt is the sum over its ends modulo
\* its range.  It holds for every RefMod, wrapped or not, and with the defects
\* of dup and of two racing closers let loose.
THEOREM CountsKept == Spec => []CountsAgree
<1>1. CountInv => CountsAgree
  BY DEF CountInv
<1> QED
  BY <1>1, CountInvInit, CountInvNext, PTL DEF Spec

-----------------------------------------------------------------------------
(* Lifetimes.                                                              *)

\* The opens of node n that are complete.
Opens(n) == refs[n] - Cardinality(Opening(n))

\* Nodes: a node with a descriptor has a complete open() and exists; one task
\* at a time is in its close(); whoever will delete it has closed the last
\* descriptor; and an existing node has a descriptor or somebody who will
\* delete it.
LiveNodes ==
  /\ \A n \in Nodes : Opens(n) >= 0 /\ (Slots(n) > 0 => Opens(n) > 0 /\ n \in nodes)
  /\ \A n \in Nodes, t, u \in Tasks : t \in InClose(n) /\ u \in InClose(n) => t = u
  /\ \A n \in Nodes : InClose(n) # {} => n \in nodes
  /\ \A t \in last : Closing(t) /\ Slots(node[t]) = 0 /\ InClose(node[t]) \subseteq {t}
  /\ \A n \in nodes : Pipe(n) \in made /\ (Slots(n) > 0 \/ \E t \in last : node[t] = n)
\* Pipes: whoever will delete one was its last use; a used one exists; an
\* existing one is used or has somebody who will delete it.
LivePipes ==
  /\ \A t \in drop : op[t] = "close_free" /\ Uses(Pipe(node[t])) = 0
  /\ \A p \in made : Uses(p) > 0 => p \in pipes
  /\ \A p \in pipes : Uses(p) > 0 \/ \E t \in drop : Pipe(node[t]) = p
Live == LiveNodes /\ LivePipes

\* The inductive invariant of the lifetimes.
LiveInv == CountInv /\ Live

\* The 8-bit count of a pipe cannot wrap.
NoWrap == 4 * (Cardinality(Tasks) * MaxFds) + 2 < RefMod

\* The numbers of a node when its lifetime is right.
LEMMA LiveNumbers ==
  ASSUME LiveInv, NEW n \in Nodes
  PROVE  /\ Opens(n) \in Nat /\ Opens(n) <= Slots(n) /\ Slots(n) \in Nat /\ refs[n] \in Int
         /\ Use(n) \in Nat /\ Use(n) = Opens(n) + Cardinality(InClose(n))
         /\ (Use(n) = 0 <=> Opens(n) = 0 /\ InClose(n) = {})
         /\ (Opens(n) = 0 <=> Slots(n) = 0)
         /\ Cardinality(Opening(n)) \in Nat /\ (Cardinality(Opening(n)) = 0 <=> Opening(n) = {})
<1>t. CountTypes /\ CountsAgree
  BY DEF LiveInv, CountInv, OwnInv, Basic, Types
<1>1. /\ refs[n] \in Int /\ bare[n] \in Nat /\ Slots(n) \in Nat
      /\ Cardinality(Opening(n)) \in Nat /\ Cardinality(InClose(n)) \in Nat
  BY <1>t, Numbers
<1>2. refs[n] + bare[n] = Slots(n) + Cardinality(Opening(n))
  BY <1>t DEF CountsAgree
<1>3. Opens(n) >= 0 /\ (Slots(n) > 0 => Opens(n) > 0)
  BY DEF LiveInv, Live, LiveNodes
<1>4. Opens(n) \in Nat /\ Opens(n) <= Slots(n) /\ Use(n) = Opens(n) + Cardinality(InClose(n))
  BY <1>1, <1>2, <1>3 DEF Opens, Use
<1>5. /\ Cardinality(InClose(n)) = 0 <=> InClose(n) = {}
      /\ Cardinality(Opening(n)) = 0 <=> Opening(n) = {}
  BY BusyFinite, FS_EmptySet
<1> QED
  BY <1>1, <1>3, <1>4, <1>5

\* The uses of a pipe are those of its ends, and fit the 8-bit count.
LEMMA LiveUses ==
  ASSUME LiveInv, NEW p \in Pipes
  PROVE  /\ Uses(p) \in Nat /\ <<p, "r">> \in Nodes /\ <<p, "w">> \in Nodes
         /\ Uses(p) = Use(<<p, "r">>) + Use(<<p, "w">>)
         /\ (Uses(p) = 0 <=> Use(<<p, "r">>) = 0 /\ Use(<<p, "w">>) = 0)
         /\ NoWrap => Uses(p) < RefMod
<1>1. <<p, "r">> \in Nodes /\ <<p, "w">> \in Nodes
  BY NodeParts
<1>2. ASSUME NEW n \in Nodes
      PROVE  Use(n) \in Nat /\ Use(n) <= 2 * (Cardinality(Tasks) * MaxFds) + 1
  <2>1. Opens(n) \in Nat /\ Opens(n) <= Slots(n) /\ Use(n) = Opens(n) + Cardinality(InClose(n))
    BY LiveNumbers
  <2>2. Cardinality(InClose(n)) \in Nat /\ Cardinality(InClose(n)) <= 1
    <3>1. CASE InClose(n) = {}
      BY <3>1, FS_EmptySet
    <3>2. CASE InClose(n) # {}
      <4>1. PICK t : t \in InClose(n)
        BY <3>2
      <4>2. InClose(n) = {t}
        BY <4>1 DEF LiveInv, Live, LiveNodes, InClose
      <4>3. Cardinality({t}) = 1
        BY FS_Singleton
      <4> QED
        BY <4>2, <4>3
    <3> QED
      BY <3>1, <3>2
  <2>3. /\ Held(fds, n) \in Nat /\ Held(fds, n) <= Cardinality(Tasks) * MaxFds
        /\ Held(todo, n) \in Nat /\ Held(todo, n) <= Cardinality(Tasks) * MaxFds
        /\ Slots(n) = Held(fds, n) + Held(todo, n)
    BY HeldNat, SlotsHeld
  <2>4. Cardinality(Tasks) * MaxFds \in Nat
    BY NodesFinite, FS_CardinalityType, Constants
  <2> QED
    BY <2>1, <2>2, <2>3, <2>4
<1>3. Cardinality(Tasks) * MaxFds \in Nat
  BY NodesFinite, FS_CardinalityType, Constants
<1> QED
  BY <1>1, <1>2, <1>3, Constants DEF Uses, NoWrap

\* A task's descriptor is among the node's.
LEMMA Holding ==
  ASSUME OwnInv, NEW t \in Tasks, NEW n \in Nodes, fds[t][n] > 0 \/ todo[t][n] > 0
  PROVE  Slots(n) > 0
<1>1. /\ fds \in [Tasks -> [Nodes -> Nat]] /\ todo \in [Tasks -> [Nodes -> Nat]]
      /\ fds[t][n] <= MaxFds /\ todo[t][n] <= MaxFds
  BY DEF OwnInv, Basic, Types, TableTypes, Owners, Owner
<1>2. ASSUME NEW f \in [Tasks -> [Nodes -> Nat]], f[t][n] <= MaxFds, f[t][n] > 0
      PROVE  Held(f, n) > 0
  <2>1. Column(f, n) \in [Tasks -> Nat] /\ Column(f, n)[t] = f[t][n]
    BY DEF Column
  <2>2. Column(f, n)[t] <= Cardinality(Stack(Tasks, Column(f, n)))
    BY <2>1, <1>2, NodesFinite, StackPositive
  <2>3. f[t][n] <= Held(f, n) /\ Held(f, n) \in Nat /\ f[t][n] \in Nat
    BY <2>1, <2>2, HeldNat DEF Held
  <2> QED
    BY <2>3, <1>2
<1>3. Held(fds, n) \in Nat /\ Held(todo, n) \in Nat
  BY HeldNat
<1> QED
  BY <1>1, <1>2, <1>3, SlotsHeld

\* The first state: nothing exists.
LEMMA LiveInit == Init => Live
<1> SUFFICES ASSUME Init PROVE Live
  OBVIOUS
<1>1. CountInv
  BY CountInvInit
<1>2. TableTypes
  BY <1>1 DEF CountInv, OwnInv, Basic, Types
<1>3. ASSUME NEW n \in Nodes PROVE Slots(n) = 0 /\ Opens(n) = 0 /\ InClose(n) = {}
  <2>1. Slots(n) = 0
    <3>1. \A u \in Tasks : fds[u][n] = 0 /\ todo[u][n] = 0
      BY DEF Init
    <3> QED
      BY <3>1, <1>2, NoSlots
  <2>2. Opening(n) = {} /\ InClose(n) = {} /\ refs[n] = 0
    BY Constants DEF Init, Opening, InClose
  <2> QED
    BY <2>1, <2>2, FS_EmptySet DEF Opens
<1> QED
  BY <1>3 DEF Init, Live, LiveNodes, LivePipes

\* What Moves means for the opens of a node.
LEMMA OpensMove ==
  ASSUME LiveInv, NEW n \in Nodes, NEW s \in Int, NEW r \in Int, NEW b \in Int, NEW o \in Int, NEW c \in Int,
         Moves(n, s, r, b, o, c)
  PROVE  Opens(n)' = Opens(n) + (r - o) /\ Slots(n)' = Slots(n) + s
<1>1. refs[n] \in Int /\ Cardinality(Opening(n)) \in Nat
  BY LiveNumbers
<1> QED
  BY <1>1 DEF Moves, Opens

\* What Still means for the opens of a node.
LEMMA OpensStill ==
  ASSUME LiveInv, NEW n \in Nodes, Still(n)
  PROVE  Opens(n)' = Opens(n) /\ Slots(n)' = Slots(n) /\ Use(n)' = Use(n)
<1>1. /\ refs[n] \in Int /\ Cardinality(Opening(n)) \in Nat /\ Slots(n) \in Nat
      /\ Cardinality(InClose(n)) \in Nat
  BY LiveNumbers, BusyFinite
<1> QED
  BY <1>1 DEF Still, Moves, Opens, Use

\* The tasks about to delete something are where they were.
ClosersRest ==
  /\ UNCHANGED <<nodes, pipes, last, drop, made>>
  /\ \A u \in last \cup drop : op'[u] = op[u] /\ node'[u] = node[u]

\* A step that only adds to nodes with a descriptor.
Grows(n) ==
  /\ InClose(n)' = InClose(n) /\ Opens(n)' \in Nat /\ Slots(n)' \in Nat
  /\ Opens(n)' >= Opens(n) /\ Slots(n)' >= Slots(n)
  /\ Slots(n) = 0 => Slots(n)' = 0 /\ Opens(n)' = Opens(n)

\* Then the lifetimes stay right.
LEMMA LiveGrow ==
  ASSUME LiveInv, ClosersRest, \A n \in Nodes : Grows(n)
  PROVE  Live'
<1>p. \A u \in last \cup drop : u \in Tasks /\ node[u] \in Nodes
  BY DEF LiveInv, Live, LiveNodes, LivePipes, CountInv, OwnInv, Basic, Types, PlaceTypes, Placed, Closing
<1>n. \A n \in nodes : n \in Nodes
  BY DEF LiveInv, CountInv, OwnInv, Basic, Types, CountTypes
<1>1. \A n \in Nodes : /\ InClose(n)' = InClose(n) /\ Opens(n)' \in Nat /\ Slots(n)' \in Nat
                       /\ Opens(n)' >= Opens(n) /\ Slots(n)' >= Slots(n)
                       /\ (Slots(n) = 0 => Slots(n)' = 0 /\ Opens(n)' = Opens(n))
                       /\ Opens(n) \in Nat /\ Slots(n) \in Nat /\ (Opens(n) = 0 <=> Slots(n) = 0)
  BY LiveNumbers DEF Grows
<1>2. \A n \in Nodes : Opens(n)' >= 0 /\ (Slots(n)' > 0 => Opens(n)' > 0 /\ n \in nodes')
  BY <1>1 DEF LiveInv, Live, LiveNodes, ClosersRest
<1>3. /\ \A n \in Nodes, t, u \in Tasks : t \in InClose(n)' /\ u \in InClose(n)' => t = u
      /\ \A n \in Nodes : InClose(n)' # {} => n \in nodes'
  BY <1>1 DEF LiveInv, Live, LiveNodes, ClosersRest
<1>4. ASSUME NEW t \in last'
      PROVE  Closing(t)' /\ Slots(node[t])' = 0 /\ InClose(node[t])' \subseteq {t}
  <2>1. t \in last /\ op'[t] = op[t] /\ node'[t] = node[t] /\ node[t] \in Nodes
    BY <1>p DEF ClosersRest
  <2>2. PICK n \in Nodes : n = node[t]
    BY <2>1
  <2>3. Closing(t) /\ Slots(n) = 0 /\ InClose(n) \subseteq {t}
    BY <2>1, <2>2 DEF LiveInv, Live, LiveNodes
  <2>4. Slots(n)' = 0 /\ InClose(n)' \subseteq {t}
    BY <2>3, <1>1
  <2>5. Slots(node[t])' = Slots(n)' /\ InClose(node[t])' = InClose(n)'
    BY <2>1, <2>2 DEF Slots, InClose
  <2> QED
    BY <2>1, <2>3, <2>4, <2>5 DEF Closing
<1>5. ASSUME NEW n \in nodes'
      PROVE  Pipe(n) \in made' /\ (Slots(n)' > 0 \/ \E t \in last' : node'[t] = n)
  BY <1>1, <1>n DEF LiveInv, Live, LiveNodes, ClosersRest
<1>6. LiveNodes'
  BY <1>2, <1>3, <1>4, <1>5 DEF LiveNodes
<1>7. ASSUME NEW p \in Pipes
      PROVE  /\ Uses(p)' \in Nat /\ Uses(p) \in Nat
             /\ Uses(p)' >= Uses(p) /\ (Uses(p) = 0 => Uses(p)' = 0)
  <2>1. ASSUME NEW n \in Nodes
        PROVE  Use(n)' \in Nat /\ Use(n)' >= Use(n) /\ (Use(n) = 0 => Use(n)' = 0) /\ Use(n) \in Nat
    <3>1. Use(n) = Opens(n) + Cardinality(InClose(n)) /\ Cardinality(InClose(n)) \in Nat
          /\ (Use(n) = 0 => Opens(n) = 0)
      BY LiveNumbers, BusyFinite
    <3>3. Use(n)' = Opens(n)' + Cardinality(InClose(n)')
      BY DEF Use, Opens
    <3> QED
      BY <3>1, <3>3, <1>1
  <2> QED
    BY <2>1, NodeParts DEF Uses
<1>8. LivePipes'
  <2>1. ASSUME NEW t \in drop' PROVE op'[t] = "close_free" /\ Uses(Pipe(node[t]))' = 0
    <3>1. t \in drop /\ op'[t] = op[t] /\ node'[t] = node[t] /\ node[t] \in Nodes
      BY <1>p DEF ClosersRest
    <3>2. PICK p \in Pipes : p = Pipe(node[t])
      BY <3>1, NodeParts
    <3>3. op[t] = "close_free" /\ Uses(p) = 0
      BY <3>1, <3>2 DEF LiveInv, Live, LivePipes
    <3>4. Pipe(node[t])' = p
      BY <3>1, <3>2 DEF Pipe
    <3>5. Uses(Pipe(node[t]))' = Uses(p)'
      BY <3>4 DEF Uses, Use, Opening, InClose
    <3> QED
      BY <3>1, <3>3, <3>5, <1>7
  <2>2. made' = made /\ pipes' = pipes /\ made \subseteq Pipes /\ pipes \subseteq Pipes
    BY DEF ClosersRest, LiveInv, CountInv, OwnInv, Basic, Types, CountTypes
  <2>3. ASSUME NEW p \in made' PROVE Uses(p)' > 0 => p \in pipes'
    BY <2>2, <1>7 DEF LiveInv, Live, LivePipes
  <2>4. ASSUME NEW p \in pipes' PROVE Uses(p)' > 0 \/ \E t \in drop' : Pipe(node'[t]) = p
    BY <2>2, <1>7 DEF LiveInv, Live, LivePipes, ClosersRest
  <2> QED
    BY <2>1, <2>3, <2>4 DEF LivePipes
<1> QED
  BY <1>6, <1>8 DEF Live

\* What makes a node grow.
LEMMA GrowIf ==
  ASSUME LiveInv, NEW n \in Nodes, InClose(n)' = InClose(n),
         NEW s \in Nat, NEW d \in Nat, Slots(n)' = Slots(n) + s, Opens(n)' = Opens(n) + d,
         s + d > 0 => Slots(n) > 0
  PROVE  Grows(n)
<1>1. Opens(n) \in Nat /\ Slots(n) \in Nat
  BY LiveNumbers
<1> QED
  BY <1>1 DEF Grows

\* The steps of that kind.
GrowSteps(t) ==
  \/ Dup(t) \/ Dup2Open(t) \/ Execve(t) \/ ForkOpen(t) \/ ForkCount(t)
  \/ (Quiet(t) /\ ~CloseFree(t))

\* They leave the tasks in close() alone.
LEMMA ClosersWait ==
  ASSUME LiveInv, NEW t \in Tasks, GrowSteps(t)
  PROVE  ClosersRest
<1>t. PlaceTypes /\ Placed
  BY DEF LiveInv, CountInv, OwnInv, Basic, Types
<1>1. \A u \in last \cup drop : u \in Tasks /\ Closing(u)
  BY <1>t DEF LiveInv, Live, LiveNodes, LivePipes, PlaceTypes, Closing
<1>2. UNCHANGED <<nodes, pipes, last, drop, made>>
  BY DEF GrowSteps, Quiet, Dup, Dup2Open, Execve, ForkOpen, ForkCount, Fork, ForkReady, Exit,
         ExitDone, ReadCall, ReadWake, ReadCopy, WriteCall, WriteChunk, vnode, ends, close
<1>3. CASE AloneSteps(t)
  <2>1. ~Closing(t)
    BY DEF GrowSteps, Quiet, Dup, Dup2Open, Execve, ForkOpen, ForkCount, Fork, ForkReady, Exit, In,
         ExitDone, ReadCall, ReadWake, ReadCopy, WriteCall, WriteChunk, Closing
  <2>2. Alone(t)
    BY <1>3, AloneStep DEF LiveInv, CountInv, OwnInv
  <2> QED
    BY <1>1, <1>2, <2>1, <2>2 DEF Alone, Rests, ClosersRest
<1>4. CASE Fork(t)
  <2>1. \A u \in Tasks : Closing(u) => op'[u] = op[u] /\ node'[u] = node[u]
    BY <1>4, <1>t DEF Fork, In, Closing, PlaceTypes
  <2> QED
    BY <1>1, <1>2, <2>1 DEF ClosersRest
<1>5. CASE ForkOpen(t)
  <2>1. \A u \in Tasks : Closing(u) => op'[u] = op[u] /\ node'[u] = node[u]
    BY <1>5, <1>t DEF ForkOpen, Goes, Closing, PlaceTypes
  <2> QED
    BY <1>1, <1>2, <2>1 DEF ClosersRest
<1>6. CASE ForkCount(t)
  <2>1. \A u \in Tasks : Closing(u) => op'[u] = op[u] /\ node'[u] = node[u]
    BY <1>6, <1>t DEF ForkCount, Goes, Leaves, Closing, PlaceTypes
  <2> QED
    BY <1>1, <1>2, <2>1 DEF ClosersRest
<1>7. CASE ForkReady(t)
  <2>1. op[t] = "fork_open" /\ child[t] \in Tasks /\ op[child[t]] = "new"
    BY <1>7, Parent DEF ForkReady, Forking, LiveInv, CountInv
  <2>2. \A u \in Tasks : Closing(u) => op'[u] = op[u] /\ node'[u] = node[u]
    BY <1>7, <2>1, <1>t DEF ForkReady, Closing, PlaceTypes
  <2> QED
    BY <1>1, <1>2, <2>2 DEF ClosersRest
<1>8. CASE Execve(t)
  <2>1. \A u \in Tasks : Closing(u) => op'[u] = op[u] /\ node'[u] = node[u]
    BY <1>8, <1>t DEF Execve, In, Closing, PlaceTypes
  <2> QED
    BY <1>1, <1>2, <2>1 DEF ClosersRest
<1> QED
  BY <1>3, <1>4, <1>5, <1>6, <1>7, <1>8 DEF GrowSteps, Quiet, AloneSteps

\* The lifetimes stay right in all of them.
LEMMA GrowStep ==
  ASSUME LiveInv, NEW t \in Tasks, GrowSteps(t), Step(t) \/ Call(t)
  PROVE  Live'
<1>o. OwnInv /\ PlaceTypes /\ Placed
  BY DEF LiveInv, CountInv, OwnInv, Basic, Types
<1>s. ASSUME NEW n \in Nodes, Still(n), InClose(n)' = InClose(n) PROVE Grows(n)
  <2>1. Opens(n)' = Opens(n) + 0 /\ Slots(n)' = Slots(n) + 0
    BY <1>s, OpensStill, LiveNumbers
  <2> QED
    BY <1>s, <2>1, GrowIf
<1>1. CASE Quiet(t)
  BY <1>1, <1>o, <1>s, QuietEffect, ClosersWait, LiveGrow DEF BusySame
<1>2. CASE Dup(t) \/ Dup2Open(t)
  <2>1. PICK n \in Nodes : Duplicate(t, n) /\ fds[t][n] > 0
    BY <1>2, <1>o DEF Dup, Dup2Open, Placed, OwnInv, Owners, Owner, Dup2ing
  <2>2. Moves(n, 1, 0, 1, 0, 0) /\ OnlyAt(n)
    BY <1>2, <1>o, <2>1, DupEffect
  <2>3. \A m \in Nodes : InClose(m)' = InClose(m)
    BY <1>2, <1>o DEF Dup, Dup2Open, In, Goes, place, PlaceTypes, InClose
  <2>4. Slots(n)' = Slots(n) + 1 /\ Opens(n)' = Opens(n) + (0 - 0)
    BY <2>2, OpensMove
  <2>5. Opens(n)' = Opens(n) + 0 /\ Slots(n) > 0
    BY <2>1, <2>4, <1>o, Holding
  <2>6. Grows(n)
    BY <2>3, <2>4, <2>5, GrowIf
  <2>7. \A m \in Nodes : Grows(m)
    BY <2>2, <2>3, <2>6, <1>s DEF OnlyAt
  <2> QED
    BY <2>7, ClosersWait, LiveGrow
<1>3. CASE Execve(t)
  <2>1. PICK kept \in [Nodes -> Nat] : \A n \in Nodes :
          kept[n] <= fds[t][n] /\ Moves(n, kept[n], 0, kept[n], 0, 0)
    BY <1>3, <1>o, ExecveEffect
  <2>2. ASSUME NEW n \in Nodes PROVE Grows(n)
    <3>1. kept[n] \in Nat /\ kept[n] <= fds[t][n] /\ Moves(n, kept[n], 0, kept[n], 0, 0)
          /\ fds[t][n] \in Nat
      BY <2>1, <1>o DEF OwnInv, Basic, Types, TableTypes
    <3>2. Slots(n)' = Slots(n) + kept[n] /\ Opens(n)' = Opens(n) + (0 - 0)
      BY <3>1, OpensMove
    <3>3. Opens(n)' = Opens(n) + 0
      BY <3>2
    <3>4. kept[n] + 0 > 0 => Slots(n) > 0
      BY <3>1, <1>o, Holding
    <3>5. InClose(n)' = InClose(n)
      BY <1>3, <1>o, ExecveEffect DEF BusySame
    <3> QED
      BY <3>1, <3>2, <3>3, <3>4, <3>5, GrowIf
  <2> QED
    BY <2>2, ClosersWait, LiveGrow
<1>4. CASE ForkOpen(t)
  <2>1. PICK n \in Nodes : /\ refs' = [refs EXCEPT ![n] = @ + 1] /\ node' = [node EXCEPT ![t] = n]
    BY <1>4 DEF ForkOpen
  <2>2. Moves(n, 0, 1, 0, 1, 0) /\ OnlyAt(n)
    BY <1>4, <1>o, <2>1, ForkOpenEffect DEF ForkOpen, Goes, table
  <2>3. \A m \in Nodes : InClose(m)' = InClose(m)
    BY <1>4, <1>o, <2>1 DEF ForkOpen, Goes, PlaceTypes, InClose
  <2>4. Slots(n)' = Slots(n) + 0 /\ Opens(n)' = Opens(n) + (1 - 1)
    BY <2>2, OpensMove
  <2>5. Opens(n)' = Opens(n) + 0
    BY <2>4
  <2>6. Grows(n)
    BY <2>3, <2>4, <2>5, GrowIf
  <2>7. \A m \in Nodes : Grows(m)
    BY <2>2, <2>3, <2>6, <1>s DEF OnlyAt
  <2> QED
    BY <2>7, ClosersWait, LiveGrow
<1>5. CASE ForkCount(t)
  <2>1. PICK n \in Nodes : n = node[t] /\ fds[t][n] > 0
    BY <1>5, <1>o DEF ForkCount, Placed, OwnInv, Owners, Owner
  <2>2. Moves(n, 1, 0, 0, -1, 0) /\ OnlyAt(n)
    BY <1>5, <1>o, <2>1, ForkCountEffect
  <2>3. \A m \in Nodes : InClose(m)' = InClose(m)
    BY <1>5, <1>o DEF ForkCount, Goes, Leaves, PlaceTypes, InClose
  <2>4. Slots(n)' = Slots(n) + 1 /\ Opens(n)' = Opens(n) + (0 - -1)
    BY <2>2, OpensMove
  <2>5. Opens(n)' = Opens(n) + 1 /\ Slots(n) > 0
    BY <2>1, <2>4, <1>o, Holding
  <2>6. Grows(n)
    BY <2>3, <2>4, <2>5, GrowIf
  <2>7. \A m \in Nodes : Grows(m)
    BY <2>2, <2>3, <2>6, <1>s DEF OnlyAt
  <2> QED
    BY <2>7, ClosersWait, LiveGrow
<1> QED
  BY <1>1, <1>2, <1>3, <1>4, <1>5 DEF GrowSteps

\* Holding as a formula, before a step ...
LEMMA HoldingAll ==
  \A u \in Tasks, n \in Nodes : OwnInv /\ fds[u][n] > 0 => Slots(n) > 0
BY Holding

\* ... and after it.
LEMMA HoldingNext ==
  \A u \in Tasks, n \in Nodes : OwnInv' /\ fds'[u][n] > 0 => Slots(n)' > 0
<1>1. (\A u \in Tasks, n \in Nodes : OwnInv /\ fds[u][n] > 0 => Slots(n) > 0)'
  BY HoldingAll, PTL
<1> QED
  BY <1>1

\* The uses of a pipe are those of its ends.
LEMMA UsesStill ==
  ASSUME LiveInv, NEW p \in Pipes,
         Use(<<p, "r">>)' = Use(<<p, "r">>), Use(<<p, "w">>)' = Use(<<p, "w">>)
  PROVE  Uses(p)' = Uses(p)
BY DEF Uses

\* The tasks about to delete something are inside close().
LEMMA Deleters ==
  ASSUME LiveInv, NEW u \in last \cup drop
  PROVE  /\ u \in Tasks /\ Closing(u) /\ node[u] \in Nodes
         /\ Pipe(node[u]) \in Pipes /\ Pipe(node[u]) \in made
<1>t. PlaceTypes /\ Placed /\ Made
  BY DEF LiveInv, CountInv, OwnInv, Basic, Types
<1>1. u \in Tasks /\ Closing(u)
  BY <1>t DEF LiveInv, Live, LiveNodes, LivePipes, PlaceTypes, Closing
<1>2. node[u] \in Nodes
  BY <1>1, <1>t DEF Placed
<1> QED
  BY <1>1, <1>2, <1>t, NodeParts DEF Made

\* A new pipe is used at both ends.
LEMMA PipeLive ==
  ASSUME LiveInv, NEW t \in Tasks, PipeCall(t)
  PROVE  Live'
<1>o. OwnInv /\ CountTypes /\ Made
  BY DEF LiveInv, CountInv, OwnInv, Basic, Types
<1>1. PICK p \in Pipes \ made :
        /\ made' = made \cup {p} /\ pipes' = pipes \cup {p} /\ cnt' = [cnt EXCEPT ![p] = 2]
        /\ nodes' = nodes \cup {<<p, "r">>, <<p, "w">>}
        /\ refs' = [refs EXCEPT ![<<p, "r">>] = 1, ![<<p, "w">>] = 1]
        /\ fds' = OpenNode(OpenNode(fds, t, <<p, "r">>), t, <<p, "w">>)
  BY DEF PipeCall
<1>2. UNCHANGED <<op, node, last, drop>>
  BY DEF PipeCall, place, close
<1>3. \A m : InClose(m)' = InClose(m) /\ Opening(m)' = Opening(m)
  BY <1>2 DEF InClose, Opening
<1>4. /\ Fresh(<<p, "r">>) /\ Fresh(<<p, "w">>)
      /\ \A m \in Nodes \ {<<p, "r">>, <<p, "w">>} : Still(m)
  BY <1>o, <1>1, PipeEffect
<1>n. <<p, "r">> \in Nodes /\ <<p, "w">> \in Nodes /\ Pipe(<<p, "r">>) = p /\ Pipe(<<p, "w">>) = p
  BY NodeParts
<1>5. ASSUME NEW n \in {<<p, "r">>, <<p, "w">>}
      PROVE  Opens(n)' = 1 /\ Slots(n)' = 1 /\ Use(n)' = 1 /\ InClose(n) = {}
  <2>1. Fresh(n)
    BY <1>4
  <2>2. Cardinality({}) = 0
    BY FS_EmptySet
  <2>3. refs'[n] = 1 /\ Opening(n)' = {} /\ InClose(n)' = {} /\ InClose(n) = {} /\ Slots(n)' = 1
    BY <2>1 DEF Fresh
  <2>4. Opens(n)' = refs'[n] - Cardinality(Opening(n)') /\ Use(n)' = Opens(n)' + Cardinality(InClose(n)')
    BY DEF Opens, Use
  <2> QED
    BY <2>2, <2>3, <2>4
<1>6. ASSUME NEW m \in Nodes \ {<<p, "r">>, <<p, "w">>}
      PROVE  Opens(m)' = Opens(m) /\ Slots(m)' = Slots(m) /\ Use(m)' = Use(m)
  BY <1>4, OpensStill
<1>7. ASSUME NEW u \in last \cup drop
      PROVE  /\ u \in Tasks /\ Closing(u) /\ Pipe(node[u]) \in Pipes \ {p}
             /\ node[u] \in Nodes \ {<<p, "r">>, <<p, "w">>}
  BY <1>n, Deleters
<1>8. LiveNodes'
  <2>1. \A n \in Nodes : Opens(n)' >= 0 /\ (Slots(n)' > 0 => Opens(n)' > 0 /\ n \in nodes')
    BY <1>1, <1>5, <1>6 DEF LiveInv, Live, LiveNodes
  <2>2. /\ \A n \in Nodes, x, u \in Tasks : x \in InClose(n)' /\ u \in InClose(n)' => x = u
        /\ \A n \in Nodes : InClose(n)' # {} => n \in nodes'
    BY <1>1, <1>3 DEF LiveInv, Live, LiveNodes
  <2>3. ASSUME NEW u \in last'
        PROVE  Closing(u)' /\ Slots(node[u])' = 0 /\ InClose(node[u])' \subseteq {u}
    <3>1. u \in last /\ node[u] \in Nodes \ {<<p, "r">>, <<p, "w">>}
      BY <1>2, <1>7
    <3>2. PICK m \in Nodes \ {<<p, "r">>, <<p, "w">>} : m = node[u]
      BY <3>1
    <3>3. Closing(u) /\ Slots(m) = 0 /\ InClose(m) \subseteq {u}
      BY <3>1, <3>2 DEF LiveInv, Live, LiveNodes
    <3>4. Slots(m)' = 0 /\ InClose(m)' \subseteq {u}
      BY <3>3, <1>3, <1>6
    <3>5. Slots(node[u])' = Slots(m)' /\ InClose(node[u])' = InClose(m)'
      BY <3>2, <1>2 DEF Slots, InClose
    <3> QED
      BY <3>3, <3>4, <3>5, <1>2 DEF Closing
  <2>4. ASSUME NEW n \in nodes'
        PROVE  Pipe(n) \in made' /\ (Slots(n)' > 0 \/ \E u \in last' : node'[u] = n)
    <3>1. CASE n \in {<<p, "r">>, <<p, "w">>}
      BY <3>1, <1>n, <1>1, <1>5
    <3>2. CASE n \notin {<<p, "r">>, <<p, "w">>}
      <4>1. n \in nodes /\ n \in Nodes
        BY <3>2, <1>1, <1>o DEF CountTypes
      <4>2. Pipe(n) \in made /\ (Slots(n) > 0 \/ \E u \in last : node[u] = n)
        BY <4>1 DEF LiveInv, Live, LiveNodes
      <4> QED
        BY <3>2, <4>1, <4>2, <1>1, <1>2, <1>6
    <3> QED
      BY <3>1, <3>2
  <2> QED
    BY <2>1, <2>2, <2>3, <2>4 DEF LiveNodes
<1>9. LivePipes'
  <2>1. Uses(p)' = 2
    BY <1>5 DEF Uses
  <2>2. ASSUME NEW q \in Pipes \ {p} PROVE Uses(q)' = Uses(q)
    <3>1. <<q, "r">> \in Nodes \ {<<p, "r">>, <<p, "w">>} /\ <<q, "w">> \in Nodes \ {<<p, "r">>, <<p, "w">>}
      BY NodeParts
    <3> QED
      BY <3>1, <1>6, UsesStill
  <2>3. ASSUME NEW u \in drop' PROVE op'[u] = "close_free" /\ Uses(Pipe(node[u]))' = 0
    <3>1. u \in drop /\ Pipe(node[u]) \in Pipes \ {p}
      BY <1>2, <1>7
    <3>2. PICK q \in Pipes \ {p} : q = Pipe(node[u])
      BY <3>1
    <3>3. op[u] = "close_free" /\ Uses(q) = 0
      BY <3>1, <3>2 DEF LiveInv, Live, LivePipes
    <3>4. Pipe(node[u])' = q
      BY <3>2, <1>2 DEF Pipe
    <3>5. Uses(Pipe(node[u]))' = Uses(q)'
      BY <3>4 DEF Uses, Use, Opening, InClose
    <3> QED
      BY <3>3, <3>5, <2>2, <1>2
  <2>4. ASSUME NEW q \in made' PROVE Uses(q)' > 0 => q \in pipes'
    BY <2>2, <1>1, <1>o DEF LiveInv, Live, LivePipes, CountTypes
  <2>5. ASSUME NEW q \in pipes' PROVE Uses(q)' > 0 \/ \E u \in drop' : Pipe(node'[u]) = q
    BY <2>1, <2>2, <1>1, <1>2, <1>o DEF LiveInv, Live, LivePipes, CountTypes
  <2> QED
    BY <2>3, <2>4, <2>5 DEF LivePipes
<1> QED
  BY <1>8, <1>9 DEF Live

\* A close() begins: the task that takes the last open of a node, and only
\* that task, will delete it.
LEMMA CloseLive ==
  ASSUME LiveInv, Faults = {}, NEW t \in Tasks, Step(t) \/ Call(t), NEW n \in Nodes,
         NEW then \in {"user", "dup2", "exit"}, CloseBegin(t, n, then), Closes(t, n)
  PROVE  Live'
<1>o. OwnInv /\ CountTypes /\ PlaceTypes /\ OwnInv'
  BY OwnInvNext DEF LiveInv, CountInv, OwnInv, Basic, Types, Next
<1>1. /\ Moves(n, -1, -1, 0, 0, 1) /\ OnlyAt(n)
      /\ op' = [op EXCEPT ![t] = "close_end"] /\ node' = [node EXCEPT ![t] = n]
  BY <1>o, CloseEffect
<1>2. op[t] \in {"user", "exit"} /\ (fds[t][n] > 0 \/ todo[t][n] > 0)
  BY DEF Closes
<1>3. /\ op'[t] = "close_end" /\ node'[t] = n
      /\ \A u \in Tasks \ {t} : op'[u] = op[u] /\ node'[u] = node[u]
  BY <1>1, <1>o DEF PlaceTypes
<1>4. /\ ~(Opens(n) = 1 /\ Slots(n) > 1) /\ InClose(n) = {}
      /\ last' = IF refs[n] = 1 THEN last \cup {t} ELSE last \ {t}
      /\ UNCHANGED <<drop, nodes, made, pipes>>
  BY DEF CloseBegin, Opens, ends
<1>5. \A u \in last \cup drop : u \in Tasks \ {t} /\ Closing(u) /\ node[u] \in Nodes /\ Pipe(node[u]) \in Pipes
  BY <1>2, Deleters DEF Closing
<1>6. Slots(n) > 0
  BY <1>o, <1>2, Holding
<1>7. /\ Opens(n) > 0 /\ n \in nodes /\ Opens(n) \in Nat /\ Slots(n) \in Nat /\ Opens(n) <= Slots(n)
      /\ refs[n] = Opens(n) + Cardinality(Opening(n)) /\ Cardinality(Opening(n)) \in Nat
      /\ (Cardinality(Opening(n)) = 0 <=> Opening(n) = {})
  <2>1. /\ refs[n] \in Int /\ Cardinality(Opening(n)) \in Nat /\ Opens(n) \in Nat /\ Slots(n) \in Nat
        /\ Opens(n) <= Slots(n) /\ (Cardinality(Opening(n)) = 0 <=> Opening(n) = {})
    BY LiveNumbers
  <2>2. Opens(n) > 0 /\ n \in nodes
    BY <1>6 DEF LiveInv, Live, LiveNodes
  <2>3. refs[n] = Opens(n) + Cardinality(Opening(n))
    BY <2>1 DEF Opens
  <2> QED
    BY <2>1, <2>2, <2>3
<1>8. InClose(n)' = {t} /\ \A m \in Nodes \ {n} : InClose(m)' = InClose(m)
  BY <1>2, <1>3, <1>4 DEF InClose
<1>9. Opens(n)' = Opens(n) - 1 /\ Slots(n)' = Slots(n) - 1
  <2>1. Opens(n)' = Opens(n) + (-1 - 0) /\ Slots(n)' = Slots(n) + -1
    BY <1>1, OpensMove
  <2> QED
    BY <2>1, <1>7
<1>10. Use(n)' = Use(n)
  <2>1. Use(n)' = Use(n) + ((-1 - 0) + 1)
    BY <1>1, <1>o, MovesAgree
  <2>2. Use(n) \in Int
    BY <1>o, Numbers
  <2> QED
    BY <2>1, <2>2
<1>11. ASSUME NEW m \in Nodes \ {n}
       PROVE  Opens(m)' = Opens(m) /\ Slots(m)' = Slots(m) /\ Use(m)' = Use(m)
  BY <1>1, OpensStill DEF OnlyAt
<1>12. refs[n] = 1 <=> Slots(n)' = 0
  <2>1. CASE refs[n] = 1
    BY <2>1, <1>4, <1>7, <1>9
  <2>2. ASSUME Slots(n)' = 0 PROVE refs[n] = 1
    <3>1. Opens(n) = 1
      BY <2>2, <1>7, <1>9
    <3>2. ASSUME NEW u \in Opening(n) PROVE FALSE
      <4>1. u \in Tasks \ {t} /\ op[u] = "fork_count" /\ node[u] = n
        BY <1>2 DEF Opening
      <4>2. fds'[u][n] > 0
        BY <4>1, <1>3, <1>o DEF OwnInv, Owners, Owner
      <4>3. Slots(n)' > 0
        BY <4>1, <4>2, <1>o, HoldingNext
      <4> QED
        BY <4>3, <2>2
    <3> QED
      BY <3>1, <3>2, <1>7
  <2> QED
    BY <2>1, <2>2
<1>13. LiveNodes'
  <2>1. \A m \in Nodes : Opens(m)' >= 0 /\ (Slots(m)' > 0 => Opens(m)' > 0 /\ m \in nodes')
    <3>1. Opens(n)' >= 0 /\ (Slots(n)' > 0 => Opens(n)' > 0 /\ n \in nodes')
      BY <1>4, <1>7, <1>9
    <3> QED
      BY <3>1, <1>4, <1>11 DEF LiveInv, Live, LiveNodes
  <2>2. /\ \A m \in Nodes, x, u \in Tasks : x \in InClose(m)' /\ u \in InClose(m)' => x = u
        /\ \A m \in Nodes : InClose(m)' # {} => m \in nodes'
    BY <1>4, <1>7, <1>8 DEF LiveInv, Live, LiveNodes
  <2>3. ASSUME NEW u \in last'
        PROVE  Closing(u)' /\ Slots(node[u])' = 0 /\ InClose(node[u])' \subseteq {u}
    <3>1. CASE u = t
      <4>1. Slots(n)' = 0
        BY <3>1, <1>4, <1>5, <1>12
      <4>2. Slots(node[u])' = Slots(n)' /\ InClose(node[u])' = InClose(n)'
        BY <3>1, <1>3 DEF Slots, InClose
      <4> QED
        BY <4>1, <4>2, <3>1, <1>3, <1>8 DEF Closing
    <3>2. CASE u # t
      <4>1. u \in last /\ node[u] \in Nodes /\ u \in Tasks \ {t}
        BY <3>2, <1>4, <1>5
      <4>2. PICK m \in Nodes : m = node[u]
        BY <4>1
      <4>3. Closing(u) /\ Slots(m) = 0 /\ InClose(m) \subseteq {u}
        BY <4>1, <4>2 DEF LiveInv, Live, LiveNodes
      <4>4. m # n
        BY <4>3, <1>6
      <4>5. Slots(m)' = 0 /\ InClose(m)' \subseteq {u}
        BY <4>3, <4>4, <1>8, <1>11
      <4>6. Slots(node[u])' = Slots(m)' /\ InClose(node[u])' = InClose(m)'
        BY <4>1, <4>2, <1>3 DEF Slots, InClose
      <4> QED
        BY <4>1, <4>3, <4>5, <4>6, <1>3 DEF Closing
    <3> QED
      BY <3>1, <3>2
  <2>4. ASSUME NEW m \in nodes'
        PROVE  Pipe(m) \in made' /\ (Slots(m)' > 0 \/ \E u \in last' : node'[u] = m)
    <3>1. m \in nodes /\ m \in Nodes /\ Pipe(m) \in made'
      BY <1>4, <1>o DEF CountTypes, LiveInv, Live, LiveNodes
    <3>2. CASE m = n
      <4>1. Slots(n)' > 0 \/ Slots(n)' = 0
        BY <1>6, <1>7, <1>9
      <4>2. Slots(n)' = 0 => t \in last'
        BY <1>4, <1>12
      <4> QED
        BY <3>1, <3>2, <4>1, <4>2, <1>3
    <3>3. CASE m # n
      <4>1. Slots(m) > 0 \/ \E u \in last : node[u] = m
        BY <3>1 DEF LiveInv, Live, LiveNodes
      <4>2. \A u \in last : u \in last' /\ node'[u] = node[u]
        BY <1>3, <1>4, <1>5
      <4> QED
        BY <3>1, <3>3, <4>1, <4>2, <1>11
    <3> QED
      BY <3>2, <3>3
  <2> QED
    BY <2>1, <2>2, <2>3, <2>4 DEF LiveNodes
<1>14. LivePipes'
  <2>1. ASSUME NEW q \in Pipes PROVE Uses(q)' = Uses(q)
    BY <1>10, <1>11, NodeParts, UsesStill
  <2>2. ASSUME NEW u \in drop' PROVE op'[u] = "close_free" /\ Uses(Pipe(node[u]))' = 0
    <3>1. u \in drop /\ u \in Tasks \ {t} /\ Pipe(node[u]) \in Pipes
      BY <1>4, <1>5
    <3>2. PICK q \in Pipes : q = Pipe(node[u])
      BY <3>1
    <3>3. op[u] = "close_free" /\ Uses(q) = 0
      BY <3>1, <3>2 DEF LiveInv, Live, LivePipes
    <3>4. Pipe(node[u])' = q
      BY <3>1, <3>2, <1>3 DEF Pipe
    <3>5. Uses(Pipe(node[u]))' = Uses(q)'
      BY <3>4 DEF Uses, Use, Opening, InClose
    <3> QED
      BY <3>1, <3>3, <3>5, <2>1, <1>3
  <2>3. ASSUME NEW q \in made' PROVE Uses(q)' > 0 => q \in pipes'
    BY <2>1, <1>4, <1>o DEF LiveInv, Live, LivePipes, CountTypes
  <2>4. ASSUME NEW q \in pipes' PROVE Uses(q)' > 0 \/ \E u \in drop' : Pipe(node'[u]) = q
    <3>1. q \in pipes /\ q \in Pipes
      BY <1>4, <1>o DEF CountTypes
    <3>2. \A u \in drop : u \in drop' /\ node'[u] = node[u]
      BY <1>3, <1>4, <1>5
    <3>3. Uses(q) > 0 \/ \E u \in drop : Pipe(node[u]) = q
      BY <3>1 DEF LiveInv, Live, LivePipes
    <3> QED
      BY <3>1, <3>2, <3>3, <2>1
  <2> QED
    BY <2>2, <2>3, <2>4 DEF LivePipes
<1> QED
  BY <1>13, <1>14 DEF Live

\* v_close: the pipe's count is exact, so the last close sees it reach 0.
LEMMA EndLive ==
  ASSUME LiveInv, NoWrap, NEW t \in Tasks, CloseEnd(t)
  PROVE  Live'
<1>o. OwnInv /\ CountTypes /\ PlaceTypes /\ Placed /\ CountsAgree
  BY DEF LiveInv, CountInv, OwnInv, Basic, Types
<1>1. op[t] = "close_end" /\ node[t] \in Nodes
  BY <1>o DEF CloseEnd, Placed, Closing
<1>2. PICK n \in Nodes : n = node[t]
  BY <1>1
<1>3. PICK p \in Pipes : p = Pipe(n)
  BY NodeParts
<1>4. /\ Moves(n, 0, 0, 0, 0, -1) /\ OnlyAt(n)
      /\ cnt' = [cnt EXCEPT ![p] = (cnt[p] - 1) % RefMod]
  BY <1>o, <1>2, <1>3, EndEffect
<1>5. /\ op'[t] = "close_free" /\ \A u \in Tasks \ {t} : op'[u] = op[u]
      /\ UNCHANGED <<node, last, nodes, made, pipes>>
      /\ drop' = IF (cnt[p] - 1) % RefMod = 0 THEN drop \cup {t} ELSE drop \ {t}
  BY <1>2, <1>3, <1>o DEF CloseEnd, Goes, PlaceTypes, ShouldFree, vnode
<1>6. /\ t \in InClose(n) /\ n \in nodes /\ p \in made /\ t \notin drop
      /\ InClose(n)' = {} /\ \A m \in Nodes \ {n} : InClose(m)' = InClose(m)
  <2>1. t \in InClose(n)
    BY <1>1, <1>2 DEF InClose
  <2>2. n \in nodes /\ p \in made
    BY <2>1, <1>3 DEF LiveInv, Live, LiveNodes
  <2>3. \A u \in InClose(n) : u = t
    BY <2>1 DEF LiveInv, Live, LiveNodes, InClose
  <2>4. InClose(n)' = {}
    BY <2>3, <1>5 DEF InClose
  <2>5. \A m \in Nodes \ {n} : InClose(m)' = InClose(m)
    BY <1>1, <1>2, <1>5 DEF InClose
  <2>6. t \notin drop
    BY <1>1 DEF LiveInv, Live, LivePipes
  <2> QED
    BY <2>1, <2>2, <2>4, <2>5, <2>6
<1>7. \A u \in last \cup drop : u \in Tasks /\ node[u] \in Nodes /\ Pipe(node[u]) \in Pipes
  BY Deleters
<1>8. Opens(n)' = Opens(n) /\ Slots(n)' = Slots(n) /\ Use(n)' = Use(n) - 1 /\ Use(n) \in Nat /\ Use(n) > 0
  <2>1. Opens(n)' = Opens(n) + (0 - 0) /\ Slots(n)' = Slots(n) + 0
    BY <1>4, OpensMove
  <2>2. Use(n)' = Use(n) + ((0 - 0) + -1)
    BY <1>4, <1>o, MovesAgree
  <2>3. Opens(n) \in Nat /\ Slots(n) \in Nat /\ Use(n) \in Nat /\ (Use(n) = 0 => InClose(n) = {})
    BY LiveNumbers
  <2> QED
    BY <2>1, <2>2, <2>3, <1>6
<1>9. ASSUME NEW m \in Nodes \ {n}
      PROVE  Opens(m)' = Opens(m) /\ Slots(m)' = Slots(m) /\ Use(m)' = Use(m)
  BY <1>4, OpensStill DEF OnlyAt
<1>10. Uses(p)' = Uses(p) - 1 /\ Uses(p) \in Nat /\ Uses(p) > 0 /\ Uses(p) < RefMod
  <2>1. /\ Uses(p) \in Nat /\ Uses(p) = Use(<<p, "r">>) + Use(<<p, "w">>) /\ Uses(p) < RefMod
        /\ <<p, "r">> \in Nodes /\ <<p, "w">> \in Nodes
    BY LiveUses
  <2>2. Use(<<p, "r">>) \in Nat /\ Use(<<p, "w">>) \in Nat
    BY <2>1, LiveNumbers
  <2>3. Uses(p)' = Use(<<p, "r">>)' + Use(<<p, "w">>)'
    BY DEF Uses
  <2>4. n = <<p, "r">> \/ n = <<p, "w">>
    BY <1>3, NodeParts
  <2>5. CASE n = <<p, "r">>
    BY <2>1, <2>2, <2>3, <2>5, <1>8, <1>9
  <2>6. CASE n = <<p, "w">>
    BY <2>1, <2>2, <2>3, <2>6, <1>8, <1>9
  <2> QED
    BY <2>4, <2>5, <2>6
<1>11. (cnt[p] - 1) % RefMod = Uses(p)'
  <2>1. cnt[p] = Uses(p) % RefMod
    BY <1>o, AgreeParts DEF Agreed, AgreeOn
  <2>2. Uses(p) \in 0..(RefMod - 1) /\ Uses(p) - 1 \in 0..(RefMod - 1)
    BY <1>10, Constants
  <2>3. cnt[p] = Uses(p) /\ (Uses(p) - 1) % RefMod = Uses(p) - 1
    BY <2>1, <2>2, ModSmall
  <2> QED
    BY <2>3, <1>10
<1>12. ASSUME NEW q \in Pipes \ {p} PROVE Uses(q)' = Uses(q)
  <2>1. <<q, "r">> \in Nodes \ {n} /\ <<q, "w">> \in Nodes \ {n}
    BY <1>3, NodeParts
  <2> QED
    BY <2>1, <1>9, UsesStill
<1>13. LiveNodes'
  <2>1. \A m \in Nodes : Opens(m)' >= 0 /\ (Slots(m)' > 0 => Opens(m)' > 0 /\ m \in nodes')
    BY <1>5, <1>8, <1>9 DEF LiveInv, Live, LiveNodes
  <2>2. /\ \A m \in Nodes, x, u \in Tasks : x \in InClose(m)' /\ u \in InClose(m)' => x = u
        /\ \A m \in Nodes : InClose(m)' # {} => m \in nodes'
    BY <1>5, <1>6 DEF LiveInv, Live, LiveNodes
  <2>3. ASSUME NEW u \in last'
        PROVE  Closing(u)' /\ Slots(node[u])' = 0 /\ InClose(node[u])' \subseteq {u}
    <3>1. u \in last /\ node[u] \in Nodes /\ u \in Tasks
      BY <1>5, <1>7
    <3>2. PICK m \in Nodes : m = node[u]
      BY <3>1
    <3>3. Closing(u) /\ Slots(m) = 0 /\ InClose(m) \subseteq {u}
      BY <3>1, <3>2 DEF LiveInv, Live, LiveNodes
    <3>4. Slots(m)' = 0 /\ InClose(m)' \subseteq {u}
      BY <3>3, <1>6, <1>8, <1>9
    <3>5. Slots(node[u])' = Slots(m)' /\ InClose(node[u])' = InClose(m)'
      BY <3>2, <1>5 DEF Slots, InClose
    <3>6. Closing(u)'
      BY <3>1, <3>3, <1>5 DEF Closing
    <3> QED
      BY <3>4, <3>5, <3>6
  <2>4. ASSUME NEW m \in nodes'
        PROVE  Pipe(m) \in made' /\ (Slots(m)' > 0 \/ \E u \in last' : node'[u] = m)
    <3>1. m \in nodes /\ m \in Nodes
      BY <1>5, <1>o DEF CountTypes
    <3>2. Pipe(m) \in made /\ (Slots(m) > 0 \/ \E u \in last : node[u] = m)
      BY <3>1 DEF LiveInv, Live, LiveNodes
    <3> QED
      BY <3>1, <3>2, <1>5, <1>8, <1>9
  <2> QED
    BY <2>1, <2>2, <2>3, <2>4 DEF LiveNodes
<1>14. LivePipes'
  <2>0. drop' = IF Uses(p)' = 0 THEN drop \cup {t} ELSE drop
    BY <1>5, <1>6, <1>11
  <2>1. ASSUME NEW u \in drop' PROVE op'[u] = "close_free" /\ Uses(Pipe(node[u]))' = 0
    <3>1. CASE u = t
      <4>1. Uses(p)' = 0
        BY <3>1, <2>0, <1>6
      <4>2. Pipe(node[u])' = p
        BY <3>1, <1>2, <1>3, <1>5 DEF Pipe
      <4>3. Uses(Pipe(node[u]))' = Uses(p)'
        BY <4>2 DEF Uses, Use, Opening, InClose
      <4> QED
        BY <3>1, <4>1, <4>3, <1>5
    <3>2. CASE u # t
      <4>1. u \in drop /\ u \in Tasks \ {t} /\ Pipe(node[u]) \in Pipes
        BY <3>2, <2>0, <1>7
      <4>2. PICK q \in Pipes : q = Pipe(node[u])
        BY <4>1
      <4>3. op[u] = "close_free" /\ Uses(q) = 0
        BY <4>1, <4>2 DEF LiveInv, Live, LivePipes
      <4>4. q # p
        BY <4>3, <1>10
      <4>5. Pipe(node[u])' = q
        BY <4>2, <1>5 DEF Pipe
      <4>6. Uses(Pipe(node[u]))' = Uses(q)'
        BY <4>5 DEF Uses, Use, Opening, InClose
      <4> QED
        BY <4>1, <4>3, <4>4, <4>6, <1>5, <1>12
    <3> QED
      BY <3>1, <3>2
  <2>2. ASSUME NEW q \in made' PROVE Uses(q)' > 0 => q \in pipes'
    <3>1. q \in made /\ q \in Pipes
      BY <1>5, <1>o DEF CountTypes
    <3>2. Uses(q) > 0 => q \in pipes'
      BY <3>1, <1>5 DEF LiveInv, Live, LivePipes
    <3> QED
      BY <3>1, <3>2, <1>10, <1>12
  <2>3. ASSUME NEW q \in pipes' PROVE Uses(q)' > 0 \/ \E u \in drop' : Pipe(node'[u]) = q
    <3>1. q \in pipes /\ q \in Pipes
      BY <1>5, <1>o DEF CountTypes
    <3>2. CASE q = p
      <4>1. Uses(p)' > 0 \/ Uses(p)' = 0
        BY <1>10
      <4>2. Uses(p)' = 0 => t \in drop' /\ Pipe(node'[t]) = p
        BY <2>0, <1>2, <1>3, <1>5
      <4> QED
        BY <3>2, <4>1, <4>2
    <3>3. CASE q # p
      <4>1. Uses(q) > 0 \/ \E u \in drop : Pipe(node[u]) = q
        BY <3>1 DEF LiveInv, Live, LivePipes
      <4> QED
        BY <3>1, <3>3, <4>1, <2>0, <1>5, <1>12
    <3> QED
      BY <3>2, <3>3
  <2> QED
    BY <2>1, <2>2, <2>3 DEF LivePipes
<1> QED
  BY <1>13, <1>14 DEF Live

\* The node and the pipe go, and nobody has a use for them.
LEMMA FreeLive ==
  ASSUME LiveInv, NEW t \in Tasks, CloseFree(t)
  PROVE  Live'
<1>o. OwnInv /\ CountTypes /\ PlaceTypes /\ Placed
  BY DEF LiveInv, CountInv, OwnInv, Basic, Types
<1>1. op[t] = "close_free" /\ node[t] \in Nodes
  BY <1>o DEF CloseFree, Placed, Closing
<1>2. PICK n \in Nodes : n = node[t]
  BY <1>1
<1>3. PICK p \in Pipes : p = Pipe(n)
  BY NodeParts
<1>4. /\ nodes' = IF t \in last THEN nodes \ {n} ELSE nodes
      /\ pipes' = IF t \in drop THEN pipes \ {p} ELSE pipes
      /\ last' = last \ {t} /\ drop' = drop \ {t} /\ made' = made
      /\ \A u \in Tasks \ {t} : op'[u] = op[u] /\ node'[u] = node[u]
  BY <1>2, <1>3, <1>o DEF CloseFree, Goes, Leaves, PlaceTypes
<1>5. (\A m \in Nodes : Still(m)) /\ \A m \in Nodes : BusySame(m)
  BY <1>o, QuietEffect DEF Quiet
<1>6. ASSUME NEW m \in Nodes
      PROVE  /\ Opens(m)' = Opens(m) /\ Slots(m)' = Slots(m) /\ Use(m)' = Use(m)
             /\ InClose(m)' = InClose(m)
  BY <1>5, OpensStill DEF BusySame
<1>7. \A u \in last \cup drop : u \in Tasks /\ node[u] \in Nodes /\ Pipe(node[u]) \in Pipes
  BY Deleters
<1>8. t \in last => Slots(n) = 0 /\ InClose(n) = {}
  BY <1>1, <1>2 DEF LiveInv, Live, LiveNodes, InClose
<1>9. LiveNodes'
  <2>1. \A m \in Nodes : Opens(m)' >= 0 /\ (Slots(m)' > 0 => Opens(m)' > 0 /\ m \in nodes')
    BY <1>4, <1>6, <1>8 DEF LiveInv, Live, LiveNodes
  <2>2. /\ \A m \in Nodes, x, u \in Tasks : x \in InClose(m)' /\ u \in InClose(m)' => x = u
        /\ \A m \in Nodes : InClose(m)' # {} => m \in nodes'
    BY <1>4, <1>6, <1>8 DEF LiveInv, Live, LiveNodes
  <2>3. ASSUME NEW u \in last'
        PROVE  Closing(u)' /\ Slots(node[u])' = 0 /\ InClose(node[u])' \subseteq {u}
    <3>1. u \in last /\ node[u] \in Nodes /\ u \in Tasks \ {t}
      BY <1>4, <1>7
    <3>2. PICK m \in Nodes : m = node[u]
      BY <3>1
    <3>3. Closing(u) /\ Slots(m) = 0 /\ InClose(m) \subseteq {u}
      BY <3>1, <3>2 DEF LiveInv, Live, LiveNodes
    <3>4. Slots(m)' = 0 /\ InClose(m)' \subseteq {u}
      BY <3>3, <1>6
    <3>5. Slots(node[u])' = Slots(m)' /\ InClose(node[u])' = InClose(m)'
      BY <3>1, <3>2, <1>4 DEF Slots, InClose
    <3> QED
      BY <3>1, <3>3, <3>4, <3>5, <1>4 DEF Closing
  <2>4. ASSUME NEW m \in nodes'
        PROVE  Pipe(m) \in made' /\ (Slots(m)' > 0 \/ \E u \in last' : node'[u] = m)
    <3>1. m \in nodes /\ m \in Nodes /\ (t \in last => m # n)
      BY <1>4, <1>o DEF CountTypes
    <3>2. Pipe(m) \in made /\ (Slots(m) > 0 \/ \E u \in last : node[u] = m)
      BY <3>1 DEF LiveInv, Live, LiveNodes
    <3>3. ASSUME NEW u \in last, node[u] = m PROVE u \in last' /\ node'[u] = m
      BY <3>1, <3>3, <1>2, <1>4, <1>7
    <3> QED
      BY <3>1, <3>2, <3>3, <1>4, <1>6
  <2> QED
    BY <2>1, <2>2, <2>3, <2>4 DEF LiveNodes
<1>10. LivePipes'
  <2>1. ASSUME NEW q \in Pipes PROVE Uses(q)' = Uses(q)
    BY <1>6, NodeParts, UsesStill
  <2>2. ASSUME NEW u \in drop' PROVE op'[u] = "close_free" /\ Uses(Pipe(node[u]))' = 0
    <3>1. u \in drop /\ u \in Tasks \ {t} /\ Pipe(node[u]) \in Pipes
      BY <1>4, <1>7
    <3>2. PICK q \in Pipes : q = Pipe(node[u])
      BY <3>1
    <3>3. op[u] = "close_free" /\ Uses(q) = 0
      BY <3>1, <3>2 DEF LiveInv, Live, LivePipes
    <3>4. Pipe(node[u])' = q
      BY <3>1, <3>2, <1>4 DEF Pipe
    <3>5. Uses(Pipe(node[u]))' = Uses(q)'
      BY <3>4 DEF Uses, Use, Opening, InClose
    <3> QED
      BY <3>1, <3>3, <3>5, <2>1, <1>4
  <2>3. ASSUME NEW q \in made' PROVE Uses(q)' > 0 => q \in pipes'
    <3>1. q \in made /\ q \in Pipes
      BY <1>4, <1>o DEF CountTypes
    <3>2. Uses(q) > 0 => q \in pipes
      BY <3>1 DEF LiveInv, Live, LivePipes
    <3>3. t \in drop => Uses(p) = 0
      BY <1>2, <1>3 DEF LiveInv, Live, LivePipes
    <3> QED
      BY <3>1, <3>2, <3>3, <2>1, <1>4
  <2>4. ASSUME NEW q \in pipes' PROVE Uses(q)' > 0 \/ \E u \in drop' : Pipe(node'[u]) = q
    <3>1. q \in pipes /\ q \in Pipes /\ (t \in drop => q # p)
      BY <1>4, <1>o DEF CountTypes
    <3>2. Uses(q) > 0 \/ \E u \in drop : Pipe(node[u]) = q
      BY <3>1 DEF LiveInv, Live, LivePipes
    <3>3. ASSUME NEW u \in drop, Pipe(node[u]) = q PROVE u \in drop' /\ Pipe(node'[u]) = q
      BY <3>1, <3>3, <1>2, <1>3, <1>4, <1>7
    <3> QED
      BY <3>1, <3>2, <3>3, <2>1
  <2> QED
    BY <2>2, <2>3, <2>4 DEF LivePipes
<1> QED
  BY <1>9, <1>10 DEF Live

\* The lifetimes stay right.
LEMMA LiveInvNext ==
  ASSUME LiveInv, Faults = {}, NoWrap, [Next]_vars
  PROVE  LiveInv'
<1>o. OwnInv /\ CountInv'
  BY CountInvNext DEF LiveInv, CountInv
<1>1. ASSUME NEW t \in Tasks, Step(t) \/ Call(t) PROVE Live'
  <2>1. CASE GrowSteps(t)
    BY <1>1, <2>1, GrowStep
  <2>2. CASE CloseCall(t) \/ Dup2Close(t) \/ ExitClose(t)
    <3>1. PICK n \in Nodes, then \in {"user", "dup2", "exit"} : CloseBegin(t, n, then) /\ Closes(t, n)
      BY <1>o, <2>2, CloseSteps
    <3> QED
      BY <1>1, <3>1, CloseLive
  <2>3. CASE PipeCall(t)
    BY <2>3, PipeLive
  <2>4. CASE CloseEnd(t)
    BY <2>4, EndLive
  <2>5. CASE CloseFree(t)
    BY <2>5, FreeLive
  <2> QED
    BY <1>1, <2>1, <2>2, <2>3, <2>4, <2>5 DEF Step, Call, GrowSteps, Quiet
<1>2. CASE UNCHANGED vars
  <2>1. UNCHANGED <<fds, todo, op, node, refs, nodes, last, drop, made, pipes>>
    BY <1>2 DEF vars, table, place, close, vnode, ends
  <2>2. ASSUME NEW n \in Nodes PROVE Grows(n)
    <3>1. Slots(n)' = Slots(n) /\ Opens(n)' = Opens(n) /\ InClose(n)' = InClose(n)
      BY <2>1 DEF Slots, Opens, InClose, Opening
    <3>2. Slots(n)' = Slots(n) + 0 /\ Opens(n)' = Opens(n) + 0
      BY <3>1, LiveNumbers
    <3> QED
      BY <3>1, <3>2, GrowIf
  <2>3. Live'
    BY <2>1, <2>2, LiveGrow DEF ClosersRest
  <2> QED
    BY <2>3, <1>o DEF LiveInv
<1> QED
  BY <1>o, <1>1, <1>2 DEF LiveInv, Next

\* What is used exists.
LEMMA LiveInvUses == LiveInv => UsesAreLive
<1> SUFFICES ASSUME LiveInv PROVE UsesAreLive
  OBVIOUS
<1>o. OwnInv /\ Placed
  BY DEF LiveInv, CountInv, OwnInv, Basic
<1>1. \A n \in Nodes : Slots(n) > 0 => n \in nodes
  BY DEF LiveInv, Live, LiveNodes
<1>2. ASSUME NEW n \in Nodes, Slots(n) > 0 \/ InClose(n) # {}
      PROVE  n \in nodes /\ Pipe(n) \in pipes
  <2>1. n \in nodes /\ Pipe(n) \in made
    BY <1>2 DEF LiveInv, Live, LiveNodes
  <2>2. PICK p \in Pipes : p = Pipe(n)
    BY NodeParts
  <2>3. Use(n) # 0
    <3>1. /\ Use(n) = 0 => Opens(n) = 0 /\ InClose(n) = {}
          /\ Opens(n) = 0 => Slots(n) = 0
      BY LiveNumbers
    <3> QED
      BY <3>1, <1>2
  <2>4. Uses(p) # 0 /\ Uses(p) \in Nat
    <3>1. n = <<p, "r">> \/ n = <<p, "w">>
      BY <2>2, NodeParts
    <3>2. Uses(p) \in Nat /\ (Uses(p) = 0 => Use(<<p, "r">>) = 0 /\ Use(<<p, "w">>) = 0)
      BY LiveUses
    <3> QED
      BY <2>3, <3>1, <3>2
  <2>5. Uses(p) > 0 /\ p \in made
    BY <2>1, <2>2, <2>4
  <2>6. p \in pipes
    BY <2>5 DEF LiveInv, Live, LivePipes
  <2> QED
    BY <2>1, <2>2, <2>6
<1>3. ASSUME NEW t \in Tasks,
             op[t] \in {"close_end", "fork_count", "read_wait", "read_lock", "write"}
      PROVE  node[t] \in nodes /\ Pipe(node[t]) \in pipes
  <2>1. node[t] \in Nodes
    BY <1>3, <1>o DEF Placed, Closing, Copying
  <2>2. PICK n \in Nodes : n = node[t]
    BY <2>1
  <2>3. CASE op[t] = "close_end"
    <3>1. t \in InClose(n)
      BY <2>2, <2>3 DEF InClose
    <3> QED
      BY <3>1, <2>2, <1>2
  <2>4. CASE op[t] # "close_end"
    <3>1. fds[t][n] > 0
      BY <1>3, <2>2, <2>4, <1>o DEF OwnInv, Owners, Owner, Copying
    <3>2. Slots(n) > 0
      BY <3>1, <1>o, Holding
    <3> QED
      BY <3>2, <2>2, <1>2
  <2> QED
    BY <2>3, <2>4
<1> QED
  BY <1>1, <1>3 DEF UsesAreLive

\* What nobody uses is gone.
LEMMA LiveInvLeaks == LiveInv => NothingLeaks
<1> SUFFICES ASSUME LiveInv, NEW p \in made,
                    \A t \in Tasks : op[t] \notin {"close_end", "close_free", "fork_count"}
             PROVE  /\ \A e \in {"r", "w"} : Slots(<<p, e>>) = 0 => <<p, e>> \notin nodes
                    /\ Slots(<<p, "r">>) + Slots(<<p, "w">>) = 0 => p \notin pipes
  BY DEF NothingLeaks
<1>1. p \in Pipes /\ last = {} /\ drop = {} /\ \A n \in Nodes : InClose(n) = {}
  <2>1. p \in Pipes
    BY DEF LiveInv, CountInv, OwnInv, Basic, Types, CountTypes
  <2>2. \A u \in last \cup drop : FALSE
    BY Deleters DEF Closing
  <2> QED
    BY <2>1, <2>2 DEF InClose
<1>2. \A n \in nodes : Slots(n) > 0
  BY <1>1 DEF LiveInv, Live, LiveNodes
<1>3. ASSUME p \in pipes PROVE Slots(<<p, "r">>) + Slots(<<p, "w">>) > 0
  <2>1. Uses(p) > 0
    BY <1>1, <1>3 DEF LiveInv, Live, LivePipes
  <2>2. /\ <<p, "r">> \in Nodes /\ <<p, "w">> \in Nodes
        /\ (Use(<<p, "r">>) # 0 \/ Use(<<p, "w">>) # 0)
    BY <2>1, <1>1, LiveUses
  <2>3. \A n \in Nodes : Slots(n) \in Nat /\ (Use(n) # 0 => Slots(n) > 0)
    BY <1>1, LiveNumbers
  <2> QED
    BY <2>2, <2>3
<1> QED
  BY <1>2, <1>3

\* And no count is negative.
LEMMA LiveInvTypes == LiveInv => TypeOK
<1> SUFFICES ASSUME LiveInv PROVE TypeOK
  OBVIOUS
<1>1. Types
  BY DEF LiveInv, CountInv, OwnInv, Basic
<1>2. \A n \in Nodes : refs[n] \in Nat
  <2> SUFFICES ASSUME NEW n \in Nodes PROVE refs[n] \in Nat
    OBVIOUS
  <2>1. Opens(n) \in Nat /\ Cardinality(Opening(n)) \in Nat /\ refs[n] \in Int
    BY LiveNumbers
  <2> QED
    BY <2>1 DEF Opens
<1>3. refs \in [Nodes -> Nat]
  BY <1>1, <1>2 DEF Types, CountTypes
<1> QED
  BY <1>1, <1>3 DEF Types, TableTypes, PlaceTypes, CountTypes, DataTypes, TypeOK

\* As long as neither defect of CloseBegin strikes, the lifetimes are right.
THEOREM LiveInvHolds ==
  ASSUME Faults = {}, NoWrap
  PROVE  Spec => []LiveInv
<1>1. Init => LiveInv
  BY CountInvInit, LiveInit DEF LiveInv
<1>2. LiveInv /\ [Next]_vars => LiveInv'
  BY LiveInvNext
<1> QED
  BY <1>1, <1>2, PTL DEF Spec

\* No descriptor names a deleted node, and no task in a system call is about
\* to use a deleted node or pipe (vnode_t::close, v_close, close_fd): for any
\* number of tasks, pipes and descriptors, as long as neither of the two
\* defects named at CloseBegin strikes (with them the code does use freed
\* memory) and the pipe's 8-bit count cannot wrap.
THEOREM NoUseAfterFree ==
  ASSUME Faults = {}, NoWrap
  PROVE  Spec => []UsesAreLive
BY LiveInvHolds, LiveInvUses, PTL

\* Nodes and pipes without a descriptor are deleted as soon as the closes in
\* progress are done (the delete at the end of vnode_t::close and of v_close),
\* under the same assumptions.
THEOREM NodesAndPipesFreed ==
  ASSUME Faults = {}, NoWrap
  PROVE  Spec => []NothingLeaks
BY LiveInvHolds, LiveInvLeaks, PTL

\* Every variable keeps its type; what is not obvious is that ref_count, which
\* close() decrements without looking, is never negative.
THEOREM PipesTypes ==
  ASSUME Faults = {}, NoWrap
  PROVE  Spec => []TypeOK
BY LiveInvHolds, LiveInvTypes, PTL
=============================================================================
