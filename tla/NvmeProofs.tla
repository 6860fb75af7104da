----------------------------- MODULE NvmeProofs -----------------------------
(***************************************************************************)
(* Every command a task waits for is at exactly one place: the submission  *)
(* queue, the controller or the completion queue, for any number of        *)
(* tasks, any sizes of the queues and any number of laps, as long as       *)
(* command_id does not come round to a command still under way             *)
(* (FreshIds), which the code never looks at. A task in the middle of      *)
(* moving the head keeps the others from doing so, but not from looking    *)
(* at the entry behind the end.                                            *)
(*                                                                         *)
(* And the node is a block device. What the tasks have moved, what they    *)
(* know of the disk and what their answers say (DeviceInv) rests on the    *)
(* queues: blocks are moved only for a command under way, and success is   *)
(* told only to the task whose command it was. Requests that share a       *)
(* block with a partial write stay apart: the code has no lock for it      *)
(* (the defect "rmw").                                                     *)
(*                                                                         *)
(* The last part is about the PRP lists. What create_prps builds, what the *)
(* controller finds on its walk and how many lists free_prps gives back are*)
(* three recursions. Each has a result (RecursionIs), and what holds of the*)
(* last list and of a list if it does of the next holds of all             *)
(* (FromBehind).                                                           *)
(***************************************************************************)
EXTENDS Nvme, FiniteSetTheorems, SequenceTheorems, WellFoundedInduction, TLAPS

-----------------------------------------------------------------------------
(* Rings.                                                                  *)

\* The remainder of a number between -n and n.
LEMMA Remainder ==
  ASSUME NEW n \in Nat, n > 0, NEW x \in (-(n - 1))..(n - 1)
  PROVE  x % n = IF x >= 0 THEN x ELSE x + n
<1> DEFINE q == x \div n
           r == x % n
<1>1. q \in Int /\ r \in 0..(n - 1) /\ x = n * q + r
  OBVIOUS
<1> HIDE DEF q, r
<1>2. q >= 1 => n * q >= n
  <2>1. q >= 1 => n * (q - 1) >= 0
    <3>1. q >= 1 => q - 1 \in Nat
      BY <1>1
    <3> QED
      BY <3>1
  <2>2. n * (q - 1) = n * q - n /\ n * q \in Int
    BY <1>1
  <2> QED
    BY <2>1, <2>2
<1>3. q <= -2 => n * q <= (-2) * n
  <2>1. q <= -2 => n * (-2 - q) >= 0
    <3>1. q <= -2 => -2 - q \in Nat
      BY <1>1
    <3> QED
      BY <3>1
  <2>2. n * (-2 - q) = (-2) * n - n * q /\ n * q \in Int
    BY <1>1
  <2> QED
    BY <2>1, <2>2
<1>4. q = 0 => n * q = 0
  OBVIOUS
<1>5. q = -1 => n * q = -n
  OBVIOUS
<1>6. n * q \in Int
  BY <1>1
<1>7. q \in {0, -1}
  BY <1>1, <1>2, <1>3, <1>6
<1>8. r = IF x >= 0 THEN x ELSE x + n
  BY <1>1, <1>4, <1>5, <1>7
<1> QED
  BY <1>8 DEF r

\* The place after the last is the first.
LEMMA After ==
  ASSUME NEW n \in Nat, n > 0, NEW i \in 0..(n - 1)
  PROVE  (i + 1) % n = IF i + 1 = n THEN 0 ELSE i + 1
<1>1. CASE i + 1 = n
  <2>1. n % n = 0
    <3>1. PICK q, r : q = n \div n /\ r = n % n
      OBVIOUS
    <3>2. q \in Int /\ r \in 0..(n - 1) /\ n = n * q + r
      BY <3>1
    <3>3. n * q \in Int /\ (q <= 0 => n * q <= 0) /\ (q >= 2 => n * q >= 2 * n) /\ (q = 1 => n * q = n)
      <4>1. q <= 0 => n * (-q) >= 0 /\ n * (-q) = -(n * q)
        <5>1. q <= 0 => -q \in Nat
          BY <3>2
        <5> QED
          BY <3>2, <5>1
      <4>2. q >= 2 => n * (q - 2) >= 0 /\ n * (q - 2) = n * q - 2 * n
        <5>1. q >= 2 => q - 2 \in Nat
          BY <3>2
        <5> QED
          BY <3>2, <5>1
      <4>3. n * q \in Int
        BY <3>2
      <4> QED
        BY <3>2, <4>1, <4>2, <4>3
    <3>4. q = 1 /\ r = 0
      BY <3>2, <3>3
    <3> QED
      BY <3>1, <3>4
  <2> QED
    BY <1>1, <2>1
<1>2. CASE i + 1 < n
  BY <1>2, Remainder
<1> QED
  BY <1>1, <1>2

\* The places in use of a ring, from the first on.
LEMMA RingIs ==
  ASSUME NEW n \in Nat, n > 0, NEW from \in 0..(n - 1), NEW to \in 0..(n - 1), NEW i
  PROVE  i \in InQueue(from, to, n) <=>
           /\ i \in 0..(n - 1)
           /\ IF from <= to THEN from <= i /\ i < to ELSE from <= i \/ i < to
<1>1. (to - from) % n = IF to - from >= 0 THEN to - from ELSE to - from + n
  BY Remainder
<1>2. ASSUME i \in 0..(n - 1) PROVE (i - from) % n = IF i - from >= 0 THEN i - from ELSE i - from + n
  BY <1>2, Remainder
<1>3. i \in InQueue(from, to, n) <=> i \in 0..(n - 1) /\ (i - from) % n < (to - from) % n
  BY DEF InQueue
<1> QED
  BY <1>1, <1>2, <1>3

\* One more place is taken at the end of a ring.
LEMMA RingPut ==
  ASSUME NEW n \in Nat, n > 0, NEW from \in 0..(n - 1), NEW to \in 0..(n - 1), (to + 1) % n # from
  PROVE  /\ (to + 1) % n \in 0..(n - 1) /\ to \notin InQueue(from, to, n)
         /\ InQueue(from, (to + 1) % n, n) = InQueue(from, to, n) \cup {to}
<1>1. PICK next : next = (to + 1) % n
  OBVIOUS
<1>2. next \in 0..(n - 1) /\ next = IF to + 1 = n THEN 0 ELSE to + 1
  BY <1>1, After
<1>3. to \notin InQueue(from, to, n)
  BY RingIs
<1>4. ASSUME NEW i PROVE i \in InQueue(from, next, n) <=> i \in InQueue(from, to, n) \cup {to}
  BY <1>1, <1>2, RingIs
<1> QED
  BY <1>1, <1>2, <1>3, <1>4

\* The first place of a ring is given back.
LEMMA RingTake ==
  ASSUME NEW n \in Nat, n > 0, NEW from \in 0..(n - 1), NEW to \in 0..(n - 1), from # to
  PROVE  /\ (from + 1) % n \in 0..(n - 1) /\ from \in InQueue(from, to, n)
         /\ InQueue((from + 1) % n, to, n) = InQueue(from, to, n) \ {from}
<1>1. PICK next : next = (from + 1) % n
  OBVIOUS
<1>2. next \in 0..(n - 1) /\ next = IF from + 1 = n THEN 0 ELSE from + 1
  BY <1>1, After
<1>3. from \in InQueue(from, to, n)
  BY RingIs
<1>4. ASSUME NEW i PROVE i \in InQueue(next, to, n) <=> i \in InQueue(from, to, n) \ {from}
  BY <1>2, RingIs
<1> QED
  BY <1>1, <1>2, <1>3, <1>4

\* A ring whose next place is its first is nearly full.
LEMMA RingFull ==
  ASSUME NEW n \in Nat, n > 0, NEW from \in 0..(n - 1), NEW to \in 0..(n - 1), (to + 1) % n = from
  PROVE  /\ IsFiniteSet(InQueue(from, to, n))
         /\ Cardinality(InQueue(from, to, n)) = n - 1
<1>1. from = IF to + 1 = n THEN 0 ELSE to + 1
  BY After
<1>2. ASSUME NEW i PROVE i \in InQueue(from, to, n) <=> i \in (0..(n - 1)) \ {to}
  BY <1>1, RingIs
<1>3. InQueue(from, to, n) = (0..(n - 1)) \ {to}
  BY <1>2
<1>4. IsFiniteSet(0..(n - 1)) /\ Cardinality(0..(n - 1)) = n
  BY FS_Interval
<1> QED
  BY <1>3, <1>4, FS_RemoveElement

-----------------------------------------------------------------------------
(* The invariant.                                                          *)

\* No command_id is given out while a command that has it is under way.
FreshIds == \A t \in Tasks : op[t] = "submit" => \A u \in Waiting : id[u] # nextid

QueueTypes ==
  /\ op \in [Tasks -> Ops] /\ id \in [Tasks -> 0..(IdMod - 1)] /\ slot \in [Tasks -> 0..CqSize]
  /\ sq \in [0..(SqSize - 1) -> Commands \cup {None}]
  /\ tail \in 0..(SqSize - 1) /\ nextid \in 0..(IdMod - 1)
  /\ cq \in [0..(CqSize - 1) -> [id : 0..(IdMod - 1), phase : {0, 1}, ok : BOOLEAN]]
  /\ head \in 0..CqSize /\ phase \in {0, 1} /\ cphase \in {0, 1}
  /\ fetched \in 0..(SqSize - 1) /\ active \subseteq Commands
  /\ bell \in 0..(CqSize - 1) /\ ctail \in 0..(CqSize - 1)

\* The head and the phase as they are once they are wrapped.
First == IF head = CqSize THEN 0 ELSE head
Lap == IF head = CqSize THEN 1 - phase ELSE phase

\* The commands not fetched yet, and the answers not taken yet.
Submitted == InQueue(fetched, tail, SqSize)
Answered == InQueue(First, ctail, CqSize)
Command(t) == [by |-> t, id |-> id[t]]

\* Who moves the head holds the lock, and has taken an answer.
Locked ==
  /\ \A t, u \in Tasks : op[t] = "wrap" /\ op[u] = "wrap" => t = u
  /\ IF \E t \in Tasks : op[t] = "wrap" THEN head = bell + 1 /\ ctail # bell ELSE head = bell

\* The phase tells answers not taken from those of the lap before.
Phases ==
  /\ cphase = IF ctail >= First THEN Lap ELSE 1 - Lap
  /\ \A i \in 0..(CqSize - 1) :
       cq[i].phase = IF i \in Answered <=> i >= First THEN Lap ELSE 1 - Lap

\* An entry that was the head when a task looked is not its answer.
Passed ==
  \A t \in Tasks : op[t] = "match" /\ slot[t] < CqSize /\ slot[t] # head => cq[slot[t]].id # id[t]

\* A task about to move the head has its answer there.
Found ==
  \A t \in Tasks : op[t] = "advance" => First \in Answered /\ cq[First].id = id[t]

Distinct == \A t, u \in Waiting : id[t] = id[u] => t = u

InSq(t) == \E i \in Submitted : sq[i] = Command(t)
InHand(t) == Command(t) \in active
InCq(t) == \E i \in Answered : cq[i].id = id[t]

\* Each command is at one place, and nothing else is there.
Placed ==
  /\ Distinct
  /\ \A i \in Submitted : \E t \in Waiting : sq[i] = Command(t)
  /\ \A i, j \in Submitted : sq[i] = sq[j] => i = j
  /\ \A c \in active : \E t \in Waiting : c = Command(t)
  /\ \A i \in Answered : \E t \in Waiting : cq[i].id = id[t]
  /\ \A i, j \in Answered : cq[i].id = cq[j].id => i = j
  /\ \A t \in Waiting : /\ InSq(t) \/ InHand(t) \/ InCq(t)
                        /\ ~(InSq(t) /\ InHand(t)) /\ ~(InSq(t) /\ InCq(t)) /\ ~(InHand(t) /\ InCq(t))

QueueInv == QueueTypes /\ Locked /\ Phases /\ Passed /\ Found /\ Placed

\* The sizes.
LEMMA SizesAre ==
  /\ IsFiniteSet(Tasks) /\ None \notin Tasks /\ Cardinality(Tasks) \in Nat
  /\ SqSize \in Nat /\ SqSize > 0 /\ CqSize \in Nat /\ CqSize > 0 /\ IdMod \in Nat
  /\ Cardinality(Tasks) < SqSize /\ Cardinality(Tasks) < CqSize /\ Cardinality(Tasks) <= IdMod
BY QueueAssumption, FS_CardinalityType

\* There are identifiers as soon as there are tasks.
LEMMA IdsAre ==
  ASSUME NEW t \in Tasks
  PROVE  IdMod > 0 /\ SqSize > 1
<1>1. Cardinality(Tasks) # 0
  BY SizesAre, FS_EmptySet
<1> QED
  BY <1>1, SizesAre

\* The heads of the two rings are places.
LEMMA RingsAre ==
  ASSUME QueueTypes
  PROVE  /\ First \in 0..(CqSize - 1) /\ Lap \in {0, 1} /\ 1 - Lap \in {0, 1}
         /\ Submitted \subseteq 0..(SqSize - 1) /\ Answered \subseteq 0..(CqSize - 1)
BY SizesAre DEF QueueTypes, First, Lap, Submitted, Answered, InQueue

\* No answer is left when the ring is empty.
LEMMA RingEmpty == ASSUME NEW n \in Nat, n > 0, NEW i \in 0..(n - 1) PROVE InQueue(i, i, n) = {}
BY RingIs

\* The queues are empty at first.
LEMMA QueueInvInit ==
  ASSUME Init, IdMod > 0
  PROVE  QueueInv
<1>1. QueueTypes
  BY SizesAre DEF Init, QueueTypes, Ops
<1>2. First = 0 /\ Lap = 1
  BY SizesAre DEF Init, First, Lap
<1>3. Submitted = {} /\ Answered = {} /\ Waiting = {}
  BY <1>2, SizesAre, RingEmpty DEF Init, Submitted, Answered, Waiting
<1>4. Locked /\ Passed /\ Found
  BY DEF Init, Locked, Passed, Found
<1>5. Phases
  BY <1>2, <1>3, SizesAre DEF Init, Phases
<1>6. Placed
  BY <1>3 DEF Init, Placed, Distinct
<1> QED
  BY <1>1, <1>4, <1>5, <1>6 DEF QueueInv

\* What the invariant says, by place.
LEMMA OnceIs == ASSUME QueueInv PROVE OnceInFlight
<1> SUFFICES ASSUME \A t \in Tasks : op[t] # "wrap", NEW t \in Waiting
             PROVE  LET queued == {i \in InQueue(fetched, tail, SqSize) : sq[i] = [by |-> t, id |-> id[t]]}
                        held == active \cap {[by |-> t, id |-> id[t]]}
                        answered == {i \in Answers : cq[i].id = id[t]}
                    IN  Cardinality(queued) + Cardinality(held) + Cardinality(answered) = 1
  BY DEF OnceInFlight
<1> DEFINE queued == {i \in InQueue(fetched, tail, SqSize) : sq[i] = [by |-> t, id |-> id[t]]}
           held == active \cap {[by |-> t, id |-> id[t]]}
           answered == {i \in Answers : cq[i].id = id[t]}
<1>1. QueueTypes /\ Phases /\ Placed
  BY DEF QueueInv
<1>2. head = bell /\ head # CqSize
  BY SizesAre DEF QueueInv, Locked, QueueTypes
<1>3. First = bell /\ Lap = phase
  BY <1>2 DEF First, Lap
<1>4. Answers = Answered
  BY <1>1, <1>3, RingsAre DEF Phases, Answers, Answered, InQueue
<1>5. queued = {i \in Submitted : sq[i] = Command(t)}
  BY DEF Submitted, Command
<1>6. held = active \cap {Command(t)}
  BY DEF Command
<1>7. answered = {i \in Answered : cq[i].id = id[t]}
  BY <1>4
<1> HIDE DEF queued, held, answered
<1>8. Cardinality({}) = 0 /\ \A x : Cardinality({x}) = 1
  BY FS_EmptySet, FS_Singleton
<1>9. Cardinality(queued) = IF InSq(t) THEN 1 ELSE 0
  <2>1. CASE InSq(t)
    <3>1. PICK i \in Submitted : sq[i] = Command(t)
      BY <2>1 DEF InSq
    <3>2. queued = {i}
      BY <1>1, <1>5, <3>1 DEF Placed
    <3> QED
      BY <1>8, <2>1, <3>2
  <2>2. CASE ~InSq(t)
    <3>1. queued = {}
      BY <1>5, <2>2 DEF InSq
    <3> QED
      BY <1>8, <2>2, <3>1
  <2> QED
    BY <2>1, <2>2
<1>10. Cardinality(held) = IF InHand(t) THEN 1 ELSE 0
  <2>1. CASE InHand(t)
    <3>1. held = {Command(t)}
      BY <1>6, <2>1 DEF InHand
    <3> QED
      BY <1>8, <2>1, <3>1
  <2>2. CASE ~InHand(t)
    <3>1. held = {}
      BY <1>6, <2>2 DEF InHand
    <3> QED
      BY <1>8, <2>2, <3>1
  <2> QED
    BY <2>1, <2>2
<1>11. Cardinality(answered) = IF InCq(t) THEN 1 ELSE 0
  <2>1. CASE InCq(t)
    <3>1. PICK i \in Answered : cq[i].id = id[t]
      BY <2>1 DEF InCq
    <3>2. answered = {i}
      BY <1>1, <1>7, <3>1 DEF Placed
    <3> QED
      BY <1>8, <2>1, <3>2
  <2>2. CASE ~InCq(t)
    <3>1. answered = {}
      BY <1>7, <2>2 DEF InCq
    <3> QED
      BY <1>8, <2>2, <3>1
  <2> QED
    BY <2>1, <2>2
<1>12. /\ InSq(t) \/ InHand(t) \/ InCq(t)
       /\ ~(InSq(t) /\ InHand(t)) /\ ~(InSq(t) /\ InCq(t)) /\ ~(InHand(t) /\ InCq(t))
  BY <1>1 DEF Placed
<1>13. Cardinality(queued) + Cardinality(held) + Cardinality(answered) = 1
  BY <1>9, <1>10, <1>11, <1>12
<1> QED
  BY <1>13 DEF queued, held, answered

-----------------------------------------------------------------------------
(* The steps of a task.                                                    *)

\* A step that leaves the queues and the places of all tasks alone.
LEMMA StillInv ==
  ASSUME QueueInv,
         UNCHANGED <<op, id, slot, sq, tail, nextid, cq, head, phase, fetched, active, bell, ctail, cphase>>
  PROVE  QueueInv'
<1>1. First' = First /\ Lap' = Lap /\ Submitted' = Submitted /\ Answered' = Answered /\ Waiting' = Waiting
  BY DEF First, Lap, Submitted, Answered, InQueue, Waiting
<1>2. QueueTypes' /\ Locked' /\ Passed'
  BY DEF QueueInv, QueueTypes, Locked, Passed
<1>3. Phases' /\ Found'
  BY <1>1 DEF QueueInv, Phases, Found
<1>4. Placed'
  BY <1>1 DEF QueueInv, Placed, Distinct, InSq, InHand, InCq, Command
<1> QED
  BY <1>2, <1>3, <1>4 DEF QueueInv

\* A task outside the queues goes on outside them.
LEMMA AsideInv ==
  ASSUME QueueInv, NEW t \in Tasks, NEW o \in {"user", "submit"}, op[t] \in {"user", "submit", "status"},
         op' = [op EXCEPT ![t] = o], NEW i \in 0..(IdMod - 1), id' = [id EXCEPT ![t] = i],
         NEW s \in 0..CqSize, slot' = [slot EXCEPT ![t] = s],
         UNCHANGED <<sq, tail, nextid, cq, head, phase, fetched, active, bell, ctail, cphase>>
  PROVE  QueueInv'
<1>1. QueueTypes'
  BY DEF QueueInv, QueueTypes, Ops
<1>2. \A u \in Tasks : /\ op'[u] = IF u = t THEN o ELSE op[u]
                       /\ u # t => id'[u] = id[u] /\ slot'[u] = slot[u]
  BY DEF QueueInv, QueueTypes
<1>3. Waiting' = Waiting /\ t \notin Waiting
  BY <1>2 DEF Waiting
<1>4. First' = First /\ Lap' = Lap /\ Submitted' = Submitted /\ Answered' = Answered
  BY DEF First, Lap, Submitted, Answered, InQueue
<1>5. Locked'
  BY <1>2 DEF QueueInv, Locked
<1>6. Phases'
  BY <1>4 DEF QueueInv, Phases
<1>7. Passed' /\ Found'
  BY <1>2, <1>4 DEF QueueInv, Passed, Found
<1>8. \A u \in Waiting : id'[u] = id[u] /\ Command(u)' = Command(u)
  BY <1>2, <1>3 DEF Command, Waiting
<1>9. Placed'
  <2>1. \A u \in Waiting : InSq(u)' = InSq(u) /\ InHand(u)' = InHand(u) /\ InCq(u)' = InCq(u)
    BY <1>4, <1>8 DEF InSq, InHand, InCq
  <2> QED
    BY <1>3, <1>4, <1>8, <2>1 DEF QueueInv, Placed, Distinct
<1> QED
  BY <1>1, <1>5, <1>6, <1>7, <1>9 DEF QueueInv

\* A request touches no queue.
LEMMA RequestInv == ASSUME QueueInv, NEW t \in Tasks, Request(t) PROVE QueueInv'
<1>1. op[t] = "user" /\ op' = [op EXCEPT ![t] = "submit"]
  BY DEF Request, Goes
<1>2. id[t] \in 0..(IdMod - 1) /\ slot[t] \in 0..CqSize
  BY DEF QueueInv, QueueTypes
<1>3. id' = [id EXCEPT ![t] = id[t]] /\ slot' = [slot EXCEPT ![t] = slot[t]]
  BY DEF Request, QueueInv, QueueTypes
<1>4. UNCHANGED <<sq, tail, nextid, cq, head, phase, fetched, active, bell, ctail, cphase>>
  BY DEF Request, queues, device
<1> QED
  BY <1>1, <1>2, <1>3, <1>4, AsideInv

\* Nor does the end of a command.
LEMMA StatusInv == ASSUME QueueInv, NEW t \in Tasks, Status(t) PROVE QueueInv'
<1>1. PICK ok \in BOOLEAN, last \in BOOLEAN :
        IF ~ok THEN Return(t, "EIO") ELSE IF last THEN Return(t, "length") ELSE Continue(t)
  <2>1. \A s \in 0..(CqSize - 1) : cq[s].ok \in BOOLEAN
    BY DEF QueueInv, QueueTypes
  <2>2. slot[t] < CqSize => slot[t] \in 0..(CqSize - 1)
    BY SizesAre DEF QueueInv, QueueTypes
  <2> QED
    BY <2>1, <2>2 DEF Status
<1>2. PICK o \in {"user", "submit"} : op' = [op EXCEPT ![t] = o]
  BY <1>1 DEF Return, Continue, Goes
<1>3. op[t] = "status" /\ id' = [id EXCEPT ![t] = 0] /\ slot' = [slot EXCEPT ![t] = 0]
  BY DEF Status
<1>4. 0 \in 0..(IdMod - 1) /\ 0 \in 0..CqSize
  BY SizesAre, IdsAre
<1>5. UNCHANGED <<sq, tail, nextid, cq, head, phase, fetched, active, bell, ctail, cphase>>
  BY DEF Status, queues
<1> QED
  BY <1>2, <1>3, <1>4, <1>5, AsideInv

\* A task that looks finds the head of the completion queue, or just behind its end.
LEMMA LookInv == ASSUME QueueInv, NEW t \in Tasks, Look(t) PROVE QueueInv'
<1>1. /\ op[t] = "look" /\ op' = [op EXCEPT ![t] = "match"] /\ slot' = [slot EXCEPT ![t] = head]
      /\ UNCHANGED <<id, sq, tail, nextid, cq, head, phase, fetched, active, bell, ctail, cphase>>
  BY DEF Look, Goes, queues, device
<1>2. QueueTypes'
  BY <1>1 DEF QueueInv, QueueTypes, Ops
<1>3. \A u \in Tasks : op'[u] = (IF u = t THEN "match" ELSE op[u]) /\ slot'[u] = (IF u = t THEN head ELSE slot[u])
  BY <1>1 DEF QueueInv, QueueTypes
<1>4. Waiting' = Waiting
  BY <1>1, <1>3 DEF Waiting
<1>5. First' = First /\ Lap' = Lap /\ Submitted' = Submitted /\ Answered' = Answered
  BY <1>1 DEF First, Lap, Submitted, Answered, InQueue
<1>6. Locked'
  BY <1>1, <1>3 DEF QueueInv, Locked
<1>7. Phases'
  BY <1>1, <1>5 DEF QueueInv, Phases
<1>8. Passed' /\ Found'
  BY <1>1, <1>3, <1>5 DEF QueueInv, Passed, Found
<1>9. Placed'
  BY <1>1, <1>4, <1>5 DEF QueueInv, Placed, Distinct, InSq, InHand, InCq, Command
<1> QED
  BY <1>2, <1>6, <1>7, <1>8, <1>9 DEF QueueInv

\* A match is the task's answer, at the head.
LEMMA MatchIs ==
  ASSUME QueueInv, "overrun" \notin Faults, NEW t \in Tasks, op[t] = "match", Matches(t)
  PROVE  slot[t] = First /\ First \in Answered /\ cq[First].id = id[t]
<1>1. slot[t] < CqSize /\ cq[slot[t]].phase = phase /\ cq[slot[t]].id = id[t]
  BY DEF Matches
<1>2. slot[t] = head
  BY <1>1 DEF QueueInv, Passed
<1>3. First = head /\ Lap = phase /\ head \in 0..(CqSize - 1) /\ phase \in {0, 1}
  BY <1>1, <1>2, SizesAre DEF First, Lap, QueueInv, QueueTypes
<1>4. head \in Answered
  BY <1>1, <1>2, <1>3 DEF QueueInv, Phases
<1> QED
  BY <1>1, <1>2, <1>3, <1>4

\* A task that finds its answer finds it at the head.
LEMMA MatchInv ==
  ASSUME QueueInv, "overrun" \notin Faults, NEW t \in Tasks, Match(t)
  PROVE  QueueInv'
<1>1. PICK o \in {"advance", "look"} : op' = [op EXCEPT ![t] = o] /\ (o = "advance" <=> Matches(t))
  BY DEF Match, Goes
<1>2. /\ op[t] = "match"
      /\ UNCHANGED <<id, slot, sq, tail, nextid, cq, head, phase, fetched, active, bell, ctail, cphase>>
  BY DEF Match, queues, device
<1>3. QueueTypes /\ QueueTypes'
  BY <1>1, <1>2 DEF QueueInv, QueueTypes, Ops
<1>4. \A u \in Tasks : op'[u] = IF u = t THEN o ELSE op[u]
  BY <1>1, <1>3 DEF QueueTypes
<1>5. Waiting' = Waiting
  BY <1>2, <1>4 DEF Waiting
<1>6. First' = First /\ Lap' = Lap /\ Submitted' = Submitted /\ Answered' = Answered
  BY <1>2 DEF First, Lap, Submitted, Answered, InQueue
<1>7. Locked'
  BY <1>2, <1>4 DEF QueueInv, Locked
<1>8. Phases'
  BY <1>2, <1>6 DEF QueueInv, Phases
<1>9. Passed'
  BY <1>2, <1>4 DEF QueueInv, Passed
<1>10. ASSUME o = "advance" PROVE First \in Answered /\ cq[First].id = id[t]
  BY <1>1, <1>2, <1>10, MatchIs
<1>11. Found'
  BY <1>2, <1>4, <1>6, <1>10 DEF QueueInv, Found
<1>12. Placed'
  BY <1>2, <1>5, <1>6 DEF QueueInv, Placed, Distinct, InSq, InHand, InCq, Command
<1> QED
  BY <1>3, <1>7, <1>8, <1>9, <1>11, <1>12 DEF QueueInv

\* Once wrapped the head is where it was counted.
LEMMA WrapIs ==
  ASSUME QueueInv, NEW t \in Tasks, Wrap(t)
  PROVE  head' = First /\ phase' = Lap /\ bell' = First /\ First' = First /\ Lap' = Lap
<1>2. QueueTypes
  BY DEF QueueInv
<1>3. head' = First /\ phase' = Lap /\ bell' = First
  BY <1>2, SizesAre DEF Wrap, Wrapped, First, Lap, QueueTypes
<1>4. First \in 0..(CqSize - 1) /\ Lap \in {0, 1}
  BY <1>2, RingsAre
<1>8. First' = First /\ Lap' = Lap
  <2>1. PICK h, p : h = First /\ p = Lap
    OBVIOUS
  <2>2. head' = h /\ phase' = p /\ h # CqSize
    BY <1>3, <1>4, <2>1, SizesAre
  <2>3. First' = h /\ Lap' = p
    BY <2>2 DEF First, Lap
  <2> QED
    BY <2>1, <2>3
<1> QED
  BY <1>3, <1>8

\* The controller is told the new head.
LEMMA WrapInv == ASSUME QueueInv, NEW t \in Tasks, Wrap(t) PROVE QueueInv'
<1>1. /\ op[t] = "wrap" /\ op' = [op EXCEPT ![t] = "status"]
      /\ UNCHANGED <<id, slot, sq, tail, nextid, cq, fetched, active, ctail, cphase>>
  BY DEF Wrap, Goes
<1>2. QueueTypes
  BY DEF QueueInv
<1>3. head' = First /\ phase' = Lap /\ bell' = First
  BY WrapIs
<1>4. First \in 0..(CqSize - 1) /\ Lap \in {0, 1}
  BY <1>2, RingsAre
<1>5. QueueTypes'
  BY <1>1, <1>2, <1>3, <1>4, SizesAre DEF QueueTypes, Ops
<1>6. \A u \in Tasks : op'[u] = IF u = t THEN "status" ELSE op[u]
  BY <1>1, <1>2 DEF QueueTypes
<1>7. Waiting' = Waiting
  BY <1>1, <1>6 DEF Waiting
<1>8. First' = First /\ Lap' = Lap
  BY WrapIs
<1>9. Submitted' = Submitted /\ Answered' = Answered
  BY <1>1, <1>8 DEF Submitted, Answered, InQueue
<1>10. Locked'
  <2>1. \A u \in Tasks : op'[u] # "wrap"
    BY <1>1, <1>6 DEF QueueInv, Locked
  <2> QED
    BY <1>3, <2>1 DEF Locked
<1>11. Phases'
  BY <1>1, <1>8, <1>9 DEF QueueInv, Phases
<1>12. Passed'
  <2>1. head \in 0..CqSize /\ (head < CqSize => First = head)
    BY <1>2, SizesAre DEF QueueTypes, First
  <2> QED
    BY <1>1, <1>3, <1>6, <2>1 DEF QueueInv, Passed
<1>13. Found'
  BY <1>1, <1>6, <1>8, <1>9 DEF QueueInv, Found
<1>14. Placed'
  BY <1>1, <1>7, <1>9 DEF QueueInv, Placed, Distinct, InSq, InHand, InCq, Command
<1> QED
  BY <1>5, <1>10, <1>11, <1>12, <1>13, <1>14 DEF QueueInv

-----------------------------------------------------------------------------
(* The queues.                                                             *)

\* The submission queue always has room for a task that waits for nothing.
LEMMA RoomIs ==
  ASSUME QueueInv, NEW t \in Tasks, t \notin Waiting
  PROVE  (tail + 1) % SqSize # fetched
<1> SUFFICES ASSUME (tail + 1) % SqSize = fetched PROVE FALSE
  OBVIOUS
<1>1. QueueTypes /\ Placed
  BY DEF QueueInv
<1>2. IsFiniteSet(Submitted) /\ Cardinality(Submitted) = SqSize - 1
  BY <1>1, RingFull, SizesAre DEF QueueTypes, Submitted
<1>3. IsFiniteSet(Tasks \ {t}) /\ Cardinality(Tasks \ {t}) = Cardinality(Tasks) - 1
  BY SizesAre, FS_RemoveElement
<1> DEFINE f == [i \in Submitted |-> sq[i].by]
<1>4. f \in Injection(Submitted, Tasks \ {t})
  <2>1. ASSUME NEW i \in Submitted PROVE sq[i].by \in Tasks \ {t} /\ sq[i] = Command(sq[i].by)
    <3>1. PICK u \in Waiting : sq[i] = Command(u)
      BY <1>1 DEF Placed
    <3> QED
      BY <3>1 DEF Command, Waiting
  <2>2. ASSUME NEW i \in Submitted, NEW j \in Submitted, f[i] = f[j] PROVE i = j
    <3>1. sq[i].by = sq[j].by
      BY <2>2
    <3>2. sq[i] = sq[j]
      BY <2>1, <3>1
    <3> QED
      BY <1>1, <3>2 DEF Placed
  <2>3. f \in [Submitted -> Tasks \ {t}]
    BY <2>1
  <2> QED
    BY <2>2, <2>3 DEF Injection, IsInjective
<1> HIDE DEF f
<1>5. Cardinality(Submitted) <= Cardinality(Tasks \ {t})
  BY <1>3, <1>4, FS_Injection
<1> QED
  BY <1>2, <1>3, <1>5, SizesAre

\* A command enters the submission queue, which has room for it.
LEMMA SubmitInv ==
  ASSUME QueueInv, FreshIds, NEW t \in Tasks, Submit(t)
  PROVE  QueueInv'
<1>1. /\ op[t] = "submit" /\ op' = [op EXCEPT ![t] = "look"] /\ id' = [id EXCEPT ![t] = nextid]
      /\ sq' = [sq EXCEPT ![tail] = [by |-> t, id |-> nextid]]
      /\ UNCHANGED <<slot, cq, head, phase, fetched, active, bell, ctail, cphase>>
  BY DEF Submit, Goes
<1>2. QueueTypes /\ Placed
  BY DEF QueueInv
<1>3. t \notin Waiting
  BY <1>1 DEF Waiting
<1>4. /\ tail' \in 0..(SqSize - 1) /\ tail \notin Submitted /\ Submitted' = Submitted \cup {tail}
  <2>1. (tail + 1) % SqSize # fetched /\ tail' = (tail + 1) % SqSize
    BY <1>3, RoomIs DEF Submit
  <2> QED
    BY <1>1, <1>2, <2>1, SizesAre, RingPut DEF QueueTypes, Submitted
<1>5. nextid' \in 0..(IdMod - 1)
  <2>1. nextid' = (nextid + 1) % IdMod /\ nextid \in 0..(IdMod - 1)
    BY <1>2 DEF Submit, NextId, QueueTypes
  <2> QED
    BY <2>1, After, IdsAre, SizesAre
<1>6. QueueTypes'
  <2>1. [by |-> t, id |-> nextid] \in Commands
    BY <1>2 DEF QueueTypes, Commands
  <2> QED
    BY <1>1, <1>2, <1>4, <1>5, <2>1 DEF QueueTypes, Ops
<1>7. \A u \in Tasks : /\ op'[u] = IF u = t THEN "look" ELSE op[u]
                       /\ id'[u] = IF u = t THEN nextid ELSE id[u]
  BY <1>1, <1>2 DEF QueueTypes
<1>8. Waiting' = Waiting \cup {t}
  BY <1>1, <1>7 DEF Waiting
<1>9. First' = First /\ Lap' = Lap /\ Answered' = Answered
  BY <1>1 DEF First, Lap, Answered, InQueue
<1>10. Locked'
  BY <1>1, <1>7 DEF QueueInv, Locked
<1>11. Phases'
  BY <1>1, <1>9 DEF QueueInv, Phases
<1>12. Passed' /\ Found'
  BY <1>1, <1>7, <1>9 DEF QueueInv, Passed, Found
<1>13. \A u \in Waiting : u # t /\ u \in Tasks /\ id[u] # nextid /\ Command(u)' = Command(u)
  BY <1>1, <1>3, <1>7 DEF Waiting, FreshIds, Command
<1>14. /\ Command(t)' = [by |-> t, id |-> nextid] /\ id'[t] = nextid
       /\ \A u \in Waiting : Command(u) # Command(t)'
       /\ \A u \in Waiting : id'[u] = id[u]
  BY <1>7, <1>13 DEF Command
<1>15. /\ \A i \in Submitted : sq'[i] = sq[i]
       /\ sq'[tail] = Command(t)'
  BY <1>1, <1>2, <1>4, <1>14, RingsAre DEF QueueTypes
<1>16. \A u \in Waiting : InSq(u)' = InSq(u) /\ InHand(u)' = InHand(u) /\ InCq(u)' = InCq(u)
  BY <1>1, <1>4, <1>9, <1>13, <1>14, <1>15 DEF InSq, InHand, InCq
<1>17. InSq(t)' /\ ~InHand(t)' /\ ~InCq(t)'
  <2>1. ~InHand(t)'
    BY <1>1, <1>2, <1>14 DEF Placed, InHand
  <2>2. ~InCq(t)'
    BY <1>1, <1>2, <1>9, <1>13, <1>14 DEF Placed, InCq
  <2> QED
    BY <1>4, <1>15, <2>1, <2>2 DEF InSq
<1>18. Placed'
  <2>1. Distinct'
    BY <1>2, <1>8, <1>13, <1>14 DEF Placed, Distinct
  <2>2. \A i \in Submitted' : \E u \in Waiting' : sq'[i] = Command(u)'
    BY <1>2, <1>4, <1>8, <1>13, <1>15 DEF Placed
  <2>3. \A i, j \in Submitted' : sq'[i] = sq'[j] => i = j
    BY <1>2, <1>4, <1>13, <1>14, <1>15 DEF Placed
  <2>4. \A c \in active' : \E u \in Waiting' : c = Command(u)'
    BY <1>1, <1>2, <1>8, <1>13 DEF Placed
  <2>5. \A i \in Answered' : \E u \in Waiting' : cq'[i].id = id'[u]
    BY <1>1, <1>2, <1>8, <1>9, <1>14 DEF Placed
  <2>6. \A i, j \in Answered' : cq'[i].id = cq'[j].id => i = j
    BY <1>1, <1>2, <1>9 DEF Placed
  <2>7. \A u \in Waiting' : /\ InSq(u)' \/ InHand(u)' \/ InCq(u)'
                            /\ ~(InSq(u)' /\ InHand(u)') /\ ~(InSq(u)' /\ InCq(u)') /\ ~(InHand(u)' /\ InCq(u)')
    BY <1>2, <1>8, <1>16, <1>17 DEF Placed
  <2> QED
    BY <2>1, <2>2, <2>3, <2>4, <2>5, <2>6, <2>7 DEF Placed
<1> QED
  BY <1>6, <1>10, <1>11, <1>12, <1>18 DEF QueueInv

\* A command goes from the submission queue to the controller.
LEMMA FetchInv == ASSUME QueueInv, Fetch PROVE QueueInv'
<1>1. /\ fetched # tail /\ active' = active \cup {sq[fetched]} /\ fetched' = (fetched + 1) % SqSize
      /\ sq' = [sq EXCEPT ![fetched] = None]
      /\ UNCHANGED <<op, id, slot, tail, nextid, cq, head, phase, bell, ctail, cphase>>
  BY DEF Fetch, caller
<1>2. QueueTypes /\ Placed
  BY DEF QueueInv
<1>3. fetched \in Submitted /\ Submitted' = Submitted \ {fetched} /\ fetched' \in 0..(SqSize - 1)
  BY <1>1, <1>2, SizesAre, RingTake DEF QueueTypes, Submitted
<1>4. PICK t \in Waiting : sq[fetched] = Command(t)
  BY <1>2, <1>3 DEF Placed
<1>5. Command(t) \in Commands
  BY <1>2, <1>4 DEF QueueTypes, Command, Commands, Waiting
<1>6. QueueTypes'
  BY <1>1, <1>2, <1>3, <1>4, <1>5 DEF QueueTypes
<1>7. Waiting' = Waiting /\ First' = First /\ Lap' = Lap /\ Answered' = Answered
  BY <1>1 DEF Waiting, First, Lap, Answered, InQueue
<1>8. Locked' /\ Passed'
  BY <1>1 DEF QueueInv, Locked, Passed
<1>9. Phases' /\ Found'
  BY <1>1, <1>7 DEF QueueInv, Phases, Found
<1>10. \A u \in Tasks : Command(u)' = Command(u)
  BY <1>1 DEF Command
<1>11. \A i \in Submitted' : sq'[i] = sq[i]
  BY <1>1, <1>2, <1>3, RingsAre DEF QueueTypes
<1>12. \A u \in Waiting : u \in Tasks /\ (u # t => Command(u) # Command(t))
  BY <1>4 DEF Waiting, Command
<1>13. InSq(t) /\ ~InSq(t)' /\ InHand(t)' /\ ~InCq(t)'
  <2>1. InSq(t)
    BY <1>3, <1>4 DEF InSq
  <2>2. ~InSq(t)'
    BY <1>2, <1>3, <1>4, <1>10, <1>11, <1>12 DEF InSq, Placed
  <2>3. InHand(t)'
    BY <1>1, <1>4, <1>10, <1>12 DEF InHand
  <2>4. ~InCq(t)'
    BY <1>1, <1>2, <1>7, <2>1 DEF InCq, Placed
  <2> QED
    BY <2>1, <2>2, <2>3, <2>4
<1>14. ASSUME NEW u \in Waiting, u # t PROVE InSq(u)' = InSq(u) /\ InHand(u)' = InHand(u) /\ InCq(u)' = InCq(u)
  <2>1. InSq(u)' = InSq(u)
    BY <1>3, <1>4, <1>10, <1>11, <1>12, <1>14 DEF InSq
  <2>2. InHand(u)' = InHand(u)
    BY <1>1, <1>4, <1>10, <1>12, <1>14 DEF InHand
  <2>3. InCq(u)' = InCq(u)
    BY <1>1, <1>7 DEF InCq
  <2> QED
    BY <2>1, <2>2, <2>3
<1>15. Placed'
  <2>1. Distinct'
    BY <1>1, <1>2, <1>7 DEF Placed, Distinct
  <2>2. \A i \in Submitted' : \E u \in Waiting' : sq'[i] = Command(u)'
    BY <1>2, <1>3, <1>7, <1>10, <1>11, <1>12 DEF Placed
  <2>3. \A i, j \in Submitted' : sq'[i] = sq'[j] => i = j
    BY <1>2, <1>3, <1>11 DEF Placed
  <2>4. \A c \in active' : \E u \in Waiting' : c = Command(u)'
    BY <1>1, <1>2, <1>4, <1>7, <1>10, <1>12 DEF Placed
  <2>5. \A i \in Answered' : \E u \in Waiting' : cq'[i].id = id'[u]
    BY <1>1, <1>2, <1>7 DEF Placed
  <2>6. \A i, j \in Answered' : cq'[i].id = cq'[j].id => i = j
    BY <1>1, <1>2, <1>7 DEF Placed
  <2>7. \A u \in Waiting' : /\ InSq(u)' \/ InHand(u)' \/ InCq(u)'
                            /\ ~(InSq(u)' /\ InHand(u)') /\ ~(InSq(u)' /\ InCq(u)') /\ ~(InHand(u)' /\ InCq(u)')
    BY <1>2, <1>7, <1>13, <1>14 DEF Placed
  <2> QED
    BY <2>1, <2>2, <2>3, <2>4, <2>5, <2>6, <2>7 DEF Placed
<1> QED
  BY <1>6, <1>8, <1>9, <1>15 DEF QueueInv

\* Between two of its places a ring is the part between them.
LEMMA HeadIs ==
  ASSUME QueueInv, \A t \in Tasks : op[t] # "wrap"
  PROVE  /\ head = bell /\ head \in 0..(CqSize - 1) /\ First = head /\ Lap = phase
<1>1. head = bell /\ bell \in 0..(CqSize - 1)
  BY DEF QueueInv, Locked, QueueTypes
<1> QED
  BY <1>1, SizesAre DEF First, Lap

\* A task takes its answer, the one at the head.
LEMMA AdvanceIs ==
  ASSUME QueueInv, NEW t \in Tasks, Advance(t)
  PROVE  /\ head = bell /\ head \in 0..(CqSize - 1) /\ First = head /\ Lap = phase /\ ctail # head
         /\ head \in Answered /\ cq[head].id = id[t] /\ Answered' = Answered \ {head}
         /\ First' \in 0..(CqSize - 1) /\ First' = (IF head + 1 = CqSize THEN 0 ELSE head + 1)
         /\ Lap' = IF head + 1 = CqSize THEN 1 - phase ELSE phase
<1>1. /\ op[t] = "advance" /\ op' = [op EXCEPT ![t] = "wrap"] /\ head' = head + 1
      /\ \A u \in Tasks : op[u] # "wrap"
      /\ UNCHANGED <<id, slot, sq, tail, nextid, cq, phase, fetched, active, bell, ctail, cphase>>
  BY DEF Advance, Goes, device
<1>2. QueueTypes /\ Placed
  BY DEF QueueInv
<1>3. head = bell /\ head \in 0..(CqSize - 1) /\ First = head /\ Lap = phase
  BY <1>1, HeadIs
<1>4. head \in Answered /\ cq[head].id = id[t]
  BY <1>1, <1>3 DEF QueueInv, Found
<1>5. ctail # head
  BY <1>2, <1>3, <1>4, RingEmpty, SizesAre DEF Answered, QueueTypes
<1>6. /\ First' = (head + 1) % CqSize /\ First' \in 0..(CqSize - 1)
      /\ First' = IF head + 1 = CqSize THEN 0 ELSE head + 1
      /\ Lap' = IF head + 1 = CqSize THEN 1 - phase ELSE phase
  BY <1>1, <1>3, SizesAre, After DEF First, Lap
<1>7. Answered' = Answered \ {head}
  <2>1. InQueue((head + 1) % CqSize, ctail, CqSize) = Answered \ {head}
    BY <1>2, <1>3, <1>5, SizesAre, RingTake DEF QueueTypes, Answered
  <2> QED
    BY <1>1, <1>6, <2>1 DEF Answered, InQueue
<1> QED
  BY <1>3, <1>4, <1>5, <1>6, <1>7

\* The answer a task has found leaves the completion queue, and no other.
LEMMA AdvanceInv == ASSUME QueueInv, NEW t \in Tasks, Advance(t) PROVE QueueInv'
<1>1. /\ op[t] = "advance" /\ op' = [op EXCEPT ![t] = "wrap"] /\ head' = head + 1
      /\ \A u \in Tasks : op[u] # "wrap"
      /\ UNCHANGED <<id, slot, sq, tail, nextid, cq, phase, fetched, active, bell, ctail, cphase>>
  BY DEF Advance, Goes, device
<1>2. QueueTypes /\ Placed
  BY DEF QueueInv
<1>3. head = bell /\ head \in 0..(CqSize - 1) /\ First = head /\ Lap = phase
  BY AdvanceIs
<1>4. head \in Answered /\ cq[head].id = id[t]
  BY AdvanceIs
<1>5. ctail # head
  BY AdvanceIs
<1>6. /\ First' \in 0..(CqSize - 1)
      /\ First' = IF head + 1 = CqSize THEN 0 ELSE head + 1
      /\ Lap' = IF head + 1 = CqSize THEN 1 - phase ELSE phase
  BY AdvanceIs
<1>7. Answered' = Answered \ {head}
  BY AdvanceIs
<1>8. QueueTypes'
  BY <1>1, <1>2, <1>3, SizesAre DEF QueueTypes, Ops
<1>9. \A u \in Tasks : op'[u] = IF u = t THEN "wrap" ELSE op[u]
  BY <1>1, <1>2 DEF QueueTypes
<1>10. Waiting' = Waiting \ {t} /\ t \in Waiting
  BY <1>1, <1>9 DEF Waiting
<1>11. Submitted' = Submitted
  BY <1>1 DEF Submitted, InQueue
<1>12. Locked'
  BY <1>1, <1>3, <1>5, <1>9 DEF Locked
<1>13. Phases'
  <2>1. /\ cphase = IF ctail >= head THEN phase ELSE 1 - phase
        /\ \A i \in 0..(CqSize - 1) :
             cq[i].phase = IF i \in Answered <=> i >= head THEN phase ELSE 1 - phase
    BY <1>3 DEF QueueInv, Phases
  <2>2. phase \in {0, 1} /\ ctail \in 0..(CqSize - 1) /\ cphase \in {0, 1}
    BY <1>2 DEF QueueTypes
  <2>3. cphase = IF ctail >= First' THEN Lap' ELSE 1 - Lap'
    BY <1>3, <1>5, <1>6, <2>1, <2>2, SizesAre
  <2>4. ASSUME NEW i \in 0..(CqSize - 1)
        PROVE  cq[i].phase = IF i \in Answered' <=> i >= First' THEN Lap' ELSE 1 - Lap'
    <3>1. i \in Answered' <=> i \in Answered /\ i # head
      BY <1>7
    <3> QED
      BY <1>3, <1>4, <1>6, <2>1, <2>2, <3>1, SizesAre
  <2> QED
    BY <1>1, <2>3, <2>4 DEF Phases
<1>14. \A u \in Waiting : u \in Tasks /\ (u # t => id[u] # id[t])
  BY <1>2, <1>10 DEF Waiting, Placed, Distinct
<1>15. Passed'
  <2> SUFFICES ASSUME NEW u \in Tasks, op'[u] = "match", slot[u] < CqSize, slot[u] # head + 1
               PROVE  cq[slot[u]].id # id[u]
    BY <1>1 DEF Passed
  <2>1. op[u] = "match" /\ u # t
    BY <1>9
  <2>2. CASE slot[u] = head
    <3>1. id[u] # id[t]
      BY <1>14, <2>1 DEF Waiting
    <3> QED
      BY <1>4, <2>2, <3>1
  <2>3. CASE slot[u] # head
    BY <2>1, <2>3 DEF QueueInv, Passed
  <2> QED
    BY <2>2, <2>3
<1>16. Found'
  <2> SUFFICES ASSUME NEW u \in Tasks, op'[u] = "advance" PROVE FALSE
    BY DEF Found
  <2>1. op[u] = "advance" /\ u # t
    BY <1>9
  <2>2. cq[head].id = id[u]
    BY <1>3, <2>1 DEF QueueInv, Found
  <2> QED
    BY <1>4, <1>14, <2>1, <2>2 DEF Waiting
<1>17. ASSUME NEW u \in Waiting, u # t
       PROVE  Command(u)' = Command(u) /\ InSq(u)' = InSq(u) /\ InHand(u)' = InHand(u) /\ InCq(u)' = InCq(u)
  <2>1. Command(u)' = Command(u) /\ InSq(u)' = InSq(u) /\ InHand(u)' = InHand(u)
    BY <1>1, <1>11 DEF InSq, InHand, Command
  <2>2. InCq(u)' = InCq(u)
    BY <1>1, <1>4, <1>7, <1>14, <1>17 DEF InCq
  <2> QED
    BY <2>1, <2>2
<1>18. InCq(t) /\ Command(t)' = Command(t)
  BY <1>1, <1>4 DEF InCq, Command
<1>19. Placed'
  <2>1. Distinct'
    BY <1>1, <1>2, <1>10 DEF Placed, Distinct
  <2>2. \A i \in Submitted' : \E u \in Waiting' : sq'[i] = Command(u)'
    <3> SUFFICES ASSUME NEW i \in Submitted PROVE \E u \in Waiting \ {t} : sq[i] = Command(u)'
      BY <1>1, <1>10, <1>11
    <3>1. PICK u \in Waiting : sq[i] = Command(u)
      BY <1>2 DEF Placed
    <3>2. u # t
      BY <1>2, <1>10, <1>18, <3>1 DEF Placed, InSq
    <3> QED
      BY <1>17, <3>1, <3>2
  <2>3. \A i, j \in Submitted' : sq'[i] = sq'[j] => i = j
    BY <1>1, <1>2, <1>11 DEF Placed
  <2>4. \A c \in active' : \E u \in Waiting' : c = Command(u)'
    <3> SUFFICES ASSUME NEW c \in active PROVE \E u \in Waiting \ {t} : c = Command(u)'
      BY <1>1, <1>10
    <3>1. PICK u \in Waiting : c = Command(u)
      BY <1>2 DEF Placed
    <3>2. u # t
      BY <1>2, <1>10, <1>18, <3>1 DEF Placed, InHand
    <3> QED
      BY <1>17, <3>1, <3>2
  <2>5. \A i \in Answered' : \E u \in Waiting' : cq'[i].id = id'[u]
    <3> SUFFICES ASSUME NEW i \in Answered, i # head PROVE \E u \in Waiting \ {t} : cq[i].id = id[u]
      BY <1>1, <1>7, <1>10
    <3>1. PICK u \in Waiting : cq[i].id = id[u]
      BY <1>2 DEF Placed
    <3>2. u # t
      BY <1>2, <1>4, <3>1 DEF Placed
    <3> QED
      BY <3>1, <3>2
  <2>6. \A i, j \in Answered' : cq'[i].id = cq'[j].id => i = j
    BY <1>1, <1>2, <1>7 DEF Placed
  <2>7. \A u \in Waiting' : /\ InSq(u)' \/ InHand(u)' \/ InCq(u)'
                            /\ ~(InSq(u)' /\ InHand(u)') /\ ~(InSq(u)' /\ InCq(u)') /\ ~(InHand(u)' /\ InCq(u)')
    BY <1>2, <1>10, <1>17 DEF Placed
  <2> QED
    BY <2>1, <2>2, <2>3, <2>4, <2>5, <2>6, <2>7 DEF Placed
<1> QED
  BY <1>8, <1>12, <1>13, <1>15, <1>16, <1>19 DEF QueueInv

\* A completion: an answer more, to a task whose command the controller had.
LEMMA CompleteIs ==
  ASSUME QueueInv, NEW c \in Commands, Complete(c)
  PROVE  \E t \in Waiting, ok \in BOOLEAN :
           /\ c = Command(t) /\ c.by = t /\ c.id = id[t] /\ InHand(t) /\ (ok => todo[t] = {} \/ "sct" \in Faults)
           /\ cq' = [cq EXCEPT ![ctail] = [id |-> c.id, phase |-> cphase, ok |-> ok]]
           /\ First' = First /\ Lap' = Lap /\ Submitted' = Submitted /\ Waiting' = Waiting
           /\ First \in 0..(CqSize - 1) /\ Lap \in {0, 1} /\ ctail' # First
           /\ ctail' = IF ctail + 1 = CqSize THEN 0 ELSE ctail + 1
           /\ ctail' \in 0..(CqSize - 1) /\ ctail \notin Answered /\ Answered' = Answered \cup {ctail}
           /\ cq'[ctail].ok = ok /\ cq'[ctail].id = id[t] /\ cq'[ctail].phase = cphase
           /\ \A i \in 0..(CqSize - 1) : i # ctail => cq'[i] = cq[i]
<1>1. PICK ok \in BOOLEAN :
        /\ cq' = [cq EXCEPT ![ctail] = [id |-> c.id, phase |-> cphase, ok |-> ok]]
        /\ ok => todo[c.by] = {} \/ "sct" \in Faults
  BY DEF Complete
<1>2. /\ c \in active /\ (ctail + 1) % CqSize # bell /\ active' = active \ {c}
      /\ ctail' = (ctail + 1) % CqSize
      /\ cphase' = IF ctail + 1 = CqSize THEN 1 - cphase ELSE cphase
      /\ UNCHANGED <<op, id, slot, sq, tail, nextid, head, phase, fetched, bell>>
  BY DEF Complete, caller
<1>3. QueueTypes /\ Placed
  BY DEF QueueInv
<1>4. PICK t \in Waiting : c = Command(t)
  BY <1>2, <1>3 DEF Placed
<1>5. c.id = id[t] /\ c.id \in 0..(IdMod - 1) /\ t \in Tasks
  BY <1>3, <1>4 DEF Command, Waiting, QueueTypes
<1>6. First' = First /\ Lap' = Lap /\ Submitted' = Submitted /\ Waiting' = Waiting
      /\ First \in 0..(CqSize - 1) /\ Lap \in {0, 1}
  BY <1>2, <1>3, RingsAre DEF First, Lap, Submitted, Waiting, InQueue
<1>7. ctail \in 0..(CqSize - 1) /\ bell \in 0..(CqSize - 1)
  BY <1>3 DEF QueueTypes
<1>8. (ctail + 1) % CqSize # First
  <2>1. CASE \A u \in Tasks : op[u] # "wrap"
    BY <1>2, <2>1, HeadIs
  <2>2. CASE \E u \in Tasks : op[u] = "wrap"
    <3>1. head = bell + 1 /\ ctail # bell
      BY <2>2 DEF QueueInv, Locked
    <3>2. First = IF bell + 1 = CqSize THEN 0 ELSE bell + 1
      BY <3>1 DEF First
    <3>3. (ctail + 1) % CqSize = IF ctail + 1 = CqSize THEN 0 ELSE ctail + 1
      BY <1>7, SizesAre, After
    <3> QED
      BY <1>7, <3>1, <3>2, <3>3, SizesAre
  <2> QED
    BY <2>1, <2>2
<1>9. ctail' \in 0..(CqSize - 1) /\ ctail \notin Answered /\ Answered' = Answered \cup {ctail}
  <2>1. /\ (ctail + 1) % CqSize \in 0..(CqSize - 1) /\ ctail \notin Answered
        /\ InQueue(First, (ctail + 1) % CqSize, CqSize) = Answered \cup {ctail}
    BY <1>6, <1>7, <1>8, SizesAre, RingPut DEF Answered
  <2> QED
    BY <1>2, <1>6, <2>1 DEF Answered, InQueue
<1>10. ctail' = IF ctail + 1 = CqSize THEN 0 ELSE ctail + 1
  BY <1>2, <1>7, SizesAre, After
<1>11. /\ \A i \in 0..(CqSize - 1) : i # ctail => cq'[i] = cq[i]
       /\ cq'[ctail].ok = ok /\ cq'[ctail].id = id[t] /\ cq'[ctail].phase = cphase
  <2>1. cq' = [cq EXCEPT ![ctail] = [id |-> c.id, phase |-> cphase, ok |-> ok]]
    BY <1>1
  <2>2. DOMAIN cq = 0..(CqSize - 1)
    BY <1>3 DEF QueueTypes
  <2>3. cq'[ctail] = [id |-> c.id, phase |-> cphase, ok |-> ok]
    BY <1>7, <2>1, <2>2
  <2>4. \A i \in 0..(CqSize - 1) : i # ctail => cq'[i] = cq[i]
    BY <2>1, <2>2
  <2> QED
    BY <1>5, <2>3, <2>4
<1>12. c = Command(t) /\ c.by = t /\ InHand(t)
  BY <1>2, <1>4 DEF Command, InHand
<1>13. ctail' # First
  BY <1>2, <1>8
<1>14. ok => todo[t] = {} \/ "sct" \in Faults
  BY <1>1, <1>12
<1>15. cq' = [cq EXCEPT ![ctail] = [id |-> c.id, phase |-> cphase, ok |-> ok]]
  BY <1>1
<1> WITNESS t \in Waiting, ok \in BOOLEAN
<1> QED
  BY <1>5, <1>6, <1>9, <1>10, <1>11, <1>12, <1>13, <1>14, <1>15

\* A command goes from the controller to the completion queue, and what tasks have in
\* their hands stays.
LEMMA CompleteInv ==
  ASSUME QueueInv, "lap" \notin Faults, NEW c \in Commands, Complete(c)
  PROVE  QueueInv'
<1>2. /\ c \in active /\ (ctail + 1) % CqSize # bell /\ ~HeldOver /\ active' = active \ {c}
      /\ ctail' = (ctail + 1) % CqSize
      /\ cphase' = IF ctail + 1 = CqSize THEN 1 - cphase ELSE cphase
      /\ UNCHANGED <<op, id, slot, sq, tail, nextid, head, phase, fetched, bell>>
  BY DEF Complete, caller
<1>3. QueueTypes /\ Placed
  BY DEF QueueInv
<1>4. PICK t \in Waiting, ok \in BOOLEAN :
           /\ c = Command(t) /\ c.by = t /\ c.id = id[t] /\ InHand(t) /\ (ok => todo[t] = {} \/ "sct" \in Faults)
           /\ cq' = [cq EXCEPT ![ctail] = [id |-> c.id, phase |-> cphase, ok |-> ok]]
           /\ First' = First /\ Lap' = Lap /\ Submitted' = Submitted /\ Waiting' = Waiting
           /\ First \in 0..(CqSize - 1) /\ Lap \in {0, 1} /\ ctail' # First
           /\ ctail' = IF ctail + 1 = CqSize THEN 0 ELSE ctail + 1
           /\ ctail' \in 0..(CqSize - 1) /\ ctail \notin Answered /\ Answered' = Answered \cup {ctail}
           /\ cq'[ctail].ok = ok /\ cq'[ctail].id = id[t] /\ cq'[ctail].phase = cphase
           /\ \A i \in 0..(CqSize - 1) : i # ctail => cq'[i] = cq[i]
  BY CompleteIs
<1>1. cq' = [cq EXCEPT ![ctail] = [id |-> c.id, phase |-> cphase, ok |-> ok]]
  BY <1>4
<1>5. c.id = id[t] /\ c.id \in 0..(IdMod - 1) /\ t \in Tasks
  BY <1>3, <1>4 DEF Waiting, QueueTypes
<1>6. First' = First /\ Lap' = Lap /\ Submitted' = Submitted /\ Waiting' = Waiting
      /\ First \in 0..(CqSize - 1) /\ Lap \in {0, 1}
  BY <1>4
<1>7. ctail \in 0..(CqSize - 1) /\ bell \in 0..(CqSize - 1)
  BY <1>3 DEF QueueTypes
<1>9. ctail' \in 0..(CqSize - 1) /\ ctail \notin Answered /\ Answered' = Answered \cup {ctail}
  BY <1>4
<1>10. ctail' = IF ctail + 1 = CqSize THEN 0 ELSE ctail + 1
  BY <1>4
<1>11. cphase \in {0, 1} /\ cphase' \in {0, 1}
  BY <1>2, <1>3 DEF QueueTypes
<1>12. QueueTypes'
  <2>1. [id |-> c.id, phase |-> cphase, ok |-> ok] \in [id : 0..(IdMod - 1), phase : {0, 1}, ok : BOOLEAN]
    BY <1>5, <1>11
  <2> QED
    BY <1>1, <1>2, <1>3, <1>9, <1>11, <2>1 DEF QueueTypes
<1>13. /\ \A i \in 0..(CqSize - 1) : i # ctail => cq'[i] = cq[i]
       /\ cq'[ctail].id = id[t] /\ cq'[ctail].phase = cphase
  BY <1>4
<1>14. Locked'
  <2>1. (ctail + 1) % CqSize # bell
    BY <1>2
  <2> QED
    BY <1>2, <2>1 DEF QueueInv, Locked
<1>15. Phases'
  <2>1. /\ cphase = IF ctail >= First THEN Lap ELSE 1 - Lap
        /\ \A i \in 0..(CqSize - 1) :
             cq[i].phase = IF i \in Answered <=> i >= First THEN Lap ELSE 1 - Lap
    BY DEF QueueInv, Phases
  <2>2. cphase' = IF ctail' >= First THEN Lap ELSE 1 - Lap
    <3>1. ctail' # First
      BY <1>4
    <3> QED
      BY <1>2, <1>6, <1>7, <1>10, <2>1, <3>1, SizesAre
  <2>3. ASSUME NEW i \in 0..(CqSize - 1)
        PROVE  cq'[i].phase = IF i \in Answered' <=> i >= First THEN Lap ELSE 1 - Lap
    <3>1. i \in Answered' <=> i \in Answered \/ i = ctail
      BY <1>9
    <3>2. CASE i = ctail
      BY <1>13, <2>1, <3>1, <3>2
    <3>3. CASE i # ctail
      BY <1>13, <2>1, <3>1, <3>3
    <3> QED
      BY <3>2, <3>3
  <2> QED
    BY <1>6, <2>2, <2>3 DEF Phases
<1>16. Passed'
  <2> SUFFICES ASSUME NEW u \in Tasks, op[u] = "match", slot[u] < CqSize, slot[u] # head
               PROVE  cq'[slot[u]].id # id[u]
    BY <1>2 DEF Passed
  <2>1. slot[u] \in 0..(CqSize - 1) /\ cq[slot[u]].id # id[u]
    BY <1>3, SizesAre DEF QueueInv, Passed, QueueTypes
  <2>2. slot[u] # ctail
    BY <1>2 DEF HeldOver
  <2> QED
    BY <1>13, <2>1, <2>2
<1>17. Found'
  <2> SUFFICES ASSUME NEW u \in Tasks, op[u] = "advance"
               PROVE  First \in Answered' /\ cq'[First].id = id[u]
    BY <1>2, <1>6 DEF Found
  <2>1. First \in Answered /\ cq[First].id = id[u]
    BY DEF QueueInv, Found
  <2> QED
    BY <1>6, <1>9, <1>13, <2>1
<1>18. \A u \in Waiting : Command(u)' = Command(u) /\ u \in Tasks /\ (u # t => Command(u) # c /\ id[u] # id[t])
  BY <1>2, <1>3, <1>4 DEF Waiting, Command, Placed, Distinct
<1>19. InHand(t) /\ ~InSq(t)' /\ ~InHand(t)' /\ InCq(t)'
  <2>1. InHand(t)
    BY <1>2, <1>4 DEF InHand
  <2>2. ~InSq(t)'
    BY <1>2, <1>3, <1>6, <1>18, <2>1 DEF InSq, Placed
  <2>3. ~InHand(t)'
    BY <1>2, <1>4, <1>18 DEF InHand
  <2>4. InCq(t)'
    BY <1>2, <1>9, <1>13 DEF InCq
  <2> QED
    BY <2>1, <2>2, <2>3, <2>4
<1>20. \A i \in Answered : i # ctail /\ cq'[i] = cq[i]
  BY <1>3, <1>9, <1>13, RingsAre
<1>21. ASSUME NEW u \in Waiting, u # t PROVE InSq(u)' = InSq(u) /\ InHand(u)' = InHand(u) /\ InCq(u)' = InCq(u)
  <2>1. InSq(u)' = InSq(u)
    BY <1>2, <1>6, <1>18 DEF InSq
  <2>2. InHand(u)' = InHand(u)
    BY <1>2, <1>18, <1>21 DEF InHand
  <2>3. InCq(u)' = InCq(u)
    BY <1>2, <1>9, <1>13, <1>18, <1>20, <1>21 DEF InCq
  <2> QED
    BY <2>1, <2>2, <2>3
<1>22. Placed'
  <2>1. Distinct'
    BY <1>2, <1>3, <1>6 DEF Placed, Distinct
  <2>2. \A i \in Submitted' : \E u \in Waiting' : sq'[i] = Command(u)'
    BY <1>2, <1>3, <1>6, <1>18 DEF Placed
  <2>3. \A i, j \in Submitted' : sq'[i] = sq'[j] => i = j
    BY <1>2, <1>3, <1>6 DEF Placed
  <2>4. \A d \in active' : \E u \in Waiting' : d = Command(u)'
    BY <1>2, <1>3, <1>6, <1>18 DEF Placed
  <2>5. \A i \in Answered' : \E u \in Waiting' : cq'[i].id = id'[u]
    BY <1>2, <1>3, <1>6, <1>9, <1>13, <1>20 DEF Placed
  <2>6. \A i, j \in Answered' : cq'[i].id = cq'[j].id => i = j
    <3>1. \A i \in Answered : cq[i].id # id[t]
      BY <1>3, <1>19 DEF Placed, InCq
    <3> QED
      BY <1>3, <1>9, <1>13, <1>20, <3>1 DEF Placed
  <2>7. \A u \in Waiting' : /\ InSq(u)' \/ InHand(u)' \/ InCq(u)'
                            /\ ~(InSq(u)' /\ InHand(u)') /\ ~(InSq(u)' /\ InCq(u)') /\ ~(InHand(u)' /\ InCq(u)')
    BY <1>3, <1>6, <1>19, <1>21 DEF Placed
  <2> QED
    BY <2>1, <2>2, <2>3, <2>4, <2>5, <2>6, <2>7 DEF Placed
<1> QED
  BY <1>12, <1>14, <1>15, <1>16, <1>17, <1>22 DEF QueueInv

\* Every step keeps the queues in order.
LEMMA QueueInvNext ==
  ASSUME "lap" \notin Faults, "overrun" \notin Faults, QueueInv, FreshIds, [Next]_vars
  PROVE  QueueInv'
<1>1. CASE UNCHANGED vars
  BY <1>1, StillInv DEF vars, caller, queues, device
<1>2. ASSUME NEW t \in Tasks, Request(t) \/ Step(t) PROVE QueueInv'
  BY <1>2, RequestInv, SubmitInv, LookInv, MatchInv, AdvanceInv, WrapInv, StatusInv DEF Step
<1>3. ASSUME NEW c \in Commands, Move(c) PROVE QueueInv'
  BY <1>3, StillInv DEF Move, queues
<1>4. ASSUME NEW t \in Tasks, Work(t) PROVE QueueInv'
  BY <1>3, <1>4, CompleteInv DEF Work
<1>5. CASE Fetch
  BY <1>5, FetchInv
<1> QED
  BY <1>1, <1>2, <1>4, <1>5 DEF Next

\* The inductive invariant holds as long as identifiers are fresh.
LEMMA QueuesAlways ==
  ASSUME "lap" \notin Faults, "overrun" \notin Faults, Tasks # {}
  PROVE  Spec /\ []FreshIds => []QueueInv
<1>1. Init => QueueInv
  BY QueueInvInit, IdsAre
<1>2. QueueInv /\ FreshIds /\ [Next]_vars => QueueInv'
  BY QueueInvNext
<1> QED
  BY <1>1, <1>2, PTL DEF Spec

\* A command is at one place until its task takes the answer.
THEOREM CommandsOnceInFlight ==
  ASSUME "lap" \notin Faults, "overrun" \notin Faults
  PROVE  Spec /\ []FreshIds => []OnceInFlight
<1>1. CASE Tasks = {}
  <2>1. OnceInFlight
    BY <1>1 DEF OnceInFlight, Waiting
  <2> QED
    BY <2>1, PTL
<1>2. CASE Tasks # {}
  BY <1>2, QueuesAlways, OnceIs, PTL
<1> QED
  BY <1>1, <1>2

-----------------------------------------------------------------------------
(* Bytes and logical blocks.                                               *)

\* The sizes of the disk.
LEMMA DiskIs ==
  /\ LbaSize \in Nat /\ LbaSize > 0 /\ LbaCount \in Nat /\ LbaCount > 0 /\ ChunkLbas \in Nat /\ ChunkLbas > 0
  /\ LbaSize * LbaCount \in Nat /\ Bytes = 0..(LbaSize * LbaCount - 1)
  /\ MaxCalls \in Nat
BY SizeAssumption DEF Bytes

\* The numbers alone.
LEMMA NumbersAre ==
  LbaSize \in Nat /\ LbaSize > 0 /\ LbaCount \in Nat /\ LbaCount > 0 /\ ChunkLbas \in Nat /\ ChunkLbas > 0
BY SizeAssumption

\* A number is the quotient, times the divisor, and the remainder.
LEMMA DivMod ==
  ASSUME NEW m \in Nat, m > 0, NEW a \in Int
  PROVE  a \div m \in Int /\ a % m \in 0..(m - 1) /\ a = m * (a \div m) + (a % m)
OBVIOUS

\* The parts of a request.
LEMMA RequestIs ==
  ASSUME NEW r \in Requests
  PROVE  r.kind \in {"read", "write"} /\ r.off \in Nat /\ r.len \in Nat /\ r.len > 0
<1>1. PICK k \in {"read", "write"}, x \in Ranges : r = [kind |-> k, off |-> x[1], len |-> x[2]]
  BY DEF Requests
<1>2. x \in Nat \X (Nat \ {0})
  BY SizeAssumption
<1> QED
  BY <1>1, <1>2

\* Multiples keep their order.
LEMMA Multiples ==
  ASSUME NEW m \in Nat, NEW a \in Int, NEW b \in Int, a <= b
  PROVE  m * a \in Int /\ m * b \in Int /\ m * a <= m * b
<1>1. b - a \in Nat
  OBVIOUS
<1>2. m * (b - a) >= 0
  BY <1>1
<1>3. m * (b - a) = m * b - m * a /\ m * a \in Int /\ m * b \in Int
  OBVIOUS
<1> QED
  BY <1>2, <1>3

\* The logical block of a byte.
LEMMA BlockIs ==
  ASSUME NEW m \in Nat, m > 0, NEW b \in Int, NEW l \in Int
  PROVE  /\ b \div m \in Int /\ m * l \in Int /\ m * (l + 1) = m * l + m
         /\ b \div m = l <=> m * l <= b /\ b < m * l + m
<1>1. PICK q, e : q = b \div m /\ e = b % m
  OBVIOUS
<1>2. q \in Int /\ e \in 0..(m - 1) /\ b = m * q + e
  BY <1>1
<1>3. m * l \in Int /\ m * q \in Int /\ m * (l + 1) = m * l + m
  BY <1>2
<1>4. l + 1 <= q => m * l + m <= m * q
  BY <1>2, <1>3, Multiples
<1>5. q + 1 <= l => m * q + m <= m * l
  <2>1. m * (q + 1) = m * q + m
    BY <1>2
  <2> QED
    BY <1>2, <1>3, <2>1, Multiples
<1>6. q = l => m * q = m * l
  OBVIOUS
<1>7. q = l <=> m * l <= b /\ b < m * l + m
  BY <1>2, <1>3, <1>4, <1>5, <1>6
<1> QED
  BY <1>1, <1>2, <1>3, <1>7

\* How many logical blocks a request has.
LEMMA LbasAre ==
  ASSUME NEW r \in Requests
  PROVE  /\ StartLba(r) \in Nat /\ LbasOf(r) \in Nat /\ LbasOf(r) > 0 /\ EndLba(r) = StartLba(r) + LbasOf(r)
         /\ TotalMem(r) = LbaSize * LbasOf(r) /\ r.off % LbaSize \in 0..(LbaSize - 1)
         /\ r.off = LbaSize * StartLba(r) + (r.off % LbaSize)
         /\ r.len + (r.off % LbaSize) <= LbaSize * LbasOf(r)
         /\ LbaSize * LbasOf(r) < r.len + (r.off % LbaSize) + LbaSize
<1>1. r.off \in Nat /\ r.len \in Nat /\ r.len > 0
  BY RequestIs
<1>2. PICK s, o : s = r.off \div LbaSize /\ o = r.off % LbaSize
  OBVIOUS
<1>3. s \in Int /\ o \in 0..(LbaSize - 1) /\ r.off = LbaSize * s + o
  <2>1. /\ r.off \div LbaSize \in Int /\ r.off % LbaSize \in 0..(LbaSize - 1)
        /\ r.off = LbaSize * (r.off \div LbaSize) + (r.off % LbaSize)
    <3>1. r.off \in Int
      BY <1>1
    <3> QED
      BY <3>1, NumbersAre, DivMod
  <2> QED
    BY <1>2, <2>1
<1>4. s \in Nat
  <2>1. s <= -1 => LbaSize * s <= LbaSize * (-1)
    BY <1>3, DiskIs, Multiples
  <2>2. LbaSize * (-1) = -LbaSize /\ LbaSize * s \in Int
    BY <1>3, DiskIs
  <2> QED
    BY <1>1, <1>3, <2>1, <2>2, DiskIs
<1>5. PICK x, k, e : x = r.len + o /\ k = (x + LbaSize - 1) \div LbaSize /\ e = (x + LbaSize - 1) % LbaSize
  OBVIOUS
<1>6. k \in Int /\ e \in 0..(LbaSize - 1) /\ x + LbaSize - 1 = LbaSize * k + e /\ LbaSize * k \in Int /\ x \in Nat /\ x > 0
  <2>1. x \in Nat /\ x > 0
    BY <1>1, <1>3, <1>5, NumbersAre
  <2>2. k \in Int /\ e \in 0..(LbaSize - 1) /\ x + LbaSize - 1 = LbaSize * k + e
    BY <1>5, <2>1, NumbersAre, DivMod
  <2> QED
    BY <2>1, <2>2, NumbersAre
<1>7. k > 0
  <2>1. k <= 0 => LbaSize * k <= LbaSize * 0
    BY <1>6, DiskIs, Multiples
  <2> QED
    BY <1>6, <2>1, DiskIs
<1>8. TotalMem(r) = k * LbaSize /\ k * LbaSize = LbaSize * k
  BY <1>2, <1>5, <1>6, DiskIs DEF TotalMem, RoundUp
<1>9. LbasOf(r) = k
  BY <1>6, <1>8, DiskIs, BlockIs DEF LbasOf
<1>10. x <= LbaSize * k /\ LbaSize * k < x + LbaSize
  BY <1>6, NumbersAre
<1>11. StartLba(r) = s /\ EndLba(r) = s + k
  BY <1>2, <1>9 DEF StartLba, EndLba
<1>12. /\ StartLba(r) \in Nat /\ LbasOf(r) \in Nat /\ LbasOf(r) > 0 /\ EndLba(r) = StartLba(r) + LbasOf(r)
       /\ TotalMem(r) = LbaSize * LbasOf(r)
  BY <1>4, <1>6, <1>7, <1>8, <1>9, <1>11
<1>13. /\ r.off % LbaSize \in 0..(LbaSize - 1)
       /\ r.off = LbaSize * StartLba(r) + (r.off % LbaSize)
  BY <1>2, <1>3, <1>11
<1>14. /\ r.len + (r.off % LbaSize) <= LbaSize * LbasOf(r)
       /\ LbaSize * LbasOf(r) < r.len + (r.off % LbaSize) + LbaSize
  BY <1>2, <1>5, <1>9, <1>10
<1> QED
  BY <1>12, <1>13, <1>14

\* A request within the disk names bytes of its logical blocks only, of each of them, and of a
\* whole number of them all.
LEMMA BlocksAre ==
  ASSUME NEW r \in Requests, ~OutOfBounds(r)
  PROVE  /\ StartLba(r) \in Nat /\ EndLba(r) \in Nat /\ StartLba(r) < EndLba(r) /\ EndLba(r) <= LbaCount
         /\ Named(r) \subseteq Bytes
         /\ \A b \in Named(r) : b \div LbaSize \in StartLba(r)..(EndLba(r) - 1)
         /\ \A l \in StartLba(r)..(EndLba(r) - 1) : \E b \in Named(r) : b \div LbaSize = l
         /\ Exact(r) => \A b \in Bytes : b \div LbaSize \in StartLba(r)..(EndLba(r) - 1) => b \in Named(r)
<1>1. PICK s, k, o, e : s = StartLba(r) /\ k = LbasOf(r) /\ o = r.off % LbaSize /\ e = EndLba(r)
  OBVIOUS
<1>2. /\ s \in Nat /\ k \in Nat /\ k > 0 /\ e = s + k /\ TotalMem(r) = LbaSize * k /\ o \in 0..(LbaSize - 1)
      /\ r.off = LbaSize * s + o /\ r.len + o <= LbaSize * k /\ LbaSize * k < r.len + o + LbaSize
  BY <1>1, LbasAre
<1>3. r.off \in Nat /\ r.len \in Nat /\ r.len > 0
  BY RequestIs
<1>4. e \in Nat /\ e <= LbaCount
  <2>1. ~(e > LbaCount)
    BY <1>1 DEF OutOfBounds
  <2>2. e \in Nat
    BY <1>2
  <2> QED
    BY <2>1, <2>2, NumbersAre
<1>5. /\ LbaSize * s \in Int /\ LbaSize * k \in Int /\ LbaSize * e = LbaSize * s + LbaSize * k
      /\ LbaSize * e <= LbaSize * LbaCount
  BY <1>2, <1>4, DiskIs, Multiples
<1>6. ASSUME NEW b \in Named(r) PROVE b \in Int /\ LbaSize * s <= b /\ b < LbaSize * e
  BY <1>2, <1>3, <1>5, DiskIs DEF Named
<1>7. LbaSize * s >= 0
  BY <1>2, DiskIs
<1>8. Named(r) \subseteq Bytes
  BY <1>5, <1>6, <1>7, DiskIs
<1>9. ASSUME NEW b \in Int PROVE b \div LbaSize \in s..(e - 1) <=> LbaSize * s <= b /\ b < LbaSize * e
  <2>1. PICK l : l = b \div LbaSize
    OBVIOUS
  <2>2. l \in Int /\ LbaSize * l <= b /\ b < LbaSize * l + LbaSize /\ LbaSize * l \in Int /\ LbaSize * (l + 1) = LbaSize * l + LbaSize
    BY <2>1, BlockIs, DiskIs
  <2>3. s <= l => LbaSize * s <= LbaSize * l
    BY <1>2, <2>2, DiskIs, Multiples
  <2>4. l + 1 <= s => LbaSize * (l + 1) <= LbaSize * s
    BY <1>2, <2>2, DiskIs, Multiples
  <2>5. l + 1 <= e => LbaSize * (l + 1) <= LbaSize * e
    BY <1>4, <2>2, DiskIs, Multiples
  <2>6. e <= l => LbaSize * e <= LbaSize * l
    BY <1>4, <2>2, DiskIs, Multiples
  <2>7. l \in s..(e - 1) <=> LbaSize * s <= b /\ b < LbaSize * e
    <3>1. PICK S, E, B : S = LbaSize * s /\ E = LbaSize * e /\ B = LbaSize * l
      OBVIOUS
    <3>2. S \in Int /\ E \in Int /\ B \in Int
      BY <1>2, <1>4, <2>2, <3>1, NumbersAre
    <3>3. B <= b /\ b < B + LbaSize /\ (s <= l => S <= B) /\ (l + 1 <= s => B + LbaSize <= S)
      BY <2>2, <2>3, <2>4, <3>1
    <3>4. (l + 1 <= e => B + LbaSize <= E) /\ (e <= l => E <= B)
      BY <2>2, <2>5, <2>6, <3>1
    <3>5. l \in s..(e - 1) <=> S <= b /\ b < E
      BY ONLY <1>2, <1>4, <2>2, <3>2, <3>3, <3>4, NumbersAre, b \in Int
    <3> QED
      BY <3>1, <3>5
  <2> QED
    BY <2>1, <2>7
<1>10. \A b \in Named(r) : b \div LbaSize \in s..(e - 1)
  BY <1>6, <1>9
<1>11. ASSUME NEW l \in s..(e - 1) PROVE \E b \in Named(r) : b \div LbaSize = l
  <2>1. CASE l = s
    <3>1. r.off \in Named(r)
      BY <1>3 DEF Named
    <3> QED
      BY <1>1, <2>1, <3>1 DEF StartLba
  <2>2. CASE l > s
    <3>1. l \in Int /\ LbaSize * l \in Int /\ LbaSize * l + LbaSize <= LbaSize * e
      <4>1. l \in Int /\ l + 1 <= e /\ LbaSize * (l + 1) = LbaSize * l + LbaSize /\ LbaSize * l \in Int
        BY <1>2, <1>4, BlockIs, DiskIs
      <4>2. LbaSize * (l + 1) <= LbaSize * e
        BY <1>4, <4>1, DiskIs, Multiples
      <4> QED
        BY <4>1, <4>2
    <3>2. LbaSize * s + LbaSize <= LbaSize * l
      <4>1. s + 1 <= l /\ LbaSize * (s + 1) = LbaSize * s + LbaSize
        BY <1>2, <2>2, <3>1, DiskIs
      <4> QED
        BY <1>2, <3>1, <4>1, DiskIs, Multiples
    <3>3. LbaSize * l \in Named(r)
      <4>1. PICK S, K, B : S = LbaSize * s /\ K = LbaSize * k /\ B = LbaSize * l
        OBVIOUS
      <4>2. S \in Int /\ K \in Int /\ B \in Int /\ B + LbaSize <= S + K /\ S + LbaSize <= B
        BY <1>5, <3>1, <3>2, <4>1
      <4>3. r.off = S + o /\ K < r.len + o + LbaSize
        BY <1>2, <4>1
      <4>4. B \in Named(r)
        BY ONLY <1>2, <1>3, <4>2, <4>3, NumbersAre DEF Named
      <4> QED
        BY <4>1, <4>4
    <3>4. (LbaSize * l) \div LbaSize = l
      BY <3>1, BlockIs, DiskIs
    <3> QED
      BY <3>3, <3>4
  <2> QED
    BY <1>2, <1>4, <2>1, <2>2
<1>12. ASSUME Exact(r), NEW b \in Bytes, b \div LbaSize \in s..(e - 1) PROVE b \in Named(r)
  <2>1. b \in Int /\ LbaSize * s <= b /\ b < LbaSize * e
    BY <1>9, <1>12, DiskIs
  <2>2. o = 0 /\ r.len = LbaSize * k
    BY <1>1, <1>2, <1>12 DEF Exact
  <2> QED
    BY <1>2, <1>3, <1>5, <2>1, <2>2, DiskIs DEF Named
<1> QED
  BY <1>1, <1>2, <1>4, <1>8, <1>10, <1>11, <1>12

-----------------------------------------------------------------------------
(* What the device sees.                                                   *)

\* The logical blocks of a request.
Span(r) == StartLba(r)..(EndLba(r) - 1)

\* The logical blocks that the pass a task is in has moved.
Passing(t) == StartLba(req[t])..(cur[t] - 1) \cup (IF op[t] = "submit" THEN {} ELSE Chunk(t) \ todo[t])

RequestTypes ==
  /\ req \in [Tasks -> Requests \cup {None}] /\ dir \in [Tasks -> {"read", "write"}]
  /\ cur \in [Tasks -> Nat] /\ buf \in [Tasks -> [Bytes -> Tasks \cup {None}]]
  /\ ret \in [Tasks -> {"length", "EIO", None}] /\ todo \in [Tasks -> SUBSET Nat]
  /\ disk \in [Bytes -> Tasks \cup {None}]

\* A task in a call has a request within the disk, is in a pass of it, and has chunks left.
Asked(t) ==
  /\ req[t] \in Requests /\ ~OutOfBounds(req[t])
  /\ dir[t] = "write" => req[t].kind = "write"
  /\ req[t].kind = "write" /\ Exact(req[t]) => dir[t] = "write"
  /\ StartLba(req[t]) <= cur[t] /\ cur[t] < EndLba(req[t])
  /\ op[t] # "submit" => todo[t] \subseteq Chunk(t)

\* What a task writes is its own bytes, and around them what is on the disk, which it has read.
Filled(t) ==
  /\ dir[t] = "write" =>
       \A b \in Bytes : b \div LbaSize \in Span(req[t]) =>
         buf[t][b] = IF b \in Named(req[t]) THEN t ELSE disk[b]
  /\ dir[t] = "read" /\ req[t].kind = "write" =>
       \A b \in Bytes : b \div LbaSize \in Passing(t) => buf[t][b] = disk[b]

Job(t) == IF op[t] = "user" THEN req[t] = None ELSE Asked(t) /\ Filled(t)

\* Nobody else writes to the logical blocks of a partial write.
Alone ==
  \A t, u \in Tasks : t # u /\ req[t] # None /\ req[u] # None => ~Overlap(req[t], req[u])

\* An answer of success means that everything was moved, and is not written over.
Told ==
  /\ \A t \in Tasks : op[t] = "advance" => slot[t] = First
  /\ \A t \in Waiting : \A i \in Answered : cq[i].id = id[t] /\ cq[i].ok => todo[t] = {}
  /\ \A t \in Tasks : op[t] \in {"wrap", "status"} =>
       slot[t] < CqSize /\ (cq[slot[t]].ok => todo[t] = {})

DeviceInv == RequestTypes /\ (\A t \in Tasks : Job(t)) /\ Alone /\ Told

\* A chunk ends within the request, and has a logical block.
LEMMA ChunkIs ==
  ASSUME RequestTypes, NEW t \in Tasks, Asked(t)
  PROVE  /\ ChunkLen(t) \in Nat /\ cur[t] \in Nat /\ cur[t] + ChunkLen(t) <= EndLba(req[t])
         /\ Chunk(t) = cur[t]..(cur[t] + ChunkLen(t) - 1) /\ ChunkLen(t) > 0
         /\ StartLba(req[t]) \in Nat /\ EndLba(req[t]) \in Nat /\ EndLba(req[t]) <= LbaCount
         /\ StartLba(req[t]) <= cur[t] /\ cur[t] < EndLba(req[t])
         /\ Chunk(t) \subseteq Span(req[t])
<1>1. /\ StartLba(req[t]) \in Nat /\ EndLba(req[t]) \in Nat /\ EndLba(req[t]) <= LbaCount
      /\ StartLba(req[t]) <= cur[t] /\ cur[t] < EndLba(req[t]) /\ cur[t] \in Nat
  BY BlocksAre DEF Asked, RequestTypes
<1>2. /\ ChunkLen(t) \in Nat /\ ChunkLen(t) > 0 /\ cur[t] + ChunkLen(t) <= EndLba(req[t])
  BY <1>1, NumbersAre DEF ChunkLen, Least
<1>3. Chunk(t) = cur[t]..(cur[t] + ChunkLen(t) - 1)
  BY DEF Chunk
<1>4. Chunk(t) \subseteq Span(req[t])
  BY <1>1, <1>2, <1>3 DEF Span
<1> QED
  BY <1>1, <1>2, <1>3, <1>4

\* The logical blocks of the bytes of a request.
LEMMA SpanIs ==
  ASSUME NEW r \in Requests, ~OutOfBounds(r)
  PROVE  Device!Blocks(r) = Span(r) /\ Device!Named(r) = Named(r) /\ Named(r) \subseteq Bytes
<1>1. Device!Named(r) = Named(r)
  BY DEF Device!Named, Named
<1>2. /\ \A b \in Named(r) : b \div LbaSize \in Span(r)
      /\ \A l \in Span(r) : \E b \in Named(r) : b \div LbaSize = l
  BY BlocksAre DEF Span
<1>3. Device!Blocks(r) = {b \div LbaSize : b \in Named(r)}
  BY <1>1 DEF Device!Blocks
<1> QED
  BY <1>1, <1>2, <1>3, BlocksAre

\* Partial writes and others: the relation is symmetric.
LEMMA OverlapSame ==
  ASSUME NEW r, NEW s, Overlap(r, s)
  PROVE  Overlap(s, r)
BY DEF Overlap

\* What a request has moved and found, for the device.
Finds(t) ==
  [b \in Bytes |-> IF req[t] # None /\ req[t].kind = "read" /\ b \in Named(req[t]) THEN buf[t][b] ELSE None]
Mapped == <<disk, req, [t \in Tasks |-> Moved(t)], [t \in Tasks |-> Finds(t)], ret>>

\* A task that goes on with what it had.
LEMMA StillJob ==
  ASSUME QueueTypes, RequestTypes, NEW t \in Tasks, Job(t),
         op'[t] = op[t] \/ (op[t] \notin {"user", "submit"} /\ op'[t] \notin {"user", "submit"}),
         req'[t] = req[t], dir'[t] = dir[t], cur'[t] = cur[t], buf'[t] = buf[t], todo'[t] = todo[t],
         \A b \in Bytes : disk'[b] = disk[b] \/ req[t] = None \/ b \div LbaSize \notin Span(req[t])
                          \/ req[t].kind = "read" \/ (Exact(req[t]) /\ b \in Named(req[t]))
  PROVE  Job(t)' /\ Moved(t)' = Moved(t) /\ Finds(t)' = Finds(t)
<1>1. ChunkLen(t)' = ChunkLen(t) /\ Chunk(t)' = Chunk(t)
  BY DEF ChunkLen, Chunk
<1>2. Passing(t)' = Passing(t)
  BY <1>1 DEF Passing
<1>3. Moved(t)' = Moved(t) /\ Finds(t)' = Finds(t)
  BY <1>1 DEF Moved, Finds
<1>4. CASE op[t] = "user"
  <2>1. op'[t] = "user" /\ req'[t] = None
    BY <1>4 DEF Job
  <2> QED
    BY <1>3, <2>1 DEF Job
<1>5. CASE op[t] # "user"
  <2>1. Asked(t) /\ Filled(t) /\ req[t] # None
    BY <1>5, RequestAssumption DEF Job, Asked
  <2>2. Asked(t)'
    BY <1>1, <2>1 DEF Asked
  <2>3. Passing(t) \subseteq Span(req[t])
    BY <2>1, ChunkIs DEF Passing, Span
  <2>4. Filled(t)'
    <3>1. ASSUME dir[t] = "write", NEW b \in Bytes, b \div LbaSize \in Span(req[t])
          PROVE  buf[t][b] = IF b \in Named(req[t]) THEN t ELSE disk'[b]
      BY <2>1, <3>1 DEF Filled, Asked
    <3>2. ASSUME dir[t] = "read", req[t].kind = "write", NEW b \in Bytes, b \div LbaSize \in Passing(t)
          PROVE  buf[t][b] = disk'[b]
      BY <2>1, <2>3, <3>2 DEF Filled, Asked
    <3> QED
      BY <1>2, <3>1, <3>2 DEF Filled
  <2>5. op'[t] # "user"
    BY <1>5
  <2> QED
    BY <1>3, <2>2, <2>4, <2>5 DEF Job
<1> QED
  BY <1>3, <1>4, <1>5

\* The steps and what the tasks in them know of their answers.
LEMMA ToldRequest ==
  ASSUME QueueInv, RequestTypes, Told, NEW t \in Tasks, Request(t)
  PROVE  Told'
<1>1. /\ op[t] = "user" /\ op' = [op EXCEPT ![t] = "submit"]
      /\ UNCHANGED <<id, slot, todo, cq, head, ctail>>
  BY DEF Request, Goes, queues, device
<1>2. \A u \in Tasks : op'[u] = IF u = t THEN "submit" ELSE op[u]
  BY <1>1 DEF QueueInv, QueueTypes
<1>3. First' = First /\ Answered' = Answered /\ Waiting' = Waiting
  BY <1>1, <1>2 DEF First, Answered, InQueue, Waiting
<1> QED
  BY <1>1, <1>2, <1>3 DEF Told

\* A new command has no answer yet.
LEMMA ToldSubmit ==
  ASSUME QueueInv, FreshIds, RequestTypes, Told, NEW t \in Tasks, Submit(t)
  PROVE  Told'
<1>1. /\ op[t] = "submit" /\ op' = [op EXCEPT ![t] = "look"] /\ id' = [id EXCEPT ![t] = nextid]
      /\ todo' = [todo EXCEPT ![t] = Chunk(t)]
      /\ UNCHANGED <<slot, cq, head, ctail>>
  BY DEF Submit, Goes
<1>2. \A u \in Tasks : /\ op'[u] = IF u = t THEN "look" ELSE op[u]
                       /\ id'[u] = IF u = t THEN nextid ELSE id[u]
                       /\ todo'[u] = IF u = t THEN Chunk(t) ELSE todo[u]
  BY <1>1 DEF QueueInv, QueueTypes, RequestTypes
<1>3. First' = First /\ Answered' = Answered /\ Waiting' = Waiting \cup {t} /\ t \notin Waiting
  BY <1>1, <1>2 DEF First, Answered, InQueue, Waiting
<1>4. \A i \in Answered : cq[i].id # nextid
  BY <1>1 DEF QueueInv, Placed, FreshIds
<1>5. \A u \in Waiting : u \in Tasks
  BY DEF Waiting
<1> QED
  BY <1>1, <1>2, <1>3, <1>4, <1>5 DEF Told

\* A look leaves the answers alone.
LEMMA ToldLook ==
  ASSUME QueueInv, Told, NEW t \in Tasks, Look(t)
  PROVE  Told'
<1>1. /\ op[t] = "look" /\ op' = [op EXCEPT ![t] = "match"] /\ slot' = [slot EXCEPT ![t] = head]
      /\ UNCHANGED <<id, todo, cq, head, ctail>>
  BY DEF Look, Goes, queues, device
<1>2. \A u \in Tasks : op'[u] = (IF u = t THEN "match" ELSE op[u]) /\ (u # t => slot'[u] = slot[u])
  BY <1>1 DEF QueueInv, QueueTypes
<1>3. First' = First /\ Answered' = Answered /\ Waiting' = Waiting
  BY <1>1, <1>2 DEF First, Answered, InQueue, Waiting
<1> QED
  BY <1>1, <1>2, <1>3 DEF Told

\* A task that finds its answer finds the first.
LEMMA ToldMatch ==
  ASSUME QueueInv, "overrun" \notin Faults, Told, NEW t \in Tasks, Match(t)
  PROVE  Told'
<1>1. PICK o \in {"advance", "look"} : op' = [op EXCEPT ![t] = o] /\ (o = "advance" <=> Matches(t))
  BY DEF Match, Goes
<1>2. op[t] = "match" /\ UNCHANGED <<id, slot, todo, cq, head, ctail>>
  BY DEF Match, queues, device
<1>3. \A u \in Tasks : op'[u] = IF u = t THEN o ELSE op[u]
  BY <1>1 DEF QueueInv, QueueTypes
<1>4. First' = First /\ Answered' = Answered /\ Waiting' = Waiting
  BY <1>2, <1>3 DEF First, Answered, InQueue, Waiting
<1>5. o = "advance" => slot[t] = First
  BY <1>1, <1>2, MatchIs
<1> QED
  BY <1>2, <1>3, <1>4, <1>5 DEF Told

\* The answer of a task is the one it takes.
LEMMA ToldAdvance ==
  ASSUME QueueInv, Told, NEW t \in Tasks, Advance(t)
  PROVE  Told'
<1>1. op[t] = "advance" /\ op' = [op EXCEPT ![t] = "wrap"] /\ UNCHANGED <<id, slot, todo, cq>>
  BY DEF Advance, Goes, queues, device
<1>2. \A u \in Tasks : op'[u] = IF u = t THEN "wrap" ELSE op[u]
  BY <1>1 DEF QueueInv, QueueTypes
<1>3. /\ First = head /\ head \in 0..(CqSize - 1) /\ head \in Answered /\ cq[head].id = id[t]
      /\ Answered' = Answered \ {head}
  BY AdvanceIs
<1>4. Waiting' \subseteq Waiting /\ t \in Waiting /\ \A u \in Waiting : u \in Tasks
  BY <1>1, <1>2 DEF Waiting
<1>5. \A u \in Tasks : op'[u] # "advance"
  <2> SUFFICES ASSUME NEW u \in Tasks, u # t, op[u] = "advance" PROVE FALSE
    BY <1>2
  <2>1. id[u] = id[t] /\ u \in Waiting
    BY <1>3 DEF QueueInv, Found, Waiting
  <2> QED
    BY <1>4, <2>1 DEF QueueInv, Placed, Distinct
<1>6. slot[t] < CqSize /\ (cq[slot[t]].ok => todo[t] = {})
  <2>1. slot[t] = head
    BY <1>1, <1>3 DEF Told
  <2>2. head < CqSize
    BY <1>3, SizesAre
  <2> QED
    BY <1>3, <1>4, <2>1, <2>2 DEF Told
<1> QED
  BY <1>1, <1>2, <1>3, <1>4, <1>5, <1>6 DEF Told

\* The head goes on, and the answer stays where it was.
LEMMA ToldWrap ==
  ASSUME QueueInv, Told, NEW t \in Tasks, Wrap(t)
  PROVE  Told'
<1>1. op[t] = "wrap" /\ op' = [op EXCEPT ![t] = "status"] /\ UNCHANGED <<id, slot, todo, cq, ctail>>
  BY DEF Wrap, Goes
<1>2. \A u \in Tasks : op'[u] = IF u = t THEN "status" ELSE op[u]
  BY <1>1 DEF QueueInv, QueueTypes
<1>3. First' = First
  BY WrapIs
<1>4. Answered' = Answered /\ Waiting' = Waiting
  BY <1>1, <1>2, <1>3 DEF Answered, InQueue, Waiting
<1> QED
  BY <1>1, <1>2, <1>3, <1>4 DEF Told

\* A task that has its answer forgets it.
LEMMA ToldStatus ==
  ASSUME QueueInv, RequestTypes, Told, NEW t \in Tasks, Status(t),
         NEW o \in {"user", "submit"}, op' = [op EXCEPT ![t] = o]
  PROVE  Told'
<1>1. /\ op[t] = "status" /\ id' = [id EXCEPT ![t] = 0] /\ slot' = [slot EXCEPT ![t] = 0]
      /\ todo' = [todo EXCEPT ![t] = {}] /\ UNCHANGED <<cq, head, ctail>>
  BY DEF Status, queues
<1>2. \A u \in Tasks : /\ op'[u] = IF u = t THEN o ELSE op[u]
                       /\ u # t => id'[u] = id[u] /\ slot'[u] = slot[u] /\ todo'[u] = todo[u]
  BY <1>1 DEF QueueInv, QueueTypes, RequestTypes
<1>3. First' = First /\ Answered' = Answered /\ Waiting' = Waiting /\ t \notin Waiting
  BY <1>1, <1>2 DEF First, Answered, InQueue, Waiting
<1>4. \A u \in Waiting : u \in Tasks
  BY DEF Waiting
<1> QED
  BY <1>1, <1>2, <1>3, <1>4 DEF Told

\* The controller fetches a command, which says nothing of the answers.
LEMMA ToldFetch ==
  ASSUME QueueInv, Told, Fetch
  PROVE  Told'
<1>1. UNCHANGED <<op, id, slot, todo, cq, head, ctail>>
  BY DEF Fetch, caller
<1>2. First' = First /\ Answered' = Answered /\ Waiting' = Waiting
  BY <1>1 DEF First, Answered, InQueue, Waiting
<1> QED
  BY <1>1, <1>2 DEF Told

\* Blocks are moved for a command without an answer.
LEMMA ToldMove ==
  ASSUME QueueInv, RequestTypes, Told, NEW c \in Commands, Move(c)
  PROVE  Told' /\ c.by \in Waiting
<1>1. /\ c \in active /\ UNCHANGED <<op, id, slot, cq, head, ctail>>
      /\ \E l \in todo[c.by] : todo' = [todo EXCEPT ![c.by] = @ \ {l}]
  BY DEF Move, queues
<1>2. PICK t \in Waiting : c = Command(t)
  BY <1>1 DEF QueueInv, Placed
<1>3. c.by = t /\ t \in Tasks /\ InHand(t)
  BY <1>1, <1>2 DEF Command, Waiting, InHand
<1>4. \A u \in Tasks : u # t => todo'[u] = todo[u]
  BY <1>1, <1>3 DEF RequestTypes
<1>5. First' = First /\ Answered' = Answered /\ Waiting' = Waiting
  BY <1>1 DEF First, Answered, InQueue, Waiting
<1>6. \A i \in Answered : cq[i].id # id[t]
  BY <1>2, <1>3 DEF QueueInv, Placed, InCq
<1>7. op[t] \notin {"wrap", "status"} /\ \A u \in Waiting : u \in Tasks
  BY <1>2 DEF Waiting
<1> QED
  BY <1>1, <1>2, <1>3, <1>4, <1>5, <1>6, <1>7 DEF Told

\* An answer of success is written when all is moved, and over no answer still read.
LEMMA ToldComplete ==
  ASSUME QueueInv, "lap" \notin Faults, "sct" \notin Faults, Told, NEW c \in Commands, Complete(c)
  PROVE  Told'
<1>1. PICK t \in Waiting, ok \in BOOLEAN :
           /\ c = Command(t) /\ c.by = t /\ c.id = id[t] /\ InHand(t) /\ (ok => todo[t] = {})
           /\ cq' = [cq EXCEPT ![ctail] = [id |-> c.id, phase |-> cphase, ok |-> ok]]
           /\ First' = First /\ Lap' = Lap /\ Submitted' = Submitted /\ Waiting' = Waiting
           /\ First \in 0..(CqSize - 1) /\ Lap \in {0, 1} /\ ctail' # First
           /\ ctail' = IF ctail + 1 = CqSize THEN 0 ELSE ctail + 1
           /\ ctail' \in 0..(CqSize - 1) /\ ctail \notin Answered /\ Answered' = Answered \cup {ctail}
           /\ cq'[ctail].ok = ok /\ cq'[ctail].id = id[t] /\ cq'[ctail].phase = cphase
           /\ \A i \in 0..(CqSize - 1) : i # ctail => cq'[i] = cq[i]
  BY CompleteIs
<1>2. ~HeldOver /\ UNCHANGED <<op, id, slot, todo>>
  BY DEF Complete, caller
<1>3. \A u \in Tasks : op'[u] = "advance" => slot'[u] = First'
  BY <1>1, <1>2 DEF Told
<1>4. ASSUME NEW u \in Waiting, NEW i \in Answered', cq'[i].id = id[u], cq'[i].ok PROVE todo[u] = {}
  <2>1. CASE i = ctail
    BY <1>1, <1>4, <2>1 DEF QueueInv, Placed, Distinct
  <2>2. CASE i # ctail
    <3>1. i \in Answered /\ i \in 0..(CqSize - 1)
      BY <1>1, <1>4, <2>2, RingsAre DEF QueueInv
    <3> QED
      BY <1>1, <1>4, <2>2, <3>1 DEF Told
  <2> QED
    BY <2>1, <2>2
<1>5. ASSUME NEW u \in Tasks, op[u] \in {"wrap", "status"}
      PROVE  slot[u] < CqSize /\ (cq'[slot[u]].ok => todo[u] = {})
  <2>1. slot[u] < CqSize /\ slot[u] \in 0..(CqSize - 1)
    BY <1>5, SizesAre DEF Told, QueueInv, QueueTypes
  <2>2. slot[u] # ctail
    BY <1>2, <1>5 DEF HeldOver
  <2> QED
    BY <1>1, <1>5, <2>1, <2>2 DEF Told
<1> QED
  BY <1>1, <1>2, <1>3, <1>4, <1>5 DEF Told

\* What the requests are like, apart from the answers.
Jobs == RequestTypes /\ (\A t \in Tasks : Job(t)) /\ Alone

\* A task that has a request is in a call.
LEMMA InCall ==
  ASSUME Jobs, NEW t \in Tasks, op[t] # "user" \/ req[t] # None
  PROVE  op[t] # "user" /\ req[t] \in Requests /\ req[t] # None /\ Asked(t) /\ Filled(t)
BY RequestAssumption DEF Jobs, Job, Asked

\* A step that moves nothing and begins and ends nothing.
LEMMA QuietStep ==
  ASSUME QueueInv, Jobs, UNCHANGED <<req, dir, cur, buf, ret, todo, disk>>,
         \A t \in Tasks : op'[t] = op[t] \/ (op[t] \notin {"user", "submit"} /\ op'[t] \notin {"user", "submit"})
  PROVE  Jobs' /\ Mapped' = Mapped
<1>1. \A t \in Tasks : Job(t)' /\ Moved(t)' = Moved(t) /\ Finds(t)' = Finds(t)
  BY StillJob DEF Jobs, QueueInv
<1>2. RequestTypes' /\ Alone'
  BY DEF Jobs, RequestTypes, Alone
<1> QED
  BY <1>1, <1>2 DEF Jobs, Mapped

\* A request begins.
LEMMA RequestDoes ==
  ASSUME "rmw" \notin Faults, QueueInv, Jobs, NEW t \in Tasks, Request(t)
  PROVE  Jobs' /\ Device!Begin(t)
<1>1. /\ op[t] = "user" /\ op' = [op EXCEPT ![t] = "submit"] /\ ret' = [ret EXCEPT ![t] = None]
      /\ UNCHANGED <<todo, disk>>
  BY DEF Request, Goes, device
<1>2. PICK r \in Requests :
        /\ ~OutOfBounds(r)
        /\ \A u \in Tasks : req[u] = None \/ ~Overlap(r, req[u])
        /\ req' = [req EXCEPT ![t] = r]
        /\ cur' = [cur EXCEPT ![t] = StartLba(r)]
        /\ dir' = [dir EXCEPT ![t] = IF r.kind = "write" /\ Exact(r) THEN "write" ELSE "read"]
        /\ buf' = [buf EXCEPT ![t] = [b \in Bytes |->
                     IF r.kind = "write" /\ Exact(r) /\ b \in Named(r) THEN t ELSE None]]
  BY DEF Request
<1>3. RequestTypes /\ req[t] = None /\ r # None /\ op \in [Tasks -> Ops]
  BY <1>1, RequestAssumption DEF Jobs, Job, QueueInv, QueueTypes
<1>4. /\ op'[t] = "submit" /\ req'[t] = r /\ cur'[t] = StartLba(r) /\ ret'[t] = None
      /\ dir'[t] = IF r.kind = "write" /\ Exact(r) THEN "write" ELSE "read"
      /\ buf'[t] = [b \in Bytes |-> IF r.kind = "write" /\ Exact(r) /\ b \in Named(r) THEN t ELSE None]
      /\ \A u \in Tasks : u # t => /\ op'[u] = op[u] /\ req'[u] = req[u] /\ cur'[u] = cur[u]
                                   /\ dir'[u] = dir[u] /\ buf'[u] = buf[u] /\ ret'[u] = ret[u]
  BY <1>1, <1>2, <1>3 DEF RequestTypes
<1>5. /\ StartLba(r) \in Nat /\ EndLba(r) \in Nat /\ StartLba(r) < EndLba(r) /\ Named(r) \subseteq Bytes
      /\ Exact(r) => \A b \in Bytes : b \div LbaSize \in Span(r) => b \in Named(r)
      /\ r.kind \in {"read", "write"}
  BY <1>2, BlocksAre, RequestIs DEF Span
<1>6. RequestTypes'
  BY <1>1, <1>2, <1>3, <1>5 DEF RequestTypes
<1>7. Passing(t)' = {}
  <2>1. StartLba(r)..(StartLba(r) - 1) = {}
    BY <1>5
  <2> QED
    BY <1>4, <2>1 DEF Passing
<1>8. Asked(t)'
  BY <1>2, <1>4, <1>5 DEF Asked
<1>9. Filled(t)'
  BY <1>4, <1>5, <1>7 DEF Filled
<1>10. \A u \in Tasks : u # t => Job(u)' /\ Moved(u)' = Moved(u) /\ Finds(u)' = Finds(u)
  BY <1>1, <1>3, <1>4, StillJob DEF Jobs, QueueInv
<1>11. Alone'
  <2> SUFFICES ASSUME NEW u \in Tasks, NEW v \in Tasks, u # v, req'[u] # None, req'[v] # None,
                      Overlap(req'[u], req'[v])
               PROVE  FALSE
    BY DEF Alone
  <2>1. CASE u = t
    BY <1>2, <1>4, <2>1
  <2>2. CASE v = t
    BY <1>2, <1>4, <2>2, OverlapSame
  <2>3. CASE u # t /\ v # t
    BY <1>4, <2>3 DEF Jobs, Alone
  <2> QED
    BY <2>1, <2>2, <2>3
<1>12. Jobs'
  BY <1>4, <1>6, <1>8, <1>9, <1>10, <1>11 DEF Jobs, Job
<1>13. Moved(t) = {} /\ Moved(t)' = {}
  BY <1>3, <1>4, <1>7 DEF Moved, Passing
<1>14. Finds(t) = [b \in Bytes |-> None] /\ Finds(t)' = [b \in Bytes |-> None]
  BY <1>3, <1>4 DEF Finds
<1>15. /\ [u \in Tasks |-> Moved(u)]' = [u \in Tasks |-> Moved(u)]
       /\ [u \in Tasks |-> Finds(u)]' = [u \in Tasks |-> Finds(u)]
  BY <1>10, <1>13, <1>14
<1>16. Device!Named(r) \subseteq Bytes
  BY <1>2, SpanIs
<1>17. Device!Begin(t)
  BY <1>1, <1>2, <1>3, <1>15, <1>16 DEF Device!Begin, Finds
<1> QED
  BY <1>12, <1>17

\* A command of the request is given out.
LEMMA SubmitDoes ==
  ASSUME QueueInv, Jobs, NEW t \in Tasks, Submit(t)
  PROVE  Jobs' /\ Mapped' = Mapped
<1>1. /\ op[t] = "submit" /\ op' = [op EXCEPT ![t] = "look"] /\ todo' = [todo EXCEPT ![t] = Chunk(t)]
      /\ UNCHANGED <<req, dir, cur, buf, ret, disk>>
  BY DEF Submit, Goes
<1>2. RequestTypes /\ op \in [Tasks -> Ops] /\ Asked(t) /\ Filled(t) /\ req[t] # None
  BY <1>1, InCall DEF Jobs, QueueInv, QueueTypes
<1>3. /\ op'[t] = "look" /\ todo'[t] = Chunk(t)
      /\ \A u \in Tasks : u # t => op'[u] = op[u] /\ todo'[u] = todo[u]
  BY <1>1, <1>2 DEF RequestTypes
<1>4. Chunk(t) \in SUBSET Nat
  <2>1. cur[t] \in Nat /\ ChunkLen(t) \in Nat /\ Chunk(t) = cur[t]..(cur[t] + ChunkLen(t) - 1)
    BY <1>2, ChunkIs
  <2> QED
    BY <2>1
<1>5. RequestTypes' /\ Alone'
  BY <1>1, <1>2, <1>4 DEF RequestTypes, Jobs, Alone
<1>6. Chunk(t)' = Chunk(t)
  BY <1>1 DEF Chunk, ChunkLen
<1>7. Passing(t)' = Passing(t)
  BY <1>1, <1>3, <1>6 DEF Passing
<1>8. Job(t)'
  BY <1>1, <1>2, <1>3, <1>6, <1>7 DEF Job, Asked, Filled
<1>9. Moved(t)' = Moved(t) /\ Finds(t)' = Finds(t)
  BY <1>1, <1>7 DEF Moved, Passing, Finds
<1>10. \A u \in Tasks : u # t => Job(u)' /\ Moved(u)' = Moved(u) /\ Finds(u)' = Finds(u)
  BY <1>1, <1>2, <1>3, StillJob DEF Jobs, QueueInv
<1> QED
  BY <1>1, <1>5, <1>8, <1>9, <1>10 DEF Jobs, Mapped

\* Tasks that write to the same logical block write whole blocks.
LEMMA OthersWriteAll ==
  ASSUME Jobs, NEW t \in Tasks, NEW u \in Tasks, u # t, op[t] # "user", req[u] # None,
         req[t].kind = "write", req[u].kind = "write",
         NEW b \in Bytes, b \div LbaSize \in Span(req[t]), b \div LbaSize \in Span(req[u])
  PROVE  Exact(req[u]) /\ b \in Named(req[u])
<1>1. PICK l : l = b \div LbaSize
  OBVIOUS
<1>2. req[t] # None /\ req[t] \in Requests /\ ~OutOfBounds(req[t]) /\ req[u] \in Requests /\ ~OutOfBounds(req[u])
  BY InCall DEF Asked
<1>3. StartLba(req[t]) \in Nat /\ EndLba(req[t]) \in Nat /\ StartLba(req[u]) \in Nat /\ EndLba(req[u]) \in Nat
  BY <1>2, BlocksAre
<1>4. ~Overlap(req[t], req[u])
  BY <1>2 DEF Jobs, Alone
<1>5. StartLba(req[t]) < EndLba(req[u]) /\ StartLba(req[u]) < EndLba(req[t])
  BY <1>1, <1>3 DEF Span
<1>6. Exact(req[u])
  BY <1>4, <1>5 DEF Overlap
<1> QED
  BY <1>2, <1>6, BlocksAre DEF Span

\* The controller moves a logical block.
LEMMA MoveDoes ==
  ASSUME QueueInv, Jobs, NEW c \in Commands, Move(c), c.by \in Waiting
  PROVE  Jobs' /\ (Mapped' = Mapped \/ Device!Transfer(c.by))
<1>1. PICK t \in Tasks : t = c.by /\ op[t] \in {"look", "match", "advance"}
  BY DEF Waiting
<1>2. PICK l \in todo[t] :
        /\ todo' = [todo EXCEPT ![t] = @ \ {l}]
        /\ dir[t] = "write" => /\ disk' = [b \in Bytes |-> IF b \in InLba(l) THEN buf[t][b] ELSE disk[b]]
                               /\ buf' = buf
        /\ dir[t] # "write" => /\ buf' = [buf EXCEPT ![t] = [b \in Bytes |-> IF b \in InLba(l) THEN disk[b] ELSE @[b]]]
                               /\ disk' = disk
  BY <1>1 DEF Move
<1>3. UNCHANGED <<op, req, dir, cur, ret>>
  BY DEF Move
<1>4. RequestTypes /\ op \in [Tasks -> Ops] /\ Asked(t) /\ Filled(t) /\ req[t] # None /\ req[t] \in Requests /\ ~OutOfBounds(req[t])
  BY <1>1, InCall DEF Jobs, QueueInv, QueueTypes, Asked
<1>5. /\ todo[t] \subseteq Chunk(t) /\ Chunk(t) \subseteq Span(req[t]) /\ l \in Nat /\ l \in Chunk(t) /\ l \in Span(req[t])
      /\ cur[t] \in Nat /\ cur[t] <= l /\ StartLba(req[t]) \in Nat
  <2>1. todo[t] \subseteq Chunk(t)
    BY <1>1, <1>4 DEF Asked
  <2>2. /\ Chunk(t) \subseteq Span(req[t]) /\ Chunk(t) = cur[t]..(cur[t] + ChunkLen(t) - 1) /\ ChunkLen(t) \in Nat
        /\ cur[t] \in Nat /\ StartLba(req[t]) \in Nat
    BY <1>4, ChunkIs
  <2> QED
    BY <2>1, <2>2
<1>6. todo'[t] = todo[t] \ {l} /\ \A u \in Tasks : u # t => todo'[u] = todo[u]
  BY <1>2, <1>4 DEF RequestTypes
<1>7. \A u \in Tasks : Chunk(u)' = Chunk(u) /\ ChunkLen(u)' = ChunkLen(u)
  BY <1>3 DEF Chunk, ChunkLen
<1>8. Passing(t)' = Passing(t) \cup {l} /\ l \notin Passing(t) /\ Passing(t) \subseteq Span(req[t])
  <2>1. /\ Passing(t) = StartLba(req[t])..(cur[t] - 1) \cup (Chunk(t) \ todo[t])
        /\ Passing(t)' = StartLba(req[t])..(cur[t] - 1) \cup (Chunk(t) \ (todo[t] \ {l}))
    BY <1>1, <1>3, <1>6, <1>7 DEF Passing
  <2>2. l \notin StartLba(req[t])..(cur[t] - 1)
    BY <1>5
  <2>3. StartLba(req[t])..(cur[t] - 1) \subseteq Span(req[t])
    BY <1>4, ChunkIs DEF Span
  <2> QED
    BY <1>2, <1>5, <2>1, <2>2, <2>3
<1>9. /\ \A b \in Bytes : b \in InLba(l) <=> b \div LbaSize = l
      /\ Device!Blocks(req[t]) = Span(req[t]) /\ Device!Named(req[t]) = Named(req[t]) /\ Named(req[t]) \subseteq Bytes
  BY <1>4, SpanIs DEF InLba
<1>10. PICK part : part = {b \in Device!Named(req[t]) : b \div LbaSize = l}
  OBVIOUS
<1>11. \A b \in Bytes : b \in part <=> b \in Named(req[t]) /\ b \div LbaSize = l
  BY <1>9, <1>10
<1>12. Asked(t)' /\ Alone'
  BY <1>1, <1>3, <1>4, <1>5, <1>6, <1>7 DEF Asked, Jobs, Alone
<1>13. dir[t] = req[t].kind => Moved(t) = Passing(t) /\ Moved(t)' = Passing(t)'
  BY <1>3, <1>4 DEF Moved, Passing
<1>14. dir[t] \in {"read", "write"} /\ (dir[t] = "write" => req[t].kind = "write") /\ req[t].kind \in {"read", "write"}
  BY <1>4, RequestIs DEF RequestTypes, Asked
<1>15. CASE dir[t] = "write"
  <2>1. buf' = buf /\ disk' = [b \in Bytes |-> IF b \in part THEN t ELSE disk[b]]
    <3>1. \A b \in Bytes : b \div LbaSize = l => buf[t][b] = IF b \in Named(req[t]) THEN t ELSE disk[b]
      BY <1>4, <1>5, <1>15 DEF Filled
    <3>2. ASSUME NEW b \in Bytes
          PROVE  (IF b \in InLba(l) THEN buf[t][b] ELSE disk[b]) = IF b \in part THEN t ELSE disk[b]
      BY <1>9, <1>11, <3>1
    <3> QED
      BY <1>2, <1>15, <3>2
  <2>2. \A b \in Bytes : disk'[b] = IF b \in part THEN t ELSE disk[b]
    BY <2>1
  <2>3. RequestTypes'
    BY <1>2, <1>3, <1>4, <2>1 DEF RequestTypes
  <2>4. ASSUME NEW u \in Tasks, u # t PROVE Job(u)' /\ Moved(u)' = Moved(u) /\ Finds(u)' = Finds(u)
    <3>1. ASSUME NEW b \in Bytes
          PROVE  disk'[b] = disk[b] \/ req[u] = None \/ b \div LbaSize \notin Span(req[u])
                 \/ req[u].kind = "read" \/ (Exact(req[u]) /\ b \in Named(req[u]))
      <4> SUFFICES ASSUME disk'[b] # disk[b], req[u] # None, b \div LbaSize \in Span(req[u]), req[u].kind # "read"
                   PROVE  Exact(req[u]) /\ b \in Named(req[u])
        OBVIOUS
      <4>1. b \div LbaSize \in Span(req[t])
        BY <1>5, <1>11, <2>2
      <4>2. req[u].kind = "write"
        BY InCall, RequestIs
      <4> QED
        BY <1>1, <1>14, <1>15, <2>4, <4>1, <4>2, OthersWriteAll
    <3> QED
      BY <1>3, <1>4, <1>6, <2>1, <2>4, <3>1, StillJob DEF Jobs, QueueInv
  <2>5. Filled(t)'
    <3>1. \A b \in Bytes : b \div LbaSize \in Span(req[t]) => buf[t][b] = IF b \in Named(req[t]) THEN t ELSE disk'[b]
      BY <1>4, <1>11, <1>15, <2>2 DEF Filled
    <3> QED
      BY <1>3, <1>15, <2>1, <3>1 DEF Filled
  <2>6. Jobs'
    BY <1>1, <1>3, <1>12, <2>3, <2>4, <2>5 DEF Jobs, Job
  <2>7. Moved(t) = Passing(t) /\ Moved(t)' = Moved(t) \cup {l} /\ Finds(t)' = Finds(t)
    BY <1>3, <1>8, <1>13, <1>14, <1>15, <2>1 DEF Finds
  <2>8. /\ [u \in Tasks |-> Moved(u)]' = [[u \in Tasks |-> Moved(u)] EXCEPT ![t] = @ \cup {l}]
        /\ [u \in Tasks |-> Finds(u)]' = [u \in Tasks |-> Finds(u)]
    BY <2>4, <2>7
  <2>9. req[t].kind = "write" /\ l \in Device!Blocks(req[t]) \ [u \in Tasks |-> Moved(u)][t]
    BY <1>5, <1>8, <1>9, <1>14, <1>15, <2>7
  <2>10. Device!Transfer(t)
    BY <1>3, <1>4, <1>10, <2>1, <2>8, <2>9 DEF Device!Transfer, Finds
  <2> QED
    BY <1>1, <2>6, <2>10
<1>16. CASE dir[t] = "read"
  <2>1. /\ disk' = disk /\ \A u \in Tasks : u # t => buf'[u] = buf[u]
        /\ buf'[t] = [b \in Bytes |-> IF b \in InLba(l) THEN disk[b] ELSE buf[t][b]]
    BY <1>2, <1>4, <1>16 DEF RequestTypes
  <2>2. \A b \in Bytes : buf'[t][b] = IF b \div LbaSize = l THEN disk[b] ELSE buf[t][b]
    BY <1>9, <2>1
  <2>3. RequestTypes'
    <3>1. buf'[t] \in [Bytes -> Tasks \cup {None}]
      BY <1>4, <2>1 DEF RequestTypes
    <3>2. buf' \in [Tasks -> [Bytes -> Tasks \cup {None}]]
      BY <1>2, <1>4, <1>16, <2>1, <3>1 DEF RequestTypes
    <3> QED
      BY <1>2, <1>3, <1>4, <2>1, <3>2 DEF RequestTypes
  <2>4. ASSUME NEW u \in Tasks, u # t PROVE Job(u)' /\ Moved(u)' = Moved(u) /\ Finds(u)' = Finds(u)
    BY <1>3, <1>4, <1>6, <2>1, <2>4, StillJob DEF Jobs, QueueInv
  <2>5. Filled(t)'
    <3>1. \A b \in Bytes : req[t].kind = "write" /\ b \div LbaSize \in Passing(t) \cup {l} => buf'[t][b] = disk[b]
      BY <1>4, <1>16, <2>2 DEF Filled
    <3> QED
      BY <1>3, <1>8, <1>16, <2>1, <3>1 DEF Filled
  <2>6. Jobs'
    BY <1>1, <1>3, <1>12, <2>3, <2>4, <2>5 DEF Jobs, Job
  <2>7. CASE req[t].kind = "write"
    <3>1. Moved(t)' = Moved(t) /\ Finds(t)' = Finds(t)
      BY <1>3, <1>16, <2>7 DEF Moved, Finds
    <3> QED
      BY <1>3, <2>1, <2>4, <2>6, <3>1 DEF Mapped
  <2>8. CASE req[t].kind = "read"
    <3>1. Moved(t) = Passing(t) /\ Moved(t)' = Moved(t) \cup {l}
      BY <1>8, <1>13, <1>16, <2>8
    <3>2. Finds(t)' = [b \in Bytes |-> IF b \in part THEN disk[b] ELSE Finds(t)[b]]
      <4>1. Finds(t)' = [b \in Bytes |-> IF b \in Named(req[t]) THEN buf'[t][b] ELSE None]
        BY <1>3, <1>4, <2>8 DEF Finds
      <4>2. Finds(t) = [b \in Bytes |-> IF b \in Named(req[t]) THEN buf[t][b] ELSE None]
        BY <1>4, <2>8 DEF Finds
      <4>3. \A b \in Bytes : (IF b \in Named(req[t]) THEN buf'[t][b] ELSE None)
                             = IF b \in part THEN disk[b] ELSE Finds(t)[b]
        BY <1>11, <2>2, <4>2
      <4> QED
        BY <4>1, <4>3
    <3>3. /\ [u \in Tasks |-> Moved(u)]' = [[u \in Tasks |-> Moved(u)] EXCEPT ![t] = @ \cup {l}]
          /\ [u \in Tasks |-> Finds(u)]' =
               [[u \in Tasks |-> Finds(u)] EXCEPT ![t] = [b \in Bytes |-> IF b \in part THEN disk[b] ELSE @[b]]]
      BY <2>4, <3>1, <3>2
    <3>4. l \in Device!Blocks(req[t]) \ [u \in Tasks |-> Moved(u)][t]
      BY <1>5, <1>8, <1>9, <3>1
    <3>5. /\ req[t] # None /\ req[t].kind # "write" /\ disk' = disk /\ UNCHANGED <<req, ret>>
          /\ \E k \in Device!Blocks(req[t]) \ [u \in Tasks |-> Moved(u)][t] :
               /\ [u \in Tasks |-> Moved(u)]' = [[u \in Tasks |-> Moved(u)] EXCEPT ![t] = @ \cup {k}]
               /\ [u \in Tasks |-> Finds(u)]' =
                    [[u \in Tasks |-> Finds(u)] EXCEPT ![t] =
                       [b \in Bytes |-> IF b \in {d \in Device!Named(req[t]) : d \div LbaSize = k}
                                       THEN disk[b] ELSE @[b]]]
      <4>1. req[t] # None /\ req[t].kind # "write" /\ disk' = disk /\ UNCHANGED <<req, ret>>
        BY <1>3, <1>4, <2>1, <2>8
      <4>2. [u \in Tasks |-> Finds(u)]' =
              [[u \in Tasks |-> Finds(u)] EXCEPT ![t] =
                 [b \in Bytes |-> IF b \in {d \in Device!Named(req[t]) : d \div LbaSize = l}
                                 THEN disk[b] ELSE @[b]]]
        BY <1>10, <3>3
      <4>3. \E k \in Device!Blocks(req[t]) \ [u \in Tasks |-> Moved(u)][t] :
               /\ [u \in Tasks |-> Moved(u)]' = [[u \in Tasks |-> Moved(u)] EXCEPT ![t] = @ \cup {k}]
               /\ [u \in Tasks |-> Finds(u)]' =
                    [[u \in Tasks |-> Finds(u)] EXCEPT ![t] =
                       [b \in Bytes |-> IF b \in {d \in Device!Named(req[t]) : d \div LbaSize = k}
                                       THEN disk[b] ELSE @[b]]]
        <5> WITNESS l \in Device!Blocks(req[t]) \ [u \in Tasks |-> Moved(u)][t]
        <5> QED
          BY <3>3, <4>2
      <4> QED
        BY <4>1, <4>3
    <3>6. Device!Transfer(t)
      BY <3>5 DEF Device!Transfer, Finds
    <3> QED
      BY <1>1, <2>6, <3>6
  <2> QED
    BY <1>14, <2>7, <2>8
<1> QED
  BY <1>14, <1>15, <1>16

\* A request ends.
LEMMA ReturnDoes ==
  ASSUME QueueInv, Jobs, NEW t \in Tasks, op[t] = "status", NEW result \in {"length", "EIO"},
         Return(t, result), todo' = [todo EXCEPT ![t] = {}], disk' = disk,
         result = "length" => Moved(t) = Span(req[t])
  PROVE  Jobs' /\ Device!End(t)
<1>1. /\ op' = [op EXCEPT ![t] = "user"] /\ ret' = [ret EXCEPT ![t] = result]
      /\ req' = [req EXCEPT ![t] = None]
      /\ cur' = [cur EXCEPT ![t] = 0] /\ dir' = [dir EXCEPT ![t] = "read"]
      /\ buf' = [buf EXCEPT ![t] = [b \in Bytes |-> None]]
  BY DEF Return, Goes
<1>2. RequestTypes /\ op \in [Tasks -> Ops] /\ req[t] # None /\ req[t] \in Requests /\ ~OutOfBounds(req[t])
  BY InCall DEF Jobs, QueueInv, QueueTypes, Asked
<1>3. /\ op'[t] = "user" /\ req'[t] = None
      /\ \A u \in Tasks : u # t => /\ op'[u] = op[u] /\ req'[u] = req[u] /\ cur'[u] = cur[u]
                                   /\ dir'[u] = dir[u] /\ buf'[u] = buf[u] /\ todo'[u] = todo[u]
  BY <1>1, <1>2 DEF RequestTypes
<1>4. RequestTypes'
  BY <1>1, <1>2 DEF RequestTypes
<1>5. \A u \in Tasks : u # t => Job(u)' /\ Moved(u)' = Moved(u) /\ Finds(u)' = Finds(u)
  BY <1>2, <1>3, StillJob DEF Jobs, QueueInv
<1>6. Alone'
  BY <1>3 DEF Jobs, Alone
<1>7. Jobs'
  BY <1>3, <1>4, <1>5, <1>6 DEF Jobs, Job
<1>8. Moved(t)' = {} /\ Finds(t)' = [b \in Bytes |-> None]
  BY <1>3 DEF Moved, Finds
<1>9. /\ [u \in Tasks |-> Moved(u)]' = [[u \in Tasks |-> Moved(u)] EXCEPT ![t] = {}]
      /\ [u \in Tasks |-> Finds(u)]' = [[u \in Tasks |-> Finds(u)] EXCEPT ![t] = [b \in Bytes |-> None]]
  BY <1>5, <1>8
<1>10. result = "length" => [u \in Tasks |-> Moved(u)][t] = Device!Blocks(req[t])
  BY <1>2, SpanIs
<1>11. Device!End(t)
  BY <1>1, <1>2, <1>9, <1>10 DEF Device!End, Device!Nothing, Finds
<1> QED
  BY <1>7, <1>11

\* A chunk that has been moved leaves the blocks before the next one moved.
LEMMA PassingIs ==
  ASSUME RequestTypes, NEW t \in Tasks, Asked(t), op[t] # "submit", todo[t] = {}
  PROVE  Passing(t) = StartLba(req[t])..(cur[t] + ChunkLen(t) - 1)
<1>1. PICK s, a, k : s = StartLba(req[t]) /\ a = cur[t] /\ k = ChunkLen(t)
  OBVIOUS
<1>2. s \in Nat /\ a \in Nat /\ k \in Nat /\ s <= a /\ Chunk(t) = a..(a + k - 1)
  BY <1>1, ChunkIs
<1>3. Passing(t) = s..(a - 1) \cup a..(a + k - 1)
  BY <1>1, <1>2 DEF Passing
<1> QED
  BY <1>1, <1>2, <1>3

\* The next chunk, or the second pass.
LEMMA ContinueDoes ==
  ASSUME QueueInv, Jobs, NEW t \in Tasks, op[t] = "status", Continue(t), todo[t] = {},
         todo' = [todo EXCEPT ![t] = {}], disk' = disk,
         ~(cur[t] + ChunkLen(t) = EndLba(req[t]) /\ dir[t] = req[t].kind)
  PROVE  Jobs' /\ Mapped' = Mapped
<1>1. op' = [op EXCEPT ![t] = "submit"] /\ UNCHANGED <<req, ret>>
  BY DEF Continue, Goes
<1>2. RequestTypes /\ op \in [Tasks -> Ops] /\ req[t] # None /\ req[t] \in Requests /\ ~OutOfBounds(req[t])
      /\ Asked(t) /\ Filled(t)
  BY InCall DEF Jobs, QueueInv, QueueTypes, Asked
<1>3. op'[t] = "submit" /\ \A u \in Tasks : u # t => op'[u] = op[u] /\ todo'[u] = todo[u]
  BY <1>1, <1>2 DEF RequestTypes
<1>4. /\ ChunkLen(t) \in Nat /\ ChunkLen(t) > 0 /\ cur[t] \in Nat /\ cur[t] + ChunkLen(t) <= EndLba(req[t])
      /\ StartLba(req[t]) \in Nat /\ EndLba(req[t]) \in Nat /\ StartLba(req[t]) <= cur[t] /\ cur[t] < EndLba(req[t])
  BY <1>2, ChunkIs
<1>5. Passing(t) = StartLba(req[t])..(cur[t] + ChunkLen(t) - 1)
  BY <1>2, PassingIs
<1>6. Alone'
  BY <1>1 DEF Jobs, Alone
<1>7. dir[t] \in {"read", "write"} /\ (dir[t] = "write" => req[t].kind = "write") /\ req[t].kind \in {"read", "write"}
  BY <1>2, RequestIs DEF RequestTypes, Asked
<1>8. CASE cur[t] + ChunkLen(t) < EndLba(req[t])
  <2>1. cur' = [cur EXCEPT ![t] = cur[t] + ChunkLen(t)] /\ UNCHANGED <<dir, buf>>
    BY <1>8 DEF Continue
  <2>2. cur'[t] = cur[t] + ChunkLen(t) /\ \A u \in Tasks : u # t => cur'[u] = cur[u]
    BY <1>2, <2>1 DEF RequestTypes
  <2>3. RequestTypes'
    BY <1>1, <1>2, <1>4, <2>1 DEF RequestTypes
  <2>4. \A u \in Tasks : u # t => Job(u)' /\ Moved(u)' = Moved(u) /\ Finds(u)' = Finds(u)
    BY <1>1, <1>2, <1>3, <2>1, <2>2, StillJob DEF Jobs, QueueInv
  <2>5. Passing(t)' = Passing(t)
    <3>1. Passing(t)' = StartLba(req[t])..(cur'[t] - 1) \cup {}
      BY <1>1, <1>3 DEF Passing
    <3> QED
      BY <1>4, <1>5, <2>2, <3>1
  <2>6. Asked(t)'
    BY <1>1, <1>2, <1>3, <1>4, <1>8, <2>1, <2>2 DEF Asked
  <2>7. Filled(t)'
    BY <1>1, <1>2, <2>1, <2>5 DEF Filled
  <2>8. Moved(t)' = Moved(t) /\ Finds(t)' = Finds(t)
    BY <1>1, <2>1, <2>5 DEF Moved, Passing, Finds
  <2> QED
    BY <1>1, <1>3, <1>6, <2>3, <2>4, <2>6, <2>7, <2>8 DEF Jobs, Job, Mapped
<1>9. CASE ~(cur[t] + ChunkLen(t) < EndLba(req[t]))
  <2>1. /\ cur' = [cur EXCEPT ![t] = StartLba(req[t])] /\ dir' = [dir EXCEPT ![t] = "write"]
        /\ buf' = [buf EXCEPT ![t] = [b \in Bytes |-> IF b \in Named(req[t]) THEN t ELSE @[b]]]
    BY <1>9 DEF Continue
  <2>2. /\ cur'[t] = StartLba(req[t]) /\ dir'[t] = "write"
        /\ buf'[t] = [b \in Bytes |-> IF b \in Named(req[t]) THEN t ELSE buf[t][b]]
        /\ \A u \in Tasks : u # t => cur'[u] = cur[u] /\ dir'[u] = dir[u] /\ buf'[u] = buf[u]
    BY <1>2, <2>1 DEF RequestTypes
  <2>3. cur[t] + ChunkLen(t) = EndLba(req[t])
    BY <1>4, <1>9
  <2>4. dir[t] = "read" /\ req[t].kind = "write"
    BY <1>7, <2>3
  <2>5. RequestTypes'
    <3>1. buf'[t] \in [Bytes -> Tasks \cup {None}]
      BY <1>2, <2>2 DEF RequestTypes
    <3> QED
      BY <1>1, <1>2, <1>4, <2>1, <3>1 DEF RequestTypes
  <2>6. \A u \in Tasks : u # t => Job(u)' /\ Moved(u)' = Moved(u) /\ Finds(u)' = Finds(u)
    BY <1>1, <1>2, <1>3, <2>2, StillJob DEF Jobs, QueueInv
  <2>7. Asked(t)'
    BY <1>1, <1>2, <1>3, <1>4, <2>2, <2>4 DEF Asked
  <2>8. Filled(t)'
    <3>1. \A b \in Bytes : b \div LbaSize \in Span(req[t]) => buf[t][b] = disk[b]
      <4>1. Passing(t) = Span(req[t])
        BY <1>4, <1>5, <2>3 DEF Span
      <4> QED
        BY <1>2, <2>4, <4>1 DEF Filled
    <3>2. \A b \in Bytes : b \div LbaSize \in Span(req[t]) => buf'[t][b] = IF b \in Named(req[t]) THEN t ELSE disk[b]
      BY <2>2, <3>1
    <3> QED
      BY <1>1, <2>2, <3>2 DEF Filled
  <2>9. Moved(t) = {} /\ Moved(t)' = {}
    <3>1. StartLba(req[t])..(StartLba(req[t]) - 1) = {}
      BY <1>4
    <3> QED
      BY <1>1, <1>3, <2>2, <2>4, <3>1 DEF Moved
  <2>10. Finds(t)' = Finds(t)
    BY <1>1, <2>4 DEF Finds
  <2> QED
    BY <1>1, <1>3, <1>6, <2>5, <2>6, <2>7, <2>8, <2>9, <2>10 DEF Jobs, Job, Mapped
<1> QED
  BY <1>8, <1>9

\* A task takes the answer to its command.
LEMMA StatusDoes ==
  ASSUME QueueInv, Jobs, Told, NEW t \in Tasks, Status(t)
  PROVE  Jobs' /\ Told' /\ (Mapped' = Mapped \/ Device!End(t))
<1>1. op[t] = "status" /\ todo' = [todo EXCEPT ![t] = {}] /\ disk' = disk
  BY DEF Status
<1>2. slot[t] < CqSize /\ (cq[slot[t]].ok => todo[t] = {})
  BY <1>1 DEF Told
<1>3. \/ Return(t, "EIO")
      \/ /\ cq[slot[t]].ok /\ Return(t, "length")
         /\ cur[t] + ChunkLen(t) = EndLba(req[t]) /\ dir[t] = req[t].kind
      \/ /\ cq[slot[t]].ok /\ Continue(t)
         /\ ~(cur[t] + ChunkLen(t) = EndLba(req[t]) /\ dir[t] = req[t].kind)
  BY <1>2 DEF Status
<1>4. \E o \in {"user", "submit"} : op' = [op EXCEPT ![t] = o]
  BY <1>3 DEF Return, Continue, Goes
<1>5. Told'
  BY <1>4, ToldStatus DEF Jobs
<1>6. CASE Return(t, "EIO")
  BY <1>1, <1>5, <1>6, ReturnDoes
<1>7. CASE /\ cq[slot[t]].ok /\ Return(t, "length")
           /\ cur[t] + ChunkLen(t) = EndLba(req[t]) /\ dir[t] = req[t].kind
  <2>1. RequestTypes /\ Asked(t) /\ req[t] # None /\ todo[t] = {}
    BY <1>1, <1>2, <1>7, InCall DEF Jobs
  <2>2. Passing(t) = Span(req[t])
    <3>1. Passing(t) = StartLba(req[t])..(cur[t] + ChunkLen(t) - 1)
      BY <1>1, <2>1, PassingIs
    <3> QED
      BY <1>7, <2>1, <3>1, ChunkIs DEF Span
  <2>3. Moved(t) = Span(req[t])
    BY <1>1, <1>7, <2>1, <2>2 DEF Moved, Passing
  <2> QED
    BY <1>1, <1>5, <1>7, <2>3, ReturnDoes
<1>8. CASE /\ cq[slot[t]].ok /\ Continue(t)
           /\ ~(cur[t] + ChunkLen(t) = EndLba(req[t]) /\ dir[t] = req[t].kind)
  BY <1>1, <1>2, <1>5, <1>8, ContinueDoes
<1> QED
  BY <1>3, <1>6, <1>7, <1>8

\* At first nothing is asked and nothing is written.
LEMMA DeviceInit ==
  ASSUME Init
  PROVE  DeviceInv /\ Device!Init
<1>1. /\ op = [t \in Tasks |-> "user"] /\ req = [t \in Tasks |-> None]
      /\ dir = [t \in Tasks |-> "read"] /\ cur = [t \in Tasks |-> 0]
      /\ buf = [t \in Tasks |-> [b \in Bytes |-> None]] /\ ret = [t \in Tasks |-> None]
      /\ todo = [t \in Tasks |-> {}] /\ disk = [b \in Bytes |-> None]
  BY DEF Init
<1>2. RequestTypes
  BY <1>1 DEF RequestTypes
<1>3. DeviceInv
  BY <1>1, <1>2 DEF DeviceInv, Job, Alone, Told, Waiting
<1>4. \A t \in Tasks : Moved(t) = {} /\ Finds(t) = [b \in Bytes |-> None]
  BY <1>1 DEF Moved, Finds
<1>5. [t \in Tasks |-> Moved(t)] = [t \in Tasks |-> {}] /\ [t \in Tasks |-> Finds(t)] = [t \in Tasks |-> [b \in Bytes |-> None]]
  BY <1>4
<1> QED
  BY <1>1, <1>3, <1>5 DEF Device!Init, Device!Nothing, Finds

\* Every step is one of the device, or none.
LEMMA DeviceNext ==
  ASSUME "rmw" \notin Faults, "lap" \notin Faults, "overrun" \notin Faults, "sct" \notin Faults,
         QueueInv, FreshIds, DeviceInv, [Next]_vars
  PROVE  DeviceInv' /\ (Device!Next \/ Mapped' = Mapped)
<1>1. Jobs /\ Told /\ RequestTypes
  BY DEF DeviceInv, Jobs
<1>2. CASE UNCHANGED vars
  <2>1. UNCHANGED <<op, req, dir, cur, buf, ret, todo, disk, id, slot, cq, head, ctail>>
    BY <1>2 DEF vars, caller, queues, device
  <2>2. Told'
    BY <1>1, <2>1 DEF Told, First, Answered, InQueue, Waiting
  <2> QED
    BY <1>1, <2>1, <2>2, QuietStep DEF DeviceInv, Jobs
<1>3. ASSUME NEW t \in Tasks, Request(t) PROVE DeviceInv' /\ Device!Next
  BY <1>1, <1>3, RequestDoes, ToldRequest DEF DeviceInv, Jobs, Device!Next
<1>4. ASSUME NEW t \in Tasks, Submit(t) PROVE DeviceInv' /\ Mapped' = Mapped
  BY <1>1, <1>4, SubmitDoes, ToldSubmit DEF DeviceInv, Jobs
<1>5. ASSUME NEW t \in Tasks, Look(t) \/ Match(t) \/ Advance(t) \/ Wrap(t) PROVE DeviceInv' /\ Mapped' = Mapped
  <2>1. Told'
    BY <1>1, <1>5, ToldLook, ToldMatch, ToldAdvance, ToldWrap
  <2>2. UNCHANGED <<req, dir, cur, buf, ret, todo, disk>>
    BY <1>5 DEF Look, Match, Advance, Wrap, device
  <2>3. \E o \in {"look", "match", "advance", "wrap", "status"} :
          op[t] \in {"look", "match", "advance", "wrap", "status"} /\ op' = [op EXCEPT ![t] = o]
    BY <1>5 DEF Look, Match, Advance, Wrap, Goes
  <2>4. \A u \in Tasks : op'[u] = op[u] \/ (op[u] \notin {"user", "submit"} /\ op'[u] \notin {"user", "submit"})
    BY <2>3 DEF QueueInv, QueueTypes
  <2> QED
    BY <1>1, <2>1, <2>2, <2>4, QuietStep DEF DeviceInv, Jobs
<1>6. ASSUME NEW t \in Tasks, Status(t) PROVE DeviceInv' /\ (Device!Next \/ Mapped' = Mapped)
  BY <1>1, <1>6, StatusDoes DEF DeviceInv, Jobs, Device!Next
<1>7. ASSUME NEW c \in Commands, Move(c) PROVE DeviceInv' /\ (Device!Next \/ Mapped' = Mapped)
  <2>1. Told' /\ c.by \in Waiting /\ c.by \in Tasks
    BY <1>1, <1>7, ToldMove DEF Waiting
  <2> QED
    BY <1>1, <1>7, <2>1, MoveDoes DEF DeviceInv, Jobs, Device!Next
<1>8. ASSUME NEW c \in Commands, Complete(c) PROVE DeviceInv' /\ Mapped' = Mapped
  <2>1. UNCHANGED <<op, req, dir, cur, buf, ret, todo, disk>>
    BY <1>8 DEF Complete, caller
  <2> QED
    BY <1>1, <1>8, <2>1, QuietStep, ToldComplete DEF DeviceInv, Jobs
<1>9. CASE Fetch
  <2>1. UNCHANGED <<op, req, dir, cur, buf, ret, todo, disk>>
    BY <1>9 DEF Fetch, caller
  <2> QED
    BY <1>1, <1>9, <2>1, QuietStep, ToldFetch DEF DeviceInv, Jobs
<1> QED
  BY <1>2, <1>3, <1>4, <1>5, <1>6, <1>7, <1>8, <1>9 DEF Next, Step, Work

\* What the device does not see.
LEMMA Unseen ==
  ASSUME Mapped' = Mapped
  PROVE  UNCHANGED Device!vars
BY DEF Device!vars, Mapped, Finds

\* Without tasks nothing is moved.
LEMMA NobodyMoves ==
  ASSUME Tasks = {}, [Next]_vars
  PROVE  Mapped' = Mapped
<1>1. Fetch \/ UNCHANGED vars
  BY DEF Next
<1>2. UNCHANGED <<disk, req, ret>>
  BY <1>1 DEF Fetch, vars, caller, device
<1> QED
  BY <1>2 DEF Mapped

\* The namespace node is a block device (nvme_ns_vnode_read and _write): as long as no other
\* write shares a block with a partial write, and a command_id comes round only to commands
\* that are over, a request moves its own bytes and no others, block by block, and success
\* means that all were moved.
THEOREM NodeIsABlockDevice ==
  ASSUME "rmw" \notin Faults, "lap" \notin Faults, "overrun" \notin Faults, "sct" \notin Faults
  PROVE  Spec /\ []FreshIds => Implements
<1>1. Init => DeviceInv /\ Device!Init
  BY DeviceInit
<1>2. CASE Tasks = {}
  <2>1. [Next]_vars => [Device!Next]_(Device!vars)
    BY <1>2, NobodyMoves, Unseen
  <2> QED
    BY <1>1, <2>1, PTL DEF Spec, Implements, Device!Spec
<1>3. CASE Tasks # {}
  <2>1. Spec /\ []FreshIds => []QueueInv
    BY <1>3, QueuesAlways
  <2>2. QueueInv /\ FreshIds /\ DeviceInv /\ [Next]_vars => DeviceInv' /\ [Device!Next]_(Device!vars)
    BY DeviceNext, Unseen
  <2> QED
    BY <1>1, <2>1, <2>2, PTL DEF Spec, Implements, Device!Spec
<1> QED
  BY <1>2, <1>3

-----------------------------------------------------------------------------
(* Recursion.                                                              *)

\* A set of numbers has a least one.
LEMMA LeastOf ==
  ASSUME NEW S \in SUBSET Nat, S # {}
  PROVE  \E m \in S : \A x \in S : m <= x
<1>1. PICK m \in S : \A x \in S : <<x, m>> \notin OpToRel(<, Nat)
  BY NatLessThanWellFounded, WFMin
<1>2. \A x \in S : ~(x < m)
  BY <1>1 DEF OpToRel
<1> QED
  BY <1>2

\* g is defined by recursion: at the places in T it is base, elsewhere it is made from its
\* value at the next place.
Recurs(g, D, S, T, base, next, step) ==
  /\ g \in [D -> S]
  /\ \A d \in D : (d \in T => g[d] = base[d]) /\ (d \notin T => g[d] = step[<<d, g[next[d]]>>])

\* Recursion that goes down a rank has a result.
LEMMA RecursionIs ==
  ASSUME NEW D, NEW S, NEW N \in Nat, NEW rank \in [D -> 0..N], NEW T, NEW base \in [D -> S],
         NEW next \in [D -> D], NEW step \in [D \X S -> S],
         \A d \in D : d \notin T => rank[next[d]] < rank[d]
  PROVE  \E g : Recurs(g, D, S, T, base, next, step)
<1> DEFINE Below(r) == {d \in D : rank[d] < r}
           Good(g, r) == /\ g \in [Below(r) -> S]
                         /\ \A d \in Below(r) : /\ d \in T => g[d] = base[d]
                                                /\ d \notin T => g[d] = step[<<d, g[next[d]]>>]
<1>1. PICK P : P = {r \in 0..(N + 1) : \E g : Good(g, r)}
  OBVIOUS
<1>2. 0 \in P
  <2>1. Below(0) = {}
    OBVIOUS
  <2>2. \E g : Good(g, 0)
    <3>1. Good([d \in {} |-> base[d]], 0)
      BY <2>1
    <3> HIDE DEF Good
    <3> QED
      BY <3>1
  <2> HIDE DEF Good
  <2> QED
    BY <1>1, <2>2
<1>3. ASSUME NEW r \in 0..N, r \in P PROVE r + 1 \in P
  <2>1. PICK g : Good(g, r)
    BY <1>1, <1>3
  <2>2. PICK h : h = [d \in Below(r + 1) |-> IF d \in Below(r) THEN g[d]
                                             ELSE IF d \in T THEN base[d] ELSE step[<<d, g[next[d]]>>]]
    OBVIOUS
  <2>3. \A d \in Below(r + 1) : d \in D /\ (d \notin T => next[d] \in Below(r) /\ next[d] \in Below(r + 1))
    OBVIOUS
  <2>4. \A d \in Below(r) : d \in Below(r + 1)
    OBVIOUS
  <2>5. \A d \in Below(r) : g[d] \in S /\ (d \in T => g[d] = base[d]) /\ (d \notin T => g[d] = step[<<d, g[next[d]]>>])
    BY <2>1
  <2> HIDE DEF Below
  <2>6. \A d \in Below(r) : h[d] = g[d]
    BY <2>2, <2>4
  <2>7. \A d \in Below(r + 1) : d \notin Below(r) => h[d] = IF d \in T THEN base[d] ELSE step[<<d, g[next[d]]>>]
    BY <2>2
  <2>8. ASSUME NEW d \in Below(r + 1)
        PROVE  h[d] \in S /\ (d \in T => h[d] = base[d]) /\ (d \notin T => h[d] = step[<<d, h[next[d]]>>])
    <3>1. CASE d \in T
      BY <2>3, <2>5, <2>6, <2>7, <3>1
    <3>2. CASE d \notin T
      <4>1. h[next[d]] = g[next[d]] /\ g[next[d]] \in S /\ d \in D
        BY <2>3, <2>5, <2>6, <3>2
      <4>2. h[d] = step[<<d, g[next[d]]>>]
        BY <2>5, <2>6, <2>7, <3>2
      <4>3. <<d, g[next[d]]>> \in D \X S
        BY <4>1
      <4> QED
        BY <3>2, <4>1, <4>2, <4>3
    <3> QED
      BY <3>1, <3>2
  <2>9. h \in [Below(r + 1) -> S]
    BY <2>2, <2>8
  <2> QED
    BY <1>1, <2>8, <2>9
<1>4. N + 1 \in P
  <2> SUFFICES ASSUME N + 1 \notin P PROVE FALSE
    OBVIOUS
  <2>1. PICK Q : Q = (0..(N + 1)) \ P
    OBVIOUS
  <2> HIDE DEF Good
  <2>2. Q \in SUBSET Nat /\ Q # {}
    <3>1. N + 1 \in 0..(N + 1)
      BY ONLY N \in Nat
    <3>2. N + 1 \in Q
      BY <2>1, <3>1
    <3>3. \A x \in Q : x \in Nat
      BY ONLY <2>1, N \in Nat
    <3> QED
      BY <3>2, <3>3
  <2>3. PICK m \in Q : \A x \in Q : m <= x
    BY <2>2, LeastOf
  <2>4. m \in 0..(N + 1) /\ m \notin P /\ m # 0
    BY <1>2, <2>1, <2>3
  <2>5. m - 1 \in 0..N /\ m - 1 \in P /\ (m - 1) + 1 = m
    BY <2>1, <2>3, <2>4
  <2> QED
    BY <1>3, <2>4, <2>5
<1>5. PICK g : Good(g, N + 1)
  BY <1>1, <1>4
<1>6. Below(N + 1) = D
  OBVIOUS
<1> QED
  BY <1>5, <1>6 DEF Recurs

-----------------------------------------------------------------------------
(* PRP lists.                                                              *)

\* Lists of pages.
PrpList == [1..Entries -> Nat \cup {Link, Empty}]

\* The list whose first entry is page from, of n.
ListAt(n, from) ==
  [i \in 1..Entries |->
     IF i <= Least(n - from, Entries - 1) THEN from + i - 1
     ELSE IF i = Entries /\ (n - from) - Least(n - from, Entries - 1) > 0
          THEN IF FitsInList((n - from) - Least(n - from, Entries - 1))
               THEN from + Least(n - from, Entries - 1) ELSE Link
     ELSE Empty]

\* A list is full of pages when more than it can hold are left, and then ends in a link.
LEMMA ListAtIs ==
  ASSUME NEW n \in Nat, NEW from \in 0..n
  PROVE  /\ ListAt(n, from) \in PrpList
         /\ FitsInList((n - from) - Least(n - from, Entries - 1)) <=> n - from <= Entries
         /\ n - from > Entries => /\ Least(n - from, Entries - 1) = Entries - 1
                                  /\ ListAt(n, from)[Entries] = Link
                                  /\ \A i \in 1..(Entries - 1) : ListAt(n, from)[i] = from + i - 1
                                  /\ from + Entries - 1 \in 0..n /\ from + Entries - 1 > from
         /\ n - from <= Entries => \A i \in 1..(n - from) : ListAt(n, from)[i] = from + i - 1
<1>1. Entries \in Nat /\ Entries >= 2
  BY SizeAssumption
<1>2. PICK c : c = Least(n - from, Entries - 1)
  OBVIOUS
<1>3. c \in Nat /\ c <= n - from /\ c <= Entries - 1 /\ (c = n - from \/ c = Entries - 1)
  BY <1>1, <1>2 DEF Least
<1>4. ListAt(n, from) = [i \in 1..Entries |->
        IF i <= c THEN from + i - 1
        ELSE IF i = Entries /\ (n - from) - c > 0 THEN IF (n - from) - c <= 1 THEN from + c ELSE Link
        ELSE Empty]
  BY <1>2 DEF ListAt, FitsInList
<1>5. ListAt(n, from) \in PrpList
  BY <1>1, <1>3, <1>4 DEF PrpList
<1>6. (n - from) - c <= 1 <=> n - from <= Entries
  BY <1>1, <1>3
<1>7. ASSUME n - from > Entries
      PROVE  /\ c = Entries - 1 /\ ListAt(n, from)[Entries] = Link
             /\ \A i \in 1..(Entries - 1) : ListAt(n, from)[i] = from + i - 1
             /\ from + Entries - 1 \in 0..n /\ from + Entries - 1 > from
  BY <1>1, <1>3, <1>4, <1>7
<1>8. ASSUME n - from <= Entries, NEW i \in 1..(n - from) PROVE ListAt(n, from)[i] = from + i - 1
  BY <1>1, <1>3, <1>4, <1>8
<1> QED
  BY <1>2, <1>5, <1>6, <1>7, <1>8 DEF FitsInList

\* The pages of n that are left from page i on, in order.
Rest(n, i) == [j \in 1..(n - i) |-> i + j - 1]

\* b gives, for each page that may come first in a list, the lists from there on.
Built(b, n) ==
  \A i \in 0..n :
    /\ b[i] \in Seq(PrpList) /\ Len(b[i]) >= 1
    /\ n - i <= Entries => b[i] = <<ListAt(n, i)>>
    /\ n - i > Entries => b[i] = <<ListAt(n, i)>> \o b[i + Entries - 1]

\* What holds of the last list, and of a list if it does of the next, holds of all.
LEMMA FromBehind ==
  ASSUME NEW n \in Nat, NEW G,
         \A i \in 0..n : (n - i > Entries => i + Entries - 1 \in G) => i \in G
  PROVE  0..n \subseteq G
<1>1. PICK Q : Q = {d \in 0..n : n - d \notin G}
  OBVIOUS
<1>2. Q = {}
  <2> SUFFICES ASSUME Q # {} PROVE FALSE
    OBVIOUS
  <2>1. Q \in SUBSET Nat
    BY <1>1
  <2>2. PICK m \in Q : \A x \in Q : m <= x
    BY <2>1, LeastOf
  <2>3. m \in 0..n /\ n - m \notin G /\ n - m \in 0..n /\ n - (n - m) = m
    BY <1>1
  <2>4. PICK i : i = n - m
    OBVIOUS
  <2>5. i \in 0..n /\ i \notin G /\ n - i = m
    BY <2>3, <2>4
  <2>6. n - i > Entries /\ i + Entries - 1 \notin G
    BY <2>5
  <2>7. PICK j : j = i + Entries - 1
    OBVIOUS
  <2>8. j \in 0..n /\ j > i /\ n - j \in 0..n /\ n - (n - j) = j
    BY <2>5, <2>6, <2>7, SizeAssumption
  <2>9. n - j \in Q
    BY <1>1, <2>6, <2>7, <2>8
  <2> QED
    BY <2>2, <2>5, <2>8, <2>9
<1> QED
  <2>1. ASSUME NEW i \in 0..n PROVE i \in G
    <3>1. n - i \in 0..n /\ n - (n - i) = i
      OBVIOUS
    <3>2. n - i \notin Q
      BY <1>2
    <3> QED
      BY <1>1, <3>1, <3>2
  <2> QED
    BY <2>1

\* A list in front of lists.
LEMMA ListsLonger ==
  ASSUME NEW x \in PrpList, NEW s \in Seq(PrpList)
  PROVE  /\ <<x>> \o s \in Seq(PrpList) /\ Len(<<x>> \o s) = 1 + Len(s) /\ (<<x>> \o s)[1] = x
         /\ \A j \in 1..Len(s) : (<<x>> \o s)[1 + j] = s[j]
<1>1. PICK y : y = <<x>>
  OBVIOUS
<1>2. y \in Seq(PrpList) /\ Len(y) = 1 /\ y[1] = x
  BY <1>1
<1>3. y \o s \in Seq(PrpList) /\ Len(y \o s) = 1 + Len(s)
  BY <1>2, ConcatProperties
<1>4. \A j \in 1..(1 + Len(s)) : (y \o s)[j] = IF j <= 1 THEN y[j] ELSE s[j - 1]
  <2>1. \A j \in 1..(Len(y) + Len(s)) : (y \o s)[j] = IF j <= Len(y) THEN y[j] ELSE s[j - Len(y)]
    BY <1>2, ConcatProperties
  <2> QED
    BY <1>2, <2>1
<1>5. ASSUME NEW j \in 1..Len(s) PROVE (y \o s)[1 + j] = s[j]
  <2>1. 1 + j \in 1..(1 + Len(s)) /\ ~(1 + j <= 1) /\ (1 + j) - 1 = j
    OBVIOUS
  <2> QED
    BY <1>4, <2>1
<1>6. 1 \in 1..(1 + Len(s))
  OBVIOUS
<1>7. (y \o s)[1] = x
  BY <1>2, <1>4, <1>6
<1> QED
  BY <1>1, <1>3, <1>5, <1>7

\* create_prps builds lists, each from the page where the one before it stops.
LEMMA BuildIs ==
  ASSUME NEW n \in Nat, n > 1
  PROVE  \E b : Built(b, n) /\ Lists(n) = b[1]
<1> DEFINE Body(i, later) ==
             LET needed == n - i
                 count == Least(needed, Entries - 1)
                 rem == needed - count
                 list == [j \in 1..Entries |->
                            IF j <= count THEN i + j - 1
                            ELSE IF j = Entries /\ rem > 0
                                 THEN IF FitsInList(rem) THEN i + count ELSE Link
                            ELSE Empty]
             IN  IF FitsInList(rem) THEN <<list>> ELSE <<list>> \o later[i + count]
           Solves(g) == g = [i \in 0..n |-> Body(i, g)]
           built == CHOOSE g : Solves(g)
<1>1. Lists(n) = built[1]
  BY DEF Lists
<1>2. \A i \in 0..n : \A later :
        /\ n - i <= Entries => Body(i, later) = <<ListAt(n, i)>>
        /\ n - i > Entries => Body(i, later) = <<ListAt(n, i)>> \o later[i + Entries - 1]
  <2> SUFFICES ASSUME NEW i \in 0..n, NEW later
               PROVE  /\ n - i <= Entries => Body(i, later) = <<ListAt(n, i)>>
                      /\ n - i > Entries => Body(i, later) = <<ListAt(n, i)>> \o later[i + Entries - 1]
    OBVIOUS
  <2>1. Body(i, later) =
          IF FitsInList((n - i) - Least(n - i, Entries - 1)) THEN <<ListAt(n, i)>>
          ELSE <<ListAt(n, i)>> \o later[i + Least(n - i, Entries - 1)]
    BY DEF ListAt
  <2> HIDE DEF Body
  <2>2. i + (Entries - 1) = i + Entries - 1 /\ n - i \in Int /\ Entries \in Int
    BY SizeAssumption
  <2>3. /\ FitsInList((n - i) - Least(n - i, Entries - 1)) <=> n - i <= Entries
        /\ n - i > Entries => Least(n - i, Entries - 1) = Entries - 1
    BY ListAtIs
  <2>4. CASE n - i <= Entries
    <3>1. ~(n - i > Entries)
      BY <2>2, <2>4
    <3>2. Body(i, later) = <<ListAt(n, i)>>
      BY <2>1, <2>3, <2>4
    <3> QED
      BY <3>1, <3>2
  <2>5. CASE ~(n - i <= Entries)
    <3>1. Least(n - i, Entries - 1) = Entries - 1
      BY <2>2, <2>3, <2>5
    <3>2. i + Least(n - i, Entries - 1) = i + Entries - 1
      BY <2>2, <3>1
    <3>3. Body(i, later) = <<ListAt(n, i)>> \o later[i + Least(n - i, Entries - 1)]
      BY <2>1, <2>3, <2>5
    <3> QED
      BY <2>5, <3>2, <3>3
  <2> QED
    BY <2>4, <2>5
<1> HIDE DEF Body
<1>3. PICK S, T, rank, base, next, step :
        /\ S = Seq(PrpList) \ {<<>>}
        /\ T = {i \in 0..n : n - i <= Entries}
        /\ rank = [i \in 0..n |-> n - i]
        /\ base = [i \in 0..n |-> <<ListAt(n, i)>>]
        /\ next = [i \in 0..n |-> IF n - i <= Entries THEN i ELSE i + Entries - 1]
        /\ step = [w \in (0..n) \X S |-> <<ListAt(n, w[1])>> \o w[2]]
  OBVIOUS
<1>4. \A i \in 0..n : ListAt(n, i) \in PrpList
  BY ListAtIs
<1>5. /\ rank \in [0..n -> 0..n] /\ next \in [0..n -> 0..n]
      /\ \A d \in 0..n : d \notin T => rank[next[d]] < rank[d]
  <2>1. \A i \in 0..n : n - i \in 0..n
    OBVIOUS
  <2>2. \A i \in 0..n : n - i > Entries => i + Entries - 1 \in 0..n /\ i + Entries - 1 > i
    BY ListAtIs
  <2>3. \A i \in 0..n : n - i <= Entries \/ n - i > Entries
    BY SizeAssumption
  <2>4. rank \in [0..n -> 0..n]
    BY <1>3, <2>1
  <2>5. next \in [0..n -> 0..n]
    BY <1>3, <2>2, <2>3
  <2>6. ASSUME NEW d \in 0..n, d \notin T PROVE rank[next[d]] < rank[d]
    <3>1. n - d > Entries /\ ~(n - d <= Entries)
      BY <1>3, <2>3, <2>6
    <3>2. next[d] = d + Entries - 1 /\ d + Entries - 1 \in 0..n /\ d + Entries - 1 > d
      BY <1>3, <2>2, <3>1
    <3>3. rank[next[d]] = n - next[d] /\ rank[d] = n - d
      BY <1>3, <3>2
    <3> QED
      BY <3>2, <3>3
  <2> QED
    BY <2>4, <2>5, <2>6
<1>6. base \in [0..n -> S]
  <2>1. ASSUME NEW i \in 0..n PROVE <<ListAt(n, i)>> \in S
    <3>1. <<ListAt(n, i)>> \in Seq(PrpList) /\ Len(<<ListAt(n, i)>>) = 1
      BY <1>4
    <3> QED
      BY <1>3, <3>1
  <2> QED
    BY <1>3, <2>1
<1>7. step \in [(0..n) \X S -> S]
  <2>1. ASSUME NEW i \in 0..n, NEW s \in S PROVE <<ListAt(n, i)>> \o s \in S
    <3>1. <<ListAt(n, i)>> \o s \in Seq(PrpList) /\ Len(<<ListAt(n, i)>> \o s) = 1 + Len(s) /\ Len(s) \in Nat
      BY <1>3, <1>4, ListsLonger
    <3> QED
      BY <1>3, <3>1
  <2> QED
    BY <1>3, <2>1
<1>8. PICK g : Recurs(g, 0..n, S, T, base, next, step)
  BY <1>5, <1>6, <1>7, RecursionIs
<1>9. \A i \in 0..n : /\ g[i] \in S
                      /\ n - i <= Entries => g[i] = <<ListAt(n, i)>>
                      /\ n - i > Entries => g[i] = <<ListAt(n, i)>> \o g[i + Entries - 1]
  <2> SUFFICES ASSUME NEW i \in 0..n
               PROVE  /\ g[i] \in S
                      /\ n - i <= Entries => g[i] = <<ListAt(n, i)>>
                      /\ n - i > Entries => g[i] = <<ListAt(n, i)>> \o g[i + Entries - 1]
    OBVIOUS
  <2>1. g \in [0..n -> S] /\ (i \in T => g[i] = base[i]) /\ (i \notin T => g[i] = step[<<i, g[next[i]]>>])
    BY <1>8 DEF Recurs
  <2>2. CASE n - i <= Entries
    BY <1>3, <2>1, <2>2, SizeAssumption
  <2>3. CASE ~(n - i <= Entries)
    <3>1. i \notin T /\ next[i] = i + Entries - 1 /\ next[i] \in 0..n
      BY <1>3, <1>5, <2>3
    <3>2. g[next[i]] \in S
      BY <2>1, <3>1
    <3>3. step[<<i, g[next[i]]>>] = <<ListAt(n, i)>> \o g[next[i]]
      BY <1>3, <3>2
    <3> QED
      BY <2>1, <2>3, <3>1, <3>3, SizeAssumption
  <2> QED
    BY <2>2, <2>3
<1>10. Solves(g)
  <2>1. \A i \in 0..n : g[i] = Body(i, g)
    <3>1. \A i \in 0..n : n - i <= Entries \/ n - i > Entries
      BY SizeAssumption
    <3> QED
      BY <1>2, <1>9, <3>1
  <2>2. g = [i \in 0..n |-> g[i]]
    BY <1>8 DEF Recurs
  <2> QED
    BY <2>1, <2>2
<1>11. Solves(built)
  BY <1>10
<1>12. PICK b : b = built
  OBVIOUS
<1>13. \A i \in 0..n : b[i] = Body(i, b)
  BY <1>11, <1>12
<1> HIDE DEF Solves, built
<1>14. \A i \in 0..n : /\ n - i <= Entries => b[i] = <<ListAt(n, i)>>
                       /\ n - i > Entries => b[i] = <<ListAt(n, i)>> \o b[i + Entries - 1]
  BY <1>2, <1>13
<1>15. PICK G : G = {i \in 0..n : b[i] \in S}
  OBVIOUS
<1>16. ASSUME NEW i \in 0..n, n - i > Entries => i + Entries - 1 \in G PROVE i \in G
  <2>1. CASE n - i <= Entries
    BY <1>3, <1>6, <1>14, <1>15, <2>1
  <2>2. CASE n - i > Entries
    <3>1. b[i + Entries - 1] \in S
      BY <1>15, <1>16, <2>2
    <3>2. b[i] = step[<<i, b[i + Entries - 1]>>]
      BY <1>3, <1>14, <2>2, <3>1
    <3> QED
      BY <1>7, <1>15, <3>1, <3>2
  <2> QED
    BY <2>1, <2>2, SizeAssumption
<1>17. \A i \in 0..n : b[i] \in S
  <2>1. 0..n \subseteq G
    BY <1>16, FromBehind
  <2> QED
    BY <1>15, <2>1
<1>18. \A s \in S : s \in Seq(PrpList) /\ Len(s) >= 1
  BY <1>3
<1>19. Built(b, n)
  BY <1>14, <1>17, <1>18 DEF Built
<1> QED
  BY <1>1, <1>12, <1>19

\* free_prps gives back as many lists as create_prps has made.
LEMMA FreedIs ==
  ASSUME NEW size, PagesOf(size) \in Nat, PagesOf(size) > 2, NEW b, Built(b, PagesOf(size))
  PROVE  FreedPrps(size) = Len(b[1])
<1>1. PICK n \in Nat : n = PagesOf(size) /\ n > 2
  OBVIOUS
<1> DEFINE Solves(g) == g = [i \in 0..PagesOf(size) |->
                               IF Chained(PagesOf(size) - i) THEN 1 + g[i + Entries - 1] ELSE 1]
           walk == CHOOSE g : Solves(g)
<1>2. FreedPrps(size) = IF PagesOf(size) <= 2 THEN 0 ELSE walk[1]
  BY DEF FreedPrps
<1>3. \A i \in 0..n : /\ b[i] \in Seq(PrpList)
                      /\ n - i <= Entries => b[i] = <<ListAt(n, i)>>
                      /\ n - i > Entries => b[i] = <<ListAt(n, i)>> \o b[i + Entries - 1]
  BY <1>1 DEF Built
<1>4. \A i \in 0..n : /\ n - i <= Entries => Len(b[i]) = 1
                      /\ n - i > Entries => Len(b[i]) = 1 + Len(b[i + Entries - 1])
  <2> SUFFICES ASSUME NEW i \in 0..n
               PROVE  /\ n - i <= Entries => Len(b[i]) = 1
                      /\ n - i > Entries => Len(b[i]) = 1 + Len(b[i + Entries - 1])
    OBVIOUS
  <2>1. ListAt(n, i) \in PrpList /\ (n - i > Entries => i + Entries - 1 \in 0..n)
    BY ListAtIs
  <2>2. ASSUME n - i <= Entries PROVE Len(b[i]) = 1
    <3>1. b[i] = <<ListAt(n, i)>>
      BY <1>3, <2>2
    <3> QED
      BY ONLY <3>1
  <2>3. ASSUME n - i > Entries PROVE Len(b[i]) = 1 + Len(b[i + Entries - 1])
    <3>1. b[i + Entries - 1] \in Seq(PrpList)
      BY <1>3, <2>1, <2>3
    <3>2. b[i] = <<ListAt(n, i)>> \o b[i + Entries - 1]
      BY <1>3, <2>3
    <3> QED
      BY <2>1, <3>1, <3>2, ListsLonger
  <2> QED
    BY <2>2, <2>3
<1>5. \A i \in 0..n : Chained(n - i) <=> n - i > Entries
  BY DEF Chained
<1>6. \A i \in 0..n : n - i <= Entries \/ n - i > Entries
  BY SizeAssumption
<1>7. PICK g : g = [i \in 0..n |-> Len(b[i])]
  OBVIOUS
<1>8. Solves(g)
  <2>1. ASSUME NEW i \in 0..n PROVE Len(b[i]) = IF Chained(n - i) THEN 1 + g[i + Entries - 1] ELSE 1
    <3>1. n - i > Entries => i + Entries - 1 \in 0..n
      BY ListAtIs
    <3>2. n - i > Entries => g[i + Entries - 1] = Len(b[i + Entries - 1])
      BY <1>7, <3>1
    <3> QED
      BY <1>4, <1>5, <1>6, <3>2
  <2> QED
    BY <1>1, <1>7, <2>1
<1>9. Solves(walk)
  BY <1>8
<1>10. PICK w : w = walk
  OBVIOUS
<1>11. \A i \in 0..n : w[i] = IF Chained(n - i) THEN 1 + w[i + Entries - 1] ELSE 1
  BY <1>1, <1>9, <1>10
<1> HIDE DEF Solves, walk
<1>12. PICK G : G = {i \in 0..n : w[i] = Len(b[i])}
  OBVIOUS
<1>13. ASSUME NEW i \in 0..n, n - i > Entries => i + Entries - 1 \in G PROVE i \in G
  BY <1>4, <1>5, <1>6, <1>11, <1>12, <1>13
<1>14. 1 \in 0..n /\ 0..n \subseteq G
  BY <1>1, <1>13, FromBehind
<1> QED
  BY <1>1, <1>2, <1>10, <1>12, <1>14

\* The entries of a part of a list.
LEMMA PartIs ==
  ASSUME NEW E, NEW k \in Nat, NEW x \in [1..k -> E], NEW m \in 0..k
  PROVE  SubSeq(x, 1, m) \in Seq(E) /\ SubSeq(x, 1, m) = [j \in 1..m |-> x[j]]
<1>1. x \in Seq(E) /\ Len(x) = k
  OBVIOUS
<1>2. SubSeq(x, 1, m) = [j \in 1..m |-> x[j]]
  BY <1>1
<1>3. [j \in 1..m |-> x[j]] \in Seq(E)
  OBVIOUS
<1> QED
  BY <1>2, <1>3

\* What the controller finds on its walk: page after page, as long as the lists lead on.
Walked(f, n, lists) ==
  \A k \in 1..Len(lists), i \in 0..n :
    /\ n - i <= Entries => f[<<k, i>>] = SubSeq(lists[k], 1, n - i)
    /\ n - i > Entries /\ lists[k][Entries] = Link =>
         f[<<k, i>>] = SubSeq(lists[k], 1, Entries - 1) \o f[<<k + 1, i + Entries - 1>>]

\* Without "mps" the driver and the controller count in the same pages.
LEMMA OnePageSize ==
  ASSUME "mps" \notin Faults, NEW size
  PROVE  /\ Mps = PageSize /\ DeviceEntries = Entries
         /\ DevicePages(size) = PagesOf(size)
<1>1. Mps = PageSize
  BY PageAssumption
<1>2. (Entries * PageSize) \div PageSize = Entries
  <2>1. PageSize \in Nat /\ PageSize > 0 /\ Entries \in Nat
    BY SizeAssumption
  <2>2. PICK x \in Int : x = (Entries * PageSize) \div PageSize
    BY <2>1
  <2>3. Entries * PageSize = PageSize * x + ((Entries * PageSize) % PageSize)
        /\ (Entries * PageSize) % PageSize \in 0..(PageSize - 1)
    BY <2>1, <2>2, DivMod
  <2>4. x >= Entries + 1 => PageSize * (Entries + 1) <= PageSize * x
    BY <2>1, <2>2, Multiples
  <2>5. x + 1 <= Entries => PageSize * (x + 1) <= PageSize * Entries
    BY <2>1, <2>2, Multiples
  <2> QED
    BY <2>1, <2>2, <2>3, <2>4, <2>5
<1> QED
  BY <1>1, <1>2 DEF DeviceEntries, DevicePages, PagesOf

\* The controller's walk over lists is one.
LEMMA WalkIs ==
  ASSUME "mps" \notin Faults, NEW size, PagesOf(size) \in Nat, PagesOf(size) > 2, NEW lists \in Seq(PrpList)
  PROVE  \E f : Walked(f, PagesOf(size), lists) /\ PagesSeen(size, lists) = <<0>> \o f[<<1, 1>>]
<1>1. PICK n \in Nat : n = PagesOf(size) /\ n > 2
  OBVIOUS
<1> DEFINE D == (1..(Len(lists) + 1)) \X (0..PagesOf(size))
           Body(w, later) ==
             LET k == w[1]
                 i == w[2]
             IN  IF k > Len(lists) THEN <<Empty>>
                 ELSE IF PagesOf(size) - i <= Entries THEN SubSeq(lists[k], 1, PagesOf(size) - i)
                 ELSE SubSeq(lists[k], 1, Entries - 1)
                      \o (IF lists[k][Entries] = Link THEN later[<<k + 1, i + Entries - 1>>] ELSE <<Empty>>)
           Solves(g) == g = [w \in D |-> Body(w, g)]
           walk == CHOOSE g : Solves(g)
<1>2. PagesSeen(size, lists) = <<0>> \o walk[<<1, 1>>]
  <2>1. ListWalk(lists, PagesOf(size), Entries) = walk[<<1, 1>>]
    BY DEF ListWalk
  <2> HIDE DEF walk
  <2>2. PagesSeen(size, lists) = <<0>> \o ListWalk(lists, PagesOf(size), Entries)
    BY <1>1, OnePageSize DEF PagesSeen
  <2> QED
    BY <2>1, <2>2
<1>3. PICK S, T : /\ S = Seq(Nat \cup {Link, Empty})
                  /\ T = {w \in D : w[1] > Len(lists) \/ n - w[2] <= Entries \/ lists[w[1]][Entries] # Link}
  OBVIOUS
<1>4. PICK rank, base, next, step :
        /\ rank = [w \in D |-> n - w[2]]
        /\ base = [w \in D |-> IF w[1] > Len(lists) THEN <<Empty>>
                               ELSE IF n - w[2] <= Entries THEN SubSeq(lists[w[1]], 1, n - w[2])
                               ELSE SubSeq(lists[w[1]], 1, Entries - 1) \o <<Empty>>]
        /\ next = [w \in D |-> IF w \in T THEN w ELSE <<w[1] + 1, w[2] + Entries - 1>>]
        /\ step = [v \in D \X S |-> IF v[1] \in T THEN <<Empty>>
                                   ELSE SubSeq(lists[v[1][1]], 1, Entries - 1) \o v[2]]
  OBVIOUS
<1>5. Entries \in Nat /\ Entries >= 2 /\ Len(lists) \in Nat
  BY SizeAssumption
<1>6. \A k \in 1..Len(lists) : lists[k] \in PrpList
  OBVIOUS
<1>7. ASSUME NEW x \in PrpList, NEW m \in 0..Entries PROVE SubSeq(x, 1, m) \in S
  BY <1>3, <1>5, <1>7, PartIs DEF PrpList
<1>8. <<Empty>> \in S /\ \A s, r \in S : s \o r \in S
  <2>1. PICK X : X = Nat \cup {Link, Empty}
    OBVIOUS
  <2>2. Empty \in X
    BY <2>1
  <2>3. <<Empty>> \in Seq(X)
    BY <2>2
  <2>4. \A s, r \in Seq(X) : s \o r \in Seq(X)
    BY ConcatProperties
  <2> QED
    BY <1>3, <2>1, <2>3, <2>4
<1>9. \A w \in D : w[1] \in 1..(Len(lists) + 1) /\ w[2] \in 0..n /\ w = <<w[1], w[2]>>
  BY <1>1
<1>10. \A k \in 1..(Len(lists) + 1), i \in 0..n : <<k, i>> \in D
  BY <1>1
<1> HIDE DEF D
<1>11. \A w \in D : w \notin T => /\ w[1] \in 1..Len(lists) /\ n - w[2] > Entries /\ lists[w[1]][Entries] = Link
                                  /\ <<w[1] + 1, w[2] + Entries - 1>> \in D
  <2> SUFFICES ASSUME NEW w \in D, w \notin T
               PROVE  /\ w[1] \in 1..Len(lists) /\ n - w[2] > Entries /\ lists[w[1]][Entries] = Link
                      /\ <<w[1] + 1, w[2] + Entries - 1>> \in D
    OBVIOUS
  <2>1. w[1] \in 1..(Len(lists) + 1) /\ w[2] \in 0..n
    BY <1>9
  <2>2. ~(w[1] > Len(lists)) /\ ~(n - w[2] <= Entries) /\ lists[w[1]][Entries] = Link
    BY <1>3
  <2>3. w[1] + 1 \in 1..(Len(lists) + 1) /\ w[2] + Entries - 1 \in 0..n
    <3>1. PICK k, i : k = w[1] /\ i = w[2]
      OBVIOUS
    <3>2. k \in 1..(Len(lists) + 1) /\ i \in 0..n /\ ~(k > Len(lists)) /\ ~(n - i <= Entries)
      BY <2>1, <2>2, <3>1
    <3>3. k + 1 \in 1..(Len(lists) + 1) /\ i + Entries - 1 \in 0..n
      BY ONLY <1>5, <3>2, n \in Nat
    <3> QED
      BY <3>1, <3>3
  <2> QED
    BY <1>5, <1>10, <2>1, <2>2, <2>3
<1>12. rank \in [D -> 0..n] /\ next \in [D -> D]
  BY <1>4, <1>9, <1>11
<1>13. ASSUME NEW w \in D, w \notin T PROVE rank[next[w]] < rank[w]
  <2>1. next[w] = <<w[1] + 1, w[2] + Entries - 1>> /\ next[w] \in D /\ w[2] \in 0..n
    BY <1>4, <1>9, <1>11, <1>13
  <2>2. rank[next[w]] = n - next[w][2] /\ rank[w] = n - w[2]
    BY <1>4, <2>1
  <2>3. next[w][2] = w[2] + Entries - 1
    BY <2>1
  <2> QED
    BY <1>5, <2>1, <2>2, <2>3
<1>14. base \in [D -> S]
  <2>1. ASSUME NEW w \in D PROVE base[w] \in S
    <3>1. w[1] \in 1..(Len(lists) + 1) /\ w[2] \in 0..n
      BY <1>9
    <3>2. CASE w[1] > Len(lists)
      BY <1>4, <1>8, <3>2
    <3>3. CASE ~(w[1] > Len(lists)) /\ n - w[2] <= Entries
      <4>1. lists[w[1]] \in PrpList /\ n - w[2] \in 0..Entries
        BY <1>5, <1>6, <3>1, <3>3
      <4> QED
        BY <1>4, <1>7, <3>3, <4>1
    <3>4. CASE ~(w[1] > Len(lists)) /\ ~(n - w[2] <= Entries)
      <4>1. lists[w[1]] \in PrpList /\ Entries - 1 \in 0..Entries
        BY <1>5, <1>6, <3>1, <3>4
      <4>2. SubSeq(lists[w[1]], 1, Entries - 1) \in S
        BY <1>7, <4>1
      <4> QED
        BY <1>4, <1>8, <3>4, <4>2
    <3> QED
      BY <3>2, <3>3, <3>4
  <2> QED
    BY <1>4, <2>1
<1>15. step \in [D \X S -> S]
  <2>1. ASSUME NEW w \in D, NEW s \in S, w \notin T PROVE SubSeq(lists[w[1]], 1, Entries - 1) \o s \in S
    <3>1. Entries - 1 \in 0..Entries
      BY <1>5
    <3>2. lists[w[1]] \in PrpList
      BY <1>6, <1>11, <2>1
    <3> QED
      BY <1>7, <1>8, <3>1, <3>2
  <2> QED
    BY <1>4, <1>8, <2>1
<1>16. PICK g : Recurs(g, D, S, T, base, next, step)
  BY <1>12, <1>13, <1>14, <1>15, RecursionIs
<1>17. ASSUME NEW w \in D PROVE g[w] = Body(w, g)
  <2>1. /\ g \in [D -> S] /\ (w \in T => g[w] = base[w]) /\ (w \notin T => g[w] = step[<<w, g[next[w]]>>])
    BY <1>16 DEF Recurs
  <2>2. w[1] \in 1..(Len(lists) + 1) /\ w[2] \in 0..n
    BY <1>9
  <2>3. CASE w \in T
    <3>1. w[1] > Len(lists) \/ n - w[2] <= Entries \/ lists[w[1]][Entries] # Link
      BY <1>3, <2>3
    <3>2. g[w] = IF w[1] > Len(lists) THEN <<Empty>>
                 ELSE IF n - w[2] <= Entries THEN SubSeq(lists[w[1]], 1, n - w[2])
                 ELSE SubSeq(lists[w[1]], 1, Entries - 1) \o <<Empty>>
      BY <1>4, <2>1, <2>3
    <3> QED
      BY <1>1, <3>1, <3>2
  <2>4. CASE w \notin T
    <3>1. w[1] \in 1..Len(lists) /\ n - w[2] > Entries /\ lists[w[1]][Entries] = Link
      BY <1>11, <2>4
    <3>2. next[w] = <<w[1] + 1, w[2] + Entries - 1>> /\ next[w] \in D
      BY <1>4, <1>11, <2>4
    <3>3. g[next[w]] \in S
      BY <2>1, <3>2
    <3>4. step[<<w, g[next[w]]>>] = SubSeq(lists[w[1]], 1, Entries - 1) \o g[next[w]]
      BY <1>4, <2>4, <3>3
    <3>5. ~(w[1] > Len(lists)) /\ ~(n - w[2] <= Entries)
      BY <1>5, <2>2, <3>1
    <3> QED
      BY <1>1, <2>1, <2>4, <3>1, <3>2, <3>4, <3>5
  <2> QED
    BY <2>3, <2>4
<1>18. Solves(g)
  <2>1. g = [w \in D |-> g[w]]
    BY <1>16 DEF Recurs
  <2> HIDE DEF Body
  <2> QED
    BY <1>17, <2>1
<1>19. Solves(walk)
  BY <1>18
<1>20. PICK f : f = walk
  OBVIOUS
<1>21. \A w \in D : f[w] = Body(w, f)
  <2> HIDE DEF Body
  <2> QED
    BY <1>19, <1>20
<1> HIDE DEF Solves, walk
<1>22. ASSUME NEW k \in 1..Len(lists), NEW i \in 0..n
       PROVE  /\ n - i <= Entries => f[<<k, i>>] = SubSeq(lists[k], 1, n - i)
              /\ n - i > Entries /\ lists[k][Entries] = Link =>
                   f[<<k, i>>] = SubSeq(lists[k], 1, Entries - 1) \o f[<<k + 1, i + Entries - 1>>]
  <2>1. PICK w : w = <<k, i>>
    OBVIOUS
  <2>2. w \in D /\ w[1] = k /\ w[2] = i /\ ~(k > Len(lists))
    BY <1>5, <1>10, <2>1
  <2>3. f[w] = IF w[1] > Len(lists) THEN <<Empty>>
               ELSE IF n - w[2] <= Entries THEN SubSeq(lists[w[1]], 1, n - w[2])
               ELSE SubSeq(lists[w[1]], 1, Entries - 1)
                    \o (IF lists[w[1]][Entries] = Link THEN f[<<w[1] + 1, w[2] + Entries - 1>>] ELSE <<Empty>>)
    BY <1>1, <1>21, <2>2
  <2>4. n - i > Entries => ~(n - i <= Entries)
    BY <1>5
  <2> QED
    BY <2>1, <2>2, <2>3, <2>4
<1>23. Walked(f, n, lists)
  BY <1>22 DEF Walked
<1> QED
  BY <1>1, <1>2, <1>20, <1>23

\* An element of two sequences after one another, of which the first has m - 1.
LEMMA SecondPart ==
  ASSUME NEW s \in Seq(Int), NEW q \in Seq(Int), NEW m \in Nat, m >= 1, Len(s) = m - 1,
         NEW j \in 1..(Len(s) + Len(q))
  PROVE  (s \o q)[j] = IF j <= m - 1 THEN s[j] ELSE q[j - (m - 1)]
BY ConcatProperties

\* The place of j in the part after the first m - 1 of the places i to n - 1.
LEMMA Shifted ==
  ASSUME NEW n \in Nat, NEW i \in Nat, NEW m \in Nat, NEW h, h = i + m - 1,
         NEW j \in 1..(n - i), ~(j <= m - 1)
  PROVE  j - (m - 1) \in 1..(n - h) /\ h + (j - (m - 1)) - 1 = i + j - 1
OBVIOUS

\* The lists lead the controller to every page.
LEMMA SeenIs ==
  ASSUME NEW n \in Nat, n > 2, NEW b, Built(b, n), NEW f, Walked(f, n, b[1])
  PROVE  f[<<1, 1>>] = Rest(n, 1)
<1> DEFINE lists == b[1]
           From(k, i) == Len(lists) = k - 1 + Len(b[i]) /\ \A j \in 1..Len(b[i]) : lists[k - 1 + j] = b[i][j]
<1>1. \A i \in 0..n : /\ b[i] \in Seq(PrpList) /\ Len(b[i]) >= 1 /\ Len(b[i]) \in Nat
                      /\ n - i <= Entries => b[i] = <<ListAt(n, i)>>
                      /\ n - i > Entries => b[i] = <<ListAt(n, i)>> \o b[i + Entries - 1]
  <2>1. \A i \in 0..n : /\ b[i] \in Seq(PrpList) /\ Len(b[i]) >= 1
                        /\ n - i <= Entries => b[i] = <<ListAt(n, i)>>
                        /\ n - i > Entries => b[i] = <<ListAt(n, i)>> \o b[i + Entries - 1]
    BY DEF Built
  <2>2. \A s \in Seq(PrpList) : Len(s) \in Nat
    OBVIOUS
  <2> QED
    BY <2>1, <2>2
<1>2. PICK G : G = {i \in 0..n : \A k \in 1..Len(lists) : From(k, i) => f[<<k, i>>] = Rest(n, i)}
  OBVIOUS
<1>3. Entries \in Nat /\ Entries >= 2 /\ lists \in Seq(PrpList) /\ Len(lists) \in Nat /\ Len(lists) >= 1 /\ 1 \in 0..n
  <2>1. 1 \in 0..n
    OBVIOUS
  <2>2. lists \in Seq(PrpList) /\ Len(lists) \in Nat /\ Len(lists) >= 1
    BY <1>1, <2>1
  <2>3. Entries \in Nat /\ Entries >= 2
    BY SizeAssumption
  <2> QED
    BY <2>1, <2>2, <2>3
<1>4. ASSUME NEW i \in 0..n, n - i > Entries => i + Entries - 1 \in G PROVE i \in G
  <2> SUFFICES ASSUME NEW k \in 1..Len(lists), From(k, i) PROVE f[<<k, i>>] = Rest(n, i)
    BY <1>2
  <2>1. PICK x : x = lists[k]
    OBVIOUS
  <2>2. x = ListAt(n, i)
    <3>1. 1 \in 1..Len(b[i]) /\ k - 1 + 1 = k
      BY <1>1
    <3>2. x = b[i][1]
      BY <2>1, <3>1
    <3>3. ListAt(n, i) \in PrpList
      BY ListAtIs
    <3>4. CASE n - i <= Entries
      <4>1. b[i] = <<ListAt(n, i)>>
        BY <1>1, <3>4
      <4> QED
        BY ONLY <3>2, <4>1
    <3>5. CASE n - i > Entries
      <4>1. i + Entries - 1 \in 0..n
        BY <3>5, ListAtIs
      <4>2. b[i] = <<ListAt(n, i)>> \o b[i + Entries - 1] /\ b[i + Entries - 1] \in Seq(PrpList)
        BY <1>1, <3>5, <4>1
      <4> QED
        BY <3>2, <3>3, <4>2, ListsLonger
    <3> QED
      BY <1>3, <3>4, <3>5
  <2>3. x \in PrpList
    BY <2>2, ListAtIs
  <2>4. CASE n - i <= Entries
    <3>1. n - i \in 0..Entries
      BY <1>3, <2>4
    <3>2. f[<<k, i>>] = SubSeq(x, 1, n - i)
      BY <2>1, <2>4 DEF Walked
    <3>3. SubSeq(x, 1, n - i) = [j \in 1..(n - i) |-> x[j]]
      BY <1>3, <2>3, <3>1, PartIs DEF PrpList
    <3>4. \A j \in 1..(n - i) : x[j] = i + j - 1
      BY <2>2, <2>4, ListAtIs
    <3> QED
      BY <3>2, <3>3, <3>4 DEF Rest
  <2>5. CASE n - i > Entries
    <3>1. PICK h : h = i + Entries - 1
      OBVIOUS
    <3>2. h \in 0..n /\ h > i /\ h \in G /\ n - h = (n - i) - (Entries - 1) /\ n - h \in Nat
      <4>1. h \in G
        BY <1>4, <2>5, <3>1
      <4>2. h \in 0..n /\ h > i
        BY <2>5, <3>1, ListAtIs
      <4>3. n - h = (n - i) - (Entries - 1) /\ n - h \in Nat
        BY <1>3, <3>1, <4>2
      <4> QED
        BY <4>1, <4>2, <4>3
    <3>3. x[Entries] = Link /\ \A j \in 1..(Entries - 1) : x[j] = i + j - 1
      BY <2>2, <2>5, ListAtIs
    <3>4. f[<<k, i>>] = SubSeq(x, 1, Entries - 1) \o f[<<k + 1, h>>]
      BY <2>1, <2>5, <3>1, <3>3 DEF Walked
    <3>5. /\ Len(b[i]) = 1 + Len(b[h]) /\ Len(b[h]) >= 1 /\ Len(b[h]) \in Nat
          /\ \A j \in 1..Len(b[h]) : b[i][1 + j] = b[h][j]
      <4>1. b[i] = <<ListAt(n, i)>> \o b[h] /\ b[h] \in Seq(PrpList)
        BY <1>1, <2>5, <3>1, <3>2
      <4>2. ListAt(n, i) \in PrpList
        BY <2>2, <2>3
      <4>3. /\ Len(<<ListAt(n, i)>> \o b[h]) = 1 + Len(b[h])
            /\ \A j \in 1..Len(b[h]) : (<<ListAt(n, i)>> \o b[h])[1 + j] = b[h][j]
        BY <4>1, <4>2, ListsLonger
      <4>4. Len(b[h]) >= 1 /\ Len(b[h]) \in Nat
        BY <1>1, <3>2
      <4> QED
        BY <4>1, <4>3, <4>4
    <3>6. k + 1 \in 1..Len(lists) /\ From(k + 1, h)
      <4>1. Len(lists) = k - 1 + Len(b[i]) /\ \A j \in 1..Len(b[i]) : lists[k - 1 + j] = b[i][j]
        OBVIOUS
      <4>2. k + 1 \in 1..Len(lists) /\ Len(lists) = (k + 1) - 1 + Len(b[h])
        BY <1>3, <3>5, <4>1
      <4>3. ASSUME NEW j \in 1..Len(b[h]) PROVE lists[(k + 1) - 1 + j] = b[h][j]
        <5>1. 1 + j \in 1..Len(b[i]) /\ k - 1 + (1 + j) = (k + 1) - 1 + j
          BY <3>5
        <5>2. lists[k - 1 + (1 + j)] = b[i][1 + j]
          BY <4>1, <5>1
        <5> QED
          BY <3>5, <5>1, <5>2
      <4> QED
        BY <4>2, <4>3
    <3>7. f[<<k + 1, h>>] = Rest(n, h)
      BY <1>2, <3>2, <3>6
    <3>8. PICK s, r : s = SubSeq(x, 1, Entries - 1) /\ r = Rest(n, h)
      OBVIOUS
    <3>9. s \in Seq(Nat \cup {Link, Empty}) /\ s = [j \in 1..(Entries - 1) |-> x[j]]
      <4>1. Entries - 1 \in 0..Entries
        BY <1>3
      <4> QED
        <5>1. PICK X : X = Nat \cup {Link, Empty}
          OBVIOUS
        <5>2. x \in [1..Entries -> X]
          BY <2>3, <5>1 DEF PrpList
        <5>3. SubSeq(x, 1, Entries - 1) \in Seq(X) /\ SubSeq(x, 1, Entries - 1) = [j \in 1..(Entries - 1) |-> x[j]]
          BY <1>3, <4>1, <5>2, PartIs
        <5> QED
          BY <3>8, <5>1, <5>3
    <3>10. Len(s) = Entries - 1 /\ \A j \in 1..(Entries - 1) : s[j] = i + j - 1
      <4>1. Entries - 1 \in Nat
        BY <1>3
      <4>2. Len(s) = Entries - 1
        BY <3>9, <4>1
      <4> QED
        BY <3>3, <3>9, <4>2
    <3>11. r \in Seq(Int) /\ Len(r) = n - h /\ \A j \in 1..(n - h) : r[j] = h + j - 1
      BY <3>2, <3>8 DEF Rest
    <3>12. s \in Seq(Int)
      <4>1. \A j \in 1..(Entries - 1) : s[j] \in Int
        BY <3>10
      <4> QED
        BY <1>3, <3>9, <3>10, <4>1
    <3>13. PICK y : y = s \o r
      OBVIOUS
    <3>14. y \in Seq(Int) /\ Len(y) = n - i
      <4>1. y \in Seq(Int) /\ Len(y) = Len(s) + Len(r)
        BY <3>11, <3>12, <3>13, ConcatProperties
      <4> QED
        BY <1>3, <3>2, <3>10, <3>11, <4>1
    <3>15. ASSUME NEW j \in 1..(n - i) PROVE y[j] = i + j - 1
      <4>1. j \in 1..(Len(s) + Len(r))
        BY <1>3, <3>2, <3>10, <3>11
      <4>2. y[j] = IF j <= Entries - 1 THEN s[j] ELSE r[j - (Entries - 1)]
        <5>1. PICK m \in Nat : m = Entries
          BY <1>3
        <5>2. m >= 1 /\ Len(s) = m - 1
          BY <1>3, <3>10, <5>1
        <5>3. (s \o r)[j] = IF j <= m - 1 THEN s[j] ELSE r[j - (m - 1)]
          BY <3>11, <3>12, <4>1, <5>2, SecondPart
        <5> QED
          BY <3>13, <5>1, <5>3
      <4>3. CASE j <= Entries - 1
        <5>1. j \in 1..(Entries - 1)
          BY <1>3, <4>3
        <5> QED
          BY <3>10, <4>2, <4>3, <5>1
      <4>4. CASE ~(j <= Entries - 1)
        <5>1. j - (Entries - 1) \in 1..(n - h) /\ h + (j - (Entries - 1)) - 1 = i + j - 1
          BY <1>3, <3>1, <3>2, <4>4, Shifted
        <5> QED
          BY <3>11, <4>2, <4>4, <5>1
      <4> QED
        BY <4>3, <4>4
    <3>16. y = [j \in 1..(n - i) |-> i + j - 1]
      BY <3>14, <3>15
    <3> QED
      BY <3>4, <3>7, <3>8, <3>13, <3>16 DEF Rest
  <2> QED
    BY <1>3, <2>4, <2>5
<1>5. 1 \in G
  BY <1>3, <1>4, FromBehind
<1>6. 1 \in 1..Len(lists) /\ From(1, 1)
  BY <1>3
<1> QED
  BY <1>2, <1>5, <1>6

\* The lists of a transfer lead to each of its pages once and in order, and all are given back.
LEMMA PrpsAreRight ==
  ASSUME "mps" \notin Faults, NEW size \in Nat, size > 0
  PROVE  /\ PagesSeen(size, CreatePrps(size)) = [i \in 1..PagesOf(size) |-> i - 1]
         /\ PagesOf(size) \in Nat
         /\ FreedPrps(size) = Len(CreatePrps(size)) /\ CreatePrps(size) \in Seq(PrpList)
<1>1. PICK n \in Nat : n = PagesOf(size) /\ n >= 1
  <2>1. PICK x : x = size + PageSize - 1
    OBVIOUS
  <2>2. PageSize \in Nat /\ PageSize > 0 /\ x \in Int /\ x >= PageSize
    BY <2>1, SizeAssumption
  <2>3. x \div PageSize \in Int /\ x % PageSize \in 0..(PageSize - 1) /\ x = PageSize * (x \div PageSize) + (x % PageSize)
    BY <2>2, DivMod
  <2>4. x \div PageSize <= 0 => PageSize * (x \div PageSize) <= PageSize * 0
    BY <2>2, <2>3, Multiples
  <2>5. x \div PageSize >= 1
    BY <2>2, <2>3, <2>4
  <2> QED
    BY <2>1, <2>3, <2>5 DEF PagesOf
<1>2. CASE n <= 2
  <2>1. CreatePrps(size) = <<>> /\ FreedPrps(size) = 0
    BY <1>1, <1>2 DEF CreatePrps, FreedPrps
  <2>2. n = 1 \/ n = 2
    BY <1>1, <1>2
  <2>3. n = 1 => PagesSeen(size, <<>>) = <<0>> \o <<>>
    BY <1>1, OnePageSize DEF PagesSeen
  <2>4. n = 2 => PagesSeen(size, <<>>) = <<0>> \o <<1>>
    <3>1. DevicePages(size) = n
      BY <1>1, OnePageSize
    <3>2. n = 2 => (IF PagesOf(size) = 2 THEN 1 ELSE Empty) = 1
      BY <1>1
    <3> QED
      BY <3>1, <3>2 DEF PagesSeen
  <2>5. <<0>> \o <<>> = [i \in 1..1 |-> i - 1] /\ <<0>> \o <<1>> = [i \in 1..2 |-> i - 1]
    OBVIOUS
  <2>6. <<>> \in Seq(PrpList) /\ Len(<<>>) = 0
    OBVIOUS
  <2> QED
    BY <1>1, <2>1, <2>2, <2>3, <2>4, <2>5, <2>6
<1>3. CASE n > 2
  <2>1. PICK b : Built(b, n) /\ Lists(n) = b[1]
    BY <1>3, BuildIs
  <2>2. CreatePrps(size) = b[1]
    BY <1>1, <1>3, <2>1 DEF CreatePrps
  <2>3. b[1] \in Seq(PrpList)
    <3>1. 1 \in 0..n
      BY <1>3
    <3> QED
      BY <2>1, <3>1 DEF Built
  <2>4. PICK f : Walked(f, n, b[1]) /\ PagesSeen(size, b[1]) = <<0>> \o f[<<1, 1>>]
    BY <1>1, <1>3, <2>3, WalkIs
  <2>5. f[<<1, 1>>] = Rest(n, 1)
    BY <1>3, <2>1, <2>4, SeenIs
  <2>6. PICK r : r = Rest(n, 1)
    OBVIOUS
  <2>7. r \in Seq(Int) /\ Len(r) = n - 1 /\ \A j \in 1..(n - 1) : r[j] = j
    BY <1>3, <2>6 DEF Rest
  <2>8. PICK z : z = <<0>>
    OBVIOUS
  <2>9. z \in Seq(Int) /\ Len(z) = 1 /\ z[1] = 0
    BY <2>8
  <2>10. PICK y : y = z \o r
    OBVIOUS
  <2>11. y \in Seq(Int) /\ Len(y) = n
    <3>1. y \in Seq(Int) /\ Len(y) = Len(z) + Len(r)
      BY <2>7, <2>9, <2>10, ConcatProperties
    <3> QED
      BY <1>3, <2>7, <2>9, <3>1
  <2>12. ASSUME NEW i \in 1..n PROVE y[i] = i - 1
    <3>1. \A m \in 1..(Len(z) + Len(r)) : y[m] = IF m <= Len(z) THEN z[m] ELSE r[m - Len(z)]
      BY <2>7, <2>9, <2>10, ConcatProperties
    <3>2. y[i] = IF i <= 1 THEN z[i] ELSE r[i - 1]
      BY <1>3, <2>7, <2>9, <3>1
    <3>3. i = 1 \/ i - 1 \in 1..(n - 1)
      OBVIOUS
    <3> QED
      BY <2>7, <2>9, <3>2, <3>3
  <2>13. y = [i \in 1..n |-> i - 1]
    BY <2>11, <2>12
  <2>14. FreedPrps(size) = Len(b[1])
    BY <1>1, <1>3, <2>1, FreedIs
  <2> QED
    BY <1>1, <2>2, <2>3, <2>4, <2>5, <2>6, <2>8, <2>10, <2>13, <2>14
<1> QED
  BY <1>2, <1>3

\* A task between the submission and the status of a command has the lists of its chunk.
PrpsInv ==
  /\ op \in [Tasks -> Ops] /\ prps \in [Tasks -> Seq(PrpList)]
  /\ req \in [Tasks -> Requests \cup {None}] /\ cur \in [Tasks -> Nat]
  /\ \A t \in Tasks : op[t] # "user" => req[t] \in Requests /\ cur[t] < EndLba(req[t])
  /\ \A t \in Tasks :
       prps[t] = IF op[t] \in {"user", "submit"} THEN <<>> ELSE CreatePrps(ChunkLen(t) * LbaSize)

\* A chunk is at least a logical block.
LEMMA ChunkSize ==
  ASSUME PrpsInv, NEW t \in Tasks, op[t] # "user"
  PROVE  ChunkLen(t) \in Nat /\ ChunkLen(t) > 0 /\ ChunkLen(t) * LbaSize \in Nat /\ ChunkLen(t) * LbaSize > 0
<1>1. req[t] \in Requests /\ cur[t] \in Nat /\ cur[t] < EndLba(req[t]) /\ EndLba(req[t]) \in Nat
  BY LbasAre DEF PrpsInv
<1>2. PICK c : c = ChunkLen(t)
  OBVIOUS
<1>3. c \in Nat /\ c > 0
  BY <1>1, <1>2, NumbersAre DEF ChunkLen, Least
<1>4. LbaSize * 1 <= LbaSize * c
  BY <1>3, NumbersAre, Multiples
<1>5. c * LbaSize \in Nat /\ c * LbaSize = LbaSize * c
  BY <1>3, NumbersAre
<1>6. c * LbaSize > 0
  BY <1>4, <1>5, NumbersAre
<1> QED
  BY <1>2, <1>3, <1>5, <1>6

\* The invariant says what the lists are, and so what they cover.
LEMMA PrpsCovered ==
  ASSUME PrpsInv, "mps" \notin Faults
  PROVE  PrpsCover
<1> SUFFICES ASSUME NEW t \in Tasks
             PROVE  IF op[t] \in {"user", "submit"} THEN prps[t] = <<>>
                    ELSE LET seen == PagesSeen(ChunkLen(t) * LbaSize, prps[t])
                         IN  /\ Len(seen) = DevicePages(ChunkLen(t) * LbaSize)
                             /\ \A i \in 1..Len(seen) : seen[i] * PageSize = (i - 1) * Mps
  BY DEF PrpsCover
<1>1. CASE op[t] \in {"user", "submit"}
  BY <1>1 DEF PrpsInv
<1>2. CASE op[t] \notin {"user", "submit"}
  <2>1. prps[t] = CreatePrps(ChunkLen(t) * LbaSize)
    BY <1>2 DEF PrpsInv
  <2>2. ChunkLen(t) * LbaSize \in Nat /\ ChunkLen(t) * LbaSize > 0
    BY <1>2, ChunkSize
  <2>3. PICK n : n = PagesOf(ChunkLen(t) * LbaSize)
    OBVIOUS
  <2>4. PagesSeen(ChunkLen(t) * LbaSize, prps[t]) = [i \in 1..n |-> i - 1] /\ n \in Nat
    BY <2>1, <2>2, <2>3, PrpsAreRight
  <2>5. Mps = PageSize /\ DevicePages(ChunkLen(t) * LbaSize) = n
    BY <2>3, OnePageSize
  <2>6. Len([i \in 1..n |-> i - 1]) = n
    BY <2>4
  <2> QED
    BY <1>2, <2>4, <2>5, <2>6
<1> QED
  BY <1>1, <1>2

\* A step that makes no lists and frees none.
LEMMA PrpsStill ==
  ASSUME PrpsInv, UNCHANGED <<req, cur, prps>>,
         \/ op' = op
         \/ \E t \in Tasks, o \in {"look", "match", "advance", "wrap", "status"} :
              op[t] \notin {"user", "submit"} /\ op' = [op EXCEPT ![t] = o]
  PROVE  PrpsInv'
<1>1. \A u \in Tasks : op'[u] = op[u] \/ (op[u] \notin {"user", "submit"} /\ op'[u] \notin {"user", "submit"})
  BY DEF PrpsInv
<1>2. op' \in [Tasks -> Ops]
  BY DEF PrpsInv, Ops
<1>3. \A u \in Tasks : ChunkLen(u)' = ChunkLen(u)
  BY DEF ChunkLen
<1>4. \A u \in Tasks : prps'[u] = IF op'[u] \in {"user", "submit"} THEN <<>> ELSE CreatePrps(ChunkLen(u)' * LbaSize)
  BY <1>1, <1>3 DEF PrpsInv
<1>5. \A u \in Tasks : op'[u] # "user" => req'[u] \in Requests /\ cur'[u] < EndLba(req'[u])
  BY <1>1 DEF PrpsInv
<1> QED
  BY <1>2, <1>4, <1>5 DEF PrpsInv

\* A request begins without lists.
LEMMA PrpsRequest ==
  ASSUME PrpsInv, NEW t \in Tasks, Request(t)
  PROVE  PrpsInv'
<1>1. PICK r \in Requests :
        /\ op[t] = "user" /\ op' = [op EXCEPT ![t] = "submit"] /\ prps' = prps
        /\ req' = [req EXCEPT ![t] = r] /\ cur' = [cur EXCEPT ![t] = StartLba(r)]
  BY DEF Request, Goes
<1>2. StartLba(r) \in Nat /\ StartLba(r) < EndLba(r)
  BY LbasAre
<1>3. \A u \in Tasks :
        /\ op'[u] = (IF u = t THEN "submit" ELSE op[u]) /\ prps'[u] = prps[u]
        /\ req'[u] = (IF u = t THEN r ELSE req[u]) /\ cur'[u] = IF u = t THEN StartLba(r) ELSE cur[u]
  BY <1>1 DEF PrpsInv
<1>4. /\ op' \in [Tasks -> Ops] /\ prps' \in [Tasks -> Seq(PrpList)]
      /\ req' \in [Tasks -> Requests \cup {None}] /\ cur' \in [Tasks -> Nat]
  BY <1>1, <1>2 DEF PrpsInv, Ops
<1>5. \A u \in Tasks : u # t => ChunkLen(u)' = ChunkLen(u)
  BY <1>3 DEF ChunkLen
<1>6. \A u \in Tasks : prps'[u] = IF op'[u] \in {"user", "submit"} THEN <<>> ELSE CreatePrps(ChunkLen(u)' * LbaSize)
  BY <1>1, <1>3, <1>5 DEF PrpsInv
<1>7. \A u \in Tasks : op'[u] # "user" => req'[u] \in Requests /\ cur'[u] < EndLba(req'[u])
  BY <1>2, <1>3 DEF PrpsInv
<1> QED
  BY <1>4, <1>6, <1>7 DEF PrpsInv

\* A command is given the lists of its chunk.
LEMMA PrpsSubmit ==
  ASSUME PrpsInv, "mps" \notin Faults, NEW t \in Tasks, Submit(t)
  PROVE  PrpsInv'
<1>1. /\ op[t] = "submit" /\ op' = [op EXCEPT ![t] = "look"]
      /\ prps' = [prps EXCEPT ![t] = CreatePrps(ChunkLen(t) * LbaSize)] /\ UNCHANGED <<req, cur>>
  BY DEF Submit, Goes
<1>2. CreatePrps(ChunkLen(t) * LbaSize) \in Seq(PrpList)
  BY <1>1, ChunkSize, PrpsAreRight
<1>3. \A u \in Tasks : ChunkLen(u)' = ChunkLen(u)
  BY <1>1 DEF ChunkLen
<1>4. op' \in [Tasks -> Ops] /\ prps' \in [Tasks -> Seq(PrpList)]
  BY <1>1, <1>2 DEF PrpsInv, Ops
<1>5. \A u \in Tasks :
        /\ op'[u] = IF u = t THEN "look" ELSE op[u]
        /\ prps'[u] = IF u = t THEN CreatePrps(ChunkLen(t) * LbaSize) ELSE prps[u]
  BY <1>1 DEF PrpsInv
<1>6. \A u \in Tasks : prps'[u] = IF op'[u] \in {"user", "submit"} THEN <<>> ELSE CreatePrps(ChunkLen(u)' * LbaSize)
  BY <1>3, <1>5 DEF PrpsInv
<1>7. \A u \in Tasks : op'[u] # "user" => req'[u] \in Requests /\ cur'[u] < EndLba(req'[u])
  BY <1>1, <1>5 DEF PrpsInv
<1> QED
  BY <1>1, <1>4, <1>6, <1>7 DEF PrpsInv

\* The lists are given back, all of them, before the next command.
LEMMA PrpsStatus ==
  ASSUME PrpsInv, "mps" \notin Faults, NEW t \in Tasks, Status(t)
  PROVE  PrpsInv'
<1>1. /\ op[t] = "status"
      /\ prps' = [prps EXCEPT ![t] = SubSeq(@, FreedPrps(ChunkLen(t) * LbaSize) + 1, Len(@))]
      /\ Return(t, "EIO") \/ Return(t, "length") \/ Continue(t)
  BY DEF Status
<1>2. prps[t] = CreatePrps(ChunkLen(t) * LbaSize) /\ prps[t] \in Seq(PrpList)
  BY <1>1 DEF PrpsInv
<1>3. ChunkLen(t) \in Nat /\ ChunkLen(t) * LbaSize \in Nat /\ ChunkLen(t) * LbaSize > 0
  BY <1>1, ChunkSize
<1>4. FreedPrps(ChunkLen(t) * LbaSize) = Len(prps[t])
  BY <1>2, <1>3, PrpsAreRight
<1>5. SubSeq(prps[t], Len(prps[t]) + 1, Len(prps[t])) = <<>>
  BY <1>2
<1>6. prps' = [prps EXCEPT ![t] = <<>>]
  BY <1>1, <1>4, <1>5
<1>7. req[t] \in Requests /\ cur[t] \in Nat /\ StartLba(req[t]) \in Nat /\ StartLba(req[t]) < EndLba(req[t])
  BY <1>1, LbasAre DEF PrpsInv
<1>8. \A u \in Tasks : prps'[u] = IF u = t THEN <<>> ELSE prps[u]
  BY <1>6 DEF PrpsInv
<1>9. /\ op' \in [Tasks -> Ops] /\ req' \in [Tasks -> Requests \cup {None}] /\ cur' \in [Tasks -> Nat]
      /\ op'[t] \in {"user", "submit"} /\ (op'[t] = "submit" => req'[t] \in Requests /\ cur'[t] < EndLba(req'[t]))
      /\ \A u \in Tasks : u # t => op'[u] = op[u] /\ req'[u] = req[u] /\ cur'[u] = cur[u]
  <2>1. CASE \E result \in {"EIO", "length"} : Return(t, result)
    BY <2>1 DEF Return, Goes, PrpsInv, Ops
  <2>2. CASE Continue(t)
    <3>1. op' = [op EXCEPT ![t] = "submit"] /\ req' = req
      BY <2>2 DEF Continue, Goes
    <3>2. PICK c \in Nat : cur' = [cur EXCEPT ![t] = c] /\ c < EndLba(req[t])
      BY <1>3, <1>7, <2>2 DEF Continue
    <3> QED
      BY <1>7, <3>1, <3>2 DEF PrpsInv, Ops
  <2> QED
    BY <1>1, <2>1, <2>2
<1>10. \A u \in Tasks : u # t => ChunkLen(u)' = ChunkLen(u)
  BY <1>9 DEF ChunkLen
<1>11. \A u \in Tasks : prps'[u] = IF op'[u] \in {"user", "submit"} THEN <<>> ELSE CreatePrps(ChunkLen(u)' * LbaSize)
  BY <1>8, <1>9, <1>10 DEF PrpsInv
<1>12. ASSUME NEW u \in Tasks, op'[u] # "user" PROVE req'[u] \in Requests /\ cur'[u] < EndLba(req'[u])
  <2>1. CASE u = t
    BY <1>9, <1>12, <2>1
  <2>2. CASE u # t
    BY <1>9, <1>12, <2>2 DEF PrpsInv
  <2> QED
    BY <2>1, <2>2
<1>13. prps' \in [Tasks -> Seq(PrpList)]
  <2>1. <<>> \in Seq(PrpList)
    OBVIOUS
  <2> QED
    BY <1>6, <2>1 DEF PrpsInv
<1> QED
  BY <1>9, <1>11, <1>12, <1>13 DEF PrpsInv

\* The lists of a command (create_prps and free_prps): in every state, for every chunk size,
\* page size and size of a list, they lead the controller to each page of the transfer once
\* and in order, and none is left when the command is over, with every defect of the queues,
\* if the controller is set to the pages the driver counts in.
THEOREM ListsCoverTheTransfer ==
  ASSUME "mps" \notin Faults
  PROVE  Spec => []PrpsCover
<1>1. Init => PrpsInv
  <2> SUFFICES ASSUME Init PROVE PrpsInv
    OBVIOUS
  <2>1. /\ op = [t \in Tasks |-> "user"] /\ req = [t \in Tasks |-> None]
        /\ cur = [t \in Tasks |-> 0] /\ prps = [t \in Tasks |-> <<>>]
    BY DEF Init
  <2>2. <<>> \in Seq(PrpList)
    OBVIOUS
  <2> QED
    BY <2>1, <2>2 DEF PrpsInv, Ops
<1>2. PrpsInv /\ [Next]_vars => PrpsInv'
  <2> SUFFICES ASSUME PrpsInv, [Next]_vars PROVE PrpsInv'
    OBVIOUS
  <2>1. CASE UNCHANGED vars
    BY <2>1, PrpsStill DEF vars, caller
  <2>2. ASSUME NEW t \in Tasks, Request(t) \/ Submit(t) \/ Status(t) PROVE PrpsInv'
    BY <2>2, PrpsRequest, PrpsSubmit, PrpsStatus
  <2>3. ASSUME NEW t \in Tasks, Look(t) \/ Match(t) \/ Advance(t) \/ Wrap(t) PROVE PrpsInv'
    <3>1. /\ UNCHANGED <<req, cur, prps>> /\ op[t] \notin {"user", "submit"}
          /\ \E o \in {"look", "match", "advance", "wrap", "status"} : op' = [op EXCEPT ![t] = o]
      BY <2>3 DEF Look, Match, Advance, Wrap, Goes
    <3> QED
      BY <3>1, PrpsStill
  <2>4. ASSUME NEW c \in Commands, Move(c) \/ Complete(c) PROVE PrpsInv'
    BY <2>4, PrpsStill DEF Move, Complete, caller
  <2>5. CASE Fetch
    BY <2>5, PrpsStill DEF Fetch, caller
  <2> QED
    BY <2>1, <2>2, <2>3, <2>4, <2>5 DEF Next, Step, Work
<1> QED
  BY <1>1, <1>2, PrpsCovered, PTL DEF Spec
=============================================================================
