-------------------------------- MODULE Nvme --------------------------------
(***************************************************************************)
(* The NVMe driver's I/O path: the read and write of a namespace node,     *)
(* which turn a byte range into logical blocks and fill the gaps of a      *)
(* partial write; the chunks of nvme_namespace_t::read and write with      *)
(* their PRP lists; and _send_io_command, which shares one submission and  *)
(* one completion queue between all tasks.  The controller is external.    *)
(*                                                                         *)
(* The submission of a command, and each of the two halves of moving the   *)
(* head of the completion queue, is one step: the code holds a spinlock.   *)
(* A waiting task looks at the head, and then at the entry there, without  *)
(* a lock.                                                                 *)
(***************************************************************************)
EXTENDS Integers, Sequences, FiniteSets

CONSTANTS
  Tasks,
  None,
  SqSize,      \* submission_queue_size
  CqSize,      \* completion_queue_size
  IdMod,       \* the range of the 8-bit command_id
  LbaSize,     \* bytes of a logical block
  LbaCount,    \* amount_of_lbas
  ChunkLbas,   \* max_data_transfer_size in logical blocks
  PageSize,    \* max_page_size, by which the driver lays out its lists
  Mps,         \* the page size the controller is set to
  Entries,     \* entries_per_page
  Ranges,      \* the pairs of offset and length callers ask for
  MaxCalls,    \* a bound on the requests of a task
  DeviceErrors, \* whether the controller may report a failure
  Faults       \* the defects let loose: see Request, Matches, Complete and PageAssumption

\* The code never looks whether a queue is full or a command_id in use.
ASSUME QueueAssumption ==
  /\ IsFiniteSet(Tasks) /\ None \notin Tasks
  /\ SqSize \in Nat /\ CqSize \in Nat /\ IdMod \in Nat
  /\ Cardinality(Tasks) < SqSize /\ Cardinality(Tasks) < CqSize
  /\ Cardinality(Tasks) <= IdMod
ASSUME SizeAssumption ==
  /\ LbaSize \in Nat \ {0} /\ LbaCount \in Nat \ {0} /\ ChunkLbas \in Nat \ {0}
  /\ PageSize \in Nat \ {0} /\ Entries \in Nat \ {0, 1} /\ MaxCalls \in Nat
  /\ Ranges \subseteq Nat \X (Nat \ {0})
  /\ DeviceErrors \in BOOLEAN /\ Faults \subseteq {"rmw", "overrun", "lap", "mps", "sct"}

\* _create_admin_queues leaves CC.MPS at 0, pages of 4096 bytes, while the
\* driver counts in the largest pages CAP.MPSMAX allows and has PAGE_SIZE
\* bytes for a list ("mps").  They agree where CAP.MPSMAX is 0.
ASSUME PageAssumption ==
  Mps \in Nat \ {0} /\ Mps <= PageSize /\ ("mps" \notin Faults => Mps = PageSize)

Bytes == 0..(LbaSize * LbaCount - 1)
Lbas == 0..(LbaCount - 1)
Requests ==
  {[kind |-> k, off |-> x[1], len |-> x[2]] : k \in {"read", "write"}, x \in Ranges}

\* None stands for no request.
ASSUME RequestAssumption == None \notin Requests

Ops == {"user", "submit", "look", "match", "advance", "wrap", "status"}

VARIABLES
  \* the caller
  op,      \* [Tasks -> where it is]
  req,     \* [Tasks -> its request]
  dir,     \* [Tasks -> "read" or "write": the pass it is in]
  cur,     \* [Tasks -> the first logical block of the next chunk]
  buf,     \* [Tasks -> the pages of its request, by byte of the disk]
  id,      \* [Tasks -> cmd_id]
  slot,    \* [Tasks -> the completion entry it looks at]
  prps,    \* [Tasks -> the PRP lists of its command]
  ret,     \* [Tasks -> how its last request ended]
  calls,   \* [Tasks -> requests made]
  \* the queues
  sq,      \* submission_queue
  tail,    \* submission_queue_tail
  nextid,  \* command_id
  cq,      \* completion_queue
  head,    \* completion_queue_head
  phase,   \* completion_queue_phase
  \* the controller
  fetched, \* the submission entries it has fetched
  active,  \* the commands it works on
  todo,    \* [Tasks -> the logical blocks of the command it has still to move]
  bell,    \* the head of the completion queue it has been told
  ctail,   \* where it writes the next completion
  cphase,  \* and with which phase
  disk     \* [Bytes -> the task that wrote the byte last]

caller == <<op, req, dir, cur, buf, id, slot, prps, ret, calls>>
queues == <<sq, tail, nextid, cq, head, phase>>
device == <<fetched, active, todo, bell, ctail, cphase, disk>>
vars == <<caller, queues, device>>

-----------------------------------------------------------------------------
(* Byte ranges and logical blocks: nvme_ns_vnode_read and _write.          *)

Least(a, b) == IF a < b THEN a ELSE b
RoundUp(x, n) == ((x + n - 1) \div n) * n
StartLba(r) == r.off \div LbaSize
TotalMem(r) == RoundUp(r.len + (r.off % LbaSize), LbaSize)
LbasOf(r) == TotalMem(r) \div LbaSize
EndLba(r) == StartLba(r) + LbasOf(r)

OutOfBounds(r) == StartLba(r) > LbaCount \/ EndLba(r) > LbaCount

\* Mutant: the length is not compared.
ExactStart(r) == r.off % LbaSize = 0

Exact(r) == r.off % LbaSize = 0 /\ r.len = TotalMem(r)
Named(r) == r.off..(r.off + r.len - 1)
InLba(l) == {b \in Bytes : b \div LbaSize = l}

\* The chunk of nvme_namespace_t::read and write that starts at cur.
ChunkLen(t) == Least(ChunkLbas, EndLba(req[t]) - cur[t])
Chunk(t) == cur[t]..(cur[t] + ChunkLen(t) - 1)

-----------------------------------------------------------------------------
(* PRP lists.  An entry is the number of a page of the buffer, or one of   *)
(* these.                                                                  *)

Link == -1
Empty == -2

PagesOf(size) == (size + PageSize - 1) \div PageSize

\* Mutant: the last entry of a list is always left to a link.
FitsInListFull(rem) == rem <= 0

\* create_prps: what remains fits in the last entry.
FitsInList(rem) == rem <= 1

\* create_prps: the lists for pages from..n-1.
Lists(n) ==
  LET Build[from \in 0..n] ==
        LET needed == n - from
            count == Least(needed, Entries - 1)
            rem == needed - count
            list == [i \in 1..Entries |->
                       IF i <= count THEN from + i - 1
                       ELSE IF i = Entries /\ rem > 0
                            THEN IF FitsInList(rem) THEN from + count ELSE Link
                       ELSE Empty]
        IN  IF FitsInList(rem) THEN <<list>> ELSE <<list>> \o Build[from + count]
  IN  Build[1]

\* create_prps: PRP1, then PRP2 or lists.
CreatePrps(size) == IF PagesOf(size) <= 2 THEN <<>> ELSE Lists(PagesOf(size))

\* free_prps: is_chained.
Chained(remaining) == remaining > Entries

\* free_prps: how many lists it gives back.
FreedPrps(size) ==
  LET n == PagesOf(size)
      Walk[from \in 0..n] ==
        IF Chained(n - from) THEN 1 + Walk[from + Entries - 1] ELSE 1
  IN  IF n <= 2 THEN 0 ELSE Walk[1]

\* What the controller makes of a transfer and of a list: pages and entries
\* of its own size.
DevicePages(size) == (size + Mps - 1) \div Mps
DeviceEntries == (Entries * Mps) \div PageSize

\* The controller's walk over lists of so many entries, for the pages 1..n-1:
\* the last entry is a link when more than one page is left for it.
ListWalk(lists, n, entries) ==
  \* from the k-th list, whose first entry is page from, on
  LET Walk[w \in (1..(Len(lists) + 1)) \X (0..n)] ==
        LET k == w[1]
            from == w[2]
        IN  IF k > Len(lists) THEN <<Empty>>
            ELSE IF n - from <= entries THEN SubSeq(lists[k], 1, n - from)
            ELSE SubSeq(lists[k], 1, entries - 1)
                 \o (IF lists[k][entries] = Link THEN Walk[<<k + 1, from + entries - 1>>]
                     ELSE <<Empty>>)
  IN  Walk[<<1, 1>>]

\* The entries the controller finds.  PRP2 is 0 where create_prps has not set
\* it.
PagesSeen(size, lists) ==
  LET n == DevicePages(size)
      Prp2 == IF PagesOf(size) = 2 THEN 1 ELSE Empty
  IN  <<0>> \o (IF n = 1 THEN <<>> ELSE IF n = 2 THEN <<Prp2>>
                ELSE ListWalk(lists, n, DeviceEntries))

-----------------------------------------------------------------------------
\* _create_io_queues: memory cleared, phase 1.
Init ==
  /\ op = [t \in Tasks |-> "user"] /\ req = [t \in Tasks |-> None]
  /\ dir = [t \in Tasks |-> "read"] /\ cur = [t \in Tasks |-> 0]
  /\ buf = [t \in Tasks |-> [b \in Bytes |-> None]]
  /\ id = [t \in Tasks |-> 0] /\ slot = [t \in Tasks |-> 0]
  /\ prps = [t \in Tasks |-> <<>>] /\ ret = [t \in Tasks |-> None] /\ calls = [t \in Tasks |-> 0]
  /\ sq = [i \in 0..(SqSize - 1) |-> None] /\ tail = 0 /\ nextid = 0
  /\ cq = [i \in 0..(CqSize - 1) |-> [id |-> 0, phase |-> 0, ok |-> TRUE]]
  /\ head = 0 /\ phase = 1
  /\ fetched = 0 /\ active = {} /\ todo = [t \in Tasks |-> {}] /\ bell = 0
  /\ ctail = 0 /\ cphase = 1 /\ disk = [b \in Bytes |-> None]

Goes(t, o) == op' = [op EXCEPT ![t] = o]

\* Two requests, one of them a partial write, that share a logical block.  A
\* partial write reads the block, changes its bytes in memory and writes the
\* block back, without a lock.
Overlap(r, s) ==
  /\ r.kind = "write" /\ s.kind = "write" /\ (~Exact(r) \/ ~Exact(s))
  /\ StartLba(r) < EndLba(s) /\ StartLba(s) < EndLba(r)

\* The read or write of the node, up to the first command.
Request(t) ==
  /\ op[t] = "user" /\ calls[t] < MaxCalls
  /\ \E r \in Requests :
       /\ ~OutOfBounds(r)
       /\ (\E u \in Tasks : req[u] # None /\ Overlap(r, req[u])) => "rmw" \in Faults
       /\ req' = [req EXCEPT ![t] = r]
       /\ cur' = [cur EXCEPT ![t] = StartLba(r)]
       /\ dir' = [dir EXCEPT ![t] = IF r.kind = "write" /\ Exact(r) THEN "write" ELSE "read"]
       /\ buf' = [buf EXCEPT ![t] = [b \in Bytes |->
                    IF r.kind = "write" /\ Exact(r) /\ b \in Named(r) THEN t ELSE None]]
  /\ Goes(t, "submit") /\ calls' = [calls EXCEPT ![t] = @ + 1]
  /\ ret' = [ret EXCEPT ![t] = None]
  /\ UNCHANGED <<id, slot, prps, queues, device>>

\* Mutant: every command has the same identifier.
NextIdSame(i) == i

\* command_id++
NextId(i) == (i + 1) % IdMod

\* create_prps and the first half of _send_io_command.
Submit(t) ==
  /\ op[t] = "submit"
  /\ prps' = [prps EXCEPT ![t] = CreatePrps(ChunkLen(t) * LbaSize)]
  /\ sq' = [sq EXCEPT ![tail] = [by |-> t, id |-> nextid]]
  /\ tail' = (tail + 1) % SqSize
  /\ id' = [id EXCEPT ![t] = nextid] /\ nextid' = NextId(nextid)
  /\ todo' = [todo EXCEPT ![t] = Chunk(t)]
  /\ Goes(t, "look")
  /\ UNCHANGED <<req, dir, cur, buf, slot, ret, calls, cq, head, phase, fetched, active, bell,
                 ctail, cphase, disk>>

\* The loop of _send_io_command computes the address of the head entry ...
Look(t) ==
  /\ op[t] = "look"
  /\ slot' = [slot EXCEPT ![t] = head]
  /\ Goes(t, "match")
  /\ UNCHANGED <<req, dir, cur, buf, id, prps, ret, calls, queues, device>>

\* Mutant: the entries of the lap before are taken for new ones.
MatchesLapBefore(t) ==
  IF slot[t] < CqSize THEN cq[slot[t]].phase # phase /\ cq[slot[t]].id = id[t]
  ELSE "overrun" \in Faults

\* ... and compares its phase and its command.  While another task moves the
\* head the entry can be the one past the end of the queue; memory there
\* holds anything, a match too ("overrun").
Matches(t) ==
  IF slot[t] < CqSize
  THEN cq[slot[t]].phase = phase /\ cq[slot[t]].id = id[t]
  ELSE "overrun" \in Faults

Match(t) ==
  /\ op[t] = "match"
  /\ Goes(t, IF Matches(t) THEN "advance" ELSE "look")
  /\ UNCHANGED <<req, dir, cur, buf, id, slot, prps, ret, calls, queues, device>>

\* Under completion_lock: the head is moved ...
Advance(t) ==
  /\ op[t] = "advance" /\ \A u \in Tasks : op[u] # "wrap"
  /\ head' = head + 1
  /\ Goes(t, "wrap")
  /\ UNCHANGED <<req, dir, cur, buf, id, slot, prps, ret, calls, sq, tail, nextid, cq, phase,
                 device>>

\* The head behind the last entry goes back to the first, in the next phase.
Wrapped(h) == IF h >= CqSize THEN <<0, 1 - phase>> ELSE <<h, phase>>

\* ... wrapped, and the controller told.
Wrap(t) ==
  /\ op[t] = "wrap"
  /\ head' = Wrapped(head)[1] /\ phase' = Wrapped(head)[2]
  /\ bell' = Wrapped(head)[1]
  /\ Goes(t, "status")
  /\ UNCHANGED <<req, dir, cur, buf, id, slot, prps, ret, calls, sq, tail, nextid, cq, fetched,
                 active, todo, ctail, cphase, disk>>

\* The request is over.
Return(t, result) ==
  /\ Goes(t, "user") /\ ret' = [ret EXCEPT ![t] = result]
  /\ req' = [req EXCEPT ![t] = None]
  /\ cur' = [cur EXCEPT ![t] = 0] /\ dir' = [dir EXCEPT ![t] = "read"]
  /\ buf' = [buf EXCEPT ![t] = [b \in Bytes |-> None]]

\* The next chunk, or the second pass of a partial write with the new bytes
\* in the buffer.
Continue(t) ==
  LET next == cur[t] + ChunkLen(t)
  IN  /\ Goes(t, "submit") /\ UNCHANGED <<req, ret>>
      /\ IF next < EndLba(req[t])
         THEN cur' = [cur EXCEPT ![t] = next] /\ UNCHANGED <<dir, buf>>
         ELSE /\ cur' = [cur EXCEPT ![t] = StartLba(req[t])]
              /\ dir' = [dir EXCEPT ![t] = "write"]
              /\ buf' = [buf EXCEPT ![t] =
                           [b \in Bytes |-> IF b \in Named(req[t]) THEN t ELSE @[b]]]

\* The tail of _send_io_command, after the unlock, and of the chunk's loop:
\* the status is read from the entry that has been given back already.
Status(t) ==
  /\ op[t] = "status"
  /\ LET size == ChunkLen(t) * LbaSize
         last == /\ cur[t] + ChunkLen(t) = EndLba(req[t])
                 /\ dir[t] = req[t].kind
     IN  /\ prps' = [prps EXCEPT ![t] = SubSeq(@, FreedPrps(size) + 1, Len(@))]
         /\ \E ok \in IF slot[t] < CqSize THEN {cq[slot[t]].ok} ELSE BOOLEAN :
              IF ~ok THEN Return(t, "EIO")
              ELSE IF last THEN Return(t, "length") ELSE Continue(t)
  /\ id' = [id EXCEPT ![t] = 0] /\ slot' = [slot EXCEPT ![t] = 0]
  /\ todo' = [todo EXCEPT ![t] = {}]
  /\ UNCHANGED <<calls, queues, fetched, active, bell, ctail, cphase, disk>>

-----------------------------------------------------------------------------
(* The controller.                                                         *)

\* Nobody looks at a submission entry again once it is fetched.
Fetch ==
  /\ fetched # tail
  /\ active' = active \cup {sq[fetched]}
  /\ fetched' = (fetched + 1) % SqSize
  /\ sq' = [sq EXCEPT ![fetched] = None]
  /\ UNCHANGED <<caller, tail, nextid, cq, head, phase, todo, bell, ctail, cphase, disk>>

\* It moves the blocks of a command in any order.
Move(c) ==
  /\ c \in active
  /\ \E l \in todo[c.by] :
       /\ todo' = [todo EXCEPT ![c.by] = @ \ {l}]
       /\ IF dir[c.by] = "write"
          THEN /\ disk' = [b \in Bytes |-> IF b \in InLba(l) THEN buf[c.by][b] ELSE disk[b]]
               /\ UNCHANGED buf
          ELSE /\ buf' = [buf EXCEPT ![c.by] =
                            [b \in Bytes |-> IF b \in InLba(l) THEN disk[b] ELSE @[b]]]
               /\ UNCHANGED disk
  /\ UNCHANGED <<op, req, dir, cur, id, slot, prps, ret, calls, queues, fetched, active, bell,
                 ctail, cphase>>

\* After a whole lap the controller writes to an entry that a task still has
\* in its hands: its status has yet to be read, or the task has computed its
\* address as that of the head, a lap ago, and has yet to compare.
HeldOver ==
  \E u \in Tasks :
    /\ slot[u] = ctail
    /\ \/ op[u] \in {"wrap", "status"}
       \/ op[u] = "match" /\ head # ctail

\* It completes commands in any order, as long as the queue has room.  ok is
\* what the driver makes of the status: it looks at the status code and not
\* at its type, so that an error may pass for success ("sct").
Complete(c) ==
  /\ c \in active /\ (ctail + 1) % CqSize # bell
  /\ HeldOver => "lap" \in Faults
  /\ \E ok \in BOOLEAN :
       /\ \/ ok /\ todo[c.by] = {}
          \/ DeviceErrors /\ (ok => "sct" \in Faults)
       /\ cq' = [cq EXCEPT ![ctail] = [id |-> c.id, phase |-> cphase, ok |-> ok]]
  /\ active' = active \ {c}
  /\ ctail' = (ctail + 1) % CqSize
  /\ cphase' = IF ctail + 1 = CqSize THEN 1 - cphase ELSE cphase
  /\ UNCHANGED <<caller, sq, tail, nextid, head, phase, fetched, todo, bell, disk>>

-----------------------------------------------------------------------------
Step(t) ==
  Submit(t) \/ Look(t) \/ Match(t) \/ Advance(t) \/ Wrap(t) \/ Status(t)

Commands == [by : Tasks, id : 0..(IdMod - 1)]
Work(t) == \E c \in Commands : c.by = t /\ (Move(c) \/ Complete(c))

Next ==
  \/ \E t \in Tasks : Request(t) \/ Step(t) \/ Work(t)
  \/ Fetch

\* A waiting task is woken from hlt by the timer and goes on; the controller
\* fetches and completes what it is given.
Spec ==
  /\ Init /\ [][Next]_vars
  /\ \A t \in Tasks : WF_vars(Step(t)) /\ WF_vars(Work(t))
  /\ WF_vars(Fetch)

-----------------------------------------------------------------------------
(* Properties.                                                             *)

\* Every variable keeps its type; the head is past the end only while a task
\* holds the completion lock.
TypeOK ==
  /\ op \in [Tasks -> Ops] /\ req \in [Tasks -> Requests \cup {None}]
  /\ dir \in [Tasks -> {"read", "write"}] /\ cur \in [Tasks -> 0..LbaCount]
  /\ buf \in [Tasks -> [Bytes -> Tasks \cup {None}]]
  /\ id \in [Tasks -> 0..(IdMod - 1)] /\ slot \in [Tasks -> 0..CqSize]
  /\ prps \in [Tasks -> Seq([1..Entries -> Nat \cup {Link, Empty}])]
  /\ ret \in [Tasks -> {"length", "EIO", None}] /\ calls \in [Tasks -> 0..MaxCalls]
  /\ sq \in [0..(SqSize - 1) -> Commands \cup {None}]
  /\ tail \in 0..(SqSize - 1) /\ nextid \in 0..(IdMod - 1)
  /\ cq \in [0..(CqSize - 1) -> [id : 0..(IdMod - 1), phase : {0, 1}, ok : BOOLEAN]]
  /\ head \in 0..CqSize /\ (head = CqSize => \E t \in Tasks : op[t] = "wrap")
  /\ phase \in {0, 1} /\ cphase \in {0, 1}
  /\ fetched \in 0..(SqSize - 1) /\ active \subseteq Commands
  /\ todo \in [Tasks -> SUBSET Lbas] /\ bell \in 0..(CqSize - 1)
  /\ ctail \in 0..(CqSize - 1) /\ disk \in [Bytes -> Tasks \cup {None}]

\* The commands submitted and not yet answered to their task: each is in
\* exactly one place, the submission queue, the controller or the completion
\* queue, under the id its task waits for.
Waiting == {t \in Tasks : op[t] \in {"look", "match", "advance"}}
InQueue(from, to, n) == {i \in 0..(n - 1) : (i - from) % n < (to - from) % n}
Answers == {i \in InQueue(bell, ctail, CqSize) : cq[i].phase = (IF i >= bell THEN phase ELSE 1 - phase)}
OnceInFlight ==
  (\A t \in Tasks : op[t] # "wrap") =>
    \A t \in Waiting :
      LET queued == {i \in InQueue(fetched, tail, SqSize) : sq[i] = [by |-> t, id |-> id[t]]}
          held == active \cap {[by |-> t, id |-> id[t]]}
          answered == {i \in Answers : cq[i].id = id[t]}
      IN  Cardinality(queued) + Cardinality(held) + Cardinality(answered) = 1

\* The lists of a command lead the controller to every page of the buffer
\* once and in order (create_prps), and free_prps gives back every one of
\* them, whatever became of the command.
PrpsCover ==
  \A t \in Tasks :
    LET size == ChunkLen(t) * LbaSize
    IN  IF op[t] \in {"user", "submit"} THEN prps[t] = <<>>
        ELSE LET seen == PagesSeen(size, prps[t])
             IN  /\ Len(seen) = DevicePages(size)
                 /\ \A i \in 1..Len(seen) : seen[i] * PageSize = (i - 1) * Mps

\* What the device has moved of the request of t.
Moved(t) ==
  IF req[t] = None \/ dir[t] # req[t].kind THEN {}
  ELSE StartLba(req[t])..(cur[t] - 1)
       \cup (IF op[t] = "submit" THEN {} ELSE Chunk(t) \ todo[t])

\* The namespace node is a block device: requests move their own bytes and no
\* others, block by block, and success means that everything was moved, with
\* commands of several tasks completed out of order, queues that wrap and
\* errors.
Device ==
  INSTANCE BlockDevice WITH
    mem <- disk,
    done <- [t \in Tasks |-> Moved(t)],
    got <- [t \in Tasks |-> [b \in Bytes |->
              IF req[t] # None /\ req[t].kind = "read" /\ b \in Named(req[t])
              THEN buf[t][b] ELSE None]]
Implements == Device!Spec

\* A request returns: the answer to each of its commands reaches the head of
\* the queue and the task that waits for it, in every lap (_send_io_command).
Returns == \A t \in Tasks : op[t] = "submit" ~> op[t] = "user"
=============================================================================
