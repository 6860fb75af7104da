---------------------------- MODULE BlockDevice ----------------------------
(***************************************************************************)
(* What the file systems expect of a block device node: a request moves    *)
(* exactly the bytes it names, logical block by logical block, between its *)
(* call and its return, and a request that reports success has moved all.  *)
(***************************************************************************)
EXTENDS Integers

CONSTANTS Tasks, Requests, LbaSize, Bytes, None

VARIABLES
  mem,   \* [Bytes -> the task that wrote the byte last, or None]
  req,   \* [Tasks -> the request in progress, or None]
  done,  \* [Tasks -> the logical blocks it has moved]
  got,   \* [Tasks -> [Bytes -> what its read has found]]
  ret    \* [Tasks -> how its last request ended]

vars == <<mem, req, done, got, ret>>

Named(r) == r.off..(r.off + r.len - 1)
Blocks(r) == {b \div LbaSize : b \in Named(r)}
Nothing == [b \in Bytes |-> None]

Init ==
  /\ mem = Nothing
  /\ req = [t \in Tasks |-> None] /\ done = [t \in Tasks |-> {}]
  /\ got = [t \in Tasks |-> Nothing] /\ ret = [t \in Tasks |-> None]

Begin(t) ==
  /\ req[t] = None
  /\ \E r \in Requests : Named(r) \subseteq Bytes /\ req' = [req EXCEPT ![t] = r]
  /\ ret' = [ret EXCEPT ![t] = None]
  /\ UNCHANGED <<mem, done, got>>

\* The bytes of the request that lie in one logical block, all at once.
Transfer(t) ==
  /\ req[t] # None
  /\ \E l \in Blocks(req[t]) \ done[t] :
       LET part == {b \in Named(req[t]) : b \div LbaSize = l}
       IN  /\ done' = [done EXCEPT ![t] = @ \cup {l}]
           /\ IF req[t].kind = "write"
              THEN /\ mem' = [b \in Bytes |-> IF b \in part THEN t ELSE mem[b]]
                   /\ got' = got
              ELSE /\ got' = [got EXCEPT ![t] =
                                [b \in Bytes |-> IF b \in part THEN mem[b] ELSE @[b]]]
                   /\ mem' = mem
  /\ UNCHANGED <<req, ret>>

\* Success, which nothing but the whole request permits, or -EIO.
End(t) ==
  /\ req[t] # None
  /\ \/ done[t] = Blocks(req[t]) /\ ret' = [ret EXCEPT ![t] = "length"]
     \/ ret' = [ret EXCEPT ![t] = "EIO"]
  /\ req' = [req EXCEPT ![t] = None] /\ done' = [done EXCEPT ![t] = {}]
  /\ got' = [got EXCEPT ![t] = Nothing]
  /\ UNCHANGED mem

Next == \E t \in Tasks : Begin(t) \/ Transfer(t) \/ End(t)

Spec == Init /\ [][Next]_vars
=============================================================================
