------------------------------ MODULE Allocation ------------------------------
(***************************************************************************)
(* What a caller of malloc and free relies on: the blocks it holds are     *)
(* disjoint, a new block overlaps none of them and is as long as asked,    *)
(* and a block stays where it is until it is freed.                        *)
(***************************************************************************)
EXTENDS Integers

CONSTANT MaxRequest

VARIABLE held   \* the blocks handed out: first and last unit of each

Disjoint(b, c) == b.last < c.first \/ c.last < b.first

Init == held = {}

\* malloc(n): some block of at least n units, clear of every held one.
Grant(n) ==
  \E b \in held' \ held :
    /\ held' = held \union {b}
    /\ b.last - b.first + 1 >= n
    /\ \A c \in held : Disjoint(b, c)

\* free: exactly one block is given back.
Release == \E b \in held : held' = held \ {b}

Next == Release \/ \E n \in 1 .. MaxRequest : Grant(n)

Spec == Init /\ [][Next]_held
=============================================================================
