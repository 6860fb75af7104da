--------------------------- MODULE PrivateMemory ----------------------------
(***************************************************************************)
(* What processes expect of memory: each has its own. A page is mapped     *)
(* filled with zeroes, written, unmapped; a child starts with a copy of    *)
(* its parent's pages; nothing a process does shows in another one.        *)
(***************************************************************************)
CONSTANTS Procs, Pages, Data, Zero, Unmapped

VARIABLE mem   \* what each process reads at each of its pages

Nothing == [v \in Pages |-> Unmapped]

Init == \E p \in Procs, m \in [Pages -> {Zero, Unmapped}] :
          mem = [q \in Procs |-> IF q = p THEN m ELSE Nothing]

\* A step changes one page of one process, or all of one process's pages.
KeepOther(p) == \A q \in Procs \ {p} : mem'[q] = mem[q]

Page(p, v) ==
  /\ KeepOther(p)
  /\ \A w \in Pages \ {v} : mem'[p][w] = mem[p][w]
  /\ \/ mem'[p][v] \in {Zero, Unmapped}                         \* mapped afresh, unmapped
     \/ mem[p][v] # Unmapped /\ mem'[p][v] \in Data             \* written

Fork(p, c) == KeepOther(c) /\ mem[c] = Nothing /\ mem'[c] = mem[p]
Exit(p)    == KeepOther(p) /\ mem'[p] = Nothing

Next == \E p \in Procs :
          \/ \E v \in Pages : Page(p, v)
          \/ \E c \in Procs \ {p} : Fork(p, c)
          \/ Exit(p)

Spec == Init /\ [][Next]_mem
=============================================================================
