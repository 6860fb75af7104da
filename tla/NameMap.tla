------------------------------ MODULE NameMap -------------------------------
(***************************************************************************)
(* What a directory promises: a map from names to inodes.  A name is given *)
(* an inode no other name has, and is taken away again.                    *)
(***************************************************************************)
CONSTANTS Names, Inodes, NoInode

VARIABLE map    \* [Names -> Inodes \cup {NoInode}]

Init == map = [n \in Names |-> NoInode]

Create(n, i) ==
  /\ map[n] = NoInode
  /\ \A m \in Names : map[m] # i
  /\ map' = [map EXCEPT ![n] = i]

Remove(n) ==
  /\ map[n] # NoInode
  /\ map' = [map EXCEPT ![n] = NoInode]

Next == \E n \in Names : Remove(n) \/ \E i \in Inodes : Create(n, i)

Spec == Init /\ [][Next]_map
=============================================================================
