----------------------------- MODULE Directory ------------------------------
(***************************************************************************)
(* One directory of an ext2 volume: the entries of its blocks, as          *)
(* directory_add_entry and directory_remove_entry change them, and the     *)
(* child list the virtual file system keeps of it, with the calls creat,   *)
(* unlink and the look-up of a name.                                       *)
(*                                                                         *)
(* A block is read, changed in memory and written back without a lock.     *)
(* read_dir fills the child list under child_list_lock, but the calls that *)
(* change the directory declare it out of date without the lock.           *)
(*                                                                         *)
(* Blocks have 4096 bytes, the size of the pieces directory_remove_entry   *)
(* works on.  Sizes count units of four bytes.                             *)
(***************************************************************************)
EXTENDS Integers, Sequences, FiniteSets, SequencesExt

CONSTANTS
  Tasks,
  None,
  Names,      \* the names files are given
  NameLen,    \* [Names -> the bytes of the name]
  Inodes,     \* the inodes _allocate_inode has to give
  BlockUnits, \* units of a block
  MaxBlocks,  \* a bound: where the volume is full
  Faults      \* the defects let loose: see Call and RemoveRead

ASSUME DirectoryAssumption ==
  /\ IsFiniteSet(Tasks) /\ None \notin Tasks
  /\ Names \cap {".", ".."} = {} /\ NameLen \in [Names -> 1..255]
  /\ Inodes \subseteq Nat \ {0}
  /\ BlockUnits \in Nat /\ \A n \in Names : (8 + NameLen[n] + 3) \div 4 <= BlockUnits
  /\ BlockUnits >= 6 /\ MaxBlocks \in Nat \ {0}
  /\ Faults \subseteq {"race", "dead"}

Here == 1    \* the inode of the directory itself, and of its parent

\* required_size and real_used_size
Used(n) == IF n \in {".", ".."} THEN 3 ELSE (8 + NameLen[n] + 3) \div 4

Wants == {"find", "creat", "unlink"}
Ops == {"user", "find", "merge", "add", "addwrite", "stale", "remove", "removewrite", "forget"}

VARIABLES
  dir,      \* the blocks: sequences of entries with inode, name and entry_size
  used,     \* the inodes in use
  children, \* [Names -> the inode of the child node, or 0]
  cached,   \* TRUE iff directory_cached
  lock,     \* the holder of child_list_lock
  op,       \* [Tasks -> where it is]
  want,     \* [Tasks -> which call it is in]
  name,     \* [Tasks -> the name it is given]
  seen,     \* [Tasks -> the entries its read_dir has found]
  node,     \* [Tasks -> the inode of the file it unlinks]
  buf       \* [Tasks -> the block it is about to write, and where]

disk == <<dir, used>>
cache == <<children, cached, lock>>
input == <<want, name>>
memory == <<seen, node, buf>>
task == <<op, input, memory>>
vars == <<disk, cache, task>>

-----------------------------------------------------------------------------
(* The entries.                                                            *)

Entry(i, n, s) == [ino |-> i, name |-> n, size |-> s]

\* The live entries, as a set of pairs: what ext2_vnode_read_dir returns.
Live(d) == {<<e.name, e.ino>> : e \in {x \in UNION {Range(d[b]) : b \in DOMAIN d} : x.ino # 0}}

\* Room behind the last entry of a block.  Only the last one is looked at.
Slack(e) == e.size - Used(e.name)
HasRoom(k, n) == Slack(Last(k)) >= Used(n)

\* Mutant: the new entry takes the place of the last one.
SplitOver(k, i, n) == [k EXCEPT ![Len(k)] = Entry(i, n, @.size)]

\* The block k with its last entry cut to its need, and a new one behind it.
Split(k, i, n) ==
  Append([k EXCEPT ![Len(k)].size = Used(Last(k).name)], Entry(i, n, Slack(Last(k))))

\* Where the entry for n goes: the first block with room, or a new one.
Place(d, n) ==
  LET R == {b \in DOMAIN d : HasRoom(d[b], n)}
  IN IF R = {} THEN Len(d) + 1 ELSE CHOOSE b \in R : \A c \in R : b <= c

\* directory_add_entry, with the entry made in block b of d.
Added(d, b, i, n) == IF b > Len(d) THEN <<Entry(i, n, BlockUnits)>> ELSE Split(d[b], i, n)

\* Where directory_remove_entry finds n: a block and an entry of it.  It does
\* not look whether the entry is live.
Matches(d, n) == {p \in (DOMAIN d) \X (1..BlockUnits) : p[2] <= Len(d[p[1]]) /\ d[p[1]][p[2]].name = n}
FirstMatch(d, n) ==
  CHOOSE p \in Matches(d, n) : \A q \in Matches(d, n) :
    p[1] < q[1] \/ (p[1] = q[1] /\ p[2] <= q[2])

\* Mutant: the space of the entry goes to no other entry.
RemovedSpaceLost(k, j) == IF j = 1 THEN [k EXCEPT ![1].ino = 0] ELSE RemoveAt(k, j)

\* Mutant: the first entry of a block is left alone.
RemovedFirstKept(k, j) ==
  IF j = 1 THEN k ELSE RemoveAt([k EXCEPT ![j - 1].size = @ + k[j].size], j)

\* The entry before it takes its space; the first of a block loses its inode.
Removed(k, j) ==
  IF j = 1 THEN [k EXCEPT ![1].ino = 0]
  ELSE RemoveAt([k EXCEPT ![j - 1].size = @ + k[j].size], j)

-----------------------------------------------------------------------------
Nothing == [block |-> 0, data |-> <<>>]

\* A directory create_directory has made.
Init ==
  /\ dir = << <<Entry(Here, ".", 3), Entry(Here, "..", BlockUnits - 3)>> >>
  /\ used = {}
  /\ children = [n \in Names |-> 0]
  /\ cached = FALSE
  /\ lock = None
  /\ op = [t \in Tasks |-> "user"]
  /\ want = [t \in Tasks |-> "find"]
  /\ name = [t \in Tasks |-> None]
  /\ seen = [t \in Tasks |-> {}]
  /\ node = [t \in Tasks |-> 0]
  /\ buf = [t \in Tasks |-> Nothing]

Goes(t, o) == op' = [op EXCEPT ![t] = o]
Returns(t) ==
  /\ Goes(t, "user")
  /\ want' = [want EXCEPT ![t] = "find"]
  /\ name' = [name EXCEPT ![t] = None]
  /\ seen' = [seen EXCEPT ![t] = {}]
  /\ node' = [node EXCEPT ![t] = 0]
  /\ buf' = [buf EXCEPT ![t] = Nothing]

\* Nothing keeps two calls on one directory apart.  Those that do no harm to
\* each other are look-ups, and look-ups with one unlink.
Harmless(w, v) == "find" \in {w, v} /\ "creat" \notin {w, v}

Call(t, w, n) ==
  /\ op[t] = "user"
  /\ "race" \in Faults \/ \A u \in Tasks : op[u] # "user" => Harmless(w, want[u])
  /\ Goes(t, "find")
  /\ want' = [want EXCEPT ![t] = w]
  /\ name' = [name EXCEPT ![t] = n]
  /\ UNCHANGED <<disk, cache, memory>>

\* After the look-up, which found inode i or 0.  A creat of a name that exists
\* still declares the child list out of date.
Decided(t, i) ==
  CASE want[t] = "find" -> Returns(t)
    [] want[t] = "creat" ->
         /\ Goes(t, IF i = 0 THEN "add" ELSE "stale")
         /\ seen' = [seen EXCEPT ![t] = {}]
         /\ UNCHANGED <<input, node, buf>>
    [] want[t] = "unlink" ->
         IF i = 0 THEN Returns(t)
         ELSE /\ Goes(t, "remove")
              /\ seen' = [seen EXCEPT ![t] = {}]
              /\ node' = [node EXCEPT ![t] = i]
              /\ UNCHANGED <<input, buf>>

\* find_file, by the child list if it is up to date,
FindCached(t) ==
  /\ op[t] = "find" /\ lock = None /\ cached
  /\ Decided(t, children[name[t]])
  /\ UNCHANGED <<disk, cache>>

\* and else from the disk, with the lock held.
FindLoad(t) ==
  /\ op[t] = "find" /\ lock = None /\ ~cached
  /\ lock' = t
  /\ seen' = [seen EXCEPT ![t] = Live(dir)]
  /\ Goes(t, "merge")
  /\ UNCHANGED <<disk, children, cached, input, node, buf>>

\* The child list after read_dir: extra children go, missing ones come, and
\* known ones get the inode the disk has.
Merged(live) ==
  [n \in Names |-> IF \E i \in Inodes : <<n, i>> \in live
                   THEN CHOOSE i \in Inodes : <<n, i>> \in live ELSE 0]

FindMerge(t) ==
  /\ op[t] = "merge"
  /\ children' = Merged(seen[t])
  /\ cached' = TRUE
  /\ lock' = None
  /\ Decided(t, children'[name[t]])
  /\ UNCHANGED disk

-----------------------------------------------------------------------------
(* vnode_t::creat and ext2_t::create_file                                  *)

\* The inode is taken, and the block for the entry read and changed.
AddRead(t) ==
  /\ op[t] = "add"
  /\ \E i \in Inodes \ used :
       /\ \A j \in Inodes \ used : i <= j
       /\ used' = used \cup {i}
       /\ LET b == Place(dir, name[t])
          IN buf' = [buf EXCEPT ![t] = [block |-> b, data |-> Added(dir, b, i, name[t])]]
  /\ Goes(t, "addwrite")
  /\ UNCHANGED <<dir, cache, input, seen, node>>

\* _allocate_inode found none.
AddNoInode(t) ==
  /\ op[t] = "add" /\ Inodes \subseteq used
  /\ Goes(t, "stale")
  /\ UNCHANGED <<disk, cache, input, memory>>

\* The block with the entry, or the new block, is written.
AddWrite(t) ==
  /\ op[t] = "addwrite" /\ buf[t].block <= MaxBlocks
  /\ LET b == buf[t].block
     IN dir' = IF b > Len(dir) THEN Append(dir, buf[t].data) ELSE [dir EXCEPT ![b] = buf[t].data]
  /\ Goes(t, "stale")
  /\ UNCHANGED <<used, cache, input, memory>>

\* The volume is full.  Nobody looks at what write_inode_contents returns: the
\* inode stays in use without a name.
AddNoSpace(t) ==
  /\ op[t] = "addwrite" /\ buf[t].block > MaxBlocks
  /\ Goes(t, "stale")
  /\ UNCHANGED <<disk, cache, input, memory>>

\* Mutant: the child list stays as it is.
OutOfDateNot == cached

OutOfDate == FALSE

AddStale(t) ==
  /\ op[t] = "stale"
  /\ cached' = OutOfDate
  /\ Returns(t)
  /\ UNCHANGED <<disk, children, lock>>

-----------------------------------------------------------------------------
(* vnode_t::unlink and ext2_vnode_unlink                                   *)

\* The entry found may be one that was removed before and kept its name: the
\* live one stays then.
RemoveRead(t) ==
  /\ op[t] = "remove"
  /\ LET p == FirstMatch(dir, name[t])
     IN IF Matches(dir, name[t]) = {} THEN UNCHANGED buf
        ELSE /\ "dead" \in Faults \/ dir[p[1]][p[2]].ino # 0
             /\ buf' = [buf EXCEPT ![t] = [block |-> p[1], data |-> Removed(dir[p[1]], p[2])]]
  /\ Goes(t, "removewrite")
  /\ UNCHANGED <<disk, cache, input, seen, node>>

\* The block is written, and free_inode_contents frees the inode, whether or
\* not an entry was found.
RemoveWrite(t) ==
  /\ op[t] = "removewrite"
  /\ dir' = IF buf[t].block = 0 THEN dir ELSE [dir EXCEPT ![buf[t].block] = buf[t].data]
  /\ used' = used \ {node[t]}
  /\ Goes(t, "forget")
  /\ UNCHANGED <<cache, input, memory>>

\* The node leaves the child list.
Forget(t) ==
  /\ op[t] = "forget" /\ lock = None
  /\ children' = [children EXCEPT ![name[t]] = 0]
  /\ Returns(t)
  /\ UNCHANGED <<disk, cached, lock>>

-----------------------------------------------------------------------------
Step(t) ==
  \/ \E w \in Wants, n \in Names : Call(t, w, n)
  \/ FindCached(t)
  \/ FindLoad(t)
  \/ FindMerge(t)
  \/ AddRead(t)
  \/ AddNoInode(t)
  \/ AddWrite(t)
  \/ AddNoSpace(t)
  \/ AddStale(t)
  \/ RemoveRead(t)
  \/ RemoveWrite(t)
  \/ Forget(t)

Next == \E t \in Tasks : Step(t)

Spec == Init /\ [][Next]_vars

-----------------------------------------------------------------------------
(* Properties                                                              *)

Entries == [ino : {0, Here} \cup Inodes, name : Names \cup {".", ".."}, size : 1..BlockUnits]
IsBlock(k) == Len(k) > 0 /\ \A j \in 1..Len(k) : k[j] \in Entries

\* What is in each variable; in particular no entry has size 0, at which the
\* loop of directory_add_entry never gets further.
TypeOK ==
  /\ Len(dir) \in 1..MaxBlocks /\ \A b \in 1..Len(dir) : IsBlock(dir[b])
  /\ used \subseteq Inodes /\ children \in [Names -> {0} \cup Inodes]
  /\ cached \in BOOLEAN /\ lock \in Tasks \cup {None}
  /\ op \in [Tasks -> Ops] /\ want \in [Tasks -> Wants]
  /\ \A t \in Tasks : name[t] \in Names \/ name[t] = None
  /\ node \in [Tasks -> {0} \cup Inodes]
  /\ \A t \in Tasks : buf[t].block > 0 => IsBlock(buf[t].data)

\* Where the last entry of k ends.
EndOf(k) ==
  LET end[j \in 0..Len(k)] == IF j = 0 THEN 0 ELSE end[j - 1] + k[j].size
  IN end[Len(k)]

\* The entries of a block fill it exactly, and each has room for its name: the
\* walks by entry_size stay on the entries and end at the end of the block.
Tiles ==
  \A b \in 1..Len(dir) :
    /\ EndOf(dir[b]) = BlockUnits
    /\ \A j \in 1..Len(dir[b]) : dir[b][j].size >= Used(dir[b][j].name)

\* The names and inodes read_dir finds.
Named == {x \in Live(dir) : x[1] \in Names}

\* A name has one entry, an inode one name, and no entry leads to an inode
\* that unlink has freed.
OneEntry ==
  /\ \A x, y \in Named : x # y => x[1] # y[1] /\ x[2] # y[2]
  /\ \A x \in Named : x[2] \in used

InodeOf(n) == IF \E i \in Inodes : <<n, i>> \in Named
              THEN CHOOSE i \in Inodes : <<n, i>> \in Named ELSE 0

\* Between the calls, a child list that counts as up to date says what the
\* disk says: no file that was made stays hidden, none that is gone is found.
CacheCoherent ==
  cached /\ (\A t \in Tasks : op[t] = "user") => \A n \in Names : children[n] = InodeOf(n)

Map == INSTANCE NameMap WITH map <- [n \in Names |-> InodeOf(n)], NoInode <- 0

\* The entries are a map from names to inodes which one creat or unlink
\* changes at one name, in one step, and to which nothing else happens.
Implements == Map!Spec

=============================================================================
