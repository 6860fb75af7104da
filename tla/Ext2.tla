-------------------------------- MODULE Ext2 --------------------------------
(***************************************************************************)
(* The block and inode store of the ext2 driver: the two bitmaps and the   *)
(* free counts, the inodes with their direct and indirect block pointers,  *)
(* and the calls of a file: create, write, truncate and unlink.            *)
(*                                                                         *)
(* _allocate_block, _free_block, _allocate_inode and _free_inode hold      *)
(* block_group_table_lock and are one step each.  A call copies the inode  *)
(* (fetch_inode), works on its copy, and writes the copy back at its end   *)
(* (update_inode); nothing locks the inode in between.  An inode is a part *)
(* of a logical block of the disk, which the disk's driver reads, changes  *)
(* and writes back: SaveRead is its read.  inodes, disk and bmap are what  *)
(* is on the disk: a power failure leaves them as they are.                *)
(*                                                                         *)
(* A block is Words words, and an indirect block has one entry per word.   *)
(* Sizes and offsets count words.                                          *)
(***************************************************************************)
EXTENDS Integers, Sequences, FiniteSets, SequencesExt

CONSTANTS
  Tasks,
  Groups,         \* block_group_count
  BlocksPerGroup, \* blocks_per_block_group
  InodesPerGroup, \* inodes_per_block_group
  InodesPerLba,   \* the inodes in a logical block of the disk
  TakenBlocks,    \* the blocks of the rest of the volume: block 0 among them
  TakenInodes,    \* the inodes of the rest of the volume
  FirstInode,     \* first_non_reserved_inode
  Boot,           \* the words of block 0: a boot record, the superblock
  Direct,         \* the direct pointers of an inode: 12
  Words,          \* words of a block
  MaxBlocks,      \* a bound on the blocks of a file
  SizeMod,        \* 2^32: size_upper is not set by a write
  Ranges,         \* the pairs of offset and length of the writes
  Sizes,          \* the sizes of the truncates
  MaxCalls,       \* a bound on the calls
  Prealloc,       \* dir_block_preallocation_count
  Faults          \* the defects let loose: see Free, Garbage, Alone

ASSUME VolumeAssumption ==
  /\ Groups \in Nat \ {0} /\ BlocksPerGroup \in Nat \ {0}
  /\ InodesPerGroup \in Nat \ {0} /\ FirstInode \in Nat \ {0}
  /\ InodesPerLba \in Nat \ {0}
  /\ 0 \in TakenBlocks /\ TakenBlocks \subseteq 0..(Groups * BlocksPerGroup - 1)
  /\ 1..(FirstInode - 1) \subseteq TakenInodes
  /\ TakenInodes \subseteq 1..(Groups * InodesPerGroup)

\* The blocks a double indirect block leads to.
DoubleSpan == Words * Words

ASSUME FileAssumption ==
  /\ Direct \in Nat \ {0} /\ Words \in Nat \ {0} /\ Prealloc \in Nat /\ MaxCalls \in Nat
  /\ MaxBlocks \in 1..(Direct + Words + DoubleSpan + Words * DoubleSpan)
  /\ SizeMod \in Nat \ {0}
  /\ Sizes \subseteq 0..(MaxBlocks * Words) /\ Prealloc <= MaxBlocks
  /\ Ranges \subseteq Nat \X (Nat \ {0})
  /\ \A r \in Ranges : r[1] + r[2] <= MaxBlocks * Words
  /\ Faults \subseteq {"race", "garbage", "rmw"}

Blocks == 0..(Groups * BlocksPerGroup - 1)
Inodes == 1..(Groups * InodesPerGroup)
GroupIds == 0..(Groups - 1)
Logicals == 0..(MaxBlocks - 1)
Entry == 0..(Words - 1)
Slots == 0..(Direct + 2)    \* the pointers of an inode: direct, single, double, triple

\* The words of a data block: the mark of the file and the block they were
\* written for, a zero, or what an earlier owner left.
Junk == -1
Tag(i, l) == -(2 + l + i * MaxBlocks)

\* The words of block 0 are data, or zeros, where nothing is.
ASSUME BootAssumption == Boot \in [Entry -> {0, Junk}]

NoInode == [ptr |-> [s \in Slots |-> 0], size |-> 0]

VARIABLES
  bmap,   \* the blocks the usage bitmaps mark
  bfree,  \* [GroupIds -> unallocated_block_count]
  sbfree, \* unallocated_block_count of the superblock
  imap,   \* the inodes the usage bitmaps mark
  ifree,  \* [GroupIds -> unallocated_inode_count]
  sifree, \* unallocated_inode_count of the superblock
  inodes, \* [Inodes -> the inode table]
  disk,   \* [Blocks -> the words of the block]
  files,  \* the inodes with a directory entry
  \* the call of a task
  op,     \* [Tasks -> where it is]
  call,   \* [Tasks -> which call it is]
  ino,    \* [Tasks -> inode_num]
  copy,   \* [Tasks -> its copy of the inode]
  pos,    \* [Tasks -> how far it is: a word, a logical block or a pointer]
  to,     \* [Tasks -> the end of the write, new_size]
  block,  \* [Tasks -> physical_block]
  table,  \* [Tasks -> the indirect block it stands at]
  depth,  \* [Tasks -> the indices it has followed]
  dirty,  \* the tasks with inode_modified
  image,  \* [Tasks -> the inodes read with the one to be saved, or <<>>]
  calls,  \* the calls made so far
  lost    \* history: the blocks the driver has forgotten

bitmaps == <<bmap, bfree, sbfree, imap, ifree, sifree>>
blockmap == <<bmap, bfree, sbfree>>
inodemap == <<imap, ifree, sifree>>
store == <<inodes, disk, files>>
caller == <<call, ino, calls, image>>
local == <<op, caller, copy, pos, to, block, table, depth, dirty>>
vars == <<bitmaps, store, local, lost>>

-----------------------------------------------------------------------------
(* The bitmaps and their counts.                                           *)

BlockGroup == [b \in Blocks |-> b \div BlocksPerGroup]
InodeGroup == [i \in Inodes |-> (i - 1) \div InodesPerGroup]

\* The groups are searched from the hint to the last, then from the first.
\* A group whose count is 0 is not looked at.
Turn(g, start) == (g - start) % Groups

\* Mutant: the second round over the groups is missing.
FirstFreeOnce(S, G, count, start) ==
  LET C == {x \in S : count[G[x]] # 0 /\ G[x] >= start}
  IN IF C = {} THEN -1 ELSE CHOOSE x \in C : \A y \in C : x <= y

\* The first of the unused S, of which G gives the groups, or a negative error.
FirstFree(S, G, count, start) ==
  LET C == {x \in S : count[G[x]] # 0}
      Before(x, y) == \/ Turn(G[x], start) < Turn(G[y], start)
                      \/ G[x] = G[y] /\ x <= y
  IN IF C = {} THEN -1 ELSE CHOOSE x \in C : \A y \in C : Before(x, y)

FreeBlock(start) == FirstFree(Blocks \ bmap, BlockGroup, bfree, start)
FreeInode(start) == FirstFree(Inodes \ imap, InodeGroup, ifree, start)

\* _allocate_block, with the block found.
AllocateBlock(b) ==
  /\ bmap' = bmap \cup {b}
  /\ bfree' = [bfree EXCEPT ![BlockGroup[b]] = @ - 1]
  /\ sbfree' = sbfree - 1

\* Mutant: the block after the superblock counts as the superblock.
FreeableFromTwo(b) == b > 1 /\ b \in bmap

\* _free_block returns for block 0 and leaves a block that is not in use.
Freeable(b) == b > 0 /\ b \in bmap

\* _free_block of each block of B.
FreeBlocks(B) ==
  LET F == {b \in B : Freeable(b)}
      In(g) == Cardinality({b \in F : BlockGroup[b] = g})
  IN /\ bmap' = bmap \ F
     /\ bfree' = [g \in GroupIds |-> bfree[g] + In(g)]
     /\ sbfree' = sbfree + Cardinality(F)

\* What a freed block holds means nothing to anybody any more.
Forgotten(B) == [b \in Blocks |-> IF b \in B /\ b > 0 THEN [k \in Entry |-> Junk] ELSE disk[b]]

-----------------------------------------------------------------------------
(* Logical and physical blocks.                                            *)

Least(a, b) == IF a < b THEN a ELSE b
Count(size) == (size + Words - 1) \div Words

\* Mutant: one direct pointer too many.
LevelOneMore(l) ==
  IF l <= Direct THEN 0
  ELSE IF l - Direct < Words THEN 1
  ELSE IF l - Direct - Words < DoubleSpan THEN 2 ELSE 3

\* How many indirect blocks lead to logical block l.
Level(l) ==
  IF l < Direct THEN 0
  ELSE IF l - Direct < Words THEN 1
  ELSE IF l - Direct - Words < DoubleSpan THEN 2 ELSE 3

\* The index in each of them.
Path ==
  [l \in Logicals |->
     LET q == l - Direct - Words
         r == q - DoubleSpan
     IN CASE Level(l) = 0 -> <<>>
          [] Level(l) = 1 -> <<l - Direct>>
          [] Level(l) = 2 -> <<q \div Words, q % Words>>
          [] Level(l) = 3 -> <<r \div DoubleSpan, (r % DoubleSpan) \div Words, r % Words>>]

\* The pointer of the inode the path starts from.
Root(l) == IF Level(l) = 0 THEN l ELSE Direct + Level(l) - 1

\* The entry of an indirect block; there is none behind a missing one.  Words
\* below zero are data and lead nowhere.
Follow(b, k) == IF b <= 0 \/ disk[b][k] <= 0 THEN 0 ELSE disk[b][k]

\* The block reached from pointer p along a path: 0 if one is missing.
Walk(p, path) ==
  LET b1 == Follow(p, path[1])
      b2 == Follow(b1, path[2])
  IN CASE Len(path) = 0 -> p
       [] Len(path) = 1 -> b1
       [] Len(path) = 2 -> b2
       [] Len(path) = 3 -> Follow(b2, path[3])

\* _get_physical_block
GetPhysical(n, l) == Walk(n.ptr[Root(l)], Path[l])

\* The indirect block that holds the entry of l.
LastTable(n, l) == Walk(n.ptr[Root(l)], SubSeq(Path[l], 1, Level(l) - 1))

\* The group _set_physical_block asks for a first indirect block in.
RootHint(n, l) == IF Level(l) = 1 THEN 0 ELSE BlockGroup[n.ptr[Root(l) - 1]]

\* Mutant: any later block goes on with the run, not only the next.
RunOfLater(n, l, o, need) ==
  CHOOSE c \in 1..MaxBlocks :
    /\ \A d \in 1..(c - 1) :
         /\ d * Words - o < need
         /\ GetPhysical(n, l + d) >= GetPhysical(n, l) + d
    /\ \/ c * Words - o >= need
       \/ GetPhysical(n, l + c) < GetPhysical(n, l) + c

\* The blocks of a run of load_inode_contents: it starts at logical block l,
\* of which the first o words are not wanted, and need words are.
RunLength(n, l, o, need) ==
  CHOOSE c \in 1..MaxBlocks :
    /\ \A d \in 1..(c - 1) :
         /\ d * Words - o < need
         /\ GetPhysical(n, l + d) = GetPhysical(n, l) + d
    /\ \/ c * Words - o >= need
       \/ GetPhysical(n, l + c) # GetPhysical(n, l) + c

\* load_inode_contents
Load(n, off, len) ==
  LET wanted == IF off >= n.size THEN 0 ELSE Least(len, n.size - off)
      from[k \in 0..wanted] ==
        LET l == (off + k) \div Words
            o == (off + k) % Words
            p == GetPhysical(n, l)
            c == IF p = 0 THEN 1 ELSE RunLength(n, l, o, wanted - k)
            got == Least(wanted - k, c * Words - o)
            Word(j) == IF p = 0 THEN 0 ELSE disk[p + (o + j) \div Words][(o + j) % Words]
        IN IF k = wanted THEN <<>> ELSE [j \in 1..got |-> Word(j - 1)] \o from[k + got]
  IN from[0]

-----------------------------------------------------------------------------
Init ==
  /\ bmap = TakenBlocks
  /\ bfree = [g \in GroupIds |-> Cardinality({b \in Blocks \ TakenBlocks : BlockGroup[b] = g})]
  /\ sbfree = Cardinality(Blocks \ TakenBlocks)
  /\ imap = TakenInodes
  /\ ifree = [g \in GroupIds |-> Cardinality({i \in Inodes \ TakenInodes : InodeGroup[i] = g})]
  /\ sifree = Cardinality(Inodes \ TakenInodes)
  /\ inodes = [i \in Inodes |-> NoInode]
  /\ disk = [b \in Blocks |-> IF b = 0 THEN Boot ELSE [k \in Entry |-> Junk]]
  /\ files = {}
  /\ op = [t \in Tasks |-> "user"]
  /\ call = [t \in Tasks |-> "none"]
  /\ ino = [t \in Tasks |-> 0]
  /\ copy = [t \in Tasks |-> NoInode]
  /\ pos = [t \in Tasks |-> 0]
  /\ to = [t \in Tasks |-> 0]
  /\ block = [t \in Tasks |-> 0]
  /\ table = [t \in Tasks |-> 0]
  /\ depth = [t \in Tasks |-> 0]
  /\ dirty = {}
  /\ image = [t \in Tasks |-> <<>>]
  /\ calls = 0
  /\ lost = {}

\* Two tasks may work on one file: no lock keeps them apart.  Their copies of
\* the inode overwrite each other.
Free(i) == "race" \in Faults \/ \A t \in Tasks : ino[t] # i

Goes(t, o) == op' = [op EXCEPT ![t] = o]

\* A task may start a call.
Idle(t) == op[t] = "user" /\ calls < MaxCalls

\* A call starts: with inode i, its copy n, at position p, up to e.
Starts(t, o, c, i, n, p, e) ==
  /\ Goes(t, o)
  /\ call' = [call EXCEPT ![t] = c]
  /\ ino' = [ino EXCEPT ![t] = i]
  /\ copy' = [copy EXCEPT ![t] = n]
  /\ pos' = [pos EXCEPT ![t] = p]
  /\ to' = [to EXCEPT ![t] = e]
  /\ image' = [image EXCEPT ![t] = <<>>]
  /\ calls' = IF op[t] = "user" THEN calls + 1 ELSE calls
  /\ UNCHANGED <<block, table, depth, dirty>>

\* A call ends.  create_file adds the directory entry whatever happened.
Ends(t) ==
  /\ Goes(t, "user")
  /\ call' = [call EXCEPT ![t] = "none"]
  /\ ino' = [ino EXCEPT ![t] = 0]
  /\ copy' = [copy EXCEPT ![t] = NoInode]
  /\ pos' = [pos EXCEPT ![t] = 0]
  /\ to' = [to EXCEPT ![t] = 0]
  /\ block' = [block EXCEPT ![t] = 0]
  /\ table' = [table EXCEPT ![t] = 0]
  /\ depth' = [depth EXCEPT ![t] = 0]
  /\ dirty' = dirty \ {t}
  /\ image' = [image EXCEPT ![t] = <<>>]
  /\ UNCHANGED calls
  /\ files' = IF call[t] = "create" THEN files \cup {ino[t]} ELSE files

\* The logical block a task is at.
Here(t) == IF call[t] = "write" THEN pos[t] \div Words ELSE pos[t]

-----------------------------------------------------------------------------
(* The roles blocks have in a file, for the history of lost blocks and the *)
(* properties: <<0, l>> is logical block l, and the other sequences are    *)
(* the indirect blocks, by level and path.                                 *)

Roles ==
  {[name |-> <<0, l>>, root |-> Root(l), path |-> Path[l]] : l \in Logicals}
    \cup UNION {{[name |-> <<Level(l)>> \o SubSeq(Path[l], 1, d), root |-> Root(l),
                  path |-> SubSeq(Path[l], 1, d)] : d \in 0..(Level(l) - 1)} : l \in Logicals}

\* The pairs of a role and the block that has it.
Uses(n) == {u \in {<<r.name, Walk(n.ptr[r.root], r.path)>> : r \in Roles} : u[2] # 0}
BlocksOf(n) == {u[2] : u \in Uses(n)}

\* Those an unlink will find: the data up to the size, and the indirect blocks.
Kept(n) == {u[2] : u \in {v \in Uses(n) : v[1][1] = 0 => v[1][2] < Count(n.size)}}

-----------------------------------------------------------------------------
(* update_inode                                                            *)

\* The inodes in the logical block of inode i.
Neighbours(i) ==
  {j \in Inodes : /\ InodeGroup[j] = InodeGroup[i]
                  /\ ((j - 1) % InodesPerGroup) \div InodesPerLba
                       = ((i - 1) % InodesPerGroup) \div InodesPerLba}

\* A write saves the copy if it has moved the end or allocated a block.
Saves(t) == pos[t] > copy[t].size \/ t \in dirty

\* A call has come to where it saves its inode.
Saving(t) ==
  \/ op[t] = "create"
  \/ op[t] = "write" /\ pos[t] = to[t] /\ Saves(t)
  \/ op[t] \in {"shrink", "grow"} /\ pos[t] = Count(to[t])
  \/ op[t] = "unlink" /\ pos[t] = to[t] + 3

\* Nothing keeps two tasks from saving two inodes of a logical block at once:
\* the later write then takes back the earlier one.
Alone(i) == "rmw" \in Faults \/ \A t \in Tasks : Neighbours(i) \cap DOMAIN image[t] = {}

\* The logical block is read.
SaveRead(t) ==
  /\ Saving(t) /\ ino[t] \notin DOMAIN image[t] /\ Alone(ino[t])
  /\ image' = [image EXCEPT ![t] = [i \in Neighbours(ino[t]) |-> inodes[i]]]
  /\ UNCHANGED <<bitmaps, store, op, call, ino, calls, copy, pos, to, block, table,
                 depth, dirty, lost>>

\* It is written back with the inode n in it.
Save(t, n) ==
  /\ ino[t] \in DOMAIN image[t]
  /\ inodes' = [i \in Inodes |-> IF i = ino[t] THEN n
                                 ELSE IF i \in DOMAIN image[t] THEN image[t][i]
                                 ELSE inodes[i]]

-----------------------------------------------------------------------------
(* create_file, with the truncate that preallocates                        *)

Create(t, g) ==
  /\ Idle(t)
  /\ FreeInode(g) > 0
  /\ LET i == FreeInode(g)
     IN /\ imap' = imap \cup {i}
        /\ ifree' = [ifree EXCEPT ![InodeGroup[i]] = @ - 1]
        /\ sifree' = sifree - 1
        /\ Starts(t, "create", "create", i, NoInode, 0, 0)
  /\ UNCHANGED <<blockmap, store, lost>>

CreateInit(t) ==
  /\ op[t] = "create"
  /\ Save(t, NoInode)
  /\ IF Prealloc = 0
     THEN Ends(t)
     ELSE /\ Starts(t, "grow", "create", ino[t], NoInode, 0, Prealloc * Words)
          /\ UNCHANGED files
  /\ UNCHANGED <<bitmaps, disk, lost>>

-----------------------------------------------------------------------------
(* write_inode_contents                                                    *)

Write(t, i, r) ==
  /\ Idle(t) /\ i \in files /\ Free(i)
  /\ Starts(t, "write", "write", i, inodes[i], r[1], r[1] + r[2])
  /\ UNCHANGED <<bitmaps, store, lost>>

\* The logical block is mapped already.
WriteFound(t) ==
  /\ op[t] = "write" /\ pos[t] < to[t]
  /\ GetPhysical(copy[t], Here(t)) # 0
  /\ block' = [block EXCEPT ![t] = GetPhysical(copy[t], Here(t))]
  /\ Goes(t, "data")
  /\ UNCHANGED <<bitmaps, store, caller, copy, pos, to, table, depth, dirty, lost>>

\* A block was allocated for the logical block a task is at: a direct pointer
\* is set at once, otherwise the indirect blocks come first.
Placed(t, b) ==
  /\ IF Level(Here(t)) > 0
     THEN /\ Goes(t, "root")
          /\ block' = [block EXCEPT ![t] = b]
          /\ UNCHANGED <<copy, pos, dirty>>
     ELSE /\ copy' = [copy EXCEPT ![t].ptr[Here(t)] = b]
          /\ IF call[t] = "write"
             THEN /\ Goes(t, "data") /\ dirty' = dirty \cup {t}
                  /\ block' = [block EXCEPT ![t] = b]
                  /\ UNCHANGED pos
             ELSE /\ pos' = [pos EXCEPT ![t] = @ + 1]
                  /\ UNCHANGED <<op, block, dirty>>
  /\ UNCHANGED <<caller, to, table, depth>>

WriteAllocate(t) ==
  /\ op[t] = "write" /\ pos[t] < to[t]
  /\ GetPhysical(copy[t], Here(t)) = 0
  /\ LET b == FreeBlock(InodeGroup[ino[t]])
     IN IF b < 0
        THEN /\ to' = [to EXCEPT ![t] = pos[t]]
             /\ UNCHANGED <<blockmap, op, caller, copy, pos, block, table, depth, dirty>>
        ELSE AllocateBlock(b) /\ Placed(t, b)
  /\ UNCHANGED <<inodemap, store, lost>>

Chunk(t) == Least(to[t] - pos[t], Words - (pos[t] % Words))

WriteData(t) ==
  /\ op[t] = "data"
  /\ LET o == pos[t] % Words
         N == o..(o + Chunk(t) - 1)
     IN disk' = [disk EXCEPT ![block[t]] =
                   [k \in Entry |-> IF k \in N THEN Tag(ino[t], Here(t)) ELSE @[k]]]
  /\ pos' = [pos EXCEPT ![t] = @ + Chunk(t)]
  /\ block' = [block EXCEPT ![t] = 0]
  /\ Goes(t, "write")
  /\ UNCHANGED <<bitmaps, inodes, files, caller, copy, to, table, depth, dirty, lost>>

\* A write past the end of the file moves it, even one that found no space.  The
\* upper half of the new size is not stored.
Written(n, end) == IF end > n.size THEN [n EXCEPT !.size = end % SizeMod] ELSE n

\* Blocks behind a size that is too small are lost.  Without inode_modified the
\* copy is dropped, with a first indirect block it may hold.
WriteEnd(t) ==
  /\ op[t] = "write" /\ pos[t] = to[t]
  /\ LET n == Written(copy[t], pos[t])
     IN IF Saves(t)
        THEN /\ Save(t, n)
             /\ lost' = IF pos[t] < SizeMod THEN lost ELSE lost \cup (BlocksOf(n) \ Kept(n))
        ELSE /\ lost' = lost \cup (BlocksOf(copy[t]) \ BlocksOf(inodes[ino[t]]))
             /\ UNCHANGED inodes
  /\ Ends(t)
  /\ UNCHANGED <<bitmaps, disk>>

-----------------------------------------------------------------------------
(* _set_physical_block below an indirect block                             *)

Zeros == [k \in Entry |-> 0]

\* What _create_indirect_block returns: 0 if there is no block.
IndirectBlock(start) == IF FreeBlock(start) <= 0 THEN 0 ELSE FreeBlock(start)

\* The inode's pointer.  Its failure is not noticed: the pointer stays 0, and
\* the entry is then set in block 0.
SetRoot(t) ==
  /\ op[t] = "root"
  /\ LET s == Root(Here(t))
         b == IF copy[t].ptr[s] # 0 THEN copy[t].ptr[s]
              ELSE IndirectBlock(RootHint(copy[t], Here(t)))
     IN /\ IF copy[t].ptr[s] # 0 \/ b <= 0
           THEN UNCHANGED <<blockmap, disk>>
           ELSE AllocateBlock(b) /\ disk' = [disk EXCEPT ![b] = Zeros]
        /\ copy' = [copy EXCEPT ![t].ptr[s] = b]
        /\ table' = [table EXCEPT ![t] = b]
  /\ Goes(t, "table")
  /\ UNCHANGED <<inodemap, inodes, files, caller, pos, to, block, depth, dirty, lost>>

\* The history: what hangs on a pointer that stayed 0 is lost.
Lost(t, b) == IF copy[t].ptr[Root(Here(t))] = 0 THEN lost \cup {b} ELSE lost

\* An indirect block in between, made if it is missing.
SetTable(t) ==
  /\ op[t] = "table" /\ depth[t] < Level(Here(t)) - 1
  /\ LET k == Path[Here(t)][depth[t] + 1]
         b == IF disk[table[t]][k] # 0 THEN disk[table[t]][k]
              ELSE IndirectBlock(BlockGroup[table[t]])
     IN /\ b # 0
        /\ IF disk[table[t]][k] # 0
           THEN UNCHANGED <<blockmap, disk, lost>>
           ELSE /\ AllocateBlock(b)
                /\ disk' = [disk EXCEPT ![b] = Zeros, ![table[t]][k] = b]
                /\ lost' = Lost(t, b)
        /\ table' = [table EXCEPT ![t] = b]
  /\ depth' = [depth EXCEPT ![t] = @ + 1]
  /\ UNCHANGED <<inodemap, inodes, files, op, caller, copy, pos, to, block, dirty>>

\* There is no space for it: the new block is freed again.  A write ends
\* there; a truncate returns without writing the inode back, and what it has
\* allocated is lost.
NoTable(t) ==
  /\ op[t] = "table" /\ depth[t] < Level(Here(t)) - 1
  /\ disk[table[t]][Path[Here(t)][depth[t] + 1]] = 0
  /\ IndirectBlock(BlockGroup[table[t]]) = 0
  /\ FreeBlocks({block[t]})
  /\ disk' = Forgotten({block[t]})
  /\ IF call[t] = "write"
     THEN /\ Goes(t, "write")
          /\ to' = [to EXCEPT ![t] = pos[t]]
          /\ block' = [block EXCEPT ![t] = 0]
          /\ table' = [table EXCEPT ![t] = 0]
          /\ depth' = [depth EXCEPT ![t] = 0]
          /\ UNCHANGED <<files, caller, copy, pos, dirty, lost>>
     ELSE /\ Ends(t)
          /\ lost' = lost \cup (BlocksOf(copy[t]) \ Kept(inodes[ino[t]]))
  /\ UNCHANGED <<inodemap, inodes>>

SetEntry(t) ==
  /\ op[t] = "table" /\ depth[t] = Level(Here(t)) - 1
  /\ disk' = [disk EXCEPT ![table[t]][Path[Here(t)][depth[t] + 1]] = block[t]]
  /\ lost' = Lost(t, block[t])
  /\ table' = [table EXCEPT ![t] = 0]
  /\ depth' = [depth EXCEPT ![t] = 0]
  /\ IF call[t] = "write"
     THEN /\ Goes(t, "data") /\ dirty' = dirty \cup {t}
          /\ UNCHANGED <<pos, block>>
     ELSE /\ Goes(t, "grow") /\ pos' = [pos EXCEPT ![t] = @ + 1]
          /\ block' = [block EXCEPT ![t] = 0]
          /\ UNCHANGED dirty
  /\ UNCHANGED <<bitmaps, inodes, files, caller, copy, to>>

-----------------------------------------------------------------------------
(* truncate_inode                                                          *)

\* The words behind the shorter of the two ends, in its block, become zero.
ZeroedTail(n, size) ==
  LET e == Least(n.size, size)
      p == GetPhysical(n, e \div Words)
  IN IF e % Words = 0 \/ p = 0 THEN disk
     ELSE [disk EXCEPT ![p] = [k \in Entry |-> IF k >= e % Words THEN 0 ELSE @[k]]]

Truncate(t, i, size) ==
  /\ Idle(t) /\ i \in files /\ Free(i)
  /\ size # inodes[i].size
  /\ disk' = ZeroedTail(inodes[i], size)
  /\ Starts(t, IF size < inodes[i].size THEN "shrink" ELSE "grow", "truncate",
            i, inodes[i], Count(inodes[i].size), size)
  /\ UNCHANGED <<bitmaps, inodes, files, lost>>

\* Mutant: the pointer to a freed block stays.
ClearedNot(n, l) == n

\* The copy without its direct pointer to l.
Cleared(n, l) == IF Level(l) = 0 THEN [n EXCEPT !.ptr[l] = 0] ELSE n

\* The last block is freed.
Shrink(t) ==
  /\ op[t] = "shrink" /\ pos[t] > Count(to[t])
  /\ LET p == GetPhysical(copy[t], pos[t] - 1)
     IN IF p = 0
        THEN /\ pos' = [pos EXCEPT ![t] = @ - 1]
             /\ UNCHANGED <<blockmap, disk, op>>
        ELSE /\ FreeBlocks({p})
             /\ disk' = Forgotten({p})
             /\ Goes(t, "clear")
             /\ UNCHANGED pos
  /\ UNCHANGED <<inodemap, inodes, files, caller, copy, to, block, table, depth, dirty, lost>>

\* Then its pointer or its entry is cleared.
Clear(t) ==
  /\ op[t] = "clear"
  /\ LET l == pos[t] - 1
     IN /\ disk' = IF Level(l) = 0 THEN disk
                   ELSE [disk EXCEPT ![LastTable(copy[t], l)][Last(Path[l])] = 0]
        /\ copy' = [copy EXCEPT ![t] = Cleared(@, l)]
  /\ pos' = [pos EXCEPT ![t] = @ - 1]
  /\ Goes(t, "shrink")
  /\ UNCHANGED <<bitmaps, inodes, files, caller, to, block, table, depth, dirty, lost>>

\* A zeroed block for every logical block up to the new end, as long as there
\* are any.
Grow(t) ==
  /\ op[t] = "grow" /\ pos[t] < Count(to[t])
  /\ LET b == FreeBlock(InodeGroup[ino[t]])
     IN IF b <= 0
        THEN /\ to' = [to EXCEPT ![t] = pos[t] * Words]
             /\ UNCHANGED <<blockmap, disk, op, caller, copy, pos, block, table, depth, dirty>>
        ELSE /\ AllocateBlock(b)
             /\ disk' = [disk EXCEPT ![b] = Zeros]
             /\ Placed(t, b)
  /\ UNCHANGED <<inodemap, inodes, files, lost>>

TruncateEnd(t) ==
  /\ op[t] \in {"shrink", "grow"} /\ pos[t] = Count(to[t])
  /\ Save(t, [copy[t] EXCEPT !.size = to[t]])
  /\ Ends(t)
  /\ UNCHANGED <<bitmaps, disk, lost>>

-----------------------------------------------------------------------------
(* ext2_vnode_unlink of the only name of a file: the entry goes, then      *)
(* free_inode_contents.                                                    *)

Unlink(t, i) ==
  /\ Idle(t) /\ i \in files /\ Free(i)
  /\ files' = files \ {i}
  /\ Starts(t, "unlink", "unlink", i, inodes[i], 0, Count(inodes[i].size))
  /\ UNCHANGED <<bitmaps, inodes, disk, lost>>

UnlinkBlock(t) ==
  /\ op[t] = "unlink" /\ pos[t] < to[t]
  /\ LET p == GetPhysical(copy[t], pos[t])
     IN IF p = 0 THEN UNCHANGED <<blockmap, disk>>
        ELSE FreeBlocks({p}) /\ disk' = Forgotten({p})
  /\ pos' = [pos EXCEPT ![t] = @ + 1]
  /\ UNCHANGED <<inodemap, inodes, files, op, caller, copy, to, block, table, depth, dirty, lost>>

\* _free_double_indirect and _free_triple_indirect walk a list they have
\* allocated and never read from the disk: they free whatever it names.
Garbage == IF "garbage" \in Faults THEN SUBSET (Blocks \ {0}) ELSE {{}}

Inner(n, level) == {u[2] : u \in {v \in Uses(n) : v[1][1] = level /\ Len(v[1]) > 1}}

\* The pointer to the indirect blocks of one level.
UnlinkTable(t) ==
  /\ op[t] = "unlink" /\ pos[t] \in to[t]..(to[t] + 2)
  /\ LET level == pos[t] - to[t] + 1
         b == copy[t].ptr[Direct + level - 1]
     IN IF b = 0 THEN UNCHANGED <<blockmap, disk, lost>>
        ELSE \E G \in IF level = 1 THEN {{}} ELSE Garbage :
               /\ FreeBlocks(G \cup {b})
               /\ disk' = Forgotten(G \cup {b})
               /\ lost' = lost \cup (Inner(copy[t], level) \ G)
  /\ pos' = [pos EXCEPT ![t] = @ + 1]
  /\ UNCHANGED <<inodemap, inodes, files, op, caller, copy, to, block, table, depth, dirty>>

\* _free_inode returns for a reserved inode.  Nobody reads a free inode, and
\* create_file clears it.
UnlinkEnd(t) ==
  /\ op[t] = "unlink" /\ pos[t] = to[t] + 3
  /\ LET i == ino[t]
     IN IF i < FirstInode \/ i \notin imap
        THEN UNCHANGED inodemap
        ELSE /\ imap' = imap \ {i}
             /\ ifree' = [ifree EXCEPT ![InodeGroup[i]] = @ + 1]
             /\ sifree' = sifree + 1
  /\ Save(t, NoInode)
  /\ Ends(t)
  /\ UNCHANGED <<blockmap, disk, lost>>

-----------------------------------------------------------------------------
Step(t) ==
  \/ \E g \in GroupIds : Create(t, g)
  \/ CreateInit(t)
  \/ SaveRead(t)
  \/ \E i \in Inodes, r \in Ranges : Write(t, i, r)
  \/ WriteFound(t)
  \/ WriteAllocate(t)
  \/ WriteData(t)
  \/ WriteEnd(t)
  \/ SetRoot(t)
  \/ SetTable(t)
  \/ NoTable(t)
  \/ SetEntry(t)
  \/ \E i \in Inodes, s \in Sizes : Truncate(t, i, s)
  \/ Shrink(t)
  \/ Clear(t)
  \/ Grow(t)
  \/ TruncateEnd(t)
  \/ \E i \in Inodes : Unlink(t, i)
  \/ UnlinkBlock(t)
  \/ UnlinkTable(t)
  \/ UnlinkEnd(t)

Next == \E t \in Tasks : Step(t)

Spec == Init /\ [][Next]_vars

-----------------------------------------------------------------------------
(* Properties                                                              *)

Ops == {"user", "create", "write", "data", "root", "table", "shrink", "clear", "grow", "unlink"}
Word == {Junk, 0} \cup Blocks \cup {Tag(i, l) : i \in Inodes, l \in Logicals}
InodeType == [ptr : [Slots -> Blocks], size : 0..(MaxBlocks * Words)]

\* What is in each variable; in particular no free count goes below zero and
\* no size past the largest file.
TypeOK ==
  /\ bmap \subseteq Blocks /\ imap \subseteq Inodes /\ files \subseteq Inodes
  /\ bfree \in [GroupIds -> 0..BlocksPerGroup] /\ sbfree \in 0..(Groups * BlocksPerGroup)
  /\ ifree \in [GroupIds -> 0..InodesPerGroup] /\ sifree \in 0..(Groups * InodesPerGroup)
  /\ inodes \in [Inodes -> InodeType]
  /\ DOMAIN disk = Blocks /\ \A b \in Blocks : disk[b] \in [Entry -> Word]
  /\ op \in [Tasks -> Ops]
  /\ call \in [Tasks -> {"none", "create", "write", "truncate", "unlink"}]
  /\ ino \in [Tasks -> {0} \cup Inodes] /\ copy \in [Tasks -> InodeType]
  /\ pos \in [Tasks -> 0..(MaxBlocks * Words + 3)] /\ to \in [Tasks -> 0..(MaxBlocks * Words)]
  /\ block \in [Tasks -> Blocks] /\ table \in [Tasks -> Blocks] /\ depth \in [Tasks -> 0..2]
  /\ dirty \subseteq Tasks /\ calls \in 0..MaxCalls /\ lost \subseteq Blocks
  /\ DOMAIN image = Tasks
  /\ \A t \in Tasks : \A i \in DOMAIN image[t] : image[t][i] \in InodeType

\* The counts of the groups and of the superblock are the clear bits of the
\* bitmaps, whoever allocates and frees at the same time; so no group with a
\* free block is skipped, and an allocation fails only on a full volume, from
\* whatever group it starts.
CountsAgree ==
  /\ \A g \in GroupIds :
       /\ bfree[g] = Cardinality({b \in Blocks \ bmap : BlockGroup[b] = g})
       /\ ifree[g] = Cardinality({i \in Inodes \ imap : InodeGroup[i] = g})
       /\ FreeBlock(g) < 0 <=> bmap = Blocks
       /\ FreeInode(g) < 0 <=> imap = Inodes
  /\ sbfree = Cardinality(Blocks \ bmap)
  /\ sifree = Cardinality(Inodes \ imap)

\* A file as the driver sees it: the copy of the task that works on it, else
\* the inode.
At(i) == {t \in Tasks : ino[t] = i}
Current(i) == IF At(i) = {} THEN inodes[i] ELSE copy[CHOOSE t \in At(i) : TRUE]

\* The files with a name, and those being made.
Living == files \cup {ino[t] : t \in {u \in Tasks : call[u] = "create" /\ op[u] # "create"}}

\* A block that truncate_inode has just freed is still named by the file: that
\* role is not a use of it.
Freed(i) == {<<0, pos[t] - 1>> : t \in {u \in At(i) : op[u] = "clear"}}
Held(i) == {u \in Uses(Current(i)) : u[1] \notin Freed(i)}

\* No block has two roles: two files, two logical blocks of one file, or data
\* and an indirect block; and none of them is the rest of the volume's.
NotShared ==
  LET owned == UNION {{<<i>> \o u : u \in Held(i)} : i \in Living}
  IN /\ Cardinality(owned) = Cardinality({o[3] : o \in owned})
     /\ \A o \in owned : o[3] \notin TakenBlocks

\* The files truncate_inode is making shorter.
Shrinking == {ino[t] : t \in {u \in Tasks : op[u] \in {"shrink", "clear"}}}

\* A power failure at any moment leaves inodes that name only blocks marked
\* in use, and no block twice: a new block is marked before anything points
\* to it, and the name of a file is gone before its blocks are freed.  Only
\* the file that is just being made shorter is left with freed blocks.
CrashSafe ==
  LET owned == UNION {{<<i>> \o u : u \in Uses(inodes[i])} : i \in files \ Shrinking}
  IN /\ Cardinality(owned) = Cardinality({o[3] : o \in owned})
     /\ \A o \in owned : o[3] \in bmap

\* The blocks a task has allocated and not yet linked, or not yet freed.
Pending(t) ==
  (IF op[t] \in {"root", "table"} THEN {block[t]} ELSE {})
    \cup (IF op[t] = "unlink" THEN BlocksOf(copy[t]) ELSE {})

\* Every block marked in use belongs to a file or to a call under way, except
\* those the driver forgets when it runs out of space for an indirect block,
\* unlinks a file with double indirect blocks, or stores half of a size.  The
\* same holds for inodes.
NothingLeaks ==
  /\ bmap \subseteq TakenBlocks \cup lost
                \cup (UNION {{u[2] : u \in Held(i)} : i \in Living})
                \cup (UNION {Pending(t) : t \in Tasks})
  /\ imap \subseteq TakenInodes \cup files \cup {ino[t] : t \in Tasks}

\* A file nobody works on reads, in one piece, as what was written to it: each
\* word is the one written at that place of this file, or zero.  Never
\* another file's, an indirect block's, or what a freed block still held.
ReadsBack ==
  \A i \in files : At(i) = {} =>
    LET s == Load(inodes[i], 0, inodes[i].size)
    IN /\ Len(s) = inodes[i].size
       /\ \A k \in 1..Len(s) : s[k] \in {0, Tag(i, (k - 1) \div Words)}

=============================================================================
