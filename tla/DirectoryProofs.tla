-------------------------- MODULE DirectoryProofs --------------------------
(***************************************************************************)
(* One directory of a volume, for any number of tasks, names, inodes and   *)
(* blocks, when the calls in it do not race and every first match of a     *)
(* removal is a live entry (Faults = {}).  First what splitting and        *)
(* merging entries does to a block, then to the names of a directory, then *)
(* that what a call has read still holds when it writes.                   *)
(***************************************************************************)
EXTENDS Directory, FiniteSetTheorems, WellFoundedInduction, SequenceTheorems, TLAPS

-----------------------------------------------------------------------------
(* What a directory is.                                                    *)

\* Entry j of block b is a live one, of name n and inode i.
Sits(d, b, j, n, i) ==
  b \in 1..Len(d) /\ j \in 1..Len(d[b]) /\ d[b][j].name = n /\ d[b][j].ino = i /\ i # 0

\* The entries of k lie one behind the other from the start of the block to its end.
Tiled(k) ==
  \E off \in [1..(Len(k) + 1) -> 0..BlockUnits] :
    /\ off[1] = 0 /\ off[Len(k) + 1] = BlockUnits
    /\ \A j \in 1..Len(k) :
         off[j + 1] = off[j] + k[j].size /\ k[j].size >= Used(k[j].name) /\ off[j] >= j - 1

\* A directory: blocks that are full of entries.
Shaped(d) ==
  /\ d \in Seq(Seq(Entries)) /\ Len(d) \in 1..MaxBlocks
  /\ \A b \in 1..Len(d) : Len(d[b]) > 0 /\ Tiled(d[b])

\* A name has one live entry, an inode one name, and the inode is in use.
Single(d, U) ==
  /\ \A b, c, j, k \in Nat, n, m \in Names, i, l \in Nat :
       Sits(d, b, j, n, i) /\ Sits(d, c, k, m, l) /\ (n = m \/ i = l) => b = c /\ j = k
  /\ \A b, j \in Nat, n \in Names, i \in Nat : Sits(d, b, j, n, i) => i \in U

-----------------------------------------------------------------------------
(* Constants and entries.                                                  *)

\* What the assumption on the constants says, in parts.
LEMMA Constants ==
  /\ Inodes \subseteq Nat /\ 0 \notin Inodes /\ Here \in Nat /\ Here # 0
  /\ BlockUnits \in Nat /\ BlockUnits >= 6 /\ MaxBlocks \in Nat /\ MaxBlocks > 0 /\ None \notin Tasks
  /\ "." \notin Names /\ ".." \notin Names
BY DirectoryAssumption DEF Here

\* real_used_size: an entry for a name takes three units at least and fits a block.
LEMMA UsedIs ==
  ASSUME NEW n \in Names \cup {".", ".."}
  PROVE  Used(n) \in Nat /\ Used(n) >= 3 /\ Used(n) <= BlockUnits
<1>1. CASE n \in {".", ".."}
  BY <1>1, Constants DEF Used
<1>2. CASE n \in Names
  <2>1. NameLen[n] \in 1..255 /\ (8 + NameLen[n] + 3) \div 4 <= BlockUnits /\ n \notin {".", ".."}
    BY <1>2, DirectoryAssumption
  <2>2. Used(n) = (8 + NameLen[n] + 3) \div 4
    BY <2>1 DEF Used
  <2>3. PICK l \in 1..255 : l = NameLen[n]
    BY <2>1
  <2>4. (8 + l + 3) \div 4 \in Nat /\ (8 + l + 3) \div 4 >= 3
    OBVIOUS
  <2> QED
    BY <2>1, <2>2, <2>3, <2>4
<1> QED
  BY <1>1, <1>2

\* Inode numbers and sizes are numbers.
LEMMA InoIs ==
  ASSUME NEW x \in {0, Here} \cup Inodes
  PROVE  x \in Nat
BY Constants

\* A size is a number of units of a block.
LEMMA SizeIs ==
  ASSUME NEW x \in 1..BlockUnits
  PROVE  x \in Nat /\ x >= 1 /\ x <= BlockUnits
BY Constants

\* The fields of an entry.
LEMMA EntryIs ==
  ASSUME NEW e \in Entries
  PROVE  /\ e.ino \in Nat /\ e.ino \in {0, Here} \cup Inodes /\ e.name \in Names \cup {".", ".."}
         /\ e.size \in 1..BlockUnits /\ e.size \in Nat /\ e.size >= 1 /\ e.size <= BlockUnits
<1>1. e.ino \in {0, Here} \cup Inodes /\ e.name \in Names \cup {".", ".."} /\ e.size \in 1..BlockUnits
  BY DEF Entries
<1>2. e.ino \in Nat
  BY <1>1, InoIs, Zenon
<1>3. e.size \in Nat /\ e.size >= 1 /\ e.size <= BlockUnits
  BY <1>1, SizeIs, Zenon
<1> QED
  BY <1>1, <1>2, <1>3, Zenon

\* What Entry and EXCEPT make of entries.
LEMMA MakesEntry ==
  ASSUME NEW i \in {0, Here} \cup Inodes, NEW n \in Names \cup {".", ".."}, NEW s \in 1..BlockUnits
  PROVE  /\ Entry(i, n, s) \in Entries
         /\ Entry(i, n, s).ino = i /\ Entry(i, n, s).name = n /\ Entry(i, n, s).size = s
BY DEF Entries, Entry

\* An entry whose entry_size is set keeps its name and inode.
LEMMA Resized ==
  ASSUME NEW e \in Entries, NEW s \in 1..BlockUnits
  PROVE  [e EXCEPT !.size = s] \in Entries /\ [e EXCEPT !.size = s].name = e.name
         /\ [e EXCEPT !.size = s].ino = e.ino /\ [e EXCEPT !.size = s].size = s
BY DEF Entries

\* An entry whose inode is set to 0 keeps its name and size.
LEMMA Cleared ==
  ASSUME NEW e \in Entries
  PROVE  [e EXCEPT !.ino = 0] \in Entries /\ [e EXCEPT !.ino = 0].name = e.name
         /\ [e EXCEPT !.ino = 0].ino = 0 /\ [e EXCEPT !.ino = 0].size = e.size
BY DEF Entries

\* The offsets of Tiled, named.
Offsets(k, off) ==
  /\ off \in [1..(Len(k) + 1) -> 0..BlockUnits]
  /\ off[1] = 0 /\ off[Len(k) + 1] = BlockUnits
  /\ \A j \in 1..Len(k) :
         off[j + 1] = off[j] + k[j].size /\ k[j].size >= Used(k[j].name) /\ off[j] >= j - 1

\* Tiled by its offsets.
LEMMA TiledIs == ASSUME NEW k PROVE Tiled(k) <=> \E off : Offsets(k, off)
BY DEF Tiled, Offsets

\* A block holds no more entries than units.
LEMMA TiledShort ==
  ASSUME NEW k \in Seq(Entries), Len(k) > 0, Tiled(k)
  PROVE  Len(k) <= BlockUnits
<1>1. PICK off : Offsets(k, off)
  BY TiledIs
<1>2. PICK l \in Nat : l = Len(k) /\ l > 0
  OBVIOUS
<1>0. l \in 1..l /\ l \in 1..(l + 1) /\ l + 1 \in 1..(l + 1)
  BY <1>2
<1>3. off[l] >= l - 1 /\ off[l + 1] = off[l] + k[l].size /\ off[l + 1] = BlockUnits /\ off[l] \in 0..BlockUnits
  BY <1>0, <1>1, <1>2 DEF Offsets
<1>4. k[l] \in Entries
  BY <1>0, <1>2
<1>5. PICK s \in Nat : s = k[l].size /\ s >= 1
  BY <1>4, EntryIs
<1>6. PICK o \in Nat : o = off[l]
  BY <1>3, Constants
<1> QED
  BY <1>2, <1>3, <1>5, <1>6, Constants

-----------------------------------------------------------------------------
(* Blocks.                                                                 *)

\* Sequences with one element changed, or one more.
LEMMA PutIs ==
  ASSUME NEW S, NEW k \in Seq(S), NEW l \in 1..Len(k), NEW f \in S, NEW r, r = [k EXCEPT ![l] = f]
  PROVE  r \in Seq(S) /\ Len(r) = Len(k) /\ r[l] = f /\ \A j \in 1..Len(k) : j # l => r[j] = k[j]
OBVIOUS

\* One more element behind the last one.
LEMMA AppendIs ==
  ASSUME NEW S, NEW k \in Seq(S), NEW f \in S, NEW r, r = Append(k, f)
  PROVE  /\ r \in Seq(S) /\ Len(r) = Len(k) + 1 /\ r[Len(k) + 1] = f
         /\ \A j \in 1..Len(k) : r[j] = k[j]
OBVIOUS

\* A sequence of one element.
LEMMA OneIs ==
  ASSUME NEW S, NEW f \in S
  PROVE  <<f>> \in Seq(S) /\ Len(<<f>>) = 1 /\ <<f>>[1] = f
OBVIOUS

\* The split of directory_add_entry: the old entries stay, the new one is the last,
\* and the block is full as before.
LEMMA SplitIs ==
  ASSUME NEW k \in Seq(Entries), Len(k) > 0, Tiled(k), NEW n \in Names, NEW i \in Inodes, HasRoom(k, n)
  PROVE  /\ Split(k, i, n) \in Seq(Entries) /\ Len(Split(k, i, n)) = Len(k) + 1
         /\ \A j \in 1..Len(k) : Split(k, i, n)[j].name = k[j].name /\ Split(k, i, n)[j].ino = k[j].ino
         /\ Split(k, i, n)[Len(k) + 1].name = n /\ Split(k, i, n)[Len(k) + 1].ino = i
         /\ Tiled(Split(k, i, n))
<1>1. PICK l \in Nat : l = Len(k) /\ l > 0
  OBVIOUS
<1>00. BlockUnits \in Nat
  BY Constants
<1>0. l \in 1..l /\ Last(k) = k[l] /\ k[l] \in Entries
  BY <1>1 DEF Last
<1>2. PICK e \in Entries : e = k[l] /\ e = Last(k)
  BY <1>0
<1>3. PICK u \in Nat : u = Used(e.name) /\ u >= 3 /\ u <= BlockUnits
  BY EntryIs, UsedIs
<1>4. PICK s \in Nat : s = e.size /\ s <= BlockUnits
  BY EntryIs
<1>5. PICK v \in Nat : v = Used(n) /\ v >= 3 /\ s - u >= v
  BY <1>2, <1>3, <1>4, UsedIs DEF HasRoom, Slack
<1>6. PICK f \in Entries : f.name = e.name /\ f.ino = e.ino /\ f.size = u /\ f = [e EXCEPT !.size = u]
  <2>1. u \in 1..BlockUnits
    BY <1>3, Constants
  <2> QED
    BY <2>1, Resized
<1>7. PICK g \in Entries : g = Entry(i, n, s - u) /\ g.name = n /\ g.ino = i /\ g.size = s - u
  <2>1. PICK w \in 1..BlockUnits : w = s - u
    BY <1>00, <1>3, <1>4, <1>5
  <2>2. n \in Names \cup {".", ".."} /\ i \in {0, Here} \cup Inodes
    OBVIOUS
  <2> QED
    BY <2>1, <2>2, MakesEntry
<1>8. PICK k1 : k1 = [k EXCEPT ![l] = f]
  OBVIOUS
<1>9. Split(k, i, n) = Append(k1, g)
  BY <1>1, <1>2, <1>3, <1>4, <1>6, <1>7, <1>8 DEF Split, Slack
<1>10. PICK r : r = Append(k1, g)
  OBVIOUS
<1>81. l \in 1..Len(k)
  BY <1>0, <1>1
<1>82. k1 \in Seq(Entries) /\ Len(k1) = Len(k) /\ k1[l] = f /\ \A j \in 1..Len(k) : j # l => k1[j] = k[j]
  BY <1>8, <1>81, PutIs
<1>83. /\ r \in Seq(Entries) /\ Len(r) = Len(k1) + 1 /\ r[Len(k1) + 1] = g
       /\ \A j \in 1..Len(k1) : r[j] = k1[j]
  BY <1>10, <1>82, AppendIs
<1>11. Len(k1) = l /\ Len(r) = l + 1 /\ r[l + 1] = g /\ \A j \in 1..l : r[j] = k1[j]
  BY <1>1, <1>82, <1>83
<1>12. r[l] = f /\ \A j \in 1..(l - 1) : r[j] = k[j]
  BY <1>0, <1>1, <1>82, <1>11
<1>13. \A j \in 1..l : r[j].name = k[j].name /\ r[j].ino = k[j].ino
  <2> SUFFICES ASSUME NEW j \in 1..l PROVE r[j].name = k[j].name /\ r[j].ino = k[j].ino
    OBVIOUS
  <2>1. CASE j = l
    BY <1>2, <1>6, <1>12, <2>1
  <2>2. CASE j # l
    <3>1. r[j] = k[j]
      BY <1>1, <1>12, <2>2
    <3> QED
      BY <3>1
  <2> QED
    BY <2>1, <2>2
<1>14. PICK off : Offsets(k, off)
  BY TiledIs
<1>15. /\ off \in [1..(l + 1) -> 0..BlockUnits] /\ off[1] = 0 /\ off[l + 1] = BlockUnits
       /\ \A j \in 1..l : off[j + 1] = off[j] + k[j].size /\ k[j].size >= Used(k[j].name) /\ off[j] >= j - 1
  BY <1>1, <1>14 DEF Offsets
<1>16. PICK o \in Nat : o = off[l] /\ o >= l - 1 /\ o + s = BlockUnits
  <2>1. off[l] \in 0..BlockUnits /\ off[l] >= l - 1 /\ off[l + 1] = off[l] + s
    BY <1>0, <1>1, <1>2, <1>4, <1>15
  <2> QED
    BY <1>15, <2>1, Constants
<1>17. PICK off1 : off1 = [j \in 1..(l + 2) |-> IF j <= l THEN off[j] ELSE IF j = l + 1 THEN o + u ELSE BlockUnits]
  OBVIOUS
<1>18. off1 \in [1..(l + 2) -> 0..BlockUnits]
  <2> SUFFICES ASSUME NEW j \in 1..(l + 2) PROVE off1[j] \in 0..BlockUnits
    BY <1>17
  <2>1. CASE j <= l
    <3>1. j \in 1..(l + 1) /\ off1[j] = off[j]
      BY <1>1, <1>17, <2>1
    <3> QED
      BY <1>15, <3>1
  <2>2. CASE j = l + 1
    <3>1. off1[j] = o + u
      BY <1>1, <1>17, <2>2
    <3> QED
      BY <1>00, <1>3, <1>4, <1>5, <1>16, <3>1, SMTT(30)
  <2>3. CASE j = l + 2
    <3>1. off1[j] = BlockUnits
      BY <1>1, <1>17, <2>3
    <3> QED
      BY <3>1, Constants
  <2> QED
    BY <1>1, <2>1, <2>2, <2>3
<1>19. off1[1] = 0 /\ off1[l + 2] = BlockUnits /\ off1[l + 1] = o + u /\ \A j \in 1..l : off1[j] = off[j]
  BY <1>1, <1>15, <1>17
<1>20. ASSUME NEW j \in 1..(l + 1)
       PROVE  off1[j + 1] = off1[j] + r[j].size /\ r[j].size >= Used(r[j].name) /\ off1[j] >= j - 1
  <2>1. CASE j < l
    <3>1. j \in 1..l /\ j + 1 \in 1..l /\ r[j] = k[j]
      BY <1>1, <1>12, <2>1
    <3> QED
      BY <1>15, <1>19, <3>1
  <2>2. CASE j = l
    <3>1. r[j].size = u /\ r[j].name = e.name /\ off1[j] = o /\ off1[j + 1] = o + u
      BY <1>0, <1>1, <1>6, <1>12, <1>16, <1>19, <2>2
    <3> QED
      BY <1>3, <1>16, <2>2, <3>1
  <2>3. CASE j = l + 1
    <3>1. r[j].size = s - u /\ r[j].name = n /\ off1[j] = o + u /\ off1[j + 1] = BlockUnits
      BY <1>1, <1>7, <1>11, <1>19, <2>3
    <3> QED
      <4>1. u + (s - u) = s /\ o + u + (s - u) = BlockUnits
        BY <1>00, <1>3, <1>4, <1>16
      <4>2. o + u >= l
        BY <1>3, <1>16
      <4> QED
        BY <1>1, <1>3, <1>4, <1>5, <1>16, <2>3, <3>1, <4>1, <4>2
  <2> QED
    BY <1>1, <2>1, <2>2, <2>3
<1>21. Offsets(r, off1)
  BY <1>1, <1>11, <1>18, <1>19, <1>20 DEF Offsets
<1>22. Tiled(r)
  BY <1>21, TiledIs
<1> QED
  BY <1>1, <1>7, <1>9, <1>10, <1>11, <1>13, <1>22, <1>83

\* The entry of a new block fills it.
LEMMA NewBlockIs ==
  ASSUME NEW n \in Names, NEW i \in Inodes
  PROVE  /\ <<Entry(i, n, BlockUnits)>> \in Seq(Entries) /\ Len(<<Entry(i, n, BlockUnits)>>) = 1
         /\ <<Entry(i, n, BlockUnits)>>[1].name = n /\ <<Entry(i, n, BlockUnits)>>[1].ino = i
         /\ Tiled(<<Entry(i, n, BlockUnits)>>)
<1>1. PICK g \in Entries : g = Entry(i, n, BlockUnits) /\ g.name = n /\ g.ino = i /\ g.size = BlockUnits
  BY MakesEntry, Constants
<1>2. PICK off : off = [j \in 1..2 |-> IF j = 1 THEN 0 ELSE BlockUnits]
  OBVIOUS
<1>3. off \in [1..2 -> 0..BlockUnits] /\ off[1] = 0 /\ off[2] = BlockUnits
  BY <1>2, Constants
<1>4. Used(n) <= BlockUnits
  BY UsedIs
<1>5. PICK r \in Seq(Entries) : r = <<g>> /\ Len(r) = 1 /\ r[1] = g
  BY OneIs
<1>6. Offsets(r, off)
  <2> SUFFICES ASSUME NEW j \in 1..1
               PROVE  off[j + 1] = off[j] + r[j].size /\ r[j].size >= Used(r[j].name) /\ off[j] >= j - 1
    BY <1>3, <1>5 DEF Offsets
  <2>1. j = 1
    OBVIOUS
  <2> QED
    BY <1>1, <1>3, <1>4, <1>5, <2>1, Constants
<1>7. Tiled(r)
  BY <1>6, TiledIs
<1> QED
  BY <1>1, <1>5, <1>7

\* What RemoveAt makes.
LEMMA RemoveAtIs ==
  ASSUME NEW k \in Seq(Entries), NEW j \in 1..Len(k), NEW r, r = RemoveAt(k, j)
  PROVE  /\ r \in Seq(Entries) /\ Len(r) = Len(k) - 1
         /\ \A m \in 1..(Len(k) - 1) : r[m] = IF m < j THEN k[m] ELSE k[m + 1]
<1>1. PICK l \in Nat : l = Len(k) /\ j \in 1..l
  OBVIOUS
<1>2. PICK a : a = SubSeq(k, 1, j - 1)
  OBVIOUS
<1>3. PICK b : b = SubSeq(k, j + 1, l)
  OBVIOUS
<1>4. r = a \o b
  BY <1>1, <1>2, <1>3 DEF RemoveAt
<1>5. a \in Seq(Entries) /\ Len(a) = j - 1 /\ \A m \in 1..(j - 1) : a[m] = k[m]
  BY <1>1, <1>2
<1>6. b \in Seq(Entries) /\ Len(b) = l - j /\ \A m \in 1..(l - j) : b[m] = k[j + m]
  BY <1>1, <1>3
<1>7. r \in Seq(Entries) /\ Len(r) = l - 1 /\ (\A m \in 1..(j - 1) : r[m] = a[m])
      /\ \A m \in j..(l - 1) : r[m] = b[m - (j - 1)]
  BY <1>1, <1>4, <1>5, <1>6
<1>8. ASSUME NEW m \in 1..(l - 1) PROVE r[m] = IF m < j THEN k[m] ELSE k[m + 1]
  <2>1. CASE m < j
    BY <1>1, <1>5, <1>7, <2>1
  <2>2. CASE ~(m < j)
    <3>1. m \in j..(l - 1) /\ m - (j - 1) \in 1..(l - j) /\ j + (m - (j - 1)) = m + 1
      BY <1>1, <2>2
    <3>2. r[m] = b[m - (j - 1)] /\ b[m - (j - 1)] = k[j + (m - (j - 1))]
      BY <1>6, <1>7, <3>1
    <3> QED
      BY <2>2, <3>1, <3>2
  <2> QED
    BY <2>1, <2>2
<1> QED
  BY <1>1, <1>7, <1>8

\* The first entry of a block stays as a dead one.
LEMMA RemovedFirst ==
  ASSUME NEW k \in Seq(Entries), Len(k) > 0, Tiled(k), NEW r, r = Removed(k, 1)
  PROVE  /\ r \in Seq(Entries) /\ Len(r) = Len(k) /\ r[1].ino = 0 /\ Tiled(r)
         /\ \A m \in 2..Len(k) : r[m] = k[m]
<1>1. PICK l \in Nat : l = Len(k) /\ l > 0 /\ 1 \in 1..l
  OBVIOUS
<1>2. PICK e \in Entries : e = k[1]
  BY <1>1
<1>3. PICK f \in Entries : f = [e EXCEPT !.ino = 0] /\ f.ino = 0 /\ f.name = e.name /\ f.size = e.size
  BY Cleared
<1>4. r = [k EXCEPT ![1] = f]
  BY <1>2, <1>3 DEF Removed
<1>5. r \in Seq(Entries) /\ Len(r) = Len(k) /\ r[1] = f /\ \A m \in 1..Len(k) : m # 1 => r[m] = k[m]
  BY <1>1, <1>4, PutIs
<1>6. PICK off : Offsets(k, off)
  BY TiledIs
<1>7. ASSUME NEW m \in 1..l PROVE r[m].size = k[m].size /\ r[m].name = k[m].name
  <2>1. CASE m = 1
    BY <1>2, <1>3, <1>5, <2>1
  <2>2. CASE m # 1
    BY <1>1, <1>5, <2>2
  <2> QED
    BY <2>1, <2>2
<1>8. Offsets(r, off)
  BY <1>1, <1>5, <1>6, <1>7 DEF Offsets
<1> QED
  <2>1. \A m \in 2..Len(k) : r[m] = k[m]
    BY <1>1, <1>5
  <2>2. Tiled(r)
    BY <1>8, TiledIs
  <2> QED
    BY <1>3, <1>5, <2>1, <2>2

\* Where entry m of a block was before entry j was removed.
After(j, m) == IF m < j THEN m ELSE m + 1

\* The space of two entries that fit a block.
LEMMA SumFits ==
  ASSUME NEW o \in Nat, NEW s \in Nat, NEW w \in Nat, NEW u \in Nat, s >= 1, o + s + w <= u
  PROVE  s + w \in 1..u
OBVIOUS

\* Another entry goes, and the one before it takes its space.
LEMMA RemovedLater ==
  ASSUME NEW k \in Seq(Entries), Len(k) > 0, Tiled(k), NEW j \in 2..Len(k), NEW r, r = Removed(k, j)
  PROVE  /\ r \in Seq(Entries) /\ Len(r) = Len(k) - 1 /\ Tiled(r)
         /\ \A m \in 1..(Len(k) - 1) :
              r[m].name = k[After(j, m)].name /\ r[m].ino = k[After(j, m)].ino
<1>1. PICK l \in Nat : l = Len(k) /\ j \in 2..l /\ j \in 1..l /\ j - 1 \in 1..l /\ j # 1
  OBVIOUS
<1>2. PICK e \in Entries : e = k[j - 1]
  BY <1>1
<1>3. PICK d \in Entries : d = k[j]
  BY <1>1
<1>4. PICK s \in Nat, w \in Nat : s = e.size /\ w = d.size /\ s >= 1
  BY EntryIs
<1>5. PICK off : Offsets(k, off)
  BY TiledIs
<1>6. /\ off \in [1..(l + 1) -> 0..BlockUnits] /\ off[1] = 0 /\ off[l + 1] = BlockUnits
      /\ \A m \in 1..l : off[m + 1] = off[m] + k[m].size /\ k[m].size >= Used(k[m].name) /\ off[m] >= m - 1
  BY <1>1, <1>5 DEF Offsets
<1>7. BlockUnits \in Nat
  BY Constants
<1>8. PICK o \in Nat : o = off[j - 1] /\ o + s + w <= BlockUnits /\ off[j + 1] = o + s + w /\ o >= j - 2
                      /\ s >= Used(e.name)
  <2>1. off[j - 1] \in 0..BlockUnits /\ off[j + 1] \in 0..BlockUnits
    <3>1. j - 1 \in 1..(l + 1) /\ j + 1 \in 1..(l + 1)
      BY <1>1
    <3> QED
      BY <1>6, <3>1
  <2>2. off[j] = off[j - 1] + s /\ off[j + 1] = off[j] + w /\ off[j - 1] >= j - 2 /\ s >= Used(e.name)
    <3>1. (j - 1) + 1 = j /\ (j - 1) - 1 = j - 2
      BY <1>1
    <3> QED
      BY <1>1, <1>2, <1>3, <1>4, <1>6, <3>1
  <2>3. PICK o \in Nat, q \in Nat : o = off[j - 1] /\ q = off[j + 1] /\ q <= BlockUnits
    BY <1>7, <2>1
  <2>4. q = o + s + w
    BY <2>2, <2>3
  <2> QED
    BY <1>4, <2>2, <2>3, <2>4
<1>9. PICK z \in 1..BlockUnits : z = s + w
  <2>1. s + w \in 1..BlockUnits
    <3>1. o + s + w <= BlockUnits
      BY <1>8
    <3>2. s >= 1
      BY <1>4
    <3> QED
      BY <1>7, <3>1, <3>2, SumFits
  <2> QED
    BY <2>1
<1>10. PICK f \in Entries : f = [e EXCEPT !.size = z] /\ f.size = z /\ f.name = e.name /\ f.ino = e.ino
  BY Resized
<1>11. PICK k1 : k1 = [k EXCEPT ![j - 1] = f]
  OBVIOUS
<1>12. r = RemoveAt(k1, j)
  BY <1>1, <1>2, <1>3, <1>4, <1>9, <1>10, <1>11 DEF Removed
<1>13. k1 \in Seq(Entries) /\ Len(k1) = l /\ k1[j - 1] = f /\ \A m \in 1..l : m # j - 1 => k1[m] = k[m]
  BY <1>1, <1>11, PutIs
<1>14. /\ r \in Seq(Entries) /\ Len(r) = l - 1
       /\ \A m \in 1..(l - 1) : r[m] = IF m < j THEN k1[m] ELSE k1[m + 1]
  <2>1. j \in 1..Len(k1)
    BY <1>1, <1>13
  <2> QED
    <3>1. /\ r \in Seq(Entries) /\ Len(r) = Len(k1) - 1
          /\ \A m \in 1..(Len(k1) - 1) : r[m] = IF m < j THEN k1[m] ELSE k1[m + 1]
      BY <1>12, <1>13, <2>1, RemoveAtIs
    <3> QED
      BY <1>13, <3>1
<1>15. ASSUME NEW m \in 1..(l - 1)
       PROVE  /\ m = j - 1 => r[m] = f
              /\ m < j - 1 => r[m] = k[m]
              /\ m >= j => r[m] = k[m + 1]
  BY <1>1, <1>13, <1>14
<1>16. ASSUME NEW m \in 1..(l - 1)
       PROVE  r[m].name = k[After(j, m)].name /\ r[m].ino = k[After(j, m)].ino
  <2>1. CASE m < j - 1
    BY <1>1, <1>15, <2>1 DEF After
  <2>2. CASE m = j - 1
    <3>1. m < j /\ r[m] = f /\ k[m] = e
      BY <1>1, <1>2, <1>15, <2>2
    <3> QED
      BY <1>10, <3>1 DEF After
  <2>3. CASE m >= j
    BY <1>1, <1>15, <2>3 DEF After
  <2> QED
    BY <1>1, <2>1, <2>2, <2>3
<1>17. PICK off1 : off1 = [m \in 1..l |-> IF m < j THEN off[m] ELSE off[m + 1]]
  OBVIOUS
<1>18. off1 \in [1..l -> 0..BlockUnits] /\ off1[1] = 0 /\ off1[l] = BlockUnits
  BY <1>1, <1>6, <1>17
<1>19. ASSUME NEW m \in 1..(l - 1)
       PROVE  off1[m + 1] = off1[m] + r[m].size /\ r[m].size >= Used(r[m].name) /\ off1[m] >= m - 1
  <2>1. m \in 1..l /\ m + 1 \in 1..l /\ m + 1 \in 1..(l + 1)
    BY <1>1
  <2>2. CASE m < j - 1
    BY <1>1, <1>6, <1>15, <1>17, <2>1, <2>2
  <2>3. CASE m = j - 1
    <3>1. off1[m] = o /\ off1[m + 1] = off[j + 1] /\ r[m] = f
      BY <1>1, <1>8, <1>15, <1>17, <2>1, <2>3
    <3>2. PICK x \in Nat : x = Used(e.name)
      BY EntryIs, UsedIs
    <3> QED
      <4>1. r[m].size = s + w /\ r[m].name = e.name
        BY <1>9, <1>10, <3>1
      <4>2. s + w >= x
        BY <1>4, <1>8, <3>2
      <4>3. off1[m + 1] = o + (s + w) /\ o >= m - 1
        BY <1>1, <1>4, <1>8, <2>3, <3>1
      <4> QED
        BY <3>1, <3>2, <4>1, <4>2, <4>3
  <2>4. CASE m >= j
    <3>1. off1[m] = off[m + 1] /\ off1[m + 1] = off[m + 1 + 1] /\ r[m] = k[m + 1]
      BY <1>1, <1>15, <1>17, <2>1, <2>4
    <3>2. off[m + 1 + 1] = off[m + 1] + k[m + 1].size /\ k[m + 1].size >= Used(k[m + 1].name) /\ off[m + 1] >= m
      BY <1>1, <1>6, <2>1
    <3>3. off[m + 1] \in Nat
      BY <1>6, <1>7, <2>1
    <3> QED
      BY <1>1, <3>1, <3>2, <3>3
  <2> QED
    BY <1>1, <2>2, <2>3, <2>4
<1>20. Offsets(r, off1)
  BY <1>1, <1>14, <1>18, <1>19 DEF Offsets
<1> QED
  BY <1>1, <1>14, <1>16, <1>20, TiledIs

-----------------------------------------------------------------------------
(* Directories.                                                            *)

\* A set of numbers has a least one.
LEMMA LeastOf ==
  ASSUME NEW S \in SUBSET Nat, S # {}
  PROVE  \E m \in S : \A x \in S : m <= x
<1>1. PICK m \in S : \A x \in S : <<x, m>> \notin OpToRel(<, Nat)
  BY NatLessThanWellFounded, WFMin
<1>2. \A x \in S : ~(x < m)
  BY <1>1 DEF OpToRel
<1> QED
  BY <1>2

\* The blocks of a directory.
LEMMA ShapedIs ==
  ASSUME NEW d, Shaped(d), NEW b \in 1..Len(d)
  PROVE  /\ d \in Seq(Seq(Entries)) /\ Len(d) \in Nat /\ Len(d) >= 1 /\ Len(d) <= MaxBlocks
         /\ d[b] \in Seq(Entries) /\ Len(d[b]) \in Nat /\ Len(d[b]) > 0 /\ Len(d[b]) <= BlockUnits /\ Tiled(d[b])
<1>1. d \in Seq(Seq(Entries)) /\ Len(d[b]) > 0 /\ Tiled(d[b])
  BY DEF Shaped
<1>2. d[b] \in Seq(Entries) /\ Len(d) \in Nat /\ Len(d) >= 1
  BY <1>1
<1>3. Len(d[b]) <= BlockUnits
  BY <1>1, <1>2, TiledShort
<1>4. Len(d) <= MaxBlocks
  BY Constants DEF Shaped
<1> QED
  BY <1>1, <1>2, <1>3, <1>4

\* Place: a block with room, or a new one.
LEMMA PlaceIs ==
  ASSUME NEW d, Shaped(d), NEW n \in Names
  PROVE  \/ Place(d, n) = Len(d) + 1
         \/ Place(d, n) \in 1..Len(d) /\ HasRoom(d[Place(d, n)], n)
<1>1. PICK R : R = {b \in DOMAIN d : HasRoom(d[b], n)}
  OBVIOUS
<1>2. Place(d, n) = IF R = {} THEN Len(d) + 1 ELSE CHOOSE b \in R : \A c \in R : b <= c
  BY <1>1 DEF Place
<1>3. DOMAIN d = 1..Len(d) /\ Len(d) \in Nat
  BY DEF Shaped
<1>4. CASE R # {}
  <2>1. R \in SUBSET Nat
    BY <1>1, <1>3
  <2>2. \E b \in R : \A c \in R : b <= c
    BY <1>4, <2>1, LeastOf
  <2>3. Place(d, n) \in R
    BY <1>2, <1>4, <2>2
  <2> QED
    BY <1>1, <1>3, <2>3
<1> QED
  BY <1>2, <1>4

\* FirstMatch: an entry of that name, if there is one.
LEMMA FirstMatchIs ==
  ASSUME NEW d, Shaped(d), NEW n, Matches(d, n) # {}
  PROVE  /\ FirstMatch(d, n)[1] \in 1..Len(d) /\ FirstMatch(d, n)[2] \in 1..Len(d[FirstMatch(d, n)[1]])
         /\ d[FirstMatch(d, n)[1]][FirstMatch(d, n)[2]].name = n
<1>1. DOMAIN d = 1..Len(d) /\ Len(d) \in Nat
  BY DEF Shaped
<1>2. PICK M : M = Matches(d, n)
  OBVIOUS
<1>3. \A p \in M : /\ p = <<p[1], p[2]>> /\ p[1] \in 1..Len(d) /\ p[2] \in 1..BlockUnits
                   /\ p[2] <= Len(d[p[1]]) /\ d[p[1]][p[2]].name = n
  BY <1>1, <1>2 DEF Matches
<1>4. PICK B : B = {p[1] : p \in M}
  OBVIOUS
<1>5. PICK b \in B : \A c \in B : b <= c
  <2>1. B \in SUBSET Nat /\ B # {}
    BY <1>2, <1>3, <1>4
  <2> QED
    BY <2>1, LeastOf
<1>6. PICK J : J = {p[2] : p \in {q \in M : q[1] = b}}
  OBVIOUS
<1>7. PICK j \in J : \A i \in J : j <= i
  <2>1. J \in SUBSET Nat /\ J # {}
    BY <1>3, <1>4, <1>5, <1>6, Constants
  <2> QED
    BY <2>1, LeastOf
<1>8. <<b, j>> \in M
  BY <1>3, <1>6, <1>7
<1>9. \A q \in M : b < q[1] \/ (b = q[1] /\ j <= q[2])
  <2> SUFFICES ASSUME NEW q \in M PROVE b < q[1] \/ (b = q[1] /\ j <= q[2])
    OBVIOUS
  <2>1. q[1] \in B /\ q[1] \in Nat /\ b \in Nat
    BY <1>1, <1>3, <1>4, <1>8
  <2>2. b <= q[1]
    BY <1>5, <2>1
  <2>3. CASE b = q[1]
    BY <1>6, <1>7, <2>3
  <2> QED
    BY <2>1, <2>2, <2>3
<1>10. FirstMatch(d, n) \in M
  <2>1. \E p \in M : \A q \in M : p[1] < q[1] \/ (p[1] = q[1] /\ p[2] <= q[2])
    BY <1>8, <1>9
  <2>2. FirstMatch(d, n) = CHOOSE p \in M : \A q \in M : p[1] < q[1] \/ (p[1] = q[1] /\ p[2] <= q[2])
    BY <1>2 DEF FirstMatch
  <2> QED
    BY <2>1, <2>2
<1>11. PICK p \in M : p = FirstMatch(d, n)
  BY <1>10
<1>12. p[1] \in 1..Len(d) /\ p[2] \in 1..BlockUnits /\ p[2] <= Len(d[p[1]]) /\ d[p[1]][p[2]].name = n
  BY <1>3
<1>13. Len(d[p[1]]) \in Nat
  BY <1>12, ShapedIs
<1>14. p[2] \in 1..Len(d[p[1]])
  BY <1>12, <1>13, Constants
<1> QED
  BY <1>11, <1>12, <1>14

\* An entry that there is, is found.
LEMMA MatchesIs ==
  ASSUME NEW d, Shaped(d), NEW n, NEW b \in 1..Len(d), NEW j \in 1..Len(d[b]), d[b][j].name = n
  PROVE  Matches(d, n) # {}
<1>1. DOMAIN d = 1..Len(d)
  BY DEF Shaped
<1>2. j \in 1..BlockUnits /\ j <= Len(d[b])
  BY ShapedIs, Constants
<1>3. <<b, j>> \in Matches(d, n)
  BY <1>1, <1>2 DEF Matches
<1> QED
  BY <1>3

\* Live, entry by entry.
LEMMA LiveIs ==
  ASSUME NEW d, Shaped(d)
  PROVE  /\ \A n, i : <<n, i>> \in Live(d) <=> \E b, j \in Nat : Sits(d, b, j, n, i)
         /\ \A x \in Live(d) : x = <<x[1], x[2]>>
<1>1. DOMAIN d = 1..Len(d) /\ d \in Seq(Seq(Entries))
  BY DEF Shaped
<1>2. \A b \in 1..Len(d) : Range(d[b]) = {d[b][j] : j \in 1..Len(d[b])}
  <2> SUFFICES ASSUME NEW b \in 1..Len(d) PROVE Range(d[b]) = {d[b][j] : j \in 1..Len(d[b])}
    OBVIOUS
  <2>1. d[b] \in Seq(Entries)
    BY ShapedIs
  <2>2. DOMAIN d[b] = 1..Len(d[b])
    BY <2>1
  <2> QED
    BY <2>2 DEF Range
<1>3. \A e : e \in UNION {Range(d[b]) : b \in DOMAIN d} <=> \E b \in 1..Len(d) : \E j \in 1..Len(d[b]) : e = d[b][j]
  <2> SUFFICES ASSUME NEW e
               PROVE  e \in UNION {Range(d[b]) : b \in DOMAIN d}
                        <=> \E b \in 1..Len(d) : \E j \in 1..Len(d[b]) : e = d[b][j]
    OBVIOUS
  <2>1. e \in UNION {Range(d[b]) : b \in DOMAIN d} <=> \E b \in 1..Len(d) : e \in Range(d[b])
    BY <1>1
  <2>2. \A b \in 1..Len(d) : e \in Range(d[b]) <=> \E j \in 1..Len(d[b]) : e = d[b][j]
    BY <1>2
  <2> QED
    BY <2>1, <2>2
<1>4. ASSUME NEW n, NEW i PROVE <<n, i>> \in Live(d) <=> \E b, j \in Nat : Sits(d, b, j, n, i)
  <2>1. ASSUME <<n, i>> \in Live(d) PROVE \E b, j \in Nat : Sits(d, b, j, n, i)
    <3>1. PICK e \in UNION {Range(d[b]) : b \in DOMAIN d} : e.ino # 0 /\ <<n, i>> = <<e.name, e.ino>>
      BY <2>1 DEF Live
    <3>2. PICK b \in 1..Len(d) : \E j \in 1..Len(d[b]) : e = d[b][j]
      BY <1>3, <3>1
    <3>3. PICK j \in 1..Len(d[b]) : e = d[b][j]
      BY <3>2
    <3>4. b \in Nat /\ j \in Nat
      BY <1>1, ShapedIs
    <3> QED
      BY <3>1, <3>3, <3>4 DEF Sits
  <2>2. ASSUME NEW b \in Nat, NEW j \in Nat, Sits(d, b, j, n, i) PROVE <<n, i>> \in Live(d)
    <3>1. b \in 1..Len(d) /\ j \in 1..Len(d[b]) /\ d[b][j].name = n /\ d[b][j].ino = i /\ i # 0
      BY <2>2 DEF Sits
    <3>2. d[b][j] \in UNION {Range(d[c]) : c \in DOMAIN d}
      BY <1>3, <3>1
    <3> QED
      BY <3>1, <3>2 DEF Live
  <2> QED
    BY <2>1, <2>2
<1> QED
  BY <1>4 DEF Live

\* The inode of name n in d: InodeOf of any directory.
InodeIn(d, n) ==
  IF \E i \in Inodes : <<n, i>> \in {x \in Live(d) : x[1] \in Names}
  THEN CHOOSE i \in Inodes : <<n, i>> \in {x \in Live(d) : x[1] \in Names} ELSE 0

\* InodeOf of the model is InodeIn of the disk, before a step and after it.
LEMMA InodeOfIs ==
  \A n : InodeOf(n) = InodeIn(dir, n) /\ InodeOf(n)' = InodeIn(dir', n)
BY DEF InodeOf, InodeIn, Named

\* A directory without double entries.
Sound(d, U) == Shaped(d) /\ Single(d, U) /\ U \subseteq Inodes

\* Where an entry sits, in numbers.
LEMMA SitsIs ==
  ASSUME NEW d, Shaped(d), NEW b, NEW j, NEW n, NEW i, Sits(d, b, j, n, i)
  PROVE  b \in Nat /\ j \in Nat /\ i \in Nat /\ i # 0 /\ b \in 1..Len(d) /\ j \in 1..Len(d[b])
         /\ d[b][j].name = n /\ d[b][j].ino = i
<1>1. b \in 1..Len(d) /\ j \in 1..Len(d[b]) /\ i # 0 /\ d[b][j].name = n /\ d[b][j].ino = i
  BY DEF Sits
<1>2. Len(d) \in Nat /\ d[b] \in Seq(Entries) /\ Len(d[b]) \in Nat
  BY <1>1, ShapedIs
<1>3. d[b][j] \in Entries
  BY <1>1, <1>2
<1>4. i \in Nat
  BY <1>1, <1>3, EntryIs
<1> QED
  BY <1>1, <1>2, <1>4

\* The inode of a name is that of its entry.
LEMMA InodeIs ==
  ASSUME NEW d, NEW U, Sound(d, U), NEW n \in Names
  PROVE  /\ InodeIn(d, n) \in {0} \cup U /\ InodeIn(d, n) \in {0} \cup Inodes
         /\ \A b, j, i : Sits(d, b, j, n, i) => InodeIn(d, n) = i
         /\ InodeIn(d, n) # 0 => \E b, j \in Nat : Sits(d, b, j, n, InodeIn(d, n))
<1>1. Shaped(d) /\ Single(d, U) /\ U \subseteq Inodes /\ 0 \notin Inodes /\ Inodes \subseteq Nat
  BY Constants DEF Sound
<1>2. \A i : <<n, i>> \in {x \in Live(d) : x[1] \in Names} <=> \E b, j \in Nat : Sits(d, b, j, n, i)
  BY <1>1, LiveIs
<1>3. \A b, j, i : Sits(d, b, j, n, i) => b \in Nat /\ j \in Nat /\ i \in Nat /\ i \in U
  <2> SUFFICES ASSUME NEW b, NEW j, NEW i, Sits(d, b, j, n, i)
               PROVE  b \in Nat /\ j \in Nat /\ i \in Nat /\ i \in U
    OBVIOUS
  <2>1. b \in Nat /\ j \in Nat /\ i \in Nat
    BY <1>1, SitsIs
  <2> QED
    BY <1>1, <2>1 DEF Single
<1>4. ASSUME NEW i, <<n, i>> \in {x \in Live(d) : x[1] \in Names},
             NEW l, <<n, l>> \in {x \in Live(d) : x[1] \in Names}
      PROVE  i = l
  <2>1. PICK b \in Nat, j \in Nat : Sits(d, b, j, n, i)
    BY <1>2, <1>4
  <2>2. PICK c \in Nat, k \in Nat : Sits(d, c, k, n, l)
    BY <1>2, <1>4
  <2>3. i \in Nat /\ l \in Nat
    BY <1>3, <2>1, <2>2
  <2>4. b = c /\ j = k
    BY <1>1, <2>1, <2>2, <2>3 DEF Single
  <2> QED
    BY <2>1, <2>2, <2>4 DEF Sits
<1>5. CASE \E i \in Inodes : <<n, i>> \in {x \in Live(d) : x[1] \in Names}
  <2>1. InodeIn(d, n) \in Inodes /\ <<n, InodeIn(d, n)>> \in {x \in Live(d) : x[1] \in Names}
    BY <1>5 DEF InodeIn
  <2>2. \E b, j \in Nat : Sits(d, b, j, n, InodeIn(d, n))
    BY <1>2, <2>1
  <2>3. InodeIn(d, n) \in U
    BY <1>3, <2>2
  <2>4. \A b, j, i : Sits(d, b, j, n, i) => InodeIn(d, n) = i
    BY <1>2, <1>3, <1>4, <2>1
  <2> QED
    BY <2>1, <2>2, <2>3, <2>4
<1>6. CASE ~\E i \in Inodes : <<n, i>> \in {x \in Live(d) : x[1] \in Names}
  <2>1. InodeIn(d, n) = 0
    BY <1>6 DEF InodeIn
  <2>2. \A b, j, i : ~Sits(d, b, j, n, i)
    BY <1>1, <1>2, <1>3, <1>6
  <2> QED
    BY <2>1, <2>2
<1> QED
  BY <1>5, <1>6

\* The inode of no other name.
LEMMA InodeOnce ==
  ASSUME NEW d, NEW U, Sound(d, U), NEW n \in Names, NEW m \in Names,
         InodeIn(d, n) = InodeIn(d, m), InodeIn(d, n) # 0
  PROVE  n = m
<1>1. PICK b \in Nat, j \in Nat : Sits(d, b, j, n, InodeIn(d, n))
  BY InodeIs
<1>2. PICK c \in Nat, k \in Nat : Sits(d, c, k, m, InodeIn(d, n))
  BY InodeIs
<1>3. Shaped(d) /\ Single(d, U)
  BY DEF Sound
<1>4. InodeIn(d, n) \in Nat
  BY InodeIs, Constants
<1>5. b = c /\ j = k
  BY <1>1, <1>2, <1>3, <1>4 DEF Single
<1> QED
  BY <1>1, <1>2, <1>5 DEF Sits

\* What read_dir makes of the entries it has found.
LEMMA MergedIs ==
  ASSUME NEW d, NEW U, Sound(d, U)
  PROVE  Merged(Live(d)) \in [Names -> {0} \cup Inodes]
         /\ \A n \in Names : Merged(Live(d))[n] = InodeIn(d, n)
<1> SUFFICES ASSUME NEW n \in Names
             PROVE  Merged(Live(d))[n] \in {0} \cup Inodes /\ Merged(Live(d))[n] = InodeIn(d, n)
  BY DEF Merged
<1>1. Merged(Live(d))[n] = IF \E i \in Inodes : <<n, i>> \in Live(d)
                           THEN CHOOSE i \in Inodes : <<n, i>> \in Live(d) ELSE 0
  BY DEF Merged
<1>2. Shaped(d)
  BY DEF Sound
<1>3. CASE \E i \in Inodes : <<n, i>> \in Live(d)
  <2>1. Merged(Live(d))[n] \in Inodes /\ <<n, Merged(Live(d))[n]>> \in Live(d)
    BY <1>1, <1>3
  <2>2. \E b, j \in Nat : Sits(d, b, j, n, Merged(Live(d))[n])
    BY <1>2, <2>1, LiveIs
  <2> QED
    BY <2>1, <2>2, InodeIs
<1>4. CASE ~\E i \in Inodes : <<n, i>> \in Live(d)
  <2>1. InodeIn(d, n) = 0
    BY <1>4 DEF InodeIn
  <2> QED
    BY <1>1, <1>4, <2>1
<1> QED
  BY <1>3, <1>4

-----------------------------------------------------------------------------
(* Entries that come and go.                                               *)

\* Two entries of one name or one inode are one.
LEMMA SingleIs ==
  ASSUME NEW d, NEW U, Single(d, U), NEW b \in Nat, NEW c \in Nat, NEW j \in Nat, NEW k \in Nat,
         NEW n \in Names, NEW m \in Names, NEW i \in Nat, NEW l \in Nat,
         Sits(d, b, j, n, i), Sits(d, c, k, m, l), n = m \/ i = l
  PROVE  b = c /\ j = k
BY DEF Single

\* e has the entries of d, and one of name n and inode i at place p of block b.
Gains(d, e, b, p, n, i) ==
  /\ \A c, k, m, l : c # b => (Sits(e, c, k, m, l) <=> Sits(d, c, k, m, l))
  /\ \A k, m, l : Sits(e, b, k, m, l) <=> Sits(d, b, k, m, l) \/ (k = p /\ m = n /\ l = i)

\* e is d with i for the inode of n, where U is in use.
Changed(d, e, n, i, U) ==
  Sound(e, U) /\ InodeIn(e, n) = i /\ \A m \in Names : m # n => InodeIn(e, m) = InodeIn(d, m)

\* The entries of e are those of d, but with one more for n.
LEMMA OneMore ==
  ASSUME NEW d, NEW U, Sound(d, U), NEW n \in Names, NEW i \in U, InodeIn(d, n) = 0,
         \A m \in Names : InodeIn(d, m) # i,
         NEW e, Shaped(e), NEW b \in Nat, NEW p \in Nat,
         Gains(d, e, b, p, n, i)
  PROVE  Changed(d, e, n, i, U)
<1>1. Shaped(d) /\ Single(d, U) /\ U \subseteq Inodes /\ i \in Inodes /\ i # 0 /\ i \in Nat
  BY Constants DEF Sound
<1>2. ASSUME NEW c, NEW k, NEW m \in Names, NEW l, Sits(d, c, k, m, l) PROVE m # n /\ l # i
  <2>1. InodeIn(d, m) = l
    BY <1>2, InodeIs
  <2>2. l # 0
    BY <1>2 DEF Sits
  <2> QED
    BY <2>1, <2>2
<1>0. \A c, k, m, l : Sits(e, c, k, m, l) <=> Sits(d, c, k, m, l) \/ (c = b /\ k = p /\ m = n /\ l = i)
  BY DEF Gains
<1>3. ASSUME NEW c \in Nat, NEW k \in Nat, NEW x \in Names, NEW l \in Nat, Sits(e, c, k, x, l)
      PROVE  l \in U
  <2>1. CASE Sits(d, c, k, x, l)
    BY <1>1, <2>1 DEF Single
  <2> QED
    BY <1>0, <1>3, <2>1
<1>4. ASSUME NEW c \in Nat, NEW k \in Nat, NEW x \in Names, NEW l \in Nat, Sits(e, c, k, x, l),
             NEW c1 \in Nat, NEW k1 \in Nat, NEW x1 \in Names, NEW l1 \in Nat, Sits(e, c1, k1, x1, l1),
             x = x1 \/ l = l1
      PROVE  c = c1 /\ k = k1
  <2>1. CASE Sits(d, c, k, x, l) /\ Sits(d, c1, k1, x1, l1)
    <3>1. Single(d, U) /\ (x = x1 \/ l = l1)
      BY <1>1, <1>4
    <3> QED
      BY <2>1, <3>1, SingleIs
  <2>2. CASE ~Sits(d, c, k, x, l) /\ ~Sits(d, c1, k1, x1, l1)
    BY <1>0, <1>4, <2>2
  <2>3. CASE Sits(d, c, k, x, l) /\ ~Sits(d, c1, k1, x1, l1)
    BY <1>0, <1>2, <1>4, <2>3
  <2>4. CASE ~Sits(d, c, k, x, l) /\ Sits(d, c1, k1, x1, l1)
    BY <1>0, <1>2, <1>4, <2>4
  <2> QED
    BY <2>1, <2>2, <2>3, <2>4
<1>5. Single(e, U)
  BY <1>3, <1>4 DEF Single
<1>6. Sound(e, U)
  BY <1>1, <1>5 DEF Sound
<1>7. InodeIn(e, n) = i
  <2>1. Sits(e, b, p, n, i)
    BY <1>0
  <2> QED
    BY <1>6, <2>1, InodeIs
<1>8. ASSUME NEW m \in Names, m # n PROVE InodeIn(e, m) = InodeIn(d, m)
  <2>1. CASE InodeIn(d, m) # 0
    <3>1. PICK c \in Nat, k \in Nat : Sits(d, c, k, m, InodeIn(d, m))
      BY <2>1, InodeIs
    <3>2. Sits(e, c, k, m, InodeIn(d, m))
      BY <1>0, <3>1
    <3> QED
      BY <1>6, <3>2, InodeIs
  <2>2. CASE InodeIn(d, m) = 0
    <3>1. ASSUME InodeIn(e, m) # 0 PROVE FALSE
      <4>1. PICK c \in Nat, k \in Nat : Sits(e, c, k, m, InodeIn(e, m))
        BY <1>6, <3>1, InodeIs
      <4>2. Sits(d, c, k, m, InodeIn(e, m))
        BY <1>0, <1>8, <4>1
      <4> QED
        BY <2>2, <3>1, <4>2, InodeIs
    <3> QED
      BY <2>2, <3>1
  <2> QED
    BY <2>1, <2>2
<1> QED
  BY <1>6, <1>7, <1>8 DEF Changed

\* Block b of e has the entries of d's without the one at p, which f places in d;
\* the other blocks are the same.
Loses(d, e, b, p, f) ==
  /\ f \in [Nat -> Nat] /\ \A k, h \in Nat : f[k] = f[h] => k = h
  /\ \A c, k, m, l : c # b => (Sits(e, c, k, m, l) <=> Sits(d, c, k, m, l))
  /\ \A k, m, l : Sits(e, b, k, m, l) => Sits(d, b, f[k], m, l) /\ f[k] # p
  /\ \A k, m, l : Sits(d, b, k, m, l) /\ k # p => \E h : Sits(e, b, h, m, l)

\* The entries of e are those of d, moved, without the one for n.
LEMMA OneLess ==
  ASSUME NEW d, NEW U, Sound(d, U), NEW n \in Names, InodeIn(d, n) # 0,
         NEW e, Shaped(e), NEW b \in Nat, NEW p \in Nat, Sits(d, b, p, n, InodeIn(d, n)),
         NEW f, Loses(d, e, b, p, f)
  PROVE  Changed(d, e, n, 0, U \ {InodeIn(d, n)})
<1>1. Shaped(d) /\ Single(d, U) /\ U \subseteq Inodes
  BY DEF Sound
<1>2. PICK i \in Nat : i = InodeIn(d, n) /\ i # 0 /\ Sits(d, b, p, n, i)
  BY InodeIs, Constants
\* An entry of e is one of d, and not that of n.
<1>3. ASSUME NEW c \in Nat, NEW k \in Nat, NEW x \in Names, NEW l \in Nat, Sits(e, c, k, x, l)
      PROVE  \E h \in Nat : /\ Sits(d, c, h, x, l) /\ h = (IF c = b THEN f[k] ELSE k)
                            /\ ~(c = b /\ h = p)
  <2>1. CASE c = b
    BY <1>3, <2>1 DEF Loses
  <2>2. CASE c # b
    BY <1>3, <2>2 DEF Loses
  <2> QED
    BY <2>1, <2>2
<1>4. ASSUME NEW c \in Nat, NEW k \in Nat, NEW x \in Names, NEW l \in Nat, Sits(e, c, k, x, l)
      PROVE  l \in U \ {i} /\ x # n
  <2>1. PICK h \in Nat : Sits(d, c, h, x, l) /\ ~(c = b /\ h = p)
    BY <1>3, <1>4
  <2>2. l \in U
    BY <1>1, <2>1 DEF Single
  <2>3. x # n /\ l # i
    BY <1>1, <1>2, <2>1, SingleIs
  <2> QED
    BY <2>2, <2>3
<1>5. ASSUME NEW c \in Nat, NEW k \in Nat, NEW x \in Names, NEW l \in Nat, Sits(e, c, k, x, l),
             NEW c1 \in Nat, NEW k1 \in Nat, NEW x1 \in Names, NEW l1 \in Nat, Sits(e, c1, k1, x1, l1),
             x = x1 \/ l = l1
      PROVE  c = c1 /\ k = k1
  <2>1. PICK h \in Nat : Sits(d, c, h, x, l) /\ h = (IF c = b THEN f[k] ELSE k)
    BY <1>3, <1>5
  <2>2. PICK h1 \in Nat : Sits(d, c1, h1, x1, l1) /\ h1 = (IF c1 = b THEN f[k1] ELSE k1)
    BY <1>3, <1>5
  <2>3. Sits(d, c, h, x, l) /\ Sits(d, c1, h1, x1, l1) /\ (x = x1 \/ l = l1)
    BY <1>5, <2>1, <2>2
  <2>4. c = c1 /\ h = h1
    BY <1>1, <2>3, SingleIs
  <2> QED
    BY <2>1, <2>2, <2>4 DEF Loses
<1>6. Single(e, U \ {i})
  <2>1. \A c, k \in Nat, x \in Names, l \in Nat : Sits(e, c, k, x, l) => l \in U \ {i}
    BY <1>4
  <2>2. \A c, c1, k, k1 \in Nat, x, x1 \in Names, l, l1 \in Nat :
          Sits(e, c, k, x, l) /\ Sits(e, c1, k1, x1, l1) /\ (x = x1 \/ l = l1) => c = c1 /\ k = k1
    BY <1>5
  <2> QED
    BY <2>1, <2>2 DEF Single
<1>7. Sound(e, U \ {i})
  BY <1>1, <1>6 DEF Sound
<1>8. InodeIn(e, n) = 0
  <2> SUFFICES ASSUME InodeIn(e, n) # 0 PROVE FALSE
    OBVIOUS
  <2>1. PICK c \in Nat, k \in Nat : Sits(e, c, k, n, InodeIn(e, n))
    BY <1>7, InodeIs
  <2>2. InodeIn(e, n) \in Nat
    BY <1>7, InodeIs, Constants
  <2> QED
    BY <1>4, <2>1, <2>2
<1>9. ASSUME NEW m \in Names, m # n PROVE InodeIn(e, m) = InodeIn(d, m)
  <2>1. CASE InodeIn(d, m) # 0
    <3>1. PICK c \in Nat, k \in Nat : Sits(d, c, k, m, InodeIn(d, m))
      BY <2>1, InodeIs
    <3>2. ~(c = b /\ k = p)
      BY <1>2, <1>9, <3>1 DEF Sits
    <3>3. \E h : Sits(e, c, h, m, InodeIn(d, m))
      BY <3>1, <3>2 DEF Loses
    <3> QED
      BY <1>7, <3>3, InodeIs
  <2>2. CASE InodeIn(d, m) = 0
    <3>1. ASSUME InodeIn(e, m) # 0 PROVE FALSE
      <4>1. PICK c \in Nat, k \in Nat : Sits(e, c, k, m, InodeIn(e, m))
        BY <1>7, <3>1, InodeIs
      <4>2. InodeIn(e, m) \in Nat
        <5>1. InodeIn(e, m) \in {0} \cup Inodes
          BY <1>7, InodeIs
        <5>2. InodeIn(e, m) \in {0, Here} \cup Inodes
          BY <5>1
        <5> QED
          BY <5>2, InoIs, Zenon
      <4>3. PICK h \in Nat : Sits(d, c, h, m, InodeIn(e, m))
        BY <1>3, <4>1, <4>2
      <4> QED
        BY <2>2, <3>1, <4>3, InodeIs
    <3> QED
      BY <2>2, <3>1
  <2> QED
    BY <2>1, <2>2
<1> QED
  BY <1>2, <1>7, <1>8, <1>9 DEF Changed

\* A new block with an entry of n.
LEMMA AddBlock ==
  ASSUME NEW d, Shaped(d), Len(d) < MaxBlocks, NEW n \in Names, NEW i \in Inodes,
         NEW e, e = Append(d, <<Entry(i, n, BlockUnits)>>)
  PROVE  /\ Shaped(e)
         /\ Gains(d, e, Len(d) + 1, 1, n, i)
<1>1. PICK r : r = <<Entry(i, n, BlockUnits)>>
  OBVIOUS
<1>2. r \in Seq(Entries) /\ Len(r) = 1 /\ r[1].name = n /\ r[1].ino = i /\ Tiled(r)
  BY <1>1, NewBlockIs
<1>3. PICK l \in Nat : l = Len(d) /\ l >= 1 /\ d \in Seq(Seq(Entries))
  BY DEF Shaped
<1>4. /\ e \in Seq(Seq(Entries)) /\ Len(e) = l + 1 /\ e[l + 1] = r
      /\ \A c \in 1..l : e[c] = d[c]
  BY <1>1, <1>2, <1>3, AppendIs
<1>5. Shaped(e)
  <2>1. \A c \in 1..(l + 1) : Len(e[c]) > 0 /\ Tiled(e[c])
    <3> SUFFICES ASSUME NEW c \in 1..(l + 1) PROVE Len(e[c]) > 0 /\ Tiled(e[c])
      OBVIOUS
    <3>1. CASE c = l + 1
      <4>1. e[c] = r
        BY <1>4, <3>1
      <4>2. Len(r) > 0
        BY <1>2
      <4> QED
        BY <1>2, <4>1, <4>2, Zenon
    <3>2. CASE c # l + 1
      <4>1. c \in 1..l
        BY <1>3, <3>2
      <4> QED
        BY <1>3, <1>4, <4>1 DEF Shaped
    <3> QED
      BY <3>1, <3>2
  <2>2. Len(e) \in 1..MaxBlocks
    BY <1>3, <1>4, Constants
  <2> QED
    BY <1>4, <2>1, <2>2 DEF Shaped
<1>6. ASSUME NEW c, NEW k, NEW m, NEW x
      PROVE  Sits(e, c, k, m, x) <=> Sits(d, c, k, m, x) \/ (c = l + 1 /\ k = 1 /\ m = n /\ x = i)
  <2>1. CASE c \in 1..l
    <3>1. c # l + 1 /\ c \in 1..(l + 1) /\ e[c] = d[c]
      BY <1>3, <1>4, <2>1
    <3> QED
      BY <1>3, <1>4, <2>1, <3>1 DEF Sits
  <2>2. CASE c = l + 1
    <3>1. c \notin 1..l /\ c \in 1..(l + 1) /\ e[c] = r
      BY <1>3, <1>4, <2>2
    <3>2. ~Sits(d, c, k, m, x)
      BY <1>3, <3>1 DEF Sits
    <3>3. k \in 1..1 <=> k = 1
      OBVIOUS
    <3>4. i # 0
      BY Constants
    <3>5. Sits(e, c, k, m, x) <=> k = 1 /\ r[1].name = m /\ r[1].ino = x /\ x # 0
      BY <1>2, <1>4, <3>1, <3>3 DEF Sits
    <3> QED
      BY <1>2, <2>2, <3>2, <3>4, <3>5
  <2>3. CASE c \notin 1..(l + 1)
    <3>1. c \notin 1..l /\ c # l + 1
      BY <1>3, <2>3
    <3> QED
      BY <1>3, <1>4, <2>3, <3>1 DEF Sits
  <2> QED
    BY <1>3, <2>1, <2>2, <2>3
<1> QED
  BY <1>3, <1>5, <1>6 DEF Gains

\* e is d with r for its block b.
Puts(d, e, b, r) ==
  /\ e \in Seq(Seq(Entries)) /\ Len(e) = Len(d) /\ e[b] = r
  /\ \A c \in 1..Len(d) : c # b => e[c] = d[c]

\* Writing a block changes that block.
LEMMA PutsIs ==
  ASSUME NEW d, Shaped(d), NEW b \in 1..Len(d), NEW r \in Seq(Entries)
  PROVE  Puts(d, [d EXCEPT ![b] = r], b, r)
BY DEF Puts, Shaped

\* One block of a directory changed.
LEMMA PutBlock ==
  ASSUME NEW d, Shaped(d), NEW b \in 1..Len(d), NEW r \in Seq(Entries), Len(r) > 0, Tiled(r),
         NEW e, Puts(d, e, b, r)
  PROVE  /\ Shaped(e)
         /\ \A c, k, m, l : c # b => (Sits(e, c, k, m, l) <=> Sits(d, c, k, m, l))
         /\ \A k, m, l : Sits(e, b, k, m, l) <=> k \in 1..Len(r) /\ r[k].name = m /\ r[k].ino = l /\ l # 0
<1>1. d \in Seq(Seq(Entries)) /\ Len(d) \in 1..MaxBlocks /\ \A c \in 1..Len(d) : Len(d[c]) > 0 /\ Tiled(d[c])
  BY DEF Shaped
<1>2. e \in Seq(Seq(Entries)) /\ Len(e) = Len(d) /\ e[b] = r /\ \A c \in 1..Len(d) : c # b => e[c] = d[c]
  BY DEF Puts
<1>3. Shaped(e)
  BY <1>1, <1>2 DEF Shaped
<1>4. \A c, k, m, l : c # b => (Sits(e, c, k, m, l) <=> Sits(d, c, k, m, l))
  BY <1>2 DEF Sits
<1>5. \A k, m, l : Sits(e, b, k, m, l) <=> k \in 1..Len(r) /\ r[k].name = m /\ r[k].ino = l /\ l # 0
  BY <1>2 DEF Sits
<1> QED
  BY <1>3, <1>4, <1>5

\* An entry of n behind the last one of a block.
LEMMA AddEntry ==
  ASSUME NEW d, Shaped(d), NEW b \in 1..Len(d), NEW n \in Names, NEW i \in Inodes, HasRoom(d[b], n),
         NEW r, r = Split(d[b], i, n), NEW e, Puts(d, e, b, r)
  PROVE  Shaped(e) /\ r \in Seq(Entries) /\ Gains(d, e, b, Len(d[b]) + 1, n, i)
<1>1. PICK g \in Seq(Entries) : g = d[b] /\ Len(g) > 0 /\ Tiled(g)
  BY ShapedIs
<1>2. r = Split(g, i, n)
  BY <1>1
<1>3. PICK l \in Nat : l = Len(g) /\ l >= 1
  BY <1>1
<1>4. /\ r \in Seq(Entries) /\ Len(r) = l + 1 /\ Tiled(r) /\ r[l + 1].name = n /\ r[l + 1].ino = i
      /\ \A j \in 1..l : r[j].name = g[j].name /\ r[j].ino = g[j].ino
  BY <1>1, <1>2, <1>3, SplitIs
<1>5. Len(r) > 0
  BY <1>3, <1>4
<1>6. /\ Shaped(e)
      /\ \A c, k, m, x : c # b => (Sits(e, c, k, m, x) <=> Sits(d, c, k, m, x))
      /\ \A k, m, x : Sits(e, b, k, m, x) <=> k \in 1..Len(r) /\ r[k].name = m /\ r[k].ino = x /\ x # 0
  BY <1>4, <1>5, PutBlock
<1>7. ASSUME NEW k, NEW m, NEW x
      PROVE  Sits(e, b, k, m, x) <=> Sits(d, b, k, m, x) \/ (k = l + 1 /\ m = n /\ x = i)
  <2>0. i # 0
    BY Constants
  <2>1. CASE k \in 1..l
    <3>1. k # l + 1 /\ k \in 1..Len(r)
      BY <1>3, <1>4, <2>1
    <3>2. Sits(d, b, k, m, x) <=> g[k].name = m /\ g[k].ino = x /\ x # 0
      BY <1>1, <1>3, <2>1 DEF Sits
    <3>3. Sits(e, b, k, m, x) <=> r[k].name = m /\ r[k].ino = x /\ x # 0
      BY <1>6, <3>1
    <3>4. r[k].name = g[k].name /\ r[k].ino = g[k].ino
      BY <1>4, <2>1
    <3> QED
      BY <3>1, <3>2, <3>3, <3>4
  <2>2. CASE k = l + 1
    <3>1. k \notin 1..l /\ k \in 1..Len(r)
      BY <1>3, <1>4, <2>2
    <3>2. ~Sits(d, b, k, m, x)
      BY <1>1, <1>3, <3>1 DEF Sits
    <3>3. Sits(e, b, k, m, x) <=> n = m /\ i = x
      <4>1. Sits(e, b, k, m, x) <=> r[k].name = m /\ r[k].ino = x /\ x # 0
        BY <1>6, <3>1, Zenon
      <4>2. r[k].name = n /\ r[k].ino = i
        BY <1>4, <2>2
      <4> QED
        BY <2>0, <4>1, <4>2
    <3> QED
      BY <2>2, <3>2, <3>3
  <2>3. CASE k \notin 1..(l + 1)
    <3>1. k \notin 1..l /\ k # l + 1 /\ k \notin 1..Len(r)
      BY <1>3, <1>4, <2>3
    <3> QED
      BY <1>1, <1>3, <1>6, <3>1 DEF Sits
  <2> QED
    BY <1>3, <2>1, <2>2, <2>3
<1> QED
  <2>1. Len(d[b]) = l
    BY <1>1, <1>3
  <2> QED
    BY <1>4, <1>6, <1>7, <2>1 DEF Gains

\* An entry of a block removed.
LEMMA RemoveEntry ==
  ASSUME NEW d, Shaped(d), NEW b \in 1..Len(d), NEW p \in 1..Len(d[b]),
         NEW r, r = Removed(d[b], p), NEW e, Puts(d, e, b, r)
  PROVE  Shaped(e) /\ \E f : Loses(d, e, b, p, f)
<1>1. PICK g \in Seq(Entries) : g = d[b] /\ Len(g) > 0 /\ Tiled(g)
  BY ShapedIs
<1>2. PICK l \in Nat : l = Len(g) /\ l >= 1 /\ p \in 1..l
  BY <1>1
<1>3. r = Removed(g, p)
  BY <1>1
<1>4. CASE p = 1
  <2>1. /\ r \in Seq(Entries) /\ Len(r) = l /\ r[1].ino = 0 /\ Tiled(r)
        /\ \A m \in 2..l : r[m] = g[m]
    BY <1>1, <1>2, <1>3, <1>4, RemovedFirst
  <2>2. /\ Shaped(e)
        /\ \A c, k, m, x : c # b => (Sits(e, c, k, m, x) <=> Sits(d, c, k, m, x))
        /\ \A k, m, x : Sits(e, b, k, m, x) <=> k \in 1..Len(r) /\ r[k].name = m /\ r[k].ino = x /\ x # 0
    BY <1>2, <2>1, PutBlock
  <2>3. ASSUME NEW k, NEW m, NEW x
        PROVE  Sits(e, b, k, m, x) <=> Sits(d, b, k, m, x) /\ k # 1
    <3>1. CASE k = 1
      BY <2>1, <2>2, <3>1
    <3>2. CASE k \in 2..l
      <4>1. r[k] = g[k] /\ k # 1 /\ k \in 1..l /\ k \in 1..Len(r)
        BY <1>2, <2>1, <3>2
      <4>2. Sits(d, b, k, m, x) <=> g[k].name = m /\ g[k].ino = x /\ x # 0
        BY <1>1, <1>2, <4>1 DEF Sits
      <4> QED
        BY <2>2, <4>1, <4>2
    <3>3. CASE k # 1 /\ k \notin 2..l
      <4>1. k \notin 1..l /\ k \notin 1..Len(r)
        BY <1>2, <2>1, <3>3
      <4>2. ~Sits(d, b, k, m, x)
        BY <1>1, <1>2, <4>1 DEF Sits
      <4> QED
        BY <2>2, <4>1, <4>2
    <3> QED
      BY <3>1, <3>2, <3>3
  <2>4. PICK f : f = [k \in Nat |-> k]
    OBVIOUS
  <2>5. f \in [Nat -> Nat] /\ \A k, h \in Nat : f[k] = f[h] => k = h
    BY <2>4
  <2>6. \A k, m, x : Sits(e, b, k, m, x) => Sits(d, b, f[k], m, x) /\ f[k] # p
    <3> SUFFICES ASSUME NEW k, NEW m, NEW x, Sits(e, b, k, m, x)
                 PROVE  Sits(d, b, f[k], m, x) /\ f[k] # p
      OBVIOUS
    <3>1. k \in Nat
      BY <2>2, SitsIs
    <3> QED
      BY <1>4, <2>3, <2>4, <3>1
  <2>7. \A k, m, x : Sits(d, b, k, m, x) /\ k # p => \E h : Sits(e, b, h, m, x)
    BY <1>4, <2>3
  <2> QED
    BY <2>2, <2>5, <2>6, <2>7 DEF Loses
<1>5. CASE p # 1
  <2>0. p \in 2..l /\ p \in Nat
    BY <1>2, <1>5
  <2>1. /\ r \in Seq(Entries) /\ Len(r) = l - 1 /\ Tiled(r)
        /\ \A m \in 1..(l - 1) : r[m].name = g[After(p, m)].name /\ r[m].ino = g[After(p, m)].ino
    <3>1. p \in 2..Len(g)
      BY <1>2, <2>0
    <3>2. /\ r \in Seq(Entries) /\ Len(r) = Len(g) - 1 /\ Tiled(r)
          /\ \A m \in 1..(Len(g) - 1) : r[m].name = g[After(p, m)].name /\ r[m].ino = g[After(p, m)].ino
      BY <1>1, <1>3, <3>1, RemovedLater
    <3> QED
      BY <1>2, <3>2
  <2>2. /\ Shaped(e)
        /\ \A c, k, m, x : c # b => (Sits(e, c, k, m, x) <=> Sits(d, c, k, m, x))
        /\ \A k, m, x : Sits(e, b, k, m, x) <=> k \in 1..Len(r) /\ r[k].name = m /\ r[k].ino = x /\ x # 0
    <3>1. Len(r) > 0
      BY <1>2, <2>0, <2>1
    <3>2. r \in Seq(Entries) /\ Tiled(r)
      BY <2>1
    <3> QED
      BY <3>1, <3>2, PutBlock
  <2>3. PICK f : f = [k \in Nat |-> IF k < p THEN k ELSE k + 1]
    OBVIOUS
  <2>4. f \in [Nat -> Nat] /\ \A k, h \in Nat : f[k] = f[h] => k = h
    <3>1. \A k \in Nat : f[k] = (IF k < p THEN k ELSE k + 1) /\ f[k] \in Nat
      BY <2>0, <2>3
    <3>2. f \in [Nat -> Nat]
      BY <2>3
    <3>3. ASSUME NEW k \in Nat, NEW h \in Nat, f[k] = f[h] PROVE k = h
      <4>1. f[k] = (IF k < p THEN k ELSE k + 1) /\ f[h] = (IF h < p THEN h ELSE h + 1)
        BY <3>1
      <4>2. (IF k < p THEN k ELSE k + 1) = (IF h < p THEN h ELSE h + 1)
        BY <3>3, <4>1
      <4> QED
        BY <2>0, <4>2
    <3> QED
      BY <3>2, <3>3
  <2>5. ASSUME NEW k \in 1..(l - 1), NEW m, NEW x
        PROVE  Sits(e, b, k, m, x) <=> Sits(d, b, f[k], m, x)
    <3>1. f[k] = IF k < p THEN k ELSE k + 1
      BY <1>2, <2>3
    <3>2. f[k] \in 1..l
      BY <1>2, <3>1
    <3>3. r[k].name = g[f[k]].name /\ r[k].ino = g[f[k]].ino
      BY <2>1, <3>1 DEF After
    <3>4. Sits(e, b, k, m, x) <=> r[k].name = m /\ r[k].ino = x /\ x # 0
      <4>1. k \in 1..Len(r)
        BY <2>1
      <4> QED
        BY <2>2, <4>1
    <3>5. Sits(d, b, f[k], m, x) <=> g[f[k]].name = m /\ g[f[k]].ino = x /\ x # 0
      BY <1>1, <1>2, <3>2 DEF Sits
    <3> QED
      BY <3>3, <3>4, <3>5
  <2>6. \A k, m, x : Sits(e, b, k, m, x) => Sits(d, b, f[k], m, x) /\ f[k] # p
    <3> SUFFICES ASSUME NEW k, NEW m, NEW x, Sits(e, b, k, m, x)
                 PROVE  Sits(d, b, f[k], m, x) /\ f[k] # p
      OBVIOUS
    <3>1. k \in 1..Len(r)
      BY <2>2
    <3>2. k \in 1..(l - 1) /\ k \in Nat
      BY <1>2, <2>1, <3>1
    <3>3. f[k] # p
      <4>1. f[k] = IF k < p THEN k ELSE k + 1
        BY <2>3, <3>2
      <4> QED
        BY <2>0, <3>2, <4>1
    <3> QED
      BY <2>5, <3>2, <3>3
  <2>7. \A k, m, x : Sits(d, b, k, m, x) /\ k # p => \E h : Sits(e, b, h, m, x)
    <3> SUFFICES ASSUME NEW k, NEW m, NEW x, Sits(d, b, k, m, x), k # p
                 PROVE  \E h : Sits(e, b, h, m, x)
      OBVIOUS
    <3>1. k \in 1..l
      BY <1>1, <1>2, SitsIs
    <3>2. PICK h \in Nat : h = IF k < p THEN k ELSE k - 1
      BY <1>2, <3>1
    <3>3. h \in 1..(l - 1) /\ f[h] = k
      <4>1. f[h] = IF h < p THEN h ELSE h + 1
        BY <2>3
      <4>2. k \in Nat /\ k <= l /\ k >= 1
        BY <1>2, <3>1
      <4>3. p \in Nat /\ p <= l
        BY <1>2, <2>0
      <4>4. h \in 1..(l - 1)
        BY <1>2, <3>2, <4>2, <4>3
      <4> QED
        BY <3>2, <4>1, <4>2, <4>3, <4>4
    <3> QED
      BY <2>5, <3>3
  <2> QED
    BY <2>2, <2>4, <2>6, <2>7 DEF Loses
<1> QED
  BY <1>4, <1>5

\* d with block b written.
Written(d, b, r) == IF b > Len(d) THEN Append(d, r) ELSE [d EXCEPT ![b] = r]

\* creat, on the disk.
LEMMA AddIs ==
  ASSUME NEW d, NEW U, Sound(d, U), NEW n \in Names, NEW i \in U, InodeIn(d, n) = 0,
         \A m \in Names : InodeIn(d, m) # i,
         NEW b, b = Place(d, n), b <= MaxBlocks, NEW r, r = Added(d, b, i, n),
         NEW e, e = Written(d, b, r)
  PROVE  Changed(d, e, n, i, U)
<1>1. Shaped(d) /\ i \in Inodes
  BY DEF Sound
<1>2. Len(d) \in Nat /\ MaxBlocks \in Nat
  BY <1>1, Constants DEF Shaped
<1>3. CASE b = Len(d) + 1
  <2>1. Len(d) < MaxBlocks /\ b > Len(d)
    BY <1>2, <1>3
  <2>2. e = Append(d, <<Entry(i, n, BlockUnits)>>)
    BY <2>1 DEF Added, Written
  <2>3. Shaped(e) /\ Gains(d, e, Len(d) + 1, 1, n, i)
    BY <1>1, <2>1, <2>2, AddBlock
  <2>4. Len(d) + 1 \in Nat /\ 1 \in Nat
    BY <1>2
  <2> QED
    BY <2>3, <2>4, OneMore
<1>4. CASE b # Len(d) + 1
  <2>1. b \in 1..Len(d) /\ HasRoom(d[b], n)
    BY <1>1, <1>4, PlaceIs
  <2>2. ~(b > Len(d))
    BY <1>2, <2>1
  <2>3. e = [d EXCEPT ![b] = r] /\ r = Split(d[b], i, n)
    BY <2>2 DEF Added, Written
  <2>4. r \in Seq(Entries)
    <3>1. d[b] \in Seq(Entries) /\ Len(d[b]) > 0 /\ Tiled(d[b])
      BY <1>1, <2>1, ShapedIs
    <3> QED
      BY <1>1, <2>1, <2>3, <3>1, SplitIs
  <2>5. Puts(d, e, b, r)
    <3>1. Puts(d, [d EXCEPT ![b] = r], b, r)
      BY <1>1, <2>1, <2>4, PutsIs
    <3> QED
      BY <2>3, <3>1, Zenon
  <2>6. Shaped(e) /\ Gains(d, e, b, Len(d[b]) + 1, n, i)
    BY <1>1, <2>1, <2>3, <2>5, AddEntry
  <2>7. b \in Nat /\ Len(d[b]) + 1 \in Nat
    BY <1>1, <2>1, ShapedIs
  <2> QED
    BY <2>6, <2>7, OneMore
<1> QED
  BY <1>3, <1>4

\* unlink, on the disk.
LEMMA RemoveIs ==
  ASSUME NEW d, NEW U, Sound(d, U), NEW n \in Names, InodeIn(d, n) # 0,
         NEW b, NEW p, Sits(d, b, p, n, InodeIn(d, n)),
         NEW r, r = Removed(d[b], p), NEW e, e = Written(d, b, r)
  PROVE  Changed(d, e, n, 0, U \ {InodeIn(d, n)})
<1>1. Shaped(d)
  BY DEF Sound
<1>2. b \in 1..Len(d) /\ p \in 1..Len(d[b]) /\ b \in Nat /\ p \in Nat
  BY <1>1, SitsIs
<1>3. r \in Seq(Entries)
  <2>1. PICK g \in Seq(Entries) : g = d[b] /\ Len(g) > 0 /\ Tiled(g)
    BY <1>1, <1>2, ShapedIs
  <2>2. CASE p = 1
    BY <2>1, <2>2, RemovedFirst
  <2>3. CASE p # 1
    <3>1. p \in 2..Len(g)
      BY <1>2, <2>1, <2>3
    <3> QED
      BY <2>1, <3>1, RemovedLater
  <2> QED
    BY <2>2, <2>3
<1>4. Puts(d, e, b, r)
  <2>1. ~(b > Len(d))
    BY <1>1, <1>2 DEF Shaped
  <2>2. e = [d EXCEPT ![b] = r]
    BY <2>1 DEF Written
  <2> QED
    <3>1. Puts(d, [d EXCEPT ![b] = r], b, r)
      BY <1>1, <1>2, <1>3, PutsIs
    <3> QED
      BY <2>2, <3>1, Zenon
<1>5. PICK f : Shaped(e) /\ Loses(d, e, b, p, f)
  BY <1>1, <1>2, <1>4, RemoveEntry
<1> QED
  BY <1>2, <1>5, OneLess, Zenon

-----------------------------------------------------------------------------
(* The inductive invariant.                                                *)

\* The types of the variables of the calls.
Types ==
  /\ children \in [Names -> {0} \cup Inodes] /\ cached \in BOOLEAN /\ lock \in Tasks \cup {None}
  /\ op \in [Tasks -> Ops] /\ want \in [Tasks -> Wants] /\ name \in [Tasks -> Names \cup {None}]
  /\ DOMAIN seen = Tasks /\ node \in [Tasks -> {0} \cup Inodes] /\ DOMAIN buf = Tasks

\* Only harmless calls are in the kernel together.
Excl == \A t, u \in Tasks : t # u /\ op[t] # "user" /\ op[u] # "user" => Harmless(want[t], want[u])

\* The call of t is the one that has this step; the lock is held to merge.
Placed(t) ==
  /\ op[t] # "user" => name[t] \in Names
  /\ op[t] \in {"add", "addwrite", "stale"} => want[t] = "creat"
  /\ op[t] \in {"remove", "removewrite", "forget"} => want[t] = "unlink"
  /\ op[t] = "merge" <=> lock = t

\* m says what the directory d says, but for a name whose unlink is about to take
\* it out of the child list.
Knows(m, d, o, a) ==
  \A n \in Names : m[n] = InodeIn(d, n) \/ \E u \in Tasks : o[u] = "forget" /\ a[u] = n

\* The block read is still the one on the disk, changed for an inode without a name,
Adding(t) ==
  \E i \in used :
    /\ \A n \in Names : InodeIn(dir, n) # i
    /\ buf[t] = [block |-> Place(dir, name[t]), data |-> Added(dir, Place(dir, name[t]), i, name[t])]

\* or without the entry to be removed.
Removing(t) ==
  \E b, j \in Nat :
    /\ Sits(dir, b, j, name[t], node[t])
    /\ buf[t] = [block |-> b, data |-> Removed(dir[b], j)]

\* What t has found still holds.
Working(t) ==
  /\ op[t] \in {"add", "addwrite", "forget"} => InodeIn(dir, name[t]) = 0
  /\ op[t] \in {"remove", "removewrite"} => node[t] # 0 /\ InodeIn(dir, name[t]) = node[t]
  /\ op[t] = "addwrite" => Adding(t)
  /\ op[t] = "removewrite" => Removing(t)
  /\ op[t] = "merge" => Knows(Merged(seen[t]), dir, op, name)

Cached == cached /\ (\A t \in Tasks : op[t] # "stale") => Knows(children, dir, op, name)

\* The inductive invariant.
DirInv ==
  Sound(dir, used) /\ Types /\ Excl /\ Cached /\ \A t \in Tasks : Placed(t) /\ Working(t)

\* Nothing of the other tasks changes.
Rest(t) ==
  \A u \in Tasks : u # t => /\ op'[u] = op[u] /\ want'[u] = want[u] /\ name'[u] = name[u]
                            /\ seen'[u] = seen[u] /\ node'[u] = node[u] /\ buf'[u] = buf[u]

Stays(t) == want'[t] = want[t] /\ name'[t] = name[t]

\* A call that returns changes nothing of the other tasks.
LEMMA ReturnsIs ==
  ASSUME Types, NEW t \in Tasks, Returns(t)
  PROVE  /\ Rest(t) /\ op'[t] = "user"
         /\ op' \in [Tasks -> Ops] /\ want' \in [Tasks -> Wants] /\ name' \in [Tasks -> Names \cup {None}]
         /\ DOMAIN seen' = Tasks /\ node' \in [Tasks -> {0} \cup Inodes] /\ DOMAIN buf' = Tasks
BY DEF Types, Returns, Goes, Rest, Ops, Wants

\* A task goes to its next step and the others stay where they are.
LEMMA GoesIs ==
  ASSUME Types, NEW t \in Tasks, NEW o \in Ops, Goes(t, o)
  PROVE  op' \in [Tasks -> Ops] /\ op'[t] = o /\ \A u \in Tasks : u # t => op'[u] = op[u]
BY DEF Types, Goes

\* What a decided look-up does: it returns, or creat and unlink go on.
LEMMA DecidedIs ==
  ASSUME Types, NEW t \in Tasks, NEW i \in {0} \cup Inodes, Decided(t, i)
  PROVE  /\ Rest(t)
         /\ op' \in [Tasks -> Ops] /\ want' \in [Tasks -> Wants] /\ name' \in [Tasks -> Names \cup {None}]
         /\ DOMAIN seen' = Tasks /\ node' \in [Tasks -> {0} \cup Inodes] /\ DOMAIN buf' = Tasks
         /\ \/ op'[t] = "user"
            \/ op'[t] = "add" /\ i = 0 /\ want[t] = "creat" /\ Stays(t)
            \/ op'[t] = "stale" /\ want[t] = "creat" /\ Stays(t)
            \/ op'[t] = "remove" /\ i # 0 /\ want[t] = "unlink" /\ node'[t] = i /\ Stays(t)
<1>1. want[t] \in {"find", "creat", "unlink"}
  BY DEF Types, Wants
<1>2. CASE want[t] = "find"
  <2>1. Returns(t)
    BY <1>2 DEF Decided
  <2> QED
    BY <2>1, ReturnsIs
<1>3. CASE want[t] = "creat"
  <2>1. /\ Goes(t, IF i = 0 THEN "add" ELSE "stale") /\ seen' = [seen EXCEPT ![t] = {}]
        /\ UNCHANGED <<want, name, node, buf>>
    BY <1>3 DEF Decided, input
  <2>2. PICK o \in Ops : o = (IF i = 0 THEN "add" ELSE "stale")
    BY DEF Ops
  <2>3. op' \in [Tasks -> Ops] /\ op'[t] = o /\ \A u \in Tasks : u # t => op'[u] = op[u]
    BY <2>1, <2>2, GoesIs
  <2>4. Rest(t)
    BY <2>1, <2>3 DEF Rest, Types
  <2> QED
    BY <1>3, <2>1, <2>2, <2>3, <2>4 DEF Types, Stays
<1>4. CASE want[t] = "unlink" /\ i = 0
  <2>1. Returns(t)
    BY <1>4 DEF Decided
  <2> QED
    BY <2>1, ReturnsIs
<1>5. CASE want[t] = "unlink" /\ i # 0
  <2>1. /\ Goes(t, "remove") /\ seen' = [seen EXCEPT ![t] = {}] /\ node' = [node EXCEPT ![t] = i]
        /\ UNCHANGED <<want, name, buf>>
    BY <1>5 DEF Decided, input
  <2>2. op' \in [Tasks -> Ops] /\ op'[t] = "remove" /\ \A u \in Tasks : u # t => op'[u] = op[u]
    BY <2>1, GoesIs DEF Ops
  <2>3. Rest(t)
    BY <2>1, <2>2 DEF Rest, Types
  <2> QED
    BY <1>5, <2>1, <2>2, <2>3 DEF Types, Stays
<1> QED
  BY <1>1, <1>2, <1>3, <1>4, <1>5

\* Exclusion.
LEMMA ExclKept ==
  ASSUME Excl, NEW t \in Tasks, Rest(t), op[t] # "user", op'[t] = "user" \/ want'[t] = want[t]
  PROVE  Excl'
BY DEF Excl, Rest

\* What is known stays known.
LEMMA KnowsStays ==
  ASSUME NEW t \in Tasks, Rest(t), dir' = dir, op[t] # "forget", NEW m, Knows(m, dir, op, name)
  PROVE  Knows(m, dir', op', name')
BY DEF Knows, Rest

\* A step that leaves the disk leaves the other tasks what they have found.
LEMMA OthersStill ==
  ASSUME NEW t \in Tasks, Rest(t), dir' = dir, used' = used, NEW u \in Tasks, u # t, Placed(u), Working(u),
         lock' = u <=> lock = u, op[t] = "forget" => op[u] # "merge"
  PROVE  Placed(u)' /\ Working(u)'
<1>1. op'[u] = op[u] /\ want'[u] = want[u] /\ name'[u] = name[u] /\ seen'[u] = seen[u]
      /\ node'[u] = node[u] /\ buf'[u] = buf[u]
  BY DEF Rest
<1>2. Placed(u)'
  BY <1>1 DEF Placed
<1>3. Adding(u) => Adding(u)'
  BY <1>1 DEF Adding
<1>4. Removing(u) => Removing(u)'
  BY <1>1 DEF Removing
<1>5. op[u] = "merge" => Knows(Merged(seen'[u]), dir', op', name')
  BY <1>1, KnowsStays DEF Working
<1> QED
  BY <1>1, <1>2, <1>3, <1>4, <1>5 DEF Working

-----------------------------------------------------------------------------
(* Look-ups.                                                               *)

\* A step of t that leaves the disk.
LEMMA QuietStep ==
  ASSUME DirInv, NEW t \in Tasks, Rest(t), dir' = dir, used' = used, Types', Excl', Cached',
         Placed(t)', Working(t)', \A u \in Tasks : u # t => (lock' = u <=> lock = u),
         op[t] = "forget" => lock = None
  PROVE  DirInv'
<1>1. Sound(dir, used)'
  BY DEF DirInv
<1>2. ASSUME NEW u \in Tasks PROVE Placed(u)' /\ Working(u)'
  <2>1. CASE u = t
    BY <2>1
  <2>2. CASE u # t
    <3>1. op[t] = "forget" => op[u] # "merge"
      BY Constants DEF DirInv, Placed
    <3> QED
      BY <2>2, <3>1, OthersStill DEF DirInv
  <2> QED
    BY <2>1, <2>2
<1> QED
  BY <1>1, <1>2 DEF DirInv

\* A call begins.
LEMMA CallInv ==
  ASSUME DirInv, Faults = {}, NEW t \in Tasks, NEW w \in Wants, NEW n \in Names, Call(t, w, n)
  PROVE  DirInv'
<1>1. /\ op[t] = "user" /\ Goes(t, "find") /\ want' = [want EXCEPT ![t] = w] /\ name' = [name EXCEPT ![t] = n]
      /\ UNCHANGED <<dir, used, children, cached, lock, seen, node, buf>>
      /\ \A u \in Tasks : op[u] # "user" => Harmless(w, want[u])
  BY DEF Call, disk, cache, memory
<1>2. op' \in [Tasks -> Ops] /\ op'[t] = "find" /\ \A u \in Tasks : u # t => op'[u] = op[u]
  BY <1>1, GoesIs DEF DirInv, Ops
<1>3. want'[t] = w /\ name'[t] = n /\ Rest(t)
  BY <1>1, <1>2 DEF DirInv, Types, Rest
<1>4. Types'
  BY <1>1, <1>2 DEF DirInv, Types
<1>5. Excl'
  <2> SUFFICES ASSUME NEW u \in Tasks, NEW v \in Tasks, u # v, op'[u] # "user", op'[v] # "user"
               PROVE  Harmless(want'[u], want'[v])
    BY DEF Excl
  <2>1. CASE u # t /\ v # t
    BY <1>3, <2>1 DEF Rest, DirInv, Excl
  <2>2. CASE u = t
    BY <1>1, <1>3, <2>2 DEF Rest
  <2>3. CASE v = t
    BY <1>1, <1>3, <2>3 DEF Rest, Harmless
  <2> QED
    BY <2>1, <2>2, <2>3
<1>6. Cached'
  <2> SUFFICES ASSUME cached', \A u \in Tasks : op'[u] # "stale"
               PROVE  Knows(children', dir', op', name')
    BY DEF Cached
  <2>1. cached /\ \A u \in Tasks : op[u] # "stale"
    BY <1>1, <1>2
  <2>2. Knows(children, dir, op, name)
    BY <2>1 DEF DirInv, Cached
  <2> QED
    BY <1>1, <1>3, <2>2, KnowsStays
<1>7. Placed(t)'
  <2>1. lock # t
    BY <1>1 DEF DirInv, Placed
  <2> QED
    BY <1>1, <1>2, <1>3, <2>1 DEF Placed
<1>8. Working(t)'
  BY <1>2 DEF Working
<1> QED
  BY <1>1, <1>3, <1>4, <1>5, <1>6, <1>7, <1>8, QuietStep

\* A look-up is decided: what t has found is so.
LEMMA DecidedInv ==
  ASSUME DirInv, NEW t \in Tasks, NEW i \in {0} \cup Inodes, Decided(t, i), op[t] \in {"find", "merge"},
         dir' = dir, used' = used, children' \in [Names -> {0} \cup Inodes], cached' \in BOOLEAN,
         lock' = None, lock \in {None, t},
         i = InodeIn(dir, name[t]) \/ \E u \in Tasks : op[u] = "forget" /\ name[u] = name[t],
         cached' => Knows(children', dir, op, name)
  PROVE  DirInv'
<1>1. Types
  BY DEF DirInv
<1>2. /\ Rest(t)
      /\ op' \in [Tasks -> Ops] /\ want' \in [Tasks -> Wants] /\ name' \in [Tasks -> Names \cup {None}]
      /\ DOMAIN seen' = Tasks /\ node' \in [Tasks -> {0} \cup Inodes] /\ DOMAIN buf' = Tasks
  BY <1>1, DecidedIs
<1>3. \/ op'[t] = "user"
      \/ op'[t] = "add" /\ i = 0 /\ want[t] = "creat" /\ Stays(t)
      \/ op'[t] = "stale" /\ want[t] = "creat" /\ Stays(t)
      \/ op'[t] = "remove" /\ i # 0 /\ want[t] = "unlink" /\ node'[t] = i /\ Stays(t)
  BY <1>1, DecidedIs
<1>4. Types'
  BY <1>2 DEF Types
<1>5. Excl'
  BY <1>2, <1>3, ExclKept DEF DirInv, Stays
<1>6. Cached'
  <2> SUFFICES ASSUME cached' PROVE Knows(children', dir', op', name')
    BY DEF Cached
  <2>1. Knows(children', dir, op, name)
    OBVIOUS
  <2> QED
    BY <1>2, <2>1, KnowsStays
<1>7. Placed(t)'
  <2>1. name[t] \in Names
    BY DEF DirInv, Placed
  <2> QED
    BY <1>3, <2>1, Constants DEF Placed, Stays
<1>8. Working(t)'
  <2>1. CASE op'[t] \in {"user", "stale"}
    BY <2>1 DEF Working
  <2>2. CASE op'[t] \in {"add", "remove"}
    <3>1. want[t] \in {"creat", "unlink"} /\ Stays(t)
      BY <1>3, <2>2
    <3>2. ASSUME NEW u \in Tasks, op[u] = "forget" PROVE FALSE
      <4>1. want[u] = "unlink" /\ u # t
        BY <3>2 DEF DirInv, Placed
      <4>2. Harmless(want[t], want[u])
        BY <3>2, <4>1 DEF DirInv, Excl
      <4> QED
        BY <3>1, <4>1, <4>2 DEF Harmless
    <3>3. i = InodeIn(dir, name[t])
      BY <3>2
    <3> QED
      BY <1>3, <2>2, <3>1, <3>3 DEF Working, Stays
  <2> QED
    BY <1>3, <2>1, <2>2
<1>9. \A u \in Tasks : u # t => (lock' = u <=> lock = u)
  BY Constants
<1> QED
  BY <1>2, <1>4, <1>5, <1>6, <1>7, <1>8, <1>9, QuietStep

\* find_file by an up-to-date child list keeps the invariant: no creat is in the
\* kernel beside it, so the child list says what the disk says.
LEMMA FindCachedInv ==
  ASSUME DirInv, NEW t \in Tasks, FindCached(t)
  PROVE  DirInv'
<1>1. /\ op[t] = "find" /\ lock = None /\ cached /\ Decided(t, children[name[t]])
      /\ UNCHANGED <<dir, used, children, cached, lock>>
  BY DEF FindCached, disk, cache
<1>2. name[t] \in Names /\ children \in [Names -> {0} \cup Inodes] /\ want[t] \in Wants
  BY <1>1 DEF DirInv, Placed, Types
<1>3. PICK i \in {0} \cup Inodes : i = children[name[t]]
  BY <1>2
<1>4. CASE \A u \in Tasks : op[u] # "stale"
  <2>1. Knows(children, dir, op, name)
    BY <1>1, <1>4 DEF DirInv, Cached
  <2>2. i = InodeIn(dir, name[t]) \/ \E u \in Tasks : op[u] = "forget" /\ name[u] = name[t]
    BY <1>2, <1>3, <2>1 DEF Knows
  <2>3. cached' => Knows(children', dir, op, name)
    BY <1>1, <2>1
  <2> QED
    BY <1>1, <1>2, <1>3, <2>2, <2>3, DecidedInv
<1>5. CASE \E u \in Tasks : op[u] = "stale"
  <2>1. PICK u \in Tasks : op[u] = "stale" /\ want[u] = "creat" /\ u # t
    BY <1>1, <1>5 DEF DirInv, Placed
  <2>2. Harmless(want[t], want[u])
    BY <1>1, <2>1 DEF DirInv, Excl
  <2> QED
    BY <2>1, <2>2 DEF Harmless
<1> QED
  BY <1>4, <1>5

\* read_dir makes a child list that is right but for a name an unlink has yet to forget.
LEMMA FindMergeInv ==
  ASSUME DirInv, NEW t \in Tasks, FindMerge(t)
  PROVE  DirInv'
<1>1. /\ op[t] = "merge" /\ children' = Merged(seen[t]) /\ cached' = TRUE /\ lock' = None
      /\ Decided(t, children'[name[t]]) /\ UNCHANGED <<dir, used>>
  BY DEF FindMerge, disk
<1>2. name[t] \in Names /\ lock = t
  BY <1>1 DEF DirInv, Placed
<1>3. children' \in [Names -> {0} \cup Inodes]
  BY <1>1 DEF Merged
<1>4. PICK i \in {0} \cup Inodes : i = children'[name[t]]
  BY <1>2, <1>3
<1>5. Knows(children', dir, op, name)
  BY <1>1 DEF DirInv, Working
<1>6. i = InodeIn(dir, name[t]) \/ \E u \in Tasks : op[u] = "forget" /\ name[u] = name[t]
  BY <1>2, <1>4, <1>5 DEF Knows
<1> QED
  BY <1>1, <1>2, <1>3, <1>4, <1>5, <1>6, DecidedInv

\* read_dir reads the entries: what it found is what the disk says.
LEMMA FindLoadInv ==
  ASSUME DirInv, NEW t \in Tasks, FindLoad(t)
  PROVE  DirInv'
<1>1. /\ op[t] = "find" /\ lock = None /\ ~cached /\ lock' = t /\ seen' = [seen EXCEPT ![t] = Live(dir)]
      /\ Goes(t, "merge") /\ UNCHANGED <<dir, used, children, cached, want, name, node, buf>>
  BY DEF FindLoad, disk, input
<1>2. op' \in [Tasks -> Ops] /\ op'[t] = "merge" /\ \A u \in Tasks : u # t => op'[u] = op[u]
  BY <1>1, GoesIs DEF DirInv, Ops
<1>3. Rest(t) /\ seen'[t] = Live(dir) /\ want'[t] = want[t] /\ name'[t] = name[t]
  BY <1>1, <1>2 DEF Rest, DirInv, Types
<1>4. Types'
  BY <1>1, <1>2 DEF DirInv, Types
<1>5. Excl'
  BY <1>1, <1>3, ExclKept DEF DirInv
<1>6. Cached'
  BY <1>1 DEF Cached
<1>7. Placed(t)'
  BY <1>1, <1>2, <1>3 DEF DirInv, Placed
<1>8. Working(t)'
  <2>1. Knows(Merged(Live(dir)), dir', op', name')
    BY <1>1, MergedIs DEF DirInv, Knows
  <2> QED
    BY <1>2, <1>3, <2>1 DEF Working
<1>9. \A u \in Tasks : u # t => (lock' = u <=> lock = u)
  BY <1>1, Constants
<1> QED
  BY <1>1, <1>3, <1>4, <1>5, <1>6, <1>7, <1>8, <1>9, QuietStep

-----------------------------------------------------------------------------
(* creat                                                                   *)

\* A creat is alone in the directory.
LEMMA CreatAlone ==
  ASSUME DirInv, NEW t \in Tasks, op[t] # "user", want[t] = "creat", NEW u \in Tasks, u # t
  PROVE  op[u] = "user"
BY DEF DirInv, Excl, Harmless

\* A step of a creat keeps the invariant if it does for its own task.
LEMMA CreatStep ==
  ASSUME DirInv, NEW t \in Tasks, op[t] # "user", want[t] = "creat", Rest(t), lock' = lock,
         op'[t] = "user" \/ want'[t] = want[t],
         Sound(dir', used'), Types', Cached', Placed(t)', Working(t)'
  PROVE  DirInv'
<1>1. Excl'
  BY ExclKept DEF DirInv
<1>2. ASSUME NEW u \in Tasks PROVE Placed(u)' /\ Working(u)'
  <2>1. CASE u = t
    BY <2>1
  <2>2. CASE u # t
    <3>1. op[u] = "user" /\ op'[u] = "user"
      BY <2>2, CreatAlone DEF Rest
    <3>2. lock # u
      BY <3>1 DEF DirInv, Placed
    <3> QED
      BY <3>1, <3>2 DEF Placed, Working
  <2> QED
    BY <2>1, <2>2
<1> QED
  BY <1>1, <1>2 DEF DirInv

\* More inodes in use.
LEMMA SoundGrows ==
  ASSUME NEW d, NEW U, Sound(d, U), NEW i \in Inodes
  PROVE  Sound(d, U \cup {i})
BY DEF Sound, Single

\* directory_add_entry reads a block: the inode it takes has no name yet.
LEMMA AddReadInv ==
  ASSUME DirInv, NEW t \in Tasks, AddRead(t)
  PROVE  DirInv'
<1>1. op[t] = "add" /\ Goes(t, "addwrite") /\ UNCHANGED <<dir, children, cached, lock, want, name, seen, node>>
  BY DEF AddRead, cache, input
<1>2. PICK i \in Inodes \ used : used' = used \cup {i} /\
        buf' = [buf EXCEPT ![t] = [block |-> Place(dir, name[t]),
                                   data |-> Added(dir, Place(dir, name[t]), i, name[t])]]
  BY DEF AddRead
<1>3. want[t] = "creat" /\ name[t] \in Names /\ lock # t /\ InodeIn(dir, name[t]) = 0
  BY <1>1 DEF DirInv, Placed, Working
<1>4. op' \in [Tasks -> Ops] /\ op'[t] = "addwrite" /\ \A u \in Tasks : u # t => op'[u] = op[u]
  BY <1>1, GoesIs DEF DirInv, Ops
<1>5. Rest(t) /\ DOMAIN buf' = Tasks
      /\ buf'[t] = [block |-> Place(dir, name[t]), data |-> Added(dir, Place(dir, name[t]), i, name[t])]
  BY <1>1, <1>2, <1>4 DEF Rest, DirInv, Types
<1>6. Types'
  BY <1>1, <1>4, <1>5 DEF DirInv, Types
<1>7. Sound(dir', used')
  BY <1>1, <1>2, SoundGrows DEF DirInv
<1>8. Cached'
  <2> SUFFICES ASSUME cached', \A u \in Tasks : op'[u] # "stale"
               PROVE  Knows(children', dir', op', name')
    BY DEF Cached
  <2>1. cached /\ \A u \in Tasks : op[u] # "stale"
    BY <1>1, <1>4
  <2>2. Knows(children, dir, op, name)
    BY <2>1 DEF DirInv, Cached
  <2> QED
    BY <1>1, <1>5, <2>2, KnowsStays
<1>9. Placed(t)'
  BY <1>1, <1>3, <1>4 DEF Placed
<1>10. Working(t)'
  <2>1. \A n \in Names : InodeIn(dir, n) # i
    BY <1>2, InodeIs, Constants DEF DirInv
  <2>2. Adding(t)'
    BY <1>1, <1>2, <1>5, <2>1 DEF Adding
  <2> QED
    BY <1>1, <1>3, <1>4, <2>2 DEF Working
<1> QED
  BY <1>1, <1>3, <1>5, <1>6, <1>7, <1>8, <1>9, <1>10, CreatStep

\* The steps of a creat that leave the disk and make the child list out of date.
LEMMA ToStaleInv ==
  ASSUME DirInv, NEW t \in Tasks, op[t] \in {"add", "addwrite"}, Goes(t, "stale"),
         UNCHANGED <<children, cached, lock, want, name, seen, node, buf>>, Sound(dir', used')
  PROVE  DirInv'
<1>1. want[t] = "creat" /\ name[t] \in Names /\ lock # t
  BY DEF DirInv, Placed
<1>2. op' \in [Tasks -> Ops] /\ op'[t] = "stale" /\ \A u \in Tasks : u # t => op'[u] = op[u]
  BY GoesIs DEF DirInv, Ops
<1>3. Rest(t)
  BY <1>2 DEF Rest
<1>4. Types' /\ Cached' /\ Placed(t)' /\ Working(t)'
  BY <1>1, <1>2 DEF DirInv, Types, Cached, Placed, Working
<1> QED
  BY <1>1, <1>3, <1>4, CreatStep

\* creat declares the child list out of date, and then it need not be right.
LEMMA AddStaleInv ==
  ASSUME DirInv, NEW t \in Tasks, AddStale(t)
  PROVE  DirInv'
<1>1. op[t] = "stale" /\ cached' = FALSE /\ Returns(t) /\ UNCHANGED <<dir, used, children, lock>>
  BY DEF AddStale, OutOfDate, disk
<1>2. want[t] = "creat" /\ lock # t
  BY <1>1 DEF DirInv, Placed
<1>3. /\ Rest(t) /\ op'[t] = "user"
      /\ op' \in [Tasks -> Ops] /\ want' \in [Tasks -> Wants] /\ name' \in [Tasks -> Names \cup {None}]
      /\ DOMAIN seen' = Tasks /\ node' \in [Tasks -> {0} \cup Inodes] /\ DOMAIN buf' = Tasks
  BY <1>1, ReturnsIs DEF DirInv
<1>4. Types' /\ Cached' /\ Placed(t)' /\ Working(t)'
  BY <1>1, <1>2, <1>3 DEF DirInv, Types, Cached, Placed, Working
<1>5. Sound(dir', used')
  BY <1>1 DEF DirInv
<1> QED
  BY <1>1, <1>2, <1>3, <1>4, <1>5, CreatStep

\* AddWrite makes the entry.
LEMMA AddWriteIs ==
  ASSUME DirInv, NEW t \in Tasks, AddWrite(t)
  PROVE  \E i \in used : /\ \A n \in Names : InodeIn(dir, n) # i
                         /\ InodeIn(dir, name[t]) = 0 /\ name[t] \in Names
                         /\ Changed(dir, dir', name[t], i, used)
<1>1. op[t] = "addwrite" /\ buf[t].block <= MaxBlocks /\ dir' = Written(dir, buf[t].block, buf[t].data)
  BY DEF AddWrite, Written
<1>2. PICK i \in used :
        /\ \A n \in Names : InodeIn(dir, n) # i
        /\ buf[t] = [block |-> Place(dir, name[t]), data |-> Added(dir, Place(dir, name[t]), i, name[t])]
  BY <1>1 DEF DirInv, Working, Adding
<1>3. InodeIn(dir, name[t]) = 0 /\ name[t] \in Names /\ Sound(dir, used)
  BY <1>1 DEF DirInv, Placed, Working
<1>4. PICK b : b = Place(dir, name[t])
  OBVIOUS
<1>5. PICK r : r = Added(dir, b, i, name[t])
  OBVIOUS
<1>6. buf[t].block = b /\ buf[t].data = r
  BY <1>2, <1>4, <1>5
<1>7. dir' = Written(dir, b, r) /\ b <= MaxBlocks
  BY <1>1, <1>6
<1>8. PICK n \in Names : n = name[t]
  BY <1>3
<1>9. PICK e : e = dir'
  OBVIOUS
<1>10. Changed(dir, e, n, i, used)
  BY <1>2, <1>3, <1>4, <1>5, <1>7, <1>8, <1>9, AddIs
<1> QED
  BY <1>2, <1>3, <1>8, <1>9, <1>10

\* directory_add_entry writes its block: the name gets its inode.
LEMMA AddWriteInv ==
  ASSUME DirInv, NEW t \in Tasks, AddWrite(t)
  PROVE  DirInv'
<1>1. /\ op[t] = "addwrite" /\ Goes(t, "stale")
      /\ UNCHANGED <<used, children, cached, lock, want, name, seen, node, buf>>
  BY DEF AddWrite, cache, input, memory
<1>2. Sound(dir', used')
  BY <1>1, AddWriteIs DEF Changed
<1> QED
  BY <1>1, <1>2, ToStaleInv

-----------------------------------------------------------------------------
(* unlink                                                                  *)

\* Beside an unlink there are only look-ups.
LEMMA UnlinkAlone ==
  ASSUME DirInv, NEW t \in Tasks, op[t] # "user", want[t] = "unlink", NEW u \in Tasks, u # t
  PROVE  op[u] \in {"user", "find", "merge"}
<1>1. op[u] # "user" => want[u] = "find"
  BY DEF DirInv, Excl, Harmless
<1>2. op[u] \in Ops
  BY DEF DirInv, Types
<1> QED
  BY <1>1, <1>2 DEF DirInv, Placed, Ops

\* directory_remove_entry reads a block: with live first matches, the entry it finds
\* is the one that was looked up.
LEMMA RemoveReadInv ==
  ASSUME DirInv, Faults = {}, NEW t \in Tasks, RemoveRead(t)
  PROVE  DirInv'
<1>1. op[t] = "remove" /\ Goes(t, "removewrite")
      /\ UNCHANGED <<dir, used, children, cached, lock, want, name, seen, node>>
  BY DEF RemoveRead, disk, cache, input
<1>2. want[t] = "unlink" /\ name[t] \in Names /\ lock # t
      /\ node[t] # 0 /\ InodeIn(dir, name[t]) = node[t] /\ Sound(dir, used)
  BY <1>1 DEF DirInv, Placed, Working
<1>3. op' \in [Tasks -> Ops] /\ op'[t] = "removewrite" /\ \A u \in Tasks : u # t => op'[u] = op[u]
  BY <1>1, GoesIs DEF DirInv, Ops
<1>4. Shaped(dir)
  BY <1>2 DEF Sound
<1>5. PICK c, k \in Nat : Sits(dir, c, k, name[t], node[t])
  BY <1>2, InodeIs
<1>6. Matches(dir, name[t]) # {}
  <2>1. c \in 1..Len(dir) /\ k \in 1..Len(dir[c]) /\ dir[c][k].name = name[t]
    BY <1>5 DEF Sits
  <2> QED
    BY <1>4, <2>1, MatchesIs
<1>7. PICK p : p = FirstMatch(dir, name[t])
  OBVIOUS
<1>8. p[1] \in 1..Len(dir) /\ p[2] \in 1..Len(dir[p[1]]) /\ dir[p[1]][p[2]].name = name[t]
  BY <1>4, <1>6, <1>7, FirstMatchIs
<1>9. dir[p[1]][p[2]].ino # 0
      /\ buf' = [buf EXCEPT ![t] = [block |-> p[1], data |-> Removed(dir[p[1]], p[2])]]
  BY <1>6, <1>7 DEF RemoveRead
<1>10. PICK i : i = dir[p[1]][p[2]].ino
  OBVIOUS
<1>11. Sits(dir, p[1], p[2], name[t], i)
  BY <1>8, <1>9, <1>10 DEF Sits
<1>12. i = node[t] /\ p[1] \in Nat /\ p[2] \in Nat
  BY <1>2, <1>4, <1>11, InodeIs, SitsIs
<1>13. Rest(t) /\ DOMAIN buf' = Tasks /\ buf'[t] = [block |-> p[1], data |-> Removed(dir[p[1]], p[2])]
  BY <1>1, <1>3, <1>9 DEF Rest, DirInv, Types
<1>14. Types'
  BY <1>1, <1>3, <1>13 DEF DirInv, Types
<1>15. Excl'
  BY <1>1, <1>13, ExclKept DEF DirInv
<1>16. Cached'
  <2> SUFFICES ASSUME cached', \A u \in Tasks : op'[u] # "stale"
               PROVE  Knows(children', dir', op', name')
    BY DEF Cached
  <2>1. cached /\ \A u \in Tasks : op[u] # "stale"
    BY <1>1, <1>3
  <2>2. Knows(children, dir, op, name)
    BY <2>1 DEF DirInv, Cached
  <2> QED
    BY <1>1, <1>13, <2>2, KnowsStays
<1>17. Placed(t)'
  BY <1>1, <1>2, <1>3 DEF Placed
<1>18. Working(t)'
  <2>1. Removing(t)'
    BY <1>1, <1>11, <1>12, <1>13 DEF Removing
  <2> QED
    BY <1>1, <1>2, <1>3, <2>1 DEF Working
<1> QED
  BY <1>1, <1>13, <1>14, <1>15, <1>16, <1>17, <1>18, QuietStep

\* RemoveWrite takes the entry out.
LEMMA RemoveWriteIs ==
  ASSUME DirInv, NEW t \in Tasks, RemoveWrite(t)
  PROVE  /\ name[t] \in Names /\ InodeIn(dir, name[t]) = node[t] /\ node[t] # 0
         /\ Changed(dir, dir', name[t], 0, used \ {node[t]}) /\ used' = used \ {node[t]}
<1>1. op[t] = "removewrite" /\ used' = used \ {node[t]}
      /\ dir' = IF buf[t].block = 0 THEN dir ELSE [dir EXCEPT ![buf[t].block] = buf[t].data]
  BY DEF RemoveWrite
<1>2. name[t] \in Names /\ InodeIn(dir, name[t]) = node[t] /\ node[t] # 0 /\ Sound(dir, used)
  BY <1>1 DEF DirInv, Placed, Working
<1>3. PICK b, j \in Nat : Sits(dir, b, j, name[t], node[t])
                          /\ buf[t] = [block |-> b, data |-> Removed(dir[b], j)]
  BY <1>1 DEF DirInv, Working, Removing
<1>4. PICK r : r = Removed(dir[b], j)
  OBVIOUS
<1>5. buf[t].block = b /\ buf[t].data = r
  BY <1>3, <1>4
<1>6. b \in 1..Len(dir) /\ Len(dir) \in Nat
  BY <1>2, <1>3, SitsIs, ShapedIs DEF Sound
<1>7. dir' = Written(dir, b, r)
  BY <1>1, <1>5, <1>6 DEF Written
<1>8. PICK n \in Names : n = name[t]
  BY <1>2
<1>9. PICK e : e = dir'
  OBVIOUS
<1>10. Sits(dir, b, j, n, InodeIn(dir, n)) /\ InodeIn(dir, n) # 0
  BY <1>2, <1>3, <1>8
<1>11. Changed(dir, e, n, 0, used \ {InodeIn(dir, n)})
  BY <1>2, <1>4, <1>7, <1>9, <1>10, RemoveIs
<1> QED
  BY <1>1, <1>2, <1>8, <1>9, <1>11

\* directory_remove_entry writes its block: the name is gone from the disk and the
\* child list knows it until the unlink forgets it.
LEMMA RemoveWriteInv ==
  ASSUME DirInv, NEW t \in Tasks, RemoveWrite(t)
  PROVE  DirInv'
<1>1. op[t] = "removewrite" /\ Goes(t, "forget")
      /\ UNCHANGED <<children, cached, lock, want, name, seen, node, buf>>
  BY DEF RemoveWrite, cache, input, memory
<1>2. name[t] \in Names /\ want[t] = "unlink" /\ lock # t
  BY <1>1 DEF DirInv, Placed
<1>3. op' \in [Tasks -> Ops] /\ op'[t] = "forget" /\ \A u \in Tasks : u # t => op'[u] = op[u]
  BY <1>1, GoesIs DEF DirInv, Ops
<1>4. Rest(t)
  BY <1>1, <1>3 DEF Rest
<1>5. Sound(dir', used') /\ InodeIn(dir', name[t]) = 0
      /\ \A m \in Names : m # name[t] => InodeIn(dir', m) = InodeIn(dir, m)
  BY RemoveWriteIs DEF Changed
<1>6. \A u \in Tasks : u # t => op[u] \in {"user", "find", "merge"}
  BY <1>1, <1>2, UnlinkAlone
<1>7. ASSUME NEW m, Knows(m, dir, op, name) PROVE Knows(m, dir', op', name')
  <2>1. \A u \in Tasks : op[u] # "forget"
    BY <1>1, <1>6
  <2>2. \A n \in Names : m[n] = InodeIn(dir, n)
    BY <1>7, <2>1 DEF Knows
  <2>3. op'[t] = "forget" /\ name'[t] = name[t]
    BY <1>1, <1>3
  <2> QED
    BY <1>5, <2>2, <2>3 DEF Knows
<1>8. Types'
  BY <1>1, <1>3 DEF DirInv, Types
<1>9. Excl'
  BY <1>1, <1>4, ExclKept DEF DirInv
<1>10. Cached'
  BY <1>1, <1>3, <1>7 DEF DirInv, Cached
<1>11. ASSUME NEW u \in Tasks PROVE Placed(u)' /\ Working(u)'
  <2>1. CASE u = t
    BY <1>1, <1>2, <1>3, <1>5, <2>1 DEF Placed, Working
  <2>2. CASE u # t
    <3>1. Placed(u)'
      BY <1>1, <1>3, <2>2 DEF DirInv, Placed
    <3>2. op[u] = "merge" => Knows(Merged(seen'[u]), dir', op', name')
      BY <1>1, <1>7 DEF DirInv, Working
    <3> QED
      BY <1>3, <1>6, <2>2, <3>1, <3>2 DEF Working
  <2> QED
    BY <2>1, <2>2
<1> QED
  BY <1>5, <1>8, <1>9, <1>10, <1>11 DEF DirInv

\* unlink takes the node out of the child list, which is right again.
LEMMA ForgetInv ==
  ASSUME DirInv, NEW t \in Tasks, Forget(t)
  PROVE  DirInv'
<1>1. op[t] = "forget" /\ lock = None /\ children' = [children EXCEPT ![name[t]] = 0] /\ Returns(t)
      /\ UNCHANGED <<dir, used, cached, lock>>
  BY DEF Forget, disk
<1>2. name[t] \in Names /\ want[t] = "unlink" /\ InodeIn(dir, name[t]) = 0
  BY <1>1 DEF DirInv, Placed, Working
<1>3. /\ Rest(t) /\ op'[t] = "user"
      /\ op' \in [Tasks -> Ops] /\ want' \in [Tasks -> Wants] /\ name' \in [Tasks -> Names \cup {None}]
      /\ DOMAIN seen' = Tasks /\ node' \in [Tasks -> {0} \cup Inodes] /\ DOMAIN buf' = Tasks
  BY <1>1, ReturnsIs DEF DirInv
<1>4. Types'
  BY <1>1, <1>2, <1>3 DEF DirInv, Types
<1>5. Excl'
  BY <1>1, <1>3, ExclKept DEF DirInv
<1>6. Cached'
  <2> SUFFICES ASSUME cached', NEW n \in Names
               PROVE  children'[n] = InodeIn(dir', n)
    BY DEF Cached, Knows
  <2>1. \A u \in Tasks : u # t => op[u] \in {"user", "find", "merge"}
    BY <1>1, <1>2, UnlinkAlone
  <2>2. cached /\ \A u \in Tasks : op[u] # "stale"
    BY <1>1, <2>1
  <2>3. Knows(children, dir, op, name) /\ DOMAIN children = Names
    BY <2>2 DEF DirInv, Cached, Types
  <2>4. CASE n = name[t]
    BY <1>1, <1>2, <2>3, <2>4
  <2>5. CASE n # name[t]
    <3>1. children[n] = InodeIn(dir, n)
      BY <2>1, <2>3, <2>5 DEF Knows
    <3> QED
      BY <1>1, <2>3, <2>5, <3>1
  <2> QED
    BY <2>4, <2>5
<1>7. Placed(t)' /\ Working(t)'
  <2>1. lock' # t
    BY <1>1, Constants
  <2> QED
    BY <1>3, <2>1 DEF Placed, Working
<1> QED
  BY <1>1, <1>3, <1>4, <1>5, <1>6, <1>7, QuietStep

-----------------------------------------------------------------------------
(* Theorems.                                                               *)

\* The directory create_directory has made.
LEMMA FreshIs ==
  ASSUME NEW d, d = << <<Entry(Here, ".", 3), Entry(Here, "..", BlockUnits - 3)>> >>
  PROVE  Sound(d, {}) /\ \A n \in Names : InodeIn(d, n) = 0
<1>1. PICK x : x = Entry(Here, ".", 3)
  OBVIOUS
<1>2. PICK y : y = Entry(Here, "..", BlockUnits - 3)
  OBVIOUS
<1>3. x \in Entries /\ x.name = "." /\ x.size = 3
  BY <1>1, MakesEntry, Constants
<1>4. y \in Entries /\ y.name = ".." /\ y.size = BlockUnits - 3
  BY <1>2, MakesEntry, Constants
<1>5. PICK k : k = <<x, y>>
  OBVIOUS
<1>6. k \in Seq(Entries) /\ Len(k) = 2 /\ k[1] = x /\ k[2] = y
  BY <1>3, <1>4, <1>5
<1>7. d = <<k>>
  BY <1>1, <1>2, <1>5
<1>8. d \in Seq(Seq(Entries)) /\ Len(d) = 1 /\ d[1] = k
  BY <1>6, <1>7
<1>9. Tiled(k)
  <2>1. PICK off : off = [j \in 1..3 |-> IF j = 1 THEN 0 ELSE IF j = 2 THEN 3 ELSE BlockUnits]
    OBVIOUS
  <2>2. off \in [1..(Len(k) + 1) -> 0..BlockUnits]
    BY <1>6, <2>1, Constants
  <2>3. off[1] = 0 /\ off[2] = 3 /\ off[3] = BlockUnits
    BY <2>1
  <2>4. Used(".") = 3 /\ Used("..") = 3
    BY DEF Used
  <2>5. ASSUME NEW j \in 1..Len(k)
        PROVE  off[j + 1] = off[j] + k[j].size /\ k[j].size >= Used(k[j].name) /\ off[j] >= j - 1
    <3>1. j = 1 \/ j = 2
      BY <1>6
    <3>2. CASE j = 1
      BY <1>3, <1>6, <2>3, <2>4, <3>2
    <3>3. CASE j = 2
      BY <1>4, <1>6, <2>3, <2>4, <3>3, Constants
    <3> QED
      BY <3>1, <3>2, <3>3
  <2>6. off[Len(k) + 1] = BlockUnits
    BY <1>6, <2>3
  <2>7. Offsets(k, off)
    BY <2>2, <2>3, <2>5, <2>6 DEF Offsets
  <2> QED
    BY <2>7, TiledIs
<1>10. Shaped(d)
  <2>1. ASSUME NEW b \in 1..Len(d) PROVE Len(d[b]) > 0 /\ Tiled(d[b])
    <3>1. d[b] = k
      BY <1>8
    <3>2. Tiled(d[b])
      BY <1>9, <3>1, Zenon
    <3> QED
      BY <1>6, <3>1, <3>2
  <2> QED
    BY <1>8, <2>1, Constants DEF Shaped
<1>11. ASSUME NEW b, NEW j, NEW n \in Names, NEW i, Sits(d, b, j, n, i) PROVE FALSE
  <2>1. b = 1 /\ (j = 1 \/ j = 2) /\ d[b][j].name = n
    BY <1>6, <1>8, <1>11 DEF Sits
  <2> QED
    BY <1>3, <1>4, <1>6, <1>8, <2>1, Constants
<1>12. Sound(d, {})
  BY <1>10, <1>11 DEF Sound, Single
<1>13. ASSUME NEW n \in Names PROVE InodeIn(d, n) = 0
  BY <1>11, <1>12, InodeIs
<1> QED
  BY <1>12, <1>13

\* A directory that create_directory has made satisfies the invariant.
LEMMA InitInv ==
  ASSUME Init
  PROVE  DirInv
<1>1. Sound(dir, used) /\ \A n \in Names : InodeIn(dir, n) = 0
  BY FreshIs DEF Init
<1>2. Types
  BY DEF Init, Types, Ops, Wants
<1>3. Excl /\ Cached
  BY DEF Init, Excl, Cached
<1>4. \A t \in Tasks : Placed(t) /\ Working(t)
  BY Constants DEF Init, Placed, Working
<1> QED
  BY <1>1, <1>2, <1>3, <1>4 DEF DirInv

\* Without a step of the directory its variables stay.
LEMMA StutterInv ==
  ASSUME DirInv, UNCHANGED vars
  PROVE  DirInv'
<1>1. /\ dir' = dir /\ used' = used /\ children' = children /\ cached' = cached /\ lock' = lock
      /\ op' = op /\ want' = want /\ name' = name /\ seen' = seen /\ node' = node /\ buf' = buf
  BY DEF vars, disk, cache, task, input, memory
<1> QED
  BY <1>1 DEF DirInv, Types, Excl, Cached, Placed, Working, Adding, Removing, Knows

\* Every step of every call keeps the invariant.
LEMMA NextInv ==
  ASSUME DirInv, Faults = {}, [Next]_vars
  PROVE  DirInv'
<1>1. CASE UNCHANGED vars
  BY <1>1, StutterInv
<1>2. ASSUME NEW t \in Tasks, Step(t) PROVE DirInv'
  <2>1. ASSUME NEW w \in Wants, NEW n \in Names, Call(t, w, n) PROVE DirInv'
    BY <2>1, CallInv
  <2>2. CASE AddNoInode(t)
    <3>1. op[t] = "add" /\ Goes(t, "stale")
          /\ UNCHANGED <<dir, used, children, cached, lock, want, name, seen, node, buf>>
      BY <2>2 DEF AddNoInode, disk, cache, input, memory
    <3>2. Sound(dir', used')
      BY <3>1 DEF DirInv
    <3> QED
      BY <3>1, <3>2, ToStaleInv
  <2>3. CASE AddNoSpace(t)
    <3>1. op[t] = "addwrite" /\ Goes(t, "stale")
          /\ UNCHANGED <<dir, used, children, cached, lock, want, name, seen, node, buf>>
      BY <2>3 DEF AddNoSpace, disk, cache, input, memory
    <3>2. Sound(dir', used')
      BY <3>1 DEF DirInv
    <3> QED
      BY <3>1, <3>2, ToStaleInv
  <2> QED
    BY <1>2, <2>1, <2>2, <2>3, FindCachedInv, FindLoadInv, FindMergeInv, AddReadInv, AddWriteInv,
       AddStaleInv, RemoveReadInv, RemoveWriteInv, ForgetInv DEF Step
<1> QED
  BY <1>1, <1>2 DEF Next

\* The inductive invariant holds of every directory whose calls do not race and whose
\* removals find live entries: look-ups beside one unlink, or a creat alone.
THEOREM DirectoryInv ==
  ASSUME Faults = {}
  PROVE  Spec => []DirInv
<1>1. Init => DirInv
  BY InitInv
<1>2. DirInv /\ [Next]_vars => DirInv'
  BY NextInv
<1> QED
  BY <1>1, <1>2, PTL DEF Spec

\* A name and its inode, as an entry.
LEMMA OneEntryFollows ==
  ASSUME DirInv
  PROVE  OneEntry
<1>1. Sound(dir, used) /\ Shaped(dir)
  BY DEF DirInv, Sound
<1>2. ASSUME NEW x \in Named
      PROVE  x[1] \in Names /\ x = <<x[1], x[2]>> /\ x[2] \in used /\ InodeIn(dir, x[1]) = x[2] /\ x[2] # 0
  <2>1. x[1] \in Names /\ x = <<x[1], x[2]>> /\ x \in Live(dir)
    BY <1>1, LiveIs DEF Named
  <2>2. PICK n, i : n = x[1] /\ i = x[2]
    OBVIOUS
  <2>3. <<n, i>> \in Live(dir)
    BY <2>1, <2>2
  <2>4. PICK b, j \in Nat : Sits(dir, b, j, n, i)
    BY <1>1, <2>3, LiveIs
  <2>5. i # 0
    BY <2>4 DEF Sits
  <2>6. InodeIn(dir, n) = i /\ InodeIn(dir, n) \in {0} \cup used
    BY <1>1, <2>1, <2>2, <2>4, InodeIs
  <2> QED
    BY <2>1, <2>2, <2>5, <2>6
<1>3. ASSUME NEW x \in Named, NEW y \in Named, x # y PROVE x[1] # y[1] /\ x[2] # y[2]
  BY <1>1, <1>2, <1>3, InodeOnce
<1> QED
  BY <1>2, <1>3 DEF OneEntry

\* No sequence of creat and unlink, with look-ups between their steps, gives a name
\* two entries or an inode two names, or leaves an entry to a freed inode.
THEOREM OneEntryOfAName ==
  ASSUME Faults = {}
  PROVE  Spec => []OneEntry
<1>1. DirInv => OneEntry
  BY OneEntryFollows
<1> QED
  BY <1>1, DirectoryInv, PTL

\* Between the calls a child list that counts as up to date, as read_dir, creat and
\* unlink have left it, gives for each name the inode on the disk.
THEOREM ChildListIsTheDisk ==
  ASSUME Faults = {}
  PROVE  Spec => []CacheCoherent
<1>1. ASSUME DirInv, cached, \A t \in Tasks : op[t] = "user", NEW n \in Names
      PROVE  children[n] = InodeOf(n)
  <2>1. Knows(children, dir, op, name)
    BY <1>1 DEF DirInv, Cached
  <2>2. children[n] = InodeIn(dir, n)
    BY <1>1, <2>1 DEF Knows
  <2> QED
    BY <2>2, InodeOfIs
<1>2. DirInv => CacheCoherent
  BY <1>1 DEF CacheCoherent
<1> QED
  BY <1>2, DirectoryInv, PTL

\* The map of a directory.
Mapped == [n \in Names |-> InodeOf(n)]

\* The map, before a step and after it.
LEMMA MappedIs ==
  Mapped = [n \in Names |-> InodeIn(dir, n)] /\ Mapped' = [n \in Names |-> InodeIn(dir', n)]
BY InodeOfIs DEF Mapped

\* A new directory has no file.
LEMMA InitMaps ==
  ASSUME Init
  PROVE  Map!Init
<1>1. \A n \in Names : InodeIn(dir, n) = 0
  BY FreshIs DEF Init
<1> QED
  BY <1>1, InodeOfIs DEF Map!Init

\* A step that writes no block leaves the map.
LEMMA OnlyWritesMap ==
  ASSUME NEW t \in Tasks, Step(t), ~AddWrite(t), ~RemoveWrite(t)
  PROVE  dir' = dir
BY DEF Step, Call, FindCached, FindLoad, FindMerge, AddRead, AddNoInode, AddNoSpace, AddStale, RemoveRead,
       Forget, disk

\* AddWrite creates a name, RemoveWrite removes one, every other step leaves the map.
LEMMA StepMaps ==
  ASSUME DirInv, [Next]_vars
  PROVE  [Map!Next]_Mapped
<1>1. CASE dir' = dir
  BY <1>1, MappedIs
<1>2. ASSUME NEW t \in Tasks, AddWrite(t) PROVE Map!Next
  <2>1. PICK i \in used : /\ \A n \in Names : InodeIn(dir, n) # i
                          /\ InodeIn(dir, name[t]) = 0 /\ name[t] \in Names
                          /\ Changed(dir, dir', name[t], i, used)
    BY <1>2, AddWriteIs
  <2>2. i \in Inodes
    BY <2>1 DEF DirInv, Sound
  <2>3. Mapped' = [Mapped EXCEPT ![name[t]] = i]
    BY <2>1, MappedIs DEF Changed
  <2>4. Map!Create(name[t], i)
    BY <2>1, <2>3, MappedIs DEF Map!Create, Mapped
  <2> QED
    BY <2>1, <2>2, <2>4 DEF Map!Next
<1>3. ASSUME NEW t \in Tasks, RemoveWrite(t) PROVE Map!Next
  <2>1. /\ name[t] \in Names /\ InodeIn(dir, name[t]) = node[t] /\ node[t] # 0
        /\ Changed(dir, dir', name[t], 0, used \ {node[t]})
    BY <1>3, RemoveWriteIs
  <2>2. Mapped' = [Mapped EXCEPT ![name[t]] = 0]
    BY <2>1, MappedIs DEF Changed
  <2>3. Map!Remove(name[t])
    BY <2>1, <2>2, MappedIs DEF Map!Remove, Mapped
  <2> QED
    BY <2>1, <2>3 DEF Map!Next
<1>4. CASE UNCHANGED vars
  BY <1>1, <1>4 DEF vars, disk
<1> QED
  BY <1>1, <1>2, <1>3, <1>4, OnlyWritesMap DEF Next

\* creat and unlink implement a map from names to inodes: each changes it at its name
\* alone and in one step, the write of the block, and nothing else changes it.
THEOREM DirectoryIsAMap ==
  ASSUME Faults = {}
  PROVE  Spec => Implements
<1>1. Init => Map!Init
  BY InitMaps
<1>2. DirInv /\ [Next]_vars => [Map!Next]_Mapped
  BY StepMaps
<1> QED
  BY <1>1, <1>2, DirectoryInv, PTL DEF Spec, Implements, Map!Spec, Mapped

\* The ends of the entries are their offsets: the recursion has one solution.
LEMMA EndIs ==
  ASSUME NEW k \in Seq(Entries), Tiled(k)
  PROVE  EndOf(k) = BlockUnits
<1>1. PICK off : Offsets(k, off)
  BY TiledIs
<1>2. /\ off \in [1..(Len(k) + 1) -> 0..BlockUnits] /\ off[1] = 0 /\ off[Len(k) + 1] = BlockUnits
      /\ \A j \in 1..Len(k) : off[j + 1] = off[j] + k[j].size
  BY <1>1 DEF Offsets
<1> DEFINE Solves(g) == g = [j \in 0..Len(k) |-> IF j = 0 THEN 0 ELSE g[j - 1] + k[j].size]
<1> DEFINE end == CHOOSE g : Solves(g)
<1>3. EndOf(k) = end[Len(k)]
  BY DEF EndOf
<1>4. PICK g : g = [j \in 0..Len(k) |-> off[j + 1]]
  OBVIOUS
<1>5. Solves(g)
  <2>1. ASSUME NEW j \in 0..Len(k) PROVE off[j + 1] = IF j = 0 THEN 0 ELSE g[j - 1] + k[j].size
    BY <1>2, <1>4
  <2> QED
    BY <1>4, <2>1
<1>6. Solves(end)
  BY <1>5
<1>7. PICK f : f = end
  OBVIOUS
<1>8. Solves(f)
  BY <1>6, <1>7
<1>9. \A j \in 0..Len(k) : f[j] = IF j = 0 THEN 0 ELSE f[j - 1] + k[j].size
  BY <1>8
<1> HIDE DEF Solves, end
<1>10. {j \in 0..Len(k) : f[j] # off[j + 1]} = {}
  <2> SUFFICES ASSUME {j \in 0..Len(k) : f[j] # off[j + 1]} # {} PROVE FALSE
    OBVIOUS
  <2>1. PICK S : S = {j \in 0..Len(k) : f[j] # off[j + 1]}
    OBVIOUS
  <2>2. S \in SUBSET Nat /\ S # {}
    BY <2>1
  <2>3. PICK m \in S : \A x \in S : m <= x
    BY <2>2, LeastOf
  <2>4. m \in 0..Len(k) /\ f[m] # off[m + 1]
    BY <2>1, <2>3
  <2>5. m # 0
    BY <1>2, <1>9, <2>4
  <2>6. m - 1 \in 0..Len(k) /\ m - 1 \notin S
    BY <2>2, <2>3, <2>4, <2>5
  <2>7. f[m - 1] = off[m]
    BY <2>1, <2>4, <2>6
  <2>8. f[m] = f[m - 1] + k[m].size
    BY <1>9, <2>4, <2>5
  <2>9. off[m + 1] = off[m] + k[m].size
    BY <1>2, <2>4, <2>5
  <2> QED
    BY <2>4, <2>7, <2>8, <2>9
<1>11. f[Len(k)] = off[Len(k) + 1]
  BY <1>10
<1> QED
  BY <1>2, <1>3, <1>7, <1>11

\* However creat and unlink split and merge entries, their sizes add up to the block
\* and each has room for its name: the walks by entry_size stay on entries.
THEOREM BlocksAreFull ==
  ASSUME Faults = {}
  PROVE  Spec => []Tiles
<1>1. ASSUME DirInv, NEW b \in 1..Len(dir)
      PROVE  EndOf(dir[b]) = BlockUnits /\ \A j \in 1..Len(dir[b]) : dir[b][j].size >= Used(dir[b][j].name)
  <2>1. dir[b] \in Seq(Entries) /\ Tiled(dir[b])
    BY <1>1, ShapedIs DEF DirInv, Sound
  <2> QED
    BY <2>1, EndIs DEF Tiled
<1>2. DirInv => Tiles
  BY <1>1 DEF Tiles
<1> QED
  BY <1>2, DirectoryInv, PTL

\* What is read to be written back is a block.
Buffers == \A t \in Tasks : buf[t].block > 0 => IsBlock(buf[t].data)

\* A sequence of entries is a block.
LEMMA IsBlockIs ==
  ASSUME NEW k \in Seq(Entries), Len(k) > 0
  PROVE  IsBlock(k)
BY DEF IsBlock

\* directory_add_entry makes a block.
LEMMA AddedIsBlock ==
  ASSUME NEW d, Shaped(d), NEW n \in Names, NEW i \in Inodes
  PROVE  IsBlock(Added(d, Place(d, n), i, n))
<1>1. PICK b : b = Place(d, n)
  OBVIOUS
<1>2. Len(d) \in Nat
  BY DEF Shaped
<1>3. CASE b = Len(d) + 1
  <2>1. Added(d, b, i, n) = <<Entry(i, n, BlockUnits)>>
    BY <1>2, <1>3 DEF Added
  <2>2. PICK r : r = <<Entry(i, n, BlockUnits)>>
    OBVIOUS
  <2>3. r \in Seq(Entries) /\ Len(r) = 1
    BY <2>2, NewBlockIs
  <2>4. IsBlock(r)
    BY <2>3, IsBlockIs
  <2> QED
    BY <1>1, <2>1, <2>2, <2>4
<1>4. CASE b \in 1..Len(d) /\ HasRoom(d[b], n)
  <2>1. Added(d, b, i, n) = Split(d[b], i, n)
    BY <1>2, <1>4 DEF Added
  <2>2. d[b] \in Seq(Entries) /\ Len(d[b]) \in Nat /\ Len(d[b]) > 0 /\ Tiled(d[b])
    BY <1>4, ShapedIs
  <2>3. PICK k : k = d[b]
    OBVIOUS
  <2>4. PICK r : r = Split(k, i, n)
    OBVIOUS
  <2>5. r \in Seq(Entries) /\ Len(r) = Len(k) + 1
    BY <1>4, <2>2, <2>3, <2>4, SplitIs
  <2>6. IsBlock(r)
    BY <2>2, <2>3, <2>5, IsBlockIs
  <2> QED
    BY <1>1, <2>1, <2>3, <2>4, <2>6
<1> QED
  BY <1>1, <1>3, <1>4, PlaceIs

\* directory_remove_entry leaves a block.
LEMMA RemovedIsBlock ==
  ASSUME NEW k \in Seq(Entries), Len(k) > 0, Tiled(k), NEW j \in 1..Len(k)
  PROVE  IsBlock(Removed(k, j))
<1>1. PICK r : r = Removed(k, j)
  OBVIOUS
<1>2. CASE j = 1
  <2>1. r \in Seq(Entries) /\ Len(r) = Len(k)
    BY <1>1, <1>2, RemovedFirst
  <2> QED
    BY <1>1, <2>1, IsBlockIs
<1>3. CASE j \in 2..Len(k)
  <2>1. r \in Seq(Entries) /\ Len(r) = Len(k) - 1
    BY <1>1, <1>3, RemovedLater
  <2> QED
    BY <1>1, <1>3, <2>1, IsBlockIs
<1> QED
  BY <1>2, <1>3

\* Every step keeps the blocks that are about to be written blocks.
LEMMA BuffersKept ==
  ASSUME DirInv, Buffers, [Next]_vars
  PROVE  Buffers'
<1>1. CASE buf' = buf
  BY <1>1 DEF Buffers
<1>2. ASSUME NEW t \in Tasks, Step(t), buf' # buf PROVE Buffers'
  <2>1. DOMAIN buf = Tasks /\ Shaped(dir)
    BY DEF DirInv, Types, Sound
  <2>2. ASSUME NEW x, buf' = [buf EXCEPT ![t] = x], x.block > 0 => IsBlock(x.data) PROVE Buffers'
    BY <2>1, <2>2 DEF Buffers
  <2>3. ASSUME Returns(t) PROVE Buffers'
    <3>1. buf' = [buf EXCEPT ![t] = Nothing]
      BY <2>3 DEF Returns
    <3>2. ~(Nothing.block > 0)
      BY DEF Nothing
    <3> QED
      BY <2>2, <3>1, <3>2
  <2>4. ASSUME NEW i, Decided(t, i) PROVE Buffers'
    <3>1. want[t] \in {"find", "creat", "unlink"}
      BY DEF DirInv, Types, Wants
    <3>2. Returns(t) \/ buf' = buf
      BY <2>4, <3>1 DEF Decided
    <3> QED
      BY <1>1, <2>3, <3>2
  <2>5. CASE AddRead(t)
    <3>1. PICK i \in Inodes :
            buf' = [buf EXCEPT ![t] = [block |-> Place(dir, name[t]),
                                       data |-> Added(dir, Place(dir, name[t]), i, name[t])]]
      BY <2>5 DEF AddRead
    <3>2. name[t] \in Names
      BY <2>5 DEF AddRead, DirInv, Placed
    <3>3. PICK b : b = Place(dir, name[t])
      OBVIOUS
    <3>4. PICK r : r = Added(dir, b, i, name[t])
      OBVIOUS
    <3>5. IsBlock(r)
      BY <2>1, <3>2, <3>3, <3>4, AddedIsBlock
    <3>6. [block |-> b, data |-> r].data = r
      OBVIOUS
    <3> QED
      BY <2>2, <3>1, <3>3, <3>4, <3>5, <3>6
  <2>6. CASE RemoveRead(t)
    <3>1. PICK p : p = FirstMatch(dir, name[t])
      OBVIOUS
    <3>2. Matches(dir, name[t]) # {}
          /\ buf' = [buf EXCEPT ![t] = [block |-> p[1], data |-> Removed(dir[p[1]], p[2])]]
      BY <1>2, <2>6, <3>1 DEF RemoveRead
    <3>3. p[1] \in 1..Len(dir) /\ p[2] \in 1..Len(dir[p[1]])
      BY <2>1, <3>1, <3>2, FirstMatchIs
    <3>4. PICK k : k = dir[p[1]]
      OBVIOUS
    <3>5. k \in Seq(Entries) /\ Len(k) > 0 /\ Tiled(k)
      BY <2>1, <3>3, <3>4, ShapedIs
    <3>6. PICK r : r = Removed(k, p[2])
      OBVIOUS
    <3>7. IsBlock(r)
      BY <3>3, <3>4, <3>5, <3>6, RemovedIsBlock
    <3>8. [block |-> p[1], data |-> r].data = r
      OBVIOUS
    <3> QED
      BY <2>2, <3>2, <3>4, <3>6, <3>7, <3>8
  <2>7. ASSUME FindCached(t) \/ FindMerge(t) PROVE Buffers'
    BY <2>4, <2>7 DEF FindCached, FindMerge
  <2>8. ASSUME AddStale(t) \/ Forget(t) PROVE Buffers'
    BY <2>3, <2>8 DEF AddStale, Forget
  <2> QED
    BY <1>2, <2>5, <2>6, <2>7, <2>8
    DEF Step, Call, FindLoad, AddNoInode, AddWrite, AddNoSpace, RemoveWrite, memory
<1> QED
  BY <1>1, <1>2 DEF Next, vars, task, memory

\* The variables keep their types; no entry has size 0, at which the loop of
\* directory_add_entry would never get further.
THEOREM DirectoryTypes ==
  ASSUME Faults = {}
  PROVE  Spec => []TypeOK
<1>1. Init => Buffers
  BY DEF Init, Buffers, Nothing
<1>2. DirInv /\ Buffers /\ [Next]_vars => Buffers'
  BY BuffersKept
<1>3. ASSUME DirInv, Buffers PROVE TypeOK
  <2>1. Shaped(dir) /\ used \subseteq Inodes /\ Types
    BY <1>3 DEF DirInv, Sound
  <2>2. Len(dir) \in 1..MaxBlocks
    BY <2>1 DEF Shaped
  <2>3. \A b \in 1..Len(dir) : IsBlock(dir[b])
    BY <2>1, ShapedIs, IsBlockIs
  <2> QED
    BY <1>3, <2>1, <2>2, <2>3 DEF TypeOK, Types, Buffers
<1> QED
  BY <1>1, <1>2, <1>3, DirectoryInv, PTL DEF Spec
=============================================================================
