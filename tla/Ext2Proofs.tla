----------------------------- MODULE Ext2Proofs -----------------------------
(***************************************************************************)
(* The block and inode store, for any volume, any tasks and any calls.     *)
(* First the types and the counts of the bitmaps (InOrder), whatever the   *)
(* tasks do to one another.  Then the files (Tidy): while no two tasks work*)
(* on one file, every position of a file, from a pointer of the inode down *)
(* the indirect blocks, has its block for itself.  Last what the invariant *)
(* says of the blocks that inodes name, on the disk and in the calls.      *)
(*                                                                         *)
(* A step of the driver either leaves the positions of its file and their  *)
(* blocks as they are (SameStep), puts a block at one position (PutStep),  *)
(* gives positions up (ShedStep) or hangs a block on block 0, which belongs*)
(* to no file (LostStep): W are the blocks that hang there.                *)
(***************************************************************************)
EXTENDS Ext2, SequenceTheorems, FiniteSetTheorems, WellFoundedInduction, TLAPS

-----------------------------------------------------------------------------
(* Numbers.                                                                *)

\* A set of numbers has a least one.
LEMMA LeastOf ==
  ASSUME NEW S \in SUBSET Nat, S # {}
  PROVE  \E m \in S : \A x \in S : m <= x
<1>1. PICK m \in S : \A x \in S : <<x, m>> \notin OpToRel(<, Nat)
  BY NatLessThanWellFounded, WFMin
<1>2. \A x \in S : ~(x < m)
  BY <1>1 DEF OpToRel
<1> QED BY <1>2

\* A number is the quotient, times the divisor, and the remainder.
LEMMA DivMod ==
  ASSUME NEW m \in Nat, m > 0, NEW a \in Int
  PROVE  a \div m \in Int /\ a % m \in 0..(m - 1) /\ a = m * (a \div m) + (a % m)
OBVIOUS

\* Products of neighbours are a whole factor apart.
LEMMA Multiples ==
  ASSUME NEW m \in Nat, NEW q \in Int, NEW s \in Int, s <= q - 1
  PROVE  m * s <= m * q - m
<1>1. PICK k \in Nat : s = q - 1 - k
  <2>1. q - 1 - s \in Nat
    OBVIOUS
  <2> QED BY <2>1
<1>2. m * s = m * q - m - m * k
  BY <1>1
<1>3. m * k >= 0
  OBVIOUS
<1>4. m * s \in Int /\ m * q \in Int /\ m * k \in Int
  OBVIOUS
<1> QED BY <1>2, <1>3, <1>4

\* Quotient and remainder are unique.
LEMMA Unique ==
  ASSUME NEW m \in Nat, m > 0, NEW a \in Int, NEW q \in Int, NEW r \in 0..(m - 1), a = m * q + r
  PROVE  a \div m = q /\ a % m = r
<1> DEFINE d == a \div m
           e == a % m
<1>1. d \in Int /\ e \in 0..(m - 1) /\ a = m * d + e
  BY DivMod
<1> HIDE DEF d, e
<1>0. m * d \in Int /\ m * q \in Int
  BY <1>1
<1>2. ASSUME d <= q - 1 PROVE FALSE
  BY <1>0, <1>1, <1>2, Multiples
<1>3. ASSUME q <= d - 1 PROVE FALSE
  BY <1>0, <1>1, <1>3, Multiples
<1>4. d = q
  BY <1>1, <1>2, <1>3
<1>5. e = r
  BY <1>0, <1>1, <1>4
<1> QED BY <1>4, <1>5 DEF d, e

\* A quotient is in the range that the number is in.
LEMMA Quotient ==
  ASSUME NEW m \in Nat, m > 0, NEW n \in Nat, NEW a \in 0..(m * n - 1)
  PROVE  a \div m \in 0..(n - 1)
<1> DEFINE d == a \div m
           e == a % m
<1>0. a \in Int /\ m * n \in Int /\ 0 <= a /\ a <= m * n - 1
  OBVIOUS
<1>1. d \in Int /\ e \in 0..(m - 1) /\ a = m * d + e
  BY <1>0, DivMod
<1> HIDE DEF d, e
<1>2. m * d \in Int
  BY <1>1
<1>3. ASSUME n <= d PROVE FALSE
  <2>1. m * n <= m * (d + 1) - m
    BY <1>1, <1>3, Multiples
  <2>2. m * (d + 1) = m * d + m
    BY <1>1
  <2> QED BY <1>0, <1>1, <1>2, <2>1, <2>2
<1>4. ASSUME d <= -1 PROVE FALSE
  <2>1. m * d <= m * 0 - m
    BY <1>1, <1>4, Multiples
  <2> QED BY <1>0, <1>1, <1>2, <2>1
<1> QED BY <1>1, <1>3, <1>4 DEF d

\* A remainder is no more than the number, and is the number below the divisor.
LEMMA Remainder ==
  ASSUME NEW m \in Nat, m > 0, NEW a \in Nat
  PROVE  a % m \in Nat /\ a % m <= a /\ (a < m => a % m = a)
<1>1. a \div m \in Int /\ a % m \in 0..(m - 1) /\ a = m * (a \div m) + (a % m)
  BY DivMod
<1>2. CASE a < m
  <2>1. a \in 0..(m - 1) /\ a = m * 0 + a
    BY <1>2
  <2>2. a % m = a
    BY <2>1, Unique
  <2> QED BY <2>2
<1>3. CASE a >= m
  BY <1>1, <1>3
<1> QED BY <1>2, <1>3

-----------------------------------------------------------------------------
(* The volume.                                                             *)

\* What the assumptions on the constants say of groups, blocks and inodes.
LEMMA Volume ==
  /\ Groups \in Nat /\ Groups > 0 /\ BlocksPerGroup \in Nat /\ BlocksPerGroup > 0
  /\ InodesPerGroup \in Nat /\ InodesPerGroup > 0 /\ FirstInode \in Nat /\ FirstInode > 0
  /\ 0 \in TakenBlocks /\ TakenBlocks \subseteq Blocks /\ 0 \in Blocks
  /\ TakenInodes \subseteq Inodes /\ \A i \in Inodes : i < FirstInode => i \in TakenInodes
  /\ Blocks \subseteq Nat /\ Inodes \subseteq Nat \ {0}
  /\ GroupIds \subseteq Nat /\ GroupIds = 0..(Groups - 1)
<1>1. Groups * BlocksPerGroup \in Int /\ Groups * InodesPerGroup \in Int
  BY VolumeAssumption
<1>2. TakenInodes \subseteq Inodes /\ TakenBlocks \subseteq Blocks
  BY VolumeAssumption DEF Inodes, Blocks
<1>3. ASSUME NEW i \in Inodes, i < FirstInode PROVE i \in TakenInodes
  <2>1. i \in 1..(FirstInode - 1)
    BY <1>1, <1>3, VolumeAssumption DEF Inodes
  <2> QED BY <2>1, VolumeAssumption
<1>4. Blocks \subseteq Nat /\ Inodes \subseteq Nat \ {0} /\ GroupIds \subseteq Nat
  BY <1>1, VolumeAssumption DEF Blocks, Inodes, GroupIds
<1>5. 0 \in Blocks
  BY <1>2, VolumeAssumption
<1> QED BY <1>2, <1>3, <1>4, <1>5, VolumeAssumption DEF GroupIds

\* There are finitely many blocks and inodes.
LEMMA VolumeFinite == IsFiniteSet(Blocks) /\ IsFiniteSet(Inodes)
<1>1. Groups * BlocksPerGroup \in Int /\ Groups * InodesPerGroup \in Int
  BY VolumeAssumption
<1> QED BY <1>1, FS_Interval DEF Blocks, Inodes

\* Every block and every inode is in a group.
LEMMA InGroups ==
  /\ BlockGroup \in [Blocks -> GroupIds]
  /\ InodeGroup \in [Inodes -> GroupIds]
<1>1. ASSUME NEW b \in Blocks PROVE b \div BlocksPerGroup \in GroupIds
  <2>1. Groups * BlocksPerGroup = BlocksPerGroup * Groups
    BY Volume
  <2>2. b \in 0..(BlocksPerGroup * Groups - 1)
    BY <2>1 DEF Blocks
  <2> QED BY <2>2, Volume, Quotient
<1>2. ASSUME NEW i \in Inodes PROVE (i - 1) \div InodesPerGroup \in GroupIds
  <2>1. Groups * InodesPerGroup = InodesPerGroup * Groups /\ Groups * InodesPerGroup \in Int
    BY Volume
  <2>2. i - 1 \in 0..(InodesPerGroup * Groups - 1)
    BY <2>1 DEF Inodes
  <2> QED BY <2>2, Volume, Quotient
<1> QED BY <1>1, <1>2 DEF BlockGroup, InodeGroup

\* A group has its turn once in a search.
LEMMA Turns ==
  ASSUME NEW s \in GroupIds, NEW g \in GroupIds
  PROVE  /\ Turn(g, s) \in Nat
         /\ \A h \in GroupIds : Turn(h, s) = Turn(g, s) => h = g
<1>1. ASSUME NEW h \in GroupIds PROVE Turn(h, s) = IF h >= s THEN h - s ELSE h - s + Groups
  <2>1. h \in Int /\ s \in Int /\ 0 <= h /\ h <= Groups - 1 /\ 0 <= s /\ s <= Groups - 1 /\ Groups \in Nat /\ Groups > 0
    BY Volume
  <2>2. CASE h >= s
    <3>1. h - s \in 0..(Groups - 1) /\ h - s = Groups * 0 + (h - s)
      BY <2>1, <2>2
    <3>2. (h - s) % Groups = h - s
      BY <2>1, <3>1, Unique
    <3> QED BY <2>2, <3>2 DEF Turn
  <2>3. CASE h < s
    <3>1. h - s + Groups \in 0..(Groups - 1) /\ h - s = Groups * (-1) + (h - s + Groups)
      BY <2>1, <2>3
    <3>2. (h - s) % Groups = h - s + Groups
      BY <2>1, <3>1, Unique
    <3> QED BY <2>1, <2>3, <3>2 DEF Turn
  <2> QED BY <2>1, <2>2, <2>3
<1>2. \A h \in GroupIds : h \in Int /\ 0 <= h /\ h <= Groups - 1
  BY Volume
<1> QED BY <1>1, <1>2, Volume

\* The search finds something unless no group has a free one: of the groups with a
\* free one the first in turn, and its first.
LEMMA Found ==
  ASSUME NEW S \in SUBSET Nat, NEW G, \A x \in S : G[x] \in GroupIds, NEW count, NEW start \in GroupIds
  PROVE  /\ FirstFree(S, G, count, start) = -1 \/ FirstFree(S, G, count, start) \in S
         /\ FirstFree(S, G, count, start) < 0 <=> \A x \in S : count[G[x]] = 0
<1> DEFINE C == {x \in S : count[G[x]] # 0}
           Before(x, y) == \/ Turn(G[x], start) < Turn(G[y], start)
                           \/ G[x] = G[y] /\ x <= y
           First == CHOOSE x \in C : \A y \in C : Before(x, y)
<1>1. FirstFree(S, G, count, start) = IF C = {} THEN -1 ELSE First
  BY DEF FirstFree
<1>2. ASSUME C # {} PROVE First \in C
  <2>1. \A x \in C : G[x] \in GroupIds /\ Turn(G[x], start) \in Nat /\ x \in Nat
    BY Turns
  <2>2. PICK m \in {Turn(G[x], start) : x \in C} : \A n \in {Turn(G[x], start) : x \in C} : m <= n
    <3>1. {Turn(G[x], start) : x \in C} \in SUBSET Nat /\ {Turn(G[x], start) : x \in C} # {}
      BY <1>2, <2>1
    <3> QED BY <3>1, LeastOf
  <2>3. PICK a \in C : m = Turn(G[a], start)
    BY <2>2
  <2>4. PICK b \in {x \in C : G[x] = G[a]} : \A x \in {y \in C : G[y] = G[a]} : b <= x
    <3>1. {x \in C : G[x] = G[a]} \in SUBSET Nat /\ {x \in C : G[x] = G[a]} # {}
      BY <2>1
    <3> HIDE DEF C
    <3> QED BY <3>1, LeastOf
  <2>5. ASSUME NEW y \in C PROVE Before(b, y)
    <3>1. Turn(G[b], start) <= Turn(G[y], start)
      BY <2>2, <2>3, <2>4
    <3>2. G[b] \in GroupIds /\ G[y] \in GroupIds /\ Turn(G[b], start) \in Nat /\ Turn(G[y], start) \in Nat
      BY <2>1, <2>4
    <3>3. CASE Turn(G[b], start) = Turn(G[y], start)
      <4>1. G[b] = G[y]
        BY <3>2, <3>3, Turns
      <4> QED BY <2>4, <4>1
    <3> QED BY <3>1, <3>2, <3>3
  <2>6. \E x \in C : \A y \in C : Before(x, y)
    BY <2>4, <2>5
  <2> HIDE DEF C, Before
  <2> QED BY <2>6
<1>3. ASSUME C # {} PROVE First \in S /\ First >= 0
  <2>1. First \in S
    BY <1>2, <1>3
  <2> HIDE DEF First
  <2> QED BY <2>1
<1>4. C = {} <=> \A x \in S : count[G[x]] = 0
  OBVIOUS
<1>5. ASSUME C # {} PROVE First \in S /\ ~(First < 0)
  <2> HIDE DEF C, First
  <2>1. First \in S /\ First \in Nat
    BY <1>3, <1>5
  <2> QED BY <2>1
<1> HIDE DEF C, First
<1>6. CASE C = {}
  BY <1>1, <1>4, <1>6
<1>7. CASE C # {}
  BY <1>1, <1>4, <1>5, <1>7
<1> QED BY <1>6, <1>7

-----------------------------------------------------------------------------
(* Sizes and paths.                                                        *)

\* What the assumptions on the constants say of files.
LEMMA FileIs ==
  /\ Direct \in Nat /\ Direct > 0 /\ Words \in Nat /\ Words > 0 /\ Prealloc \in Nat /\ MaxCalls \in Nat
  /\ DoubleSpan \in Nat /\ DoubleSpan > 0 /\ DoubleSpan = Words * Words
  /\ Words * DoubleSpan \in Nat /\ MaxBlocks * Words \in Nat
  /\ MaxBlocks \in Nat /\ MaxBlocks > 0 /\ MaxBlocks <= Direct + Words + DoubleSpan + Words * DoubleSpan
  /\ Sizes \subseteq 0..(MaxBlocks * Words) /\ Prealloc <= MaxBlocks
  /\ \A r \in Ranges : r[1] \in Nat /\ r[2] \in Nat /\ r[2] > 0 /\ r[1] + r[2] <= MaxBlocks * Words
  /\ Slots = 0..(Direct + 2) /\ Entry = 0..(Words - 1) /\ Logicals = 0..(MaxBlocks - 1)
  /\ MaxBlocks <= MaxBlocks * Words
<1>1. Direct \in Nat /\ Direct > 0 /\ Words \in Nat /\ Words > 0
  BY FileAssumption
<1>2. DoubleSpan \in Nat /\ DoubleSpan = Words * Words
  BY <1>1 DEF DoubleSpan
<1>3. DoubleSpan > 0
  <2>1. Words * 1 <= Words * (Words + 1) - Words
    BY <1>1, Multiples
  <2>2. Words * (Words + 1) = Words * Words + Words
    BY <1>1
  <2> QED BY <1>1, <1>2, <2>1, <2>2
<1>4. Words * DoubleSpan \in Nat
  BY <1>1, <1>2
<1>5. MaxBlocks \in Nat /\ MaxBlocks > 0 /\ MaxBlocks <= Direct + Words + DoubleSpan + Words * DoubleSpan
  BY <1>1, <1>2, <1>4, FileAssumption
<1>6. MaxBlocks * Words \in Nat
  BY <1>1, <1>5
<1>7. MaxBlocks <= MaxBlocks * Words
  <2>1. MaxBlocks * 1 <= MaxBlocks * (Words + 1) - MaxBlocks
    BY <1>1, <1>5, Multiples
  <2>2. MaxBlocks * (Words + 1) = MaxBlocks * Words + MaxBlocks
    BY <1>1, <1>5
  <2> QED BY <1>5, <1>6, <2>1, <2>2
<1>8. \A r \in Ranges : r[1] \in Nat /\ r[2] \in Nat /\ r[2] > 0 /\ r[1] + r[2] <= MaxBlocks * Words
  BY FileAssumption
<1> QED BY <1>1, <1>2, <1>3, <1>4, <1>5, <1>6, <1>7, <1>8, FileAssumption DEF Slots, Entry, Logicals

\* The blocks of a size are the fewest that hold it.
LEMMA CountIs ==
  ASSUME NEW a \in Nat, NEW c \in Int
  PROVE  /\ Count(a) \in Nat
         /\ Count(a) <= c <=> a <= c * Words
         /\ a \div Words \in Nat /\ a % Words \in Entry
         /\ a = Words * (a \div Words) + (a % Words)
         /\ c <= a \div Words <=> c * Words <= a
         /\ a \div Words <= Count(a)
<1> DEFINE s == a + Words - 1
           d == s \div Words
           e == s % Words
           f == a \div Words
           g == a % Words
<1>0. Words \in Nat /\ Words > 0 /\ s \in Int
  BY FileIs
<1>1. d \in Int /\ e \in 0..(Words - 1) /\ s = Words * d + e
  BY <1>0, DivMod
<1>2. f \in Int /\ g \in 0..(Words - 1) /\ a = Words * f + g
  BY <1>0, DivMod
<1>3. Count(a) = d
  BY DEF Count
<1>4. s = a + Words - 1
  OBVIOUS
<1>5. a \div Words = f /\ a % Words = g
  OBVIOUS
<1> HIDE DEF s, d, e, f, g
<1>6. c * Words \in Int /\ Words * d \in Int /\ Words * f \in Int /\ c * Words = Words * c
  BY <1>0, <1>1, <1>2
<1>7. d <= c <=> a <= c * Words
  <2>1. CASE d <= c - 1
    <3>1. Words * d <= Words * c - Words
      BY <1>0, <1>1, <2>1, Multiples
    <3> QED BY <1>0, <1>1, <1>4, <1>6, <2>1, <3>1
  <2>2. CASE c <= d - 1
    <3>1. Words * c <= Words * d - Words
      BY <1>0, <1>1, <2>2, Multiples
    <3> QED BY <1>0, <1>1, <1>4, <1>6, <2>2, <3>1
  <2>3. CASE d = c
    BY <1>0, <1>1, <1>4, <1>6, <2>3
  <2> QED BY <1>1, <2>1, <2>2, <2>3
<1>8. c <= f <=> c * Words <= a
  <2>1. CASE f <= c - 1
    <3>1. Words * f <= Words * c - Words
      BY <1>0, <1>2, <2>1, Multiples
    <3> QED BY <1>0, <1>2, <1>6, <2>1, <3>1
  <2>2. CASE c <= f - 1
    <3>1. Words * c <= Words * f - Words
      BY <1>0, <1>2, <2>2, Multiples
    <3> QED BY <1>0, <1>2, <1>6, <2>2, <3>1
  <2>3. CASE f = c
    BY <1>0, <1>2, <1>6, <2>3
  <2> QED BY <1>2, <2>1, <2>2, <2>3
<1>9. d >= 0 /\ f >= 0
  <2>1. ASSUME d <= -1 PROVE FALSE
    <3>1. Words * d <= Words * 0 - Words
      BY <1>0, <1>1, <2>1, Multiples
    <3> QED BY <1>0, <1>1, <1>4, <1>6, <3>1
  <2>2. ASSUME f <= -1 PROVE FALSE
    <3>1. Words * f <= Words * 0 - Words
      BY <1>0, <1>2, <2>2, Multiples
    <3> QED BY <1>0, <1>2, <1>6, <3>1
  <2> QED BY <1>1, <1>2, <2>1, <2>2
<1>10. f <= d
  <2>1. ASSUME d <= f - 1 PROVE FALSE
    <3>1. Words * d <= Words * f - Words
      BY <1>0, <1>1, <1>2, <2>1, Multiples
    <3> QED BY <1>0, <1>1, <1>2, <1>4, <1>6, <3>1
  <2> QED BY <1>1, <1>2, <2>1
<1> QED BY <1>1, <1>2, <1>3, <1>5, <1>6, <1>7, <1>8, <1>9, <1>10 DEF Entry

\* Larger sizes have no fewer blocks, none has more than a file may, and whole blocks are counted.
LEMMA Counting ==
  ASSUME NEW a \in Nat
  PROVE  /\ a <= MaxBlocks * Words => Count(a) <= MaxBlocks
         /\ \A b \in Nat : a <= b => Count(a) <= Count(b)
         /\ Count(a * Words) = a /\ a * Words \in Nat
         /\ \A b \in Nat : a < b => a \div Words < Count(b)
         /\ a < MaxBlocks * Words => a \div Words \in Logicals
         /\ a \in Logicals => (a + 1) * Words <= MaxBlocks * Words
         /\ a <= MaxBlocks => a * Words <= MaxBlocks * Words
<1>0. Words \in Nat /\ Words > 0 /\ MaxBlocks \in Nat /\ MaxBlocks * Words \in Nat
  BY FileIs
<1>1. a <= MaxBlocks * Words => Count(a) <= MaxBlocks
  BY <1>0, CountIs
<1>2. ASSUME NEW b \in Nat, a <= b PROVE Count(a) <= Count(b)
  <2>1. Count(b) \in Nat /\ Count(b) * Words \in Nat
    BY <1>0, CountIs
  <2>2. b <= Count(b) * Words
    BY <2>1, CountIs
  <2>3. a <= Count(b) * Words
    BY <1>2, <2>1, <2>2
  <2> QED BY <2>1, <2>3, CountIs
<1>3. a * Words \in Nat
  BY <1>0
<1>4. Count(a * Words) = a
  <2>1. Count(a * Words) \in Nat /\ Count(a * Words) <= a
    BY <1>3, CountIs
  <2>2. ASSUME Count(a * Words) <= a - 1 PROVE FALSE
    <3>1. a * Words <= (a - 1) * Words
      BY <1>3, <2>2, CountIs
    <3>2. (a - 1) * Words = a * Words - Words
      BY <1>0
    <3> QED BY <1>0, <1>3, <3>1, <3>2
  <2> QED BY <2>1, <2>2
<1>5. ASSUME NEW b \in Nat, a < b PROVE a \div Words < Count(b)
  <2>1. a \div Words \in Nat /\ Count(b) \in Nat /\ (a \div Words) * Words \in Nat
    BY <1>0, CountIs
  <2>2. (a \div Words) * Words <= a
    BY <2>1, CountIs
  <2>3. ASSUME Count(b) <= a \div Words PROVE FALSE
    <3>1. b <= (a \div Words) * Words
      BY <2>1, <2>3, CountIs
    <3> QED BY <1>5, <2>1, <2>2, <3>1
  <2> QED BY <2>1, <2>3
<1>6. ASSUME a < MaxBlocks * Words PROVE a \div Words \in Logicals
  <2>1. a \div Words \in Nat
    BY CountIs
  <2>2. ~(MaxBlocks <= a \div Words)
    BY <1>0, <1>6, CountIs
  <2> QED BY <1>0, <2>1, <2>2 DEF Logicals
<1>7. ASSUME NEW b \in Nat, NEW c \in Nat, b <= c PROVE b * Words <= c * Words
  <2>1. Words * b <= Words * (c + 1) - Words
    BY <1>0, <1>7, Multiples
  <2>2. Words * (c + 1) = c * Words + Words /\ c * Words \in Nat /\ Words * b = b * Words /\ b * Words \in Nat
    BY <1>0
  <2> QED BY <1>0, <2>1, <2>2
<1>8. a \in Logicals => (a + 1) * Words <= MaxBlocks * Words
  BY <1>0, <1>7 DEF Logicals
<1>9. a <= MaxBlocks => a * Words <= MaxBlocks * Words
  BY <1>0, <1>7
<1> QED BY <1>1, <1>2, <1>3, <1>4, <1>5, <1>6, <1>8, <1>9

\* Where the path of a logical block starts, and that each index is one of an entry.
LEMMA Paths ==
  ASSUME NEW l \in Logicals
  PROVE  /\ Level(l) \in 0..3 /\ Root(l) \in Slots
         /\ Path[l] \in Seq(Entry) /\ Len(Path[l]) = Level(l)
         /\ Level(l) = 0 => l < Direct /\ Root(l) = l /\ Path[l] = <<>>
         /\ Level(l) > 0 => Root(l) = Direct + Level(l) - 1
         /\ \A k \in 1..Level(l) : Path[l][k] \in Entry
<1> DEFINE q == l - Direct - Words
           r == q - DoubleSpan
<1>0. l \in Nat /\ l < MaxBlocks
  BY FileIs
<1>1. Path[l] = CASE Level(l) = 0 -> <<>>
                  [] Level(l) = 1 -> <<l - Direct>>
                  [] Level(l) = 2 -> <<q \div Words, q % Words>>
                  [] Level(l) = 3 -> <<r \div DoubleSpan, (r % DoubleSpan) \div Words, r % Words>>
  BY DEF Path
<1>2. Level(l) \in 0..3 /\ (Level(l) = 0 <=> l < Direct)
  BY <1>0, FileIs DEF Level
<1>3. CASE Level(l) = 0
  <2>1. Path[l] = <<>>
    BY <1>1, <1>3
  <2>2. l < Direct /\ Root(l) = l /\ l \in Slots
    BY <1>0, <1>2, <1>3, FileIs DEF Root
  <2> QED BY <1>3, <2>1, <2>2
<1>4. ASSUME Level(l) # 0 PROVE Root(l) = Direct + Level(l) - 1 /\ Root(l) \in Slots
  BY <1>2, <1>4, FileIs DEF Root
<1>5. CASE Level(l) = 1
  <2>1. Path[l] = <<l - Direct>>
    BY <1>1, <1>5
  <2>2. l - Direct \in Entry
    BY <1>0, <1>5, FileIs DEF Level
  <2> QED BY <1>4, <1>5, <2>1, <2>2
<1>6. CASE Level(l) = 2
  <2>1. Path[l] = <<q \div Words, q % Words>>
    BY <1>1, <1>6
  <2>2. q \in 0..(Words * Words - 1)
    BY <1>0, <1>6, FileIs DEF Level
  <2> HIDE DEF q
  <2>3. q \div Words \in Entry /\ q % Words \in Entry
    <3>1. q \in Int
      BY <2>2
    <3> QED BY <2>2, <3>1, Quotient, DivMod, FileIs
  <2> QED BY <1>4, <1>6, <2>1, <2>3
<1>7. CASE Level(l) = 3
  <2>1. Path[l] = <<r \div DoubleSpan, (r % DoubleSpan) \div Words, r % Words>>
    BY <1>1, <1>7
  <2>2. r \in 0..(DoubleSpan * Words - 1)
    <3>1. DoubleSpan * Words = Words * DoubleSpan
      BY FileIs
    <3> QED BY <1>0, <1>7, <3>1, FileIs DEF Level
  <2> HIDE DEF r
  <2>3. r \in Int /\ r % DoubleSpan \in 0..(Words * Words - 1)
    <3>1. r \in Int
      BY <2>2
    <3> QED BY <3>1, FileIs, DivMod
  <2>4. r \div DoubleSpan \in Entry /\ (r % DoubleSpan) \div Words \in Entry /\ r % Words \in Entry
    BY <2>2, <2>3, Quotient, DivMod, FileIs
  <2> QED BY <1>4, <1>7, <2>1, <2>4
<1> QED BY <1>2, <1>3, <1>5, <1>6, <1>7

\* The indices of a path, by its level.
LEMMA PathIs ==
  ASSUME NEW l \in Logicals, NEW q, NEW r, q = l - Direct - Words, r = q - DoubleSpan
  PROVE  /\ Level(l) = 1 => Path[l][1] = l - Direct
         /\ Level(l) = 2 => Path[l][1] = q \div Words /\ Path[l][2] = q % Words
         /\ Level(l) = 3 => Path[l][1] = r \div DoubleSpan /\ Path[l][2] = (r % DoubleSpan) \div Words
                            /\ Path[l][3] = r % Words
<1>1. Path[l] = CASE Level(l) = 0 -> <<>>
                  [] Level(l) = 1 -> <<l - Direct>>
                  [] Level(l) = 2 -> <<q \div Words, q % Words>>
                  [] Level(l) = 3 -> <<r \div DoubleSpan, (r % DoubleSpan) \div Words, r % Words>>
  BY DEF Path
<1>2. CASE Level(l) = 1
  <2>1. Path[l] = <<l - Direct>>
    BY <1>1, <1>2
  <2> QED BY <1>2, <2>1
<1>3. CASE Level(l) = 2
  <2>1. Path[l] = <<q \div Words, q % Words>>
    BY <1>1, <1>3
  <2> QED BY <1>3, <2>1
<1>4. CASE Level(l) = 3
  <2>1. Path[l] = <<r \div DoubleSpan, (r % DoubleSpan) \div Words, r % Words>>
    BY <1>1, <1>4
  <2> QED BY <1>4, <2>1
<1> QED BY <1>2, <1>3, <1>4

\* The indices of three levels give back the number they were made from.
LEMMA ThreeIndices ==
  ASSUME NEW r \in Int
  PROVE  r = DoubleSpan * (r \div DoubleSpan) + (Words * ((r % DoubleSpan) \div Words) + (r % Words))
<1> DEFINE a == r \div DoubleSpan
           b == r % DoubleSpan
           c == b \div Words
           d == b % Words
<1>0. Words \in Nat /\ Words > 0 /\ DoubleSpan \in Nat /\ DoubleSpan > 0 /\ DoubleSpan = Words * Words
  BY FileIs
<1>1. r = DoubleSpan * a + b /\ b \in Int /\ a \in Int
  BY <1>0, DivMod
<1>2. c \in Int /\ d \in 0..(Words - 1) /\ b = Words * c + d
  <2> HIDE DEF b
  <2> QED BY <1>0, <1>1, DivMod
<1> HIDE DEF a, b, c, d
<1>3. r = Words * (Words * a + c) + d /\ Words * a + c \in Int
  <2>1. DoubleSpan * a = Words * (Words * a)
    BY <1>0, <1>1
  <2>2. Words * (Words * a + c) = Words * (Words * a) + Words * c
    BY <1>0, <1>1, <1>2
  <2>3. Words * a \in Int /\ Words * c \in Int
    BY <1>0, <1>1, <1>2
  <2>4. Words * (Words * a) \in Int /\ Words * a + c \in Int
    BY <1>0, <1>2, <2>3
  <2> QED BY <1>1, <1>2, <2>1, <2>2, <2>3, <2>4
<1>4. r % Words = d
  BY <1>0, <1>2, <1>3, Unique
<1> QED BY <1>1, <1>2, <1>4 DEF a, b, c

\* Two logical blocks do not start from one pointer along one path.
LEMMA PathsApart ==
  ASSUME NEW l \in Logicals, NEW m \in Logicals, Root(l) = Root(m), Path[l] = Path[m]
  PROVE  l = m
<1>0. l \in Nat /\ m \in Nat
  BY FileIs
<1>1. Level(l) = Level(m)
  BY Paths
<1>3. CASE Level(l) = 0
  BY <1>1, <1>3, Paths
<1>4. CASE Level(l) = 1
  <2>1. l - Direct = m - Direct
    BY <1>1, <1>4, PathIs
  <2> QED BY <1>0, <2>1, FileIs
<1>5. CASE Level(l) = 2
  <2>1. PICK q, p : q = l - Direct - Words /\ p = m - Direct - Words
    OBVIOUS
  <2>2. q \in Int /\ p \in Int
    BY <1>0, <2>1, FileIs
  <2>3. q \div Words = p \div Words /\ q % Words = p % Words
    BY <1>1, <1>5, <2>1, PathIs, ZenonT(40)
  <2>4. q = Words * (q \div Words) + (q % Words) /\ p = Words * (p \div Words) + (p % Words)
    BY <2>2, FileIs, DivMod
  <2>5. q = p
    BY <2>3, <2>4
  <2> QED BY <1>0, <2>1, <2>5, FileIs
<1>6. CASE Level(l) = 3
  <2>1. PICK r, p : r = l - Direct - Words - DoubleSpan /\ p = m - Direct - Words - DoubleSpan
    OBVIOUS
  <2>2. r \in Int /\ p \in Int
    BY <1>0, <2>1, FileIs
  <2>3. /\ r \div DoubleSpan = p \div DoubleSpan /\ r % Words = p % Words
        /\ (r % DoubleSpan) \div Words = (p % DoubleSpan) \div Words
    <3>1. PICK q, s : q = l - Direct - Words /\ s = m - Direct - Words
      OBVIOUS
    <3>2. r = q - DoubleSpan /\ p = s - DoubleSpan
      BY <2>1, <3>1
    <3>3. /\ Path[l][1] = r \div DoubleSpan /\ Path[l][2] = (r % DoubleSpan) \div Words /\ Path[l][3] = r % Words
      BY <1>6, <3>1, <3>2, PathIs
    <3>4. /\ Path[m][1] = p \div DoubleSpan /\ Path[m][2] = (p % DoubleSpan) \div Words /\ Path[m][3] = p % Words
      BY <1>1, <1>6, <3>1, <3>2, PathIs, ZenonT(40)
    <3> QED BY <3>3, <3>4
  <2>4. r = p
    BY <2>2, <2>3, ThreeIndices
  <2> QED BY <1>0, <2>1, <2>4, FileIs
<1> QED BY <1>3, <1>4, <1>5, <1>6, Paths

-----------------------------------------------------------------------------
(* Types.                                                                  *)

CallNames == {"none", "create", "write", "truncate", "unlink"}

\* The inodes the tasks have read with the ones they save.
ImagesOf(m) ==
  DOMAIN m = Tasks /\ \A t \in Tasks : \A i \in DOMAIN m[t] : m[t][i] \in InodeType

\* The types of the variables, without the bitmaps and their counts.
StoreTypes ==
  /\ files \subseteq Inodes /\ inodes \in [Inodes -> InodeType] /\ ImagesOf(image)
  /\ disk \in [Blocks -> [Entry -> Word]] /\ calls \in 0..MaxCalls /\ lost \subseteq Blocks

LocalTypes ==
  /\ op \in [Tasks -> Ops] /\ call \in [Tasks -> CallNames]
  /\ ino \in [Tasks -> {0} \cup Inodes] /\ copy \in [Tasks -> InodeType]
  /\ pos \in [Tasks -> Nat] /\ to \in [Tasks -> 0..(MaxBlocks * Words)]
  /\ block \in [Tasks -> Blocks] /\ table \in [Tasks -> Blocks] /\ depth \in [Tasks -> 0..2]
  /\ dirty \subseteq Tasks

Typed == StoreTypes /\ LocalTypes

\* No task takes a word of data for the number of an indirect block.
FollowsBlocks == \A t \in Tasks : table[t] \in Blocks

\* A step of task t: where it is afterwards.
Sets(t, o, c, i, n, p, e, b, T, d) ==
  /\ op' = [op EXCEPT ![t] = o] /\ call' = [call EXCEPT ![t] = c] /\ ino' = [ino EXCEPT ![t] = i]
  /\ copy' = [copy EXCEPT ![t] = n] /\ pos' = [pos EXCEPT ![t] = p] /\ to' = [to EXCEPT ![t] = e]
  /\ block' = [block EXCEPT ![t] = b] /\ table' = [table EXCEPT ![t] = T]
  /\ depth' = [depth EXCEPT ![t] = d]

\* A step of task t moves no other task.
Others(t) ==
  \A u \in Tasks \ {t} :
    /\ op'[u] = op[u] /\ call'[u] = call[u] /\ ino'[u] = ino[u] /\ copy'[u] = copy[u]
    /\ pos'[u] = pos[u] /\ to'[u] = to[u] /\ block'[u] = block[u] /\ table'[u] = table[u]
    /\ depth'[u] = depth[u] /\ (u \in dirty' <=> u \in dirty)

Arrives(t, o, c, i, n, p, e, b, T, d) ==
  /\ op'[t] = o /\ call'[t] = c /\ ino'[t] = i /\ copy'[t] = n /\ pos'[t] = p /\ to'[t] = e
  /\ block'[t] = b /\ table'[t] = T /\ depth'[t] = d

\* Where a call may be: its name, its inode, how far it is, how deep, and
\* whether inode_modified is set.
Fits(o, c, i, p, e, d, modified) ==
  LET here == IF c = "write" THEN p \div Words ELSE p
      placing == o \in {"root", "table"}
  IN /\ o = "user" => i = 0 /\ c = "none"
     /\ o # "user" => i \in Inodes
     /\ o = "create" => c = "create"
     /\ o \in {"user", "create"} => p = 0
     /\ o \in {"write", "data"} => c = "write"
     /\ placing => c \in {"create", "write", "truncate"} /\ Level(here) > 0
     /\ o = "grow" => c \in {"create", "truncate"}
     /\ o \in {"shrink", "clear"} => c = "truncate"
     /\ o = "unlink" <=> c = "unlink"
     /\ c = "write" => p <= e
     /\ c = "write" /\ o # "write" => p < e
     /\ o = "grow" => p <= Count(e)
     /\ placing /\ c # "write" => p < Count(e)
     /\ o \in {"shrink", "clear"} => Count(e) <= p /\ p <= MaxBlocks
     /\ o = "clear" => Count(e) < p
     /\ o = "unlink" => e <= MaxBlocks /\ p <= e + 3
     /\ o = "table" => d < Level(here)
     /\ o # "table" => d = 0
     /\ modified => c = "write"

Going(t) == Fits(op[t], call[t], ino[t], pos[t], to[t], depth[t], t \in dirty)

\* What setting the local variables of a task means for them one by one.
LEMMA SetsIs ==
  ASSUME Typed, NEW t \in Tasks, NEW o \in Ops, NEW c \in CallNames, NEW i \in {0} \cup Inodes,
         NEW n \in InodeType, NEW p \in Nat, NEW e \in 0..(MaxBlocks * Words), NEW b \in Blocks,
         NEW T \in Blocks, NEW d \in 0..2, Sets(t, o, c, i, n, p, e, b, T, d),
         dirty' \in {dirty, dirty \cup {t}, dirty \ {t}}
  PROVE  LocalTypes' /\ Others(t) /\ Arrives(t, o, c, i, n, p, e, b, T, d)
<1>1. LocalTypes'
  BY DEF Typed, LocalTypes, Sets
<1>2. Others(t)
  BY DEF Typed, LocalTypes, Sets, Others
<1>3. Arrives(t, o, c, i, n, p, e, b, T, d)
  BY DEF Typed, LocalTypes, Sets, Arrives
<1> QED BY <1>1, <1>2, <1>3

\* The words of blocks: a positive one is the number of a block.
LEMMA WordIs ==
  ASSUME NEW w \in Word
  PROVE  w \in Int /\ (w >= 0 => w \in Blocks)
<1>1. ASSUME NEW i \in Inodes, NEW l \in Logicals PROVE Tag(i, l) \in Int /\ Tag(i, l) < 0
  <2>1. i \in Nat /\ l \in Nat /\ MaxBlocks \in Nat
    BY Volume, FileIs
  <2>2. i * MaxBlocks \in Nat
    BY <2>1
  <2> QED BY <2>1, <2>2 DEF Tag
<1> QED BY <1>1, Volume DEF Word, Junk

\* Tags and zeros are words.
LEMMA WordsAre ==
  /\ Junk \in Word /\ 0 \in Word /\ Blocks \subseteq Word /\ Zeros \in [Entry -> Word]
  /\ \A i \in Inodes, l \in Logicals : Tag(i, l) \in Word
BY DEF Word, Zeros

\* A role starts at a pointer and follows at most three entries.
LEMMA RoleIs ==
  ASSUME NEW r \in Roles
  PROVE  r.root \in Slots /\ r.path \in Seq(Entry) /\ Len(r.path) \in 0..3
<1>1. CASE \E l \in Logicals : r = [name |-> <<0, l>>, root |-> Root(l), path |-> Path[l]]
  <2>1. PICK l \in Logicals : r = [name |-> <<0, l>>, root |-> Root(l), path |-> Path[l]]
    BY <1>1
  <2>2. Path[l] \in Seq(Entry) /\ Len(Path[l]) = Level(l) /\ Level(l) \in 0..3 /\ Root(l) \in Slots
    BY Paths
  <2> QED BY <2>1, <2>2
<1>2. CASE \E l \in Logicals : \E d \in 0..(Level(l) - 1) :
             r = [name |-> <<Level(l)>> \o SubSeq(Path[l], 1, d), root |-> Root(l),
                  path |-> SubSeq(Path[l], 1, d)]
  <2>1. PICK l \in Logicals : \E d \in 0..(Level(l) - 1) :
             r = [name |-> <<Level(l)>> \o SubSeq(Path[l], 1, d), root |-> Root(l),
                  path |-> SubSeq(Path[l], 1, d)]
    BY <1>2
  <2>2. PICK d \in 0..(Level(l) - 1) :
             r = [name |-> <<Level(l)>> \o SubSeq(Path[l], 1, d), root |-> Root(l),
                  path |-> SubSeq(Path[l], 1, d)]
    BY <2>1
  <2>3. Path[l] \in Seq(Entry) /\ Len(Path[l]) = Level(l) /\ Level(l) \in 0..3 /\ Root(l) \in Slots
    BY Paths
  <2>4. SubSeq(Path[l], 1, d) \in Seq(Entry) /\ Len(SubSeq(Path[l], 1, d)) = d
    BY <2>2, <2>3, SubSeqProperties
  <2> QED BY <2>2, <2>3, <2>4
<1> QED BY <1>1, <1>2 DEF Roles

\* An entry that is followed leads to a block.
LEMMA FollowIs ==
  ASSUME disk \in [Blocks -> [Entry -> Word]], NEW b \in Blocks, NEW k \in Entry
  PROVE  Follow(b, k) \in Blocks
<1>1. disk[b][k] \in Word
  OBVIOUS
<1> QED BY <1>1, WordIs, Volume DEF Follow

\* A walk ends at a block.
LEMMA WalkIs ==
  ASSUME disk \in [Blocks -> [Entry -> Word]], NEW p \in Blocks, NEW path \in Seq(Entry), Len(path) \in 0..3
  PROVE  Walk(p, path) \in Blocks
<1> DEFINE b1 == Follow(p, path[1])
           b2 == Follow(b1, path[2])
           b3 == Follow(b2, path[3])
<1>1. Len(path) >= 1 => b1 \in Blocks
  BY FollowIs
<1>2. Len(path) >= 2 => b2 \in Blocks
  <2> HIDE DEF b1
  <2> QED BY <1>1, FollowIs
<1>3. Len(path) = 3 => b3 \in Blocks
  <2> SUFFICES ASSUME Len(path) = 3 PROVE b3 \in Blocks
    OBVIOUS
  <2> HIDE DEF b1, b2
  <2>1. b2 \in Blocks
    BY <1>2
  <2>2. path[3] \in Entry
    <3>1. 3 \in 1..Len(path)
      OBVIOUS
    <3> QED BY <3>1, ElementOfSeq
  <2> QED BY <2>1, <2>2, FollowIs
<1>4. Walk(p, path) = CASE Len(path) = 0 -> p [] Len(path) = 1 -> b1 [] Len(path) = 2 -> b2 [] Len(path) = 3 -> b3
  BY DEF Walk
<1> HIDE DEF b1, b2, b3
<1>5. Len(path) = 0 \/ Len(path) = 1 \/ Len(path) = 2 \/ Len(path) = 3
  OBVIOUS
<1>6. Len(path) = 0 => Walk(p, path) = p
  BY <1>4
<1>7. Len(path) = 1 => Walk(p, path) = b1
  BY <1>4
<1>8. Len(path) = 2 => Walk(p, path) = b2
  BY <1>4
<1>9. Len(path) = 3 => Walk(p, path) = b3
  BY <1>4
<1> QED
  <2>1. CASE Len(path) = 0
    BY <1>6, <2>1
  <2>2. CASE Len(path) = 1
    BY <1>1, <1>7, <2>2
  <2>3. CASE Len(path) = 2
    BY <1>2, <1>8, <2>3
  <2>4. CASE Len(path) = 3
    BY <1>3, <1>9, <2>4
  <2> QED BY <1>5, <2>1, <2>2, <2>3, <2>4

\* Physical blocks are blocks, and so is what a file uses.
LEMMA PhysicalIs ==
  ASSUME Typed, NEW n \in InodeType
  PROVE  /\ \A l \in Logicals : GetPhysical(n, l) \in Blocks
         /\ BlocksOf(n) \subseteq Blocks
         /\ \A k \in {1, 2, 3} : Inner(n, k) \subseteq Blocks
<1>1. disk \in [Blocks -> [Entry -> Word]] /\ \A s \in Slots : n.ptr[s] \in Blocks
  BY DEF Typed, StoreTypes, InodeType
<1>2. \A l \in Logicals : GetPhysical(n, l) \in Blocks
  <2> SUFFICES ASSUME NEW l \in Logicals PROVE GetPhysical(n, l) \in Blocks
    OBVIOUS
  <2>1. Path[l] \in Seq(Entry) /\ Len(Path[l]) \in 0..3 /\ n.ptr[Root(l)] \in Blocks
    BY <1>1, Paths
  <2> QED BY <1>1, <2>1, WalkIs DEF GetPhysical
<1>3. \A r \in Roles : Walk(n.ptr[r.root], r.path) \in Blocks
  BY <1>1, RoleIs, WalkIs
<1>4. \A u \in Uses(n) : u[2] \in Blocks
  BY <1>3 DEF Uses
<1> QED BY <1>2, <1>4 DEF BlocksOf, Inner

\* The search for a block finds one that is not in use, or fails.
LEMMA FreeBlockIs ==
  ASSUME NEW start \in GroupIds
  PROVE  FreeBlock(start) = -1 \/ FreeBlock(start) \in Blocks \ bmap
<1>1. Blocks \ bmap \in SUBSET Nat /\ \A x \in Blocks \ bmap : BlockGroup[x] \in GroupIds
  BY Volume, InGroups
<1> QED BY <1>1, Found DEF FreeBlock

\* The search for an inode finds one that is not in use, or fails.
LEMMA FreeInodeIs ==
  ASSUME NEW start \in GroupIds
  PROVE  FreeInode(start) = -1 \/ FreeInode(start) \in Inodes \ imap
<1>1. Inodes \ imap \in SUBSET Nat /\ \A x \in Inodes \ imap : InodeGroup[x] \in GroupIds
  BY Volume, InGroups
<1> QED BY <1>1, Found DEF FreeInode

\* An empty inode is an inode.
LEMMA NoInodeIs == NoInode \in InodeType /\ NoInode.size = 0 /\ \A s \in Slots : NoInode.ptr[s] = 0
<1>1. 0 \in 0..(MaxBlocks * Words)
  BY FileIs
<1> QED BY <1>1, Volume DEF NoInode, InodeType

\* The local variables of another task stay, and with them where its call is.
LEMMA GoingElse ==
  ASSUME NEW t \in Tasks, Others(t), NEW u \in Tasks \ {t}, Going(u)
  PROVE  Going(u)'
BY DEF Others, Going

\* The logical block a task is at is one of the file.
LEMMA HereIs ==
  ASSUME Typed, NEW t \in Tasks, Going(t),
         \/ op[t] \in {"data", "root", "table"}
         \/ op[t] = "write" /\ pos[t] < to[t]
         \/ op[t] = "grow" /\ pos[t] < Count(to[t])
  PROVE  Here(t) \in Logicals
<1>1. pos[t] \in Nat /\ to[t] \in Nat /\ to[t] <= MaxBlocks * Words /\ MaxBlocks * Words \in Nat
  BY FileIs DEF Typed, LocalTypes
<1>2. CASE call[t] = "write"
  <2>1. pos[t] < to[t]
    BY <1>2 DEF Going, Fits
  <2> QED BY <1>1, <1>2, <2>1, Counting DEF Here
<1>3. CASE call[t] # "write"
  <2>1. pos[t] < Count(to[t])
    BY <1>3 DEF Going, Fits
  <2>2. Count(to[t]) <= MaxBlocks /\ Count(to[t]) \in Nat
    BY <1>1, Counting, CountIs
  <2>3. Here(t) = pos[t] /\ pos[t] < MaxBlocks /\ MaxBlocks \in Nat
    BY <1>1, <1>3, <2>1, <2>2, FileIs DEF Here
  <2> QED BY <1>1, <2>3 DEF Logicals
<1> QED BY <1>2, <1>3

\* Where a task has read no inodes, there are none to check.
LEMMA NoImage ==
  ASSUME NEW m, ImagesOf(m), NEW t \in Tasks
  PROVE  ImagesOf([m EXCEPT ![t] = <<>>])
<1>1. DOMAIN <<>> = {}
  OBVIOUS
<1> QED BY <1>1 DEF ImagesOf

\* The inodes after a save.
LEMMA SaveIs ==
  ASSUME Typed, NEW t \in Tasks, NEW n \in InodeType, Save(t, n)
  PROVE  inodes' \in [Inodes -> InodeType]
BY DEF Save, Typed, StoreTypes, ImagesOf

\* A call starts.
LEMMA StartsIs ==
  ASSUME Typed, NEW t \in Tasks, Going(t), NEW o \in Ops, NEW c \in CallNames, NEW i \in Inodes,
         NEW n \in InodeType, NEW p \in Nat, NEW e \in 0..(MaxBlocks * Words),
         op[t] = "user" => calls < MaxCalls, op[t] \in {"user", "create"}, Starts(t, o, c, i, n, p, e)
  PROVE  /\ LocalTypes' /\ Others(t) /\ calls' \in 0..MaxCalls /\ ImagesOf(image')
         /\ Arrives(t, o, c, i, n, p, e, block[t], table[t], 0)
         /\ t \notin dirty'
<1>1. block[t] \in Blocks /\ table[t] \in Blocks /\ depth[t] = 0 /\ 0 \in 0..2 /\ t \notin dirty
  BY DEF Typed, LocalTypes, Going, Fits
<1>2. Sets(t, o, c, i, n, p, e, block[t], table[t], 0) /\ dirty' = dirty
  BY <1>1 DEF Starts, Goes, Sets, Typed, LocalTypes
<1>3. calls' \in 0..MaxCalls
  BY FileIs DEF Starts, Typed, StoreTypes
<1>4. ImagesOf(image')
  BY NoImage DEF Starts, Typed, StoreTypes
<1> QED BY <1>1, <1>2, <1>3, <1>4, SetsIs

\* A call ends.
LEMMA EndsIs ==
  ASSUME Typed, NEW t \in Tasks, Going(t), Ends(t), op[t] # "user"
  PROVE  /\ LocalTypes' /\ Others(t) /\ calls' = calls /\ files' \subseteq Inodes /\ ImagesOf(image')
         /\ Arrives(t, "user", "none", 0, NoInode, 0, 0, 0, 0, 0)
         /\ t \notin dirty' /\ Going(t)'
<1>1. Sets(t, "user", "none", 0, NoInode, 0, 0, 0, 0, 0) /\ dirty' = dirty \ {t}
  BY DEF Ends, Goes, Sets
<1>2. 0 \in Blocks /\ 0 \in 0..2 /\ "user" \in Ops /\ "none" \in CallNames /\ 0 \in 0..(MaxBlocks * Words)
      /\ 0 \in {0} \cup Inodes /\ NoInode \in InodeType /\ 0 \in Nat
  BY Volume, FileIs, NoInodeIs DEF Ops, CallNames
<1>3. /\ LocalTypes' /\ Others(t) /\ Arrives(t, "user", "none", 0, NoInode, 0, 0, 0, 0, 0)
  BY <1>1, <1>2, SetsIs
<1>4. Going(t)'
  BY <1>1, <1>3 DEF Arrives, Going, Fits
<1>5. files' \subseteq Inodes /\ calls' = calls
  BY DEF Ends, Typed, StoreTypes, Going, Fits
<1>6. ImagesOf(image')
  BY NoImage DEF Ends, Typed, StoreTypes
<1> QED BY <1>1, <1>3, <1>4, <1>5, <1>6

\* A step of task t takes it there; the types and the calls stay in order.
Moves(t, o, c, i, n, p, e, b, T, d, modified) ==
  /\ Typed' /\ Others(t) /\ Arrives(t, o, c, i, n, p, e, b, T, d)
  /\ t \in dirty' <=> modified
  /\ Going(t)'

\* What has to be shown of a step that sets the local variables.
LEMMA MovesIs ==
  ASSUME Typed, NEW t \in Tasks, NEW o \in Ops, NEW c \in CallNames, NEW i \in {0} \cup Inodes,
         NEW n \in InodeType, NEW p \in Nat, NEW e \in 0..(MaxBlocks * Words), NEW b \in Blocks,
         NEW T \in Blocks, NEW d \in 0..2, Sets(t, o, c, i, n, p, e, b, T, d),
         dirty' \in {dirty, dirty \cup {t}, dirty \ {t}}, StoreTypes',
         Fits(o, c, i, p, e, d, t \in dirty')
  PROVE  Moves(t, o, c, i, n, p, e, b, T, d, t \in dirty')
<1>1. LocalTypes' /\ Others(t) /\ Arrives(t, o, c, i, n, p, e, b, T, d)
  BY SetsIs
<1>2. Going(t)'
  BY <1>1 DEF Arrives, Going
<1> QED BY <1>1, <1>2 DEF Moves, Typed

\* The values of the local variables of a task.
LEMMA LocalIs ==
  ASSUME Typed, NEW t \in Tasks
  PROVE  /\ op[t] \in Ops /\ call[t] \in CallNames /\ ino[t] \in {0} \cup Inodes /\ copy[t] \in InodeType
         /\ pos[t] \in Nat /\ to[t] \in 0..(MaxBlocks * Words) /\ block[t] \in Blocks
         /\ table[t] \in Blocks /\ depth[t] \in 0..2
BY DEF Typed, LocalTypes

\* create_file takes a free inode and starts with an empty copy.
LEMMA CreateIs ==
  ASSUME Typed, NEW t \in Tasks, Going(t), NEW g \in GroupIds, Create(t, g)
  PROVE  /\ FreeInode(g) \in Inodes \ imap
         /\ Moves(t, "create", "create", FreeInode(g), NoInode, 0, 0, block[t], table[t], 0, FALSE)
<1>1. FreeInode(g) \in Inodes \ imap
  BY FreeInodeIs DEF Create
<1>2. /\ "create" \in Ops /\ "create" \in CallNames /\ NoInode \in InodeType /\ 0 \in Nat
      /\ 0 \in 0..(MaxBlocks * Words)
  BY NoInodeIs, FileIs DEF Ops, CallNames
<1>3. /\ LocalTypes' /\ Others(t) /\ calls' \in 0..MaxCalls /\ ImagesOf(image')
      /\ Arrives(t, "create", "create", FreeInode(g), NoInode, 0, 0, block[t], table[t], 0)
      /\ t \notin dirty'
  BY <1>1, <1>2, StartsIs DEF Create, Idle
<1>4. StoreTypes'
  BY <1>3 DEF Create, Typed, StoreTypes, store
<1>5. Going(t)'
  BY <1>1, <1>3 DEF Arrives, Going, Fits
<1> QED BY <1>1, <1>3, <1>4, <1>5 DEF Moves, Typed

\* The new inode is cleared; then the file grows, or the call ends.
LEMMA CreateInitIs ==
  ASSUME Typed, NEW t \in Tasks, Going(t), CreateInit(t)
  PROVE  /\ ino[t] \in Inodes
         /\ IF Prealloc = 0 THEN Moves(t, "user", "none", 0, NoInode, 0, 0, 0, 0, 0, FALSE)
            ELSE Moves(t, "grow", "create", ino[t], NoInode, 0, Prealloc * Words, block[t], table[t], 0, FALSE)
<1>1. ino[t] \in Inodes /\ op[t] = "create"
  BY DEF CreateInit, Going, Fits
<1>2. inodes' \in [Inodes -> InodeType]
  BY NoInodeIs, SaveIs DEF CreateInit
<1>3. CASE Prealloc = 0
  <2>1. Ends(t)
    BY <1>3 DEF CreateInit
  <2>2. /\ LocalTypes' /\ Others(t) /\ calls' = calls /\ files' \subseteq Inodes /\ ImagesOf(image')
        /\ Arrives(t, "user", "none", 0, NoInode, 0, 0, 0, 0, 0)
        /\ t \notin dirty' /\ Going(t)'
    BY <1>1, <2>1, EndsIs
  <2>3. StoreTypes'
    BY <1>2, <2>2 DEF CreateInit, Typed, StoreTypes
  <2> QED BY <1>1, <1>3, <2>2, <2>3 DEF Moves, Typed
<1>4. CASE Prealloc # 0
  <2>1. Starts(t, "grow", "create", ino[t], NoInode, 0, Prealloc * Words) /\ UNCHANGED files
    BY <1>4 DEF CreateInit
  <2>2. "grow" \in Ops /\ "create" \in CallNames /\ NoInode \in InodeType /\ 0 \in Nat
    BY NoInodeIs DEF Ops, CallNames
  <2>3. Prealloc * Words \in 0..(MaxBlocks * Words) /\ Prealloc * Words \in Nat /\ Count(Prealloc * Words) = Prealloc
    <3>1. Prealloc \in Nat /\ Prealloc <= MaxBlocks /\ MaxBlocks * Words \in Nat
      BY FileIs
    <3>2. Prealloc * Words \in Nat /\ Count(Prealloc * Words) = Prealloc /\ Prealloc * Words <= MaxBlocks * Words
      BY <3>1, Counting
    <3> QED BY <3>1, <3>2
  <2>4. /\ LocalTypes' /\ Others(t) /\ calls' \in 0..MaxCalls /\ ImagesOf(image')
        /\ Arrives(t, "grow", "create", ino[t], NoInode, 0, Prealloc * Words, block[t], table[t], 0)
        /\ t \notin dirty'
    BY <1>1, <2>1, <2>2, <2>3, StartsIs
  <2>5. StoreTypes'
    BY <1>2, <2>1, <2>4 DEF CreateInit, Typed, StoreTypes
  <2>6. Going(t)'
    BY <1>1, <2>3, <2>4, FileIs DEF Arrives, Going, Fits
  <2> QED BY <1>1, <1>4, <2>4, <2>5, <2>6 DEF Moves, Typed
<1> QED BY <1>3, <1>4

\* A write starts at its offset, with a copy of the inode.
LEMMA WriteIs ==
  ASSUME Typed, NEW t \in Tasks, Going(t), NEW i \in Inodes, NEW r \in Ranges, Write(t, i, r)
  PROVE  /\ Moves(t, "write", "write", i, inodes[i], r[1], r[1] + r[2], block[t], table[t], 0, FALSE)
         /\ r[1] < r[1] + r[2]
<1>1. "write" \in Ops /\ "write" \in CallNames /\ inodes[i] \in InodeType
  BY DEF Ops, CallNames, Typed, StoreTypes
<1>2. r[1] \in Nat /\ r[1] + r[2] \in 0..(MaxBlocks * Words) /\ r[1] < r[1] + r[2]
  BY FileIs
<1>3. /\ LocalTypes' /\ Others(t) /\ calls' \in 0..MaxCalls /\ ImagesOf(image')
      /\ Arrives(t, "write", "write", i, inodes[i], r[1], r[1] + r[2], block[t], table[t], 0)
      /\ t \notin dirty'
  BY <1>1, <1>2, StartsIs DEF Write, Idle
<1>4. StoreTypes'
  BY <1>3 DEF Write, Typed, StoreTypes, store
<1>5. Going(t)'
  BY <1>2, <1>3 DEF Arrives, Going, Fits
<1> QED BY <1>2, <1>3, <1>4, <1>5 DEF Moves, Typed

\* A write goes to the block that is there.
LEMMA WriteFoundIs ==
  ASSUME Typed, NEW t \in Tasks, Going(t), WriteFound(t)
  PROVE  Moves(t, "data", "write", ino[t], copy[t], pos[t], to[t], GetPhysical(copy[t], Here(t)), table[t], 0,
               t \in dirty)
<1>1. op[t] = "write" /\ call[t] = "write" /\ pos[t] < to[t] /\ ino[t] \in Inodes /\ depth[t] = 0
  BY DEF WriteFound, Going, Fits
<1>2. GetPhysical(copy[t], Here(t)) \in Blocks
  BY <1>1, HereIs, LocalIs, PhysicalIs
<1>3. Sets(t, "data", "write", ino[t], copy[t], pos[t], to[t], GetPhysical(copy[t], Here(t)), table[t], 0)
  BY <1>1 DEF WriteFound, Goes, caller, Sets, Typed, LocalTypes
<1>4. StoreTypes' /\ dirty' = dirty
  BY DEF WriteFound, store, caller, Typed, StoreTypes
<1>5. Fits("data", "write", ino[t], pos[t], to[t], 0, t \in dirty')
  BY <1>1, LocalIs DEF Fits
<1>6. "data" \in Ops /\ "write" \in CallNames /\ 0 \in 0..2
  BY DEF Ops, CallNames
<1> QED BY <1>2, <1>3, <1>4, <1>5, <1>6, LocalIs, MovesIs

\* A block was allocated for the logical block a task is at.
LEMMA PlacedIs ==
  ASSUME Typed, NEW t \in Tasks, Going(t), NEW b \in Blocks, Placed(t, b), StoreTypes',
         \/ op[t] = "write" /\ pos[t] < to[t]
         \/ op[t] = "grow" /\ pos[t] < Count(to[t])
  PROVE  LET l == Here(t)
             n == [copy[t] EXCEPT !.ptr[l] = b]
         IN IF Level(l) > 0
            THEN Moves(t, "root", call[t], ino[t], copy[t], pos[t], to[t], b, table[t], 0, t \in dirty)
            ELSE /\ l \in Slots /\ l = Root(l) /\ n \in InodeType
                 /\ IF call[t] = "write"
                    THEN Moves(t, "data", "write", ino[t], n, pos[t], to[t], b, table[t], 0, TRUE)
                    ELSE Moves(t, op[t], call[t], ino[t], n, pos[t] + 1, to[t], block[t], table[t], 0, FALSE)
<1> DEFINE l == Here(t)
           n == [copy[t] EXCEPT !.ptr[l] = b]
<1>0. l \in Logicals
  BY HereIs
<1>1. /\ ino[t] \in Inodes /\ depth[t] = 0 /\ (op[t] = "write" => call[t] = "write" /\ pos[t] < to[t])
      /\ op[t] = "grow" => call[t] \in {"create", "truncate"} /\ pos[t] < Count(to[t])
  BY DEF Going, Fits
<1>2. "root" \in Ops /\ "data" \in Ops /\ "write" \in CallNames /\ 0 \in 0..2 /\ pos[t] + 1 \in Nat
  BY LocalIs DEF Ops, CallNames
<1>3. Level(l) \in 0..3 /\ (Level(l) = 0 => l \in Slots /\ l = Root(l))
  BY <1>0, Paths
<1>4. l = IF call[t] = "write" THEN pos[t] \div Words ELSE pos[t]
  BY DEF Here
<1>5. n \in InodeType
  BY LocalIs DEF InodeType
<1>6. CASE Level(l) > 0
  <2>1. Sets(t, "root", call[t], ino[t], copy[t], pos[t], to[t], b, table[t], 0) /\ dirty' = dirty
    BY <1>1, <1>6 DEF Placed, Goes, caller, Sets, Typed, LocalTypes
  <2>2. Fits("root", call[t], ino[t], pos[t], to[t], 0, t \in dirty')
    <3>1. t \in dirty => call[t] = "write"
      BY DEF Going, Fits
    <3> QED BY <1>1, <1>4, <1>6, <2>1, <3>1, LocalIs DEF Fits
  <2>3. Moves(t, "root", call[t], ino[t], copy[t], pos[t], to[t], b, table[t], 0, t \in dirty')
    BY <1>2, <2>1, <2>2, LocalIs, MovesIs
  <2> QED BY <1>6, <2>1, <2>3
<1>7. CASE Level(l) = 0 /\ call[t] = "write"
  <2>1. Sets(t, "data", "write", ino[t], n, pos[t], to[t], b, table[t], 0) /\ dirty' = dirty \cup {t}
    BY <1>1, <1>7 DEF Placed, Goes, caller, Sets, Typed, LocalTypes
  <2>2. Fits("data", "write", ino[t], pos[t], to[t], 0, t \in dirty')
    BY <1>1, <1>7, LocalIs DEF Fits
  <2>3. Moves(t, "data", "write", ino[t], n, pos[t], to[t], b, table[t], 0, t \in dirty')
    <3> HIDE DEF n
    <3> QED BY <1>2, <1>5, <2>1, <2>2, LocalIs, MovesIs
  <2>4. t \in dirty' <=> TRUE
    BY <2>1
  <2> QED BY <1>3, <1>5, <1>7, <2>3, <2>4 DEF Moves
<1>8. CASE Level(l) = 0 /\ call[t] # "write"
  <2>1. Sets(t, op[t], call[t], ino[t], n, pos[t] + 1, to[t], block[t], table[t], 0) /\ dirty' = dirty
    BY <1>1, <1>8 DEF Placed, caller, Sets, Typed, LocalTypes
  <2>2. t \notin dirty
    BY <1>8 DEF Going, Fits
  <2>3. Fits(op[t], call[t], ino[t], pos[t] + 1, to[t], 0, t \in dirty')
    <3>1. pos[t] \in Nat /\ Count(to[t]) \in Nat /\ pos[t] + 1 <= Count(to[t]) /\ op[t] = "grow"
      BY <1>1, <1>8, LocalIs, CountIs
    <3> QED BY <1>1, <2>1, <2>2, <3>1 DEF Fits
  <2>4. Moves(t, op[t], call[t], ino[t], n, pos[t] + 1, to[t], block[t], table[t], 0, t \in dirty')
    <3> HIDE DEF n
    <3> QED BY <1>2, <1>5, <2>1, <2>3, LocalIs, MovesIs
  <2>5. t \in dirty' <=> FALSE
    BY <2>1, <2>2
  <2> QED BY <1>3, <1>5, <1>8, <2>4, <2>5 DEF Moves
<1>9. (Level(l) > 0) \/ (Level(l) = 0 /\ call[t] = "write") \/ (Level(l) = 0 /\ call[t] # "write")
  BY <1>3
<1> HIDE DEF l
<1> QED BY <1>6, <1>7, <1>8, <1>9

\* What a freed block holds are words.
LEMMA ForgottenIs ==
  ASSUME Typed, NEW B
  PROVE  Forgotten(B) \in [Blocks -> [Entry -> Word]]
BY WordsAre DEF Forgotten, Typed, StoreTypes

\* A write without a block stops, goes to the indirect blocks, or sets its direct pointer.
LEMMA WriteAllocateIs ==
  ASSUME Typed, NEW t \in Tasks, Going(t), WriteAllocate(t)
  PROVE  /\ call[t] = "write" /\ ino[t] \in Inodes /\ Here(t) \in Logicals
         /\ FreeBlock(InodeGroup[ino[t]]) = -1 \/ FreeBlock(InodeGroup[ino[t]]) \in Blocks \ bmap
         /\ LET b == FreeBlock(InodeGroup[ino[t]])
                l == Here(t)
                n == [copy[t] EXCEPT !.ptr[l] = b]
            IN IF b < 0
               THEN Moves(t, "write", "write", ino[t], copy[t], pos[t], pos[t], block[t], table[t], 0, t \in dirty)
               ELSE IF Level(l) > 0
               THEN Moves(t, "root", "write", ino[t], copy[t], pos[t], to[t], b, table[t], 0, t \in dirty)
               ELSE /\ l \in Slots /\ l = Root(l) /\ n \in InodeType
                    /\ Moves(t, "data", "write", ino[t], n, pos[t], to[t], b, table[t], 0, TRUE)
<1> DEFINE b == FreeBlock(InodeGroup[ino[t]])
<1>1. /\ op[t] = "write" /\ call[t] = "write" /\ pos[t] < to[t] /\ ino[t] \in Inodes /\ depth[t] = 0
  BY DEF WriteAllocate, Going, Fits
<1>2. b = -1 \/ b \in Blocks \ bmap
  BY <1>1, InGroups, FreeBlockIs
<1>3. Here(t) \in Logicals
  BY <1>1, HereIs
<1>4. StoreTypes'
  BY DEF WriteAllocate, Placed, store, caller, Typed, StoreTypes
<1>5. CASE b < 0
  <2>1. Sets(t, "write", "write", ino[t], copy[t], pos[t], pos[t], block[t], table[t], 0) /\ dirty' = dirty
    BY <1>1, <1>5 DEF WriteAllocate, caller, Sets, Typed, LocalTypes
  <2>2. Fits("write", "write", ino[t], pos[t], pos[t], 0, t \in dirty')
    BY <1>1, LocalIs DEF Fits
  <2>3. "write" \in Ops /\ "write" \in CallNames /\ pos[t] \in 0..(MaxBlocks * Words) /\ 0 \in 0..2
    <3>1. pos[t] \in Nat /\ to[t] \in 0..(MaxBlocks * Words) /\ MaxBlocks * Words \in Nat /\ pos[t] <= to[t]
      BY <1>1, LocalIs, FileIs
    <3>2. pos[t] \in 0..(MaxBlocks * Words)
      BY ONLY <3>1
    <3> QED BY <3>2 DEF Ops, CallNames
  <2>4. Moves(t, "write", "write", ino[t], copy[t], pos[t], pos[t], block[t], table[t], 0, t \in dirty')
    BY <1>4, <2>1, <2>2, <2>3, LocalIs, MovesIs
  <2> QED BY <1>1, <1>2, <1>3, <1>5, <2>1, <2>4
<1>6. CASE ~(b < 0)
  <2>1. Placed(t, b) /\ b \in Blocks
    BY <1>2, <1>6 DEF WriteAllocate
  <2> HIDE DEF b
  <2>2. LET l == Here(t)
            n == [copy[t] EXCEPT !.ptr[l] = b]
         IN IF Level(l) > 0
            THEN Moves(t, "root", call[t], ino[t], copy[t], pos[t], to[t], b, table[t], 0, t \in dirty)
            ELSE /\ l \in Slots /\ l = Root(l) /\ n \in InodeType
                 /\ IF call[t] = "write"
                    THEN Moves(t, "data", "write", ino[t], n, pos[t], to[t], b, table[t], 0, TRUE)
                    ELSE Moves(t, op[t], call[t], ino[t], n, pos[t] + 1, to[t], block[t], table[t], 0, FALSE)
    BY <1>1, <1>4, <2>1, PlacedIs
  <2> USE DEF b
  <2> QED BY <1>1, <1>2, <1>3, <1>6, <2>2
<1> QED BY <1>5, <1>6

\* A write leaves its tag in one block, and goes on behind it.
LEMMA WriteDataIs ==
  ASSUME Typed, NEW t \in Tasks, Going(t), WriteData(t)
  PROVE  /\ call[t] = "write" /\ ino[t] \in Inodes /\ Here(t) \in Logicals
         /\ Moves(t, "write", "write", ino[t], copy[t], pos[t] + Chunk(t), to[t], 0, table[t], 0, t \in dirty)
         /\ Chunk(t) \in Nat \ {0} /\ pos[t] + Chunk(t) <= (Here(t) + 1) * Words
         /\ \E f \in [Entry -> Word] :
              /\ disk' = [disk EXCEPT ![block[t]] = f]
              /\ \A k \in Entry : f[k] = disk[block[t]][k] \/ f[k] = Tag(ino[t], Here(t))
<1>1. /\ op[t] = "data" /\ call[t] = "write" /\ pos[t] < to[t] /\ ino[t] \in Inodes /\ depth[t] = 0
  BY DEF WriteData, Going, Fits
<1>2. Here(t) \in Logicals /\ Here(t) = pos[t] \div Words
  BY <1>1, HereIs DEF Here
<1>3. PICK p, e : p = pos[t] /\ e = to[t]
  OBVIOUS
<1>4. PICK q, r : q = p \div Words /\ r = p % Words
  OBVIOUS
<1>5. PICK c : c = Chunk(t)
  OBVIOUS
<1>14. /\ p \in Nat /\ e \in Nat /\ p < e /\ q \in Nat /\ r \in 0..(Words - 1) /\ p = Words * q + r
       /\ Words \in Nat
  <2>1. p \in Nat /\ e \in Nat /\ p < e
    BY <1>1, <1>3, LocalIs, FileIs
  <2>2. 0 \in Int
    OBVIOUS
  <2>3. p \div Words \in Nat /\ p % Words \in Entry /\ p = Words * (p \div Words) + (p % Words)
    BY <2>1, <2>2, CountIs
  <2>4. Words \in Nat /\ Entry = 0..(Words - 1)
    BY FileIs
  <2> QED BY <1>4, <2>1, <2>3, <2>4
<1>15. Words * q \in Nat /\ (q + 1) * Words = Words * q + Words
  BY <1>14
<1>16. c = IF e - p < Words - r THEN e - p ELSE Words - r
  BY <1>3, <1>4, <1>5 DEF Chunk, Least
<1>6. c \in Nat \ {0} /\ p + c <= e /\ p + c <= (q + 1) * Words /\ p + c \in Nat
  BY <1>14, <1>15, <1>16
<1>7. Sets(t, "write", "write", ino[t], copy[t], pos[t] + Chunk(t), to[t], 0, table[t], 0) /\ dirty' = dirty
  BY <1>1 DEF WriteData, Goes, caller, Sets, Typed, LocalTypes
<1>8. PICK f : f = [k \in Entry |-> IF k \in (pos[t] % Words)..((pos[t] % Words) + Chunk(t) - 1)
                                   THEN Tag(ino[t], Here(t)) ELSE disk[block[t]][k]]
  OBVIOUS
<1>9. /\ f \in [Entry -> Word]
      /\ disk' = [disk EXCEPT ![block[t]] = f]
      /\ \A k \in Entry : f[k] = disk[block[t]][k] \/ f[k] = Tag(ino[t], Here(t))
  <2>1. disk[block[t]] \in [Entry -> Word] /\ Tag(ino[t], Here(t)) \in Word
    BY <1>1, <1>2, LocalIs, WordsAre DEF Typed, StoreTypes
  <2>2. f \in [Entry -> Word] /\ \A k \in Entry : f[k] = disk[block[t]][k] \/ f[k] = Tag(ino[t], Here(t))
    BY <1>8, <2>1
  <2>3. disk' = [disk EXCEPT ![block[t]] = f]
    BY <1>8, LocalIs DEF WriteData, Typed, StoreTypes
  <2> QED BY <2>2, <2>3
<1>10. StoreTypes'
  BY <1>9 DEF WriteData, caller, Typed, StoreTypes
<1>11. Fits("write", "write", ino[t], pos[t] + Chunk(t), to[t], 0, t \in dirty')
  BY <1>1, <1>3, <1>5, <1>6, LocalIs DEF Fits
<1>12. "write" \in Ops /\ "write" \in CallNames /\ 0 \in Blocks /\ 0 \in 0..2 /\ pos[t] + Chunk(t) \in Nat
  BY <1>3, <1>5, <1>6, Volume DEF Ops, CallNames
<1>13. Moves(t, "write", "write", ino[t], copy[t], pos[t] + Chunk(t), to[t], 0, table[t], 0, t \in dirty')
  BY <1>7, <1>10, <1>11, <1>12, LocalIs, MovesIs
<1> QED BY <1>1, <1>2, <1>3, <1>4, <1>5, <1>6, <1>7, <1>9, <1>13

\* A write ends.
LEMMA WriteEndIs ==
  ASSUME Typed, NEW t \in Tasks, Going(t), WriteEnd(t)
  PROVE  /\ call[t] = "write" /\ ino[t] \in Inodes
         /\ Moves(t, "user", "none", 0, NoInode, 0, 0, 0, 0, 0, FALSE)
<1>1. op[t] = "write" /\ call[t] = "write" /\ ino[t] \in Inodes /\ pos[t] = to[t]
  BY DEF WriteEnd, Going, Fits
<1>2. /\ LocalTypes' /\ Others(t) /\ calls' = calls /\ files' \subseteq Inodes /\ ImagesOf(image')
      /\ Arrives(t, "user", "none", 0, NoInode, 0, 0, 0, 0, 0)
      /\ t \notin dirty' /\ Going(t)'
  BY <1>1, EndsIs DEF WriteEnd
<1>3. Written(copy[t], pos[t]) \in InodeType
  <2>1. pos[t] % SizeMod \in 0..(MaxBlocks * Words)
    <3>1. pos[t] \in Nat /\ pos[t] <= MaxBlocks * Words /\ MaxBlocks * Words \in Nat
      BY <1>1, LocalIs, FileIs
    <3>2. SizeMod \in Nat /\ SizeMod > 0
      BY FileAssumption
    <3>3. pos[t] % SizeMod \in Nat /\ pos[t] % SizeMod <= pos[t]
      BY <3>1, <3>2, Remainder
    <3> QED BY <3>1, <3>3
  <2> QED BY <2>1, LocalIs DEF Written, InodeType
<1>4. inodes' \in [Inodes -> InodeType]
  BY <1>3, SaveIs DEF WriteEnd, Typed, StoreTypes
<1>5. lost' \subseteq Blocks
  BY <1>3, LocalIs, PhysicalIs DEF WriteEnd, Typed, StoreTypes
<1>6. StoreTypes'
  BY <1>2, <1>4, <1>5 DEF WriteEnd, Typed, StoreTypes
<1> QED BY <1>1, <1>2, <1>6 DEF Moves, Typed

\* The hint for an indirect block is a group.
LEMMA HintIs ==
  ASSUME Typed, NEW t \in Tasks, Going(t), op[t] = "root"
  PROVE  RootHint(copy[t], Here(t)) \in GroupIds /\ Root(Here(t)) \in Slots
<1>1. Here(t) \in Logicals /\ Level(Here(t)) > 0
  BY HereIs DEF Going, Fits, Here
<1>2. Level(Here(t)) \in 1..3 /\ Root(Here(t)) = Direct + Level(Here(t)) - 1 /\ Root(Here(t)) \in Slots
  BY <1>1, Paths
<1>3. CASE Level(Here(t)) = 1
  BY <1>2, <1>3, Volume DEF RootHint
<1>4. CASE Level(Here(t)) # 1
  <2>1. Root(Here(t)) - 1 \in Slots
    BY <1>2, <1>4, FileIs
  <2>2. copy[t].ptr[Root(Here(t)) - 1] \in Blocks
    BY <2>1, LocalIs DEF InodeType
  <2> QED BY <1>2, <1>4, <2>2, InGroups DEF RootHint
<1> QED BY <1>3, <1>4

\* What _create_indirect_block returns.
LEMMA IndirectBlockIs ==
  ASSUME NEW start \in GroupIds
  PROVE  IndirectBlock(start) = 0 \/ IndirectBlock(start) \in Blocks \ (bmap \cup {0})
BY FreeBlockIs, Volume DEF IndirectBlock

\* A task follows the inode's pointer, or sets it to a new block of zeros, or to 0.
LEMMA SetRootIs ==
  ASSUME Typed, NEW t \in Tasks, Going(t), SetRoot(t)
  PROVE  /\ ino[t] \in Inodes /\ Here(t) \in Logicals /\ Root(Here(t)) \in Slots
         /\ \E b \in Blocks :
              LET s == Root(Here(t))
                  n == [copy[t] EXCEPT !.ptr[s] = b]
              IN /\ Moves(t, "table", call[t], ino[t], n, pos[t], to[t], block[t], b, 0, t \in dirty)
                 /\ n \in InodeType
                 /\ \/ /\ b = copy[t].ptr[s] /\ n = copy[t] /\ UNCHANGED <<blockmap, disk>>
                    \/ /\ copy[t].ptr[s] = 0 /\ b \in Blocks \ (bmap \cup {0})
                       /\ AllocateBlock(b) /\ disk' = [disk EXCEPT ![b] = Zeros]
<1> DEFINE s == Root(Here(t))
           b == IF copy[t].ptr[s] # 0 THEN copy[t].ptr[s] ELSE IndirectBlock(RootHint(copy[t], Here(t)))
           n == [copy[t] EXCEPT !.ptr[s] = b]
<1>1. /\ op[t] = "root" /\ call[t] \in {"create", "write", "truncate"} /\ ino[t] \in Inodes /\ depth[t] = 0
      /\ Level(Here(t)) > 0
  BY DEF SetRoot, Going, Fits, Here
<1>2. Here(t) \in Logicals /\ s \in Slots /\ RootHint(copy[t], Here(t)) \in GroupIds
  BY <1>1, HereIs, HintIs
<1>3. copy[t] \in InodeType /\ copy[t].ptr \in [Slots -> Blocks] /\ copy[t].ptr[s] \in Blocks
  BY <1>2, LocalIs DEF InodeType
<1>4. b \in Blocks /\ \/ b = copy[t].ptr[s]
                      \/ copy[t].ptr[s] = 0 /\ b \in Blocks \ (bmap \cup {0})
  BY <1>2, <1>3, IndirectBlockIs
<1>5. n \in InodeType /\ (b = copy[t].ptr[s] => n = copy[t])
  <2> HIDE DEF b, s
  <2> QED BY <1>2, <1>3, <1>4 DEF InodeType
<1>6. Sets(t, "table", call[t], ino[t], n, pos[t], to[t], block[t], b, 0) /\ dirty' = dirty
  BY <1>1 DEF SetRoot, Goes, caller, Sets, Typed, LocalTypes
<1>7. \/ b = copy[t].ptr[s] /\ UNCHANGED <<blockmap, disk>>
      \/ copy[t].ptr[s] = 0 /\ b \in Blocks \ (bmap \cup {0}) /\ AllocateBlock(b) /\ disk' = [disk EXCEPT ![b] = Zeros]
  <2>1. IF copy[t].ptr[s] # 0 \/ b <= 0 THEN UNCHANGED <<blockmap, disk>>
        ELSE AllocateBlock(b) /\ disk' = [disk EXCEPT ![b] = Zeros]
    BY DEF SetRoot
  <2>2. b \in Nat /\ (copy[t].ptr[s] # 0 => b = copy[t].ptr[s])
    BY <1>4, Volume
  <2> HIDE DEF b, s
  <2>3. CASE copy[t].ptr[s] # 0
    BY <2>1, <2>2, <2>3
  <2>4. CASE copy[t].ptr[s] = 0 /\ b = 0
    BY <2>1, <2>2, <2>4
  <2>5. CASE copy[t].ptr[s] = 0 /\ b # 0
    BY <1>4, <2>1, <2>2, <2>5
  <2> QED BY <2>3, <2>4, <2>5
<1>8. StoreTypes'
  <2>1. disk' \in [Blocks -> [Entry -> Word]]
    <3> HIDE DEF b, s
    <3> QED BY <1>7, WordsAre DEF Typed, StoreTypes
  <2> QED BY <2>1 DEF SetRoot, caller, Typed, StoreTypes
<1>9. Fits("table", call[t], ino[t], pos[t], to[t], 0, t \in dirty')
  BY <1>1, <1>6 DEF Going, Fits, Here
<1>10. "table" \in Ops /\ 0 \in 0..2
  BY DEF Ops
<1> HIDE DEF b, n
<1>11. Moves(t, "table", call[t], ino[t], n, pos[t], to[t], block[t], b, 0, t \in dirty')
  BY <1>4, <1>5, <1>6, <1>8, <1>9, <1>10, LocalIs, MovesIs
<1>12. Moves(t, "table", call[t], ino[t], n, pos[t], to[t], block[t], b, 0, t \in dirty)
  BY <1>6, <1>11
<1>13. \/ b = copy[t].ptr[s] /\ n = copy[t] /\ UNCHANGED <<blockmap, disk>>
       \/ copy[t].ptr[s] = 0 /\ b \in Blocks \ (bmap \cup {0}) /\ AllocateBlock(b) /\ disk' = [disk EXCEPT ![b] = Zeros]
  BY <1>5, <1>7
<1> QED BY <1>1, <1>2, <1>4, <1>5, <1>12, <1>13 DEF n

\* A task that sets an entry, and the index it is at.
LEMMA PlacingIs ==
  ASSUME Typed, NEW t \in Tasks, Going(t), op[t] = "table"
  PROVE  /\ Here(t) \in Logicals /\ Level(Here(t)) \in 1..3 /\ depth[t] < Level(Here(t))
         /\ Path[Here(t)][depth[t] + 1] \in Entry /\ ino[t] \in Inodes
         /\ call[t] \in {"create", "write", "truncate"} /\ (t \in dirty => call[t] = "write")
         /\ (call[t] = "write" => pos[t] < to[t]) /\ (call[t] # "write" => pos[t] < Count(to[t]))
         /\ Root(Here(t)) \in Slots /\ Root(Here(t)) = Direct + Level(Here(t)) - 1
         /\ table[t] \in Blocks /\ depth[t] \in 0..2
<1>1. /\ ino[t] \in Inodes /\ call[t] \in {"create", "write", "truncate"} /\ (t \in dirty => call[t] = "write")
      /\ (call[t] = "write" => pos[t] < to[t]) /\ (call[t] # "write" => pos[t] < Count(to[t]))
      /\ Level(Here(t)) > 0 /\ depth[t] < Level(Here(t))
  BY DEF Going, Fits, Here
<1>2. Here(t) \in Logicals
  BY HereIs
<1>3. Level(Here(t)) \in 1..3 /\ Root(Here(t)) = Direct + Level(Here(t)) - 1 /\ Root(Here(t)) \in Slots
      /\ \A k \in 1..Level(Here(t)) : Path[Here(t)][k] \in Entry
  BY <1>1, <1>2, Paths
<1>4. depth[t] + 1 \in 1..Level(Here(t))
  BY <1>1, <1>3, LocalIs
<1> QED BY <1>1, <1>2, <1>3, <1>4, LocalIs

\* A task follows an entry, or sets it to a new block of zeros.
LEMMA SetTableIs ==
  ASSUME Typed, NEW t \in Tasks, Going(t), SetTable(t), FollowsBlocks'
  PROVE  /\ depth[t] + 1 < Level(Here(t)) /\ depth[t] \in 0..1
         /\ LET T == table[t]
                k == Path[Here(t)][depth[t] + 1]
            IN \E b \in Blocks \ {0} :
                 /\ Moves(t, "table", call[t], ino[t], copy[t], pos[t], to[t], block[t], b, depth[t] + 1, t \in dirty)
                 /\ \/ b = disk[T][k] /\ UNCHANGED <<blockmap, disk, lost>>
                    \/ /\ disk[T][k] = 0 /\ b \in Blocks \ (bmap \cup {0}) /\ AllocateBlock(b)
                       /\ disk' = [disk EXCEPT ![b] = Zeros, ![T][k] = b] /\ lost' = Lost(t, b)
<1> DEFINE T == table[t]
           k == Path[Here(t)][depth[t] + 1]
           b == IF disk[T][k] # 0 THEN disk[T][k] ELSE IndirectBlock(BlockGroup[T])
<1>1. op[t] = "table" /\ depth[t] < Level(Here(t)) - 1
  BY DEF SetTable
<1>2. /\ Here(t) \in Logicals /\ Level(Here(t)) \in 1..3 /\ k \in Entry /\ T \in Blocks /\ depth[t] \in 0..2
      /\ ino[t] \in Inodes /\ call[t] \in {"create", "write", "truncate"} /\ (t \in dirty => call[t] = "write")
      /\ (call[t] = "write" => pos[t] < to[t]) /\ (call[t] # "write" => pos[t] < Count(to[t]))
  BY <1>1, PlacingIs
<1>3. depth[t] + 1 < Level(Here(t)) /\ depth[t] \in 0..1 /\ depth[t] + 1 \in 0..2
  BY <1>1, <1>2
<1>4. b # 0
  BY DEF SetTable
<1>5. table' = [table EXCEPT ![t] = b] /\ table'[t] = b /\ b \in Blocks
  BY DEF SetTable, FollowsBlocks, Typed, LocalTypes
<1>6. \/ b = disk[T][k] /\ UNCHANGED <<blockmap, disk, lost>>
      \/ /\ disk[T][k] = 0 /\ b \in Blocks \ (bmap \cup {0}) /\ AllocateBlock(b)
         /\ disk' = [disk EXCEPT ![b] = Zeros, ![T][k] = b] /\ lost' = Lost(t, b)
  <2>1. CASE disk[T][k] # 0
    <3>1. b = disk[T][k] /\ UNCHANGED <<blockmap, disk, lost>>
      BY <2>1 DEF SetTable
    <3> QED BY <3>1
  <2>2. CASE disk[T][k] = 0
    <3>1. b = IndirectBlock(BlockGroup[T]) /\ b \in Blocks \ (bmap \cup {0})
      <4>1. b = IndirectBlock(BlockGroup[T])
        BY <2>2
      <4>2. BlockGroup[T] \in GroupIds
        BY <1>2, InGroups
      <4> QED BY <1>4, <4>1, <4>2, IndirectBlockIs
    <3>2. AllocateBlock(b) /\ disk' = [disk EXCEPT ![b] = Zeros, ![T][k] = b] /\ lost' = Lost(t, b)
      BY <2>2 DEF SetTable
    <3> QED BY <2>2, <3>1, <3>2
  <2> QED BY <2>1, <2>2
<1>7. Sets(t, "table", call[t], ino[t], copy[t], pos[t], to[t], block[t], b, depth[t] + 1) /\ dirty' = dirty
  BY <1>1, <1>5 DEF SetTable, caller, Sets, Typed, LocalTypes
<1>8. StoreTypes'
  <2> HIDE DEF b, k, T
  <2>1. disk' \in [Blocks -> [Entry -> Word]]
    <3>1. CASE disk' = disk
      BY <3>1 DEF Typed, StoreTypes
    <3>2. CASE disk' = [disk EXCEPT ![b] = Zeros, ![T][k] = b]
      <4>1. b \in Word /\ Zeros \in [Entry -> Word] /\ disk \in [Blocks -> [Entry -> Word]]
        BY <1>5, WordsAre DEF Typed, StoreTypes
      <4>2. [disk EXCEPT ![b] = Zeros] \in [Blocks -> [Entry -> Word]]
        BY <4>1
      <4>3. PICK e : e = [disk EXCEPT ![b] = Zeros]
        OBVIOUS
      <4>4. e \in [Blocks -> [Entry -> Word]] /\ disk' = [e EXCEPT ![T] = [@ EXCEPT ![k] = b]]
        BY <3>2, <4>2, <4>3
      <4> QED BY <1>2, <4>1, <4>4
    <3> QED BY <1>6, <3>1, <3>2
  <2>2. lost' \subseteq Blocks
    BY <1>5, <1>6 DEF Lost, Typed, StoreTypes
  <2> QED BY <2>1, <2>2 DEF SetTable, caller, Typed, StoreTypes
<1>9. Fits("table", call[t], ino[t], pos[t], to[t], depth[t] + 1, t \in dirty')
  <2>1. Level(Here(t)) > 0
    BY <1>2
  <2> QED BY <1>2, <1>3, <1>7, <2>1, LocalIs DEF Fits, Here
<1>10. "table" \in Ops
  BY DEF Ops
<1> HIDE DEF b
<1>11. Moves(t, "table", call[t], ino[t], copy[t], pos[t], to[t], block[t], b, depth[t] + 1, t \in dirty')
  BY <1>3, <1>5, <1>7, <1>8, <1>9, <1>10, LocalIs, MovesIs
<1>12. Moves(t, "table", call[t], ino[t], copy[t], pos[t], to[t], block[t], b, depth[t] + 1, t \in dirty)
  BY <1>7, <1>11
<1> QED BY <1>3, <1>4, <1>5, <1>6, <1>12

\* Without an indirect block a write stops, and a truncate ends.
LEMMA NoTableIs ==
  ASSUME Typed, NEW t \in Tasks, Going(t), NoTable(t)
  PROVE  /\ ino[t] \in Inodes
         /\ call[t] = "write" =>
              Moves(t, "write", "write", ino[t], copy[t], pos[t], pos[t], 0, 0, 0, t \in dirty)
         /\ call[t] # "write" => /\ call[t] \in {"create", "truncate"}
                                 /\ Moves(t, "user", "none", 0, NoInode, 0, 0, 0, 0, 0, FALSE)
<1>1. op[t] = "table" /\ disk' = Forgotten({block[t]})
  BY DEF NoTable
<1>2. /\ ino[t] \in Inodes /\ call[t] \in {"create", "write", "truncate"}
      /\ (call[t] = "write" => pos[t] < to[t])
  BY <1>1, PlacingIs
<1>3. disk' \in [Blocks -> [Entry -> Word]] /\ inodes' = inodes
  BY <1>1, ForgottenIs DEF NoTable
<1>4. CASE call[t] = "write"
  <2>1. Sets(t, "write", "write", ino[t], copy[t], pos[t], pos[t], 0, 0, 0) /\ dirty' = dirty
    BY <1>4 DEF NoTable, Goes, caller, Sets, Typed, LocalTypes
  <2>2. Fits("write", "write", ino[t], pos[t], pos[t], 0, t \in dirty')
    BY <1>2, LocalIs DEF Fits
  <2>3. /\ "write" \in Ops /\ "write" \in CallNames /\ pos[t] \in 0..(MaxBlocks * Words) /\ 0 \in 0..2
        /\ 0 \in Blocks
    BY <1>2, <1>4, LocalIs, FileIs, Volume DEF Ops, CallNames
  <2>4. StoreTypes'
    BY <1>3, <1>4 DEF NoTable, caller, Typed, StoreTypes
  <2>5. Moves(t, "write", "write", ino[t], copy[t], pos[t], pos[t], 0, 0, 0, t \in dirty')
    BY <2>1, <2>2, <2>3, <2>4, LocalIs, MovesIs
  <2> QED BY <1>2, <1>4, <2>1, <2>5
<1>5. CASE call[t] # "write"
  <2>1. Ends(t) /\ lost' = lost \cup (BlocksOf(copy[t]) \ Kept(inodes[ino[t]]))
    BY <1>5 DEF NoTable
  <2>2. /\ LocalTypes' /\ Others(t) /\ calls' = calls /\ files' \subseteq Inodes /\ ImagesOf(image')
        /\ Arrives(t, "user", "none", 0, NoInode, 0, 0, 0, 0, 0)
        /\ t \notin dirty' /\ Going(t)'
    BY <1>1, <2>1, EndsIs
  <2>3. BlocksOf(copy[t]) \subseteq Blocks
    BY LocalIs, PhysicalIs
  <2>4. StoreTypes'
    BY <1>3, <2>1, <2>2, <2>3 DEF Typed, StoreTypes
  <2> QED BY <1>2, <1>5, <2>2, <2>4 DEF Moves, Typed
<1> QED BY <1>4, <1>5

\* The last entry is set: a write has its block, and a truncate goes on.
LEMMA SetEntryIs ==
  ASSUME Typed, NEW t \in Tasks, Going(t), SetEntry(t)
  PROVE  /\ ino[t] \in Inodes /\ depth[t] + 1 = Level(Here(t))
         /\ disk' = [disk EXCEPT ![table[t]] = [@ EXCEPT ![Path[Here(t)][depth[t] + 1]] = block[t]]]
         /\ call[t] = "write" =>
              Moves(t, "data", "write", ino[t], copy[t], pos[t], to[t], block[t], 0, 0, TRUE)
         /\ call[t] # "write" =>
              /\ call[t] \in {"create", "truncate"}
              /\ Moves(t, "grow", call[t], ino[t], copy[t], pos[t] + 1, to[t], 0, 0, 0, FALSE)
<1> DEFINE k == Path[Here(t)][depth[t] + 1]
<1>1. op[t] = "table" /\ depth[t] = Level(Here(t)) - 1 /\ disk' = [disk EXCEPT ![table[t]][k] = block[t]]
  BY DEF SetEntry
<1>2. /\ Here(t) \in Logicals /\ Level(Here(t)) \in 1..3 /\ k \in Entry /\ table[t] \in Blocks
      /\ ino[t] \in Inodes /\ call[t] \in {"create", "write", "truncate"} /\ (t \in dirty => call[t] = "write")
      /\ (call[t] = "write" => pos[t] < to[t]) /\ (call[t] # "write" => pos[t] < Count(to[t]))
  BY <1>1, PlacingIs
<1>3. depth[t] + 1 = Level(Here(t))
  BY <1>1, <1>2
<1> HIDE DEF k
<1>4. disk' = [disk EXCEPT ![table[t]] = [@ EXCEPT ![k] = block[t]]]
  BY <1>1
<1>5. disk' \in [Blocks -> [Entry -> Word]]
  BY <1>2, <1>4, LocalIs, WordsAre DEF Typed, StoreTypes
<1>6. StoreTypes'
  BY <1>5, LocalIs DEF SetEntry, caller, Lost, Typed, StoreTypes
<1>7. CASE call[t] = "write"
  <2>1. Sets(t, "data", "write", ino[t], copy[t], pos[t], to[t], block[t], 0, 0) /\ dirty' = dirty \cup {t}
    BY <1>7 DEF SetEntry, Goes, caller, Sets, Typed, LocalTypes
  <2>2. Fits("data", "write", ino[t], pos[t], to[t], 0, t \in dirty')
    BY <1>2, <1>7, LocalIs DEF Fits
  <2>3. "data" \in Ops /\ "write" \in CallNames /\ 0 \in 0..2 /\ 0 \in Blocks
    BY Volume DEF Ops, CallNames
  <2>4. Moves(t, "data", "write", ino[t], copy[t], pos[t], to[t], block[t], 0, 0, t \in dirty')
    BY <1>6, <2>1, <2>2, <2>3, LocalIs, MovesIs
  <2>5. t \in dirty' <=> TRUE
    BY <2>1
  <2> QED BY <1>2, <1>3, <1>4, <1>7, <2>4, <2>5 DEF Moves, k
<1>8. CASE call[t] # "write"
  <2>1. Sets(t, "grow", call[t], ino[t], copy[t], pos[t] + 1, to[t], 0, 0, 0) /\ dirty' = dirty
    BY <1>8 DEF SetEntry, Goes, caller, Sets, Typed, LocalTypes
  <2>2. Fits("grow", call[t], ino[t], pos[t] + 1, to[t], 0, t \in dirty')
    <3>1. pos[t] \in Nat /\ Count(to[t]) \in Nat /\ pos[t] + 1 <= Count(to[t])
      BY <1>2, <1>8, LocalIs, CountIs
    <3> QED BY <1>2, <1>8, <2>1, <3>1 DEF Fits
  <2>3. "grow" \in Ops /\ 0 \in 0..2 /\ 0 \in Blocks /\ pos[t] + 1 \in Nat
    BY LocalIs, Volume DEF Ops
  <2>4. Moves(t, "grow", call[t], ino[t], copy[t], pos[t] + 1, to[t], 0, 0, 0, t \in dirty')
    BY <1>6, <2>1, <2>2, <2>3, LocalIs, MovesIs
  <2>5. t \in dirty' <=> FALSE
    BY <1>2, <1>8, <2>1
  <2> QED BY <1>2, <1>3, <1>4, <1>8, <2>4, <2>5 DEF Moves, k
<1> QED BY <1>7, <1>8

\* A truncate starts at the end of the file.
LEMMA TruncateIs ==
  ASSUME Typed, NEW t \in Tasks, Going(t), NEW i \in Inodes, NEW size \in Sizes, Truncate(t, i, size)
  PROVE  /\ Moves(t, IF size < inodes[i].size THEN "shrink" ELSE "grow", "truncate", i, inodes[i],
                  Count(inodes[i].size), size, block[t], table[t], 0, FALSE)
         /\ size \in Nat /\ inodes[i].size \in Nat
         /\ size <= MaxBlocks * Words /\ inodes[i].size <= MaxBlocks * Words
<1> DEFINE o == IF size < inodes[i].size THEN "shrink" ELSE "grow"
<1>1. /\ inodes[i] \in InodeType /\ inodes[i].size \in Nat /\ inodes[i].size <= MaxBlocks * Words
      /\ size \in Nat /\ size <= MaxBlocks * Words
  BY FileIs DEF Typed, StoreTypes, InodeType
<1>2. /\ o \in Ops /\ "truncate" \in CallNames /\ size \in 0..(MaxBlocks * Words)
  BY <1>1, FileIs DEF Ops, CallNames
<1>3. Count(inodes[i].size) \in Nat /\ Count(inodes[i].size) <= MaxBlocks
  BY <1>1, CountIs, Counting
<1>4. /\ LocalTypes' /\ Others(t) /\ calls' \in 0..MaxCalls /\ ImagesOf(image')
      /\ Arrives(t, o, "truncate", i, inodes[i], Count(inodes[i].size), size, block[t], table[t], 0)
      /\ t \notin dirty'
  BY <1>1, <1>2, <1>3, StartsIs DEF Truncate, Idle
<1>5. disk' \in [Blocks -> [Entry -> Word]]
  <2>1. disk' = disk \/ \E p, m : disk' = [disk EXCEPT ![p] = [k \in Entry |-> IF k >= m THEN 0 ELSE @[k]]]
    BY DEF Truncate, ZeroedTail
  <2> QED BY <2>1, WordsAre, SMTT(30) DEF Typed, StoreTypes
<1>6. StoreTypes'
  BY <1>4, <1>5 DEF Truncate, Typed, StoreTypes
<1>7. Going(t)'
  <2>1. CASE size < inodes[i].size
    <3>1. Count(size) <= Count(inodes[i].size)
      BY <1>1, <2>1, Counting
    <3> QED BY <1>3, <1>4, <2>1, <3>1 DEF Arrives, Going, Fits
  <2>2. CASE ~(size < inodes[i].size)
    <3>1. Count(inodes[i].size) <= Count(size)
      BY <1>1, <2>2, Counting
    <3> QED BY <1>3, <1>4, <2>2, <3>1 DEF Arrives, Going, Fits
  <2> QED BY <2>1, <2>2
<1> QED BY <1>1, <1>4, <1>6, <1>7 DEF Moves, Typed

\* A truncate passes the last logical block, and frees its block if there is one.
LEMMA ShrinkIs ==
  ASSUME Typed, NEW t \in Tasks, Going(t), Shrink(t)
  PROVE  /\ ino[t] \in Inodes /\ pos[t] - 1 \in Logicals /\ call[t] = "truncate"
         /\ LET p == GetPhysical(copy[t], pos[t] - 1)
            IN \/ /\ p = 0 /\ UNCHANGED <<blockmap, disk>>
                  /\ Moves(t, "shrink", "truncate", ino[t], copy[t], pos[t] - 1, to[t], block[t], table[t], 0, FALSE)
               \/ /\ p # 0 /\ FreeBlocks({p}) /\ disk' = Forgotten({p})
                  /\ Moves(t, "clear", "truncate", ino[t], copy[t], pos[t], to[t], block[t], table[t], 0, FALSE)
<1> DEFINE l == pos[t] - 1
           p == GetPhysical(copy[t], l)
<1>1. /\ op[t] = "shrink" /\ call[t] = "truncate" /\ ino[t] \in Inodes /\ depth[t] = 0 /\ t \notin dirty
      /\ pos[t] > Count(to[t]) /\ pos[t] <= MaxBlocks
  BY DEF Shrink, Going, Fits
<1>2. Count(to[t]) \in Nat /\ l \in Logicals /\ l \in Nat /\ Count(to[t]) <= l /\ l <= MaxBlocks
  <2>1. pos[t] \in Nat /\ to[t] \in Nat /\ MaxBlocks \in Nat
    BY LocalIs, FileIs
  <2>2. Count(to[t]) \in Nat
    BY <2>1, CountIs
  <2> QED BY <1>1, <2>1, <2>2 DEF Logicals
<1>3. \A o \in Ops, q \in Nat : op' = [op EXCEPT ![t] = o] /\ pos' = [pos EXCEPT ![t] = q] =>
        Sets(t, o, "truncate", ino[t], copy[t], q, to[t], block[t], table[t], 0) /\ dirty' = dirty
  BY <1>1 DEF Shrink, caller, Sets, Typed, LocalTypes
<1>4. /\ Fits("shrink", "truncate", ino[t], l, to[t], 0, t \in dirty)
      /\ Fits("clear", "truncate", ino[t], pos[t], to[t], 0, t \in dirty)
  <2>1. pos[t] \in Nat /\ pos[t] > Count(to[t]) /\ ~(pos[t] = 0) /\ t \notin dirty
    BY <1>1, <1>2, LocalIs
  <2>2. Fits("shrink", "truncate", ino[t], l, to[t], 0, t \in dirty)
    BY <1>1, <1>2, <2>1 DEF Fits
  <2>3. Fits("clear", "truncate", ino[t], pos[t], to[t], 0, t \in dirty)
    BY <1>1, <1>2, <2>1 DEF Fits
  <2> QED BY <2>2, <2>3
<1>5. "shrink" \in Ops /\ "clear" \in Ops /\ "truncate" \in CallNames /\ 0 \in 0..2 /\ copy[t] \in InodeType
  BY LocalIs DEF Ops, CallNames
<1>6. CASE p = 0
  <2>1. op' = [op EXCEPT ![t] = "shrink"] /\ pos' = [pos EXCEPT ![t] = l] /\ UNCHANGED <<blockmap, disk>>
    BY <1>1, <1>6 DEF Shrink, Typed, LocalTypes
  <2>2. StoreTypes'
    BY <2>1 DEF Shrink, caller, Typed, StoreTypes
  <2>3. Sets(t, "shrink", "truncate", ino[t], copy[t], l, to[t], block[t], table[t], 0) /\ dirty' = dirty
    BY <1>2, <1>3, <1>5, <2>1
  <2>4. Moves(t, "shrink", "truncate", ino[t], copy[t], l, to[t], block[t], table[t], 0, t \in dirty')
    <3> HIDE DEF l
    <3> QED BY <1>2, <1>4, <1>5, <2>2, <2>3, LocalIs, MovesIs
  <2> QED BY <1>1, <1>2, <1>6, <2>1, <2>3, <2>4 DEF Moves
<1>7. CASE p # 0
  <2>1. /\ op' = [op EXCEPT ![t] = "clear"] /\ pos' = [pos EXCEPT ![t] = pos[t]] /\ FreeBlocks({p})
        /\ disk' = Forgotten({p})
    BY <1>7 DEF Shrink, Goes, Typed, LocalTypes
  <2>2. StoreTypes'
    BY <2>1, ForgottenIs DEF Shrink, caller, Typed, StoreTypes
  <2>3. Sets(t, "clear", "truncate", ino[t], copy[t], pos[t], to[t], block[t], table[t], 0) /\ dirty' = dirty
    BY <1>3, <1>5, <2>1, LocalIs
  <2>4. Moves(t, "clear", "truncate", ino[t], copy[t], pos[t], to[t], block[t], table[t], 0, t \in dirty')
    BY <1>2, <1>4, <1>5, <2>2, <2>3, LocalIs, MovesIs
  <2> QED BY <1>1, <1>2, <1>7, <2>1, <2>3, <2>4 DEF Moves
<1> QED BY <1>6, <1>7

\* Then its pointer, or its entry, is cleared.
LEMMA ClearIs ==
  ASSUME Typed, NEW t \in Tasks, Going(t), Clear(t)
  PROVE  /\ op[t] = "clear" /\ ino[t] \in Inodes /\ pos[t] - 1 \in Logicals /\ call[t] = "truncate"
         /\ LET l == pos[t] - 1
            IN /\ Cleared(copy[t], l) \in InodeType
               /\ disk' = IF Level(l) = 0 THEN disk
                          ELSE [disk EXCEPT ![LastTable(copy[t], l)] = [@ EXCEPT ![Last(Path[l])] = 0]]
               /\ Moves(t, "shrink", "truncate", ino[t], Cleared(copy[t], l), l, to[t], block[t], table[t], 0, FALSE)
<1> DEFINE l == pos[t] - 1
<1>1. /\ op[t] = "clear" /\ call[t] = "truncate" /\ ino[t] \in Inodes /\ depth[t] = 0 /\ t \notin dirty
      /\ pos[t] > Count(to[t]) /\ pos[t] <= MaxBlocks
  <2>1. pos[t] \in Nat /\ Count(to[t]) \in Nat
    BY LocalIs, CountIs
  <2> QED BY <2>1 DEF Clear, Going, Fits
<1>2. Count(to[t]) \in Nat /\ l \in Logicals /\ l \in Nat /\ Count(to[t]) <= l /\ l <= MaxBlocks
  <2>1. pos[t] \in Nat /\ to[t] \in Nat /\ MaxBlocks \in Nat
    BY LocalIs, FileIs
  <2>2. Count(to[t]) \in Nat
    BY <2>1, CountIs
  <2> QED BY <1>1, <2>1, <2>2 DEF Logicals
<1>3. Cleared(copy[t], l) \in InodeType /\ copy[t] \in InodeType
  BY <1>2, LocalIs, Volume DEF Cleared, InodeType
<1>4. /\ disk' = IF Level(l) = 0 THEN disk
                 ELSE [disk EXCEPT ![LastTable(copy[t], l)] = [@ EXCEPT ![Last(Path[l])] = 0]]
      /\ Sets(t, "shrink", "truncate", ino[t], Cleared(copy[t], l), l, to[t], block[t], table[t], 0)
      /\ dirty' = dirty
  BY <1>1 DEF Clear, Goes, caller, Sets, Typed, LocalTypes
<1>5. Fits("shrink", "truncate", ino[t], l, to[t], 0, t \in dirty)
  BY <1>1, <1>2 DEF Fits
<1>6. "shrink" \in Ops /\ "truncate" \in CallNames /\ 0 \in 0..2
  BY DEF Ops, CallNames
<1>7. disk' \in [Blocks -> [Entry -> Word]]
  <2>1. disk \in [Blocks -> [Entry -> Word]]
    BY DEF Typed, StoreTypes
  <2>2. \A b, k : [disk EXCEPT ![b] = [@ EXCEPT ![k] = 0]] \in [Blocks -> [Entry -> Word]]
    BY <2>1, WordsAre
  <2> QED BY <1>4, <2>1, <2>2
<1>8. StoreTypes'
  BY <1>7 DEF Clear, caller, Typed, StoreTypes
<1>9. Moves(t, "shrink", "truncate", ino[t], Cleared(copy[t], l), l, to[t], block[t], table[t], 0, t \in dirty')
  <2> HIDE DEF l
  <2> QED BY <1>2, <1>3, <1>4, <1>5, <1>6, <1>8, LocalIs, MovesIs
<1> QED BY <1>1, <1>2, <1>3, <1>4, <1>9 DEF Moves

\* A task reads the inodes of the logical block it will save its inode in.
LEMMA SaveReadIs ==
  ASSUME Typed, NEW t \in Tasks, Going(t), SaveRead(t)
  PROVE  /\ Typed' /\ Others(t) /\ Going(t)'
         /\ UNCHANGED <<bitmaps, store, op, call, ino, calls, copy, pos, to, block, table, depth, dirty, lost>>
<1>1. ImagesOf(image')
  <2>1. \A i \in Neighbours(ino[t]) : inodes[i] \in InodeType
    BY DEF Neighbours, Typed, StoreTypes
  <2> QED BY <2>1 DEF SaveRead, Typed, StoreTypes, ImagesOf
<1>2. UNCHANGED <<bitmaps, store, op, call, ino, calls, copy, pos, to, block, table, depth, dirty, lost>>
  BY DEF SaveRead
<1>3. Typed'
  BY <1>1, <1>2 DEF store, Typed, StoreTypes, LocalTypes
<1>4. Others(t) /\ Going(t)'
  BY <1>2 DEF Others, Going
<1> QED BY <1>2, <1>3, <1>4

\* A truncate without a block stops, goes to the indirect blocks, or sets its direct pointer.
LEMMA GrowIs ==
  ASSUME Typed, NEW t \in Tasks, Going(t), Grow(t)
  PROVE  /\ call[t] \in {"create", "truncate"} /\ ino[t] \in Inodes /\ Here(t) \in Logicals /\ Here(t) = pos[t]
         /\ LET b == FreeBlock(InodeGroup[ino[t]])
                l == Here(t)
                n == [copy[t] EXCEPT !.ptr[l] = b]
            IN IF b <= 0
               THEN /\ UNCHANGED <<blockmap, disk>>
                    /\ Moves(t, "grow", call[t], ino[t], copy[t], pos[t], pos[t] * Words, block[t], table[t], 0, FALSE)
                    /\ Count(pos[t] * Words) = pos[t]
               ELSE /\ b \in Blocks \ (bmap \cup {0}) /\ AllocateBlock(b) /\ disk' = [disk EXCEPT ![b] = Zeros]
                    /\ IF Level(l) > 0
                       THEN Moves(t, "root", call[t], ino[t], copy[t], pos[t], to[t], b, table[t], 0, FALSE)
                       ELSE /\ l \in Slots /\ l = Root(l) /\ n \in InodeType
                            /\ Moves(t, "grow", call[t], ino[t], n, pos[t] + 1, to[t], block[t], table[t], 0, FALSE)
<1> DEFINE b == FreeBlock(InodeGroup[ino[t]])
<1>1. /\ op[t] = "grow" /\ call[t] \in {"create", "truncate"} /\ ino[t] \in Inodes /\ depth[t] = 0
      /\ t \notin dirty /\ pos[t] < Count(to[t])
  BY DEF Grow, Going, Fits
<1>2. b = -1 \/ b \in Blocks \ bmap
  BY <1>1, InGroups, FreeBlockIs
<1>3. Here(t) \in Logicals /\ Here(t) = pos[t]
  BY <1>1, HereIs DEF Here
<1>4. CASE b <= 0
  <2>1. Sets(t, "grow", call[t], ino[t], copy[t], pos[t], pos[t] * Words, block[t], table[t], 0) /\ dirty' = dirty
    BY <1>1, <1>4 DEF Grow, caller, Sets, Typed, LocalTypes
  <2>2. /\ pos[t] * Words \in Nat /\ Count(pos[t] * Words) = pos[t] /\ pos[t] \in Nat /\ pos[t] <= MaxBlocks
        /\ pos[t] * Words <= MaxBlocks * Words
    <3>1. pos[t] \in Nat /\ to[t] \in Nat /\ to[t] <= MaxBlocks * Words /\ MaxBlocks \in Nat
      BY LocalIs, FileIs
    <3>2. Count(to[t]) <= MaxBlocks /\ Count(to[t]) \in Nat
      BY <3>1, Counting, CountIs
    <3>3. pos[t] <= MaxBlocks
      BY <1>1, <3>1, <3>2
    <3> QED BY <3>1, <3>3, Counting
  <2>3. Fits("grow", call[t], ino[t], pos[t], pos[t] * Words, 0, t \in dirty')
    BY <1>1, <2>1, <2>2 DEF Fits
  <2>4. "grow" \in Ops /\ pos[t] * Words \in 0..(MaxBlocks * Words) /\ 0 \in 0..2
    BY <2>2, FileIs DEF Ops
  <2>5. StoreTypes' /\ UNCHANGED <<blockmap, disk>>
    BY <1>4 DEF Grow, caller, Typed, StoreTypes
  <2>6. Moves(t, "grow", call[t], ino[t], copy[t], pos[t], pos[t] * Words, block[t], table[t], 0, t \in dirty')
    BY <2>1, <2>2, <2>3, <2>4, <2>5, LocalIs, MovesIs
  <2> QED BY <1>1, <1>3, <1>4, <2>1, <2>2, <2>5, <2>6 DEF Moves
<1>5. CASE ~(b <= 0)
  <2>1. Placed(t, b) /\ AllocateBlock(b) /\ disk' = [disk EXCEPT ![b] = Zeros]
    BY <1>5 DEF Grow
  <2>2. b \in Blocks \ (bmap \cup {0})
    <3> HIDE DEF b
    <3> QED BY <1>2, <1>5
  <2>3. StoreTypes'
    <3>1. disk' \in [Blocks -> [Entry -> Word]]
      <4> HIDE DEF b
      <4> QED BY <2>1, WordsAre DEF Typed, StoreTypes
    <3> QED BY <2>1, <3>1 DEF Grow, Placed, caller, Typed, StoreTypes
  <2> HIDE DEF b
  <2>4. LET l == Here(t)
            n == [copy[t] EXCEPT !.ptr[l] = b]
         IN IF Level(l) > 0
            THEN Moves(t, "root", call[t], ino[t], copy[t], pos[t], to[t], b, table[t], 0, t \in dirty)
            ELSE /\ l \in Slots /\ l = Root(l) /\ n \in InodeType
                 /\ IF call[t] = "write"
                    THEN Moves(t, "data", "write", ino[t], n, pos[t], to[t], b, table[t], 0, TRUE)
                    ELSE Moves(t, op[t], call[t], ino[t], n, pos[t] + 1, to[t], block[t], table[t], 0, FALSE)
    BY <1>1, <2>1, <2>2, <2>3, PlacedIs
  <2>5. call[t] # "write" /\ (t \in dirty <=> FALSE)
    BY <1>1
  <2> USE DEF b
  <2> QED BY <1>1, <1>3, <1>5, <2>1, <2>2, <2>4, <2>5 DEF Moves
<1> QED BY <1>4, <1>5

\* A truncate ends.
LEMMA TruncateEndIs ==
  ASSUME Typed, NEW t \in Tasks, Going(t), TruncateEnd(t)
  PROVE  ino[t] \in Inodes /\ Moves(t, "user", "none", 0, NoInode, 0, 0, 0, 0, 0, FALSE)
<1>1. op[t] # "user" /\ ino[t] \in Inodes /\ Ends(t)
  BY DEF TruncateEnd, Going, Fits
<1>2. /\ LocalTypes' /\ Others(t) /\ calls' = calls /\ files' \subseteq Inodes /\ ImagesOf(image')
      /\ Arrives(t, "user", "none", 0, NoInode, 0, 0, 0, 0, 0)
      /\ t \notin dirty' /\ Going(t)'
  BY <1>1, EndsIs
<1>3. [copy[t] EXCEPT !.size = to[t]] \in InodeType
  BY LocalIs DEF InodeType
<1>4. StoreTypes'
  BY <1>2, <1>3, SaveIs DEF TruncateEnd, Typed, StoreTypes
<1> QED BY <1>1, <1>2, <1>4 DEF Moves, Typed

\* An unlink starts at the first logical block.
LEMMA UnlinkIs ==
  ASSUME Typed, NEW t \in Tasks, Going(t), NEW i \in Inodes, Unlink(t, i)
  PROVE  /\ Moves(t, "unlink", "unlink", i, inodes[i], 0, Count(inodes[i].size), block[t], table[t], 0, FALSE)
         /\ Count(inodes[i].size) \in Nat
<1>1. inodes[i] \in InodeType /\ inodes[i].size \in Nat /\ inodes[i].size <= MaxBlocks * Words
  BY FileIs DEF Typed, StoreTypes, InodeType
<1>2. Count(inodes[i].size) \in Nat /\ Count(inodes[i].size) <= MaxBlocks
  BY <1>1, CountIs, Counting
<1>3. "unlink" \in Ops /\ "unlink" \in CallNames /\ 0 \in Nat /\ Count(inodes[i].size) \in 0..(MaxBlocks * Words)
  <2>1. MaxBlocks \in Nat /\ MaxBlocks <= MaxBlocks * Words /\ MaxBlocks * Words \in Nat
    BY FileIs
  <2> QED BY <1>2, <2>1 DEF Ops, CallNames
<1>4. /\ LocalTypes' /\ Others(t) /\ calls' \in 0..MaxCalls /\ ImagesOf(image')
      /\ Arrives(t, "unlink", "unlink", i, inodes[i], 0, Count(inodes[i].size), block[t], table[t], 0)
      /\ t \notin dirty'
  BY <1>1, <1>3, StartsIs DEF Unlink, Idle
<1>5. StoreTypes'
  BY <1>4 DEF Unlink, Typed, StoreTypes
<1>6. Going(t)'
  <2>1. PICK e : e = Count(inodes[i].size)
    OBVIOUS
  <2>2. /\ op'[t] = "unlink" /\ call'[t] = "unlink" /\ ino'[t] = i /\ pos'[t] = 0 /\ to'[t] = e
        /\ depth'[t] = 0 /\ t \notin dirty'
    BY <1>4, <2>1 DEF Arrives
  <2>3. Fits("unlink", "unlink", i, 0, e, 0, t \in dirty')
    BY ONLY <1>2, <2>1, <2>2, i \in Inodes DEF Fits
  <2> QED BY ONLY <2>2, <2>3 DEF Going
<1> QED BY <1>2, <1>4, <1>5, <1>6 DEF Moves, Typed

\* The two steps that free the blocks of a file.
LEMMA UnlinkStepIs ==
  ASSUME Typed, NEW t \in Tasks, Going(t), op[t] = "unlink", pos[t] < to[t] + 3,
         pos' = [pos EXCEPT ![t] = @ + 1], disk' = disk \/ \E B : disk' = Forgotten(B), lost' \subseteq Blocks,
         UNCHANGED <<inodes, files, op, caller, copy, to, block, table, depth, dirty>>
  PROVE  /\ ino[t] \in Inodes /\ to[t] \in Nat /\ to[t] <= MaxBlocks /\ pos[t] \in Nat
         /\ Moves(t, "unlink", "unlink", ino[t], copy[t], pos[t] + 1, to[t], block[t], table[t], 0, FALSE)
<1>1. /\ call[t] = "unlink" /\ ino[t] \in Inodes /\ depth[t] = 0 /\ t \notin dirty
      /\ to[t] <= MaxBlocks
  BY DEF Going, Fits
<1>2. pos[t] \in Nat /\ to[t] \in Nat /\ pos[t] + 1 \in Nat /\ pos[t] + 1 <= to[t] + 3
  BY LocalIs, FileIs
<1>3. Sets(t, "unlink", "unlink", ino[t], copy[t], pos[t] + 1, to[t], block[t], table[t], 0) /\ dirty' = dirty
  BY <1>1 DEF caller, Sets, Typed, LocalTypes
<1>4. Fits("unlink", "unlink", ino[t], pos[t] + 1, to[t], 0, t \in dirty')
  BY <1>1, <1>2, <1>3 DEF Fits
<1>5. StoreTypes'
  BY ForgottenIs DEF caller, Typed, StoreTypes
<1>6. "unlink" \in Ops /\ "unlink" \in CallNames /\ 0 \in 0..2
  BY DEF Ops, CallNames
<1>7. Moves(t, "unlink", "unlink", ino[t], copy[t], pos[t] + 1, to[t], block[t], table[t], 0, t \in dirty')
  BY <1>2, <1>3, <1>4, <1>5, <1>6, LocalIs, MovesIs
<1> QED BY <1>1, <1>2, <1>3, <1>7 DEF Moves

\* An unlink passes a logical block.
LEMMA UnlinkBlockIs ==
  ASSUME Typed, NEW t \in Tasks, Going(t), UnlinkBlock(t)
  PROVE  /\ ino[t] \in Inodes /\ to[t] \in Nat /\ to[t] <= MaxBlocks /\ pos[t] \in Nat
         /\ Moves(t, "unlink", "unlink", ino[t], copy[t], pos[t] + 1, to[t], block[t], table[t], 0, FALSE)
<1>1. op[t] = "unlink" /\ pos[t] < to[t] + 3
  <2>1. pos[t] \in Nat /\ to[t] \in Nat
    BY LocalIs, FileIs
  <2> QED BY <2>1 DEF UnlinkBlock
<1>2. disk' = disk \/ \E B : disk' = Forgotten(B)
  BY DEF UnlinkBlock
<1>3. lost' \subseteq Blocks /\ UNCHANGED <<inodes, files, op, caller, copy, to, block, table, depth, dirty>>
  BY DEF UnlinkBlock, Typed, StoreTypes
<1>4. pos' = [pos EXCEPT ![t] = @ + 1]
  BY DEF UnlinkBlock
<1> QED BY <1>1, <1>2, <1>3, <1>4, UnlinkStepIs

\* An unlink passes a pointer to indirect blocks.
LEMMA UnlinkTableIs ==
  ASSUME Typed, NEW t \in Tasks, Going(t), UnlinkTable(t)
  PROVE  /\ ino[t] \in Inodes /\ to[t] \in Nat /\ to[t] <= MaxBlocks /\ pos[t] \in Nat
         /\ Moves(t, "unlink", "unlink", ino[t], copy[t], pos[t] + 1, to[t], block[t], table[t], 0, FALSE)
<1>1. op[t] = "unlink" /\ pos[t] < to[t] + 3 /\ pos[t] - to[t] + 1 \in {1, 2, 3}
  <2>1. pos[t] \in Nat /\ to[t] \in Nat
    BY LocalIs, FileIs
  <2> QED BY <2>1 DEF UnlinkTable
<1>2. disk' = disk \/ \E B : disk' = Forgotten(B)
  BY DEF UnlinkTable
<1>3. lost' \subseteq Blocks
  <2>1. Inner(copy[t], pos[t] - to[t] + 1) \subseteq Blocks
    BY <1>1, LocalIs, PhysicalIs
  <2> QED BY <2>1 DEF UnlinkTable, Typed, StoreTypes
<1>4. /\ UNCHANGED <<inodes, files, op, caller, copy, to, block, table, depth, dirty>>
      /\ pos' = [pos EXCEPT ![t] = @ + 1]
  BY DEF UnlinkTable
<1> QED BY <1>1, <1>2, <1>3, <1>4, UnlinkStepIs

\* An unlink ends.
LEMMA UnlinkEndIs ==
  ASSUME Typed, NEW t \in Tasks, Going(t), UnlinkEnd(t)
  PROVE  ino[t] \in Inodes /\ Moves(t, "user", "none", 0, NoInode, 0, 0, 0, 0, 0, FALSE)
<1>1. op[t] # "user" /\ ino[t] \in Inodes /\ Ends(t)
  BY DEF UnlinkEnd, Going, Fits
<1>2. /\ LocalTypes' /\ Others(t) /\ calls' = calls /\ files' \subseteq Inodes /\ ImagesOf(image')
      /\ Arrives(t, "user", "none", 0, NoInode, 0, 0, 0, 0, 0)
      /\ t \notin dirty' /\ Going(t)'
  BY <1>1, EndsIs
<1>3. StoreTypes'
  BY <1>2, NoInodeIs, SaveIs DEF UnlinkEnd, Typed, StoreTypes
<1> QED BY <1>1, <1>2, <1>3 DEF Moves, Typed

-----------------------------------------------------------------------------
(* The bitmaps and their counts.                                           *)

\* The members of S in a group.
InGroup(S, G, g) == {x \in S : G[x] = g}

Marks ==
  /\ bmap \subseteq Blocks /\ imap \subseteq Inodes
  /\ bfree = [g \in GroupIds |-> Cardinality(InGroup(Blocks \ bmap, BlockGroup, g))]
  /\ ifree = [g \in GroupIds |-> Cardinality(InGroup(Inodes \ imap, InodeGroup, g))]
  /\ sbfree = Cardinality(Blocks \ bmap) /\ sifree = Cardinality(Inodes \ imap)

\* One member less, in its group and in all.
LEMMA CountOneLess ==
  ASSUME NEW S, IsFiniteSet(S), NEW G, NEW x \in S, NEW g, NEW R, R = S \ {x}
  PROVE  /\ Cardinality(R) = Cardinality(S) - 1
         /\ G[x] = g => Cardinality(InGroup(R, G, g)) = Cardinality(InGroup(S, G, g)) - 1
         /\ G[x] # g => Cardinality(InGroup(R, G, g)) = Cardinality(InGroup(S, G, g))
         /\ Cardinality(S) \in Nat /\ Cardinality(InGroup(S, G, g)) \in Nat
<1>1. Cardinality(R) = Cardinality(S) - 1 /\ Cardinality(S) \in Nat
  BY FS_RemoveElement, FS_CardinalityType
<1>2. IsFiniteSet(InGroup(S, G, g))
  BY FS_Subset DEF InGroup
<1>3. InGroup(R, G, g) = InGroup(S, G, g) \ {x}
  BY DEF InGroup
<1>4. x \in InGroup(S, G, g) <=> G[x] = g
  BY DEF InGroup
<1>5. /\ x \in InGroup(S, G, g) => Cardinality(InGroup(S, G, g) \ {x}) = Cardinality(InGroup(S, G, g)) - 1
      /\ x \notin InGroup(S, G, g) => InGroup(S, G, g) \ {x} = InGroup(S, G, g)
  BY <1>2, FS_RemoveElement
<1> QED BY <1>1, <1>2, <1>3, <1>4, <1>5, FS_CardinalityType

\* Members that come back, in their groups and in all.
LEMMA CountMore ==
  ASSUME NEW S, IsFiniteSet(S), NEW F, IsFiniteSet(F), S \cap F = {}, NEW G, NEW g
  PROVE  /\ Cardinality(S \cup F) = Cardinality(S) + Cardinality(F)
         /\ Cardinality(InGroup(S \cup F, G, g)) = Cardinality(InGroup(S, G, g)) + Cardinality(InGroup(F, G, g))
<1>1. ASSUME NEW A, IsFiniteSet(A), NEW B, IsFiniteSet(B), A \cap B = {}
      PROVE  Cardinality(A \cup B) = Cardinality(A) + Cardinality(B)
  <2>1. Cardinality(A \cup B) = Cardinality(A) + Cardinality(B) - Cardinality({})
    BY <1>1, FS_Union
  <2>2. Cardinality({}) = 0 /\ Cardinality(A) \in Nat /\ Cardinality(B) \in Nat
    BY <1>1, FS_EmptySet, FS_CardinalityType
  <2> QED BY <2>1, <2>2
<1>2. InGroup(S \cup F, G, g) = InGroup(S, G, g) \cup InGroup(F, G, g)
  BY DEF InGroup
<1>3. InGroup(S, G, g) \cap InGroup(F, G, g) = {}
  BY DEF InGroup
<1>4. IsFiniteSet(InGroup(S, G, g)) /\ IsFiniteSet(InGroup(F, G, g))
  BY FS_Subset DEF InGroup
<1> QED BY <1>1, <1>2, <1>3, <1>4

\* Allocating a block keeps the counts.
LEMMA MarksAllocate ==
  ASSUME Marks, NEW b \in Blocks \ bmap, AllocateBlock(b), UNCHANGED inodemap
  PROVE  Marks'
<1>1. Blocks \ bmap' = (Blocks \ bmap) \ {b} /\ bmap' \subseteq Blocks
  BY DEF AllocateBlock, Marks
<1>2. IsFiniteSet(Blocks \ bmap)
  BY VolumeFinite, FS_Subset
<1>3. sbfree' = Cardinality(Blocks \ bmap')
  BY <1>1, <1>2, CountOneLess, ZenonT(40) DEF AllocateBlock, Marks
<1>4. bfree' = [g \in GroupIds |-> Cardinality(InGroup(Blocks \ bmap', BlockGroup, g))]
  <2>1. BlockGroup[b] \in GroupIds
    BY InGroups
  <2>2. \A g \in GroupIds : bfree'[g] = IF BlockGroup[b] = g THEN bfree[g] - 1 ELSE bfree[g]
    BY <2>1 DEF AllocateBlock, Marks
  <2>3. \A g \in GroupIds : bfree'[g] = Cardinality(InGroup((Blocks \ bmap) \ {b}, BlockGroup, g))
    <3> SUFFICES ASSUME NEW g \in GroupIds
                 PROVE  bfree'[g] = Cardinality(InGroup((Blocks \ bmap) \ {b}, BlockGroup, g))
      OBVIOUS
    <3>1. bfree[g] = Cardinality(InGroup(Blocks \ bmap, BlockGroup, g))
      BY DEF Marks
    <3>2. PICK S : S = Blocks \ bmap
      OBVIOUS
    <3>3. PICK G, R : G = BlockGroup /\ R = S \ {b}
      OBVIOUS
    <3>4. /\ G[b] = g => Cardinality(InGroup(R, G, g)) = Cardinality(InGroup(S, G, g)) - 1
          /\ G[b] # g => Cardinality(InGroup(R, G, g)) = Cardinality(InGroup(S, G, g))
      <4>1. IsFiniteSet(S) /\ b \in S
        BY <1>2, <3>2
      <4> QED BY <3>3, <4>1, CountOneLess
    <3> QED BY <2>2, <3>1, <3>2, <3>3, <3>4
  <2>4. bfree' = [g \in GroupIds |-> bfree'[g]]
    BY DEF AllocateBlock, Marks
  <2> QED BY <1>1, <2>3, <2>4
<1> QED BY <1>1, <1>3, <1>4 DEF Marks, inodemap

\* Freeing blocks keeps the counts, those that are not in use among them.
LEMMA MarksFree ==
  ASSUME Marks, NEW B, FreeBlocks(B), UNCHANGED inodemap
  PROVE  Marks'
<1> DEFINE F == {b \in B : Freeable(b)}
<1>1. F \subseteq bmap /\ F \subseteq Blocks
  BY DEF Freeable, Marks
<1>2. /\ bmap' = bmap \ F /\ sbfree' = sbfree + Cardinality(F)
      /\ bfree' = [g \in GroupIds |-> bfree[g] + Cardinality(InGroup(F, BlockGroup, g))]
  BY DEF FreeBlocks, InGroup
<1>3. Blocks \ bmap' = (Blocks \ bmap) \cup F /\ (Blocks \ bmap) \cap F = {} /\ bmap' \subseteq Blocks
  BY <1>1, <1>2 DEF Marks
<1>4. IsFiniteSet(Blocks \ bmap) /\ IsFiniteSet(F)
  BY <1>1, VolumeFinite, FS_Subset
<1> HIDE DEF F
<1>5. sbfree' = Cardinality(Blocks \ bmap')
  BY <1>2, <1>3, <1>4, CountMore, ZenonT(40) DEF Marks
<1>6. bfree' = [g \in GroupIds |-> Cardinality(InGroup(Blocks \ bmap', BlockGroup, g))]
  <2>1. ASSUME NEW g \in GroupIds
        PROVE  bfree[g] + Cardinality(InGroup(F, BlockGroup, g)) = Cardinality(InGroup(Blocks \ bmap', BlockGroup, g))
    <3>1. bfree[g] = Cardinality(InGroup(Blocks \ bmap, BlockGroup, g))
      BY DEF Marks
    <3> QED BY <1>3, <1>4, <3>1, CountMore
  <2> QED BY <1>2, <2>1
<1> QED BY <1>3, <1>5, <1>6 DEF Marks, inodemap

\* Taking an inode keeps the counts.
LEMMA MarksCreate ==
  ASSUME Marks, NEW t \in Tasks, NEW g \in GroupIds, Create(t, g)
  PROVE  Marks'
<1>1. PICK i : i = FreeInode(g)
  OBVIOUS
<1>2. /\ i \in Inodes \ imap /\ imap' = imap \cup {i} /\ ifree' = [ifree EXCEPT ![InodeGroup[i]] = @ - 1]
      /\ sifree' = sifree - 1
  BY <1>1, FreeInodeIs DEF Create
<1>3. Inodes \ imap' = (Inodes \ imap) \ {i} /\ imap' \subseteq Inodes
  BY <1>2 DEF Marks
<1>4. IsFiniteSet(Inodes \ imap)
  BY VolumeFinite, FS_Subset
<1>5. sifree' = Cardinality(Inodes \ imap')
  BY <1>2, <1>3, <1>4, CountOneLess, ZenonT(40) DEF Marks
<1>6. ifree' = [h \in GroupIds |-> Cardinality(InGroup(Inodes \ imap', InodeGroup, h))]
  <2>1. InodeGroup[i] \in GroupIds
    BY <1>2, InGroups
  <2>2. \A h \in GroupIds : ifree'[h] = IF InodeGroup[i] = h THEN ifree[h] - 1 ELSE ifree[h]
    BY <1>2, <2>1 DEF Marks
  <2>3. \A h \in GroupIds : ifree'[h] = Cardinality(InGroup((Inodes \ imap) \ {i}, InodeGroup, h))
    <3> SUFFICES ASSUME NEW h \in GroupIds
                 PROVE  ifree'[h] = Cardinality(InGroup((Inodes \ imap) \ {i}, InodeGroup, h))
      OBVIOUS
    <3>1. ifree[h] = Cardinality(InGroup(Inodes \ imap, InodeGroup, h))
      BY DEF Marks
    <3>2. PICK S : S = Inodes \ imap
      OBVIOUS
    <3>3. PICK G, R : G = InodeGroup /\ R = S \ {i}
      OBVIOUS
    <3>4. /\ G[i] = h => Cardinality(InGroup(R, G, h)) = Cardinality(InGroup(S, G, h)) - 1
          /\ G[i] # h => Cardinality(InGroup(R, G, h)) = Cardinality(InGroup(S, G, h))
      <4>1. IsFiniteSet(S) /\ i \in S
        BY <1>2, <1>4, <3>2
      <4> QED BY <3>3, <4>1, CountOneLess
    <3> QED BY <2>2, <3>1, <3>2, <3>3, <3>4
  <2>4. ifree' = [h \in GroupIds |-> ifree'[h]]
    BY <1>2 DEF Marks
  <2> QED BY <1>3, <2>3, <2>4
<1> QED BY <1>3, <1>5, <1>6 DEF Marks, Create, blockmap

\* Freeing an inode keeps the counts.
LEMMA MarksUnlinkEnd ==
  ASSUME Marks, NEW t \in Tasks, UnlinkEnd(t)
  PROVE  Marks'
<1>1. PICK i : i = ino[t]
  OBVIOUS
<1>2. CASE i < FirstInode \/ i \notin imap
  BY <1>1, <1>2 DEF UnlinkEnd, Marks, inodemap, blockmap
<1>3. CASE ~(i < FirstInode \/ i \notin imap)
  <2>1. /\ i \in imap /\ imap' = imap \ {i} /\ ifree' = [ifree EXCEPT ![InodeGroup[i]] = @ + 1]
        /\ sifree' = sifree + 1 /\ i \in Inodes
    BY <1>1, <1>3 DEF UnlinkEnd, Marks
  <2>2. Inodes \ imap' = (Inodes \ imap) \cup {i} /\ imap' \subseteq Inodes /\ Inodes \ imap = (Inodes \ imap') \ {i}
        /\ i \in Inodes \ imap'
    BY <2>1 DEF Marks
  <2>3. IsFiniteSet(Inodes \ imap')
    BY VolumeFinite, FS_Subset
  <2>4. sifree' = Cardinality(Inodes \ imap')
    <3>1. PICK S : S = Inodes \ imap'
      OBVIOUS
    <3>2. IsFiniteSet(S) /\ i \in S
      BY <2>2, <2>3, <3>1
    <3>3. Cardinality(S \ {i}) = Cardinality(S) - 1 /\ Cardinality(S) \in Nat
      BY <3>2, CountOneLess
    <3>4. sifree = Cardinality(S \ {i})
      BY <2>2, <3>1 DEF Marks
    <3> QED BY <2>1, <3>1, <3>3, <3>4
  <2>5. ifree' = [h \in GroupIds |-> Cardinality(InGroup(Inodes \ imap', InodeGroup, h))]
    <3>1. InodeGroup[i] \in GroupIds
      BY <2>1, InGroups
    <3>2. \A h \in GroupIds : ifree'[h] = IF InodeGroup[i] = h THEN ifree[h] + 1 ELSE ifree[h]
      BY <2>1, <3>1 DEF Marks
    <3>3. \A h \in GroupIds : ifree'[h] = Cardinality(InGroup(Inodes \ imap', InodeGroup, h))
      <4> SUFFICES ASSUME NEW h \in GroupIds
                   PROVE  ifree'[h] = Cardinality(InGroup(Inodes \ imap', InodeGroup, h))
        OBVIOUS
      <4>1. ifree[h] = Cardinality(InGroup((Inodes \ imap') \ {i}, InodeGroup, h))
        BY <2>2 DEF Marks
      <4>2. PICK S : S = Inodes \ imap'
        OBVIOUS
      <4>3. PICK G, R : G = InodeGroup /\ R = S \ {i}
        OBVIOUS
      <4>4. /\ G[i] = h => Cardinality(InGroup(R, G, h)) = Cardinality(InGroup(S, G, h)) - 1
            /\ G[i] # h => Cardinality(InGroup(R, G, h)) = Cardinality(InGroup(S, G, h))
            /\ Cardinality(InGroup(S, G, h)) \in Nat
        <5>1. IsFiniteSet(S) /\ i \in S
          BY <2>2, <2>3, <4>2
        <5> QED BY <4>3, <5>1, CountOneLess
      <4> QED BY <3>2, <4>1, <4>2, <4>3, <4>4
    <3>4. ifree' = [h \in GroupIds |-> ifree'[h]]
      BY <2>1 DEF Marks
    <3> QED BY <3>3, <3>4
  <2> QED BY <2>2, <2>4, <2>5 DEF Marks, UnlinkEnd, blockmap
<1> QED BY <1>2, <1>3

\* Every step keeps the counts: it allocates or frees blocks, or an inode, or neither.
LEMMA MarksNext ==
  ASSUME Marks, Typed, NEW t \in Tasks, Going(t), Step(t), FollowsBlocks'
  PROVE  Marks'
<1>0. UNCHANGED bitmaps => Marks'
  BY DEF bitmaps, Marks
<1>1. UNCHANGED blockmap /\ UNCHANGED inodemap => Marks'
  BY <1>0 DEF bitmaps, blockmap, inodemap
<1>2. ASSUME NEW g \in GroupIds, Create(t, g) PROVE Marks'
  BY <1>2, MarksCreate
<1>3. CASE WriteAllocate(t)
  <2>1. UNCHANGED inodemap
    BY <1>3 DEF WriteAllocate
  <2>2. PICK b : b = FreeBlock(InodeGroup[ino[t]])
    OBVIOUS
  <2>3. b = -1 \/ b \in Blocks \ bmap
    BY <1>3, <2>2, WriteAllocateIs
  <2>4. CASE b < 0
    BY <1>1, <1>3, <2>1, <2>2, <2>4 DEF WriteAllocate
  <2>5. CASE ~(b < 0)
    <3>1. AllocateBlock(b)
      BY <1>3, <2>2, <2>5 DEF WriteAllocate
    <3> QED BY <2>1, <2>3, <2>5, <3>1, MarksAllocate
  <2> QED BY <2>4, <2>5
<1>4. CASE SetRoot(t)
  <2>1. PICK b : UNCHANGED blockmap \/ (b \in Blocks \ (bmap \cup {0}) /\ AllocateBlock(b))
    BY <1>4, SetRootIs
  <2>2. UNCHANGED inodemap
    BY <1>4 DEF SetRoot
  <2> QED BY <1>1, <2>1, <2>2, MarksAllocate
<1>5. CASE SetTable(t)
  <2>1. PICK b : UNCHANGED blockmap \/ (b \in Blocks \ (bmap \cup {0}) /\ AllocateBlock(b))
    BY <1>5, SetTableIs
  <2>2. UNCHANGED inodemap
    BY <1>5 DEF SetTable
  <2> QED BY <1>1, <2>1, <2>2, MarksAllocate
<1>6. CASE Grow(t)
  <2>1. PICK b : UNCHANGED blockmap \/ (b \in Blocks \ (bmap \cup {0}) /\ AllocateBlock(b))
    BY <1>6, GrowIs
  <2>2. UNCHANGED inodemap
    BY <1>6 DEF Grow
  <2> QED BY <1>1, <2>1, <2>2, MarksAllocate
<1>7. CASE NoTable(t) \/ Shrink(t) \/ UnlinkBlock(t) \/ UnlinkTable(t)
  <2>1. UNCHANGED inodemap
    BY <1>7 DEF NoTable, Shrink, UnlinkBlock, UnlinkTable
  <2>2. UNCHANGED blockmap \/ \E B : FreeBlocks(B)
    <3>1. NoTable(t) => FreeBlocks({block[t]})
      BY DEF NoTable
    <3>2. Shrink(t) => UNCHANGED blockmap \/ \E B : FreeBlocks(B)
      BY DEF Shrink
    <3>3. UnlinkBlock(t) => UNCHANGED blockmap \/ \E B : FreeBlocks(B)
      BY DEF UnlinkBlock
    <3>4. UnlinkTable(t) => UNCHANGED blockmap \/ \E B : FreeBlocks(B)
      BY DEF UnlinkTable
    <3> QED BY <1>7, <3>1, <3>2, <3>3, <3>4
  <2> QED BY <1>1, <2>1, <2>2, MarksFree
<1>8. CASE UnlinkEnd(t)
  BY <1>8, MarksUnlinkEnd
<1>9. CASE \/ CreateInit(t) \/ WriteFound(t) \/ WriteData(t) \/ WriteEnd(t) \/ SetEntry(t) \/ TruncateEnd(t)
           \/ SaveRead(t) \/ Clear(t)
           \/ \E i \in Inodes, r \in Ranges : Write(t, i, r)
           \/ \E i \in Inodes, s \in Sizes : Truncate(t, i, s)
           \/ \E i \in Inodes : Unlink(t, i)
  BY <1>0, <1>9 DEF CreateInit, WriteFound, WriteData, WriteEnd, SetEntry, TruncateEnd, SaveRead, Clear, Write,
     Truncate, Unlink
<1> QED BY <1>2, <1>3, <1>4, <1>5, <1>6, <1>7, <1>8, <1>9 DEF Step

\* Every step keeps the types, moves its own task alone, and leaves it where a call may be.
LEMMA StepIs ==
  ASSUME Typed, NEW t \in Tasks, Going(t), Step(t), FollowsBlocks'
  PROVE  Typed' /\ Others(t) /\ Going(t)'
<1>1. ASSUME NEW g \in GroupIds, Create(t, g) PROVE Typed' /\ Others(t) /\ Going(t)'
  BY <1>1, CreateIs DEF Moves
<1>2. ASSUME CreateInit(t) PROVE Typed' /\ Others(t) /\ Going(t)'
  BY <1>2, CreateInitIs DEF Moves
<1>3. ASSUME NEW i \in Inodes, NEW r \in Ranges, Write(t, i, r) PROVE Typed' /\ Others(t) /\ Going(t)'
  BY <1>3, WriteIs DEF Moves
<1>4. ASSUME WriteFound(t) PROVE Typed' /\ Others(t) /\ Going(t)'
  BY <1>4, WriteFoundIs DEF Moves
<1>5. ASSUME WriteAllocate(t) PROVE Typed' /\ Others(t) /\ Going(t)'
  BY <1>5, WriteAllocateIs DEF Moves
<1>6. ASSUME WriteData(t) PROVE Typed' /\ Others(t) /\ Going(t)'
  BY <1>6, WriteDataIs DEF Moves
<1>7. ASSUME WriteEnd(t) PROVE Typed' /\ Others(t) /\ Going(t)'
  BY <1>7, WriteEndIs DEF Moves
<1>8. ASSUME SetRoot(t) PROVE Typed' /\ Others(t) /\ Going(t)'
  BY <1>8, SetRootIs DEF Moves
<1>9. ASSUME SetTable(t) PROVE Typed' /\ Others(t) /\ Going(t)'
  BY <1>9, SetTableIs DEF Moves
<1>10. ASSUME NoTable(t) PROVE Typed' /\ Others(t) /\ Going(t)'
  BY <1>10, NoTableIs DEF Moves
<1>11. ASSUME SetEntry(t) PROVE Typed' /\ Others(t) /\ Going(t)'
  BY <1>11, SetEntryIs DEF Moves
<1>12. ASSUME NEW i \in Inodes, NEW s \in Sizes, Truncate(t, i, s) PROVE Typed' /\ Others(t) /\ Going(t)'
  BY <1>12, TruncateIs DEF Moves
<1>13. ASSUME Shrink(t) PROVE Typed' /\ Others(t) /\ Going(t)'
  BY <1>13, ShrinkIs DEF Moves
<1>14. ASSUME Grow(t) PROVE Typed' /\ Others(t) /\ Going(t)'
  BY <1>14, GrowIs DEF Moves
<1>15. ASSUME TruncateEnd(t) PROVE Typed' /\ Others(t) /\ Going(t)'
  BY <1>15, TruncateEndIs DEF Moves
<1>16. ASSUME NEW i \in Inodes, Unlink(t, i) PROVE Typed' /\ Others(t) /\ Going(t)'
  BY <1>16, UnlinkIs DEF Moves
<1>17. ASSUME UnlinkBlock(t) PROVE Typed' /\ Others(t) /\ Going(t)'
  BY <1>17, UnlinkBlockIs DEF Moves
<1>18. ASSUME UnlinkTable(t) PROVE Typed' /\ Others(t) /\ Going(t)'
  BY <1>18, UnlinkTableIs DEF Moves
<1>19. ASSUME UnlinkEnd(t) PROVE Typed' /\ Others(t) /\ Going(t)'
  BY <1>19, UnlinkEndIs DEF Moves
<1>20. ASSUME SaveRead(t) PROVE Typed' /\ Others(t) /\ Going(t)'
  BY <1>20, SaveReadIs
<1>21. ASSUME Clear(t) PROVE Typed' /\ Others(t) /\ Going(t)'
  BY <1>21, ClearIs DEF Moves
<1> QED
  BY <1>1, <1>2, <1>3, <1>4, <1>5, <1>6, <1>7, <1>8, <1>9, <1>10, <1>11, <1>12, <1>13, <1>14, <1>15,
     <1>16, <1>17, <1>18, <1>19, <1>20, <1>21 DEF Step

\* The state is in order, whatever the tasks do to one another's files.
InOrder == Typed /\ Marks /\ \A t \in Tasks : Going(t)

\* At first the state is in order.
LEMMA InOrderInit == Init => InOrder
<1> SUFFICES ASSUME Init PROVE InOrder
  OBVIOUS
<1>1. StoreTypes
  <2>1. Boot \in [Entry -> Word]
    BY BootAssumption, WordsAre
  <2>2. ImagesOf(image)
    <3>1. DOMAIN <<>> = {}
      OBVIOUS
    <3> QED BY <3>1 DEF Init, ImagesOf
  <2> QED BY <2>1, <2>2, NoInodeIs, WordsAre, FileIs DEF Init, StoreTypes
<1>2. LocalTypes
  BY NoInodeIs, Volume, FileIs DEF Init, LocalTypes, Ops, CallNames
<1>3. Marks
  BY Volume DEF Init, Marks, InGroup
<1>4. \A t \in Tasks : Going(t)
  BY DEF Init, Going, Fits
<1> QED BY <1>1, <1>2, <1>3, <1>4 DEF InOrder, Typed

\* Every step keeps the state in order.
LEMMA InOrderNext ==
  ASSUME InOrder, [Next]_vars, FollowsBlocks'
  PROVE  InOrder'
<1>1. CASE Next
  <2>1. PICK t \in Tasks : Step(t)
    BY <1>1 DEF Next
  <2>2. Typed' /\ Others(t) /\ Going(t)' /\ Marks'
    BY <2>1, StepIs, MarksNext DEF InOrder
  <2>3. ASSUME NEW u \in Tasks PROVE Going(u)'
    BY <2>2, GoingElse DEF InOrder
  <2> QED BY <2>2, <2>3 DEF InOrder
<1>2. CASE UNCHANGED vars
  BY <1>2 DEF vars, bitmaps, store, local, caller, InOrder, Typed, StoreTypes, LocalTypes, Marks, Going
<1> QED BY <1>1, <1>2

\* As long as no task takes a word of data for the number of an indirect block, the
\* state is in order.
LEMMA InOrderAlways == Spec /\ []FollowsBlocks => []InOrder
<1>1. InOrder /\ [Next]_vars /\ FollowsBlocks' => InOrder'
  BY InOrderNext
<1> QED BY <1>1, InOrderInit, PTL DEF Spec

\* A group has no more members than numbers.
LEMMA GroupSizes ==
  ASSUME NEW g \in GroupIds
  PROVE  /\ \A S \in SUBSET Blocks : Cardinality(InGroup(S, BlockGroup, g)) \in 0..BlocksPerGroup
         /\ \A S \in SUBSET Inodes : Cardinality(InGroup(S, InodeGroup, g)) \in 0..InodesPerGroup
<1>1. ASSUME NEW m \in Nat, m > 0
      PROVE  LET I == (m * g)..(m * g + m - 1) IN IsFiniteSet(I) /\ Cardinality(I) = m
  <2>1. PICK k \in Int : k = m * g
    BY Volume
  <2>2. PICK e \in Int : e = k + m - 1
    BY <1>1, <2>1
  <2>3. IsFiniteSet(k..e) /\ Cardinality(k..e) = m
    BY <1>1, <2>2, FS_Interval
  <2> QED BY <2>1, <2>2, <2>3
<1>2. ASSUME NEW m \in Nat, m > 0, NEW a \in Int, a \div m = g
      PROVE  a \in (m * g)..(m * g + m - 1)
  <2>1. PICK d, e : d = a \div m /\ e = a % m
    OBVIOUS
  <2>2. d \in Int /\ e \in 0..(m - 1) /\ a = m * d + e
    BY <1>2, <2>1, DivMod
  <2>3. PICK k \in Int : k = m * g
    BY Volume
  <2>4. a = k + e
    BY <1>2, <2>1, <2>2, <2>3
  <2>5. a \in k..(k + m - 1)
    BY <1>2, <2>2, <2>4
  <2> QED BY <2>3, <2>5
<1>3. ASSUME NEW S \in SUBSET Blocks PROVE Cardinality(InGroup(S, BlockGroup, g)) \in 0..BlocksPerGroup
  <2>1. PICK m : m = BlocksPerGroup
    OBVIOUS
  <2>2. PICK I : I = (m * g)..(m * g + m - 1)
    OBVIOUS
  <2>3. IsFiniteSet(I) /\ Cardinality(I) = m
    BY <1>1, <2>1, <2>2, Volume
  <2>4. InGroup(S, BlockGroup, g) \subseteq I
    <3> SUFFICES ASSUME NEW b \in Blocks, BlockGroup[b] = g PROVE b \in I
      BY DEF InGroup
    <3>1. b \div m = g /\ b \in Int
      BY <2>1, Volume DEF BlockGroup
    <3> QED BY <1>2, <2>1, <2>2, <3>1, Volume
  <2>5. Cardinality(InGroup(S, BlockGroup, g)) <= m /\ Cardinality(InGroup(S, BlockGroup, g)) \in Nat
    BY <2>3, <2>4, FS_Subset, FS_CardinalityType
  <2> QED BY <2>1, <2>5, Volume
<1>4. ASSUME NEW S \in SUBSET Inodes PROVE Cardinality(InGroup(S, InodeGroup, g)) \in 0..InodesPerGroup
  <2>1. PICK m : m = InodesPerGroup
    OBVIOUS
  <2>2. PICK I, J : I = (m * g)..(m * g + m - 1) /\ J = (m * g + 1)..(m * g + m)
    OBVIOUS
  <2>3. IsFiniteSet(J) /\ Cardinality(J) = m
    <3>1. PICK k \in Int : k = m * g
      BY <2>1, Volume
    <3>2. PICK f \in Int, e \in Int : f = k + 1 /\ e = k + m
      BY <2>1, <3>1, Volume
    <3>3. IsFiniteSet(f..e) /\ Cardinality(f..e) = m
      BY <2>1, <3>2, FS_Interval, Volume
    <3> QED BY <2>2, <3>1, <3>2, <3>3
  <2>4. InGroup(S, InodeGroup, g) \subseteq J
    <3> SUFFICES ASSUME NEW i \in Inodes, InodeGroup[i] = g PROVE i \in J
      BY DEF InGroup
    <3>1. (i - 1) \div m = g /\ i - 1 \in Int /\ i \in Int
      BY <2>1, Volume DEF InodeGroup
    <3>2. i - 1 \in I
      BY <1>2, <2>1, <2>2, <3>1, Volume
    <3>3. PICK k \in Int : k = m * g
      BY <2>1, Volume
    <3>4. i - 1 \in k..(k + m - 1)
      BY <2>2, <3>2, <3>3
    <3>5. i \in (k + 1)..(k + m)
      BY <3>1, <3>4, <2>1, Volume
    <3> QED BY <2>2, <3>3, <3>5
  <2>5. Cardinality(InGroup(S, InodeGroup, g)) <= m /\ Cardinality(InGroup(S, InodeGroup, g)) \in Nat
    BY <2>3, <2>4, FS_Subset, FS_CardinalityType
  <2> QED BY <2>1, <2>5, Volume
<1> QED BY <1>3, <1>4

\* What the search sees: for every group the number of its members.
Numbered(S, G, count) ==
  /\ \A x \in S : G[x] \in GroupIds
  /\ \A h \in GroupIds : count[h] = Cardinality(InGroup(S, G, h))

\* A search fails when there are no members.
LEMMA NoneLeft ==
  ASSUME NEW S \in SUBSET Nat, IsFiniteSet(S), NEW G, NEW count, NEW start \in GroupIds, Numbered(S, G, count)
  PROVE  FirstFree(S, G, count, start) < 0 <=> S = {}
<1>1. ASSUME NEW x \in S, count[G[x]] = 0 PROVE FALSE
  <2>1. InGroup(S, G, G[x]) \subseteq S /\ x \in InGroup(S, G, G[x])
    BY DEF InGroup
  <2>2. IsFiniteSet(InGroup(S, G, G[x])) /\ Cardinality(InGroup(S, G, G[x])) = 0
    BY <1>1, <2>1, FS_Subset DEF Numbered
  <2> QED BY <2>1, <2>2, FS_EmptySet
<1>2. \A x \in S : G[x] \in GroupIds
  BY DEF Numbered
<1>3. FirstFree(S, G, count, start) < 0 <=> \A x \in S : count[G[x]] = 0
  BY <1>2, Found
<1> QED BY <1>1, <1>3

\* Then a search fails on a full volume only.
LEMMA CountsInOrder == Marks => CountsAgree
<1> SUFFICES ASSUME Marks PROVE CountsAgree
  OBVIOUS
<1>1. ASSUME NEW g \in GroupIds
      PROVE  /\ bfree[g] = Cardinality({b \in Blocks \ bmap : BlockGroup[b] = g})
             /\ ifree[g] = Cardinality({i \in Inodes \ imap : InodeGroup[i] = g})
  BY DEF Marks, InGroup
<1>2. ASSUME NEW g \in GroupIds PROVE FreeBlock(g) < 0 <=> bmap = Blocks
  <2>1. IsFiniteSet(Blocks \ bmap) /\ Blocks \ bmap \in SUBSET Nat
    BY VolumeFinite, Volume, FS_Subset
  <2>2. Numbered(Blocks \ bmap, BlockGroup, bfree)
    BY InGroups DEF Marks, Numbered
  <2>3. FreeBlock(g) < 0 <=> Blocks \ bmap = {}
    BY <2>1, <2>2, NoneLeft DEF FreeBlock
  <2> QED BY <2>3 DEF Marks
<1>3. ASSUME NEW g \in GroupIds PROVE FreeInode(g) < 0 <=> imap = Inodes
  <2>1. IsFiniteSet(Inodes \ imap) /\ Inodes \ imap \in SUBSET Nat
    BY VolumeFinite, Volume, FS_Subset
  <2>2. Numbered(Inodes \ imap, InodeGroup, ifree)
    BY InGroups DEF Marks, Numbered
  <2>3. FreeInode(g) < 0 <=> Inodes \ imap = {}
    BY <2>1, <2>2, NoneLeft DEF FreeInode
  <2> QED BY <2>3 DEF Marks
<1> QED BY <1>1, <1>2, <1>3 DEF CountsAgree, Marks

\* What a task in a call says of its position.
LEMMA PositionIs ==
  ASSUME Typed, NEW t \in Tasks, Going(t)
  PROVE  pos[t] <= MaxBlocks * Words + 3
<1>1. /\ op[t] \in Ops /\ call[t] \in CallNames /\ pos[t] \in Nat /\ to[t] \in 0..(MaxBlocks * Words)
  BY DEF Typed, LocalTypes
<1>2. MaxBlocks \in Nat /\ MaxBlocks * Words \in Nat /\ MaxBlocks <= MaxBlocks * Words
  BY FileIs
<1>3. Count(to[t]) <= MaxBlocks /\ Count(to[t]) \in Nat
  <2>1. to[t] \in Nat /\ to[t] <= MaxBlocks * Words /\ MaxBlocks \in Int
    BY <1>1, <1>2
  <2> QED BY <2>1, Counting, CountIs
<1>4. CASE op[t] \in {"user", "create"}
  BY <1>1, <1>2, <1>4 DEF Going, Fits
<1>5. CASE call[t] = "write"
  BY <1>1, <1>2, <1>5 DEF Going, Fits
<1>6. CASE op[t] = "grow"
  BY <1>1, <1>2, <1>3, <1>6 DEF Going, Fits
<1>7. CASE op[t] \in {"root", "table"} /\ call[t] # "write"
  BY <1>1, <1>2, <1>3, <1>7 DEF Going, Fits
<1>8. CASE op[t] \in {"shrink", "clear"}
  BY <1>1, <1>2, <1>3, <1>8 DEF Going, Fits
<1>9. CASE op[t] = "unlink"
  BY <1>1, <1>2, <1>9 DEF Going, Fits
<1>10. op[t] \in {"write", "data"} => call[t] = "write"
  BY DEF Going, Fits
<1> QED BY <1>1, <1>4, <1>5, <1>6, <1>7, <1>8, <1>9, <1>10 DEF Ops

\* The types and counts in order are those of the type invariant.
LEMMA TypesInOrder == InOrder => TypeOK
<1> SUFFICES ASSUME InOrder PROVE TypeOK
  OBVIOUS
<1>1. bfree \in [GroupIds -> 0..BlocksPerGroup] /\ ifree \in [GroupIds -> 0..InodesPerGroup]
  <2>1. \A g \in GroupIds : /\ Cardinality(InGroup(Blocks \ bmap, BlockGroup, g)) \in 0..BlocksPerGroup
                            /\ Cardinality(InGroup(Inodes \ imap, InodeGroup, g)) \in 0..InodesPerGroup
    BY GroupSizes
  <2> QED BY <2>1 DEF InOrder, Marks
<1>2. sbfree \in 0..(Groups * BlocksPerGroup) /\ sifree \in 0..(Groups * InodesPerGroup)
  <2>1. PICK m, n : m = Groups * BlocksPerGroup /\ n = Groups * InodesPerGroup
    OBVIOUS
  <2>2. m \in Nat /\ n \in Nat
    BY <2>1, Volume
  <2>3. Blocks = 0..(m - 1) /\ Inodes = 1..n
    BY <2>1 DEF Blocks, Inodes
  <2>4. Cardinality(0..(m - 1)) = m /\ Cardinality(1..n) = n
    BY <2>2, FS_Interval
  <2>5. Cardinality(Blocks \ bmap) <= m /\ Cardinality(Inodes \ imap) <= n
    <3>1. Blocks \ bmap \in SUBSET Blocks /\ Inodes \ imap \in SUBSET Inodes
      OBVIOUS
    <3>2. Cardinality(Blocks \ bmap) <= Cardinality(Blocks) /\ Cardinality(Inodes \ imap) <= Cardinality(Inodes)
      BY <3>1, VolumeFinite, FS_Subset
    <3> QED BY <2>3, <2>4, <3>2
  <2>6. Cardinality(Blocks \ bmap) \in Nat /\ Cardinality(Inodes \ imap) \in Nat
    BY VolumeFinite, FS_Subset, FS_CardinalityType
  <2> QED BY <2>1, <2>2, <2>5, <2>6 DEF InOrder, Marks
<1>3. pos \in [Tasks -> 0..(MaxBlocks * Words + 3)]
  <2>1. \A t \in Tasks : pos[t] \in 0..(MaxBlocks * Words + 3)
    BY PositionIs, FileIs DEF InOrder, Typed, LocalTypes
  <2> QED BY <2>1 DEF InOrder, Typed, LocalTypes
<1> QED
  BY <1>1, <1>2, <1>3 DEF InOrder, Typed, StoreTypes, LocalTypes, Marks, TypeOK, CallNames, ImagesOf

\* The counts of the groups and of the superblock are the clear bits of the bitmaps, however
\* the calls of _allocate_block, _free_block, _allocate_inode and _free_inode come between
\* each other; so an allocation fails on a full volume only.
THEOREM FreeCountsKept == Spec /\ []FollowsBlocks => []CountsAgree
<1>1. InOrder => CountsAgree
  BY CountsInOrder DEF InOrder
<1> QED BY <1>1, InOrderAlways, PTL

\* Every variable stays in its type: no free count goes below zero, and no size past the
\* largest file, whatever create, write, truncate and unlink do to one another.
THEOREM Ext2Types == Spec /\ []FollowsBlocks => []TypeOK
BY TypesInOrder, InOrderAlways, PTL

-----------------------------------------------------------------------------
(* Positions in a file.                                                    *)

\* The indirect blocks on the way to logical block l, after d of them, and its place.
Stem(l, d) == <<Root(l), SubSeq(Path[l], 1, d)>>
Place(l) == <<Root(l), Path[l]>>
Tree == {p \in Slots \X Seq(Entry) : \E l \in Logicals : \E d \in 0..Level(l) : p = Stem(l, d)}

\* How many indirect blocks lead from a pointer to data; the positions of indirect blocks.
Deep(s) == IF s < Direct THEN 0 ELSE s - Direct + 1
IsTable(p) == Len(p[2]) < Deep(p[1])

\* The position of the indirect block with the entry of p, and the entry.
Over(p) == <<p[1], SubSeq(p[2], 1, Len(p[2]) - 1)>>
Tip(p) == p[2][Len(p[2])]

\* The first indices of a path.
LEMMA Prefix ==
  ASSUME NEW S, NEW q \in Seq(S), NEW d \in 0..Len(q)
  PROVE  /\ SubSeq(q, 1, d) \in Seq(S) /\ Len(SubSeq(q, 1, d)) = d
         /\ \A k \in 1..d : SubSeq(q, 1, d)[k] = q[k]
<1>1. Len(q) \in Nat /\ d \in Int /\ 1 \in Int /\ \A i \in 1..d : q[i] \in S
  OBVIOUS
<1> QED BY <1>1, SubSeqProperties

\* The first indices of a path are a position, one entry after another.
LEMMA StemIs ==
  ASSUME NEW l \in Logicals, NEW d \in 0..Level(l)
  PROVE  /\ Stem(l, d) \in Tree /\ Stem(l, d)[1] = Root(l) /\ Len(Stem(l, d)[2]) = d
         /\ Deep(Root(l)) = Level(l) /\ Level(l) \in 0..3
         /\ IsTable(Stem(l, d)) <=> d < Level(l)
         /\ d = Level(l) => Stem(l, d) = Place(l)
         /\ d > 0 => /\ Over(Stem(l, d)) = Stem(l, d - 1) /\ Tip(Stem(l, d)) = Path[l][d]
                     /\ Path[l][d] \in Entry
<1>1. Level(l) \in 0..3 /\ Root(l) \in Slots /\ Path[l] \in Seq(Entry) /\ Len(Path[l]) = Level(l)
  BY Paths
<1>2. PICK q : q = SubSeq(Path[l], 1, d)
  OBVIOUS
<1>3. q \in Seq(Entry) /\ Len(q) = d /\ \A k \in 1..d : q[k] = Path[l][k]
  BY <1>1, <1>2, Prefix
<1>4. Stem(l, d) = <<Root(l), q>>
  BY <1>2 DEF Stem
<1>5. Stem(l, d) \in Tree
  <2>1. <<Root(l), q>> \in Slots \X Seq(Entry)
    BY <1>1, <1>3
  <2> QED BY <1>4, <2>1 DEF Tree
<1>6. Deep(Root(l)) = Level(l)
  <2>1. Direct \in Nat
    BY FileIs
  <2>2. Level(l) = 0 => Root(l) < Direct
    BY Paths
  <2>3. Level(l) > 0 => Root(l) = Direct + Level(l) - 1
    BY Paths
  <2> QED BY <1>1, <2>1, <2>2, <2>3 DEF Deep
<1>7. ASSUME d = Level(l) PROVE Stem(l, d) = Place(l)
  <2>1. q = Path[l]
    BY <1>1, <1>3, <1>7, SeqEqual
  <2> QED BY <1>4, <2>1 DEF Place
<1>8. ASSUME d > 0 PROVE /\ Over(Stem(l, d)) = Stem(l, d - 1) /\ Tip(Stem(l, d)) = Path[l][d]
                         /\ Path[l][d] \in Entry
  <2>1. PICK s, r : s = SubSeq(Path[l], 1, d - 1) /\ r = SubSeq(q, 1, d - 1)
    OBVIOUS
  <2>2. s \in Seq(Entry) /\ Len(s) = d - 1 /\ \A k \in 1..(d - 1) : s[k] = Path[l][k]
    BY <1>1, <1>8, <2>1, Prefix
  <2>3. r \in Seq(Entry) /\ Len(r) = d - 1 /\ \A k \in 1..(d - 1) : r[k] = q[k]
    BY <1>3, <1>8, <2>1, Prefix
  <2>4. r = s
    BY <1>3, <2>2, <2>3, SeqEqual
  <2>5. Over(Stem(l, d)) = <<Root(l), r>>
    BY <1>3, <1>4, <2>1 DEF Over
  <2>6. Stem(l, d - 1) = <<Root(l), s>>
    BY <2>1 DEF Stem
  <2>7. d \in 1..d /\ d \in 1..Level(l)
    BY <1>1, <1>8
  <2>8. Tip(Stem(l, d)) = Path[l][d]
    BY <1>3, <1>4, <2>7 DEF Tip
  <2> QED BY <2>4, <2>5, <2>6, <2>7, <2>8, Paths
<1> QED BY <1>1, <1>3, <1>4, <1>5, <1>6, <1>7, <1>8 DEF IsTable

\* A position is on the way to a logical block.
LEMMA TreeIs ==
  ASSUME NEW p \in Tree
  PROVE  /\ p = <<p[1], p[2]>> /\ p[1] \in Slots /\ p[2] \in Seq(Entry) /\ Len(p[2]) \in 0..3
         /\ \E l \in Logicals : p = Stem(l, Len(p[2])) /\ Len(p[2]) \in 0..Level(l)
         /\ Len(p[2]) > 0 => /\ Over(p) \in Tree /\ Over(p)[1] = p[1] /\ Tip(p) \in Entry
                             /\ IsTable(Over(p)) /\ Len(Over(p)[2]) = Len(p[2]) - 1
         /\ ~IsTable(p) => \E l \in Logicals : p = Place(l)
<1>1. p \in Slots \X Seq(Entry)
  BY DEF Tree
<1>6. PICK l \in Logicals : \E d \in 0..Level(l) : p = Stem(l, d)
  BY DEF Tree
<1>2. PICK d \in 0..Level(l) : p = Stem(l, d)
  BY <1>6
<1>3. /\ p[1] = Root(l) /\ Len(p[2]) = d /\ Level(l) \in 0..3
      /\ IsTable(p) <=> d < Level(l)
      /\ d = Level(l) => p = Place(l)
      /\ d > 0 => Over(p) = Stem(l, d - 1) /\ Tip(p) = Path[l][d] /\ Path[l][d] \in Entry
  BY <1>2, StemIs
<1>4. d > 0 => Over(p) \in Tree /\ IsTable(Over(p)) /\ Over(p)[1] = p[1] /\ Len(Over(p)[2]) = d - 1
  <2> SUFFICES ASSUME d > 0 PROVE Over(p) \in Tree /\ IsTable(Over(p)) /\ Over(p)[1] = p[1] /\ Len(Over(p)[2]) = d - 1
    OBVIOUS
  <2>1. PICK e : e = d - 1
    OBVIOUS
  <2>2. e \in 0..Level(l) /\ e < Level(l) /\ Over(p) = Stem(l, e)
    BY <1>3, <2>1
  <2> QED BY <1>3, <2>1, <2>2, StemIs
<1>5. d \in 0..3 /\ (~(d < Level(l)) => d = Level(l))
  BY <1>3
<1> QED BY <1>1, <1>2, <1>3, <1>4, <1>5

\* A place is a position of data, and of one logical block.
LEMMA PlaceIs ==
  ASSUME NEW l \in Logicals
  PROVE  /\ Place(l) \in Tree /\ ~IsTable(Place(l)) /\ Place(l) = Stem(l, Level(l)) /\ Place(l)[1] = Root(l)
         /\ Len(Place(l)[2]) = Level(l)
         /\ \A m \in Logicals : Place(m) = Place(l) => m = l
<1>1. Level(l) \in 0..Level(l)
  BY Paths
<1>2. \A m \in Logicals : Place(m) = Place(l) => m = l
  BY PathsApart DEF Place
<1> QED BY <1>1, <1>2, StemIs

\* A position is given by the one over it and the entry.
LEMMA TipIs ==
  ASSUME NEW p \in Tree, NEW q \in Tree, Len(p[2]) > 0, Len(q[2]) > 0, Over(p) = Over(q), Tip(p) = Tip(q)
  PROVE  p = q
<1>1. PICK a, b, m, n : a = p[2] /\ b = q[2] /\ m = Len(a) /\ n = Len(b)
  OBVIOUS
<1>2. a \in Seq(Entry) /\ b \in Seq(Entry) /\ m \in 1..3 /\ n \in 1..3
  BY <1>1, TreeIs
<1>3. p[1] = q[1] /\ SubSeq(a, 1, m - 1) = SubSeq(b, 1, n - 1) /\ a[m] = b[n]
  BY <1>1 DEF Over, Tip
<1>4. /\ Len(SubSeq(a, 1, m - 1)) = m - 1 /\ \A k \in 1..(m - 1) : SubSeq(a, 1, m - 1)[k] = a[k]
      /\ Len(SubSeq(b, 1, n - 1)) = n - 1 /\ \A k \in 1..(n - 1) : SubSeq(b, 1, n - 1)[k] = b[k]
  BY <1>1, <1>2, Prefix
<1>5. m = n
  BY <1>2, <1>3, <1>4
<1>6. \A k \in 1..m : a[k] = b[k]
  BY <1>2, <1>3, <1>4, <1>5
<1>7. a = b
  BY <1>1, <1>2, <1>5, <1>6, SeqEqual
<1> QED BY <1>1, <1>3, <1>7, TreeIs

-----------------------------------------------------------------------------
(* The block at a position of a file with inode n on disk d.               *)

Follows(d, b, k) == IF b <= 0 \/ d[b][k] <= 0 THEN 0 ELSE d[b][k]
Reach(d, n, p) ==
  LET b1 == Follows(d, n.ptr[p[1]], p[2][1])
      b2 == Follows(d, b1, p[2][2])
  IN IF Len(p[2]) = 0 THEN n.ptr[p[1]]
     ELSE IF Len(p[2]) = 1 THEN b1
     ELSE IF Len(p[2]) = 2 THEN b2 ELSE Follows(d, b2, p[2][3])

\* It is the entry of the block over it.
LEMMA ReachIs ==
  ASSUME NEW d, NEW n, NEW p \in Tree
  PROVE  /\ Len(p[2]) = 0 => Reach(d, n, p) = n.ptr[p[1]]
         /\ Len(p[2]) > 0 => Reach(d, n, p) = Follows(d, Reach(d, n, Over(p)), Tip(p))
<1>1. PICK s, a, m : s = p[1] /\ a = p[2] /\ m = Len(a)
  OBVIOUS
<1>2. a \in Seq(Entry) /\ m \in 0..3
  BY <1>1, TreeIs
<1>3. Len(p[2]) = 0 => Reach(d, n, p) = n.ptr[p[1]]
  BY DEF Reach
<1>4. ASSUME m > 0 PROVE Reach(d, n, p) = Follows(d, Reach(d, n, Over(p)), Tip(p))
  <2>1. PICK b : b = SubSeq(a, 1, m - 1)
    OBVIOUS
  <2>2. Len(b) = m - 1 /\ \A k \in 1..(m - 1) : b[k] = a[k]
    BY <1>1, <1>2, <1>4, <2>1, Prefix
  <2>3. Over(p) = <<s, b>> /\ Tip(p) = a[m]
    BY <1>1, <2>1 DEF Over, Tip
  <2>7. Over(p)[1] = s /\ Over(p)[2] = b
    BY <2>3
  <2>4. CASE m = 1
    BY <1>1, <2>2, <2>3, <2>4 DEF Reach
  <2>5. CASE m = 2
    <3>1. Len(b) = 1 /\ b[1] = a[1]
      BY <2>2, <2>5
    <3>2. Reach(d, n, p) = Follows(d, Follows(d, n.ptr[s], a[1]), a[2])
      BY <1>1, <2>5 DEF Reach
    <3>3. Reach(d, n, Over(p)) = Follows(d, n.ptr[s], b[1])
      BY <2>3, <2>7, <3>1 DEF Reach
    <3> QED BY <2>3, <2>5, <3>1, <3>2, <3>3
  <2>6. CASE m = 3
    <3>1. Len(b) = 2 /\ b[1] = a[1] /\ b[2] = a[2]
      BY <2>2, <2>6
    <3>2. Reach(d, n, p) = Follows(d, Follows(d, Follows(d, n.ptr[s], a[1]), a[2]), a[3])
      BY <1>1, <2>6 DEF Reach
    <3>3. Reach(d, n, Over(p)) = Follows(d, Follows(d, n.ptr[s], b[1]), b[2])
      BY <2>3, <2>7, <3>1 DEF Reach
    <3> QED BY <2>3, <2>6, <3>1, <3>2, <3>3
  <2> QED BY <1>2, <1>4, <2>4, <2>5, <2>6
<1> QED BY <1>1, <1>3, <1>4

\* The walks of the driver end at the positions.
LEMMA WalksReach ==
  /\ \A n, s : \A q \in Seq(Entry) : Len(q) \in 0..3 => Walk(n.ptr[s], q) = Reach(disk, n, <<s, q>>)
  /\ \A n : \A l \in Logicals : /\ GetPhysical(n, l) = Reach(disk, n, Place(l))
                                /\ Level(l) > 0 => LastTable(n, l) = Reach(disk, n, Stem(l, Level(l) - 1))
<1>1. ASSUME NEW n, NEW s, NEW q \in Seq(Entry), Len(q) \in 0..3
      PROVE  Walk(n.ptr[s], q) = Reach(disk, n, <<s, q>>)
  <2>1. \A b, k : Follow(b, k) = Follows(disk, b, k)
    BY DEF Follow, Follows
  <2>2. PICK b : b = n.ptr[s]
    OBVIOUS
  <2>3. Walk(b, q) = CASE Len(q) = 0 -> b
                       [] Len(q) = 1 -> Follow(b, q[1])
                       [] Len(q) = 2 -> Follow(Follow(b, q[1]), q[2])
                       [] Len(q) = 3 -> Follow(Follow(Follow(b, q[1]), q[2]), q[3])
    BY DEF Walk
  <2>4. Len(q) = 0 => Walk(b, q) = b
    BY <2>3
  <2>5. Len(q) = 1 => Walk(b, q) = Follow(b, q[1])
    BY <2>3
  <2>6. Len(q) = 2 => Walk(b, q) = Follow(Follow(b, q[1]), q[2])
    BY <2>3
  <2>7. Len(q) = 3 => Walk(b, q) = Follow(Follow(Follow(b, q[1]), q[2]), q[3])
    BY <2>3
  <2>8. Len(q) = 0 \/ Len(q) = 1 \/ Len(q) = 2 \/ Len(q) = 3
    BY <1>1
  <2> QED BY <2>1, <2>2, <2>4, <2>5, <2>6, <2>7, <2>8 DEF Reach
<1>2. ASSUME NEW n, NEW l \in Logicals
      PROVE  /\ GetPhysical(n, l) = Reach(disk, n, Place(l))
             /\ Level(l) > 0 => LastTable(n, l) = Reach(disk, n, Stem(l, Level(l) - 1))
  <2>1. Path[l] \in Seq(Entry) /\ Len(Path[l]) = Level(l) /\ Level(l) \in 0..3
    BY Paths
  <2>2. GetPhysical(n, l) = Reach(disk, n, Place(l))
    BY <1>1, <2>1 DEF GetPhysical, Place
  <2>3. ASSUME Level(l) > 0 PROVE LastTable(n, l) = Reach(disk, n, Stem(l, Level(l) - 1))
    <3>1. SubSeq(Path[l], 1, Level(l) - 1) \in Seq(Entry) /\ Len(SubSeq(Path[l], 1, Level(l) - 1)) \in 0..3
      BY <2>1, <2>3, Prefix
    <3> QED BY <1>1, <3>1 DEF LastTable, Stem
  <2> QED BY <2>2, <2>3
<1> QED BY <1>1, <1>2

-----------------------------------------------------------------------------
(* Ownership: of files N, the positions L own their blocks on disk d.      *)

Has(d, N, x) == Reach(d, N[x[1]], x[2])
Above(x) == <<x[1], Over(x[2])>>
Far(x) == Len(x[2][2])

\* With a position, the indirect blocks on the way are in L.
Rooted(L) ==
  /\ L \subseteq Inodes \X Tree
  /\ \A x \in L : Far(x) > 0 => Above(x) \in L

\* No block has two positions or is the rest of the volume's, all are marked in use, and the
\* indirect ones name blocks.
Own(d, N, L, M) ==
  /\ Rooted(L)
  /\ \A x, y \in L : Has(d, N, x) = Has(d, N, y) /\ Has(d, N, x) # 0 => x = y
  /\ \A x \in L : Has(d, N, x) # 0 => Has(d, N, x) \in M \ TakenBlocks
  /\ \A x \in L : IsTable(x[2]) /\ Has(d, N, x) # 0 => \A k \in Entry : d[Has(d, N, x)][k] \in Blocks

\* The parts of a position of a file, and the position above it.
LEMMA PositionsAre ==
  ASSUME NEW L, Rooted(L), NEW x \in L
  PROVE  /\ x = <<x[1], x[2]>> /\ x[1] \in Inodes /\ x[2] \in Tree /\ Far(x) \in 0..3 /\ x[2][1] \in Slots
         /\ Far(x) > 0 => /\ Above(x) \in L /\ Above(x)[1] = x[1] /\ Above(x)[2] = Over(x[2])
                                /\ Above(x)[2][1] = x[2][1] /\ Far(Above(x)) = Far(x) - 1
                                /\ IsTable(Above(x)[2]) /\ Tip(x[2]) \in Entry
<1>1. x \in Inodes \X Tree /\ x = <<x[1], x[2]>> /\ x[1] \in Inodes /\ x[2] \in Tree
  BY DEF Rooted
<1>3. Above(x)[1] = x[1] /\ Above(x)[2] = Over(x[2])
  BY DEF Above
<1>4. /\ Far(x) \in 0..3 /\ x[2][1] \in Slots
      /\ Far(x) > 0 => /\ Over(x[2])[1] = x[2][1] /\ Tip(x[2]) \in Entry
                       /\ IsTable(Over(x[2])) /\ Len(Over(x[2])[2]) = Far(x) - 1
  BY <1>1, TreeIs DEF Far
<1>5. Far(x) > 0 => Above(x) \in L
  BY DEF Rooted
<1>6. Far(Above(x)) = Len(Over(x[2])[2])
  BY <1>3 DEF Far
<1> QED BY <1>1, <1>3, <1>4, <1>5, <1>6

\* What a position has, it has by the inode or by the indirect block above it.
LEMMA HasIs ==
  ASSUME NEW d, NEW N, NEW x, x[2] \in Tree
  PROVE  /\ Far(x) = 0 => Has(d, N, x) = N[x[1]].ptr[x[2][1]]
         /\ Far(x) > 0 => Has(d, N, x) = Follows(d, Has(d, N, Above(x)), Tip(x[2]))
<1>1. /\ Far(x) = 0 => Reach(d, N[x[1]], x[2]) = N[x[1]].ptr[x[2][1]]
      /\ Far(x) > 0 => Reach(d, N[x[1]], x[2]) = Follows(d, Reach(d, N[x[1]], Over(x[2])), Tip(x[2]))
  BY ReachIs DEF Far
<1>2. Above(x)[1] = x[1] /\ Above(x)[2] = Over(x[2])
  BY DEF Above
<1> QED BY <1>1, <1>2 DEF Has

\* E says what the positions L have.
Solves(d, N, L, E) ==
  \A x \in L : /\ Far(x) = 0 => E[x] = N[x[1]].ptr[x[2][1]]
               /\ Far(x) > 0 => E[x] = Follows(d, E[Above(x)], Tip(x[2]))

\* There is one answer to what the positions have.
LEMMA Climb ==
  ASSUME NEW d, NEW N, NEW L, Rooted(L), NEW E, Solves(d, N, L, E), NEW x \in L
  PROVE  Has(d, N, x) = E[x]
<1>1. ASSUME NEW y \in L, Far(y) = 0 PROVE Has(d, N, y) = E[y]
  <2>1. y[2] \in Tree
    BY PositionsAre
  <2>2. Has(d, N, y) = N[y[1]].ptr[y[2][1]]
    BY <1>1, <2>1, HasIs
  <2> QED BY <1>1, <2>2 DEF Solves
<1>2. ASSUME NEW y \in L, Far(y) > 0, Has(d, N, Above(y)) = E[Above(y)]
      PROVE  Has(d, N, y) = E[y]
  <2>1. Has(d, N, y) = Follows(d, Has(d, N, Above(y)), Tip(y[2]))
    BY <1>2, PositionsAre, HasIs
  <2> QED BY <1>2, <2>1 DEF Solves
<1>3. \A y \in L : Far(y) \in 0..3 /\ (Far(y) > 0 => Above(y) \in L /\ Far(Above(y)) = Far(y) - 1)
  BY PositionsAre, HasIs
<1>4. ASSUME NEW y \in L, Far(y) = 1 PROVE Has(d, N, y) = E[y]
  <2>1. Above(y) \in L /\ Far(Above(y)) = 0
    BY <1>3, <1>4
  <2> QED BY <1>1, <1>2, <1>4, <2>1
<1>5. ASSUME NEW y \in L, Far(y) = 2 PROVE Has(d, N, y) = E[y]
  <2>1. Above(y) \in L /\ Far(Above(y)) = 1
    BY <1>3, <1>5
  <2> QED BY <1>2, <1>4, <1>5, <2>1
<1>6. ASSUME NEW y \in L, Far(y) = 3 PROVE Has(d, N, y) = E[y]
  <2>1. Above(y) \in L /\ Far(Above(y)) = 2
    BY <1>3, <1>6
  <2> QED BY <1>2, <1>5, <1>6, <2>1
<1> QED BY <1>1, <1>3, <1>4, <1>5, <1>6

\* Positions are given up, and pointers of inodes: the positions K with inodes P on disk e are left.
Loses(d, N, L, e, P, K, R) ==
  /\ Rooted(K)
  /\ \A x \in K : P[x[1]].ptr[x[2][1]] = 0 \/ (x \in L /\ P[x[1]].ptr[x[2][1]] = N[x[1]].ptr[x[2][1]])
  /\ \A x \in K \cap L : IsTable(x[2]) /\ Has(d, N, x) # 0 => e[Has(d, N, x)] = d[Has(d, N, x)]
  /\ \A x \in K \cap L : Has(d, N, x) # 0 => Has(d, N, x) \in R

\* What is left stays.
LEMMA Fewer ==
  ASSUME NEW d, NEW N, NEW L, NEW M, Own(d, N, L, M), NEW e, NEW P, NEW K, NEW R, Loses(d, N, L, e, P, K, R)
  PROVE  /\ Own(e, P, K, R)
         /\ \A x \in K : /\ P[x[1]].ptr[x[2][1]] = 0 => Has(e, P, x) = 0
                         /\ P[x[1]].ptr[x[2][1]] # 0 => x \in L /\ Has(e, P, x) = Has(d, N, x)
<1> USE DEF Loses
<1> DEFINE E == [x \in K |-> IF P[x[1]].ptr[x[2][1]] = 0 THEN 0 ELSE Has(d, N, x)]
<1>0. Rooted(L)
  BY DEF Own
<1>1. Solves(e, P, K, E)
  <2>1. ASSUME NEW x \in K, Far(x) = 0 PROVE E[x] = P[x[1]].ptr[x[2][1]]
    BY <1>0, <2>1, PositionsAre, HasIs, SMTT(30)
  <2>2. ASSUME NEW x \in K, Far(x) > 0 PROVE E[x] = Follows(e, E[Above(x)], Tip(x[2]))
    <3>1. /\ Above(x) \in K /\ Above(x)[1] = x[1] /\ Above(x)[2][1] = x[2][1] /\ IsTable(Above(x)[2])
      BY <2>2, PositionsAre, HasIs
    <3>2. CASE P[x[1]].ptr[x[2][1]] = 0
      <4>1. E[x] = 0 /\ E[Above(x)] = 0
        BY <3>1, <3>2
      <4>2. Follows(e, 0, Tip(x[2])) = 0
        BY DEF Follows
      <4> HIDE DEF E
      <4> QED BY <4>1, <4>2
    <3>3. CASE P[x[1]].ptr[x[2][1]] # 0
      <4>1. x \in L /\ Above(x) \in L /\ E[x] = Has(d, N, x) /\ E[Above(x)] = Has(d, N, Above(x))
        BY <3>1, <3>3
      <4>2. Has(d, N, x) = Follows(d, Has(d, N, Above(x)), Tip(x[2]))
        BY <1>0, <2>2, <4>1, PositionsAre, HasIs
      <4>3. Has(d, N, Above(x)) # 0 => e[Has(d, N, Above(x))] = d[Has(d, N, Above(x))]
        BY <3>1, <4>1
      <4>4. Follows(d, Has(d, N, Above(x)), Tip(x[2])) = Follows(e, Has(d, N, Above(x)), Tip(x[2]))
        BY <4>3 DEF Follows
      <4> HIDE DEF E
      <4> QED BY <4>1, <4>2, <4>4
    <3> QED BY <3>2, <3>3
  <2> QED BY <2>1, <2>2 DEF Solves
<1>2. \A x \in K : Has(e, P, x) = E[x]
  BY <1>1, Climb
<1>3. \A x \in K : /\ P[x[1]].ptr[x[2][1]] = 0 => Has(e, P, x) = 0
                   /\ P[x[1]].ptr[x[2][1]] # 0 => x \in L /\ Has(e, P, x) = Has(d, N, x)
  BY <1>2
<1> HIDE DEF E
<1>4. \A x \in K : Has(e, P, x) # 0 => x \in L /\ Has(e, P, x) = Has(d, N, x)
  BY <1>3
<1>5. \A x, y \in K : Has(e, P, x) = Has(e, P, y) /\ Has(e, P, x) # 0 => x = y
  BY <1>4 DEF Own
<1>6. \A x \in K : Has(e, P, x) # 0 => Has(e, P, x) \in R \ TakenBlocks
  BY <1>4 DEF Own
<1>7. \A x \in K : IsTable(x[2]) /\ Has(e, P, x) # 0 => \A k \in Entry : e[Has(e, P, x)][k] \in Blocks
  BY <1>4 DEF Own
<1> QED BY <1>3, <1>5, <1>6, <1>7 DEF Own

\* A block v, or none, is put at position z.
Gains(d, N, L, z, v, e, P, R) ==
  /\ z \in L /\ v \in Blocks
  /\ v # 0 => v \notin TakenBlocks /\ v \in R /\ \A x \in L : Has(d, N, x) # v
  /\ Far(z) > 0 => Has(d, N, Above(z)) # 0
  /\ IsTable(z[2]) => Has(d, N, z) = 0 /\ v # 0 /\ \A k \in Entry : e[v][k] = 0
  /\ \A x \in L : Far(x) = 0 => P[x[1]].ptr[x[2][1]] = IF x = z THEN v ELSE N[x[1]].ptr[x[2][1]]
  /\ \A x \in L : IsTable(x[2]) /\ Has(d, N, x) # 0 =>
       \A k \in Entry : e[Has(d, N, x)][k]
         = IF Far(z) > 0 /\ x = Above(z) /\ k = Tip(z[2]) THEN v ELSE d[Has(d, N, x)][k]
  /\ \A x \in L : x # z /\ Has(d, N, x) # 0 => Has(d, N, x) \in R

\* A block at a new position leaves the other positions as they are.
LEMMA Put ==
  ASSUME NEW d, NEW N, NEW L, NEW M \in SUBSET Blocks, Own(d, N, L, M), NEW z, NEW v,
         NEW e, NEW P, NEW R, Gains(d, N, L, z, v, e, P, R)
  PROVE  /\ Own(e, P, L, R)
         /\ Has(e, P, z) = v /\ \A x \in L : x # z => Has(e, P, x) = Has(d, N, x)
<1> USE DEF Gains
<1> DEFINE E == [x \in L |-> IF x = z THEN v ELSE Has(d, N, x)]
<1>0. Rooted(L)
  BY DEF Own
<1>1. Solves(e, P, L, E)
  <2>1. ASSUME NEW x \in L, Far(x) = 0 PROVE E[x] = P[x[1]].ptr[x[2][1]]
    <3>1. x[2] \in Tree
      BY <1>0, PositionsAre
    <3>2. Has(d, N, x) = N[x[1]].ptr[x[2][1]]
      BY ONLY <2>1, <3>1, HasIs
    <3> QED BY <2>1, <3>2
  <2>2. ASSUME NEW x \in L, Far(x) > 0 PROVE E[x] = Follows(e, E[Above(x)], Tip(x[2]))
    <3>1. PICK y, k : y = Above(x) /\ k = Tip(x[2])
      OBVIOUS
    <3>2. /\ y \in L /\ y[1] = x[1] /\ y[2] = Over(x[2]) /\ IsTable(y[2]) /\ k \in Entry
          /\ Far(y) = Far(x) - 1 /\ Has(d, N, x) = Follows(d, Has(d, N, y), k)
          /\ Far(x) \in 0..3
      BY <1>0, <2>2, <3>1, PositionsAre, HasIs
    <3>3. CASE x = z
      <4>1. y # z
        BY <2>2, <3>2, <3>3
      <4>2. E[x] = v /\ E[y] = Has(d, N, y) /\ Has(d, N, y) # 0
        BY <2>2, <3>1, <3>2, <3>3, <4>1
      <4>3. e[Has(d, N, y)][k] = v
        BY <2>2, <3>1, <3>2, <3>3, <4>2
      <4>4. Has(d, N, y) \in Nat /\ v \in Nat
        BY <3>2, <4>2, Volume DEF Own
      <4> QED BY <3>1, <4>2, <4>3, <4>4 DEF Follows
    <3>4. CASE x # z /\ y # z
      <4>1. E[x] = Has(d, N, x) /\ E[y] = Has(d, N, y)
        BY <3>2, <3>4
      <4>2. ASSUME Has(d, N, y) # 0 PROVE e[Has(d, N, y)][k] = d[Has(d, N, y)][k]
        <5>1. ASSUME Far(z) > 0, y = Above(z), k = Tip(z[2]) PROVE FALSE
          <6>1. z[1] = x[1] /\ Over(z[2]) = Over(x[2]) /\ Tip(z[2]) = Tip(x[2]) /\ z[2] \in Tree /\ x[2] \in Tree
                /\ z = <<z[1], z[2]>> /\ x = <<x[1], x[2]>>
            BY <1>0, <2>2, <3>1, <3>2, <5>1, PositionsAre, HasIs
          <6>2. z[2] = x[2]
            BY <2>2, <5>1, <6>1, TipIs DEF Far
          <6> QED BY <3>4, <6>1, <6>2
        <5> QED BY <3>2, <4>2, <5>1
      <4> QED BY <3>1, <3>2, <4>1, <4>2 DEF Follows
    <3>5. CASE x # z /\ y = z
      <4>1. Has(d, N, z) = 0 /\ v # 0 /\ e[v][k] = 0
        BY <3>2, <3>5
      <4>2. E[y] = v /\ E[x] = Has(d, N, x)
        BY <3>2, <3>5
      <4>3. Has(d, N, x) = 0
        BY <3>2, <3>5, <4>1 DEF Follows
      <4> QED BY <3>1, <4>1, <4>2, <4>3 DEF Follows
    <3> QED BY <3>3, <3>4, <3>5
  <2> QED BY <2>1, <2>2 DEF Solves
<1>2. \A x \in L : Has(e, P, x) = E[x]
  BY <1>0, <1>1, Climb
<1>3. Has(e, P, z) = v /\ \A x \in L : x # z => Has(e, P, x) = Has(d, N, x)
  BY <1>2
<1> HIDE DEF E
<1>4. \A x, y \in L : Has(e, P, x) = Has(e, P, y) /\ Has(e, P, x) # 0 => x = y
  <2>1. ASSUME NEW x \in L, NEW y \in L, x # z, y # z, Has(e, P, x) = Has(e, P, y), Has(e, P, x) # 0
        PROVE  x = y
    BY <1>3, <2>1 DEF Own
  <2>2. ASSUME NEW x \in L, x # z, Has(e, P, x) = v, v # 0 PROVE FALSE
    BY <1>3, <2>2
  <2> QED BY <1>3, <2>1, <2>2
<1>5. \A x \in L : Has(e, P, x) # 0 => Has(e, P, x) \in R \ TakenBlocks
  BY <1>3 DEF Own
<1>6. \A x \in L : IsTable(x[2]) /\ Has(e, P, x) # 0 => \A k \in Entry : e[Has(e, P, x)][k] \in Blocks
  <2>1. ASSUME NEW x \in L, x # z, IsTable(x[2]), Has(e, P, x) # 0, NEW k \in Entry
        PROVE  e[Has(e, P, x)][k] \in Blocks
    <3>1. Has(e, P, x) = Has(d, N, x) /\ d[Has(d, N, x)][k] \in Blocks
      BY <1>3, <2>1 DEF Own
    <3>2. e[Has(d, N, x)][k] = v \/ e[Has(d, N, x)][k] = d[Has(d, N, x)][k]
      BY <2>1, <3>1
    <3> QED BY <3>1, <3>2
  <2>2. ASSUME IsTable(z[2]), NEW k \in Entry PROVE e[Has(e, P, z)][k] \in Blocks
    BY <1>3, <2>2, Volume
  <2> QED BY <2>1, <2>2
<1> QED BY <1>0, <1>3, <1>4, <1>5, <1>6 DEF Own

\* The entry, or the pointer, of a place that nobody had is cleared.
Clears(d, N, L, z, e, P) ==
  /\ z \notin L /\ Rooted(L \cup {z}) /\ ~IsTable(z[2])
  /\ \A x \in L \cup {z} : Far(x) = 0 => P[x[1]].ptr[x[2][1]] = IF x = z THEN 0 ELSE N[x[1]].ptr[x[2][1]]
  /\ \A x \in L : IsTable(x[2]) /\ Has(d, N, x) # 0 =>
       \A k \in Entry : e[Has(d, N, x)][k]
         = IF Far(z) > 0 /\ x = Above(z) /\ k = Tip(z[2]) THEN 0 ELSE d[Has(d, N, x)][k]

\* Then the place is a position again, and has no block.
LEMMA Cut ==
  ASSUME NEW d, NEW N, NEW L, NEW M, Own(d, N, L, M), NEW z, NEW e, NEW P, Clears(d, N, L, z, e, P)
  PROVE  /\ Own(e, P, L \cup {z}, M)
         /\ Has(e, P, z) = 0 /\ \A x \in L : Has(e, P, x) = Has(d, N, x)
<1> USE DEF Clears
<1> DEFINE K == L \cup {z}
           E == [x \in K |-> IF x = z THEN 0 ELSE Has(d, N, x)]
<1>0. Rooted(K) /\ Rooted(L)
  BY DEF Own
<1>1. Solves(e, P, K, E)
  <2>1. ASSUME NEW x \in K, Far(x) = 0 PROVE E[x] = P[x[1]].ptr[x[2][1]]
    <3>1. x[2] \in Tree
      BY <1>0, PositionsAre
    <3>2. Has(d, N, x) = N[x[1]].ptr[x[2][1]]
      BY ONLY <2>1, <3>1, HasIs
    <3> QED BY <2>1, <3>2
  <2>2. ASSUME NEW x \in K, Far(x) > 0 PROVE E[x] = Follows(e, E[Above(x)], Tip(x[2]))
    <3>1. PICK y, k : y = Above(x) /\ k = Tip(x[2])
      OBVIOUS
    <3>2. /\ y \in K /\ IsTable(y[2]) /\ k \in Entry /\ x[2] \in Tree /\ y[1] = x[1] /\ y[2] = Over(x[2])
          /\ x = <<x[1], x[2]>>
      BY <1>0, <2>2, <3>1, PositionsAre
    <3>3. y \in L /\ y # z /\ E[y] = Has(d, N, y)
      BY <3>2
    <3>4. Has(d, N, x) = Follows(d, Has(d, N, y), k)
      BY <2>2, <3>1, <3>2, HasIs
    <3>5. CASE x = z
      <4>1. E[x] = 0 /\ (Has(d, N, y) # 0 => e[Has(d, N, y)][k] = 0)
        BY <2>2, <3>1, <3>2, <3>3, <3>5
      <4> HIDE DEF E
      <4> QED BY <3>1, <3>3, <4>1 DEF Follows
    <3>6. CASE x # z
      <4>1. E[x] = Has(d, N, x) /\ x \in L
        BY <3>6
      <4>2. ASSUME Far(z) > 0, y = Above(z), k = Tip(z[2]) PROVE FALSE
        <5>1. /\ z[1] = x[1] /\ Over(z[2]) = Over(x[2]) /\ Tip(z[2]) = Tip(x[2]) /\ z[2] \in Tree
              /\ z = <<z[1], z[2]>>
          <6>1. z \in K
            OBVIOUS
          <6>2. Above(z)[1] = z[1] /\ Above(z)[2] = Over(z[2]) /\ z[2] \in Tree /\ z = <<z[1], z[2]>>
            BY <1>0, <4>2, <6>1, PositionsAre
          <6> QED BY <3>1, <3>2, <4>2, <6>2
        <5>2. z[2] = x[2]
          BY <2>2, <3>2, <4>2, <5>1, TipIs DEF Far
        <5> QED BY <3>2, <3>6, <5>1, <5>2
      <4>3. Has(d, N, y) # 0 => e[Has(d, N, y)][k] = d[Has(d, N, y)][k]
        BY <3>2, <3>3, <4>2
      <4> HIDE DEF E
      <4> QED BY <3>1, <3>3, <3>4, <4>1, <4>3 DEF Follows
    <3> QED BY <3>5, <3>6
  <2> QED BY <2>1, <2>2 DEF Solves
<1>2. \A x \in K : Has(e, P, x) = E[x]
  <2> HIDE DEF K, E
  <2> QED BY <1>0, <1>1, Climb
<1>3. Has(e, P, z) = 0 /\ \A x \in L : Has(e, P, x) = Has(d, N, x)
  BY <1>2
<1> HIDE DEF E
<1>4. \A x \in K : Has(e, P, x) # 0 => x \in L /\ Has(e, P, x) = Has(d, N, x)
  BY <1>3
<1>5. \A x, y \in K : Has(e, P, x) = Has(e, P, y) /\ Has(e, P, x) # 0 => x = y
  BY <1>4 DEF Own
<1>6. \A x \in K : Has(e, P, x) # 0 => Has(e, P, x) \in M \ TakenBlocks
  BY <1>4 DEF Own
<1>7. ASSUME NEW x \in K, IsTable(x[2]), Has(e, P, x) # 0, NEW k \in Entry PROVE e[Has(e, P, x)][k] \in Blocks
  <2>1. x \in L /\ Has(e, P, x) = Has(d, N, x) /\ d[Has(d, N, x)][k] \in Blocks
    BY <1>4, <1>7 DEF Own
  <2>2. e[Has(d, N, x)][k] = 0 \/ e[Has(d, N, x)][k] = d[Has(d, N, x)][k]
    BY <1>7, <2>1
  <2> QED BY <2>1, <2>2, Volume
<1> HIDE DEF K
<1>8. Own(e, P, K, M)
  BY <1>0, <1>5, <1>6, <1>7 DEF Own
<1> QED BY <1>3, <1>8 DEF K

-----------------------------------------------------------------------------
(* Who has what.                                                           *)

Placing(t) == op[t] \in {"root", "table"}

\* What an unlink has still to free, in the order it goes.
Unfreed(t, p) == /\ p[1] >= Direct => pos[t] <= to[t] + (p[1] - Direct)
                 /\ \A l \in Logicals : Place(l) = p => pos[t] <= l

\* The position truncate_inode has freed the block of, and not yet cleared.
Parted(i, p) == \E t \in Tasks : /\ ino[t] = i /\ op[t] = "clear"
                                 /\ \E l \in Logicals : pos[t] = l + 1 /\ p = Place(l)

Live(i, p) == \/ i \in Living /\ ~Parted(i, p)
              \/ \E t \in Tasks : ino[t] = i /\ op[t] = "unlink" /\ Unfreed(t, p)

Nodes == [i \in Inodes |-> Current(i)]
Owns == {x \in Inodes \X Tree : Live(x[1], x[2])}
BlockAt(x) == Has(disk, Nodes, x)

\* No two tasks work on one file.
Apart == \A t, u \in Tasks : ino[t] = ino[u] /\ ino[t] # 0 => t = u

\* The step is the task's alone, and the file is the only one it changes.
Only(t, i) ==
  /\ Others(t) /\ Apart' /\ ino[t] \in {0, i} /\ ino'[t] \in {0, i}
  /\ i \in Inodes /\ i \in {ino[t], ino'[t]}
  /\ \A j \in Inodes \ {i} : inodes'[j] = inodes[j] /\ (j \in files' <=> j \in files)

\* A file is living while it has a name or is being made.
LEMMA LivingIs ==
  ASSUME NEW i
  PROVE  /\ i \in Living <=> i \in files \/ \E t \in Tasks : call[t] = "create" /\ op[t] # "create" /\ ino[t] = i
         /\ i \in Living' <=> i \in files' \/ \E t \in Tasks : call'[t] = "create" /\ op'[t] # "create" /\ ino'[t] = i
BY DEF Living

\* A task between the two steps parts the file from the place it is at.
LEMMA PartedIs ==
  ASSUME NEW t \in Tasks, NEW i \in Inodes
  PROVE  /\ Apart /\ ino[t] = i /\ op[t] # "clear" => \A p : ~Parted(i, p)
         /\ Apart' /\ ino'[t] = i /\ op'[t] # "clear" => \A p : ~Parted(i, p)'
         /\ \A l \in Logicals :
              /\ Apart /\ ino[t] = i /\ op[t] = "clear" /\ pos[t] = l + 1 => \A p : Parted(i, p) <=> p = Place(l)
              /\ Apart' /\ ino'[t] = i /\ op'[t] = "clear" /\ pos'[t] = l + 1 =>
                   \A p : Parted(i, p)' <=> p = Place(l)
<1>1. i # 0
  BY Volume
<1>2. Apart /\ ino[t] = i => \A u \in Tasks : ino[u] = i => u = t
  BY <1>1 DEF Apart
<1>3. Apart' /\ ino'[t] = i => \A u \in Tasks : ino'[u] = i => u = t
  BY <1>1 DEF Apart
<1>4. \A l, m \in Logicals : l + 1 = m + 1 => l = m
  BY FileIs
<1>5. Apart /\ ino[t] = i /\ op[t] # "clear" => \A p : ~Parted(i, p)
  BY <1>2 DEF Parted
<1>6. Apart' /\ ino'[t] = i /\ op'[t] # "clear" => \A p : ~Parted(i, p)'
  BY <1>3 DEF Parted
<1>7. ASSUME NEW l \in Logicals, Apart, ino[t] = i, op[t] = "clear", pos[t] = l + 1, NEW p
      PROVE  Parted(i, p) <=> p = Place(l)
  BY <1>2, <1>4, <1>7 DEF Parted
<1>8. ASSUME NEW l \in Logicals, Apart', ino'[t] = i, op'[t] = "clear", pos'[t] = l + 1, NEW p
      PROVE  Parted(i, p)' <=> p = Place(l)
  BY <1>3, <1>4, <1>8 DEF Parted
<1> QED BY <1>5, <1>6, <1>7, <1>8

\* The inode of a file is its task's copy; without a task, the one on the disk.
LEMMA CurrentIs ==
  ASSUME Apart, NEW i \in Inodes
  PROVE  /\ \A t \in Tasks : ino[t] = i => Nodes[i] = copy[t]
         /\ (\A t \in Tasks : ino[t] # i) => Nodes[i] = inodes[i]
<1>1. Nodes[i] = IF At(i) = {} THEN inodes[i] ELSE copy[CHOOSE t \in At(i) : TRUE]
  BY DEF Nodes, Current
<1>2. ASSUME NEW t \in Tasks, ino[t] = i PROVE Nodes[i] = copy[t]
  <2>1. i # 0
    BY Volume
  <2>2. At(i) = {t}
    BY <1>2, <2>1 DEF At, Apart
  <2>3. (CHOOSE u \in {t} : TRUE) = t
    OBVIOUS
  <2> QED BY <1>1, <2>2, <2>3
<1>3. (\A t \in Tasks : ino[t] # i) => At(i) = {}
  BY DEF At
<1> QED BY <1>1, <1>2, <1>3

\* The same after a step.
LEMMA CurrentNext ==
  ASSUME Apart', NEW i \in Inodes
  PROVE  /\ \A t \in Tasks : ino'[t] = i => Nodes'[i] = copy'[t]
         /\ (\A t \in Tasks : ino'[t] # i) => Nodes'[i] = inodes'[i]
<1>1. Nodes'[i] = IF At(i)' = {} THEN inodes'[i] ELSE copy'[CHOOSE t \in At(i)' : TRUE]
  BY DEF Nodes, Current
<1>2. ASSUME NEW t \in Tasks, ino'[t] = i PROVE Nodes'[i] = copy'[t]
  <2>1. i # 0
    BY Volume
  <2>2. At(i)' = {t}
    BY <1>2, <2>1 DEF At, Apart
  <2>3. (CHOOSE u \in {t} : TRUE) = t
    OBVIOUS
  <2> QED BY <1>1, <2>2, <2>3
<1>3. (\A t \in Tasks : ino'[t] # i) => At(i)' = {}
  BY DEF At
<1> QED BY <1>1, <1>2, <1>3

\* What another task still has to free is the same after the step.
LEMMA UnfreedElse ==
  ASSUME NEW t \in Tasks, Others(t), NEW u \in Tasks \ {t}, NEW p
  PROVE  Unfreed(u, p)' <=> Unfreed(u, p)
BY DEF Others, Unfreed

\* The files that a step leaves alone.
LEMMA OtherFiles ==
  ASSUME Apart, NEW t \in Tasks, NEW i, Only(t, i), NEW j \in Inodes \ {i}
  PROVE  /\ Nodes'[j] = Nodes[j] /\ inodes'[j] = inodes[j]
         /\ \A p : Live(j, p)' <=> Live(j, p)
         /\ \A u \in Tasks : (ino'[u] = j <=> ino[u] = j) /\ (ino[u] = j => u # t)
<1>1. j # 0 /\ inodes'[j] = inodes[j] /\ Apart'
  BY Volume DEF Only
<1>2. \A u \in Tasks : (ino'[u] = j <=> ino[u] = j) /\ (ino[u] = j => u # t)
  BY <1>1 DEF Only, Others
<1>3. Nodes'[j] = Nodes[j]
  <2>1. CASE \E u \in Tasks : ino[u] = j
    <3>1. PICK u \in Tasks : ino[u] = j
      BY <2>1
    <3>2. u # t /\ copy'[u] = copy[u] /\ ino'[u] = j
      BY <1>2, <3>1 DEF Only, Others
    <3> QED BY <1>1, <3>1, <3>2, CurrentIs, CurrentNext
  <2>2. CASE ~\E u \in Tasks : ino[u] = j
    BY <1>1, <1>2, <2>2, CurrentIs, CurrentNext
  <2> QED BY <2>1, <2>2
<1>4. j \in Living' <=> j \in Living
  <2>1. \A u \in Tasks : ino[u] = j => call'[u] = call[u] /\ op'[u] = op[u]
    BY <1>2 DEF Only, Others
  <2>2. j \in files' <=> j \in files
    BY DEF Only
  <2> QED BY <1>2, <2>1, <2>2, LivingIs
<1>5. ASSUME NEW p PROVE Live(j, p)' <=> Live(j, p)
  <2>1. \A u \in Tasks : ino[u] = j => op'[u] = op[u] /\ pos'[u] = pos[u] /\ (Unfreed(u, p)' <=> Unfreed(u, p))
    BY <1>2, UnfreedElse DEF Only, Others
  <2>2. Parted(j, p)' <=> Parted(j, p)
    BY <1>2, <2>1 DEF Parted
  <2> QED BY <1>2, <1>4, <2>1, <2>2 DEF Live
<1> QED BY <1>1, <1>2, <1>3, <1>5

\* Unlinks free indirect blocks after what hangs on them, so that they leave a tree.
LEMMA OwnsRooted == Rooted(Owns) /\ Rooted(Owns')
<1>1. ASSUME NEW p \in Tree, Len(p[2]) > 0
      PROVE  /\ Over(p) \in Tree /\ Over(p)[1] = p[1] /\ \A l \in Logicals : Place(l) # Over(p)
  BY <1>1, TreeIs, PlaceIs
<1>2. ASSUME NEW i, NEW p \in Tree, Len(p[2]) > 0
      PROVE  (Live(i, p) => Live(i, Over(p))) /\ (Live(i, p)' => Live(i, Over(p))')
  <2>1. ~Parted(i, Over(p)) /\ ~Parted(i, Over(p))'
    BY <1>1, <1>2 DEF Parted
  <2>2. \A t \in Tasks : (Unfreed(t, p) => Unfreed(t, Over(p))) /\ (Unfreed(t, p)' => Unfreed(t, Over(p))')
    BY <1>1, <1>2 DEF Unfreed
  <2> QED BY <2>1, <2>2 DEF Live
<1>3. ASSUME NEW x \in Inodes \X Tree, Far(x) > 0
      PROVE  /\ Above(x) \in Inodes \X Tree
             /\ x \in Owns => Above(x) \in Owns
             /\ x \in Owns' => Above(x) \in Owns'
  <2>1. x[1] \in Inodes /\ x[2] \in Tree /\ Len(x[2][2]) > 0
    BY <1>3 DEF Far
  <2>2. Above(x) \in Inodes \X Tree /\ Above(x)[1] = x[1] /\ Above(x)[2] = Over(x[2])
    BY <1>1, <2>1 DEF Above
  <2> QED BY <1>2, <2>1, <2>2 DEF Owns
<1> QED BY <1>3 DEF Rooted, Owns

-----------------------------------------------------------------------------
(* The invariant of the files, while tasks keep to files of their own.     *)

Marked ==
  /\ TakenBlocks \subseteq bmap /\ files \subseteq imap
  /\ imap \subseteq TakenInodes \cup files \cup {ino[t] : t \in Tasks}
  /\ \A t \in Tasks : /\ op[t] # "user" => ino[t] \in imap
                      /\ call[t] \in {"write", "truncate"} => ino[t] \in files
                      /\ call[t] \in {"create", "unlink"} => ino[t] \notin files

\* No word of block b is the number of a block.
Blank(d, b) == \A k \in Entry : d[b][k] <= 0

Clean == \A b \in Blocks \ bmap : Blank(disk, b)

\* From where on the data of a file under way is nobody's: what lies there is lost.
Edge(t) ==
  LET done == IF op[t] = "data" THEN Here(t) + 1 ELSE Count(pos[t])
  IN IF op[t] = "unlink" THEN to[t]
     ELSE IF call[t] # "write" THEN pos[t]
     ELSE IF t \in dirty /\ done > Count(copy[t].size) THEN done ELSE Count(copy[t].size)

EndsBy(i, l) ==
  /\ \A t \in Tasks : ino[t] = i => Edge(t) <= l
  /\ (\A t \in Tasks : ino[t] # i) => Count(inodes[i].size) <= l

Beyond ==
  \A x \in Owns : \A l \in Logicals :
    x[2] = Place(l) /\ EndsBy(x[1], l) /\ BlockAt(x) # 0 => l >= Direct /\ BlockAt(x) \in lost

Covered ==
  \A b \in bmap : \/ b \in TakenBlocks \cup lost
                  \/ \E x \in Owns : BlockAt(x) = b
                  \/ \E t \in Tasks : Placing(t) /\ block[t] = b

\* The inode on the disk lacks what the copy has got since.
Behind(t) ==
  op[t] \in {"write", "data", "root", "table", "grow"} =>
    /\ copy[t].size = inodes[ino[t]].size
    /\ \A s \in Slots : inodes[ino[t]].ptr[s] \in {0, copy[t].ptr[s]}
    /\ \A l \in Logicals : l < Direct /\ Count(inodes[ino[t]].size) <= l => inodes[ino[t]].ptr[l] = 0

\* The indirect block a task stands at.
Stands(t, W) ==
  op[t] = "table" =>
    IF copy[t].ptr[Root(Here(t))] = 0 THEN table[t] \in W \cup {0} /\ (depth[t] = 0 => table[t] = 0)
    ELSE table[t] # 0 /\ table[t] = BlockAt(<<ino[t], Stem(Here(t), depth[t])>>)

\* The block a task writes to.
Writes(t, W) ==
  op[t] = "data" => /\ block[t] # 0
                    /\ block[t] \in W \/ block[t] = BlockAt(<<ino[t], Place(Here(t))>>)

\* A block that is not linked yet.
Spare(t, W) ==
  Placing(t) => /\ block[t] \in bmap \ TakenBlocks /\ block[t] \notin W /\ Blank(disk, block[t])
                /\ \A x \in Owns : BlockAt(x) # block[t]
                /\ \A u \in Tasks : Placing(u) /\ block[u] = block[t] => u = t
Lacks(t) == Placing(t) /\ call[t] = "write" => BlockAt(<<ino[t], Place(Here(t))>>) = 0

\* The blocks that hang on block 0, the indirect block of nobody.
Astray(W) ==
  /\ W \subseteq bmap \ TakenBlocks /\ \A x \in Owns : BlockAt(x) \notin W
  /\ \A w \in W \cup {0} : \A k \in Entry : disk[w][k] > 0 => disk[w][k] \in W

Owned == Own(disk, Nodes, Owns, bmap)

Tidy(W) ==
  /\ Marked /\ Apart /\ Clean /\ Owned /\ Beyond /\ Covered /\ Astray(W)
  /\ \A t \in Tasks : Behind(t) /\ Stands(t, W) /\ Writes(t, W) /\ Spare(t, W) /\ Lacks(t)

-----------------------------------------------------------------------------
(* How a step changes what the files have.                                 *)

\* Behind a pointer that is 0 there is nothing.
LEMMA RootZero ==
  ASSUME NEW d, NEW N, NEW L, NEW M, Own(d, N, L, M), NEW x \in L, N[x[1]].ptr[x[2][1]] = 0
  PROVE  Has(d, N, x) = 0
<1>1. Rooted(L)
  BY DEF Own
<1>2. \A y \in L : Has(d, N, y) # 0 => Has(d, N, y) \in M
  BY DEF Own
<1>3. Loses(d, N, L, d, N, L, M)
  BY <1>1, <1>2 DEF Loses
<1> QED BY <1>3, Fewer

\* A block is new to the files: just allocated, or the one the task has in hand.
Fresh(t, v) == v \in Blocks /\ (v \notin bmap \/ (Placing(t) /\ v = block[t]))

\* A new block is at no position, in nobody else's hand, and does not hang on block 0.
LEMMA FreshIs ==
  ASSUME InOrder, NEW W, Tidy(W), NEW t \in Tasks, NEW v, Fresh(t, v)
  PROVE  /\ v \in Blocks \ {0} /\ v \notin TakenBlocks /\ v \notin W
         /\ \A x \in Owns : BlockAt(x) # v
         /\ \A u \in Tasks \ {t} : Placing(u) => block[u] # v
<1>1. 0 \in TakenBlocks /\ TakenBlocks \subseteq bmap /\ W \subseteq bmap
  BY Volume DEF Tidy, Marked, Astray
<1>2. \A x \in Owns : BlockAt(x) # 0 => BlockAt(x) \in bmap
  BY DEF Tidy, Owned, Own, BlockAt
<1>3. \A u \in Tasks : Placing(u) => block[u] \in bmap
  BY DEF Tidy, Spare
<1>4. CASE v \notin bmap
  BY <1>1, <1>2, <1>3, <1>4 DEF Fresh
<1>5. CASE Placing(t) /\ v = block[t]
  BY <1>1, <1>5 DEF Fresh, Tidy, Spare
<1> QED BY <1>4, <1>5 DEF Fresh

\* The file of the step gives up positions or pointers, or none.
LEMMA Shed ==
  ASSUME NEW W, Tidy(W), NEW t \in Tasks, NEW i, Only(t, i),
         \A p \in Tree : Live(i, p)' => \/ Nodes'[i].ptr[p[1]] = 0
                                        \/ Live(i, p) /\ Nodes'[i].ptr[p[1]] = Nodes[i].ptr[p[1]],
         \A x \in Owns \cap Owns' : BlockAt(x) # 0 =>
            BlockAt(x) \in bmap' /\ (IsTable(x[2]) => disk'[BlockAt(x)] = disk[BlockAt(x)])
  PROVE  /\ Owned'
         /\ \A x \in Owns' : x[1] # i => x \in Owns /\ BlockAt(x)' = BlockAt(x)
         /\ \A x \in Owns' : x[1] = i =>
              /\ Nodes'[i].ptr[x[2][1]] = 0 => BlockAt(x)' = 0
              /\ Nodes'[i].ptr[x[2][1]] # 0 => x \in Owns /\ BlockAt(x)' = BlockAt(x)
         /\ \A x \in Owns' : BlockAt(x)' = 0 \/ (x \in Owns /\ BlockAt(x)' = BlockAt(x))
<1>1. Own(disk, Nodes, Owns, bmap) /\ Apart /\ Rooted(Owns')
  BY OwnsRooted DEF Tidy, Owned
<1>2. \A x \in Owns' : x \in Inodes \X Tree /\ x[1] \in Inodes /\ x[2] \in Tree /\ Live(x[1], x[2])'
  BY DEF Owns
<1>3. \A x \in Owns' : x[1] # i => x \in Owns /\ Nodes'[x[1]] = Nodes[x[1]]
  BY <1>1, <1>2, OtherFiles DEF Owns
<1>4. \A x \in Owns' : \/ Nodes'[x[1]].ptr[x[2][1]] = 0
                       \/ x \in Owns /\ Nodes'[x[1]].ptr[x[2][1]] = Nodes[x[1]].ptr[x[2][1]]
  BY <1>2, <1>3 DEF Owns
<1>9. \A x \in Owns' \cap Owns :
        /\ IsTable(x[2]) /\ Has(disk, Nodes, x) # 0 => disk'[Has(disk, Nodes, x)] = disk[Has(disk, Nodes, x)]
        /\ Has(disk, Nodes, x) # 0 => Has(disk, Nodes, x) \in bmap'
  BY DEF BlockAt
<1>5. /\ Own(disk', Nodes', Owns', bmap')
      /\ \A x \in Owns' : /\ Nodes'[x[1]].ptr[x[2][1]] = 0 => Has(disk', Nodes', x) = 0
                          /\ Nodes'[x[1]].ptr[x[2][1]] # 0 => x \in Owns /\ Has(disk', Nodes', x) = Has(disk, Nodes, x)
  <2>1. Loses(disk, Nodes, Owns, disk', Nodes', Owns', bmap')
    BY <1>1, <1>4, <1>9 DEF Loses
  <2> QED BY ONLY <1>1, <2>1, Fewer
<1>6. \A x : BlockAt(x)' = Has(disk', Nodes', x) /\ BlockAt(x) = Has(disk, Nodes, x)
  BY DEF BlockAt
<1>7. Owned'
  BY <1>5 DEF Owned
<1>8. \A x \in Owns' : x[1] # i => x \in Owns /\ BlockAt(x)' = BlockAt(x)
  <2> SUFFICES ASSUME NEW x \in Owns', x[1] # i PROVE x \in Owns /\ BlockAt(x)' = BlockAt(x)
    OBVIOUS
  <2>1. x \in Owns /\ Nodes'[x[1]] = Nodes[x[1]]
    BY <1>3
  <2>2. CASE Nodes'[x[1]].ptr[x[2][1]] = 0
    <3>1. Has(disk, Nodes, x) = 0
      BY <1>1, <2>1, <2>2, RootZero
    <3> QED BY <1>5, <1>6, <2>1, <2>2, <3>1
  <2> QED BY <1>5, <1>6, <2>1, <2>2
<1> QED BY <1>5, <1>6, <1>7, <1>8

\* The file of the step gets block v at position z, or loses the block there.
LEMMA PutAt ==
  ASSUME InOrder, NEW W, Tidy(W), NEW t \in Tasks, NEW i, Only(t, i), NEW z \in Owns, z[1] = i,
         \A p \in Tree : Live(i, p)' <=> Live(i, p),
         NEW v, v = 0 \/ (Fresh(t, v) /\ v \in bmap'),
         Far(z) > 0 => BlockAt(Above(z)) # 0,
         IsTable(z[2]) => BlockAt(z) = 0 /\ v # 0 /\ \A k \in Entry : disk'[v][k] = 0,
         \A s \in Slots : Nodes'[i].ptr[s] = IF Far(z) = 0 /\ s = z[2][1] THEN v ELSE Nodes[i].ptr[s],
         \A x \in Owns : IsTable(x[2]) /\ BlockAt(x) # 0 =>
            \A k \in Entry : disk'[BlockAt(x)][k]
              = IF Far(z) > 0 /\ x = Above(z) /\ k = Tip(z[2]) THEN v ELSE disk[BlockAt(x)][k],
         \A x \in Owns : x # z /\ BlockAt(x) # 0 => BlockAt(x) \in bmap'
  PROVE  /\ Owned' /\ Owns' = Owns
         /\ BlockAt(z)' = v /\ \A x \in Owns : x # z => BlockAt(x)' = BlockAt(x)
<1>1. Own(disk, Nodes, Owns, bmap) /\ Apart /\ Rooted(Owns) /\ bmap \in SUBSET Blocks
  BY OwnsRooted DEF Tidy, Owned, InOrder, Marks
<1>2. Owns' = Owns
  <2>1. ASSUME NEW x \in Inodes \X Tree PROVE Live(x[1], x[2])' <=> Live(x[1], x[2])
    BY <1>1, OtherFiles
  <2> QED BY <2>1 DEF Owns
<1>3. v \in Blocks /\ (v # 0 => v \notin TakenBlocks /\ v \in bmap' /\ \A x \in Owns : BlockAt(x) # v)
  BY FreshIs, Volume
<1>4. \A x \in Owns : Far(x) = 0 =>
         Nodes'[x[1]].ptr[x[2][1]] = IF x = z THEN v ELSE Nodes[x[1]].ptr[x[2][1]]
  <2> SUFFICES ASSUME NEW x \in Owns, Far(x) = 0
               PROVE  Nodes'[x[1]].ptr[x[2][1]] = IF x = z THEN v ELSE Nodes[x[1]].ptr[x[2][1]]
    OBVIOUS
  <2>1. x = <<x[1], x[2]>> /\ z = <<z[1], z[2]>> /\ x[1] \in Inodes /\ x[2][1] \in Slots /\ x[2] \in Tree /\ z[2] \in Tree
    BY <1>1, PositionsAre
  <2>2. CASE x[1] # i
    BY <1>1, <2>1, <2>2, OtherFiles
  <2>3. ASSUME Far(z) = 0, x[1] = i, x[2][1] = z[2][1] PROVE x = z
    <3>1. PICK a, b : a = x[2][2] /\ b = z[2][2]
      OBVIOUS
    <3>2. a \in Seq(Entry) /\ b \in Seq(Entry) /\ x[2] = <<x[2][1], a>> /\ z[2] = <<z[2][1], b>>
      BY <2>1, <3>1, TreeIs
    <3>3. Len(a) = 0 /\ Len(b) = 0
      BY <2>3, <3>1 DEF Far
    <3>4. a = b
      BY <3>2, <3>3, EmptySeq
    <3> QED BY <2>1, <2>3, <3>2, <3>4
  <2>4. CASE x[1] = i
    <3>1. x = z <=> (Far(z) = 0 /\ x[2][1] = z[2][1])
      BY <2>3, <2>4
    <3> QED BY <2>1, <2>4, <3>1
  <2> QED BY <2>2, <2>4
<1>5. \A x \in Owns : Has(disk, Nodes, x) = BlockAt(x) /\ Has(disk', Nodes', x) = BlockAt(x)'
  BY DEF BlockAt
<1>6. Far(z) > 0 => Has(disk, Nodes, Above(z)) # 0
  BY DEF BlockAt
<1>7. \A x \in Owns : IsTable(x[2]) /\ Has(disk, Nodes, x) # 0 =>
            \A k \in Entry : disk'[Has(disk, Nodes, x)][k]
              = IF Far(z) > 0 /\ x = Above(z) /\ k = Tip(z[2]) THEN v ELSE disk[Has(disk, Nodes, x)][k]
  BY DEF BlockAt
<1>8. /\ v # 0 => v \notin TakenBlocks /\ \A x \in Owns : Has(disk, Nodes, x) # v
      /\ v # 0 => v \in bmap'
      /\ IsTable(z[2]) => Has(disk, Nodes, z) = 0 /\ v # 0 /\ \A k \in Entry : disk'[v][k] = 0
      /\ \A x \in Owns : x # z /\ Has(disk, Nodes, x) # 0 => Has(disk, Nodes, x) \in bmap'
  BY <1>3, <1>5
<1>9. /\ Own(disk', Nodes', Owns, bmap')
      /\ Has(disk', Nodes', z) = v /\ \A x \in Owns : x # z => Has(disk', Nodes', x) = Has(disk, Nodes, x)
  <2>1. Gains(disk, Nodes, Owns, z, v, disk', Nodes', bmap')
    BY ONLY <1>3, <1>4, <1>6, <1>7, <1>8, z \in Owns DEF Gains
  <2> QED BY ONLY <1>1, <2>1, Put
<1> QED BY <1>2, <1>5, <1>9 DEF Owned

-----------------------------------------------------------------------------
(* What a step leaves as it is.                                            *)

\* A block of the file, or the one the task has in hand.
Gone(t, i, b) == b # 0 /\ ((\E x \in Owns : x[1] = i /\ BlockAt(x) = b) \/ (Placing(t) /\ block[t] = b))

\* The words that change become data, or in block T the number of block v.
Quiet(T, v) ==
  \A b \in Blocks : \A k \in Entry :
    disk'[b][k] = disk[b][k] \/ disk'[b][k] <= 0 \/ (b = T /\ disk'[b][k] = v)

Changes(t, i, W, T, v) ==
  /\ Only(t, i) /\ Quiet(T, v)
  /\ \A b \in bmap \ bmap' : Gone(t, i, b) /\ Blank(disk', b)
  /\ T \in Blocks => T \in bmap' /\ Fresh(t, v) /\ v \in bmap' /\ (T \in W \cup {0} \/ \E x \in Owns : BlockAt(x) = T)
  /\ T \in W \cup {0} => Blank(disk', v)
  /\ \A x \in Owns' : x[1] # i => x \in Owns /\ BlockAt(x)' = BlockAt(x)
  /\ \A x \in Owns' : \/ BlockAt(x)' = 0
                      \/ x \in Owns /\ BlockAt(x)' = BlockAt(x)
                      \/ Fresh(t, BlockAt(x)') /\ T \notin W \cup {0}
  /\ Placing(t)' => /\ Fresh(t, block'[t]) /\ block'[t] \in bmap' /\ Blank(disk', block'[t])
                    /\ T \in W \cup {0} => block'[t] # v
                    /\ \A x \in Owns' : BlockAt(x)' # block'[t]

\* What hangs on block 0 afterwards.
Spread(W, T, v) == IF T \in W \cup {0} THEN W \cup {v} ELSE W

\* A block of the file, or in the task's hand, is nobody else's.
LEMMA GoneIs ==
  ASSUME InOrder, NEW W, Tidy(W), NEW t \in Tasks, NEW i, NEW b, Gone(t, i, b)
  PROVE  /\ b \notin TakenBlocks /\ b \notin W
         /\ \A u \in Tasks \ {t} : Placing(u) => block[u] # b
         /\ \A x \in Owns : x[1] # i => BlockAt(x) # b
<1>1. CASE \E x \in Owns : x[1] = i /\ BlockAt(x) = b
  <2>1. PICK x \in Owns : x[1] = i /\ BlockAt(x) = b
    BY <1>1
  <2>2. b # 0
    BY DEF Gone
  <2>3. \A u \in Tasks : Placing(u) => block[u] # b
    BY <2>1 DEF Tidy, Spare
  <2>4. b \notin TakenBlocks /\ \A y \in Owns : BlockAt(y) = b => y = x
    BY <2>1, <2>2 DEF Tidy, Owned, Own, BlockAt
  <2> QED BY <2>1, <2>3, <2>4 DEF Tidy, Astray
<1>2. CASE Placing(t) /\ block[t] = b
  BY <1>2 DEF Tidy, Spare
<1> QED BY <1>1, <1>2 DEF Gone

\* Another task has a file of its own, or none.
LEMMA OtherTask ==
  ASSUME Apart, NEW t \in Tasks, NEW i, Only(t, i), NEW u \in Tasks \ {t}
  PROVE  ino[u] # i /\ ino'[u] # i /\ ino'[u] = ino[u]
BY Volume DEF Apart, Only, Others

\* A task that works on a file has it, and so all its positions.
LEMMA Working ==
  ASSUME InOrder, Marked, Apart, NEW t \in Tasks,
         op[t] \in {"write", "data", "root", "table", "grow", "shrink"}
  PROVE  /\ ino[t] \in Inodes /\ ino[t] \in Living
         /\ \A p \in Tree : <<ino[t], p>> \in Owns
<1>1. Going(t) /\ LocalTypes
  BY DEF InOrder, Typed
<1>2. ino[t] \in Inodes
  BY <1>1 DEF Going, Fits
<1>3. call[t] \in {"create", "write", "truncate"} /\ op[t] # "create"
  BY <1>1 DEF Going, Fits
<1>4. ino[t] \in Living
  BY <1>3, LivingIs DEF Marked
<1>5. \A p : ~Parted(ino[t], p)
  BY <1>2, Volume DEF Parted, Apart
<1> QED BY <1>2, <1>4, <1>5 DEF Owns, Live

\* A block that names no blocks names none after the step.
LEMMA BlankStays ==
  ASSUME Typed, Typed', NEW T, NEW v, Quiet(T, v), NEW b \in Blocks, Blank(disk, b), b # T
  PROVE  Blank(disk', b)
BY DEF Blank, Quiet

\* The blocks that are not in use name no blocks after the step.
LEMMA CleanNext ==
  ASSUME InOrder, InOrder', NEW W, Tidy(W), NEW t \in Tasks, NEW i, NEW T, NEW v, Changes(t, i, W, T, v)
  PROVE  Clean' /\ TakenBlocks \subseteq bmap'
<1>1. ASSUME NEW b \in Blocks, b \notin bmap' PROVE Blank(disk', b)
  <2>1. CASE b \in bmap
    BY <1>1, <2>1 DEF Changes
  <2>2. CASE b \notin bmap
    <3>1. Blank(disk, b) /\ b # T
      BY <1>1, <2>2 DEF Changes, Tidy, Clean
    <3> QED BY <3>1, BlankStays DEF InOrder, Changes
  <2> QED BY <2>1, <2>2
<1>2. ASSUME NEW b \in TakenBlocks PROVE b \in bmap'
  <2>1. b \in bmap
    BY DEF Tidy, Marked
  <2> QED BY <2>1, GoneIs DEF Changes
<1> QED BY <1>1, <1>2 DEF Clean

\* What hangs on block 0 hangs there after the step, and a new block perhaps.
LEMMA AstrayNext ==
  ASSUME InOrder, InOrder', NEW W, Tidy(W), NEW t \in Tasks, NEW i, NEW T, NEW v, Changes(t, i, W, T, v)
  PROVE  Astray(Spread(W, T, v))'
<1> DEFINE V == Spread(W, T, v)
<1>0. /\ T \in W \cup {0} => V = W \cup {v}
      /\ T \notin W \cup {0} => V = W
  BY DEF Spread
<1>1. W \subseteq Blocks /\ 0 \in Blocks /\ 0 \in TakenBlocks /\ 0 \notin W
  BY Volume DEF Tidy, Astray, InOrder, Marks
<1>2. T \in W \cup {0} => Fresh(t, v) /\ v \in bmap' /\ Blank(disk', v)
  BY <1>1 DEF Changes
<1>3. Fresh(t, v) => v \in Blocks \ {0} /\ v \notin TakenBlocks /\ v \notin W /\ \A x \in Owns : BlockAt(x) # v
  BY FreshIs
<1> HIDE DEF V
<1>4. V \subseteq bmap' \ TakenBlocks
  <2>1. W \subseteq bmap'
    <3> SUFFICES ASSUME NEW w \in W, w \notin bmap' PROVE FALSE
      OBVIOUS
    <3>1. w \in bmap
      BY DEF Tidy, Astray
    <3> QED BY <3>1, GoneIs DEF Changes
  <2> QED BY <1>0, <1>2, <1>3, <2>1 DEF Tidy, Astray
<1>5. ASSUME NEW x \in Owns' PROVE BlockAt(x)' \notin V
  <2>1. CASE BlockAt(x)' = 0
    BY <1>1, <1>4, <2>1
  <2>2. CASE x \in Owns /\ BlockAt(x)' = BlockAt(x)
    BY <1>0, <1>2, <1>3, <2>2 DEF Tidy, Astray
  <2>3. CASE Fresh(t, BlockAt(x)') /\ T \notin W \cup {0}
    BY <1>0, <2>3, FreshIs
  <2> QED BY <2>1, <2>2, <2>3 DEF Changes
<1>6. Quiet(T, v) /\ \A b \in Blocks, k \in Entry : disk[b][k] \in Int /\ disk'[b][k] \in Int
  <2>1. \A b \in Blocks, k \in Entry : disk[b][k] \in Word /\ disk'[b][k] \in Word
    BY DEF InOrder, Typed, StoreTypes
  <2> QED BY <2>1, WordIs DEF Changes
<1>7. ASSUME NEW w \in V \cup {0}, NEW k \in Entry, disk'[w][k] > 0 PROVE disk'[w][k] \in V
  <2>1. CASE w \in W \cup {0}
    <3>1. w \in Blocks
      BY <1>1, <2>1
    <3>2. disk'[w][k] = disk[w][k] \/ disk'[w][k] <= 0 \/ (w = T /\ disk'[w][k] = v)
      BY <1>6, <3>1 DEF Quiet
    <3>3. disk[w][k] > 0 => disk[w][k] \in W
      BY <2>1 DEF Tidy, Astray
    <3> QED BY <1>0, <1>6, <1>7, <2>1, <3>1, <3>2, <3>3
  <2>2. CASE w \notin W \cup {0}
    <3>1. w = v /\ T \in W \cup {0}
      BY <1>0, <2>2
    <3>2. disk'[w][k] <= 0 /\ w \in Blocks
      BY <1>2, <1>3, <3>1 DEF Blank
    <3> QED BY <1>6, <1>7, <3>2
  <2> QED BY <2>1, <2>2
<1> QED BY <1>4, <1>5, <1>7 DEF Astray, V

\* The blocks in hand stay in hand.
LEMMA SpareNext ==
  ASSUME InOrder, InOrder', NEW W, Tidy(W), NEW t \in Tasks, NEW i, NEW T, NEW v, Changes(t, i, W, T, v)
  PROVE  \A u \in Tasks : Spare(u, Spread(W, T, v))'
<1> DEFINE V == Spread(W, T, v)
<1>0. /\ T \in W \cup {0} => V = W \cup {v}
      /\ T \notin W \cup {0} => V = W
  BY DEF Spread
<1>1. W \subseteq Blocks /\ 0 \in Blocks /\ 0 \in TakenBlocks /\ 0 \notin W /\ Only(t, i) /\ Others(t)
  BY Volume DEF Tidy, Astray, InOrder, Marks, Changes, Only
<1>2. T \in W \cup {0} => Fresh(t, v)
  BY <1>1 DEF Changes
<1>3. \A w : Fresh(t, w) => /\ w \in Blocks \ {0} /\ w \notin TakenBlocks /\ w \notin W
                            /\ \A u \in Tasks \ {t} : Placing(u) => block[u] # w
  BY FreshIs
<1> HIDE DEF V
<1>4. ASSUME NEW u \in Tasks \ {t}, Placing(u)'
      PROVE  /\ Placing(u) /\ block'[u] = block[u] /\ block[u] \in bmap' \ TakenBlocks /\ block[u] \notin V
             /\ Blank(disk', block[u]) /\ \A x \in Owns' : BlockAt(x)' # block[u]
  <2>1. Placing(u) /\ block'[u] = block[u]
    BY <1>1, <1>4 DEF Placing, Others
  <2>2. block[u] \in bmap \ TakenBlocks /\ block[u] \notin W /\ Blank(disk, block[u]) /\ block[u] # 0
        /\ \A x \in Owns : BlockAt(x) # block[u]
    BY <1>1, <2>1 DEF Tidy, Spare
  <2>3. block[u] \in bmap'
    BY <2>1, <2>2, GoneIs DEF Changes
  <2>4. block[u] \notin V
    BY <1>0, <1>2, <1>3, <2>1, <2>2
  <2>5. block[u] # T
    BY <1>1, <2>2, <2>3 DEF Changes, InOrder, Marks
  <2>6. Blank(disk', block[u])
    <3>1. block[u] \in Blocks
      BY <2>2 DEF InOrder, Marks
    <3> QED BY <2>2, <2>5, <3>1, BlankStays DEF InOrder, Changes
  <2>7. ASSUME NEW x \in Owns' PROVE BlockAt(x)' # block[u]
    BY <1>3, <2>1, <2>2 DEF Changes
  <2> QED BY <2>1, <2>2, <2>3, <2>4, <2>6, <2>7
<1>5. ASSUME Placing(t)'
      PROVE  /\ block'[t] \in bmap' \ TakenBlocks /\ block'[t] \notin V
             /\ Blank(disk', block'[t]) /\ \A x \in Owns' : BlockAt(x)' # block'[t]
             /\ \A u \in Tasks \ {t} : Placing(u)' => block'[u] # block'[t]
  <2>1. /\ Fresh(t, block'[t]) /\ block'[t] \in bmap' /\ Blank(disk', block'[t])
        /\ T \in W \cup {0} => block'[t] # v
        /\ \A x \in Owns' : BlockAt(x)' # block'[t]
    BY <1>5 DEF Changes
  <2>2. block'[t] \notin V /\ block'[t] \notin TakenBlocks
    BY <1>0, <1>3, <2>1
  <2> QED BY <1>3, <1>4, <2>1, <2>2
<1>6. ASSUME NEW u \in Tasks \ {t}, NEW w \in Tasks \ {t}, Placing(u)', Placing(w)', block'[u] = block'[w]
      PROVE  u = w
  BY <1>4, <1>6 DEF Tidy, Spare
<1>7. ASSUME NEW u \in Tasks, Placing(u)'
      PROVE  /\ block'[u] \in bmap' \ TakenBlocks /\ block'[u] \notin V
             /\ Blank(disk', block'[u]) /\ \A x \in Owns' : BlockAt(x)' # block'[u]
             /\ \A w \in Tasks : Placing(w)' /\ block'[w] = block'[u] => w = u
  BY <1>4, <1>5, <1>6, <1>7
<1> QED BY <1>7 DEF Spare, Placing, V

\* The other tasks are where they were.
LEMMA OthersNext ==
  ASSUME InOrder, InOrder', NEW W, Tidy(W), NEW t \in Tasks, NEW i, NEW T, NEW v, Changes(t, i, W, T, v),
         NEW u \in Tasks \ {t}
  PROVE  Behind(u)' /\ Stands(u, Spread(W, T, v))' /\ Writes(u, Spread(W, T, v))' /\ Lacks(u)'
<1>1. Only(t, i) /\ Others(t) /\ Apart /\ Marked /\ W \subseteq Spread(W, T, v)
  BY DEF Changes, Only, Tidy, Spread
<1>2. /\ op'[u] = op[u] /\ call'[u] = call[u] /\ ino'[u] = ino[u] /\ copy'[u] = copy[u]
      /\ pos'[u] = pos[u] /\ to'[u] = to[u] /\ block'[u] = block[u] /\ table'[u] = table[u]
      /\ depth'[u] = depth[u] /\ Here(u)' = Here(u)
  BY <1>1 DEF Others, Here
<1>3. ino[u] # i
  BY <1>1, OtherTask
<1>4. ASSUME op[u] \in {"write", "data", "root", "table", "grow", "shrink"}
      PROVE  /\ ino[u] \in Inodes /\ inodes'[ino[u]] = inodes[ino[u]]
             /\ \A p \in Tree : BlockAt(<<ino[u], p>>)' = BlockAt(<<ino[u], p>>)
  <2>1. ino[u] \in Inodes /\ \A p \in Tree : <<ino[u], p>> \in Owns
    BY <1>1, <1>4, Working
  <2>2. /\ inodes'[ino[u]] = inodes[ino[u]]
        /\ \A p : Live(ino[u], p)' <=> Live(ino[u], p)
    BY <1>1, <1>3, <2>1, OtherFiles
  <2>3. ASSUME NEW p \in Tree PROVE <<ino[u], p>> \in Owns' /\ BlockAt(<<ino[u], p>>)' = BlockAt(<<ino[u], p>>)
    <3>1. PICK x : x = <<ino[u], p>>
      OBVIOUS
    <3>2. x \in Inodes \X Tree /\ x[1] = ino[u] /\ x[2] = p /\ x \in Owns
      BY ONLY <2>1, <3>1, p \in Tree
    <3>3. Live(ino[u], p)'
      BY <2>2, <3>2 DEF Owns
    <3>4. x \in Owns'
      BY ONLY <1>2, <3>2, <3>3 DEF Owns
    <3>5. BlockAt(x)' = BlockAt(x)
      BY <1>3, <3>2, <3>4 DEF Changes
    <3>6. BlockAt(<<ino[u], p>>)' = BlockAt(x)' /\ BlockAt(<<ino[u], p>>) = BlockAt(x)
      BY ONLY <1>2, <3>1
    <3> QED BY ONLY <3>1, <3>4, <3>5, <3>6
  <2> QED BY <2>1, <2>2, <2>3
<1>5. Behind(u)'
  BY <1>2, <1>4 DEF Behind, Tidy
<1>6. op[u] \in {"data", "root", "table"} => Here(u) \in Logicals
  BY HereIs DEF InOrder
<1>7. ASSUME op[u] = "table" PROVE Stem(Here(u), depth[u]) \in Tree
  <2>1. depth[u] < Level(Here(u)) /\ depth[u] \in 0..2 /\ Here(u) \in Logicals
    BY <1>6, <1>7 DEF InOrder, Going, Fits, Here, Typed, LocalTypes
  <2>2. Level(Here(u)) \in 0..3
    BY <2>1, Paths
  <2>3. depth[u] \in 0..Level(Here(u))
    BY <2>1, <2>2
  <2> QED BY <2>1, <2>3, StemIs
<1>8. Stands(u, Spread(W, T, v))'
  BY <1>1, <1>2, <1>4, <1>7 DEF Stands, Tidy
<1>9. op[u] \in {"data", "root", "table"} => Place(Here(u)) \in Tree
  BY <1>6, PlaceIs
<1>10. Writes(u, Spread(W, T, v))'
  BY <1>1, <1>2, <1>4, <1>9 DEF Writes, Tidy
<1>11. Lacks(u)'
  BY <1>2, <1>4, <1>9 DEF Lacks, Tidy, Placing
<1> QED BY <1>5, <1>8, <1>10, <1>11

-----------------------------------------------------------------------------
(* The file of the step.                                                   *)

\* What lies behind the end of the file is lost, and what it had has an owner.
Settled(t, i) ==
  /\ lost \subseteq lost'
  /\ \A x \in Owns' : \A l \in Logicals :
       x[1] = i /\ x[2] = Place(l) /\ EndsBy(i, l)' /\ BlockAt(x)' # 0 => l >= Direct /\ BlockAt(x)' \in lost'
  /\ \A b \in bmap' :
       b \notin bmap \/ Gone(t, i, b) =>
         b \in lost' \/ (\E x \in Owns' : BlockAt(x)' = b) \/ (Placing(t)' /\ block'[t] = b)

\* Where the data of another file ends.
LEMMA EndsByElse ==
  ASSUME Apart, NEW t \in Tasks, NEW i, Only(t, i), NEW j \in Inodes \ {i}, NEW l
  PROVE  EndsBy(j, l)' <=> EndsBy(j, l)
<1>1. /\ inodes'[j] = inodes[j]
      /\ \A u \in Tasks : (ino'[u] = j <=> ino[u] = j) /\ (ino[u] = j => u # t)
  BY OtherFiles
<1>2. ASSUME NEW u \in Tasks \ {t} PROVE Edge(u)' = Edge(u)
  <2>1. /\ op'[u] = op[u] /\ call'[u] = call[u] /\ copy'[u] = copy[u] /\ pos'[u] = pos[u]
        /\ to'[u] = to[u] /\ (u \in dirty' <=> u \in dirty)
    BY DEF Only, Others
  <2> QED BY ONLY <2>1 DEF Edge, Here
<1> QED BY <1>1, <1>2 DEF EndsBy

\* Where the data of the file of a task ends, and of a file without a task.
LEMMA EndsByOwn ==
  ASSUME NEW t \in Tasks, NEW i \in Inodes, NEW l
  PROVE  /\ Apart /\ ino[t] = i => (EndsBy(i, l) <=> Edge(t) <= l)
         /\ Apart' /\ ino'[t] = i => (EndsBy(i, l)' <=> Edge(t)' <= l)
         /\ (\A u \in Tasks : ino[u] # i) => (EndsBy(i, l) <=> Count(inodes[i].size) <= l)
         /\ (\A u \in Tasks : ino'[u] # i) => (EndsBy(i, l)' <=> Count(inodes'[i].size) <= l)
<1>1. i # 0
  BY Volume
<1>2. Apart /\ ino[t] = i => \A u \in Tasks : ino[u] = i => u = t
  BY <1>1 DEF Apart
<1>3. Apart' /\ ino'[t] = i => \A u \in Tasks : ino'[u] = i => u = t
  BY <1>1 DEF Apart
<1> QED BY <1>2, <1>3 DEF EndsBy

\* Behind the ends of files lies nothing but what is lost.
LEMMA BeyondNext ==
  ASSUME InOrder, NEW W, Tidy(W), NEW t \in Tasks, NEW i, NEW T, NEW v, Changes(t, i, W, T, v), Settled(t, i)
  PROVE  Beyond'
<1>1. Apart /\ Only(t, i)
  BY DEF Tidy, Changes
<1>2. ASSUME NEW x \in Owns', NEW l \in Logicals, x[2] = Place(l), EndsBy(x[1], l)', BlockAt(x)' # 0, x[1] # i
      PROVE  l >= Direct /\ BlockAt(x)' \in lost'
  <2>1. x \in Owns /\ BlockAt(x)' = BlockAt(x)
    BY <1>2 DEF Changes
  <2>2. x[1] \in Inodes \ {i}
    BY <1>2, <2>1 DEF Owns
  <2>3. EndsBy(x[1], l)
    BY <1>1, <1>2, <2>2, EndsByElse
  <2>4. l >= Direct /\ BlockAt(x) \in lost
    BY <1>2, <2>1, <2>3 DEF Tidy, Beyond
  <2> QED BY <2>1, <2>4 DEF Settled
<1>3. ASSUME NEW x \in Owns', NEW l \in Logicals, x[2] = Place(l), EndsBy(x[1], l)', BlockAt(x)' # 0, x[1] = i
      PROVE  l >= Direct /\ BlockAt(x)' \in lost'
  BY <1>3 DEF Settled
<1> QED BY <1>2, <1>3 DEF Beyond

\* Every block in use has an owner after the step.
LEMMA CoveredNext ==
  ASSUME InOrder, NEW W, Tidy(W), NEW t \in Tasks, NEW i, NEW T, NEW v, Changes(t, i, W, T, v), Settled(t, i)
  PROVE  Covered'
<1>1. Apart /\ Only(t, i) /\ Others(t)
  BY DEF Tidy, Changes, Only
<1>2. ASSUME NEW b \in bmap', b \notin TakenBlocks \cup lost', ~\E x \in Owns' : BlockAt(x)' = b,
             ~(Placing(t)' /\ block'[t] = b)
      PROVE  \E u \in Tasks : Placing(u)' /\ block'[u] = b
  <2>1. b \in bmap /\ ~Gone(t, i, b) /\ b \notin lost /\ b # 0
    BY <1>2, Volume DEF Settled
  <2>2. ASSUME NEW x \in Owns, BlockAt(x) = b PROVE FALSE
    <3>1. x[1] # i /\ x[1] \in Inodes \ {i} /\ x \in Inodes \X Tree
      BY <2>1, <2>2 DEF Gone, Owns
    <3>2. Live(x[1], x[2])' <=> Live(x[1], x[2])
      BY <1>1, <3>1, OtherFiles
    <3>3. x \in Owns'
      BY <3>1, <3>2 DEF Owns
    <3> QED BY <1>2, <2>2, <3>1, <3>3 DEF Changes
  <2>3. \E u \in Tasks : Placing(u) /\ block[u] = b
    BY <1>2, <2>1, <2>2 DEF Tidy, Covered
  <2>4. PICK u \in Tasks : Placing(u) /\ block[u] = b
    BY <2>3
  <2>5. u # t
    BY <2>1, <2>4 DEF Gone
  <2> QED BY <1>1, <2>4, <2>5 DEF Others, Placing
<1> QED BY <1>2 DEF Covered, Placing

\* A step keeps the invariant if it does right by its own task and file.
LEMMA TidyNext ==
  ASSUME InOrder, InOrder', NEW W, Tidy(W), NEW t \in Tasks, NEW i, NEW T, NEW v, Changes(t, i, W, T, v),
         Owned', Marked', Settled(t, i),
         Behind(t)', Stands(t, Spread(W, T, v))', Writes(t, Spread(W, T, v))', Lacks(t)'
  PROVE  Tidy(Spread(W, T, v))'
<1>1. Clean' /\ Astray(Spread(W, T, v))' /\ \A u \in Tasks : Spare(u, Spread(W, T, v))'
  BY CleanNext, AstrayNext, SpareNext
<1>2. Beyond' /\ Covered' /\ Apart'
  BY BeyondNext, CoveredNext DEF Changes, Only
<1>3. \A u \in Tasks \ {t} : Behind(u)' /\ Stands(u, Spread(W, T, v))' /\ Writes(u, Spread(W, T, v))' /\ Lacks(u)'
  BY OthersNext
<1>4. \A u \in Tasks : Behind(u)' /\ Stands(u, Spread(W, T, v))' /\ Writes(u, Spread(W, T, v))' /\ Lacks(u)'
  BY <1>3
<1> QED BY <1>1, <1>2, <1>4 DEF Tidy

-----------------------------------------------------------------------------
(* Calls start, go on and end.                                             *)

\* A task keeps its file, leaves it, or takes one that nobody has.
LEMMA OnlyIs ==
  ASSUME Apart, NEW t \in Tasks, Others(t), NEW i \in Inodes, ino[t] \in {0, i}, ino'[t] \in {0, i},
         i \in {ino[t], ino'[t]}, ino[t] = i \/ \A u \in Tasks : ino[u] # i,
         \A j \in Inodes \ {i} : inodes'[j] = inodes[j] /\ (j \in files' <=> j \in files)
  PROVE  Only(t, i)
<1>1. i # 0
  BY Volume
<1>2. \A u \in Tasks \ {t} : ino'[u] = ino[u] /\ ino[u] # i
  BY <1>1 DEF Apart, Others
<1>3. Apart'
  BY <1>1, <1>2 DEF Apart
<1> QED BY <1>3 DEF Only

\* A task that goes on keeps its inode.
LEMMA MarkedKept ==
  ASSUME Marked, NEW t \in Tasks, Others(t), TakenBlocks \subseteq bmap', imap' = imap, files' = files,
         ino'[t] = ino[t], call'[t] = call[t], op[t] # "user"
  PROVE  Marked'
<1>2. \A u \in Tasks : ino'[u] = ino[u] /\ call'[u] = call[u] /\ (op'[u] # "user" => op[u] # "user")
  BY DEF Others
<1> QED BY <1>2 DEF Marked

\* A task in a call is in one with a name.
LEMMA CallIs ==
  ASSUME Typed, NEW t \in Tasks, Going(t)
  PROVE  /\ op[t] # "user" => call[t] \in {"create", "write", "truncate", "unlink"} /\ ino[t] \in Inodes
         /\ op[t] = "user" => ino[t] = 0 /\ call[t] = "none"
         /\ op[t] = "create" => call[t] = "create"
         /\ op[t] \in {"write", "data"} => call[t] = "write"
         /\ op[t] \in {"root", "table"} => call[t] \in {"create", "write", "truncate"}
         /\ op[t] = "grow" => call[t] \in {"create", "truncate"}
         /\ op[t] \in {"shrink", "clear"} => call[t] = "truncate"
         /\ op[t] = "unlink" <=> call[t] = "unlink"
<1>1. op[t] \in Ops
  BY DEF Typed, LocalTypes
<1> QED BY <1>1 DEF Ops, Going, Fits

\* A task that ends its call gives its inode a name, leaves it one, or frees it.
LEMMA MarkedEnds ==
  ASSUME InOrder, Marked, Apart, NEW t \in Tasks, Others(t), TakenBlocks \subseteq bmap', NEW i \in Inodes, ino[t] = i,
         op'[t] = "user", ino'[t] = 0, call'[t] = "none",
         files' = IF call[t] = "create" THEN files \cup {i} ELSE files,
         imap' = imap \/ (call[t] = "unlink" /\ imap' = imap \ {i}),
         call[t] = "unlink" /\ imap' = imap => i \in TakenInodes
  PROVE  Marked'
<1>1. i # 0 /\ Typed /\ Going(t)
  BY Volume DEF InOrder
<1>2. op[t] # "user" /\ call[t] \in {"create", "write", "truncate", "unlink"}
  BY <1>1, CallIs
<1>3. \A u \in Tasks \ {t} : /\ ino'[u] = ino[u] /\ ino[u] # i /\ call'[u] = call[u] /\ op'[u] = op[u]
  BY <1>1 DEF Apart, Others
<1>4. i \in imap /\ (call[t] \in {"write", "truncate"} => i \in files) /\ (call[t] = "unlink" => i \notin files)
  BY <1>2 DEF Marked
<1>5. files' \subseteq imap'
  BY <1>2, <1>4 DEF Marked
<1>6. ASSUME NEW j \in imap', j \notin TakenInodes, j \notin files' PROVE \E u \in Tasks : ino'[u] = j
  <2>1. j # i
    BY <1>2, <1>4, <1>6
  <2>2. j \in imap /\ j \notin files
    BY <1>6
  <2>3. PICK u \in Tasks : ino[u] = j
    BY <1>6, <2>2 DEF Marked
  <2> QED BY <1>3, <2>1, <2>3
<1>7. ASSUME NEW u \in Tasks
      PROVE  /\ op'[u] # "user" => ino'[u] \in imap'
             /\ call'[u] \in {"write", "truncate"} => ino'[u] \in files'
             /\ call'[u] \in {"create", "unlink"} => ino'[u] \notin files'
  <2>1. CASE u = t
    BY <2>1
  <2>2. CASE u # t
    <3>1. /\ op[u] # "user" => ino[u] \in imap
          /\ call[u] \in {"write", "truncate"} => ino[u] \in files
          /\ call[u] \in {"create", "unlink"} => ino[u] \notin files
      BY DEF Marked
    <3> QED BY <1>3, <2>2, <3>1
  <2> QED BY <2>1, <2>2
<1> QED BY <1>5, <1>6, <1>7 DEF Marked

\* A task that starts a call takes the inode of a file, or a free one.
LEMMA MarkedStarts ==
  ASSUME InOrder, Marked, NEW t \in Tasks, Others(t), TakenBlocks \subseteq bmap', NEW i \in Inodes, ino[t] = 0,
         ino'[t] = i, \A u \in Tasks : ino[u] # i,
         \/ call'[t] \in {"write", "truncate"} /\ i \in files /\ files' = files /\ imap' = imap
         \/ call'[t] = "unlink" /\ i \in files /\ files' = files \ {i} /\ imap' = imap
         \/ call'[t] = "create" /\ i \notin imap /\ files' = files /\ imap' = imap \cup {i}
  PROVE  Marked'
<1>1. i # 0
  BY Volume
<1>2. \A u \in Tasks \ {t} : ino'[u] = ino[u] /\ ino[u] # i /\ call'[u] = call[u] /\ op'[u] = op[u]
  BY DEF Others
<1>3. files \subseteq imap /\ (files' \subseteq imap') /\ i \in imap' /\ imap \subseteq imap'
  BY DEF Marked
<1>4. ASSUME NEW j \in imap', j \notin TakenInodes, j \notin files' PROVE \E u \in Tasks : ino'[u] = j
  <2>1. CASE j = i
    BY <2>1
  <2>2. CASE j # i
    <3>1. j \in imap /\ j \notin files
      BY <1>4, <2>2
    <3>2. PICK u \in Tasks : ino[u] = j
      BY <1>4, <3>1 DEF Marked
    <3>3. j # 0
      BY <3>1, Volume DEF InOrder, Marks
    <3> QED BY <1>2, <3>2, <3>3
  <2> QED BY <2>1, <2>2
<1>5. ASSUME NEW u \in Tasks \ {t}
      PROVE  /\ op'[u] # "user" => ino'[u] \in imap'
             /\ call'[u] \in {"write", "truncate"} => ino'[u] \in files'
             /\ call'[u] \in {"create", "unlink"} => ino'[u] \notin files'
  <2>1. /\ op[u] # "user" => ino[u] \in imap
        /\ call[u] \in {"write", "truncate"} => ino[u] \in files
        /\ call[u] \in {"create", "unlink"} => ino[u] \notin files
    BY DEF Marked
  <2> QED BY <1>2, <1>3, <2>1
<1>6. /\ op'[t] # "user" => ino'[t] \in imap'
      /\ call'[t] \in {"write", "truncate"} => ino'[t] \in files'
      /\ call'[t] \in {"create", "unlink"} => ino'[t] \notin files'
  BY <1>3
<1> QED BY <1>3, <1>4, <1>5, <1>6 DEF Marked

Busy == {"write", "data", "root", "table", "grow", "shrink"}

\* All the positions of a file are live before and after a step of a task that works on it.
LEMMA LiveOn ==
  ASSUME InOrder, InOrder', Marked, Marked', NEW t \in Tasks, NEW i,
         i \in files \/ (ino[t] = i /\ op[t] \in Busy),
         i \in files' \/ (ino'[t] = i /\ op'[t] \in Busy),
         \A u \in Tasks : (ino[u] = i => op[u] # "clear") /\ (ino'[u] = i => op'[u] # "clear")
  PROVE  \A p : Live(i, p) /\ Live(i, p)'
<1>1. Typed /\ Going(t) /\ Typed' /\ Going(t)'
  BY DEF InOrder
<1>2. i \in Living
  <2>1. op[t] \in Busy => op[t] # "create" /\ call[t] \in {"create", "write", "truncate"}
    BY <1>1, CallIs DEF Busy
  <2> QED BY <2>1, LivingIs DEF Marked
<1>3. i \in Living'
  <2>1. op'[t] \in Busy => op'[t] # "create" /\ call'[t] \in {"create", "write", "truncate"}
    BY <1>1 DEF Busy, Going, Fits
  <2> QED BY <2>1, LivingIs DEF Marked
<1> QED BY <1>2, <1>3 DEF Live, Parted

-----------------------------------------------------------------------------
(* Steps that leave the positions and blocks of the file as they are.      *)

Same(t, i) ==
  /\ Only(t, i)
  /\ \A x \in Owns : x[1] = i => Nodes'[i].ptr[x[2][1]] = Nodes[i].ptr[x[2][1]]
  /\ \A p \in Tree : Live(i, p)' <=> Live(i, p)
  /\ \A x \in Owns : BlockAt(x) # 0 =>
       BlockAt(x) \in bmap' /\ (IsTable(x[2]) => disk'[BlockAt(x)] = disk[BlockAt(x)])

\* Positions are live as before: so every file has the positions it had.
LEMMA OwnsSame ==
  ASSUME Apart, NEW t \in Tasks, NEW i, Only(t, i), \A p \in Tree : Live(i, p)' <=> Live(i, p)
  PROVE  Owns' = Owns
<1>1. ASSUME NEW x \in Inodes \X Tree PROVE Live(x[1], x[2])' <=> Live(x[1], x[2])
  BY OtherFiles
<1> QED BY <1>1 DEF Owns

\* Then every position has the block it had.
LEMMA SameFile ==
  ASSUME NEW W, Tidy(W), NEW t \in Tasks, NEW i, Same(t, i)
  PROVE  Owned' /\ Owns' = Owns /\ \A x \in Owns : BlockAt(x)' = BlockAt(x)
<1>1. Owns' = Owns
  BY OwnsSame DEF Same, Tidy
<1>2. \A x \in Owns : x[1] \in Inodes /\ x[2] \in Tree /\ x[2][1] \in Slots /\ Live(x[1], x[2])
  BY OwnsRooted, PositionsAre DEF Owns
<1>3. /\ \A p \in Tree : Live(i, p)' => \/ Nodes'[i].ptr[p[1]] = 0
                                        \/ Live(i, p) /\ Nodes'[i].ptr[p[1]] = Nodes[i].ptr[p[1]]
      /\ \A x \in Owns \cap Owns' : BlockAt(x) # 0 =>
            BlockAt(x) \in bmap' /\ (IsTable(x[2]) => disk'[BlockAt(x)] = disk[BlockAt(x)])
  <2>1. ASSUME NEW p \in Tree, Live(i, p) PROVE Nodes'[i].ptr[p[1]] = Nodes[i].ptr[p[1]]
    <3>1. PICK x : x = <<i, p>>
      OBVIOUS
    <3>2. x \in Inodes \X Tree /\ x[1] = i /\ x[2] = p
      BY ONLY <2>1, <3>1, Same(t, i), p \in Tree DEF Same, Only
    <3>3. x \in Owns
      BY ONLY <2>1, <3>2 DEF Owns
    <3> QED BY <3>2, <3>3 DEF Same
  <2> QED BY <2>1 DEF Same
<1>4. /\ Owned'
      /\ \A x \in Owns' : x[1] # i => x \in Owns /\ BlockAt(x)' = BlockAt(x)
      /\ \A x \in Owns' : x[1] = i =>
           /\ Nodes'[i].ptr[x[2][1]] = 0 => BlockAt(x)' = 0
           /\ Nodes'[i].ptr[x[2][1]] # 0 => x \in Owns /\ BlockAt(x)' = BlockAt(x)
  <2>1. Only(t, i)
    BY DEF Same
  <2> QED BY <1>3, <2>1, Shed
<1>5. ASSUME NEW x \in Owns, x[1] = i PROVE BlockAt(x)' = BlockAt(x)
  <2>1. Nodes'[i].ptr[x[2][1]] = Nodes[i].ptr[x[2][1]]
    BY <1>5 DEF Same
  <2>2. CASE Nodes[i].ptr[x[2][1]] = 0
    <3>1. Own(disk, Nodes, Owns, bmap) /\ Nodes[x[1]].ptr[x[2][1]] = 0
      BY <1>5, <2>2 DEF Tidy, Owned
    <3>2. BlockAt(x) = 0
      BY <3>1, RootZero DEF BlockAt
    <3> QED BY <1>1, <1>4, <1>5, <2>1, <2>2, <3>2
  <2>3. CASE Nodes[i].ptr[x[2][1]] # 0
    BY <1>1, <1>4, <1>5, <2>1, <2>3
  <2> QED BY <2>2, <2>3
<1> QED BY <1>1, <1>4, <1>5

\* At most the block in hand is taken or given back, and the data of the file ends no earlier.
Keeps(t, i) ==
  /\ Quiet(-1, 0) /\ lost' = lost
  /\ \A x \in Owns : \A l \in Logicals :
       x[1] = i /\ x[2] = Place(l) /\ BlockAt(x) # 0 /\ EndsBy(i, l)' => EndsBy(i, l)
  /\ Placing(t)' => Fresh(t, block'[t]) /\ block'[t] \in bmap' /\ Blank(disk', block'[t])
  /\ \A b \in bmap' \ bmap : Placing(t)' /\ block'[t] = b
  /\ \A b \in bmap \ bmap' : Placing(t) /\ block[t] = b /\ Blank(disk', b)
  /\ Placing(t) /\ block[t] \in bmap' => Placing(t)' /\ block'[t] = block[t]

\* Then the invariant holds after the step.
LEMMA SameStep ==
  ASSUME InOrder, InOrder', NEW W, Tidy(W), NEW t \in Tasks, NEW i, Same(t, i), Keeps(t, i), Marked',
         Behind(t)', Stands(t, W)', Writes(t, W)', Lacks(t)'
  PROVE  Tidy(W)'
<1> DEFINE T == -1
<1>1. Owned' /\ Owns' = Owns /\ \A x \in Owns : BlockAt(x)' = BlockAt(x)
  BY SameFile
<1>2. T \notin Blocks /\ T \notin W \cup {0} /\ Spread(W, T, 0) = W
  BY Volume DEF Spread, Tidy, Astray, InOrder, Marks
<1>3. Placing(t)' => \A x \in Owns : BlockAt(x) # block'[t]
  BY FreshIs DEF Keeps
<1>4. ASSUME NEW b \in bmap \ bmap' PROVE Gone(t, i, b) /\ Blank(disk', b)
  <2>1. Placing(t) /\ block[t] = b /\ Blank(disk', b)
    BY DEF Keeps
  <2>2. Fresh(t, b)
    BY <2>1 DEF Fresh, InOrder, Marks
  <2>3. b # 0
    BY <2>2, FreshIs
  <2> QED BY <2>1, <2>3 DEF Gone
<1>5. Changes(t, i, W, T, 0)
  <2>1. Only(t, i) /\ Quiet(T, 0)
    BY DEF Same, Keeps
  <2>2. Placing(t)' => /\ Fresh(t, block'[t]) /\ block'[t] \in bmap' /\ Blank(disk', block'[t])
                       /\ \A x \in Owns' : BlockAt(x)' # block'[t]
    BY <1>1, <1>3 DEF Keeps
  <2> HIDE DEF T
  <2> QED BY <1>1, <1>2, <1>4, <2>1, <2>2 DEF Changes
<1>6. Settled(t, i)
  <2>1. lost' = lost
    BY DEF Keeps
  <2>2. ASSUME NEW x \in Owns, NEW l \in Logicals, x[1] = i, x[2] = Place(l), EndsBy(i, l)', BlockAt(x) # 0
        PROVE  l >= Direct /\ BlockAt(x) \in lost
    <3>1. EndsBy(x[1], l)
      BY <2>2 DEF Keeps
    <3> QED BY <2>2, <3>1 DEF Tidy, Beyond
  <2>3. ASSUME NEW b \in bmap', b \notin bmap \/ Gone(t, i, b)
        PROVE  (\E x \in Owns' : BlockAt(x)' = b) \/ (Placing(t)' /\ block'[t] = b)
    BY <1>1, <2>3 DEF Keeps, Gone
  <2>4. ASSUME NEW x \in Owns', NEW l \in Logicals, x[1] = i, x[2] = Place(l), EndsBy(i, l)', BlockAt(x)' # 0
        PROVE  l >= Direct /\ BlockAt(x)' \in lost'
    BY ONLY <1>1, <2>1, <2>2, <2>4
  <2> QED BY ONLY <2>1, <2>3, <2>4 DEF Settled
<1> HIDE DEF T
<1>7. Tidy(Spread(W, T, 0))'
  <2>1. Stands(t, Spread(W, T, 0))' /\ Writes(t, Spread(W, T, 0))'
    BY <1>2
  <2> QED BY <1>1, <1>5, <1>6, <2>1, TidyNext
<1> QED BY <1>2, <1>7

-----------------------------------------------------------------------------
(* Actions that leave the disk and the bitmaps as they are.                *)

\* What the tasks have read to save an inode is what the inodes are, while no
\* two tasks have read one logical block.
Exact ==
  \A t \in Tasks : \A i \in DOMAIN image[t] :
    image[t][i] = inodes[i] /\ \A u \in Tasks \ {t} : i \notin DOMAIN image[u]

\* So a save changes one inode.
LEMMA ExactSave ==
  ASSUME Typed, Exact, NEW t \in Tasks, NEW n, Save(t, n)
  PROVE  inodes' = [inodes EXCEPT ![ino[t]] = n]
<1>1. inodes = [i \in Inodes |-> inodes[i]]
  BY DEF Typed, StoreTypes
<1>2. inodes' = [i \in Inodes |-> IF i = ino[t] THEN n ELSE inodes[i]]
  BY DEF Save, Exact
<1> QED BY <1>1, <1>2

\* The invariants before a step, and the types after it.
Ready(W) == InOrder /\ InOrder' /\ Tidy(W) /\ Exact

\* The parts of the invariants an action starts from.
LEMMA ReadyIs ==
  ASSUME NEW W, Ready(W), NEW t \in Tasks
  PROVE  /\ Typed /\ Going(t) /\ Typed' /\ Going(t)' /\ Apart /\ Marked /\ Marks
         /\ TakenBlocks \subseteq bmap /\ bmap \subseteq Blocks /\ W \subseteq bmap \ TakenBlocks /\ 0 \in bmap
         /\ \A x \in Owns : BlockAt(x) # 0 => BlockAt(x) \in bmap \ TakenBlocks
BY Volume DEF Ready, InOrder, Tidy, Marked, Marks, Astray, Owned, Own, BlockAt

\* The step changes no block, and the task has in hand what it had.
Still(t, i) ==
  /\ Only(t, i) /\ UNCHANGED <<bmap, disk, lost>>
  /\ \A x \in Owns : x[1] = i => Nodes'[i].ptr[x[2][1]] = Nodes[i].ptr[x[2][1]]
  /\ \A p \in Tree : Live(i, p)' <=> Live(i, p)
  /\ \A x \in Owns : \A l \in Logicals :
       x[1] = i /\ x[2] = Place(l) /\ BlockAt(x) # 0 /\ EndsBy(i, l)' => EndsBy(i, l)
  /\ Placing(t)' <=> Placing(t)
  /\ Placing(t) => block'[t] = block[t]

\* Such a step is one that leaves the file as it is.
LEMMA StillIs ==
  ASSUME NEW W, Ready(W), NEW t \in Tasks, NEW i, Still(t, i)
  PROVE  Same(t, i) /\ Keeps(t, i) /\ Owned' /\ Owns' = Owns /\ \A x \in Owns : BlockAt(x)' = BlockAt(x)
<1>1. Same(t, i)
  BY ReadyIs DEF Still, Same
<1>2. Keeps(t, i)
  <2>1. Quiet(-1, 0)
    BY DEF Still, Quiet
  <2>2. Placing(t) => Fresh(t, block[t]) /\ block[t] \in bmap /\ Blank(disk, block[t])
    BY ReadyIs DEF Ready, Tidy, Spare, Fresh
  <2>3. Placing(t)' => Blank(disk', block'[t]) /\ Fresh(t, block'[t]) /\ block'[t] \in bmap'
    BY <2>2 DEF Still
  <2> QED BY <2>1, <2>3 DEF Still, Keeps
<1> QED BY <1>1, <1>2, SameFile DEF Ready

\* A file without a task has no direct blocks behind its end.
LEMMA NoneBeyond ==
  ASSUME NEW W, Ready(W), NEW i \in files, \A u \in Tasks : ino[u] # i
  PROVE  \A l \in Logicals : l < Direct /\ Count(inodes[i].size) <= l => inodes[i].ptr[l] = 0
<1> SUFFICES ASSUME NEW l \in Logicals, l < Direct, Count(inodes[i].size) <= l PROVE inodes[i].ptr[l] = 0
  OBVIOUS
<1>1. i \in Inodes /\ Apart
  BY DEF Ready, Tidy, InOrder, Typed, StoreTypes
<1>2. PICK x : x = <<i, Place(l)>>
  OBVIOUS
<1>3. x \in Owns /\ x[1] = i /\ x[2] = Place(l)
  <2>1. Place(l) \in Tree
    BY PlaceIs
  <2>2. x \in Inodes \X Tree /\ x[1] = i /\ x[2] = Place(l)
    BY ONLY <1>1, <1>2, <2>1
  <2>3. Live(i, Place(l))
    BY LivingIs DEF Live, Parted
  <2> QED BY <2>2, <2>3 DEF Owns
<1>4. EndsBy(i, l)
  BY DEF EndsBy
<1>5. BlockAt(x) = 0
  BY <1>3, <1>4, FileIs DEF Ready, Tidy, Beyond
<1>6. BlockAt(x) = Nodes[i].ptr[l]
  <2>1. Level(l) = 0
    BY DEF Level
  <2>2. Len(Place(l)[2]) = 0 /\ Place(l)[1] = l /\ Place(l) \in Tree
    BY <2>1, PlaceIs, Paths
  <2> QED
    <3>1. PICK n, p : n = Nodes[i] /\ p = Place(l)
      OBVIOUS
    <3>2. Reach(disk, n, p) = n.ptr[p[1]]
      BY <2>2, <3>1, ReachIs
    <3> QED BY <1>3, <2>2, <3>1, <3>2 DEF BlockAt, Has
<1>7. Nodes[i] = inodes[i]
  BY <1>1, CurrentIs
<1> QED BY <1>5, <1>6, <1>7

\* A new file owns nothing yet.
LEMMA TidyCreate ==
  ASSUME NEW W, Ready(W), NEW t \in Tasks, NEW g \in GroupIds, Create(t, g)
  PROVE  Tidy(W)'
<1>1. PICK i : i = FreeInode(g)
  OBVIOUS
<1>2. /\ i \in Inodes \ imap /\ Others(t) /\ Arrives(t, "create", "create", i, NoInode, 0, 0, block[t], table[t], 0)
      /\ Typed /\ Going(t) /\ Apart /\ Marked
  BY <1>1, ReadyIs, CreateIs DEF Moves
<1>3. /\ op[t] = "user" /\ imap' = imap \cup {i} /\ UNCHANGED <<blockmap, store, lost>>
  BY <1>1 DEF Create, Idle
<1>4. ino[t] = 0 /\ \A u \in Tasks : ino[u] # i
  <2>1. \A u \in Tasks : op[u] = "user" => ino[u] = 0
    BY CallIs DEF Ready, InOrder
  <2> QED BY <1>2, <1>3, <2>1, Volume DEF Marked
<1>5. Only(t, i)
  BY <1>2, <1>3, <1>4, OnlyIs DEF Arrives, store
<1>6. Marked'
  BY <1>2, <1>3, <1>4, MarkedStarts, ReadyIs DEF Arrives, store, blockmap, Ready
<1>7. \A p : ~Live(i, p) /\ ~Live(i, p)'
  <2>1. i \notin files
    BY <1>2 DEF Marked
  <2>2. ~(i \in Living) /\ ~(i \in Living')
    <3>1. \A u \in Tasks \ {t} : ino'[u] # i
      BY <1>2, <1>4 DEF Others
    <3>2. op'[t] = "create" /\ files' = files
      BY <1>2, <1>3 DEF Arrives, store
    <3> QED BY <1>4, <2>1, <3>1, <3>2, LivingIs
  <2>3. \A u \in Tasks : ino'[u] = i => op'[u] # "unlink"
    BY <1>2, <1>4 DEF Others, Arrives
  <2> QED BY <1>4, <2>2, <2>3 DEF Live
<1>8. ~\E x \in Owns : x[1] = i
  BY <1>7 DEF Owns
<1>9. Still(t, i)
  <2>1. ~Placing(t) /\ ~Placing(t)'
    BY <1>2, <1>3 DEF Placing, Arrives
  <2> QED BY <1>3, <1>5, <1>7, <1>8, <2>1 DEF Still, store, blockmap
<1>10. Behind(t)' /\ Stands(t, W)' /\ Writes(t, W)' /\ Lacks(t)'
  BY <1>2 DEF Arrives, Behind, Stands, Writes, Lacks, Placing
<1> QED BY <1>6, <1>9, <1>10, StillIs, SameStep DEF Ready

\* A task goes on with its call.
Continues(t) ==
  /\ op[t] \in Busy /\ op'[t] \in Busy /\ Others(t) /\ ino'[t] = ino[t] /\ call'[t] = call[t]
  /\ UNCHANGED <<inodes, files, imap>> /\ TakenBlocks \subseteq bmap'

\* The file and its positions remain the task's.
LEMMA ContinuesIs ==
  ASSUME NEW W, Ready(W), NEW t \in Tasks, Continues(t), NEW i, i = ino[t]
  PROVE  /\ Only(t, i) /\ Marked' /\ i \in Inodes /\ Nodes[i] = copy[t] /\ Nodes'[i] = copy'[t]
         /\ \A p : Live(i, p) /\ Live(i, p)'
         /\ \A l : (EndsBy(i, l) <=> Edge(t) <= l) /\ (EndsBy(i, l)' <=> Edge(t)' <= l)
         /\ \A p \in Tree : <<i, p>> \in Owns
<1> USE DEF Continues
<1>1. Typed /\ Going(t) /\ Apart /\ Marked /\ InOrder /\ InOrder' /\ op[t] # "user"
  BY ReadyIs DEF Ready, Busy
<1>2. i \in Inodes
  BY <1>1, CallIs
<1>3. Only(t, i)
  BY <1>1, <1>2, OnlyIs
<1>4. Marked'
  BY <1>1, MarkedKept
<1>5. Nodes[i] = copy[t]
  BY <1>1, <1>2, CurrentIs
<1>6. Apart' /\ ino'[t] = i
  BY <1>3 DEF Only
<1>7. Nodes'[i] = copy'[t]
  BY <1>2, <1>6, CurrentNext
<1>8. \A p : Live(i, p) /\ Live(i, p)'
  <2>1. \A u \in Tasks : ino[u] = i \/ ino'[u] = i => u = t
    BY <1>1, <1>2, <1>6, Volume DEF Apart
  <2>2. \A u \in Tasks : (ino[u] = i => op[u] # "clear") /\ (ino'[u] = i => op'[u] # "clear")
    BY <2>1 DEF Busy
  <2> QED BY <1>1, <1>4, <1>6, <2>2, LiveOn
<1>9. \A l : (EndsBy(i, l) <=> Edge(t) <= l) /\ (EndsBy(i, l)' <=> Edge(t)' <= l)
  BY <1>1, <1>2, <1>6, EndsByOwn
<1>10. ASSUME NEW p \in Tree PROVE <<i, p>> \in Owns
  <2>1. PICK x : x = <<i, p>>
    OBVIOUS
  <2>2. x \in Inodes \X Tree /\ x[1] = i /\ x[2] = p
    BY ONLY <1>2, <2>1, p \in Tree
  <2>3. x \in Owns
    BY ONLY <1>8, <2>2 DEF Owns
  <2> QED BY <2>1, <2>3
<1> QED BY <1>2, <1>3, <1>4, <1>5, <1>7, <1>8, <1>9, <1>10

\* A task starts a call of a file that nobody works on.
Begins(t, i) ==
  /\ op[t] = "user" /\ op'[t] \in Busy /\ Others(t) /\ ino'[t] = i /\ i \in files /\ Free(i)
  /\ call'[t] \in {"write", "truncate"} /\ copy'[t] = inodes[i] /\ UNCHANGED <<inodes, files, imap, bmap>>

\* The file and its positions become the task's.
LEMMA BeginsIs ==
  ASSUME Faults = {}, NEW W, Ready(W), NEW t \in Tasks, NEW i, Begins(t, i)
  PROVE  /\ Only(t, i) /\ Marked' /\ i \in Inodes /\ Nodes[i] = inodes[i] /\ Nodes'[i] = inodes[i]
         /\ \A p : Live(i, p) /\ Live(i, p)'
         /\ \A l : (EndsBy(i, l) <=> Count(inodes[i].size) <= l) /\ (EndsBy(i, l)' <=> Edge(t)' <= l)
         /\ \A p \in Tree : <<i, p>> \in Owns
         /\ Behind(t)'
<1> USE DEF Begins
<1>1. Typed /\ Going(t) /\ Apart /\ Marked /\ InOrder /\ InOrder' /\ TakenBlocks \subseteq bmap
  BY ReadyIs DEF Ready
<1>2. ino[t] = 0 /\ i \in Inodes /\ \A u \in Tasks : ino[u] # i
  BY <1>1, CallIs DEF Free, Typed, StoreTypes
<1>3. Only(t, i)
  BY <1>1, <1>2, OnlyIs
<1>4. Marked'
  BY <1>1, <1>2, MarkedStarts
<1>5. Nodes[i] = inodes[i]
  BY <1>1, <1>2, CurrentIs
<1>6. Apart'
  BY <1>3 DEF Only
<1>7. Nodes'[i] = inodes[i]
  BY <1>2, <1>6, CurrentNext
<1>8. \A p : Live(i, p) /\ Live(i, p)'
  <2>1. \A u \in Tasks : ino'[u] = i => u = t
    BY <1>2, <1>6, Volume DEF Apart
  <2>2. \A u \in Tasks : (ino[u] = i => op[u] # "clear") /\ (ino'[u] = i => op'[u] # "clear")
    BY <1>2, <2>1 DEF Busy
  <2> QED BY <1>1, <1>4, <2>2, LiveOn
<1>9. \A l : (EndsBy(i, l) <=> Count(inodes[i].size) <= l) /\ (EndsBy(i, l)' <=> Edge(t)' <= l)
  BY <1>1, <1>2, <1>6, EndsByOwn
<1>10. ASSUME NEW p \in Tree PROVE <<i, p>> \in Owns
  <2>1. PICK x : x = <<i, p>>
    OBVIOUS
  <2>2. x \in Inodes \X Tree /\ x[1] = i /\ x[2] = p
    BY ONLY <1>2, <2>1, p \in Tree
  <2>3. x \in Owns
    BY ONLY <1>8, <2>2 DEF Owns
  <2> QED BY <2>1, <2>3
<1>11. Behind(t)'
  <2>1. \A l \in Logicals : l < Direct /\ Count(inodes[i].size) <= l => inodes[i].ptr[l] = 0
    BY <1>2, NoneBeyond
  <2> QED BY <2>1 DEF Behind
<1> QED BY <1>2, <1>3, <1>4, <1>5, <1>7, <1>8, <1>9, <1>10, <1>11

\* A write that starts has the inode of the disk.
LEMMA TidyWrite ==
  ASSUME Faults = {}, NEW W, Ready(W), NEW t \in Tasks, NEW i \in Inodes, NEW r \in Ranges, Write(t, i, r)
  PROVE  Tidy(W)'
<1>1. /\ op[t] = "user" /\ i \in files /\ Free(i) /\ UNCHANGED <<bitmaps, store, lost>>
  BY DEF Write, Idle
<1>2. /\ Others(t) /\ t \notin dirty'
      /\ Arrives(t, "write", "write", i, inodes[i], r[1], r[1] + r[2], block[t], table[t], 0)
  BY ReadyIs, WriteIs DEF Moves
<1>3. Begins(t, i)
  BY <1>1, <1>2 DEF Begins, Arrives, Busy, bitmaps, store
<1>4. Edge(t)' = Count(inodes[i].size)
  BY <1>2 DEF Edge, Arrives
<1>5. Still(t, i)
  <2>1. ~Placing(t) /\ ~Placing(t)'
    BY <1>1, <1>2 DEF Placing, Arrives
  <2> QED BY <1>1, <1>3, <1>4, <2>1, BeginsIs DEF Still, bitmaps, store
<1>6. Stands(t, W)' /\ Writes(t, W)' /\ Lacks(t)'
  BY <1>2 DEF Arrives, Stands, Writes, Lacks, Placing
<1> QED BY <1>3, <1>5, <1>6, BeginsIs, StillIs, SameStep DEF Ready

\* The blocks of a file without a name are those of the unlink.
LEMMA TidyUnlink ==
  ASSUME Faults = {}, NEW W, Ready(W), NEW t \in Tasks, NEW i \in Inodes, Unlink(t, i)
  PROVE  Tidy(W)'
<1>1. /\ op[t] = "user" /\ i \in files /\ files' = files \ {i} /\ UNCHANGED <<bitmaps, inodes, disk, lost>>
      /\ \A u \in Tasks : ino[u] # i
  BY DEF Unlink, Idle, Free
<1>2. /\ Others(t) /\ Arrives(t, "unlink", "unlink", i, inodes[i], 0, Count(inodes[i].size), block[t], table[t], 0)
      /\ Typed /\ Going(t) /\ Apart /\ Marked /\ ino[t] = 0 /\ TakenBlocks \subseteq bmap /\ InOrder
      /\ Count(inodes[i].size) \in Nat
  BY <1>1, ReadyIs, UnlinkIs, CallIs DEF Moves, Ready
<1>3. Only(t, i)
  BY <1>1, <1>2, OnlyIs DEF Arrives
<1>4. Marked'
  BY <1>1, <1>2, MarkedStarts DEF Arrives, bitmaps
<1>5. Nodes[i] = inodes[i] /\ Nodes'[i] = inodes[i]
  BY <1>1, <1>2, <1>3, CurrentIs, CurrentNext DEF Only, Arrives
<1>6. ASSUME NEW p \in Tree PROVE Live(i, p) /\ Live(i, p)'
  <2>1. Live(i, p)
    BY <1>1, LivingIs DEF Live, Parted
  <2>2. Unfreed(t, p)'
    <3>1. p[1] \in Slots /\ pos'[t] = 0 /\ to'[t] \in Nat
      BY <1>2, TreeIs DEF Arrives
    <3>2. p[1] \in Nat /\ Direct \in Nat /\ \A l \in Logicals : 0 <= l
      BY <3>1, FileIs DEF Slots, Logicals
    <3> QED BY ONLY <3>1, <3>2 DEF Unfreed
  <2> QED BY <1>2, <2>1, <2>2 DEF Live, Arrives
<1>7. \A l : (EndsBy(i, l) <=> Count(inodes[i].size) <= l) /\ (EndsBy(i, l)' <=> Edge(t)' <= l)
  BY <1>1, <1>2, <1>3, EndsByOwn DEF Only, Arrives
<1>8. Edge(t)' = Count(inodes[i].size)
  BY <1>2 DEF Edge, Arrives
<1>9. Still(t, i)
  <2>1. ~Placing(t) /\ ~Placing(t)'
    BY <1>1, <1>2 DEF Placing, Arrives
  <2> QED BY <1>1, <1>3, <1>5, <1>6, <1>7, <1>8, <2>1 DEF Still, bitmaps
<1>10. Behind(t)' /\ Stands(t, W)' /\ Writes(t, W)' /\ Lacks(t)'
  BY <1>2 DEF Arrives, Behind, Stands, Writes, Lacks, Placing
<1> QED BY <1>4, <1>9, <1>10, StillIs, SameStep DEF Ready

\* The blocks on the way to a logical block, and the last of them.
LEMMA AtPlaces ==
  ASSUME NEW i, NEW l \in Logicals
  PROVE  /\ BlockAt(<<i, Place(l)>>) = GetPhysical(Nodes[i], l)
         /\ Level(l) > 0 => BlockAt(<<i, Stem(l, Level(l) - 1)>>) = LastTable(Nodes[i], l)
         /\ BlockAt(<<i, Stem(l, 0)>>) = Nodes[i].ptr[Root(l)]
         /\ \A d \in 0..(Level(l) - 1) :
              BlockAt(<<i, Stem(l, d + 1)>>) = Follow(BlockAt(<<i, Stem(l, d)>>), Path[l][d + 1])
<1>1. PICK n : n = Nodes[i]
  OBVIOUS
<1>2. \A p : BlockAt(<<i, p>>) = Reach(disk, n, p)
  BY <1>1 DEF BlockAt, Has
<1>3. /\ BlockAt(<<i, Place(l)>>) = GetPhysical(n, l)
      /\ Level(l) > 0 => BlockAt(<<i, Stem(l, Level(l) - 1)>>) = LastTable(n, l)
  BY <1>2, WalksReach
<1>4. Level(l) \in 0..3
  BY Paths
<1>5. BlockAt(<<i, Stem(l, 0)>>) = n.ptr[Root(l)]
  <2>1. 0 \in 0..Level(l)
    BY <1>4
  <2>2. Stem(l, 0) \in Tree /\ Stem(l, 0)[1] = Root(l) /\ Len(Stem(l, 0)[2]) = 0
    BY <2>1, StemIs
  <2> QED BY <1>2, <2>2, ReachIs
<1>6. ASSUME NEW d \in 0..(Level(l) - 1)
      PROVE  BlockAt(<<i, Stem(l, d + 1)>>) = Follow(BlockAt(<<i, Stem(l, d)>>), Path[l][d + 1])
  <2>1. PICK e : e = d + 1
    OBVIOUS
  <2>2. e \in 0..Level(l) /\ e > 0 /\ e - 1 = d
    BY <1>4, <2>1
  <2>3. /\ Stem(l, e) \in Tree /\ Len(Stem(l, e)[2]) > 0 /\ Over(Stem(l, e)) = Stem(l, d)
        /\ Tip(Stem(l, e)) = Path[l][e]
    BY <2>2, StemIs
  <2>4. Reach(disk, n, Stem(l, e)) = Follows(disk, Reach(disk, n, Stem(l, d)), Path[l][e])
    BY <2>3, ReachIs
  <2> QED BY <1>2, <2>1, <2>4 DEF Follow, Follows
<1> QED BY <1>1, <1>3, <1>5, <1>6

\* How far a write is, in blocks.
LEMMA CountHere ==
  ASSUME NEW a \in Nat
  PROVE  /\ Count(a) \in Nat /\ a \div Words \in Nat /\ Count(a) <= a \div Words + 1
         /\ \A b \in Nat : a < b /\ b <= (a \div Words + 1) * Words => Count(b) = a \div Words + 1
<1>1. PICK h : h = a \div Words
  OBVIOUS
<1>2. h \in Nat /\ Count(a) \in Nat /\ a % Words \in Entry /\ a = Words * h + (a % Words)
  <2>1. 0 \in Int
    OBVIOUS
  <2> QED BY <1>1, <2>1, CountIs
<1>3. PICK k \in Nat : k = Words * h
  BY <1>2, FileIs
<1>4. (h + 1) * Words = k + Words
  BY <1>2, <1>3, FileIs
<1>5. a <= (h + 1) * Words
  BY <1>2, <1>3, <1>4, FileIs
<1>6. Count(a) <= h + 1
  <2>1. h + 1 \in Int
    BY <1>2
  <2> QED BY <1>5, <2>1, CountIs
<1>7. ASSUME NEW b \in Nat, a < b, b <= (h + 1) * Words PROVE Count(b) = h + 1
  <2>1. h + 1 \in Int
    BY <1>2
  <2>2. Count(b) <= h + 1 /\ Count(b) \in Nat
    BY <1>7, <2>1, CountIs
  <2>3. h < Count(b)
    BY <1>1, <1>7, Counting
  <2> QED BY <1>2, <2>2, <2>3
<1> QED BY <1>1, <1>2, <1>6, <1>7

\* The numbers of a write.
LEMMA WriteIsAt ==
  ASSUME Typed, NEW t \in Tasks, call[t] = "write"
  PROVE  /\ Here(t) = pos[t] \div Words /\ Here(t) \in Nat /\ Count(pos[t]) \in Nat /\ Count(pos[t]) <= Here(t) + 1
         /\ Count(copy[t].size) \in Nat
<1>1. pos[t] \in Nat /\ copy[t].size \in Nat
  BY FileIs DEF Typed, LocalTypes, InodeType
<1>2. 0 \in Int
  OBVIOUS
<1> QED BY <1>1, <1>2, CountHere, CountIs DEF Here

\* A block of the file is found.
LEMMA TidyWriteFound ==
  ASSUME NEW W, Ready(W), NEW t \in Tasks, WriteFound(t)
  PROVE  Tidy(W)'
<1>1. PICK i, l : i = ino[t] /\ l = Here(t)
  OBVIOUS
<1>2. PICK p : p = GetPhysical(copy[t], l)
  OBVIOUS
<1>3. /\ op[t] = "write" /\ pos[t] < to[t] /\ p # 0
      /\ UNCHANGED <<bitmaps, store, caller, copy, pos, to, table, depth, dirty, lost>>
  BY <1>1, <1>2 DEF WriteFound
<1>4. /\ Others(t) /\ Arrives(t, "data", "write", i, copy[t], pos[t], to[t], p, table[t], 0)
      /\ Typed /\ Going(t) /\ TakenBlocks \subseteq bmap /\ call[t] = "write"
  BY <1>1, <1>2, <1>3, ReadyIs, WriteFoundIs, CallIs DEF Moves
<1>5. Continues(t)
  BY <1>1, <1>3, <1>4 DEF Continues, Busy, Arrives, bitmaps, store
<1>6. l \in Logicals /\ l \in Nat /\ Count(pos[t]) \in Nat /\ Count(pos[t]) <= l + 1 /\ Count(copy[t].size) \in Nat
  BY <1>1, <1>3, <1>4, HereIs, WriteIsAt
<1>7. Here(t)' = l /\ copy'[t] = copy[t]
  BY <1>1, <1>3, <1>4 DEF Here, Arrives
<1>8. \A m \in Logicals : Edge(t)' <= m => Edge(t) <= m
  <2>1. Edge(t)' = IF t \in dirty /\ l + 1 > Count(copy[t].size) THEN l + 1 ELSE Count(copy[t].size)
    BY <1>3, <1>4, <1>7 DEF Edge, Arrives
  <2>2. Edge(t) = IF t \in dirty /\ Count(pos[t]) > Count(copy[t].size) THEN Count(pos[t]) ELSE Count(copy[t].size)
    BY <1>3, <1>4 DEF Edge
  <2>3. \A m \in Logicals : m \in Nat
    BY FileIs
  <2> QED BY <1>6, <2>1, <2>2, <2>3
<1>9. Still(t, i)
  <2>1. ~Placing(t) /\ ~Placing(t)'
    BY <1>3, <1>4 DEF Placing, Arrives
  <2>2. bmap' = bmap /\ disk' = disk /\ lost' = lost
    BY <1>3 DEF bitmaps, store
  <2> QED BY <1>1, <1>3, <1>5, <1>7, <1>8, <2>1, <2>2, ContinuesIs DEF Still
<1>10. Owns' = Owns /\ \A x \in Owns : BlockAt(x)' = BlockAt(x)
  BY <1>9, StillIs
<1>11. Writes(t, W)'
  <2>1. PICK x : x = <<i, Place(l)>>
    OBVIOUS
  <2>2. x \in Owns
    BY <1>1, <1>5, <1>6, <2>1, PlaceIs, ContinuesIs
  <2>3. BlockAt(x) = p
    <3>1. Nodes[i] = copy[t]
      BY <1>1, <1>5, ContinuesIs
    <3> QED BY <1>2, <1>6, <2>1, <3>1, AtPlaces
  <2>4. BlockAt(x)' = p
    BY <1>10, <2>2, <2>3
  <2>5. ino'[t] = i /\ block'[t] = p
    BY <1>4 DEF Arrives
  <2> QED BY <1>3, <1>7, <2>1, <2>4, <2>5 DEF Writes
<1>12. Behind(t)'
  <2>1. Behind(t) /\ inodes' = inodes
    BY <1>3 DEF Ready, Tidy, store
  <2> QED BY <1>1, <1>3, <1>4, <1>7, <2>1 DEF Behind, Arrives
<1>13. Stands(t, W)' /\ Lacks(t)'
  BY <1>4 DEF Arrives, Stands, Lacks, Placing
<1> QED BY <1>1, <1>5, <1>9, <1>11, <1>12, <1>13, StillIs, ContinuesIs, SameStep DEF Ready

-----------------------------------------------------------------------------
(* Steps that put a block at a position of the file, or clear it.          *)

Puts(t, i, z, v) ==
  /\ Only(t, i) /\ z \in Owns /\ z[1] = i
  /\ \A p \in Tree : Live(i, p)' <=> Live(i, p)
  /\ v = 0 \/ (Fresh(t, v) /\ v \in bmap')
  /\ Far(z) > 0 => BlockAt(Above(z)) # 0
  /\ IsTable(z[2]) => BlockAt(z) = 0 /\ v # 0 /\ \A k \in Entry : disk'[v][k] = 0
  /\ \A s \in Slots : Nodes'[i].ptr[s] = IF Far(z) = 0 /\ s = z[2][1] THEN v ELSE Nodes[i].ptr[s]
  /\ \A x \in Owns : IsTable(x[2]) /\ BlockAt(x) # 0 =>
       \A k \in Entry : disk'[BlockAt(x)][k]
         = IF Far(z) > 0 /\ x = Above(z) /\ k = Tip(z[2]) THEN v ELSE disk[BlockAt(x)][k]
  /\ \A x \in Owns : x # z /\ BlockAt(x) # 0 => BlockAt(x) \in bmap'

\* Then this position has the block, and the others what they had.
LEMMA PutsIs ==
  ASSUME NEW W, Ready(W), NEW t \in Tasks, NEW i, NEW z, NEW v, Puts(t, i, z, v)
  PROVE  /\ Owned' /\ Owns' = Owns
         /\ BlockAt(z)' = v /\ \A x \in Owns : x # z => BlockAt(x)' = BlockAt(x)
<1>1. InOrder /\ Tidy(W)
  BY DEF Ready
<1> QED BY ONLY <1>1, Puts(t, i, z, v), t \in Tasks, PutAt DEF Puts

\* What else such a step does, with entry T: the block it takes, or the one it gives back.
Fills(t, i, z, v, T) ==
  /\ Quiet(T, v) /\ lost' = lost
  /\ T \in Blocks => v # 0 /\ Far(z) > 0 /\ T = BlockAt(Above(z))
  /\ \A b \in bmap' \ bmap : b = v /\ v # 0
  /\ \A b \in bmap \ bmap' : b = BlockAt(z) /\ b # 0 /\ Blank(disk', b)
  /\ BlockAt(z) # 0 /\ BlockAt(z) \in bmap' => BlockAt(z) \in lost
  /\ Placing(t)' => Placing(t) /\ block'[t] = block[t] /\ v # block[t] /\ Blank(disk', block[t])
  /\ Placing(t) /\ block[t] \in bmap' => Placing(t)' \/ (v = block[t] /\ v # 0)
  /\ \A l \in Logicals : EndsBy(i, l)' => \/ EndsBy(i, l) /\ z[2] # Place(l)
                                          \/ z[2] = Place(l) /\ v = 0

\* Then the invariant holds after the step.
LEMMA PutStep ==
  ASSUME NEW W, Ready(W), NEW t \in Tasks, NEW i, NEW z, NEW v, Puts(t, i, z, v), NEW T, Fills(t, i, z, v, T),
         Marked', Behind(t)', Stands(t, W)', Writes(t, W)', Lacks(t)'
  PROVE  Tidy(W)'
<1>1. /\ Owned' /\ Owns' = Owns
      /\ BlockAt(z)' = v /\ \A x \in Owns : x # z => BlockAt(x)' = BlockAt(x)
  BY PutsIs
<1>2. /\ \A x \in Owns : BlockAt(x) # 0 => BlockAt(x) \in bmap \ TakenBlocks
      /\ 0 \in bmap /\ W \subseteq bmap /\ bmap \subseteq Blocks /\ InOrder /\ Tidy(W)
  BY ReadyIs DEF Ready
<1>3. z \in Owns /\ z[1] = i /\ Only(t, i) /\ Rooted(Owns) /\ (Far(z) > 0 => Above(z) \in Owns /\ BlockAt(Above(z)) # 0)
  <2>1. Rooted(Owns)
    BY OwnsRooted
  <2> QED BY <2>1, PositionsAre DEF Puts
<1>4. v # 0 => Fresh(t, v) /\ v \in bmap' /\ \A x \in Owns : BlockAt(x) # v
  BY <1>2, FreshIs DEF Puts
<1>5. T \in Blocks => T \in bmap' /\ \E x \in Owns : BlockAt(x) = T
  <2> SUFFICES ASSUME T \in Blocks PROVE T \in bmap' /\ \E x \in Owns : BlockAt(x) = T
    OBVIOUS
  <2>1. v # 0 /\ Far(z) > 0 /\ T = BlockAt(Above(z))
    BY DEF Fills
  <2>2. Above(z) \in Owns /\ T # 0 /\ Above(z) # z
    <3>1. Far(Above(z)) = Far(z) - 1 /\ Far(z) \in Nat
      BY <1>3, <2>1, PositionsAre
    <3> QED BY <1>3, <2>1, <3>1
  <2>3. T \in bmap'
    BY <2>1, <2>2 DEF Puts
  <2> QED BY <2>1, <2>2, <2>3
<1>6. T \notin W \cup {0} /\ Spread(W, T, v) = W
  <2>1. T \in Blocks => T \notin W /\ T # 0
    <3> SUFFICES ASSUME T \in Blocks PROVE T \notin W /\ T # 0
      OBVIOUS
    <3>1. T = BlockAt(Above(z)) /\ T # 0 /\ Above(z) \in Owns
      BY <1>3 DEF Fills
    <3> QED BY <1>2, <3>1 DEF Tidy, Astray
  <2>2. T \notin W \cup {0}
    BY <1>2, <2>1
  <2> QED BY <2>2 DEF Spread
<1>7. ASSUME NEW b \in bmap \ bmap' PROVE Gone(t, i, b) /\ Blank(disk', b)
  <2>1. b = BlockAt(z) /\ b # 0 /\ Blank(disk', b)
    BY DEF Fills
  <2> QED BY <1>3, <2>1 DEF Gone
<1>8. Placing(t)' => /\ Fresh(t, block'[t]) /\ block'[t] \in bmap' /\ Blank(disk', block'[t])
                     /\ \A x \in Owns' : BlockAt(x)' # block'[t]
  <2> SUFFICES ASSUME Placing(t)' PROVE /\ Fresh(t, block'[t]) /\ block'[t] \in bmap' /\ Blank(disk', block'[t])
                                       /\ \A x \in Owns' : BlockAt(x)' # block'[t]
    OBVIOUS
  <2>1. Placing(t) /\ block'[t] = block[t] /\ v # block[t] /\ Blank(disk', block[t])
    BY DEF Fills
  <2>2. Spare(t, W)
    BY <1>2 DEF Tidy
  <2>3. block[t] \in bmap /\ \A x \in Owns : BlockAt(x) # block[t]
    BY <2>1, <2>2 DEF Spare
  <2>4. block[t] \in bmap'
    BY <1>3, <2>3 DEF Fills
  <2>5. Fresh(t, block[t])
    BY <1>2, <2>1, <2>3 DEF Fresh
  <2> QED BY <1>1, <2>1, <2>3, <2>4, <2>5
<1>9. Changes(t, i, W, T, v)
  <2>1. Only(t, i) /\ Quiet(T, v)
    BY <1>3 DEF Fills
  <2>2. T \in Blocks => T \in bmap' /\ Fresh(t, v) /\ v \in bmap' /\ (T \in W \cup {0} \/ \E x \in Owns : BlockAt(x) = T)
    BY <1>4, <1>5 DEF Fills
  <2>3. \A x \in Owns' : x[1] # i => x \in Owns /\ BlockAt(x)' = BlockAt(x)
    BY <1>1, <1>3
  <2>4. \A x \in Owns' : \/ BlockAt(x)' = 0
                         \/ x \in Owns /\ BlockAt(x)' = BlockAt(x)
                         \/ Fresh(t, BlockAt(x)') /\ T \notin W \cup {0}
    BY <1>1, <1>4, <1>6
  <2> QED BY <1>6, <1>7, <1>8, <2>1, <2>2, <2>3, <2>4 DEF Changes
<1>10. Settled(t, i)
  <2>1. lost' = lost
    BY DEF Fills
  <2>2. ASSUME NEW x \in Owns', NEW l \in Logicals, x[1] = i, x[2] = Place(l), EndsBy(i, l)', BlockAt(x)' # 0
        PROVE  l >= Direct /\ BlockAt(x)' \in lost'
    <3>1. x # z
      <4>1. ASSUME x = z PROVE FALSE
        <5>1. z[2] = Place(l) /\ v # 0
          BY <1>1, <2>2, <4>1
        <5> QED BY <2>2, <5>1 DEF Fills
      <4> QED BY <4>1
    <3>2. x \in Owns /\ BlockAt(x)' = BlockAt(x)
      BY <1>1, <3>1
    <3>3. x = <<x[1], x[2]>> /\ z = <<z[1], z[2]>>
      BY <1>3, <3>2, PositionsAre
    <3>4. z[2] # Place(l)
      BY <1>3, <2>2, <3>1, <3>3
    <3>5. EndsBy(x[1], l)
      BY <2>2, <3>4 DEF Fills
    <3>6. Beyond
      BY <1>2 DEF Tidy
    <3> QED BY <2>1, <2>2, <3>2, <3>5, <3>6 DEF Beyond
  <2>3. ASSUME NEW b \in bmap', b \notin bmap
        PROVE  \E x \in Owns' : BlockAt(x)' = b
    <3>1. b = v
      BY <2>3 DEF Fills
    <3> QED BY <1>1, <1>3, <3>1
  <2>4. ASSUME NEW b \in bmap', NEW x \in Owns, x[1] = i, BlockAt(x) = b, b # 0
        PROVE  b \in lost' \/ \E y \in Owns' : BlockAt(y)' = b
    <3>1. CASE x = z
      BY <2>1, <2>4, <3>1 DEF Fills
    <3>2. CASE x # z
      BY <1>1, <2>4, <3>2
    <3> QED BY <3>1, <3>2
  <2>5. ASSUME Placing(t), block[t] \in bmap'
        PROVE  (\E y \in Owns' : BlockAt(y)' = block[t]) \/ (Placing(t)' /\ block'[t] = block[t])
    <3>1. Placing(t)' \/ v = block[t]
      BY <2>5 DEF Fills
    <3>2. Placing(t)' => block'[t] = block[t]
      BY DEF Fills
    <3> QED BY <1>1, <1>3, <3>1, <3>2
  <2>6. ASSUME NEW b \in bmap', Gone(t, i, b)
        PROVE  b \in lost' \/ (\E x \in Owns' : BlockAt(x)' = b) \/ (Placing(t)' /\ block'[t] = b)
    BY <2>4, <2>5, <2>6 DEF Gone
  <2> QED BY <2>1, <2>2, <2>3, <2>6 DEF Settled
<1>11. Tidy(Spread(W, T, v))'
  <2>1. Stands(t, Spread(W, T, v))' /\ Writes(t, Spread(W, T, v))'
    BY <1>6
  <2> QED BY <1>1, <1>9, <1>10, <2>1, TidyNext DEF Ready
<1> QED BY <1>6, <1>11

\* A task goes on without a change to its file, and what it has in hand stays.
Idles(t) ==
  /\ Continues(t) /\ UNCHANGED <<bmap, disk, lost>> /\ copy'[t] = copy[t]
  /\ op'[t] = "shrink" => op[t] = "shrink"
  /\ op[t] = "shrink" => op'[t] = "shrink"
  /\ Placing(t)' <=> Placing(t)
  /\ Placing(t) => block'[t] = block[t] /\ pos'[t] = pos[t]
  /\ \A l \in Logicals : Edge(t)' <= l /\ BlockAt(<<ino[t], Place(l)>>) # 0 => Edge(t) <= l

\* Then the file and its blocks stay.
LEMMA IdlesIs ==
  ASSUME NEW W, Ready(W), NEW t \in Tasks, Idles(t), NEW i, i = ino[t]
  PROVE  /\ Still(t, i) /\ Marked' /\ Behind(t)' /\ Lacks(t)' /\ Nodes[i] = copy[t]
         /\ \A p \in Tree : BlockAt(<<i, p>>)' = BlockAt(<<i, p>>)
<1> USE DEF Idles
<1>1. /\ Only(t, i) /\ Marked' /\ i \in Inodes /\ Nodes[i] = copy[t] /\ Nodes'[i] = copy'[t]
      /\ \A p : Live(i, p) /\ Live(i, p)'
      /\ \A l : (EndsBy(i, l) <=> Edge(t) <= l) /\ (EndsBy(i, l)' <=> Edge(t)' <= l)
      /\ \A p \in Tree : <<i, p>> \in Owns
  BY ContinuesIs
<1>2. ASSUME NEW x \in Owns, NEW l \in Logicals, x[1] = i, x[2] = Place(l), BlockAt(x) # 0, EndsBy(i, l)'
      PROVE  EndsBy(i, l)
  <2>1. x = <<i, Place(l)>>
    BY <1>2, OwnsRooted, PositionsAre
  <2> QED BY <1>1, <1>2, <2>1
<1>3. Still(t, i)
  BY <1>1, <1>2 DEF Still
<1>4. Owns' = Owns /\ \A x \in Owns : BlockAt(x)' = BlockAt(x)
  BY <1>3, StillIs
<1>5. ASSUME NEW p \in Tree PROVE BlockAt(<<i, p>>)' = BlockAt(<<i, p>>)
  <2>1. PICK x : x = <<i, p>>
    OBVIOUS
  <2>2. x \in Owns
    BY <1>1, <2>1
  <2> QED BY <1>4, <2>1, <2>2
<1>6. Behind(t)'
  <2>1. Behind(t) /\ inodes' = inodes /\ ino'[t] = i
    BY DEF Ready, Tidy, Continues
  <2>2. op'[t] \in {"write", "data", "root", "table", "grow"} => op[t] \in {"write", "data", "root", "table", "grow"}
    BY DEF Continues, Busy
  <2> QED BY <2>1, <2>2 DEF Behind
<1>7. Lacks(t)'
  <2>1. Placing(t)' => Here(t)' = Here(t) /\ ino'[t] = i /\ call'[t] = call[t]
    BY DEF Continues, Here
  <2>2. Placing(t) => Place(Here(t)) \in Tree
    <3>1. Placing(t) => Here(t) \in Logicals
      BY ReadyIs, HereIs DEF Placing
    <3> QED BY <3>1, PlaceIs
  <2>3. Lacks(t)
    BY DEF Ready, Tidy
  <2> QED BY <1>5, <2>1, <2>2, <2>3 DEF Lacks
<1> QED BY <1>1, <1>3, <1>5, <1>6, <1>7

\* Then the invariant holds after the step.
LEMMA IdleStep ==
  ASSUME NEW W, Ready(W), NEW t \in Tasks, Idles(t), Stands(t, W)', Writes(t, W)'
  PROVE  Tidy(W)'
BY IdlesIs, StillIs, SameStep DEF Ready

\* Without space for data, a write and a truncate stop where they are.
LEMMA TidyNoBlock ==
  ASSUME NEW W, Ready(W), NEW t \in Tasks,
         \/ WriteAllocate(t) /\ FreeBlock(InodeGroup[ino[t]]) < 0
         \/ Grow(t) /\ FreeBlock(InodeGroup[ino[t]]) <= 0
  PROVE  Tidy(W)'
<1>1. Typed /\ Going(t) /\ TakenBlocks \subseteq bmap
  BY ReadyIs
<1>2. CASE WriteAllocate(t) /\ FreeBlock(InodeGroup[ino[t]]) < 0
  <2>1. /\ op[t] = "write" /\ to' = [to EXCEPT ![t] = pos[t]]
        /\ UNCHANGED <<blockmap, op, caller, copy, pos, block, table, depth, dirty>>
        /\ UNCHANGED <<inodemap, store, lost>>
    BY <1>2 DEF WriteAllocate
  <2>2. Others(t)
    BY <1>1, <1>2, WriteAllocateIs DEF Moves
  <2>3. Continues(t)
    BY <1>1, <2>1, <2>2 DEF Continues, Busy, inodemap, blockmap, store, caller
  <2>4. Edge(t)' = Edge(t)
    BY <2>1 DEF Edge, Here, caller
  <2>5. Idles(t)
    BY <2>1, <2>3, <2>4 DEF Idles, blockmap, store, Placing
  <2>6. Stands(t, W)' /\ Writes(t, W)'
    BY <2>1 DEF Stands, Writes
  <2> QED BY <2>5, <2>6, IdleStep
<1>3. CASE Grow(t) /\ FreeBlock(InodeGroup[ino[t]]) <= 0
  <2>1. /\ op[t] = "grow" /\ to' = [to EXCEPT ![t] = pos[t] * Words]
        /\ UNCHANGED <<blockmap, disk, op, caller, copy, pos, block, table, depth, dirty>>
        /\ UNCHANGED <<inodemap, inodes, files, lost>>
    BY <1>3 DEF Grow
  <2>2. Others(t)
    BY <1>1, <1>3, GrowIs DEF Moves
  <2>3. Continues(t)
    BY <1>1, <2>1, <2>2 DEF Continues, Busy, inodemap, blockmap, caller
  <2>4. Edge(t)' = Edge(t)
    BY <2>1 DEF Edge, Here, caller
  <2>5. Idles(t)
    BY <2>1, <2>3, <2>4 DEF Idles, blockmap, Placing
  <2>6. Stands(t, W)' /\ Writes(t, W)'
    BY <2>1 DEF Stands, Writes
  <2> QED BY <2>5, <2>6, IdleStep
<1> QED BY <1>2, <1>3

\* A truncate passes a logical block that has no block.
LEMMA TidyShrinkNone ==
  ASSUME NEW W, Ready(W), NEW t \in Tasks, Shrink(t), GetPhysical(copy[t], pos[t] - 1) = 0
  PROVE  Tidy(W)'
<1>1. Typed /\ Going(t) /\ TakenBlocks \subseteq bmap
  BY ReadyIs
<1>2. /\ op[t] = "shrink" /\ pos' = [pos EXCEPT ![t] = @ - 1]
      /\ UNCHANGED <<blockmap, disk, op, copy>>
      /\ UNCHANGED <<inodemap, inodes, files, caller, to, block, table, depth, dirty, lost>>
  BY DEF Shrink
<1>3. Others(t) /\ pos[t] - 1 \in Logicals /\ call[t] = "truncate"
  BY <1>1, ShrinkIs DEF Moves
<1>4. Continues(t)
  BY <1>1, <1>2, <1>3 DEF Continues, Busy, inodemap, blockmap, caller
<1>5. Nodes[ino[t]] = copy[t]
  BY <1>4, ContinuesIs
<1>6. PICK m \in Logicals : m = pos[t] - 1
  BY <1>3
<1>7. BlockAt(<<ino[t], Place(m)>>) = 0
  BY <1>5, <1>6, AtPlaces, ZenonT(40)
<1>8. Edge(t) = m + 1 /\ Edge(t)' = m
  <2>1. pos[t] \in Nat /\ pos'[t] = m /\ op'[t] = op[t] /\ call'[t] = call[t]
    BY <1>1, <1>2, <1>6, LocalIs DEF caller, Typed, LocalTypes
  <2> QED BY <1>2, <1>3, <1>6, <2>1 DEF Edge
<1>9. Idles(t)
  <2>1. \A l \in Logicals : m <= l /\ l # m => m + 1 <= l
    BY <1>6, FileIs
  <2> QED BY <1>2, <1>4, <1>7, <1>8, <2>1 DEF Idles, blockmap, Placing
<1>10. Stands(t, W)' /\ Writes(t, W)'
  BY <1>2 DEF Stands, Writes
<1> QED BY <1>9, <1>10, IdleStep

\* On the way to an entry.
LEMMA OnTheWay ==
  ASSUME NEW t \in Tasks, Continues(t), Placing(t), Placing(t)', copy'[t] = copy[t], pos'[t] = pos[t],
         block'[t] = block[t], t \in dirty' <=> t \in dirty, UNCHANGED <<bmap, disk, lost>>
  PROVE  Idles(t) /\ Here(t)' = Here(t)
<1>1. Edge(t)' = Edge(t) /\ Here(t)' = Here(t)
  BY DEF Edge, Here, Placing, Continues
<1> QED BY <1>1 DEF Idles, Placing

\* The inode's pointer is there, or there is no space for its block.
LEMMA TidyRootThere ==
  ASSUME NEW W, Ready(W), NEW t \in Tasks, SetRoot(t), bmap' = bmap
  PROVE  Tidy(W)'
<1>1. Typed /\ Going(t) /\ TakenBlocks \subseteq bmap /\ bmap \subseteq Blocks
  BY ReadyIs
<1>2. PICK i, l : i = ino[t] /\ l = Here(t)
  OBVIOUS
<1>3. l \in Logicals /\ Root(l) \in Slots
  BY <1>1, <1>2, SetRootIs
<1>4. PICK b \in Blocks :
        LET n == [copy[t] EXCEPT !.ptr[Root(l)] = b]
        IN /\ Moves(t, "table", call[t], i, n, pos[t], to[t], block[t], b, 0, t \in dirty)
           /\ \/ b = copy[t].ptr[Root(l)] /\ n = copy[t] /\ UNCHANGED <<blockmap, disk>>
              \/ b \in Blocks \ (bmap \cup {0}) /\ AllocateBlock(b)
  BY <1>1, <1>2, SetRootIs
<1>5. b = copy[t].ptr[Root(l)] /\ UNCHANGED <<blockmap, disk>>
      /\ Moves(t, "table", call[t], i, copy[t], pos[t], to[t], block[t], b, 0, t \in dirty)
  <2>1. ~(b \in Blocks \ (bmap \cup {0}) /\ AllocateBlock(b))
    BY DEF AllocateBlock
  <2> QED BY <1>4, <2>1
<1>6. op[t] = "root" /\ UNCHANGED <<inodemap, inodes, files, lost>>
  BY DEF SetRoot
<1>7. Idles(t) /\ Here(t)' = l
  <2>1. Others(t) /\ Arrives(t, "table", call[t], i, copy[t], pos[t], to[t], block[t], b, 0)
        /\ (t \in dirty' <=> t \in dirty)
    BY <1>5 DEF Moves
  <2>2. Continues(t)
    BY <1>1, <1>2, <1>5, <1>6, <2>1 DEF Continues, Busy, inodemap, blockmap, Arrives
  <2> QED BY <1>2, <1>5, <1>6, <2>1, <2>2, OnTheWay DEF blockmap, Placing, Arrives
<1>8. Stands(t, W)'
  <2>1. copy'[t] = copy[t] /\ ino'[t] = i /\ depth'[t] = 0 /\ table'[t] = b
    BY <1>5 DEF Moves, Arrives
  <2>2. CASE b = 0
    BY <1>5, <1>7, <2>1, <2>2 DEF Stands
  <2>3. CASE b # 0
    <3>1. Nodes[i] = copy[t] /\ \A p \in Tree : BlockAt(<<i, p>>)' = BlockAt(<<i, p>>)
      BY <1>2, <1>7, IdlesIs
    <3>2. Stem(l, 0) \in Tree
      <4>1. 0 \in 0..Level(l)
        BY <1>3, Paths
      <4> QED BY <1>3, <4>1, StemIs
    <3>3. BlockAt(<<i, Stem(l, 0)>>) = b
      BY <1>3, <1>5, <3>1, AtPlaces
    <3>4. BlockAt(<<i, Stem(l, 0)>>)' = b
      BY <3>1, <3>2, <3>3
    <3> QED BY <1>5, <1>7, <2>1, <2>3, <3>4 DEF Stands
  <2> QED BY <2>2, <2>3
<1>9. Writes(t, W)'
  BY <1>5 DEF Moves, Arrives, Writes
<1> QED BY <1>7, <1>8, <1>9, IdleStep

\* A task stands at an indirect block of its file, after d indices.
Rests(t, i, l, d, e) ==
  /\ op[t] = "table" /\ copy[t].ptr[Root(Here(t))] # 0
  /\ i = ino[t] /\ l = Here(t) /\ d = depth[t] /\ e = d + 1

Stand(t, i, l, d, e) ==
  /\ l \in Logicals /\ Level(l) \in 1..3 /\ d \in 0..(Level(l) - 1) /\ Path[l][e] \in Entry
  /\ Stem(l, d) \in Tree /\ IsTable(Stem(l, d)) /\ Stem(l, e) \in Tree
  /\ <<i, Stem(l, d)>> \in Owns /\ <<i, Stem(l, e)>> \in Owns
  /\ Above(<<i, Stem(l, e)>>) = <<i, Stem(l, d)>> /\ Tip(Stem(l, e)) = Path[l][e]
  /\ Far(<<i, Stem(l, e)>>) = e
  /\ table[t] # 0 /\ table[t] = BlockAt(<<i, Stem(l, d)>>)
  /\ \A k \in Entry : disk[table[t]][k] \in Blocks
  /\ BlockAt(<<i, Stem(l, e)>>) = disk[table[t]][Path[l][e]]

\* It is the block of a position.
LEMMA StandsAt ==
  ASSUME InOrder, NEW W, Tidy(W), NEW t \in Tasks, NEW i, NEW l, NEW d, NEW e, Rests(t, i, l, d, e)
  PROVE  Stand(t, i, l, d, e)
<1> USE DEF Rests
<1>1. Typed /\ Going(t) /\ InOrder /\ Marked /\ Apart
  BY DEF InOrder, Tidy
<1>2. l \in Logicals /\ Level(l) \in 1..3 /\ d < Level(l) /\ Path[l][d + 1] \in Entry /\ d \in 0..2
  BY <1>1, PlacingIs
<1>3. e = d + 1
  OBVIOUS
<1>4. d \in 0..Level(l) /\ e \in 0..Level(l) /\ e > 0 /\ e - 1 = d /\ d \in 0..(Level(l) - 1)
  <2>1. PICK m : m = Level(l)
    OBVIOUS
  <2>2. m \in 1..3 /\ d \in 0..2 /\ d < m
    BY <1>2, <2>1
  <2>3. d \in 0..m /\ e \in 0..m /\ e > 0 /\ e - 1 = d /\ d \in 0..(m - 1)
    BY ONLY <1>3, <2>2
  <2> QED BY <2>1, <2>3
<1>5. /\ Stem(l, d) \in Tree /\ IsTable(Stem(l, d)) /\ Stem(l, e) \in Tree
      /\ Over(Stem(l, e)) = Stem(l, d) /\ Tip(Stem(l, e)) = Path[l][e] /\ Len(Stem(l, e)[2]) = e
  BY <1>2, <1>4, StemIs
<1>6. \A p \in Tree : <<i, p>> \in Owns
  BY <1>1, Working
<1>7. table[t] # 0 /\ table[t] = BlockAt(<<i, Stem(l, d)>>)
  BY DEF Tidy, Stands
<1>8. PICK x : x = <<i, Stem(l, d)>>
  OBVIOUS
<1>9. x \in Owns /\ x[2] = Stem(l, d) /\ BlockAt(x) = table[t]
  BY <1>5, <1>6, <1>7, <1>8
<1>10. \A k \in Entry : disk[table[t]][k] \in Blocks
  BY <1>5, <1>7, <1>9 DEF Tidy, Owned, Own, BlockAt
<1>11. BlockAt(<<i, Stem(l, e)>>) = disk[table[t]][Path[l][e]]
  <2>1. BlockAt(<<i, Stem(l, e)>>) = Follow(table[t], Path[l][e])
    <3>1. BlockAt(<<i, Stem(l, d + 1)>>) = Follow(BlockAt(<<i, Stem(l, d)>>), Path[l][d + 1])
      BY <1>2, <1>4, AtPlaces
    <3> QED BY <1>3, <1>7, <3>1
  <2>2. disk[table[t]][Path[l][e]] \in Nat /\ table[t] \in Nat
    BY <1>1, <1>2, <1>3, <1>10, Volume, LocalIs
  <2> QED BY <1>7, <2>1, <2>2 DEF Follow
<1> QED BY <1>2, <1>3, <1>4, <1>5, <1>6, <1>7, <1>10, <1>11 DEF Stand, Above, Far

\* An indirect block in between is there.
LEMMA TidyTableThere ==
  ASSUME NEW W, Ready(W), NEW t \in Tasks, SetTable(t), FollowsBlocks', bmap' = bmap
  PROVE  Tidy(W)'
<1>1. Typed /\ Going(t) /\ TakenBlocks \subseteq bmap /\ bmap \subseteq Blocks /\ W \subseteq bmap
  BY ReadyIs
<1>2. PICK i, l, d, T : i = ino[t] /\ l = Here(t) /\ d = depth[t] /\ T = table[t]
  OBVIOUS
<1>3. PICK k : k = Path[l][d + 1]
  OBVIOUS
<1>4. PICK b \in Blocks \ {0} :
        /\ Moves(t, "table", call[t], i, copy[t], pos[t], to[t], block[t], b, d + 1, t \in dirty)
        /\ \/ b = disk[T][k] /\ UNCHANGED <<blockmap, disk, lost>>
           \/ b \in Blocks \ (bmap \cup {0}) /\ AllocateBlock(b)
  BY <1>1, <1>2, <1>3, SetTableIs
<1>5. b = disk[T][k] /\ UNCHANGED <<blockmap, disk, lost>>
  <2>1. ~(b \in Blocks \ (bmap \cup {0}) /\ AllocateBlock(b))
    BY DEF AllocateBlock
  <2> QED BY <1>4, <2>1
<1>6. op[t] = "table" /\ UNCHANGED <<inodemap, inodes, files>> /\ d \in Nat
  BY <1>1, <1>2, LocalIs DEF SetTable
<1>7. Others(t) /\ Arrives(t, "table", call[t], i, copy[t], pos[t], to[t], block[t], b, d + 1)
      /\ (t \in dirty' <=> t \in dirty)
  BY <1>4 DEF Moves
<1>8. Idles(t) /\ Here(t)' = l
  <2>2. Continues(t)
    BY <1>1, <1>2, <1>5, <1>6, <1>7 DEF Continues, Busy, inodemap, blockmap, Arrives
  <2> QED BY <1>2, <1>5, <1>6, <1>7, <2>2, OnTheWay DEF blockmap, Placing, Arrives
<1>9. Stands(t, W)'
  <2>1. copy'[t] = copy[t] /\ ino'[t] = i /\ depth'[t] = d + 1 /\ table'[t] = b /\ d + 1 # 0
    BY <1>6, <1>7 DEF Arrives
  <2>2. CASE copy[t].ptr[Root(l)] = 0
    <3>1. T \in W \cup {0} /\ k \in Entry
      BY <1>1, <1>2, <1>3, <1>6, <2>2, PlacingIs DEF Ready, Tidy, Stands
    <3>2. b > 0
      <4>1. b \in Nat /\ b # 0
        BY <1>4, Volume
      <4> QED BY <4>1
    <3>3. b \in W
      BY <1>5, <3>1, <3>2 DEF Ready, Tidy, Astray
    <3> QED BY <1>8, <2>1, <2>2, <3>3 DEF Stands
  <2>3. CASE copy[t].ptr[Root(l)] # 0
    <3>1. Stem(l, d + 1) \in Tree /\ BlockAt(<<i, Stem(l, d + 1)>>) = b
      <4>1. copy[t].ptr[Root(Here(t))] # 0
        BY <1>2, <2>3
      <4>2. Stem(l, d + 1) \in Tree /\ BlockAt(<<i, Stem(l, d + 1)>>) = disk[table[t]][Path[l][d + 1]]
        <5>1. PICK e : e = d + 1
          OBVIOUS
        <5>2. op[t] = "table" /\ i = ino[t] /\ l = Here(t) /\ d = depth[t]
          BY <1>2, <1>6
        <5>3. Stem(l, e) \in Tree /\ BlockAt(<<i, Stem(l, e)>>) = disk[table[t]][Path[l][e]]
          <6>1. Rests(t, i, l, d, e)
            BY <4>1, <5>1, <5>2 DEF Rests
          <6>2. Stand(t, i, l, d, e)
            BY <6>1, StandsAt DEF Ready
          <6> QED BY ONLY <6>2 DEF Stand
        <5> QED BY <5>1, <5>3
      <4> QED BY <1>2, <1>3, <1>5, <4>2
    <3>2. BlockAt(<<i, Stem(l, d + 1)>>)' = b
      BY <1>2, <1>8, <3>1, IdlesIs
    <3> QED BY <1>4, <1>8, <2>1, <2>3, <3>2 DEF Stands
  <2> QED BY <2>2, <2>3
<1>10. Writes(t, W)'
  BY <1>7 DEF Arrives, Writes
<1> QED BY <1>8, <1>9, <1>10, IdleStep

\* A call ends that was not an unlink.
Finishes(t, i) ==
  /\ op[t] \in Busy /\ op'[t] = "user" /\ Others(t) /\ i = ino[t] /\ ino'[t] = 0 /\ call'[t] = "none"
  /\ files' = IF call[t] = "create" THEN files \cup {i} ELSE files
  /\ \A j \in Inodes \ {i} : inodes'[j] = inodes[j]
  /\ imap' = imap /\ TakenBlocks \subseteq bmap'

\* The file is left, and its positions are those of the inode on the disk.
LEMMA FinishesIs ==
  ASSUME NEW W, Ready(W), NEW t \in Tasks, NEW i, Finishes(t, i)
  PROVE  /\ Only(t, i) /\ Marked' /\ i \in Inodes /\ Nodes[i] = copy[t] /\ Nodes'[i] = inodes'[i]
         /\ \A p : Live(i, p) /\ Live(i, p)'
         /\ \A l : (EndsBy(i, l) <=> Edge(t) <= l) /\ (EndsBy(i, l)' <=> Count(inodes'[i].size) <= l)
         /\ \A p \in Tree : <<i, p>> \in Owns
         /\ ~Placing(t)' /\ Behind(t)' /\ Stands(t, W)' /\ Writes(t, W)' /\ Lacks(t)'
<1> USE DEF Finishes
<1>1. Typed /\ Going(t) /\ Apart /\ Marked /\ InOrder /\ InOrder' /\ op[t] # "user" /\ op[t] # "unlink"
  BY ReadyIs DEF Ready, Busy
<1>2. i \in Inodes /\ call[t] \in {"create", "write", "truncate"}
  BY <1>1, CallIs
<1>3. Only(t, i)
  <2>1. \A j \in Inodes \ {i} : inodes'[j] = inodes[j] /\ (j \in files' <=> j \in files)
    OBVIOUS
  <2> QED BY <1>1, <1>2, <2>1, OnlyIs
<1>4. Marked'
  BY <1>1, <1>2, MarkedEnds
<1>5. Nodes[i] = copy[t]
  BY <1>1, <1>2, CurrentIs
<1>6. Apart' /\ \A u \in Tasks : ino'[u] # i
  <2>1. \A u \in Tasks \ {t} : ino'[u] # i
    BY <1>1, <1>3, OtherTask
  <2>2. i # 0
    BY <1>2, Volume
  <2> QED BY <1>3, <2>1, <2>2 DEF Only
<1>7. Nodes'[i] = inodes'[i]
  BY <1>2, <1>6, CurrentNext
<1>8. i \in files'
  BY <1>1, <1>2 DEF Marked
<1>9. \A p : Live(i, p) /\ Live(i, p)'
  <2>1. \A u \in Tasks : ino[u] = i => u = t
    BY <1>1, <1>2, Volume DEF Apart
  <2>2. \A u \in Tasks : (ino[u] = i => op[u] # "clear") /\ (ino'[u] = i => op'[u] # "clear")
    BY <1>6, <2>1 DEF Busy
  <2> QED BY <1>1, <1>4, <1>8, <2>2, LiveOn
<1>10. \A l : (EndsBy(i, l) <=> Edge(t) <= l) /\ (EndsBy(i, l)' <=> Count(inodes'[i].size) <= l)
  BY <1>1, <1>2, <1>6, EndsByOwn
<1>11. \A p \in Tree : <<i, p>> \in Owns
  BY <1>1, Working DEF Busy
<1>12. ~Placing(t)' /\ Behind(t)' /\ Stands(t, W)' /\ Writes(t, W)' /\ Lacks(t)'
  BY DEF Placing, Behind, Stands, Writes, Lacks
<1> QED BY <1>2, <1>3, <1>4, <1>5, <1>7, <1>9, <1>10, <1>11, <1>12

\* The copy is written back.
LEMMA TidySaved ==
  ASSUME NEW W, Ready(W), NEW t \in Tasks, NEW i, Finishes(t, i), ~Placing(t), UNCHANGED <<bmap, disk, lost>>,
         \A s \in Slots : inodes'[i].ptr[s] = copy[t].ptr[s],
         \A l \in Logicals : Count(inodes'[i].size) <= l => Edge(t) <= l
  PROVE  Tidy(W)'
<1>1. /\ Only(t, i) /\ Marked' /\ i \in Inodes /\ Nodes[i] = copy[t] /\ Nodes'[i] = inodes'[i]
      /\ \A p : Live(i, p) /\ Live(i, p)'
      /\ \A l : (EndsBy(i, l) <=> Edge(t) <= l) /\ (EndsBy(i, l)' <=> Count(inodes'[i].size) <= l)
      /\ ~Placing(t)' /\ Behind(t)' /\ Stands(t, W)' /\ Writes(t, W)' /\ Lacks(t)'
  BY FinishesIs
<1>2. Still(t, i)
  <2>1. \A x \in Owns : x[2][1] \in Slots
    BY OwnsRooted, PositionsAre
  <2> QED BY <1>1, <2>1 DEF Still
<1> QED BY <1>1, <1>2, StillIs, SameStep DEF Ready

\* A truncate writes its copy back.
LEMMA TidyTruncateEnd ==
  ASSUME NEW W, Ready(W), NEW t \in Tasks, TruncateEnd(t)
  PROVE  Tidy(W)'
<1>1. Typed /\ Going(t) /\ TakenBlocks \subseteq bmap
  BY ReadyIs
<1>2. PICK i : i = ino[t]
  OBVIOUS
<1>3. /\ op[t] \in {"shrink", "grow"} /\ pos[t] = Count(to[t]) /\ Ends(t)
      /\ inodes' = [inodes EXCEPT ![i] = [copy[t] EXCEPT !.size = to[t]]]
      /\ UNCHANGED <<bitmaps, disk, lost>>
  BY <1>1, <1>2, ExactSave DEF TruncateEnd, Ready
<1>4. /\ i \in Inodes /\ Others(t) /\ Arrives(t, "user", "none", 0, NoInode, 0, 0, 0, 0, 0)
      /\ call[t] \in {"create", "truncate"}
  BY <1>1, <1>2, <1>3, TruncateEndIs, CallIs DEF Moves
<1>5. Finishes(t, i)
  BY <1>1, <1>2, <1>3, <1>4 DEF Finishes, Busy, Arrives, Ends, bitmaps
<1>6. inodes'[i].ptr = copy[t].ptr /\ inodes'[i].size = to[t]
  BY <1>1, <1>3, <1>4, LocalIs DEF Typed, StoreTypes, InodeType
<1>7. Edge(t) = Count(inodes'[i].size)
  BY <1>3, <1>4, <1>6 DEF Edge
<1> QED BY <1>3, <1>5, <1>6, <1>7, TidySaved DEF Placing, bitmaps

\* No file is so large that its size needs size_upper.
SizesFit == MaxBlocks * Words < SizeMod

\* A write writes its copy back.
LEMMA TidyWriteSaved ==
  ASSUME SizesFit, NEW W, Ready(W), NEW t \in Tasks, WriteEnd(t), Saves(t)
  PROVE  Tidy(W)'
<1>1. Typed /\ Going(t) /\ TakenBlocks \subseteq bmap
  BY ReadyIs
<1>2. PICK i, s : i = ino[t] /\ s = IF pos[t] > copy[t].size THEN pos[t] ELSE copy[t].size
  OBVIOUS
<1>3. /\ op[t] = "write" /\ pos[t] = to[t] /\ Ends(t)
      /\ inodes' = [inodes EXCEPT ![i] = [copy[t] EXCEPT !.size = s]]
      /\ UNCHANGED <<bitmaps, disk, lost>>
  <2>1. pos[t] < SizeMod /\ pos[t] % SizeMod = pos[t]
    <3>1. pos[t] \in Nat /\ pos[t] <= MaxBlocks * Words /\ MaxBlocks * Words \in Nat
      BY <1>1, LocalIs, FileIs DEF WriteEnd
    <3>2. SizeMod \in Nat /\ SizeMod > 0 /\ pos[t] < SizeMod
      BY <3>1, FileAssumption DEF SizesFit
    <3> QED BY <3>1, <3>2, Remainder
  <2>2. Written(copy[t], pos[t]) = [copy[t] EXCEPT !.size = s]
    <3>1. copy[t] \in InodeType
      BY <1>1, LocalIs
    <3>2. copy[t] = [copy[t] EXCEPT !.size = copy[t].size]
      BY <3>1 DEF InodeType
    <3> QED BY <1>2, <2>1, <3>2 DEF Written
  <2> QED BY <1>1, <1>2, <2>1, <2>2, ExactSave DEF WriteEnd, Ready
<1>4. /\ i \in Inodes /\ Others(t) /\ Arrives(t, "user", "none", 0, NoInode, 0, 0, 0, 0, 0)
      /\ call[t] = "write"
  BY <1>1, <1>2, WriteEndIs DEF Moves
<1>5. Finishes(t, i)
  BY <1>1, <1>2, <1>3, <1>4 DEF Finishes, Busy, Arrives, Ends, bitmaps
<1>6. inodes'[i].ptr = copy[t].ptr /\ inodes'[i].size = s
  BY <1>1, <1>3, <1>4, LocalIs DEF Typed, StoreTypes, InodeType
<1>7. pos[t] \in Nat /\ copy[t].size \in Nat /\ s \in Nat
  BY <1>1, <1>2, FileIs DEF Typed, LocalTypes, InodeType
<1>8. /\ Count(pos[t]) \in Nat /\ Count(copy[t].size) \in Nat /\ Count(s) \in Nat
      /\ Count(pos[t]) <= Count(s) /\ Count(copy[t].size) <= Count(s)
  <2>1. pos[t] <= s /\ copy[t].size <= s /\ 0 \in Int
    BY <1>2, <1>7
  <2> QED BY <1>7, <2>1, Counting, CountIs
<1>9. Edge(t) <= Count(s) /\ Edge(t) \in Nat
  BY <1>3, <1>4, <1>8 DEF Edge
<1>10. \A l \in Logicals : Count(inodes'[i].size) <= l => Edge(t) <= l
  <2>1. \A l \in Logicals : l \in Nat
    BY FileIs
  <2> QED BY <1>6, <1>8, <1>9, <2>1
<1> QED BY <1>3, <1>5, <1>6, <1>10, TidySaved DEF Placing, bitmaps

\* The blocks of files that the step touches are data.
Spares == \A x \in Owns : BlockAt(x) # 0 =>
            BlockAt(x) \in bmap' /\ (IsTable(x[2]) => disk'[BlockAt(x)] = disk[BlockAt(x)])

\* A task goes on with the pointers its file has.
LEMMA SameOn ==
  ASSUME NEW W, Ready(W), NEW t \in Tasks, Continues(t), NEW i, i = ino[t], copy'[t] = copy[t], Spares
  PROVE  /\ Same(t, i) /\ Marked' /\ Nodes[i] = copy[t] /\ Owns' = Owns
         /\ \A x \in Owns : BlockAt(x)' = BlockAt(x)
         /\ \A p \in Tree : <<i, p>> \in Owns
         /\ \A l : (EndsBy(i, l) <=> Edge(t) <= l) /\ (EndsBy(i, l)' <=> Edge(t)' <= l)
         /\ op'[t] # "shrink" /\ op[t] # "shrink" => Behind(t)'
<1>1. /\ Only(t, i) /\ Marked' /\ i \in Inodes /\ Nodes[i] = copy[t] /\ Nodes'[i] = copy'[t]
      /\ \A p : Live(i, p) /\ Live(i, p)'
      /\ \A l : (EndsBy(i, l) <=> Edge(t) <= l) /\ (EndsBy(i, l)' <=> Edge(t)' <= l)
      /\ \A p \in Tree : <<i, p>> \in Owns
  BY ContinuesIs
<1>2. Same(t, i)
  BY <1>1 DEF Same, Spares
<1>3. Owns' = Owns /\ \A x \in Owns : BlockAt(x)' = BlockAt(x)
  BY <1>2, SameFile DEF Ready
<1>4. ASSUME op'[t] # "shrink", op[t] # "shrink" PROVE Behind(t)'
  <2>1. Behind(t) /\ inodes' = inodes /\ ino'[t] = i /\ op[t] \in Busy
    BY DEF Ready, Tidy, Continues
  <2> QED BY <1>4, <2>1 DEF Behind, Busy
<1> QED BY <1>1, <1>2, <1>3, <1>4

\* Data is written where no indirect block is.
LEMMA Overwrites ==
  ASSUME NEW W, Ready(W), NEW b \in Blocks \ {0}, NEW f, disk' = [disk EXCEPT ![b] = f],
         \A k \in Entry : f[k] = disk[b][k] \/ f[k] <= 0,
         \A x \in Owns : IsTable(x[2]) => BlockAt(x) # b
  PROVE  /\ Quiet(-1, 0)
         /\ \A x \in Owns : BlockAt(x) # 0 /\ IsTable(x[2]) => disk'[BlockAt(x)] = disk[BlockAt(x)]
<1>1. disk \in [Blocks -> [Entry -> Word]] /\ bmap \subseteq Blocks
      /\ \A x \in Owns : BlockAt(x) # 0 => BlockAt(x) \in bmap
  BY DEF Ready, InOrder, Typed, StoreTypes, Marks, Tidy, Owned, Own, BlockAt
<1>2. disk'[b] = f /\ \A c \in Blocks : c # b => disk'[c] = disk[c]
  BY <1>1
<1>3. Quiet(-1, 0)
  BY <1>2 DEF Quiet
<1> QED BY <1>1, <1>2, <1>3

\* The place of a logical block has no indirect block.
LEMMA NotTable ==
  ASSUME NEW W, Ready(W), NEW z \in Owns, ~IsTable(z[2]), BlockAt(z) # 0
  PROVE  \A x \in Owns : IsTable(x[2]) => BlockAt(x) # BlockAt(z)
BY DEF Ready, Tidy, Owned, Own, BlockAt

\* Data is written to a block of the file, or to one that hangs on block 0.
LEMMA TidyWriteData ==
  ASSUME NEW W, Ready(W), NEW t \in Tasks, WriteData(t)
  PROVE  Tidy(W)'
<1>1. Typed /\ Going(t) /\ TakenBlocks \subseteq bmap /\ bmap \subseteq Blocks /\ W \subseteq bmap \ TakenBlocks
      /\ \A x \in Owns : BlockAt(x) # 0 => BlockAt(x) \in bmap
  BY ReadyIs
<1>2. PICK i, l, b : i = ino[t] /\ l = Here(t) /\ b = block[t]
  OBVIOUS
<1>3. /\ op[t] = "data" /\ UNCHANGED <<bitmaps, inodes, files, caller, copy, to, table, depth, dirty, lost>>
  BY DEF WriteData
<1>4. /\ call[t] = "write" /\ i \in Inodes /\ l \in Logicals
      /\ Others(t) /\ Arrives(t, "write", "write", i, copy[t], pos[t] + Chunk(t), to[t], 0, table[t], 0)
      /\ Chunk(t) \in Nat \ {0} /\ pos[t] + Chunk(t) <= (l + 1) * Words
      /\ \E f \in [Entry -> Word] :
           /\ disk' = [disk EXCEPT ![b] = f]
           /\ \A k \in Entry : f[k] = disk[b][k] \/ f[k] = Tag(i, l)
  BY <1>1, <1>2, WriteDataIs DEF Moves
<1>5. Continues(t)
  BY <1>1, <1>2, <1>3, <1>4 DEF Continues, Busy, Arrives, bitmaps
<1>6. PICK f \in [Entry -> Word] :
        /\ disk' = [disk EXCEPT ![b] = f]
        /\ \A k \in Entry : f[k] = disk[b][k] \/ f[k] = Tag(i, l)
  BY <1>4
<1>7. Tag(i, l) <= 0
  <2>1. i \in Nat /\ l \in Nat /\ MaxBlocks \in Nat
    BY <1>4, Volume, FileIs
  <2>2. PICK m \in Nat : m = i * MaxBlocks
    BY <2>1
  <2> QED BY <2>1, <2>2 DEF Tag
<1>8. b \in Blocks \ {0} /\ \A x \in Owns : IsTable(x[2]) => BlockAt(x) # b
  <2>1. b # 0 /\ (b \in W \/ b = BlockAt(<<i, Place(l)>>)) /\ b \in Blocks
    BY <1>1, <1>2, <1>3, LocalIs DEF Ready, Tidy, Writes
  <2>2. CASE b \in W
    BY <2>1, <2>2 DEF Ready, Tidy, Astray
  <2>3. CASE b = BlockAt(<<i, Place(l)>>)
    <3>1. PICK z : z = <<i, Place(l)>>
      OBVIOUS
    <3>2. z \in Owns /\ ~IsTable(z[2])
      BY <1>2, <1>4, <1>5, <3>1, PlaceIs, ContinuesIs
    <3> QED BY <2>1, <2>3, <3>1, <3>2, NotTable
  <2> QED BY <2>1, <2>2, <2>3
<1>9. /\ Quiet(-1, 0)
      /\ \A x \in Owns : BlockAt(x) # 0 /\ IsTable(x[2]) => disk'[BlockAt(x)] = disk[BlockAt(x)]
  BY <1>6, <1>7, <1>8, Overwrites
<1>10. Spares /\ copy'[t] = copy[t]
  BY <1>1, <1>3, <1>9 DEF Spares, bitmaps
<1>11. /\ Same(t, i) /\ Marked' /\ Behind(t)'
       /\ \A m : (EndsBy(i, m) <=> Edge(t) <= m) /\ (EndsBy(i, m)' <=> Edge(t)' <= m)
  BY <1>2, <1>3, <1>4, <1>5, <1>10, SameOn DEF Arrives
<1>12. Edge(t)' = Edge(t)
  <2>1. pos[t] \in Nat /\ l = pos[t] \div Words
    BY <1>1, <1>2, <1>4, LocalIs, WriteIsAt
  <2>2. Count(pos'[t]) = l + 1
    <3>1. PICK q \in Nat : q = pos[t] + Chunk(t)
      BY <1>4, <2>1
    <3>2. pos[t] < q /\ q <= (pos[t] \div Words + 1) * Words
      BY <1>4, <2>1, <3>1
    <3>3. Count(q) = pos[t] \div Words + 1
      BY <2>1, <3>2, CountHere
    <3> QED BY <1>4, <2>1, <3>1, <3>3 DEF Arrives
  <2> QED BY <1>2, <1>3, <1>4, <2>2 DEF Edge, Arrives
<1>13. Keeps(t, i)
  <2>1. ~Placing(t) /\ ~Placing(t)'
    BY <1>3, <1>4 DEF Placing, Arrives
  <2> QED BY <1>3, <1>9, <1>11, <1>12, <2>1 DEF Keeps, bitmaps
<1>14. Stands(t, W)' /\ Writes(t, W)' /\ Lacks(t)'
  BY <1>4 DEF Arrives, Stands, Writes, Lacks, Placing
<1> QED BY <1>11, <1>13, <1>14, SameStep DEF Ready

\* A truncate writes zeros behind the end, to a block of data.
LEMMA TidyTruncate ==
  ASSUME Faults = {}, NEW W, Ready(W), NEW t \in Tasks, NEW i \in Inodes, NEW size \in Sizes, Truncate(t, i, size)
  PROVE  Tidy(W)'
<1>1. Typed /\ Going(t) /\ TakenBlocks \subseteq bmap /\ bmap \subseteq Blocks
      /\ \A x \in Owns : BlockAt(x) # 0 => BlockAt(x) \in bmap
  BY ReadyIs
<1>2. PICK n, o : n = inodes[i] /\ o = IF size < inodes[i].size THEN "shrink" ELSE "grow"
  OBVIOUS
<1>3. /\ op[t] = "user" /\ i \in files /\ Free(i) /\ disk' = ZeroedTail(n, size)
      /\ UNCHANGED <<bitmaps, inodes, files, lost>>
  BY <1>2 DEF Truncate, Idle
<1>4. /\ Others(t) /\ Arrives(t, o, "truncate", i, n, Count(n.size), size, block[t], table[t], 0)
      /\ t \notin dirty' /\ size \in Nat /\ n.size \in Nat
      /\ size <= MaxBlocks * Words /\ n.size <= MaxBlocks * Words
  BY <1>1, <1>2, TruncateIs DEF Moves
<1>5. Begins(t, i)
  BY <1>2, <1>3, <1>4 DEF Begins, Arrives, Busy, bitmaps
<1>6. /\ Only(t, i) /\ Marked' /\ i \in Inodes /\ Nodes[i] = n /\ Nodes'[i] = n
      /\ \A p : Live(i, p) /\ Live(i, p)'
      /\ \A l : (EndsBy(i, l) <=> Count(n.size) <= l) /\ (EndsBy(i, l)' <=> Edge(t)' <= l)
      /\ \A p \in Tree : <<i, p>> \in Owns
      /\ Behind(t)'
  BY <1>2, <1>5, BeginsIs
<1>7. Edge(t)' = Count(n.size)
  BY <1>2, <1>4 DEF Edge, Arrives
<1>8. /\ Quiet(-1, 0)
      /\ \A x \in Owns : BlockAt(x) # 0 /\ IsTable(x[2]) => disk'[BlockAt(x)] = disk[BlockAt(x)]
  <2>1. PICK e : e = Least(n.size, size)
    OBVIOUS
  <2>2. PICK l, p : l = e \div Words /\ p = GetPhysical(n, l)
    OBVIOUS
  <2>3. CASE e % Words = 0 \/ p = 0
    <3>1. disk' = disk
      BY <1>3, <2>1, <2>2, <2>3 DEF ZeroedTail
    <3> QED BY <3>1 DEF Quiet
  <2>4. CASE ~(e % Words = 0 \/ p = 0)
    <3>1. l \in Logicals
      <4>1. e \in Nat /\ e <= MaxBlocks * Words
        BY <1>4, <2>1 DEF Least
      <4>2. e # MaxBlocks * Words
        <5>1. PICK m : m = MaxBlocks * Words
          OBVIOUS
        <5>2. m % Words = 0
          <6>1. Words \in Nat /\ Words > 0 /\ MaxBlocks \in Int /\ m \in Int /\ 0 \in 0..(Words - 1) /\ m = Words * MaxBlocks + 0
            BY <5>1, FileIs
          <6> QED BY ONLY <6>1, Unique
        <5> QED BY <2>4, <5>1, <5>2
      <4>3. e < MaxBlocks * Words
        BY <4>1, <4>2, FileIs
      <4> QED BY <2>2, <4>1, <4>3, Counting
    <3>2. PICK z : z = <<i, Place(l)>>
      OBVIOUS
    <3>3. z \in Owns /\ ~IsTable(z[2])
      BY <1>6, <3>1, <3>2, PlaceIs
    <3>4. BlockAt(z) = p
      BY <1>6, <2>2, <3>1, <3>2, AtPlaces
    <3>5. p \in Blocks \ {0}
      BY <1>1, <2>4, <3>3, <3>4
    <3>6. disk' = [disk EXCEPT ![p] = [k \in Entry |-> IF k >= e % Words THEN 0 ELSE @[k]]]
      BY <1>3, <2>1, <2>2, <2>4 DEF ZeroedTail
    <3>7. PICK f : f = [k \in Entry |-> IF k >= e % Words THEN 0 ELSE disk[p][k]]
      OBVIOUS
    <3>8. disk' = [disk EXCEPT ![p] = f]
      BY <3>6, <3>7
    <3>9. \A k \in Entry : f[k] = disk[p][k] \/ f[k] <= 0
      BY <3>7
    <3>10. \A x \in Owns : IsTable(x[2]) => BlockAt(x) # p
      BY <2>4, <3>3, <3>4, NotTable
    <3> QED BY <3>5, <3>8, <3>9, <3>10, Overwrites
  <2> QED BY <2>3, <2>4
<1>9. Same(t, i)
  BY <1>1, <1>3, <1>6, <1>8 DEF Same, bitmaps
<1>10. Keeps(t, i)
  <2>1. ~Placing(t) /\ ~Placing(t)'
    BY <1>2, <1>3, <1>4 DEF Placing, Arrives
  <2> QED BY <1>3, <1>6, <1>7, <1>8, <2>1 DEF Keeps, bitmaps
<1>11. Stands(t, W)' /\ Writes(t, W)' /\ Lacks(t)'
  BY <1>2, <1>4 DEF Arrives, Stands, Writes, Lacks, Placing
<1> QED BY <1>6, <1>9, <1>10, <1>11, SameStep DEF Ready

\* A block is taken that is linked when the indirect blocks before it are there.
LEMMA TidyTakes ==
  ASSUME NEW W, Ready(W), NEW t \in Tasks, WriteAllocate(t) \/ Grow(t), Level(Here(t)) > 0,
         NEW b, b = FreeBlock(InodeGroup[ino[t]]), b > 0
  PROVE  Tidy(W)'
<1>1. Typed /\ Going(t) /\ TakenBlocks \subseteq bmap /\ bmap \subseteq Blocks /\ 0 \in bmap
      /\ \A x \in Owns : BlockAt(x) # 0 => BlockAt(x) \in bmap
  BY ReadyIs
<1>2. PICK i, l : i = ino[t] /\ l = Here(t)
  OBVIOUS
<1>3. /\ op[t] \in {"write", "grow"} /\ i \in Inodes /\ l \in Logicals /\ b \in Blocks \ bmap
      /\ Others(t) /\ Arrives(t, "root", call[t], i, copy[t], pos[t], to[t], b, table[t], 0)
      /\ (t \in dirty' <=> t \in dirty) /\ UNCHANGED <<inodemap, inodes, files, lost>>
      /\ op[t] = "write" <=> call[t] = "write"
      /\ op[t] = "write" => GetPhysical(copy[t], l) = 0
      /\ AllocateBlock(b) /\ (disk' = disk \/ disk' = [disk EXCEPT ![b] = Zeros])
  <2>1. CASE WriteAllocate(t)
    <3>1. call[t] = "write" /\ i \in Inodes /\ l \in Logicals /\ b \in Blocks \ bmap
          /\ Moves(t, "root", "write", i, copy[t], pos[t], to[t], b, table[t], 0, t \in dirty)
      <4>1. ~(b < 0) /\ b # -1
        <5>1. b = -1 \/ b \in Blocks \ bmap
          BY <1>1, <2>1, WriteAllocateIs
        <5>2. b = -1 \/ b \in Nat
          BY <5>1, Volume
        <5> QED BY <5>2
      <4> QED BY <1>1, <1>2, <2>1, <4>1, WriteAllocateIs
    <3>2. ~(b < 0)
      BY <3>1, Volume
    <3>3. /\ op[t] = "write" /\ GetPhysical(copy[t], l) = 0 /\ AllocateBlock(b) /\ UNCHANGED <<inodemap, store, lost>>
      BY <1>2, <2>1, <3>2 DEF WriteAllocate
    <3> QED BY <3>1, <3>3 DEF store, Moves
  <2>2. CASE Grow(t)
    <3>1. call[t] \in {"create", "truncate"} /\ i \in Inodes /\ l \in Logicals
      BY <1>1, <1>2, <2>2, GrowIs
    <3>2. ~(b <= 0)
      <4>1. b \in Int
        <5>1. i \in Inodes
          BY <3>1
        <5>2. b = -1 \/ b \in Blocks
          BY <1>2, <5>1, FreeBlockIs, InGroups
        <5>3. b = -1 \/ b \in Nat
          BY <5>2, Volume
        <5> QED BY <5>3
      <4> QED BY <4>1
    <3>3. b \in Blocks \ (bmap \cup {0}) /\ AllocateBlock(b) /\ disk' = [disk EXCEPT ![b] = Zeros]
          /\ Moves(t, "root", call[t], i, copy[t], pos[t], to[t], b, table[t], 0, FALSE)
      BY <1>1, <1>2, <2>2, <3>2, GrowIs
    <3>4. t \notin dirty
      BY <1>1, <3>1 DEF Going, Fits
    <3>5. op[t] = "grow" /\ UNCHANGED <<inodemap, inodes, files, lost>>
      BY <2>2 DEF Grow
    <3> QED BY <3>1, <3>3, <3>4, <3>5 DEF Moves
  <2> QED BY <2>1, <2>2
<1>4. bmap' = bmap \cup {b} /\ b \in Blocks \ {0}
  BY <1>1, <1>3 DEF AllocateBlock
<1>5. Continues(t)
  BY <1>1, <1>2, <1>3, <1>4 DEF Continues, Busy, Arrives, inodemap
<1>6. /\ Quiet(-1, 0)
      /\ \A x \in Owns : BlockAt(x) # 0 /\ IsTable(x[2]) => disk'[BlockAt(x)] = disk[BlockAt(x)]
  <2>1. CASE disk' = disk
    BY <2>1 DEF Quiet
  <2>2. CASE disk' = [disk EXCEPT ![b] = Zeros]
    <3>1. \A k \in Entry : Zeros[k] <= 0
      BY DEF Zeros
    <3>2. \A x \in Owns : IsTable(x[2]) => BlockAt(x) # b
      BY <1>1, <1>3
    <3> QED BY <1>4, <2>2, <3>1, <3>2, Overwrites
  <2> QED BY <1>3, <2>1, <2>2
<1>7. Blank(disk', b)
  <2>1. Blank(disk, b)
    BY <1>3 DEF Ready, Tidy, Clean
  <2>2. disk' = [disk EXCEPT ![b] = Zeros] => disk'[b] = Zeros
    BY <1>3 DEF Ready, InOrder, Typed, StoreTypes
  <2> QED BY <1>3, <2>1, <2>2 DEF Blank, Zeros
<1>8. Spares /\ copy'[t] = copy[t] /\ op[t] # "shrink" /\ op'[t] # "shrink"
  BY <1>1, <1>3, <1>4, <1>6 DEF Spares, Arrives
<1>9. /\ Same(t, i) /\ Marked' /\ Behind(t)' /\ Nodes[i] = copy[t]
      /\ \A x \in Owns : BlockAt(x)' = BlockAt(x)
      /\ \A p \in Tree : <<i, p>> \in Owns
      /\ \A m : (EndsBy(i, m) <=> Edge(t) <= m) /\ (EndsBy(i, m)' <=> Edge(t)' <= m)
  BY <1>2, <1>5, <1>8, SameOn
<1>10. Edge(t)' = Edge(t) /\ Here(t)' = l
  BY <1>2, <1>3 DEF Edge, Here, Arrives
<1>11. Keeps(t, i)
  <2>1. ~Placing(t) /\ block'[t] = b
    BY <1>3 DEF Placing, Arrives
  <2>2. Placing(t)' => Fresh(t, block'[t]) /\ block'[t] \in bmap' /\ Blank(disk', block'[t])
    BY <1>3, <1>4, <1>7, <2>1 DEF Fresh
  <2>3. Placing(t)'
    BY <1>3 DEF Placing, Arrives
  <2> QED BY <1>3, <1>4, <1>6, <1>9, <1>10, <2>1, <2>2, <2>3 DEF Keeps
<1>12. Lacks(t)'
  <2>1. SUFFICES ASSUME call[t] = "write" PROVE BlockAt(<<i, Place(l)>>)' = 0
    BY <1>2, <1>3, <1>10 DEF Lacks, Arrives
  <2>2. PICK x : x = <<i, Place(l)>>
    OBVIOUS
  <2>3. x \in Owns
    BY <1>3, <1>9, <2>2, PlaceIs
  <2>4. BlockAt(x) = 0
    <3>1. GetPhysical(Nodes[i], l) = 0
      BY <1>3, <1>9, <2>1
    <3> QED BY <1>3, <2>2, <3>1, AtPlaces
  <2> QED BY <1>9, <2>2, <2>3, <2>4
<1>13. Stands(t, W)' /\ Writes(t, W)'
  BY <1>3 DEF Arrives, Stands, Writes
<1> QED BY <1>9, <1>11, <1>12, <1>13, SameStep DEF Ready

\* A block that hangs on nothing but block 0 is lost.
Hangs(t, T, v, W) ==
  /\ Continues(t) /\ copy'[t] = copy[t] /\ op[t] = "table" /\ op'[t] # "shrink"
  /\ T \in W \cup {0} /\ Fresh(t, v) /\ bmap' = bmap \cup {v} /\ lost' = lost \cup {v}
  /\ \A c \in Blocks : c # T /\ c # v => disk'[c] = disk[c]
  /\ Blank(disk', v)
  /\ \A k \in Entry : disk'[T][k] = disk[T][k] \/ disk'[T][k] = v
  /\ Placing(t)' => block'[t] = block[t] /\ v # block[t]
  /\ v = block[t] \/ Placing(t)'
  /\ \A l \in Logicals : Edge(t)' <= l => Edge(t) <= l

\* Then the invariant holds after the step, with the block among those of block 0.
LEMMA LostStep ==
  ASSUME NEW W, Ready(W), NEW t \in Tasks, NEW T, NEW v, Hangs(t, T, v, W),
         Stands(t, W \cup {v})', Writes(t, W \cup {v})', Lacks(t)'
  PROVE  Tidy(W \cup {v})'
<1> USE DEF Hangs
<1>1. Typed /\ Going(t) /\ TakenBlocks \subseteq bmap /\ bmap \subseteq Blocks /\ W \subseteq bmap \ TakenBlocks /\ 0 \in bmap
      /\ \A x \in Owns : BlockAt(x) # 0 => BlockAt(x) \in bmap \ TakenBlocks
  BY ReadyIs
<1>2. PICK i : i = ino[t]
  OBVIOUS
<1>3. v \in Blocks \ {0} /\ v \notin W /\ \A x \in Owns : BlockAt(x) # v
  BY FreshIs DEF Ready
<1>4. T \in bmap /\ T \in Blocks /\ T # v /\ \A x \in Owns : BlockAt(x) # 0 => BlockAt(x) # T
  BY <1>1, <1>3, Volume DEF Ready, Tidy, Astray
<1>5. Spares
  BY <1>1, <1>3, <1>4 DEF Spares
<1>6. /\ Same(t, i) /\ Marked' /\ Behind(t)' /\ Owns' = Owns
      /\ \A x \in Owns : BlockAt(x)' = BlockAt(x)
      /\ \A m : (EndsBy(i, m) <=> Edge(t) <= m) /\ (EndsBy(i, m)' <=> Edge(t)' <= m)
  BY <1>2, <1>5, SameOn
<1>7. Owned'
  BY <1>6, SameFile DEF Ready
<1>8. Quiet(T, v)
  BY <1>3, <1>4 DEF Quiet, Blank
<1>9. Placing(t) /\ block[t] \in bmap \ TakenBlocks /\ block[t] \notin W /\ Blank(disk, block[t])
      /\ (\A x \in Owns : BlockAt(x) # block[t]) /\ Fresh(t, block[t])
  <2>1. Placing(t) /\ Spare(t, W)
    BY DEF Ready, Tidy, Placing
  <2> QED BY <1>1, <2>1 DEF Spare, Fresh
<1>10. Placing(t)' => /\ Fresh(t, block'[t]) /\ block'[t] \in bmap' /\ Blank(disk', block'[t])
                      /\ block'[t] # v /\ \A x \in Owns' : BlockAt(x)' # block'[t]
  <2> SUFFICES ASSUME Placing(t)'
               PROVE  Fresh(t, block'[t]) /\ block'[t] \in bmap' /\ Blank(disk', block'[t])
                      /\ block'[t] # v /\ \A x \in Owns' : BlockAt(x)' # block'[t]
    OBVIOUS
  <2>1. block'[t] = block[t] /\ block[t] # v /\ block[t] # T
    BY <1>1, <1>9, Volume
  <2>2. disk'[block[t]] = disk[block[t]]
    BY <1>1, <1>9, <2>1
  <2> QED BY <1>6, <1>9, <2>1, <2>2 DEF Blank
<1>11. Changes(t, i, W, T, v)
  <2>1. Only(t, i)
    BY <1>6 DEF Same
  <2>2. \A x \in Owns' : x \in Owns /\ BlockAt(x)' = BlockAt(x)
    BY <1>6
  <2> QED BY <1>4, <1>8, <1>10, <2>1, <2>2 DEF Changes
<1>12. Settled(t, i)
  <2>2. ASSUME NEW x \in Owns', NEW l \in Logicals, x[1] = i, x[2] = Place(l), EndsBy(i, l)', BlockAt(x)' # 0
        PROVE  l >= Direct /\ BlockAt(x)' \in lost'
    <3>1. EndsBy(x[1], l) /\ x \in Owns /\ BlockAt(x)' = BlockAt(x)
      BY <1>6, <2>2
    <3>2. l >= Direct /\ BlockAt(x) \in lost
      BY <2>2, <3>1 DEF Ready, Tidy, Beyond
    <3> QED BY <3>1, <3>2
  <2>3. ASSUME NEW b \in bmap', b \notin bmap \/ Gone(t, i, b)
        PROVE  b \in lost' \/ (\E x \in Owns' : BlockAt(x)' = b) \/ (Placing(t)' /\ block'[t] = b)
    BY <1>6, <2>3 DEF Gone
  <2> QED BY <2>2, <2>3 DEF Settled
<1>13. Spread(W, T, v) = W \cup {v}
  BY DEF Spread
<1>14. Tidy(Spread(W, T, v))'
  <2>1. Stands(t, Spread(W, T, v))' /\ Writes(t, Spread(W, T, v))'
    BY <1>13
  <2>2. InOrder /\ InOrder' /\ Tidy(W)
    BY DEF Ready
  <2> QED BY <1>6, <1>7, <1>11, <1>12, <2>1, <2>2, TidyNext
<1> QED BY <1>13, <1>14

\* What a place lacks it lacks after a step that leaves the file as it is.
LEMMA LacksStays ==
  ASSUME NEW W, Ready(W), NEW t \in Tasks, Continues(t), Placing(t), pos'[t] = pos[t], copy'[t] = copy[t], Spares
  PROVE  Lacks(t)'
<1>1. Here(t)' = Here(t) /\ ino'[t] = ino[t] /\ call'[t] = call[t]
  BY DEF Here, Continues
<1>2. Here(t) \in Logicals
  BY ReadyIs, HereIs DEF Placing
<1>3. Lacks(t)
  BY DEF Ready, Tidy
<1>4. PICK x : x = <<ino[t], Place(Here(t))>>
  OBVIOUS
<1>5. x \in Owns /\ BlockAt(x)' = BlockAt(x)
  <2>1. /\ \A y \in Owns : BlockAt(y)' = BlockAt(y)
        /\ \A p \in Tree : <<ino[t], p>> \in Owns
    BY SameOn
  <2> QED BY <1>2, <1>4, <2>1, PlaceIs
<1> QED BY <1>1, <1>3, <1>4, <1>5 DEF Lacks

\* An indirect block that hangs on block 0.
LEMMA TidyTableLost ==
  ASSUME NEW W, Ready(W), NEW t \in Tasks, SetTable(t), FollowsBlocks', bmap' # bmap, copy[t].ptr[Root(Here(t))] = 0
  PROVE  \E V : Tidy(V)'
<1>1. Typed /\ Going(t) /\ TakenBlocks \subseteq bmap /\ bmap \subseteq Blocks /\ W \subseteq bmap \ TakenBlocks /\ 0 \in bmap
      /\ \A x \in Owns : BlockAt(x) # 0 => BlockAt(x) \in bmap
  BY ReadyIs
<1>2. PICK i, l, d, T : i = ino[t] /\ l = Here(t) /\ d = depth[t] /\ T = table[t]
  OBVIOUS
<1>3. PICK k : k = Path[l][d + 1]
  OBVIOUS
<1>4. PICK b \in Blocks \ {0} :
        /\ Moves(t, "table", call[t], i, copy[t], pos[t], to[t], block[t], b, d + 1, t \in dirty)
        /\ \/ b = disk[T][k] /\ UNCHANGED <<blockmap, disk, lost>>
           \/ /\ disk[T][k] = 0 /\ b \in Blocks \ (bmap \cup {0}) /\ AllocateBlock(b)
              /\ disk' = [disk EXCEPT ![b] = Zeros, ![T][k] = b] /\ lost' = Lost(t, b)
  BY <1>1, <1>2, <1>3, SetTableIs
<1>5. b \in Blocks \ (bmap \cup {0}) /\ bmap' = bmap \cup {b}
      /\ disk' = [disk EXCEPT ![b] = Zeros, ![T][k] = b] /\ lost' = lost \cup {b}
  BY <1>2, <1>4 DEF AllocateBlock, Lost, blockmap
<1>6. op[t] = "table" /\ UNCHANGED <<inodemap, inodes, files>> /\ d \in Nat
  BY <1>1, <1>2, LocalIs DEF SetTable
<1>7. Others(t) /\ Arrives(t, "table", call[t], i, copy[t], pos[t], to[t], block[t], b, d + 1)
      /\ (t \in dirty' <=> t \in dirty)
  BY <1>4 DEF Moves
<1>8. Continues(t) /\ Here(t)' = l /\ Edge(t)' = Edge(t)
  BY <1>1, <1>2, <1>5, <1>6, <1>7 DEF Continues, Busy, inodemap, Arrives, Here, Edge
<1>9. T \in W \cup {0} /\ T \in Blocks /\ T # b /\ k \in Entry
  <2>1. Stands(t, W)
    BY DEF Ready, Tidy
  <2>2. T \in W \cup {0}
    BY <1>2, <1>6, <2>1 DEF Stands
  <2> QED BY <1>1, <1>2, <1>3, <1>5, <1>6, <2>2, PlacingIs
<1>10. /\ disk'[b] = Zeros /\ \A c \in Blocks : c # T /\ c # b => disk'[c] = disk[c]
       /\ \A j \in Entry : disk'[T][j] = disk[T][j] \/ disk'[T][j] = b
  <2>1. disk \in [Blocks -> [Entry -> Word]]
    BY <1>1 DEF Typed, StoreTypes
  <2> QED BY <1>5, <1>9, <2>1
<1>11. block[t] # b
  BY <1>5, <1>6 DEF Ready, Tidy, Spare, Placing
<1>12. Hangs(t, T, b, W)
  <2>1. Fresh(t, b) /\ Blank(disk', b)
    <3>1. \A j \in Entry : Zeros[j] <= 0
      BY DEF Zeros
    <3> QED BY <1>5, <1>10, <3>1 DEF Fresh, Blank
  <2> QED BY <1>5, <1>6, <1>7, <1>8, <1>9, <1>10, <1>11, <2>1 DEF Hangs, Arrives, Placing
<1>13. Spares
  BY <1>1, <1>5, <1>9, <1>10, ZenonT(40) DEF Spares, Ready, Tidy, Astray
<1>14. Lacks(t)'
  BY <1>6, <1>7, <1>8, <1>13, LacksStays DEF Arrives, Placing
<1>15. Stands(t, W \cup {b})' /\ Writes(t, W \cup {b})'
  <2>1. d + 1 # 0
    BY <1>6
  <2> QED BY <1>2, <1>7, <1>8, <2>1 DEF Arrives, Stands, Writes
<1> QED BY <1>12, <1>14, <1>15, LostStep

\* Data that hangs on block 0.
LEMMA TidyEntryLost ==
  ASSUME NEW W, Ready(W), NEW t \in Tasks, SetEntry(t), copy[t].ptr[Root(Here(t))] = 0
  PROVE  \E V : Tidy(V)'
<1>1. Typed /\ Going(t) /\ TakenBlocks \subseteq bmap /\ bmap \subseteq Blocks /\ W \subseteq bmap \ TakenBlocks /\ 0 \in bmap
  BY ReadyIs
<1>2. PICK i, l, d, T, b : i = ino[t] /\ l = Here(t) /\ d = depth[t] /\ T = table[t] /\ b = block[t]
  OBVIOUS
<1>3. PICK k : k = Path[l][d + 1]
  OBVIOUS
<1>4. /\ op[t] = "table" /\ UNCHANGED <<bitmaps, inodes, files>> /\ lost' = lost \cup {b}
  BY <1>2 DEF SetEntry, Lost
<1>5. /\ disk' = [disk EXCEPT ![T] = [@ EXCEPT ![k] = b]]
      /\ call[t] = "write" =>
           Moves(t, "data", "write", i, copy[t], pos[t], to[t], b, 0, 0, TRUE)
      /\ call[t] # "write" =>
           /\ call[t] \in {"create", "truncate"}
           /\ Moves(t, "grow", call[t], i, copy[t], pos[t] + 1, to[t], 0, 0, 0, FALSE)
  BY <1>1, <1>2, <1>3, SetEntryIs
<1>6. Others(t) /\ copy'[t] = copy[t] /\ ino'[t] = i /\ call'[t] = call[t] /\ op'[t] \in {"data", "grow"}
      /\ (op'[t] = "data" => block'[t] = b)
  BY <1>5 DEF Moves, Arrives
<1>7. Continues(t)
  BY <1>1, <1>2, <1>4, <1>6 DEF Continues, Busy, bitmaps
<1>8. T \in W \cup {0} /\ T \in Blocks /\ k \in Entry
  <2>1. Stands(t, W)
    BY DEF Ready, Tidy
  <2>2. T \in W \cup {0}
    BY <1>2, <1>4, <2>1 DEF Stands
  <2> QED BY <1>1, <1>2, <1>3, <1>4, <2>2, PlacingIs
<1>9. b \in bmap \ TakenBlocks /\ b \notin W /\ Blank(disk, b) /\ Fresh(t, b) /\ b # T
  <2>1. Placing(t) /\ Spare(t, W)
    BY <1>4 DEF Ready, Tidy, Placing
  <2> QED BY <1>1, <1>2, <1>8, <2>1, Volume DEF Spare, Fresh
<1>10. /\ \A c \in Blocks : c # T => disk'[c] = disk[c]
       /\ \A j \in Entry : disk'[T][j] = disk[T][j] \/ disk'[T][j] = b
  <2>1. disk \in [Blocks -> [Entry -> Word]]
    BY <1>1 DEF Typed, StoreTypes
  <2> QED BY <1>5, <1>8, <2>1
<1>11. \A m \in Logicals : Edge(t)' <= m => Edge(t) <= m
  <2>1. CASE call[t] = "write"
    <3>1. t \in dirty' /\ op'[t] = "data" /\ Here(t)' = l /\ copy'[t] = copy[t] /\ call'[t] = "write"
      BY <1>2, <1>5, <2>1 DEF Moves, Arrives, Here
    <3>2. Edge(t)' = IF l + 1 > Count(copy[t].size) THEN l + 1 ELSE Count(copy[t].size)
      BY <3>1 DEF Edge
    <3>3. Edge(t) = IF t \in dirty /\ Count(pos[t]) > Count(copy[t].size) THEN Count(pos[t]) ELSE Count(copy[t].size)
      BY <1>4, <2>1 DEF Edge
    <3>4. l \in Nat /\ Count(pos[t]) \in Nat /\ Count(pos[t]) <= l + 1 /\ Count(copy[t].size) \in Nat
      BY <1>1, <1>2, <2>1, WriteIsAt
    <3>5. \A m \in Logicals : m \in Nat
      BY FileIs
    <3> QED BY <3>2, <3>3, <3>4, <3>5
  <2>2. CASE call[t] # "write"
    <3>1. Edge(t) = pos[t] /\ Edge(t)' = pos[t] + 1 /\ pos[t] \in Nat
      BY <1>1, <1>4, <1>5, <2>2, LocalIs DEF Edge, Moves, Arrives
    <3>2. \A m \in Logicals : m \in Nat
      BY FileIs
    <3> QED BY <3>1, <3>2
  <2> QED BY <2>1, <2>2
<1>12. Hangs(t, T, b, W)
  <2>1. Blank(disk', b)
    BY <1>1, <1>9, <1>10 DEF Blank
  <2>2. bmap' = bmap \cup {b}
    BY <1>4, <1>9 DEF bitmaps
  <2>3. ~Placing(t)'
    BY <1>6 DEF Placing
  <2> QED BY <1>2, <1>4, <1>6, <1>7, <1>8, <1>9, <1>10, <1>11, <2>1, <2>2, <2>3 DEF Hangs
<1>13. Stands(t, W \cup {b})' /\ Writes(t, W \cup {b})' /\ Lacks(t)'
  <2>1. b # 0
    BY <1>9, Volume
  <2> QED BY <1>6, <2>1 DEF Stands, Writes, Lacks, Placing
<1> QED BY <1>12, <1>13, LostStep

\* What has to be shown of a step that goes on and puts block v at a position.
Links(t, z, v) ==
  /\ v = 0 \/ (Fresh(t, v) /\ v \in bmap')
  /\ Far(z) > 0 => BlockAt(Above(z)) # 0
  /\ IsTable(z[2]) => BlockAt(z) = 0 /\ v # 0 /\ \A k \in Entry : disk'[v][k] = 0
  /\ \A s \in Slots : copy'[t].ptr[s] = IF Far(z) = 0 /\ s = z[2][1] THEN v ELSE copy[t].ptr[s]
  /\ \A x \in Owns : IsTable(x[2]) /\ BlockAt(x) # 0 =>
       \A k \in Entry : disk'[BlockAt(x)][k]
         = IF Far(z) > 0 /\ x = Above(z) /\ k = Tip(z[2]) THEN v ELSE disk[BlockAt(x)][k]
  /\ \A x \in Owns : x # z /\ BlockAt(x) # 0 => BlockAt(x) \in bmap'

\* Such a step puts the block there and leaves the other positions.
LEMMA PutsOn ==
  ASSUME NEW W, Ready(W), NEW t \in Tasks, Continues(t), NEW i, i = ino[t], NEW z, z \in Owns, z[1] = i,
         NEW v, Links(t, z, v)
  PROVE  /\ Puts(t, i, z, v) /\ Marked' /\ Nodes[i] = copy[t]
         /\ \A l : (EndsBy(i, l) <=> Edge(t) <= l) /\ (EndsBy(i, l)' <=> Edge(t)' <= l)
         /\ BlockAt(z)' = v /\ \A x \in Owns : x # z => BlockAt(x)' = BlockAt(x)
<1>1. /\ Only(t, i) /\ Marked' /\ i \in Inodes /\ Nodes[i] = copy[t] /\ Nodes'[i] = copy'[t]
      /\ \A p : Live(i, p) /\ Live(i, p)'
      /\ \A l : (EndsBy(i, l) <=> Edge(t) <= l) /\ (EndsBy(i, l)' <=> Edge(t)' <= l)
  BY ContinuesIs
<1>2. Puts(t, i, z, v)
  BY <1>1 DEF Puts, Links
<1>3. BlockAt(z)' = v /\ \A x \in Owns : x # z => BlockAt(x)' = BlockAt(x)
  BY <1>2, PutsIs
<1> QED BY <1>1, <1>2, <1>3

\* A place in the inode itself.
LEMMA DirectPlace ==
  ASSUME NEW l \in Logicals, Level(l) = 0, NEW i, NEW z, z = <<i, Place(l)>>
  PROVE  /\ z[1] = i /\ z[2] = Place(l) /\ z[2][1] = l /\ Far(z) = 0 /\ ~IsTable(z[2]) /\ l < Direct
         /\ BlockAt(z) = Nodes[i].ptr[l] /\ BlockAt(z) = GetPhysical(Nodes[i], l)
<1>1. /\ Place(l) \in Tree /\ ~IsTable(Place(l)) /\ Place(l)[1] = Root(l) /\ Len(Place(l)[2]) = 0
      /\ l < Direct /\ Root(l) = l
  BY PlaceIs, Paths
<1>2. Far(z) = 0 /\ z[2] = Place(l) /\ z[1] = i
  BY <1>1 DEF Far
<1>3. BlockAt(z) = GetPhysical(Nodes[i], l)
  BY AtPlaces
<1>4. BlockAt(z) = Nodes[i].ptr[l]
  <2>1. PICK n, p : n = Nodes[i] /\ p = Place(l)
    OBVIOUS
  <2>2. Reach(disk, n, p) = n.ptr[p[1]]
    BY <1>1, <2>1, ReachIs
  <2> QED BY <1>1, <1>2, <2>1, <2>2 DEF BlockAt, Has
<1> QED BY <1>1, <1>2, <1>3, <1>4

\* A block is taken for a direct pointer.
LEMMA TidyTakesDirect ==
  ASSUME NEW W, Ready(W), NEW t \in Tasks, WriteAllocate(t) \/ Grow(t), Level(Here(t)) = 0,
         NEW b, b = FreeBlock(InodeGroup[ino[t]]), b > 0
  PROVE  Tidy(W)'
<1>1. Typed /\ Going(t) /\ TakenBlocks \subseteq bmap /\ bmap \subseteq Blocks /\ 0 \in bmap
      /\ \A x \in Owns : BlockAt(x) # 0 => BlockAt(x) \in bmap
  BY ReadyIs
<1>2. PICK i, l, n : i = ino[t] /\ l = Here(t) /\ n = [copy[t] EXCEPT !.ptr[l] = b]
  OBVIOUS
<1>3. ~(b <= 0) /\ ~(b < 0) /\ b # -1 /\ b \in Int
  <2>1. ino[t] \in Inodes
    BY <1>1, WriteAllocateIs, GrowIs
  <2>2. b = -1 \/ b \in Blocks
    BY <2>1, FreeBlockIs, InGroups
  <2>3. b = -1 \/ b \in Nat
    BY <2>2, Volume
  <2> QED BY <2>3
<1>4. /\ op[t] \in {"write", "grow"} /\ i \in Inodes /\ l \in Logicals /\ b \in Blocks \ bmap /\ l \in Slots
      /\ Others(t) /\ ino'[t] = i /\ call'[t] = call[t] /\ copy'[t] = n
      /\ UNCHANGED <<inodemap, inodes, files, lost>>
      /\ AllocateBlock(b) /\ (disk' = disk \/ disk' = [disk EXCEPT ![b] = Zeros])
      /\ \/ /\ op[t] = "write" /\ call[t] = "write" /\ GetPhysical(copy[t], l) = 0
            /\ op'[t] = "data" /\ block'[t] = b /\ t \in dirty' /\ pos'[t] = pos[t]
         \/ op[t] = "grow" /\ call[t] # "write" /\ l = pos[t] /\ op'[t] = "grow" /\ pos'[t] = pos[t] + 1
  <2>1. CASE WriteAllocate(t)
    <3>1. call[t] = "write" /\ i \in Inodes /\ l \in Logicals /\ b \in Blocks \ bmap
          /\ Moves(t, "data", "write", i, n, pos[t], to[t], b, table[t], 0, TRUE) /\ l \in Slots
      <4>1. ~(Level(Here(t)) > 0)
        OBVIOUS
      <4>2. /\ call[t] = "write" /\ ino[t] \in Inodes /\ Here(t) \in Logicals /\ Here(t) \in Slots
            /\ Moves(t, "data", "write", ino[t], [copy[t] EXCEPT !.ptr[Here(t)] = b], pos[t], to[t], b, table[t], 0, TRUE)
        BY <1>1, <1>3, <2>1, <4>1, WriteAllocateIs
      <4>3. b \in Blocks \ bmap
        BY <1>1, <1>3, <2>1, WriteAllocateIs
      <4> QED BY <1>2, <4>2, <4>3
    <3>3. /\ op[t] = "write" /\ GetPhysical(copy[t], l) = 0 /\ AllocateBlock(b) /\ UNCHANGED <<inodemap, store, lost>>
      BY <1>2, <1>3, <2>1 DEF WriteAllocate
    <3> QED BY <3>1, <3>3 DEF store, Moves, Arrives
  <2>2. CASE Grow(t)
    <3>1. call[t] \in {"create", "truncate"} /\ i \in Inodes /\ l \in Logicals /\ l = pos[t]
      BY <1>1, <1>2, <2>2, GrowIs
    <3>3. b \in Blocks \ (bmap \cup {0}) /\ AllocateBlock(b) /\ disk' = [disk EXCEPT ![b] = Zeros]
          /\ Moves(t, "grow", call[t], i, n, pos[t] + 1, to[t], block[t], table[t], 0, FALSE) /\ l \in Slots
      <4>1. ~(Level(Here(t)) > 0)
        OBVIOUS
      <4>2. /\ b \in Blocks \ (bmap \cup {0}) /\ AllocateBlock(b) /\ disk' = [disk EXCEPT ![b] = Zeros]
            /\ Here(t) \in Slots
            /\ Moves(t, "grow", call[t], ino[t], [copy[t] EXCEPT !.ptr[Here(t)] = b], pos[t] + 1, to[t], block[t], table[t], 0, FALSE)
        BY <1>1, <1>3, <2>2, <4>1, GrowIs
      <4> QED BY <1>2, <4>2
    <3>5. op[t] = "grow" /\ UNCHANGED <<inodemap, inodes, files, lost>>
      BY <2>2 DEF Grow
    <3> QED BY <3>1, <3>3, <3>5 DEF Moves, Arrives
  <2> QED BY <2>1, <2>2
<1>5. bmap' = bmap \cup {b} /\ b \in Blocks \ {0} /\ Fresh(t, b)
  BY <1>1, <1>4 DEF AllocateBlock, Fresh
<1>6. Continues(t)
  BY <1>1, <1>2, <1>4, <1>5 DEF Continues, Busy, inodemap
<1>7. /\ Quiet(-1, b)
      /\ \A x \in Owns : BlockAt(x) # 0 /\ IsTable(x[2]) => disk'[BlockAt(x)] = disk[BlockAt(x)]
  <2>1. CASE disk' = disk
    BY <2>1 DEF Quiet
  <2>2. CASE disk' = [disk EXCEPT ![b] = Zeros]
    <3>1. \A k \in Entry : Zeros[k] <= 0
      BY DEF Zeros
    <3>2. \A x \in Owns : IsTable(x[2]) => BlockAt(x) # b
      BY <1>1, <1>4
    <3>3. Quiet(-1, 0)
      BY <1>5, <2>2, <3>1, <3>2, Overwrites
    <3>4. Quiet(-1, b)
      <4>1. \A c \in Blocks : c # -1
        BY Volume
      <4> QED BY <3>3, <4>1 DEF Quiet
    <3> QED BY <1>5, <2>2, <3>1, <3>2, <3>4, Overwrites
  <2> QED BY <1>4, <2>1, <2>2
<1>8. PICK z : z = <<i, Place(l)>>
  OBVIOUS
<1>9. /\ z[1] = i /\ z[2] = Place(l) /\ z[2][1] = l /\ Far(z) = 0 /\ ~IsTable(z[2]) /\ l < Direct
      /\ BlockAt(z) = Nodes[i].ptr[l] /\ BlockAt(z) = GetPhysical(Nodes[i], l)
  BY <1>2, <1>4, <1>8, DirectPlace
<1>10. z \in Owns /\ Nodes[i] = copy[t] /\ \A m : (EndsBy(i, m) <=> Edge(t) <= m)
  BY <1>2, <1>4, <1>6, <1>8, PlaceIs, ContinuesIs
<1>11. BlockAt(z) = 0
  <2>1. CASE op[t] = "write"
    BY <1>4, <1>9, <1>10, <2>1
  <2>2. CASE op[t] = "grow"
    <3>1. Edge(t) <= l
      BY <1>1, <1>4, <2>2, LocalIs DEF Edge
    <3>2. EndsBy(z[1], l)
      BY <1>9, <1>10, <3>1
    <3>3. l \in Nat /\ Direct \in Nat
      BY <1>4, FileIs
    <3> QED BY <1>4, <1>9, <1>10, <3>2, <3>3 DEF Ready, Tidy, Beyond
  <2> QED BY <1>4, <2>1, <2>2
<1>12. Links(t, z, b)
  <2>1. \A s \in Slots : copy'[t].ptr[s] = IF s = l THEN b ELSE copy[t].ptr[s]
    BY <1>1, <1>2, <1>4, LocalIs DEF InodeType
  <2> QED BY <1>1, <1>5, <1>7, <1>9, <2>1 DEF Links
<1>13. /\ Puts(t, i, z, b) /\ Marked'
       /\ \A m : (EndsBy(i, m) <=> Edge(t) <= m) /\ (EndsBy(i, m)' <=> Edge(t)' <= m)
       /\ BlockAt(z)' = b
  BY <1>2, <1>6, <1>9, <1>10, <1>12, PutsOn
<1>14. \A m \in Logicals : Edge(t)' <= m => Edge(t) <= m /\ m # l
  <2>1. \A m \in Logicals : m \in Nat
    BY FileIs
  <2>2. CASE op[t] = "write"
    <3>1. t \in dirty' /\ op'[t] = "data" /\ Here(t)' = l /\ copy'[t].size = copy[t].size /\ call'[t] = "write"
          /\ call[t] = "write"
      BY <1>1, <1>2, <1>4, <2>2, LocalIs DEF Here, InodeType
    <3>2. Edge(t)' = IF l + 1 > Count(copy[t].size) THEN l + 1 ELSE Count(copy[t].size)
      BY <3>1 DEF Edge
    <3>3. Edge(t) = IF t \in dirty /\ Count(pos[t]) > Count(copy[t].size) THEN Count(pos[t]) ELSE Count(copy[t].size)
      BY <2>2, <3>1 DEF Edge
    <3>4. l \in Nat /\ Count(pos[t]) \in Nat /\ Count(pos[t]) <= l + 1 /\ Count(copy[t].size) \in Nat
      BY <1>1, <1>2, <3>1, WriteIsAt
    <3> QED BY <2>1, <3>2, <3>3, <3>4
  <2>3. CASE op[t] = "grow"
    <3>1. Edge(t) = pos[t] /\ Edge(t)' = pos[t] + 1 /\ pos[t] \in Nat /\ l = pos[t]
      BY <1>1, <1>4, <2>3, LocalIs DEF Edge
    <3> QED BY <2>1, <3>1
  <2> QED BY <1>4, <2>2, <2>3
<1>15. Fills(t, i, z, b, -1)
  <2>1. ~Placing(t) /\ ~Placing(t)'
    BY <1>4 DEF Placing
  <2>2. ASSUME NEW m \in Logicals, EndsBy(i, m)' PROVE EndsBy(i, m) /\ z[2] # Place(m)
    <3>1. Edge(t) <= m /\ m # l
      BY <1>13, <1>14, <2>2
    <3> QED BY <1>4, <1>9, <1>13, <3>1, PlaceIs
  <2>3. -1 \notin Blocks
    BY Volume
  <2> QED BY <1>4, <1>5, <1>7, <1>11, <2>1, <2>2, <2>3 DEF Fills
<1>16. Behind(t)'
  <2>1. Behind(t) /\ inodes' = inodes /\ ino'[t] = i
    BY <1>4 DEF Ready, Tidy
  <2>2. copy'[t].size = copy[t].size /\ \A s \in Slots : copy'[t].ptr[s] = IF s = l THEN b ELSE copy[t].ptr[s]
    BY <1>1, <1>2, <1>4, LocalIs DEF InodeType
  <2>3. copy[t].ptr[l] = 0
    BY <1>9, <1>10, <1>11
  <2> QED BY <1>2, <1>4, <2>1, <2>2, <2>3 DEF Behind
<1>17. Writes(t, W)'
  <2>1. SUFFICES ASSUME op'[t] = "data" PROVE block'[t] # 0 /\ block'[t] = BlockAt(<<ino[t], Place(Here(t))>>)'
    BY DEF Writes
  <2>2. block'[t] = b /\ Here(t)' = l
    BY <1>2, <1>4, <2>1 DEF Here
  <2> QED BY <1>4, <1>5, <1>8, <1>13, <2>2
<1>18. Stands(t, W)' /\ Lacks(t)'
  BY <1>4 DEF Stands, Lacks, Placing
<1> QED BY <1>13, <1>15, <1>16, <1>17, <1>18, PutStep

\* The first indirect block.
LEMMA TidyRootNew ==
  ASSUME NEW W, Ready(W), NEW t \in Tasks, SetRoot(t), bmap' # bmap
  PROVE  Tidy(W)'
<1>1. Typed /\ Going(t) /\ TakenBlocks \subseteq bmap /\ bmap \subseteq Blocks /\ 0 \in bmap
      /\ \A x \in Owns : BlockAt(x) # 0 => BlockAt(x) \in bmap
  BY ReadyIs
<1>2. PICK i, l, s : i = ino[t] /\ l = Here(t) /\ s = Root(l)
  OBVIOUS
<1>3. l \in Logicals /\ s \in Slots /\ i \in Inodes /\ Level(l) > 0
  BY <1>1, <1>2, SetRootIs, ZenonT(40) DEF SetRoot, Going, Fits, Here
<1>4. PICK b \in Blocks :
        LET n == [copy[t] EXCEPT !.ptr[s] = b]
        IN /\ Moves(t, "table", call[t], i, n, pos[t], to[t], block[t], b, 0, t \in dirty)
           /\ \/ b = copy[t].ptr[s] /\ n = copy[t] /\ UNCHANGED <<blockmap, disk>>
              \/ /\ copy[t].ptr[s] = 0 /\ b \in Blocks \ (bmap \cup {0})
                 /\ AllocateBlock(b) /\ disk' = [disk EXCEPT ![b] = Zeros]
  BY <1>1, <1>2, SetRootIs
<1>5. PICK n : n = [copy[t] EXCEPT !.ptr[s] = b]
  OBVIOUS
<1>6. /\ Moves(t, "table", call[t], i, n, pos[t], to[t], block[t], b, 0, t \in dirty)
      /\ copy[t].ptr[s] = 0 /\ b \in Blocks \ (bmap \cup {0})
      /\ AllocateBlock(b) /\ disk' = [disk EXCEPT ![b] = Zeros]
  <2>1. ~(UNCHANGED blockmap)
    BY DEF blockmap
  <2> QED BY <1>4, <1>5, <2>1
<1>7. op[t] = "root" /\ UNCHANGED <<inodemap, inodes, files, lost>>
  BY DEF SetRoot
<1>8. /\ Others(t) /\ Arrives(t, "table", call[t], i, n, pos[t], to[t], block[t], b, 0)
      /\ (t \in dirty' <=> t \in dirty)
      /\ n.size = copy[t].size /\ \A r \in Slots : n.ptr[r] = IF r = s THEN b ELSE copy[t].ptr[r]
  BY <1>1, <1>3, <1>5, <1>6, LocalIs DEF Moves, InodeType
<1>9. bmap' = bmap \cup {b} /\ Fresh(t, b) /\ disk'[b] = Zeros /\ \A c \in Blocks : c # b => disk'[c] = disk[c]
  BY <1>1, <1>6 DEF AllocateBlock, Fresh, Typed, StoreTypes
<1>10. Continues(t)
  BY <1>1, <1>2, <1>6, <1>7, <1>8, <1>9 DEF Continues, Busy, inodemap, Arrives
<1>11. PICK p, z : p = Stem(l, 0) /\ z = <<i, p>>
  OBVIOUS
<1>12. /\ p \in Tree /\ p[1] = s /\ Len(p[2]) = 0 /\ IsTable(p) /\ z[1] = i /\ z[2] = p /\ Far(z) = 0
  <2>1. 0 \in 0..Level(l) /\ 0 < Level(l)
    BY <1>3, Paths
  <2>2. p \in Tree /\ p[1] = s /\ Len(p[2]) = 0 /\ IsTable(p)
    BY <1>2, <1>3, <1>11, <2>1, StemIs
  <2> QED BY <1>11, <2>2 DEF Far
<1>13. z \in Owns /\ Nodes[i] = copy[t] /\ \A q \in Tree : <<i, q>> \in Owns
  BY <1>2, <1>10, <1>11, <1>12, ContinuesIs
<1>14. BlockAt(z) = 0
  <2>1. Nodes[i].ptr[Root(l)] = 0
    BY <1>2, <1>6, <1>13
  <2> QED BY <1>3, <1>11, <2>1, AtPlaces
<1>15. Links(t, z, b)
  <2>1. \A k \in Entry : disk'[b][k] = 0
    BY <1>9 DEF Zeros
  <2>2. \A x \in Owns : BlockAt(x) # 0 => BlockAt(x) \in bmap /\ BlockAt(x) # b
    BY <1>1, <1>6
  <2> QED BY <1>1, <1>6, <1>8, <1>9, <1>12, <1>14, <2>1, <2>2 DEF Links, Arrives
<1>16. /\ Puts(t, i, z, b) /\ Marked'
       /\ \A m : (EndsBy(i, m) <=> Edge(t) <= m) /\ (EndsBy(i, m)' <=> Edge(t)' <= m)
       /\ BlockAt(z)' = b /\ \A x \in Owns : x # z => BlockAt(x)' = BlockAt(x)
  BY <1>2, <1>10, <1>12, <1>13, <1>15, PutsOn
<1>17. Edge(t)' = Edge(t) /\ Here(t)' = l
  BY <1>2, <1>7, <1>8 DEF Edge, Here, Arrives
<1>18. \A m \in Logicals : z[2] # Place(m)
  BY <1>12, PlaceIs
<1>19. Fills(t, i, z, b, -1)
  <2>1. Placing(t) /\ Placing(t)' /\ block'[t] = block[t] /\ block[t] \in bmap /\ Blank(disk, block[t])
    BY <1>7, <1>8 DEF Placing, Arrives, Ready, Tidy, Spare
  <2>2. block[t] # b /\ disk'[block[t]] = disk[block[t]]
    BY <1>1, <1>6, <1>9, <2>1
  <2>3. -1 \notin Blocks
    BY Volume
  <2>4. Quiet(-1, b)
    <3>1. \A k \in Entry : disk'[b][k] <= 0
      BY <1>9 DEF Zeros
    <3> QED BY <1>6, <1>9, <3>1 DEF Quiet
  <2> QED BY <1>6, <1>7, <1>9, <1>14, <1>16, <1>17, <1>18, <2>1, <2>2, <2>3, <2>4 DEF Fills, Blank
<1>20. Behind(t)'
  <2>1. Behind(t) /\ inodes' = inodes /\ ino'[t] = i /\ copy'[t] = n
    BY <1>7, <1>8 DEF Ready, Tidy, Arrives
  <2> QED BY <1>2, <1>6, <1>7, <1>8, <2>1 DEF Behind
<1>21. Stands(t, W)'
  <2>1. copy'[t].ptr[s] = b /\ b # 0 /\ table'[t] = b /\ ino'[t] = i /\ depth'[t] = 0
    BY <1>3, <1>6, <1>8 DEF Arrives
  <2>2. BlockAt(<<i, Stem(l, 0)>>)' = b
    BY <1>11, <1>16
  <2> QED BY <1>2, <1>17, <2>1, <2>2 DEF Stands
<1>22. Lacks(t)'
  <2>1. SUFFICES ASSUME call[t] = "write" PROVE BlockAt(<<i, Place(l)>>)' = 0
    BY <1>8, <1>17 DEF Lacks, Arrives
  <2>2. PICK x : x = <<i, Place(l)>>
    OBVIOUS
  <2>3. x \in Owns /\ x[2] = Place(l)
    BY <1>3, <1>13, <2>2, PlaceIs
  <2>4. BlockAt(x) = 0
    BY <1>2, <1>7, <2>1, <2>2 DEF Ready, Tidy, Lacks, Placing
  <2> QED BY <1>3, <1>16, <1>18, <2>2, <2>3, <2>4
<1>23. Writes(t, W)'
  BY <1>8 DEF Arrives, Writes
<1> QED BY <1>16, <1>19, <1>20, <1>21, <1>22, <1>23, PutStep

\* An indirect block in between, of the file.
LEMMA TidyTableNew ==
  ASSUME NEW W, Ready(W), NEW t \in Tasks, SetTable(t), FollowsBlocks', bmap' # bmap, copy[t].ptr[Root(Here(t))] # 0
  PROVE  Tidy(W)'
<1>1. Typed /\ Going(t) /\ TakenBlocks \subseteq bmap /\ bmap \subseteq Blocks /\ 0 \in bmap
      /\ \A x \in Owns : BlockAt(x) # 0 => BlockAt(x) \in bmap
  BY ReadyIs
<1>2. PICK i, l, d, T : i = ino[t] /\ l = Here(t) /\ d = depth[t] /\ T = table[t]
  OBVIOUS
<1>3. PICK e, k : e = d + 1 /\ k = Path[l][e]
  OBVIOUS
<1>4. PICK b \in Blocks \ {0} :
        /\ Moves(t, "table", call[t], i, copy[t], pos[t], to[t], block[t], b, d + 1, t \in dirty)
        /\ \/ b = disk[T][k] /\ UNCHANGED <<blockmap, disk, lost>>
           \/ /\ disk[T][k] = 0 /\ b \in Blocks \ (bmap \cup {0}) /\ AllocateBlock(b)
              /\ disk' = [disk EXCEPT ![b] = Zeros, ![T][k] = b] /\ lost' = Lost(t, b)
  BY <1>1, <1>2, <1>3, SetTableIs
<1>5. b \in Blocks \ (bmap \cup {0}) /\ bmap' = bmap \cup {b} /\ disk[T][k] = 0
      /\ disk' = [disk EXCEPT ![b] = Zeros, ![T][k] = b] /\ lost' = lost
  BY <1>2, <1>4 DEF AllocateBlock, Lost, blockmap
<1>6. op[t] = "table" /\ UNCHANGED <<inodemap, inodes, files>> /\ d \in Nat /\ e # 0 /\ e > 0
      /\ depth[t] + 1 < Level(Here(t))
  <2>1. op[t] = "table" /\ UNCHANGED <<inodemap, inodes, files>>
    BY DEF SetTable
  <2>2. d \in Nat
    BY <1>1, <1>2, LocalIs
  <2>3. depth[t] + 1 < Level(Here(t))
    BY <1>1, SetTableIs
  <2> QED BY <1>3, <2>1, <2>2, <2>3
<1>7. Others(t) /\ Arrives(t, "table", call[t], i, copy[t], pos[t], to[t], block[t], b, e)
      /\ (t \in dirty' <=> t \in dirty)
  BY <1>3, <1>4 DEF Moves
<1>8. Continues(t) /\ Here(t)' = l /\ Edge(t)' = Edge(t) /\ copy'[t] = copy[t]
  BY <1>1, <1>2, <1>5, <1>6, <1>7 DEF Continues, Busy, inodemap, Arrives, Here, Edge
<1>9. Stand(t, i, l, d, e)
  <2>1. Rests(t, i, l, d, e)
    BY ONLY <1>2, <1>3, <1>6, copy[t].ptr[Root(Here(t))] # 0 DEF Rests
  <2> QED BY <2>1, StandsAt DEF Ready
<1>10. PICK y, z : y = <<i, Stem(l, d)>> /\ z = <<i, Stem(l, e)>>
  OBVIOUS
<1>11. /\ l \in Logicals /\ Level(l) \in 1..3 /\ k \in Entry /\ y \in Owns /\ z \in Owns /\ Above(z) = y
       /\ IsTable(y[2]) /\ Tip(z[2]) = k /\ Far(z) = e /\ z[1] = i /\ z[2] = Stem(l, e) /\ z[2] \in Tree
       /\ T # 0 /\ T = BlockAt(y) /\ BlockAt(z) = 0
  BY ONLY <1>2, <1>3, <1>5, <1>9, <1>10 DEF Stand
<1>12. IsTable(z[2]) /\ T \in bmap /\ T \in Blocks /\ T # b /\ b \notin TakenBlocks
  <2>1. e \in 0..Level(l) /\ e < Level(l)
    BY <1>2, <1>3, <1>6, <1>11
  <2>2. IsTable(z[2])
    BY <1>11, <2>1, StemIs
  <2> QED BY <1>1, <1>5, <1>11, <2>2
<1>13. /\ disk'[b] = Zeros /\ \A c \in Blocks : c # T /\ c # b => disk'[c] = disk[c]
       /\ \A j \in Entry : disk'[T][j] = IF j = k THEN b ELSE disk[T][j]
  <2>1. disk \in [Blocks -> [Entry -> Word]]
    BY <1>1 DEF Typed, StoreTypes
  <2> QED BY <1>5, <1>11, <1>12, <2>1
<1>14. Fresh(t, b)
  BY <1>5 DEF Fresh
<1>15. Nodes[i] = copy[t] /\ \A q \in Tree : <<i, q>> \in Owns
  BY <1>2, <1>8, ContinuesIs
<1>16. Links(t, z, b)
  <2>1. \A j \in Entry : disk'[b][j] = 0
    BY <1>13 DEF Zeros
  <2>2. ASSUME NEW x \in Owns, IsTable(x[2]), BlockAt(x) # 0, NEW j \in Entry
        PROVE  disk'[BlockAt(x)][j] = IF x = y /\ j = k THEN b ELSE disk[BlockAt(x)][j]
    <3>1. BlockAt(x) \in Blocks /\ BlockAt(x) # b
      BY <1>1, <1>5, <2>2
    <3>2. BlockAt(x) = T => x = y
      BY <1>11, <2>2 DEF Ready, Tidy, Owned, Own, BlockAt
    <3> QED BY <1>11, <1>13, <3>1, <3>2
  <2>3. \A x \in Owns : BlockAt(x) # 0 => BlockAt(x) \in bmap'
    BY <1>1, <1>5
  <2>4. Far(z) > 0 /\ Far(z) # 0
    BY <1>6, <1>11
  <2> QED
    <3>1. b = 0 \/ (Fresh(t, b) /\ b \in bmap')
      BY <1>5, <1>14
    <3>2. Far(z) > 0 => BlockAt(Above(z)) # 0
      BY <1>11
    <3>3. IsTable(z[2]) => BlockAt(z) = 0 /\ b # 0 /\ \A j \in Entry : disk'[b][j] = 0
      BY <1>5, <1>11, <2>1
    <3>4. \A s \in Slots : copy'[t].ptr[s] = IF Far(z) = 0 /\ s = z[2][1] THEN b ELSE copy[t].ptr[s]
      BY <1>8, <2>4
    <3>5. \A x \in Owns : IsTable(x[2]) /\ BlockAt(x) # 0 =>
            \A j \in Entry : disk'[BlockAt(x)][j]
              = IF Far(z) > 0 /\ x = Above(z) /\ j = Tip(z[2]) THEN b ELSE disk[BlockAt(x)][j]
      BY ONLY <1>11, <2>2, <2>4
    <3> QED BY <2>3, <3>1, <3>2, <3>3, <3>4, <3>5 DEF Links
<1>17. /\ Puts(t, i, z, b) /\ Marked'
       /\ \A m : (EndsBy(i, m) <=> Edge(t) <= m) /\ (EndsBy(i, m)' <=> Edge(t)' <= m)
       /\ BlockAt(z)' = b /\ \A x \in Owns : x # z => BlockAt(x)' = BlockAt(x)
  BY <1>2, <1>8, <1>11, <1>16, PutsOn
<1>18. \A m \in Logicals : z[2] # Place(m)
  BY <1>12, PlaceIs
<1>19. Fills(t, i, z, b, T)
  <2>1. Placing(t) /\ Placing(t)' /\ block'[t] = block[t] /\ block[t] \in bmap /\ Blank(disk, block[t])
        /\ \A x \in Owns : BlockAt(x) # block[t]
    BY <1>6, <1>7 DEF Placing, Arrives, Ready, Tidy, Spare
  <2>2. block[t] # b /\ disk'[block[t]] = disk[block[t]]
    BY <1>1, <1>5, <1>11, <1>13, <2>1
  <2>4. Quiet(T, b)
    <3>1. \A j \in Entry : disk'[b][j] <= 0
      BY <1>13 DEF Zeros
    <3> QED BY <1>5, <1>13, <3>1 DEF Quiet
  <2>5. T \in Blocks => b # 0 /\ Far(z) > 0 /\ T = BlockAt(Above(z))
    BY <1>5, <1>6, <1>11
  <2> QED BY <1>5, <1>8, <1>11, <1>17, <1>18, <2>1, <2>2, <2>4, <2>5 DEF Fills, Blank
<1>20. Behind(t)'
  <2>1. Behind(t) /\ inodes' = inodes /\ ino'[t] = i /\ copy'[t] = copy[t]
    BY <1>6, <1>7 DEF Ready, Tidy, Arrives
  <2> QED BY <1>2, <1>6, <1>7, <2>1 DEF Behind
<1>21. Stands(t, W)'
  <2>1. copy'[t].ptr[Root(l)] # 0 /\ b # 0 /\ table'[t] = b /\ ino'[t] = i /\ depth'[t] = e
    BY <1>2, <1>5, <1>7 DEF Arrives
  <2>2. BlockAt(<<i, Stem(l, e)>>)' = b
    BY <1>10, <1>17
  <2> QED BY <1>8, <2>1, <2>2 DEF Stands
<1>22. Lacks(t)'
  <2>1. SUFFICES ASSUME call[t] = "write" PROVE BlockAt(<<i, Place(l)>>)' = 0
    BY <1>7, <1>8 DEF Lacks, Arrives
  <2>2. PICK x : x = <<i, Place(l)>>
    OBVIOUS
  <2>3. x \in Owns /\ x[2] = Place(l)
    BY <1>11, <1>15, <2>2, PlaceIs
  <2>4. BlockAt(x) = 0
    BY <1>2, <1>6, <2>1, <2>2 DEF Ready, Tidy, Lacks, Placing
  <2> QED BY <1>11, <1>17, <1>18, <2>2, <2>3, <2>4
<1>23. Writes(t, W)'
  BY <1>7 DEF Arrives, Writes
<1> QED BY <1>17, <1>19, <1>20, <1>21, <1>22, <1>23, PutStep

\* Data is linked to its file.
LEMMA TidyEntry ==
  ASSUME NEW W, Ready(W), NEW t \in Tasks, SetEntry(t), copy[t].ptr[Root(Here(t))] # 0
  PROVE  Tidy(W)'
<1>1. Typed /\ Going(t) /\ TakenBlocks \subseteq bmap /\ bmap \subseteq Blocks /\ 0 \in bmap
      /\ \A x \in Owns : BlockAt(x) # 0 => BlockAt(x) \in bmap
  BY ReadyIs
<1>2. PICK i, l, d, T, b : i = ino[t] /\ l = Here(t) /\ d = depth[t] /\ T = table[t] /\ b = block[t]
  OBVIOUS
<1>3. PICK e, k : e = d + 1 /\ k = Path[l][e]
  OBVIOUS
<1>4. /\ op[t] = "table" /\ UNCHANGED <<bitmaps, inodes, files>> /\ lost' = lost
  BY <1>2 DEF SetEntry, Lost
<1>5. /\ disk' = [disk EXCEPT ![T] = [@ EXCEPT ![k] = b]] /\ e = Level(l)
      /\ call[t] = "write" =>
           Moves(t, "data", "write", i, copy[t], pos[t], to[t], b, 0, 0, TRUE)
      /\ call[t] # "write" =>
           /\ call[t] \in {"create", "truncate"}
           /\ Moves(t, "grow", call[t], i, copy[t], pos[t] + 1, to[t], 0, 0, 0, FALSE)
  BY <1>1, <1>2, <1>3, SetEntryIs
<1>6. Others(t) /\ copy'[t] = copy[t] /\ ino'[t] = i /\ call'[t] = call[t] /\ op'[t] \in {"data", "grow"}
      /\ (op'[t] = "data" => block'[t] = b /\ call[t] = "write" /\ pos'[t] = pos[t] /\ t \in dirty')
      /\ (op'[t] = "grow" => call[t] # "write" /\ pos'[t] = pos[t] + 1)
  BY <1>5 DEF Moves, Arrives
<1>7. Continues(t)
  BY <1>1, <1>2, <1>4, <1>6 DEF Continues, Busy, bitmaps
<1>8. Stand(t, i, l, d, e)
  <2>1. Rests(t, i, l, d, e)
    BY ONLY <1>2, <1>3, <1>4, copy[t].ptr[Root(Here(t))] # 0 DEF Rests
  <2> QED BY <2>1, StandsAt DEF Ready
<1>9. PICK y, z : y = <<i, Stem(l, d)>> /\ z = <<i, Stem(l, e)>>
  OBVIOUS
<1>10. /\ l \in Logicals /\ Level(l) \in 1..3 /\ k \in Entry /\ y \in Owns /\ z \in Owns /\ Above(z) = y
       /\ IsTable(y[2]) /\ Tip(z[2]) = k /\ Far(z) = e /\ z[1] = i /\ z[2] = Stem(l, e) /\ z[2] \in Tree
       /\ T # 0 /\ T = BlockAt(y)
  BY ONLY <1>2, <1>3, <1>8, <1>9 DEF Stand
<1>11. Stem(l, e) = Place(l) /\ ~IsTable(z[2]) /\ z[2] = Place(l)
  <2>1. Stem(l, e) = Place(l)
    BY <1>5, <1>10, PlaceIs
  <2> QED BY <1>10, <2>1, PlaceIs
<1>12. Far(z) > 0 /\ Far(z) # 0 /\ T \in bmap /\ T \in Blocks
  BY <1>1, <1>5, <1>10
<1>13. b \in bmap \ TakenBlocks /\ Blank(disk, b) /\ Fresh(t, b) /\ b # T /\ b # 0 /\ \A x \in Owns : BlockAt(x) # b
  <2>1. Placing(t) /\ Spare(t, W)
    BY <1>4 DEF Ready, Tidy, Placing
  <2> QED BY <1>1, <1>2, <1>10, <2>1, Volume DEF Spare, Fresh
<1>14. /\ \A c \in Blocks : c # T => disk'[c] = disk[c]
       /\ \A j \in Entry : disk'[T][j] = IF j = k THEN b ELSE disk[T][j]
  <2>1. disk \in [Blocks -> [Entry -> Word]]
    BY <1>1 DEF Typed, StoreTypes
  <2> QED BY <1>5, <1>10, <1>12, <2>1
<1>15. Nodes[i] = copy[t] /\ \A m : (EndsBy(i, m) <=> Edge(t) <= m)
  BY <1>2, <1>7, ContinuesIs
<1>16. Links(t, z, b)
  <2>1. b = 0 \/ (Fresh(t, b) /\ b \in bmap')
    BY <1>4, <1>13 DEF bitmaps
  <2>2. ASSUME NEW x \in Owns, IsTable(x[2]), BlockAt(x) # 0, NEW j \in Entry
        PROVE  disk'[BlockAt(x)][j] = IF x = y /\ j = k THEN b ELSE disk[BlockAt(x)][j]
    <3>1. BlockAt(x) \in Blocks
      BY <1>1, <2>2
    <3>2. BlockAt(x) = T => x = y
      BY <1>10, <2>2 DEF Ready, Tidy, Owned, Own, BlockAt
    <3> QED BY <1>10, <1>14, <3>1, <3>2
  <2>3. \A x \in Owns : BlockAt(x) # 0 => BlockAt(x) \in bmap'
    BY <1>1, <1>4 DEF bitmaps
  <2>4. Far(z) > 0 => BlockAt(Above(z)) # 0
    BY <1>10
  <2>5. \A s \in Slots : copy'[t].ptr[s] = IF Far(z) = 0 /\ s = z[2][1] THEN b ELSE copy[t].ptr[s]
    BY <1>6, <1>12
  <2>6. \A x \in Owns : IsTable(x[2]) /\ BlockAt(x) # 0 =>
          \A j \in Entry : disk'[BlockAt(x)][j]
            = IF Far(z) > 0 /\ x = Above(z) /\ j = Tip(z[2]) THEN b ELSE disk[BlockAt(x)][j]
    BY ONLY <1>10, <1>12, <2>2
  <2> QED BY <1>11, <2>1, <2>3, <2>4, <2>5, <2>6 DEF Links
<1>17. /\ Puts(t, i, z, b) /\ Marked'
       /\ \A m : (EndsBy(i, m) <=> Edge(t) <= m) /\ (EndsBy(i, m)' <=> Edge(t)' <= m)
       /\ BlockAt(z)' = b
  BY <1>2, <1>7, <1>10, <1>16, PutsOn
<1>18. BlockAt(z) # 0 => BlockAt(z) \in lost
  <2>1. CASE call[t] = "write"
    BY <1>2, <1>4, <1>9, <1>11, <2>1 DEF Ready, Tidy, Lacks, Placing
  <2>2. CASE call[t] # "write"
    <3>1. Edge(t) = pos[t] /\ l = pos[t] /\ pos[t] \in Nat
      BY <1>1, <1>2, <1>4, <2>2, LocalIs DEF Edge, Here
    <3>2. Edge(t) <= l
      BY <3>1
    <3>3. EndsBy(z[1], l)
      BY <1>10, <1>15, <3>2
    <3> QED BY <1>10, <1>11, <3>3 DEF Ready, Tidy, Beyond
  <2> QED BY <2>1, <2>2
<1>19. \A m \in Logicals : Edge(t)' <= m => Edge(t) <= m /\ m # l
  <2>1. \A m \in Logicals : m \in Nat
    BY FileIs
  <2>2. CASE call[t] = "write"
    <3>1. t \in dirty' /\ op'[t] = "data" /\ Here(t)' = l /\ copy'[t] = copy[t] /\ call'[t] = "write"
      BY <1>2, <1>5, <2>2 DEF Moves, Arrives, Here
    <3>2. Edge(t)' = IF l + 1 > Count(copy[t].size) THEN l + 1 ELSE Count(copy[t].size)
      BY <3>1 DEF Edge
    <3>3. Edge(t) = IF t \in dirty /\ Count(pos[t]) > Count(copy[t].size) THEN Count(pos[t]) ELSE Count(copy[t].size)
      BY <1>4, <2>2 DEF Edge
    <3>4. l \in Nat /\ Count(pos[t]) \in Nat /\ Count(pos[t]) <= l + 1 /\ Count(copy[t].size) \in Nat
      BY <1>1, <1>2, <2>2, WriteIsAt
    <3> QED BY <2>1, <3>2, <3>3, <3>4
  <2>3. CASE call[t] # "write"
    <3>1. Edge(t) = pos[t] /\ Edge(t)' = pos[t] + 1 /\ pos[t] \in Nat /\ l = pos[t]
      BY <1>1, <1>2, <1>4, <1>5, <2>3, LocalIs DEF Edge, Moves, Arrives, Here
    <3> QED BY <2>1, <3>1
  <2> QED BY <2>2, <2>3
<1>20. Fills(t, i, z, b, T)
  <2>1. Placing(t) /\ ~Placing(t)' /\ bmap' = bmap
    BY <1>4, <1>6 DEF Placing, bitmaps
  <2>2. Quiet(T, b)
    BY <1>14 DEF Quiet
  <2>3. T \in Blocks => b # 0 /\ Far(z) > 0 /\ T = BlockAt(Above(z))
    BY <1>10, <1>12, <1>13
  <2>4. ASSUME NEW m \in Logicals, EndsBy(i, m)' PROVE EndsBy(i, m) /\ z[2] # Place(m)
    <3>1. Edge(t) <= m /\ m # l
      BY <1>17, <1>19, <2>4
    <3> QED BY <1>10, <1>11, <1>17, <3>1, PlaceIs
  <2> QED BY <1>2, <1>4, <1>13, <1>18, <2>1, <2>2, <2>3, <2>4 DEF Fills
<1>21. Behind(t)'
  <2>1. Behind(t) /\ inodes' = inodes /\ ino'[t] = i /\ copy'[t] = copy[t]
    BY <1>4, <1>6 DEF Ready, Tidy
  <2> QED BY <1>2, <1>4, <1>6, <2>1 DEF Behind
<1>22. Writes(t, W)'
  <2>1. SUFFICES ASSUME op'[t] = "data" PROVE block'[t] # 0 /\ block'[t] = BlockAt(<<ino[t], Place(Here(t))>>)'
    BY DEF Writes
  <2>2. block'[t] = b /\ Here(t)' = l
    BY <1>2, <1>6, <2>1 DEF Here
  <2> QED BY <1>6, <1>9, <1>11, <1>13, <1>17, <2>2
<1>23. Stands(t, W)' /\ Lacks(t)'
  BY <1>6 DEF Stands, Lacks, Placing
<1> QED BY <1>17, <1>20, <1>21, <1>22, <1>23, PutStep

\* A place behind indirect blocks, and the last of them.
LEMMA IndirectPlace ==
  ASSUME NEW l \in Logicals, Level(l) > 0, NEW i, NEW y, y = <<i, Stem(l, Level(l) - 1)>>, NEW z, z = <<i, Place(l)>>
  PROVE  /\ y[1] = i /\ z[1] = i /\ z[2] = Place(l) /\ ~IsTable(z[2]) /\ Far(z) = Level(l) /\ Above(z) = y
         /\ y[2] \in Tree /\ IsTable(y[2])
         /\ Path[l][Level(l)] \in Entry /\ Tip(z[2]) = Path[l][Level(l)] /\ Last(Path[l]) = Path[l][Level(l)]
         /\ BlockAt(z) = GetPhysical(Nodes[i], l) /\ BlockAt(y) = LastTable(Nodes[i], l)
         /\ BlockAt(y) = 0 => BlockAt(z) = 0
<1>1. PICK d, e : e = Level(l) /\ d = Level(l) - 1
  OBVIOUS
<1>2. e \in 1..3 /\ d \in 0..(Level(l) - 1) /\ d \in 0..Level(l) /\ e \in 0..Level(l) /\ e - 1 = d /\ d + 1 = e /\ d < Level(l) /\ e > 0
  BY <1>1, Paths
<1>3. Place(l) = Stem(l, e) /\ ~IsTable(Place(l)) /\ Len(Place(l)[2]) = Level(l)
  BY <1>1, PlaceIs
<1>4. Over(Stem(l, e)) = Stem(l, d) /\ Tip(Stem(l, e)) = Path[l][e] /\ Path[l][e] \in Entry
  BY <1>2, StemIs
<1>5. Stem(l, d) \in Tree /\ IsTable(Stem(l, d))
  BY <1>2, StemIs
<1>6. Last(Path[l]) = Path[l][e]
  BY <1>1, Paths DEF Last
<1>7. BlockAt(<<i, Place(l)>>) = GetPhysical(Nodes[i], l)
  BY AtPlaces
<1>8. BlockAt(<<i, Stem(l, d)>>) = LastTable(Nodes[i], l)
  BY <1>1, AtPlaces
<1>9. BlockAt(<<i, Stem(l, d + 1)>>) = Follow(BlockAt(<<i, Stem(l, d)>>), Path[l][d + 1])
  BY <1>2, AtPlaces
<1>10. BlockAt(<<i, Stem(l, d)>>) = 0 => BlockAt(<<i, Stem(l, d + 1)>>) = 0
  BY <1>9 DEF Follow
<1>11. BlockAt(y) = 0 => BlockAt(z) = 0
  BY <1>1, <1>2, <1>3, <1>10
<1> QED BY <1>1, <1>3, <1>4, <1>5, <1>6, <1>7, <1>8, <1>11 DEF Far, Above

\* What a step frees of one file.
LEMMA FreesOne ==
  ASSUME NEW W, Ready(W), NEW p \in bmap \ {0}, FreeBlocks({p})
  PROVE  /\ bmap' = bmap \ {p}
         /\ \A c \in Blocks : c # p => Forgotten({p})[c] = disk[c]
         /\ \A k \in Entry : Forgotten({p})[p][k] = Junk
<1>1. p \in Blocks /\ p \in Nat /\ p > 0
  BY Volume DEF Ready, InOrder, Marks
<1>2. bmap' = bmap \ {p}
  BY <1>1 DEF FreeBlocks, Freeable
<1> QED BY <1>1, <1>2 DEF Forgotten

\* The block in hand is freed.
LEMMA HandFreed ==
  ASSUME NEW W, Ready(W), NEW t \in Tasks, Placing(t), NEW b, b = block[t], FreeBlocks({b}), disk' = Forgotten({b})
  PROVE  /\ b \in bmap \ TakenBlocks /\ bmap' = bmap \ {b} /\ TakenBlocks \subseteq bmap'
         /\ Blank(disk', b) /\ Quiet(-1, 0) /\ \A x \in Owns : BlockAt(x) # b
         /\ \A c \in Blocks : c # b => disk'[c] = disk[c]
         /\ \A x \in Owns : BlockAt(x) # 0 => BlockAt(x) \in bmap' /\ disk'[BlockAt(x)] = disk[BlockAt(x)]
<1>1. TakenBlocks \subseteq bmap /\ bmap \subseteq Blocks /\ \A x \in Owns : BlockAt(x) # 0 => BlockAt(x) \in bmap
  BY ReadyIs
<1>2. b \in bmap \ TakenBlocks /\ \A x \in Owns : BlockAt(x) # b
  BY DEF Ready, Tidy, Spare
<1>3. b # 0
  BY <1>2, Volume
<1>4. bmap' = bmap \ {b} /\ (\A c \in Blocks : c # b => disk'[c] = disk[c]) /\ \A k \in Entry : disk'[b][k] = Junk
  BY <1>2, <1>3, FreesOne, ZenonT(40)
<1>5. Quiet(-1, 0)
  BY <1>3, <1>4 DEF Quiet, Junk
<1> QED BY <1>1, <1>2, <1>4, <1>5 DEF Blank, Junk

\* Without space for an indirect block a write stops where it is.
LEMMA TidyNoTableWrite ==
  ASSUME NEW W, Ready(W), NEW t \in Tasks, NoTable(t), call[t] = "write"
  PROVE  Tidy(W)'
<1>1. Typed /\ Going(t)
  BY ReadyIs
<1>2. PICK i, b : i = ino[t] /\ b = block[t]
  OBVIOUS
<1>3. /\ op[t] = "table" /\ FreeBlocks({b}) /\ disk' = Forgotten({b}) /\ UNCHANGED <<lost, inodemap, inodes, files>>
  BY <1>2 DEF NoTable
<1>4. Moves(t, "write", "write", i, copy[t], pos[t], pos[t], 0, 0, 0, t \in dirty)
  BY <1>1, <1>2, NoTableIs
<1>5. /\ Others(t) /\ op'[t] = "write" /\ call'[t] = call[t] /\ ino'[t] = i /\ copy'[t] = copy[t] /\ pos'[t] = pos[t]
      /\ (t \in dirty' <=> t \in dirty)
  BY <1>4 DEF Moves, Arrives
<1>6. Placing(t) /\ ~Placing(t)'
  BY <1>3, <1>5 DEF Placing
<1>7. /\ b \in bmap \ TakenBlocks /\ bmap' = bmap \ {b} /\ TakenBlocks \subseteq bmap'
      /\ Blank(disk', b) /\ Quiet(-1, 0) /\ \A x \in Owns : BlockAt(x) # b
      /\ \A x \in Owns : BlockAt(x) # 0 => BlockAt(x) \in bmap' /\ disk'[BlockAt(x)] = disk[BlockAt(x)]
  BY <1>2, <1>3, <1>6, HandFreed
<1>8. Continues(t) /\ Spares
  BY <1>2, <1>3, <1>5, <1>7 DEF Continues, Busy, inodemap, Spares
<1>9. Edge(t)' = Edge(t)
  BY <1>3, <1>5 DEF Edge
<1>10. /\ Same(t, i) /\ Marked' /\ Behind(t)'
       /\ \A l : (EndsBy(i, l) <=> Edge(t) <= l) /\ (EndsBy(i, l)' <=> Edge(t)' <= l)
  BY <1>2, <1>3, <1>5, <1>8, SameOn
<1>11. Keeps(t, i)
  BY <1>2, <1>3, <1>6, <1>7, <1>9, <1>10 DEF Keeps
<1>12. Stands(t, W)' /\ Writes(t, W)' /\ Lacks(t)'
  BY <1>5 DEF Stands, Writes, Lacks, Placing
<1> QED BY <1>10, <1>11, <1>12, SameStep DEF Ready

-----------------------------------------------------------------------------
(* Steps that give up positions of the file, or pointers of its inode.     *)
\* What such a step leaves to the file: the positions that are live and not behind a 0.
Left(i, x) == x \in Owns' /\ Nodes'[i].ptr[x[2][1]] # 0
Sheds(t, i) ==
  /\ Only(t, i) /\ Quiet(-1, 0) /\ lost \subseteq lost' /\ bmap' \subseteq bmap /\ ~Placing(t)'
  /\ \A p \in Tree : Live(i, p)' => \/ Nodes'[i].ptr[p[1]] = 0
                                    \/ Live(i, p) /\ Nodes'[i].ptr[p[1]] = Nodes[i].ptr[p[1]]
  /\ \A x \in Owns \cap Owns' : BlockAt(x) # 0 =>
        BlockAt(x) \in bmap' /\ (IsTable(x[2]) => disk'[BlockAt(x)] = disk[BlockAt(x)])
  /\ \A b \in bmap \ bmap' : Gone(t, i, b) /\ Blank(disk', b)
  /\ \A x \in Owns : \A l \in Logicals :
        x[1] = i /\ x[2] = Place(l) /\ EndsBy(i, l)' /\ BlockAt(x) # 0 /\ Left(i, x) =>
          l >= Direct /\ BlockAt(x) \in lost'
  /\ \A x \in Owns : x[1] = i /\ BlockAt(x) # 0 /\ BlockAt(x) \in bmap' => BlockAt(x) \in lost' \/ Left(i, x)
  /\ Placing(t) /\ block[t] \in bmap' => block[t] \in lost'

\* Then the invariant holds after the step.
LEMMA ShedStep ==
  ASSUME NEW W, Ready(W), NEW t \in Tasks, NEW i, Sheds(t, i), Marked',
         Behind(t)', Stands(t, W)', Writes(t, W)', Lacks(t)'
  PROVE  Tidy(W)'
<1> USE DEF Sheds
<1>1. bmap \subseteq Blocks /\ W \subseteq bmap \ TakenBlocks
  BY ReadyIs
<1>2. /\ Owned'
      /\ \A x \in Owns' : x[1] # i => x \in Owns /\ BlockAt(x)' = BlockAt(x)
      /\ \A x \in Owns' : x[1] = i =>
           /\ Nodes'[i].ptr[x[2][1]] = 0 => BlockAt(x)' = 0
           /\ Nodes'[i].ptr[x[2][1]] # 0 => x \in Owns /\ BlockAt(x)' = BlockAt(x)
      /\ \A x \in Owns' : BlockAt(x)' = 0 \/ (x \in Owns /\ BlockAt(x)' = BlockAt(x))
  BY Shed DEF Ready
<1>3. -1 \notin Blocks /\ -1 \notin W \cup {0}
  BY <1>1, Volume
<1>4. Changes(t, i, W, -1, 0)
  BY <1>2, <1>3 DEF Changes
<1>5. Settled(t, i)
  <2>1. ASSUME NEW x \in Owns', NEW l \in Logicals, x[1] = i, x[2] = Place(l), EndsBy(i, l)', BlockAt(x)' # 0
        PROVE  l >= Direct /\ BlockAt(x)' \in lost'
    <3>1. Nodes'[i].ptr[x[2][1]] # 0
      BY <1>2, <2>1
    <3>2. x \in Owns /\ BlockAt(x)' = BlockAt(x)
      BY <1>2, <2>1, <3>1
    <3>3. Left(i, x)
      BY <3>1 DEF Left
    <3>4. l >= Direct /\ BlockAt(x) \in lost'
      BY <2>1, <3>2, <3>3
    <3> QED BY <3>2, <3>4
  <2>2. ASSUME NEW b \in bmap', b \notin bmap \/ Gone(t, i, b)
        PROVE  b \in lost' \/ (\E x \in Owns' : BlockAt(x)' = b) \/ (Placing(t)' /\ block'[t] = b)
    <3>1. Gone(t, i, b)
      BY <2>2
    <3>2. CASE Placing(t) /\ block[t] = b
      BY <2>2, <3>2
    <3>3. CASE \E x \in Owns : x[1] = i /\ BlockAt(x) = b
      <4>1. PICK x \in Owns : x[1] = i /\ BlockAt(x) = b
        BY <3>3
      <4>2. b \in lost' \/ Left(i, x)
        BY <2>2, <3>1, <4>1 DEF Gone
      <4>3. Left(i, x) => x \in Owns' /\ BlockAt(x)' = BlockAt(x)
        BY <1>2, <4>1 DEF Left
      <4> QED BY <4>1, <4>2, <4>3
    <3> QED BY <3>1, <3>2, <3>3 DEF Gone
  <2> QED BY <2>1, <2>2 DEF Settled
<1>6. Spread(W, -1, 0) = W
  BY <1>3 DEF Spread
<1>7. Tidy(Spread(W, -1, 0))'
  <2>1. Stands(t, Spread(W, -1, 0))' /\ Writes(t, Spread(W, -1, 0))'
    BY <1>6
  <2>2. InOrder /\ InOrder' /\ Tidy(W)
    BY DEF Ready
  <2> QED BY <1>2, <1>4, <1>5, <2>1, <2>2, TidyNext
<1> QED BY <1>6, <1>7

\* A truncate frees the last block: its place is nobody's until it is cleared.
LEMMA TidyShrinkFree ==
  ASSUME NEW W, Ready(W), NEW t \in Tasks, Shrink(t), GetPhysical(copy[t], pos[t] - 1) # 0
  PROVE  Tidy(W)'
<1>1. /\ Typed /\ Going(t) /\ Typed' /\ TakenBlocks \subseteq bmap /\ bmap \subseteq Blocks /\ Apart /\ Marked /\ InOrder
      /\ \A x \in Owns : BlockAt(x) # 0 => BlockAt(x) \in bmap \ TakenBlocks
  BY ReadyIs DEF Ready
<1>2. PICK i, l : i = ino[t] /\ l = pos[t] - 1
  OBVIOUS
<1>3. PICK p : p = GetPhysical(copy[t], l)
  OBVIOUS
<1>4. /\ op[t] = "shrink" /\ UNCHANGED <<inodemap, inodes, files, lost>>
      /\ i \in Inodes /\ l \in Logicals /\ call[t] = "truncate" /\ p # 0 /\ FreeBlocks({p}) /\ disk' = Forgotten({p})
      /\ Moves(t, "clear", "truncate", i, copy[t], pos[t], to[t], block[t], table[t], 0, FALSE)
  <2>1. op[t] = "shrink" /\ UNCHANGED <<inodemap, inodes, files, lost>>
    BY DEF Shrink
  <2> QED BY <1>1, <1>2, <1>3, <2>1, ShrinkIs
<1>5. Others(t) /\ copy'[t] = copy[t] /\ ino'[t] = i /\ call'[t] = call[t] /\ op'[t] = "clear" /\ pos'[t] = pos[t]
  BY <1>2, <1>4 DEF Moves, Arrives
<1>6. PICK z : z = <<i, Place(l)>>
  OBVIOUS
<1>7. z[1] = i /\ z[2] = Place(l) /\ ~IsTable(z[2]) /\ z[2] \in Tree
  BY <1>4, <1>6, PlaceIs
<1>8. z \in Owns /\ Nodes[i] = copy[t] /\ \A q \in Tree : <<i, q>> \in Owns
  <2>1. ino[t] \in Inodes /\ ino[t] \in Living /\ \A q \in Tree : <<ino[t], q>> \in Owns
    BY <1>1, <1>4, Working
  <2>2. Nodes[i] = copy[t]
    BY <1>1, <1>2, <1>4, CurrentIs
  <2> QED BY <1>2, <1>6, <1>7, <2>1, <2>2
<1>9. BlockAt(z) = p /\ p \in bmap \ TakenBlocks /\ p \in Blocks /\ \A x \in Owns : BlockAt(x) = p => x = z
  <2>1. BlockAt(<<i, Place(l)>>) = GetPhysical(Nodes[i], l)
    BY <1>4, AtPlaces
  <2>2. BlockAt(z) = p
    BY <1>3, <1>6, <1>8, <2>1
  <2> QED BY <1>1, <1>4, <1>8, <2>2 DEF Ready, Tidy, Owned, Own, BlockAt
<1>10. bmap' = bmap \ {p} /\ (\A c \in Blocks : c # p => disk'[c] = disk[c])
       /\ (\A k \in Entry : disk'[p][k] = Junk) /\ TakenBlocks \subseteq bmap'
  BY <1>1, <1>4, <1>9, FreesOne
<1>11. Only(t, i)
  BY <1>1, <1>2, <1>4, <1>5, OnlyIs
<1>12. Apart' /\ Marked'
  BY <1>1, <1>2, <1>4, <1>5, <1>10, <1>11, MarkedKept DEF Only, inodemap
<1>13. Nodes'[i] = Nodes[i]
  BY <1>4, <1>5, <1>8, <1>12, CurrentNext
<1>14. ASSUME NEW q PROVE /\ Live(i, q)
                          /\ Live(i, q)' <=> q # Place(l)
  <2>1. i \in files /\ i \in files'
    BY <1>1, <1>2, <1>4 DEF Marked
  <2>2. i \in Living /\ i \in Living'
    BY <2>1, LivingIs
  <2>3. \A u \in Tasks : ino'[u] = i => u = t
    BY <1>4, <1>5, <1>12, Volume DEF Apart
  <2>4. ~Parted(i, q)
    BY <1>1, <1>2, <1>4, PartedIs
  <2>5. Parted(i, q)' <=> q = Place(l)
    <3>1. pos'[t] = l + 1
      <4>1. pos[t] \in Nat
        BY <1>1, LocalIs
      <4> QED BY <1>2, <1>5, <4>1
    <3> QED BY <1>4, <1>5, <1>12, <3>1, PartedIs
  <2> QED BY <1>5, <2>2, <2>3, <2>4, <2>5 DEF Live
<1>15. Owns' = Owns \ {z}
  <2>1. ASSUME NEW x \in Inodes \X Tree PROVE Live(x[1], x[2])' <=> Live(x[1], x[2]) /\ x # z
    <3>1. CASE x[1] = i
      <4>1. x = z <=> x[2] = Place(l)
        BY <1>6, <1>7, <3>1
      <4> QED BY <1>14, <3>1, <4>1
    <3>2. CASE x[1] # i
      BY <1>1, <1>7, <1>11, <3>2, OtherFiles
    <3> QED BY <3>1, <3>2
  <2> QED BY <2>1 DEF Owns
<1>16. Quiet(-1, 0) /\ Blank(disk', p)
  <2>1. \A c \in Blocks : \A k \in Entry : disk'[c][k] = disk[c][k] \/ disk'[c][k] <= 0
    BY <1>10 DEF Junk
  <2> QED BY <1>10, <2>1 DEF Quiet, Blank, Junk
<1>17. ASSUME NEW x \in Owns, NEW m \in Logicals, x[1] = i, x[2] = Place(m), EndsBy(i, m)', BlockAt(x) # 0
       PROVE  m >= Direct /\ BlockAt(x) \in lost'
  <2>1. Edge(t)' = Edge(t)
    BY <1>4, <1>5 DEF Edge
  <2>2. EndsBy(x[1], m)
    BY <1>1, <1>2, <1>4, <1>5, <1>12, <1>17, <2>1, EndsByOwn
  <2> QED BY <1>4, <1>17, <2>2 DEF Ready, Tidy, Beyond
<1>18. ASSUME NEW x \in Owns, x[1] = i, BlockAt(x) # 0, BlockAt(x) \in bmap' PROVE Left(i, x)
  <2>1. x # z
    BY <1>9, <1>10, <1>18
  <2>2. Nodes[i].ptr[x[2][1]] # 0
    BY <1>18, RootZero DEF Ready, Tidy, Owned, BlockAt
  <2> QED BY <1>13, <1>15, <2>1, <2>2 DEF Left
<1>19. Sheds(t, i)
  <2>1. ~Placing(t) /\ ~Placing(t)'
    BY <1>4, <1>5 DEF Placing
  <2>2. \A b \in bmap \ bmap' : Gone(t, i, b) /\ Blank(disk', b)
    BY <1>4, <1>7, <1>8, <1>9, <1>10, <1>16 DEF Gone
  <2>3. \A x \in Owns \cap Owns' : BlockAt(x) # 0 =>
          BlockAt(x) \in bmap' /\ (IsTable(x[2]) => disk'[BlockAt(x)] = disk[BlockAt(x)])
    BY <1>1, <1>9, <1>10, <1>15
  <2> QED BY <1>4, <1>10, <1>11, <1>13, <1>14, <1>16, <1>17, <1>18, <2>1, <2>2, <2>3 DEF Sheds
<1>20. Behind(t)' /\ Stands(t, W)' /\ Writes(t, W)' /\ Lacks(t)'
  BY <1>5 DEF Behind, Stands, Writes, Lacks, Placing
<1> QED BY <1>12, <1>19, <1>20, ShedStep

\* Then it clears its place.
LEMMA TidyClear ==
  ASSUME NEW W, Ready(W), NEW t \in Tasks, Clear(t)
  PROVE  Tidy(W)'
<1>1. /\ Typed /\ Going(t) /\ Typed' /\ TakenBlocks \subseteq bmap /\ bmap \subseteq Blocks /\ 0 \in bmap
      /\ Apart /\ Marked /\ InOrder /\ InOrder' /\ Tidy(W)
      /\ W \subseteq bmap \ TakenBlocks
      /\ \A x \in Owns : BlockAt(x) # 0 => BlockAt(x) \in bmap \ TakenBlocks
  BY ReadyIs DEF Ready
<1>2. PICK i, l : i = ino[t] /\ l = pos[t] - 1
  OBVIOUS
<1>3. PICK n, T : n = Cleared(copy[t], l) /\ T = LastTable(copy[t], l)
  OBVIOUS
<1>4. /\ op[t] = "clear" /\ UNCHANGED <<bitmaps, inodes, files, lost>>
      /\ i \in Inodes /\ l \in Logicals /\ call[t] = "truncate" /\ n \in InodeType
      /\ disk' = IF Level(l) = 0 THEN disk ELSE [disk EXCEPT ![T] = [@ EXCEPT ![Last(Path[l])] = 0]]
      /\ Moves(t, "shrink", "truncate", i, n, l, to[t], block[t], table[t], 0, FALSE)
  <2>1. UNCHANGED <<bitmaps, inodes, files, lost>>
    BY DEF Clear
  <2> QED BY <1>1, <1>2, <1>3, <2>1, ClearIs
<1>5. Others(t) /\ copy'[t] = n /\ ino'[t] = i /\ call'[t] = call[t] /\ op'[t] = "shrink" /\ pos'[t] = l
      /\ bmap' = bmap /\ imap' = imap
  BY <1>2, <1>4 DEF Moves, Arrives, bitmaps
<1>6. PICK y, z : y = <<i, Stem(l, Level(l) - 1)>> /\ z = <<i, Place(l)>>
  OBVIOUS
<1>7. z[1] = i /\ z[2] = Place(l) /\ ~IsTable(z[2]) /\ z[2] \in Tree /\ Far(z) = Level(l) /\ Level(l) \in 0..3
      /\ z[2][1] = Root(l) /\ z \in Inodes \X Tree
  BY <1>4, <1>6, PlaceIs, Paths DEF Far
<1>8. Only(t, i)
  BY <1>1, <1>2, <1>4, <1>5, OnlyIs
<1>9. Apart' /\ Marked'
  BY <1>1, <1>2, <1>4, <1>5, <1>8, MarkedKept DEF Only
<1>10. Nodes[i] = copy[t] /\ Nodes'[i] = n
  BY <1>1, <1>2, <1>4, <1>5, <1>9, CurrentIs, CurrentNext
<1>11. ASSUME NEW q PROVE /\ Live(i, q)'
                          /\ Live(i, q) <=> q # Place(l)
  <2>1. i \in files /\ i \in files'
    BY <1>1, <1>2, <1>4 DEF Marked
  <2>2. i \in Living /\ i \in Living'
    BY <2>1, LivingIs
  <2>3. \A u \in Tasks : ino[u] = i => u = t
    BY <1>1, <1>2, <1>4, Volume DEF Apart
  <2>4. ~Parted(i, q)'
    BY <1>4, <1>5, <1>9, PartedIs
  <2>5. Parted(i, q) <=> q = Place(l)
    <3>1. pos[t] = l + 1
      <4>1. pos[t] \in Nat
        BY <1>1, LocalIs
      <4> QED BY <1>2, <4>1
    <3>2. Apart /\ ino[t] = i /\ op[t] = "clear" /\ i \in Inodes /\ l \in Logicals
      BY <1>1, <1>2, <1>4
    <3> QED BY ONLY <3>1, <3>2, t \in Tasks, PartedIs
  <2> QED BY <1>4, <2>2, <2>3, <2>4, <2>5 DEF Live
<1>12. Owns' = Owns \cup {z} /\ z \notin Owns
  <2>1. ASSUME NEW x \in Inodes \X Tree PROVE Live(x[1], x[2])' <=> Live(x[1], x[2]) \/ x = z
    <3>1. CASE x[1] = i
      <4>1. x = z <=> x[2] = Place(l)
        BY <1>6, <1>7, <3>1
      <4> QED BY <1>11, <3>1, <4>1
    <3>2. CASE x[1] # i
      BY <1>1, <1>7, <1>8, <3>2, OtherFiles
    <3> QED BY <3>1, <3>2
  <2>2. ~Live(z[1], z[2])
    BY <1>7, <1>11
  <2> QED BY <1>7, <2>1, <2>2 DEF Owns
<1>13. Level(l) > 0 => /\ y \in Owns /\ BlockAt(y) = T /\ Above(z) = y /\ Tip(z[2]) \in Entry
                       /\ Tip(z[2]) = Last(Path[l]) /\ T \in Blocks
  <2> SUFFICES ASSUME Level(l) > 0
               PROVE  /\ y \in Owns /\ BlockAt(y) = T /\ Above(z) = y /\ Tip(z[2]) \in Entry
                      /\ Tip(z[2]) = Last(Path[l]) /\ T \in Blocks
    OBVIOUS
  <2>1. /\ y[1] = i /\ Above(z) = y /\ y[2] \in Tree /\ IsTable(y[2])
        /\ Path[l][Level(l)] \in Entry /\ Tip(z[2]) = Path[l][Level(l)] /\ Last(Path[l]) = Path[l][Level(l)]
        /\ BlockAt(y) = LastTable(Nodes[i], l)
    BY <1>4, <1>6, IndirectPlace
  <2>2. y \in Owns
    <3>1. Live(i, y[2]) /\ y \in Inodes \X Tree
      BY <1>4, <1>6, <1>7, <1>11, <2>1
    <3> QED BY <2>1, <3>1 DEF Owns
  <2>3. BlockAt(y) = T
    BY <1>3, <1>10, <2>1
  <2> QED BY <1>1, <2>1, <2>2, <2>3
<1>14. /\ Level(l) = 0 => disk' = disk
       /\ Level(l) > 0 => \A c \in Blocks : \A k \in Entry :
            disk'[c][k] = IF c = T /\ k = Tip(z[2]) THEN 0 ELSE disk[c][k]
  <2>1. ASSUME Level(l) > 0, NEW c \in Blocks, NEW k \in Entry
        PROVE  disk'[c][k] = IF c = T /\ k = Tip(z[2]) THEN 0 ELSE disk[c][k]
    <3>1. PICK j : j = Tip(z[2])
      OBVIOUS
    <3>2. disk' = [disk EXCEPT ![T] = [@ EXCEPT ![j] = 0]] /\ T \in Blocks /\ j \in Entry
      <4>1. Level(l) # 0 /\ j = Last(Path[l]) /\ T \in Blocks /\ j \in Entry
        BY <1>7, <1>13, <2>1, <3>1
      <4> QED BY <1>4, <4>1
    <3>3. disk \in [Blocks -> [Entry -> Word]]
      BY <1>1 DEF Typed, StoreTypes
    <3> QED BY <3>1, <3>2, <3>3
  <2> QED BY <1>4, <2>1
<1>15. Clears(disk, Nodes, Owns, z, disk', Nodes')
  <2>1. Rooted(Owns \cup {z})
    BY <1>12, OwnsRooted
  <2>2. ASSUME NEW x \in Owns \cup {z}, Far(x) = 0
        PROVE  Nodes'[x[1]].ptr[x[2][1]] = IF x = z THEN 0 ELSE Nodes[x[1]].ptr[x[2][1]]
    <3>1. /\ x = <<x[1], x[2]>> /\ x[1] \in Inodes /\ x[2][1] \in Slots /\ x[2] \in Tree
      BY <2>1, PositionsAre
    <3>2. CASE x[1] # i
      BY <1>1, <1>7, <1>8, <3>1, <3>2, OtherFiles
    <3>3. CASE x[1] = i /\ Level(l) # 0
      <4>1. n = copy[t] /\ x # z
        BY <1>3, <1>7, <2>2, <3>3 DEF Cleared
      <4> QED BY <1>10, <3>3, <4>1
    <3>4. CASE x[1] = i /\ Level(l) = 0
      <4>1. Root(l) = l /\ l \in Slots
        BY <1>4, <3>4, Paths
      <4>2. n = [copy[t] EXCEPT !.ptr[l] = 0] /\ copy[t] \in InodeType
        BY <1>1, <1>3, <3>4, LocalIs DEF Cleared
      <4>3. \A s \in Slots : n.ptr[s] = IF s = l THEN 0 ELSE copy[t].ptr[s]
        BY <4>1, <4>2 DEF InodeType
      <4>4. x[2][1] = l <=> x = z
        <5>1. PICK a, b : a = x[2][2] /\ b = z[2][2]
          OBVIOUS
        <5>2. a \in Seq(Entry) /\ b \in Seq(Entry) /\ x[2] = <<x[2][1], a>> /\ z[2] = <<z[2][1], b>>
          BY <1>7, <3>1, <5>1, TreeIs
        <5>3. Len(a) = 0 /\ Len(b) = 0
          BY <1>7, <2>2, <3>4, <5>1 DEF Far
        <5>4. a = b
          BY <5>2, <5>3, EmptySeq
        <5> QED BY <1>6, <1>7, <3>1, <3>4, <4>1, <5>2, <5>4
      <4> QED BY <1>10, <3>1, <3>4, <4>3, <4>4
    <3> QED BY <3>2, <3>3, <3>4
  <2>3. ASSUME NEW x \in Owns, IsTable(x[2]), Has(disk, Nodes, x) # 0, NEW k \in Entry
        PROVE  disk'[Has(disk, Nodes, x)][k]
                 = IF Far(z) > 0 /\ x = Above(z) /\ k = Tip(z[2]) THEN 0 ELSE disk[Has(disk, Nodes, x)][k]
    <3>1. PICK c : c = Has(disk, Nodes, x)
      OBVIOUS
    <3>2. c \in Blocks /\ c # 0
      BY <1>1, <2>3, <3>1 DEF BlockAt
    <3>3. CASE Level(l) = 0
      BY <1>7, <1>14, <3>3
    <3>4. CASE Level(l) > 0
      <4>1. c = T <=> x = y
        BY <1>13, <3>1, <3>2, <3>4 DEF Ready, Tidy, Owned, Own, BlockAt
      <4> QED BY <1>7, <1>13, <1>14, <3>1, <3>2, <3>4, <4>1
    <3> QED BY <1>7, <3>3, <3>4
  <2> QED BY <1>7, <1>12, <2>1, <2>2, <2>3 DEF Clears
<1>16. Owned' /\ BlockAt(z)' = 0 /\ \A x \in Owns : BlockAt(x)' = BlockAt(x)
  <2>1. Own(disk, Nodes, Owns, bmap)
    BY DEF Ready, Tidy, Owned
  <2>2. /\ Own(disk', Nodes', Owns \cup {z}, bmap)
        /\ Has(disk', Nodes', z) = 0 /\ \A x \in Owns : Has(disk', Nodes', x) = Has(disk, Nodes, x)
    BY ONLY <1>15, <2>1, Cut
  <2> QED BY <1>5, <1>12, <2>2 DEF Owned, BlockAt
<1>17. Quiet(-1, 0)
  <2>1. \A c \in Blocks : \A k \in Entry : disk'[c][k] = disk[c][k] \/ disk'[c][k] <= 0
    BY <1>7, <1>14
  <2> QED BY <2>1 DEF Quiet
<1>18. ~Placing(t) /\ ~Placing(t)' /\ -1 \notin Blocks /\ -1 \notin W \cup {0}
  BY <1>1, <1>4, <1>5, Volume DEF Placing
<1>19. Changes(t, i, W, -1, 0)
  BY <1>5, <1>7, <1>8, <1>12, <1>16, <1>17, <1>18 DEF Changes
<1>20. Settled(t, i)
  <2>1. ASSUME NEW x \in Owns', NEW m \in Logicals, x[1] = i, x[2] = Place(m), EndsBy(i, m)', BlockAt(x)' # 0
        PROVE  m >= Direct /\ BlockAt(x)' \in lost'
    <3>1. x # z /\ x \in Owns /\ BlockAt(x)' = BlockAt(x)
      BY <1>12, <1>16, <2>1
    <3>2. m # l
      <4>1. x = <<x[1], x[2]>>
        BY <2>1, OwnsRooted, PositionsAre
      <4> QED BY <1>6, <2>1, <3>1, <4>1
    <3>3. Edge(t)' = l /\ Edge(t) = l + 1
      <4>1. pos[t] \in Nat
        BY <1>1, LocalIs
      <4> QED BY <1>2, <1>4, <1>5, <4>1 DEF Edge
    <3>4. EndsBy(i, m)
      <4>1. l \in Nat /\ m \in Nat
        BY <1>4, FileIs
      <4>2. l <= m
        BY <1>4, <1>5, <1>9, <2>1, <3>3, EndsByOwn
      <4>3. l + 1 <= m
        BY <3>2, <4>1, <4>2
      <4> QED BY <1>1, <1>2, <1>4, <3>3, <4>3, EndsByOwn
    <3> QED BY <1>4, <2>1, <3>1, <3>4 DEF Ready, Tidy, Beyond
  <2>2. ASSUME NEW b \in bmap', b \notin bmap \/ Gone(t, i, b)
        PROVE  \E x \in Owns' : BlockAt(x)' = b
    BY <1>5, <1>12, <1>16, <1>18, <2>2 DEF Gone
  <2> QED BY <1>4, <2>1, <2>2 DEF Settled
<1>21. Spread(W, -1, 0) = W
  BY <1>18 DEF Spread
<1>22. Behind(t)' /\ Stands(t, W)' /\ Writes(t, W)' /\ Lacks(t)'
  BY <1>5 DEF Behind, Stands, Writes, Lacks, Placing
<1>23. Tidy(Spread(W, -1, 0))'
  BY <1>1, <1>9, <1>16, <1>19, <1>20, <1>21, <1>22, TidyNext
<1> QED BY <1>21, <1>23

-----------------------------------------------------------------------------
(* The roles of blocks are the positions of a file.                        *)
\* The name of a position.
Named(m, p) ==
  IF IsTable(p) THEN m = <<Deep(p[1])>> \o p[2] ELSE \E l \in Logicals : m = <<0, l>> /\ p = Place(l)

\* A role is a position and its name.
LEMMA RolesAre ==
  /\ \A r \in Roles : <<r.root, r.path>> \in Tree /\ Named(r.name, <<r.root, r.path>>)
  /\ \A p \in Tree : \E r \in Roles : <<r.root, r.path>> = p
<1>1. ASSUME NEW r \in Roles PROVE <<r.root, r.path>> \in Tree /\ Named(r.name, <<r.root, r.path>>)
  <2>1. CASE \E l \in Logicals : r = [name |-> <<0, l>>, root |-> Root(l), path |-> Path[l]]
    <3>1. PICK l \in Logicals : r = [name |-> <<0, l>>, root |-> Root(l), path |-> Path[l]]
      BY <2>1
    <3>2. <<r.root, r.path>> = Place(l) /\ r.name = <<0, l>>
      BY <3>1 DEF Place
    <3>3. Place(l) \in Tree /\ ~IsTable(Place(l))
      BY PlaceIs
    <3> QED BY <3>2, <3>3 DEF Named
  <2>2. CASE \E l \in Logicals : \E d \in 0..(Level(l) - 1) :
               r = [name |-> <<Level(l)>> \o SubSeq(Path[l], 1, d), root |-> Root(l), path |-> SubSeq(Path[l], 1, d)]
    <3>1. PICK l \in Logicals : \E d \in 0..(Level(l) - 1) :
               r = [name |-> <<Level(l)>> \o SubSeq(Path[l], 1, d), root |-> Root(l), path |-> SubSeq(Path[l], 1, d)]
      BY <2>2
    <3>2. PICK d \in 0..(Level(l) - 1) :
               r = [name |-> <<Level(l)>> \o SubSeq(Path[l], 1, d), root |-> Root(l), path |-> SubSeq(Path[l], 1, d)]
      BY <3>1
    <3>3. PICK p : p = Stem(l, d)
      OBVIOUS
    <3>4. <<r.root, r.path>> = p /\ r.name = <<Level(l)>> \o p[2]
      BY <3>2, <3>3 DEF Stem
    <3>5. d \in 0..Level(l) /\ d < Level(l)
      BY <3>2, Paths
    <3>6. p \in Tree /\ IsTable(p) /\ Deep(p[1]) = Level(l)
      BY <3>3, <3>5, StemIs
    <3> QED BY <3>4, <3>6 DEF Named
  <2> QED BY <2>1, <2>2 DEF Roles
<1>2. ASSUME NEW p \in Tree PROVE \E r \in Roles : <<r.root, r.path>> = p
  <2>1. PICK l \in Logicals : p = Stem(l, Len(p[2])) /\ Len(p[2]) \in 0..Level(l)
    BY TreeIs
  <2>2. PICK d : d = Len(p[2])
    OBVIOUS
  <2>3. p = <<Root(l), SubSeq(Path[l], 1, d)>> /\ d \in 0..Level(l) /\ Level(l) \in 0..3
    BY <2>1, <2>2, Paths DEF Stem
  <2>4. CASE d = Level(l)
    <3>1. p = Place(l)
      BY <2>1, <2>2, <2>4, PlaceIs
    <3>2. PICK r : r = [name |-> <<0, l>>, root |-> Root(l), path |-> Path[l]]
      OBVIOUS
    <3>3. r \in Roles
      BY <3>2 DEF Roles
    <3>4. <<r.root, r.path>> = p
      BY <3>1, <3>2 DEF Place
    <3> QED BY <3>3, <3>4
  <2>5. CASE d # Level(l)
    <3>1. d \in 0..(Level(l) - 1)
      BY <2>3, <2>5
    <3>2. PICK r : r = [name |-> <<Level(l)>> \o SubSeq(Path[l], 1, d), root |-> Root(l), path |-> SubSeq(Path[l], 1, d)]
      OBVIOUS
    <3>3. r \in Roles
      <4>1. PICK S : S = {[name |-> <<Level(l)>> \o SubSeq(Path[l], 1, c), root |-> Root(l),
                          path |-> SubSeq(Path[l], 1, c)] : c \in 0..(Level(l) - 1)}
        OBVIOUS
      <4>2. r \in S
        BY <3>1, <3>2, <4>1
      <4>3. S \subseteq Roles
        BY <4>1, ZenonT(40) DEF Roles
      <4> QED BY <4>2, <4>3
    <3>4. <<r.root, r.path>> = p
      BY <2>3, <3>2
    <3> QED BY <3>3, <3>4
  <2> QED BY <2>4, <2>5
<1> QED BY <1>1, <1>2

\* Names and positions belong together, and tell data and indirect blocks apart.
LEMMA NamesAre ==
  ASSUME NEW p \in Tree, NEW m, Named(m, p)
  PROVE  /\ m[1] = 0 <=> ~IsTable(p)
         /\ IsTable(p) => m[1] = Deep(p[1]) /\ (Len(m) > 1 <=> Len(p[2]) > 0)
         /\ ~IsTable(p) => m[2] \in Logicals /\ p = Place(m[2])
         /\ \A o : Named(o, p) => o = m
         /\ \A q \in Tree : Named(m, q) => q = p
<1>1. p = <<p[1], p[2]>> /\ p[1] \in Slots /\ p[2] \in Seq(Entry) /\ Len(p[2]) \in 0..3
  BY TreeIs
<1>2. ASSUME NEW q \in Tree, IsTable(q), NEW o, o = <<Deep(q[1])>> \o q[2]
      PROVE  /\ o[1] = Deep(q[1]) /\ Deep(q[1]) \in Int /\ Deep(q[1]) > 0 /\ Len(o) = 1 + Len(q[2])
             /\ \A k \in 1..Len(q[2]) : o[k + 1] = q[2][k]
             /\ q = <<q[1], q[2]>> /\ q[2] \in Seq(Entry) /\ q[1] = Deep(q[1]) + Direct - 1 /\ q[1] \in Int
  <2>1. q = <<q[1], q[2]>> /\ q[1] \in Slots /\ q[2] \in Seq(Entry) /\ Len(q[2]) \in 0..3
    BY TreeIs
  <2>2. PICK e, s : e = Deep(q[1]) /\ s = q[2]
    OBVIOUS
  <2>3. Direct \in Nat /\ Slots \subseteq Nat
    BY FileIs
  <2>4. e > 0 /\ e \in Int /\ q[1] = e + Direct - 1 /\ q[1] \in Int
    BY <1>2, <2>1, <2>2, <2>3 DEF Deep, IsTable
  <2>5. <<e>> \in Seq(Int) /\ Len(<<e>>) = 1 /\ <<e>>[1] = e
    BY <2>4
  <2>6. s \in Seq(Int)
    <3>1. Entry \subseteq Int
      BY DEF Entry
    <3> QED BY <2>1, <2>2, <3>1
  <2>7. Len(o) = 1 + Len(s) /\ o[1] = e /\ \A k \in 1..Len(s) : o[k + 1] = s[k]
    <3>1. o = <<e>> \o s
      BY <1>2, <2>2
    <3> QED BY <2>5, <2>6, <3>1, ConcatProperties
  <2> QED BY <2>1, <2>2, <2>4, <2>7
<1>3. CASE IsTable(p)
  <2>1. m = <<Deep(p[1])>> \o p[2]
    BY <1>3 DEF Named
  <2>2. /\ m[1] = Deep(p[1]) /\ Deep(p[1]) \in Int /\ Deep(p[1]) > 0 /\ Len(m) = 1 + Len(p[2])
        /\ \A k \in 1..Len(p[2]) : m[k + 1] = p[2][k]
        /\ p[1] = Deep(p[1]) + Direct - 1
    BY <1>2, <1>3, <2>1
  <2>3. ASSUME NEW q \in Tree, Named(m, q) PROVE q = p
    <3>1. IsTable(q)
      <4>1. SUFFICES ASSUME ~IsTable(q) PROVE FALSE
        OBVIOUS
      <4>2. m[1] = 0
        BY <2>3, <4>1 DEF Named
      <4> QED BY <2>2, <4>2
    <3>2. m = <<Deep(q[1])>> \o q[2]
      BY <2>3, <3>1 DEF Named
    <3>3. /\ m[1] = Deep(q[1]) /\ Len(m) = 1 + Len(q[2])
          /\ \A k \in 1..Len(q[2]) : m[k + 1] = q[2][k]
          /\ q = <<q[1], q[2]>> /\ q[2] \in Seq(Entry) /\ q[1] = Deep(q[1]) + Direct - 1
      BY <1>2, <3>1, <3>2
    <3>4. q[1] = p[1]
      BY <2>2, <3>3
    <3>5. Len(q[2]) = Len(p[2]) /\ Len(p[2]) \in Nat
      <4>1. Len(q[2]) \in Nat /\ Len(p[2]) \in Nat
        BY <1>1, <3>3
      <4> QED BY <2>2, <3>3, <4>1
    <3>6. q[2] = p[2]
      BY <1>1, <2>2, <3>3, <3>5, SeqEqual
    <3> QED BY <1>1, <3>3, <3>4, <3>6
  <2>4. \A o : Named(o, p) => o = m
    BY <1>3, <2>1 DEF Named
  <2> QED BY <1>1, <1>3, <2>2, <2>3, <2>4
<1>4. CASE ~IsTable(p)
  <2>1. PICK l \in Logicals : m = <<0, l>> /\ p = Place(l)
    BY <1>4 DEF Named
  <2>2. ASSUME NEW q \in Tree, Named(m, q) PROVE q = p
    <3>1. ~IsTable(q)
      <4>1. SUFFICES ASSUME IsTable(q) PROVE FALSE
        OBVIOUS
      <4>2. m = <<Deep(q[1])>> \o q[2]
        BY <2>2, <4>1 DEF Named
      <4>3. m[1] > 0
        BY <1>2, <4>1, <4>2
      <4> QED BY <2>1, <4>3
    <3>2. PICK j \in Logicals : m = <<0, j>> /\ q = Place(j)
      BY <2>2, <3>1 DEF Named
    <3>3. m[2] = l /\ m[2] = j
      BY <2>1, <3>2
    <3> QED BY <2>1, <3>2, <3>3
  <2>3. ASSUME NEW o, Named(o, p) PROVE o = m
    <3>1. PICK j \in Logicals : o = <<0, j>> /\ p = Place(j)
      BY <1>4, <2>3 DEF Named
    <3>2. j = l
      BY <2>1, <3>1, PlaceIs
    <3> QED BY <2>1, <3>1, <3>2
  <2> QED BY <1>4, <2>1, <2>2, <2>3
<1> QED BY <1>3, <1>4

\* The blocks an inode leads to are those at its positions, with their names.
LEMMA UsesAre ==
  ASSUME NEW n
  PROVE  /\ \A u \in Uses(n) : u = <<u[1], u[2]>> /\ u[2] # 0 /\ \E p \in Tree : u[2] = Reach(disk, n, p) /\ Named(u[1], p)
         /\ \A p \in Tree : Reach(disk, n, p) # 0 => \E m : <<m, Reach(disk, n, p)>> \in Uses(n) /\ Named(m, p)
<1>1. \A r \in Roles : Walk(n.ptr[r.root], r.path) = Reach(disk, n, <<r.root, r.path>>)
  BY RoleIs, WalksReach
<1>2. ASSUME NEW u \in Uses(n)
      PROVE  u = <<u[1], u[2]>> /\ u[2] # 0 /\ \E p \in Tree : u[2] = Reach(disk, n, p) /\ Named(u[1], p)
  <2>1. PICK r \in Roles : u = <<r.name, Walk(n.ptr[r.root], r.path)>>
    BY DEF Uses
  <2>2. u[2] # 0
    BY DEF Uses
  <2>3. PICK p : p = <<r.root, r.path>>
    OBVIOUS
  <2>4. p \in Tree /\ Named(r.name, p)
    BY <2>3, RolesAre
  <2>5. u[2] = Reach(disk, n, p) /\ u[1] = r.name
    BY <1>1, <2>1, <2>3
  <2> QED BY <2>1, <2>2, <2>4, <2>5
<1>3. ASSUME NEW p \in Tree, Reach(disk, n, p) # 0
      PROVE  \E m : <<m, Reach(disk, n, p)>> \in Uses(n) /\ Named(m, p)
  <2>1. PICK r \in Roles : <<r.root, r.path>> = p
    BY RolesAre
  <2>2. PICK u : u = <<r.name, Walk(n.ptr[r.root], r.path)>>
    OBVIOUS
  <2>3. u = <<r.name, Reach(disk, n, p)>> /\ u[2] # 0
    BY <1>1, <1>3, <2>1, <2>2
  <2>4. u \in Uses(n)
    BY <2>2, <2>3 DEF Uses
  <2>5. Named(r.name, p)
    BY <2>1, RolesAre
  <2> QED BY <2>3, <2>4, <2>5
<1> QED BY <1>2, <1>3

\* What an inode leads to, what an unlink will find of it, and what hangs on an indirect block.
LEMMA BlocksAre ==
  ASSUME NEW n
  PROVE  /\ \A b : b \in BlocksOf(n) <=> b # 0 /\ \E p \in Tree : b = Reach(disk, n, p)
         /\ \A p \in Tree : Reach(disk, n, p) # 0 /\ IsTable(p) => Reach(disk, n, p) \in Kept(n)
         /\ \A p \in Tree : \A l \in Logicals :
              Reach(disk, n, p) # 0 /\ p = Place(l) /\ l < Count(n.size) => Reach(disk, n, p) \in Kept(n)
         /\ \A b \in Kept(n) : \E p \in Tree :
              b = Reach(disk, n, p) /\ b # 0 /\ \A l \in Logicals : p = Place(l) => l < Count(n.size)
         /\ \A p \in Tree : Reach(disk, n, p) # 0 /\ IsTable(p) /\ Len(p[2]) > 0 =>
              Reach(disk, n, p) \in Inner(n, Deep(p[1]))
<1>1. ASSUME NEW b PROVE b \in BlocksOf(n) <=> b # 0 /\ \E p \in Tree : b = Reach(disk, n, p)
  <2>1. ASSUME b \in BlocksOf(n) PROVE b # 0 /\ \E p \in Tree : b = Reach(disk, n, p)
    <3>1. PICK u \in Uses(n) : u[2] = b
      BY <2>1 DEF BlocksOf
    <3> QED BY <3>1, UsesAre
  <2>2. ASSUME b # 0, NEW p \in Tree, b = Reach(disk, n, p) PROVE b \in BlocksOf(n)
    <3>1. PICK m : <<m, b>> \in Uses(n)
      BY <2>2, UsesAre
    <3>2. <<m, b>>[2] = b
      OBVIOUS
    <3> QED BY <3>1, <3>2 DEF BlocksOf
  <2> QED BY <2>1, <2>2
<1>2. ASSUME NEW p \in Tree, Reach(disk, n, p) # 0, IsTable(p) \/ \E l \in Logicals : p = Place(l) /\ l < Count(n.size)
      PROVE  Reach(disk, n, p) \in Kept(n)
  <2>1. PICK m : <<m, Reach(disk, n, p)>> \in Uses(n) /\ Named(m, p)
    BY <1>2, UsesAre
  <2>2. PICK u : u = <<m, Reach(disk, n, p)>>
    OBVIOUS
  <2>3. u[1][1] = 0 => u[1][2] < Count(n.size)
    <3>1. SUFFICES ASSUME m[1] = 0 PROVE m[2] < Count(n.size)
      BY <2>2
    <3>2. ~IsTable(p) /\ p = Place(m[2]) /\ m[2] \in Logicals
      BY <2>1, <3>1, NamesAre
    <3> QED BY <1>2, <3>2, PlaceIs
  <2>4. u \in {v \in Uses(n) : v[1][1] = 0 => v[1][2] < Count(n.size)}
    BY <2>1, <2>2, <2>3
  <2>5. u[2] = Reach(disk, n, p)
    BY <2>2
  <2> QED BY <2>4, <2>5 DEF Kept
<1>3. ASSUME NEW b \in Kept(n)
      PROVE  \E p \in Tree : b = Reach(disk, n, p) /\ b # 0 /\ \A l \in Logicals : p = Place(l) => l < Count(n.size)
  <2>1. PICK u \in {v \in Uses(n) : v[1][1] = 0 => v[1][2] < Count(n.size)} : u[2] = b
    BY DEF Kept
  <2>2. u \in Uses(n) /\ (u[1][1] = 0 => u[1][2] < Count(n.size)) /\ u[2] = b
    BY <2>1
  <2>3. PICK p \in Tree : u[2] = Reach(disk, n, p) /\ Named(u[1], p)
    BY <2>2, UsesAre
  <2>4. ASSUME NEW l \in Logicals, p = Place(l) PROVE l < Count(n.size)
    <3>1. ~IsTable(p)
      BY <2>4, PlaceIs
    <3>2. u[1][1] = 0 /\ u[1][2] \in Logicals /\ p = Place(u[1][2])
      BY <2>3, <3>1, NamesAre
    <3>3. u[1][2] = l
      BY <2>4, <3>2, PlaceIs
    <3> QED BY <2>2, <3>2, <3>3
  <2>5. b # 0
    BY <2>2, UsesAre
  <2> QED BY <2>2, <2>3, <2>4, <2>5
<1>4. ASSUME NEW p \in Tree, Reach(disk, n, p) # 0, IsTable(p), Len(p[2]) > 0
      PROVE  Reach(disk, n, p) \in Inner(n, Deep(p[1]))
  <2>1. PICK m : <<m, Reach(disk, n, p)>> \in Uses(n) /\ Named(m, p)
    BY <1>4, UsesAre
  <2>2. PICK u : u = <<m, Reach(disk, n, p)>>
    OBVIOUS
  <2>3. m[1] = Deep(p[1]) /\ Len(m) > 1
    BY <1>4, <2>1, NamesAre
  <2>4. u \in {v \in Uses(n) : v[1][1] = Deep(p[1]) /\ Len(v[1]) > 1}
    BY <2>1, <2>2, <2>3
  <2>5. u[2] = Reach(disk, n, p)
    BY <2>2
  <2> QED BY <2>4, <2>5 DEF Inner
<1> QED BY <1>1, <1>2, <1>3, <1>4

\* The block at a position depends on the pointer it starts from.
LEMMA ReachFrom ==
  ASSUME NEW p \in Tree, NEW n
  PROVE  /\ n.ptr[p[1]] = 0 => Reach(disk, n, p) = 0
         /\ \A m : m.ptr[p[1]] = n.ptr[p[1]] => Reach(disk, m, p) = Reach(disk, n, p)
<1>1. Len(p[2]) \in 0..3
  BY TreeIs
<1>2. n.ptr[p[1]] = 0 => Reach(disk, n, p) = 0
  BY <1>1 DEF Reach, Follows
<1>3. \A m : m.ptr[p[1]] = n.ptr[p[1]] => Reach(disk, m, p) = Reach(disk, n, p)
  BY DEF Reach
<1> QED BY <1>2, <1>3

\* A new file has an empty inode.
LEMMA TidyCreateInit ==
  ASSUME NEW W, Ready(W), NEW t \in Tasks, CreateInit(t)
  PROVE  Tidy(W)'
<1>1. Typed /\ Typed' /\ Going(t) /\ Apart /\ Marked /\ TakenBlocks \subseteq bmap
      /\ \A x \in Owns : BlockAt(x) # 0 => BlockAt(x) \in bmap
  BY ReadyIs
<1>2. PICK i : i = ino[t]
  OBVIOUS
<1>3. /\ op[t] = "create" /\ inodes' = [inodes EXCEPT ![i] = NoInode] /\ UNCHANGED <<bitmaps, disk, lost>>
      /\ files' = files \/ (files' = files \cup {i} /\ Prealloc = 0)
      /\ Prealloc = 0 => files' = IF call[t] = "create" THEN files \cup {i} ELSE files
      /\ Prealloc # 0 => files' = files
  <2>1. inodes' = [inodes EXCEPT ![i] = NoInode]
    BY <1>1, <1>2, ExactSave DEF CreateInit, Ready
  <2> QED BY <1>2, <2>1 DEF CreateInit, Ends
<1>4. i \in Inodes /\ IF Prealloc = 0 THEN Moves(t, "user", "none", 0, NoInode, 0, 0, 0, 0, 0, FALSE)
                      ELSE Moves(t, "grow", "create", i, NoInode, 0, Prealloc * Words, block[t], table[t], 0, FALSE)
  BY <1>1, <1>2, CreateInitIs
<1>5. /\ Others(t) /\ copy'[t] = NoInode /\ inodes'[i] = NoInode /\ (\A j \in Inodes \ {i} : inodes'[j] = inodes[j])
      /\ \/ op'[t] = "user" /\ ino'[t] = 0 /\ call'[t] = "none" /\ Prealloc = 0
         \/ op'[t] = "grow" /\ ino'[t] = i /\ call'[t] = "create" /\ Prealloc # 0
  <2>1. inodes \in [Inodes -> InodeType]
    BY <1>1 DEF Typed, StoreTypes
  <2>2. inodes'[i] = NoInode /\ (\A j \in Inodes \ {i} : inodes'[j] = inodes[j])
    BY <1>3, <1>4, <2>1
  <2>3. CASE Prealloc = 0
    BY <1>4, <2>2, <2>3 DEF Moves, Arrives
  <2>4. CASE Prealloc # 0
    BY <1>4, <2>2, <2>4 DEF Moves, Arrives
  <2> QED BY <2>3, <2>4
<1>6. call[t] = "create" /\ i \notin files /\ \A u \in Tasks \ {t} : ino[u] # i
  <2>1. call[t] = "create"
    BY <1>1, <1>3, CallIs
  <2>2. i # 0
    BY <1>4, Volume
  <2> QED BY <1>1, <1>2, <2>1, <2>2 DEF Marked, Apart
<1>7. Only(t, i)
  <2>1. \A j \in Inodes \ {i} : j \in files' <=> j \in files
    BY <1>3
  <2> QED BY <1>1, <1>2, <1>4, <1>5, <2>1, OnlyIs
<1>8. \A s \in Slots : Nodes'[i].ptr[s] = 0
  <2>1. Nodes'[i] = NoInode
    <3>1. Apart'
      BY <1>7 DEF Only
    <3>2. CASE ino'[t] = i
      BY <1>4, <1>5, <3>1, <3>2, CurrentNext
    <3>3. CASE ino'[t] # i
      <4>1. \A u \in Tasks : ino'[u] # i
        BY <1>6, <3>3, <1>5 DEF Others
      <4> QED BY <1>4, <1>5, <3>1, <4>1, CurrentNext
    <3> QED BY <3>2, <3>3
  <2> QED BY <2>1, NoInodeIs
<1>9. \A x \in Owns : x[1] # i
  <2>1. SUFFICES ASSUME NEW p, Live(i, p) PROVE FALSE
    BY DEF Owns
  <2>2. i \notin Living
    <3>1. \A u \in Tasks : call[u] = "create" /\ op[u] # "create" => ino[u] # i
      BY <1>3, <1>6
    <3> QED BY <1>6, <3>1, LivingIs
  <2>3. \A u \in Tasks : ino[u] = i => op[u] # "unlink"
    BY <1>3, <1>6
  <2> QED BY <2>1, <2>2, <2>3 DEF Live
<1>10. Sheds(t, i)
  <2>1. bmap' = bmap /\ Quiet(-1, 0) /\ ~Placing(t) /\ ~Placing(t)' /\ disk' = disk /\ lost' = lost
    BY <1>3, <1>5 DEF Quiet, Placing, bitmaps
  <2>2. \A p \in Tree : Nodes'[i].ptr[p[1]] = 0
    BY <1>8, TreeIs
  <2> QED BY <1>1, <1>7, <1>9, <2>1, <2>2 DEF Sheds
<1>11. Marked'
  <2>1. CASE Prealloc = 0
    <3>1. op'[t] = "user" /\ ino'[t] = 0 /\ call'[t] = "none" /\ files' = files \cup {i} /\ imap' = imap
      BY <1>3, <1>5, <1>6, <2>1 DEF bitmaps
    <3> QED BY <1>1, <1>2, <1>3, <1>4, <1>5, <1>6, <3>1, MarkedEnds DEF Ready, bitmaps
  <2>2. CASE Prealloc # 0
    BY <1>1, <1>2, <1>3, <1>5, <1>6, <2>2, MarkedKept DEF bitmaps
  <2> QED BY <2>1, <2>2
<1>12. Behind(t)'
  <2>1. SUFFICES ASSUME op'[t] = "grow" PROVE Behind(t)'
    BY <1>5 DEF Behind
  <2>2. ino'[t] = i /\ copy'[t] = NoInode /\ inodes'[i] = NoInode
    BY <1>5, <2>1
  <2>3. \A l \in Logicals : l < Direct => l \in Slots
    BY FileIs
  <2> QED BY <2>2, <2>3, NoInodeIs DEF Behind
<1>13. Stands(t, W)' /\ Writes(t, W)' /\ Lacks(t)'
  BY <1>5 DEF Stands, Writes, Lacks, Placing
<1> QED BY <1>10, <1>11, <1>12, <1>13, ShedStep

\* A block is at one position of the file of a task.
LEMMA OnePosition ==
  ASSUME NEW W, Ready(W), NEW i, \A p \in Tree : <<i, p>> \in Owns,
         NEW p \in Tree, NEW q \in Tree, Reach(disk, Nodes[i], p) = Reach(disk, Nodes[i], q), Reach(disk, Nodes[i], p) # 0
  PROVE  p = q
<1>1. PICK x, y : x = <<i, p>> /\ y = <<i, q>>
  OBVIOUS
<1>2. x \in Owns /\ y \in Owns /\ Has(disk, Nodes, x) = Has(disk, Nodes, y) /\ Has(disk, Nodes, x) # 0
  BY <1>1 DEF Has
<1>3. x = y
  BY <1>2 DEF Ready, Tidy, Owned, Own
<1> QED BY <1>1, <1>3

\* A call ends and its copy is dropped: the inode on the disk lacks what the copy has got.
Drops(t, i) ==
  /\ Finishes(t, i) /\ inodes' = inodes /\ op[t] # "shrink"
  /\ Quiet(-1, 0) /\ lost \subseteq lost' /\ bmap' \subseteq bmap
  /\ \A x \in Owns : BlockAt(x) # 0 => BlockAt(x) \in bmap' /\ disk'[BlockAt(x)] = disk[BlockAt(x)]
  /\ \A b \in bmap \ bmap' : Gone(t, i, b) /\ Blank(disk', b)
  /\ Placing(t) /\ block[t] \in bmap' => block[t] \in lost'
DropsLose(t, i) ==
  \A p \in Tree : Reach(disk, copy[t], p) # 0 =>
    /\ inodes[i].ptr[p[1]] = 0 => Reach(disk, copy[t], p) \in lost'
    /\ inodes[i].ptr[p[1]] # 0 => \A l \in Logicals : p = Place(l) /\ Count(inodes[i].size) <= l =>
         l >= Direct /\ Reach(disk, copy[t], p) \in lost'

\* Then the invariant holds after the step.
LEMMA DropStep ==
  ASSUME NEW W, Ready(W), NEW t \in Tasks, NEW i, Drops(t, i), DropsLose(t, i)
  PROVE  Tidy(W)'
<1> USE DEF Drops
<1>1. /\ Only(t, i) /\ Marked' /\ i \in Inodes /\ Nodes[i] = copy[t] /\ Nodes'[i] = inodes[i]
      /\ \A p : Live(i, p) /\ Live(i, p)'
      /\ \A l : EndsBy(i, l)' <=> Count(inodes[i].size) <= l
      /\ \A p \in Tree : <<i, p>> \in Owns
      /\ ~Placing(t)' /\ Behind(t)' /\ Stands(t, W)' /\ Writes(t, W)' /\ Lacks(t)'
  BY FinishesIs
<1>2. \A s \in Slots : inodes[i].ptr[s] \in {0, copy[t].ptr[s]}
  BY DEF Ready, Tidy, Behind, Finishes, Busy
<1>3. \A p \in Tree : Live(i, p)' => \/ Nodes'[i].ptr[p[1]] = 0
                                     \/ Live(i, p) /\ Nodes'[i].ptr[p[1]] = Nodes[i].ptr[p[1]]
  BY <1>1, <1>2, TreeIs
<1>4. ASSUME NEW x \in Owns, x[1] = i
      PROVE  /\ x[2] \in Tree /\ BlockAt(x) = Reach(disk, copy[t], x[2])
             /\ Left(i, x) <=> inodes[i].ptr[x[2][1]] # 0
  <2>1. x[2] \in Tree /\ x = <<x[1], x[2]>> /\ x[1] \in Inodes
    BY DEF Owns
  <2>2. x \in Owns'
    BY <1>1, <1>4, <2>1 DEF Owns
  <2>3. BlockAt(x) = Reach(disk, copy[t], x[2])
    BY <1>1, <1>4 DEF BlockAt, Has
  <2> QED BY <1>1, <2>1, <2>2, <2>3 DEF Left
<1>5. ASSUME NEW x \in Owns, NEW l \in Logicals, x[1] = i, x[2] = Place(l), EndsBy(i, l)', BlockAt(x) # 0, Left(i, x)
      PROVE  l >= Direct /\ BlockAt(x) \in lost'
  BY <1>1, <1>4, <1>5 DEF DropsLose
<1>6. ASSUME NEW x \in Owns, x[1] = i, BlockAt(x) # 0
      PROVE  BlockAt(x) \in lost' \/ Left(i, x)
  BY <1>4, <1>6 DEF DropsLose
<1>7. Sheds(t, i)
  BY <1>1, <1>3, <1>5, <1>6 DEF Sheds
<1> QED BY <1>1, <1>7, ShedStep

\* A write that changed nothing drops its copy.
LEMMA TidyWriteDropped ==
  ASSUME NEW W, Ready(W), NEW t \in Tasks, WriteEnd(t), ~Saves(t)
  PROVE  Tidy(W)'
<1>1. Typed /\ Going(t) /\ TakenBlocks \subseteq bmap /\ bmap \subseteq Blocks
      /\ \A x \in Owns : BlockAt(x) # 0 => BlockAt(x) \in bmap
  BY ReadyIs
<1>2. PICK i : i = ino[t]
  OBVIOUS
<1>3. /\ op[t] = "write" /\ inodes' = inodes /\ UNCHANGED <<bitmaps, disk>> /\ Ends(t)
      /\ lost' = lost \cup (BlocksOf(copy[t]) \ BlocksOf(inodes[i]))
  BY <1>2 DEF WriteEnd
<1>4. call[t] = "write" /\ i \in Inodes /\ Moves(t, "user", "none", 0, NoInode, 0, 0, 0, 0, 0, FALSE)
  BY <1>1, <1>2, WriteEndIs
<1>5. Finishes(t, i)
  BY <1>1, <1>2, <1>3, <1>4 DEF Finishes, Busy, Moves, Arrives, bitmaps, Ends
<1>6. Drops(t, i)
  <2>1. Quiet(-1, 0) /\ ~Placing(t) /\ bmap' = bmap
    BY <1>3 DEF Quiet, Placing, bitmaps
  <2> QED BY <1>1, <1>3, <1>5, <2>1 DEF Drops
<1>7. /\ Nodes[i] = copy[t] /\ \A p \in Tree : <<i, p>> \in Owns
      /\ \A l : EndsBy(i, l) <=> Edge(t) <= l
  BY <1>5, FinishesIs
<1>8. copy[t].size = inodes[i].size /\ \A s \in Slots : inodes[i].ptr[s] \in {0, copy[t].ptr[s]}
  BY <1>2, <1>3 DEF Ready, Tidy, Behind
<1>9. Edge(t) = Count(inodes[i].size)
  BY <1>3, <1>4, <1>8 DEF Edge, Saves
<1>10. DropsLose(t, i)
  <2>1. SUFFICES ASSUME NEW p \in Tree, Reach(disk, copy[t], p) # 0
                 PROVE  /\ inodes[i].ptr[p[1]] = 0 => Reach(disk, copy[t], p) \in lost'
                        /\ \A l \in Logicals : p = Place(l) /\ Count(inodes[i].size) <= l =>
                             l >= Direct /\ Reach(disk, copy[t], p) \in lost'
    BY DEF DropsLose
  <2>2. ASSUME inodes[i].ptr[p[1]] = 0 PROVE Reach(disk, copy[t], p) \in lost'
    <3>1. Reach(disk, copy[t], p) \in BlocksOf(copy[t])
      BY <2>1, BlocksAre
    <3>2. Reach(disk, copy[t], p) \notin BlocksOf(inodes[i])
      <4>1. SUFFICES ASSUME NEW q \in Tree, Reach(disk, copy[t], p) = Reach(disk, inodes[i], q) PROVE FALSE
        BY BlocksAre
      <4>2. inodes[i].ptr[q[1]] # 0
        BY <2>1, <4>1, ReachFrom
      <4>3. copy[t].ptr[q[1]] = inodes[i].ptr[q[1]]
        BY <1>8, <4>2, TreeIs
      <4>4. Reach(disk, copy[t], q) = Reach(disk, inodes[i], q)
        BY <4>3, ReachFrom
      <4>5. p = q
        BY <1>7, <2>1, <4>1, <4>4, OnePosition
      <4> QED BY <2>2, <4>2, <4>5
    <3> QED BY <1>3, <3>1, <3>2
  <2>3. ASSUME NEW l \in Logicals, p = Place(l), Count(inodes[i].size) <= l
        PROVE  l >= Direct /\ Reach(disk, copy[t], p) \in lost'
    <3>1. PICK x : x = <<i, p>>
      OBVIOUS
    <3>2. x \in Owns /\ x[1] = i /\ x[2] = Place(l) /\ BlockAt(x) = Reach(disk, copy[t], p)
      BY <1>7, <2>3, <3>1 DEF BlockAt, Has
    <3>3. EndsBy(x[1], l)
      BY <1>7, <1>9, <2>3, <3>2
    <3> QED BY <1>3, <2>1, <3>2, <3>3 DEF Ready, Tidy, Beyond
  <2> QED BY <2>2, <2>3
<1> QED BY <1>6, <1>10, DropStep

\* Without space for an indirect block a truncate ends, and drops its copy.
LEMMA TidyNoTableEnd ==
  ASSUME NEW W, Ready(W), NEW t \in Tasks, NoTable(t), call[t] # "write"
  PROVE  Tidy(W)'
<1>1. Typed /\ Going(t) /\ TakenBlocks \subseteq bmap /\ bmap \subseteq Blocks
      /\ \A x \in Owns : BlockAt(x) # 0 => BlockAt(x) \in bmap
  BY ReadyIs
<1>2. PICK i, b : i = ino[t] /\ b = block[t]
  OBVIOUS
<1>3. /\ op[t] = "table" /\ UNCHANGED <<inodemap, inodes>> /\ Ends(t)
      /\ FreeBlocks({b}) /\ disk' = Forgotten({b})
      /\ lost' = lost \cup (BlocksOf(copy[t]) \ Kept(inodes[i]))
  BY <1>2 DEF NoTable
<1>4. i \in Inodes /\ Moves(t, "user", "none", 0, NoInode, 0, 0, 0, 0, 0, FALSE)
  BY <1>1, <1>2, NoTableIs
<1>5. Placing(t)
  BY <1>3 DEF Placing
<1>6. /\ b \in bmap \ TakenBlocks /\ bmap' = bmap \ {b} /\ TakenBlocks \subseteq bmap'
      /\ Blank(disk', b) /\ Quiet(-1, 0)
      /\ \A x \in Owns : BlockAt(x) # 0 => BlockAt(x) \in bmap' /\ disk'[BlockAt(x)] = disk[BlockAt(x)]
  BY <1>2, <1>3, <1>5, HandFreed
<1>7. Finishes(t, i)
  BY <1>2, <1>3, <1>4, <1>6 DEF Finishes, Busy, Moves, Arrives, inodemap, Ends
<1>8. Drops(t, i)
  <2>1. \A c \in bmap \ bmap' : c = b
    BY <1>6
  <2>2. Gone(t, i, b)
    <3>1. b # 0
      BY <1>6, Volume
    <3> QED BY <1>2, <1>5, <3>1 DEF Gone
  <2> QED BY <1>2, <1>3, <1>6, <1>7, <2>1, <2>2 DEF Drops
<1>9. Nodes[i] = copy[t] /\ \A p \in Tree : <<i, p>> \in Owns
  BY <1>7, FinishesIs
<1>10. /\ \A s \in Slots : inodes[i].ptr[s] \in {0, copy[t].ptr[s]}
       /\ \A l \in Logicals : l < Direct /\ Count(inodes[i].size) <= l => inodes[i].ptr[l] = 0
  BY <1>2, <1>3 DEF Ready, Tidy, Behind
<1>11. ASSUME NEW p \in Tree, Reach(disk, copy[t], p) # 0, Reach(disk, copy[t], p) \in Kept(inodes[i])
       PROVE  inodes[i].ptr[p[1]] # 0 /\ \A l \in Logicals : p = Place(l) => l < Count(inodes[i].size)
  <2>1. PICK q \in Tree : /\ Reach(disk, copy[t], p) = Reach(disk, inodes[i], q)
                          /\ \A l \in Logicals : q = Place(l) => l < Count(inodes[i].size)
    BY <1>11, BlocksAre
  <2>2. inodes[i].ptr[q[1]] # 0
    BY <1>11, <2>1, ReachFrom
  <2>3. copy[t].ptr[q[1]] = inodes[i].ptr[q[1]]
    BY <1>10, <2>2, TreeIs
  <2>4. Reach(disk, copy[t], q) = Reach(disk, inodes[i], q)
    BY <2>3, ReachFrom
  <2>5. p = q
    BY <1>9, <1>11, <2>1, <2>4, OnePosition
  <2> QED BY <2>1, <2>2, <2>5
<1>12. DropsLose(t, i)
  <2>1. SUFFICES ASSUME NEW p \in Tree, Reach(disk, copy[t], p) # 0
                 PROVE  /\ inodes[i].ptr[p[1]] = 0 => Reach(disk, copy[t], p) \in lost'
                        /\ inodes[i].ptr[p[1]] # 0 =>
                             \A l \in Logicals : p = Place(l) /\ Count(inodes[i].size) <= l =>
                               l >= Direct /\ Reach(disk, copy[t], p) \in lost'
    BY DEF DropsLose
  <2>2. Reach(disk, copy[t], p) \in Kept(inodes[i]) \/ Reach(disk, copy[t], p) \in lost'
    <3>1. Reach(disk, copy[t], p) \in BlocksOf(copy[t])
      BY <2>1, BlocksAre
    <3> QED BY <1>3, <3>1
  <2>3. ASSUME inodes[i].ptr[p[1]] # 0, NEW l \in Logicals, p = Place(l), Count(inodes[i].size) <= l
        PROVE  l >= Direct /\ Reach(disk, copy[t], p) \in lost'
    <3>1. Count(inodes[i].size) \in Nat /\ l \in Nat /\ Direct \in Nat
      <4>1. inodes[i].size \in Nat
        BY <1>1, <1>4 DEF Typed, StoreTypes, InodeType
      <4>2. Count(inodes[i].size) \in Nat
        <5>1. 0 \in Int
          OBVIOUS
        <5> QED BY <4>1, <5>1, CountIs
      <4> QED BY <4>2, FileIs
    <3>2. Reach(disk, copy[t], p) \in lost'
      BY <1>11, <2>1, <2>2, <2>3, <3>1
    <3>3. ASSUME l < Direct PROVE FALSE
      <4>1. Level(l) = 0
        BY <3>3 DEF Level
      <4>2. p[1] = l
        BY <2>3, <4>1, Paths, PlaceIs
      <4> QED BY <1>10, <2>3, <3>3, <4>2
    <3> QED BY <3>1, <3>2, <3>3
  <2> QED BY <1>11, <2>1, <2>2, <2>3
<1> QED BY <1>8, <1>12, DropStep

-----------------------------------------------------------------------------
(* An unlink gives up the positions of its file one after the other.       *)
\* What an unlink still has, before and after it moves from a to c.
LEMMA UnlinkingIs ==
  ASSUME NEW W, Ready(W), NEW t \in Tasks, op[t] = "unlink", NEW i, i = ino[t]
  PROVE  /\ i \in Inodes /\ call[t] = "unlink" /\ i \notin files /\ i \in imap /\ Nodes[i] = copy[t]
         /\ pos[t] \in Nat /\ to[t] \in Nat /\ ~Placing(t)
         /\ \A u \in Tasks \ {t} : ino[u] # i
         /\ \A p : Live(i, p) <=> Unfreed(t, p)
         /\ \A l : EndsBy(i, l) <=> to[t] <= l
<1>1. Typed /\ Going(t) /\ Apart /\ Marked
  BY ReadyIs
<1>2. i \in Inodes /\ call[t] = "unlink" /\ i # 0
  <2>1. i \in Inodes /\ call[t] = "unlink"
    BY <1>1, CallIs
  <2> QED BY <2>1, Volume
<1>3. i \notin files /\ i \in imap
  BY <1>1, <1>2 DEF Marked
<1>4. \A u \in Tasks \ {t} : ino[u] # i
  BY <1>1, <1>2 DEF Apart
<1>5. Nodes[i] = copy[t]
  BY <1>1, <1>2, CurrentIs
<1>6. pos[t] \in Nat /\ to[t] \in Nat
  BY <1>1, LocalIs
<1>7. i \notin Living
  <2>1. ~(\E u \in Tasks : call[u] = "create" /\ op[u] # "create" /\ ino[u] = i)
    BY <1>2, <1>4
  <2> QED BY <1>3, <2>1, LivingIs
<1>8. \A p : Live(i, p) <=> Unfreed(t, p)
  BY <1>4, <1>7 DEF Live
<1>9. \A l : EndsBy(i, l) <=> Edge(t) <= l
  BY <1>1, <1>2, EndsByOwn
<1>10. Edge(t) = to[t]
  BY DEF Edge
<1> QED BY <1>2, <1>3, <1>4, <1>5, <1>6, <1>8, <1>9, <1>10 DEF Placing

\* An unlink goes on to the next position.
Unlinks(t, i) ==
  /\ op[t] = "unlink" /\ i = ino[t] /\ Others(t) /\ op'[t] = "unlink" /\ ino'[t] = i /\ call'[t] = call[t]
  /\ copy'[t] = copy[t] /\ to'[t] = to[t] /\ pos'[t] = pos[t] + 1
  /\ UNCHANGED <<inodes, files, imap>> /\ TakenBlocks \subseteq bmap'
\* The positions left are those behind it.
LEMMA UnlinksIs ==
  ASSUME NEW W, Ready(W), NEW t \in Tasks, NEW i, Unlinks(t, i)
  PROVE  /\ Only(t, i) /\ Marked' /\ Nodes'[i] = Nodes[i]
         /\ Behind(t)' /\ Stands(t, W)' /\ Writes(t, W)' /\ Lacks(t)' /\ ~Placing(t)'
         /\ \A l : EndsBy(i, l)' <=> to[t] <= l
         /\ \A p \in Tree : Live(i, p)' => Live(i, p)
         /\ \A p : Live(i, p)' <=> /\ p[1] >= Direct => pos[t] + 1 <= to[t] + (p[1] - Direct)
                                   /\ \A l \in Logicals : Place(l) = p => pos[t] + 1 <= l
<1> USE DEF Unlinks
<1>1. Typed /\ Going(t) /\ Apart /\ Marked /\ Apart' /\ i # 0
  <2>1. Typed /\ Going(t) /\ Apart /\ Marked /\ i \in Inodes
    BY ReadyIs, UnlinkingIs
  <2>2. i # 0
    BY <2>1, Volume
  <2>3. Apart'
    BY <2>1 DEF Apart, Others
  <2> QED BY <2>1, <2>2, <2>3
<1>2. /\ i \in Inodes /\ call[t] = "unlink" /\ i \notin files /\ Nodes[i] = copy[t]
      /\ pos[t] \in Nat /\ to[t] \in Nat
      /\ \A u \in Tasks \ {t} : ino[u] # i
      /\ \A p : Live(i, p) <=> Unfreed(t, p)
  BY UnlinkingIs
<1>3. Only(t, i)
  BY <1>1, <1>2, OnlyIs
<1>4. Marked'
  BY <1>1, MarkedKept
<1>5. Nodes'[i] = Nodes[i]
  BY <1>1, <1>2, CurrentNext
<1>6. /\ Behind(t)' /\ Stands(t, W)' /\ Writes(t, W)' /\ Lacks(t)' /\ ~Placing(t)'
  BY DEF Behind, Stands, Writes, Lacks, Placing
<1>7. \A l : EndsBy(i, l)' <=> to[t] <= l
  <2>1. Edge(t)' = to[t]
    BY DEF Edge
  <2> QED BY <1>1, <1>2, <2>1, EndsByOwn
<1>8. i \notin Living'
  <2>1. ~(\E u \in Tasks : call'[u] = "create" /\ op'[u] # "create" /\ ino'[u] = i)
    BY <1>2 DEF Others
  <2> QED BY <1>2, <2>1, LivingIs
<1>9. \A p : Live(i, p)' <=> Unfreed(t, p)'
  <2>1. \A u \in Tasks : ino'[u] = i => u = t
    BY <1>2 DEF Others
  <2>2. ASSUME NEW p PROVE Live(i, p)' <=> Unfreed(t, p)'
    <3>1. Live(i, p)' <=> \/ i \in Living' /\ ~Parted(i, p)'
                          \/ \E u \in Tasks : ino'[u] = i /\ op'[u] = "unlink" /\ Unfreed(u, p)'
      BY DEF Live
    <3> QED BY <1>8, <2>1, <3>1
  <2> QED BY <2>2
<1>10. \A p : Unfreed(t, p)' <=> /\ p[1] >= Direct => pos[t] + 1 <= to[t] + (p[1] - Direct)
                                 /\ \A l \in Logicals : Place(l) = p => pos[t] + 1 <= l
  BY DEF Unfreed
<1>11. \A p : p \in Tree /\ Unfreed(t, p)' => Unfreed(t, p)
  <2>1. Slots \subseteq Nat /\ Logicals \subseteq Nat /\ Direct \in Nat
    BY FileIs
  <2>2. SUFFICES ASSUME NEW p \in Tree, Unfreed(t, p)' PROVE Unfreed(t, p)
    OBVIOUS
  <2>3. p[1] \in Nat
    BY <2>1, TreeIs
  <2> QED BY <1>2, <1>10, <2>1, <2>2, <2>3 DEF Unfreed
<1> QED BY <1>2, <1>3, <1>4, <1>5, <1>6, <1>7, <1>9, <1>10, <1>11

\* What is left to an unlink after a step that frees the block of position z, if it has one.
LEMMA UnlinkStep ==
  ASSUME NEW W, Ready(W), NEW t \in Tasks, NEW i, Unlinks(t, i), NEW b,
         \/ b = 0 /\ UNCHANGED <<bmap, disk>>
         \/ b # 0 /\ FreeBlocks({b}) /\ disk' = Forgotten({b}) /\ Gone(t, i, b),
         \A x \in Owns : x[1] = i /\ BlockAt(x) = b /\ b # 0 => ~Live(i, x[2])',
         lost \subseteq lost',
         \A x \in Owns : x[1] = i /\ BlockAt(x) # 0 /\ BlockAt(x) # b => BlockAt(x) \in lost' \/ Live(i, x[2])'
  PROVE  Tidy(W)'
<1>1. TakenBlocks \subseteq bmap /\ bmap \subseteq Blocks /\ Marked
      /\ \A x \in Owns : BlockAt(x) # 0 => BlockAt(x) \in bmap \ TakenBlocks
  BY ReadyIs
<1>2. op[t] = "unlink" /\ i = ino[t]
  BY DEF Unlinks
<1>3. /\ i \in Inodes /\ ~Placing(t) /\ \A l : EndsBy(i, l) <=> to[t] <= l
  BY <1>2, UnlinkingIs
<1>4. /\ Only(t, i) /\ Marked' /\ Nodes'[i] = Nodes[i]
      /\ Behind(t)' /\ Stands(t, W)' /\ Writes(t, W)' /\ Lacks(t)' /\ ~Placing(t)'
      /\ \A l : EndsBy(i, l)' <=> to[t] <= l
      /\ \A p \in Tree : Live(i, p)' => Live(i, p)
  BY UnlinksIs
<1>5. /\ bmap' \subseteq bmap /\ Quiet(-1, 0)
      /\ \A c \in bmap \ bmap' : c = b /\ b # 0 /\ Gone(t, i, b) /\ Blank(disk', b)
      /\ \A c \in bmap : c # b \/ b = 0 => c \in bmap' /\ disk'[c] = disk[c]
      /\ b # 0 => b \notin bmap'
  <2>1. CASE b = 0 /\ UNCHANGED <<bmap, disk>>
    BY <2>1 DEF Quiet
  <2>2. CASE b # 0 /\ FreeBlocks({b}) /\ disk' = Forgotten({b}) /\ Gone(t, i, b)
    <3>1. b \in bmap \ {0}
      BY <1>1, <1>3, <2>2 DEF Gone
    <3>2. bmap' = bmap \ {b} /\ (\A c \in Blocks : c # b => disk'[c] = disk[c]) /\ \A k \in Entry : disk'[b][k] = Junk
      BY <2>2, <3>1, FreesOne
    <3>3. Junk <= 0
      BY DEF Junk
    <3>4. Blank(disk', b)
      BY <3>2, <3>3 DEF Blank
    <3>5. Quiet(-1, 0)
      BY <3>2, <3>4 DEF Quiet, Blank
    <3> QED BY <1>1, <2>2, <3>1, <3>2, <3>4, <3>5
  <2> QED BY <2>1, <2>2
<1>6. ASSUME NEW x \in Owns, x \in Owns', BlockAt(x) # 0
      PROVE  BlockAt(x) \in bmap' /\ disk'[BlockAt(x)] = disk[BlockAt(x)]
  <2>1. BlockAt(x) \in bmap
    BY <1>1, <1>6
  <2>2. BlockAt(x) # b \/ b = 0
    <3>1. SUFFICES ASSUME BlockAt(x) = b, b # 0 PROVE FALSE
      OBVIOUS
    <3>2. CASE x[1] = i
      <4>1. Live(i, x[2])'
        BY <1>6, <3>2 DEF Owns
      <4> QED BY <3>1, <3>2, <4>1
    <3>3. CASE x[1] # i
      <4>1. PICK y \in Owns : y[1] = i /\ BlockAt(y) = b
        BY <1>3, <3>1 DEF Gone
      <4>2. x = y
        BY <3>1, <4>1 DEF Ready, Tidy, Owned, Own, BlockAt
      <4> QED BY <3>3, <4>1, <4>2
    <3> QED BY <3>2, <3>3
  <2> QED BY <1>5, <2>1, <2>2
<1>7. \A p \in Tree : Live(i, p)' => \/ Nodes'[i].ptr[p[1]] = 0
                                     \/ Live(i, p) /\ Nodes'[i].ptr[p[1]] = Nodes[i].ptr[p[1]]
  BY <1>4
<1>8. ASSUME NEW x \in Owns, NEW l \in Logicals, x[1] = i, x[2] = Place(l), EndsBy(i, l)', BlockAt(x) # 0
      PROVE  l >= Direct /\ BlockAt(x) \in lost'
  <2>1. EndsBy(x[1], l)
    BY <1>3, <1>4, <1>8
  <2> QED BY <1>8, <2>1 DEF Ready, Tidy, Beyond
<1>9. ASSUME NEW x \in Owns, x[1] = i, BlockAt(x) # 0, BlockAt(x) \in bmap'
      PROVE  BlockAt(x) \in lost' \/ Left(i, x)
  <2>1. BlockAt(x) # b
    BY <1>5, <1>9
  <2>2. SUFFICES ASSUME Live(i, x[2])' PROVE Left(i, x)
    BY <1>9, <2>1
  <2>3. x \in Owns'
    BY <1>9, <2>2 DEF Owns
  <2>4. Nodes[i].ptr[x[2][1]] # 0
    <3>1. SUFFICES ASSUME Nodes[i].ptr[x[2][1]] = 0 PROVE FALSE
      OBVIOUS
    <3>2. Nodes[x[1]].ptr[x[2][1]] = 0
      BY <1>9, <3>1
    <3>3. Own(disk, Nodes, Owns, bmap)
      BY DEF Ready, Tidy, Owned
    <3>4. Has(disk, Nodes, x) = 0
      BY <3>2, <3>3, RootZero
    <3> QED BY <1>9, <3>4 DEF BlockAt
  <2> QED BY <1>4, <2>3, <2>4 DEF Left
<1>10. Sheds(t, i)
  BY <1>3, <1>4, <1>5, <1>6, <1>7, <1>8, <1>9 DEF Sheds
<1> QED BY <1>4, <1>10, ShedStep

\* An unlink frees the data up to the end.
LEMMA TidyUnlinkBlock ==
  ASSUME NEW W, Ready(W), NEW t \in Tasks, UnlinkBlock(t)
  PROVE  Tidy(W)'
<1>1. Typed /\ Going(t) /\ TakenBlocks \subseteq bmap /\ bmap \subseteq Blocks
      /\ \A x \in Owns : BlockAt(x) # 0 => BlockAt(x) \in bmap \ TakenBlocks
  BY ReadyIs
<1>2. PICK i, l, b : i = ino[t] /\ l = pos[t] /\ b = GetPhysical(copy[t], l)
  OBVIOUS
<1>3. /\ op[t] = "unlink" /\ pos[t] < to[t] /\ UNCHANGED <<inodemap, inodes, files, lost>>
      /\ \/ b = 0 /\ UNCHANGED <<blockmap, disk>>
         \/ b # 0 /\ FreeBlocks({b}) /\ disk' = Forgotten({b})
  BY <1>2 DEF UnlinkBlock
<1>4. /\ i \in Inodes /\ to[t] \in Nat /\ to[t] <= MaxBlocks /\ pos[t] \in Nat
      /\ Moves(t, "unlink", "unlink", i, copy[t], pos[t] + 1, to[t], block[t], table[t], 0, FALSE)
  BY <1>1, <1>2, UnlinkBlockIs
<1>5. /\ call[t] = "unlink" /\ Nodes[i] = copy[t]
      /\ \A p : Live(i, p) <=> Unfreed(t, p)
  BY <1>2, <1>3, UnlinkingIs
<1>6. l \in Logicals /\ l \in Nat
  BY <1>2, <1>3, <1>4, FileIs
<1>7. PICK z : z = <<i, Place(l)>>
  OBVIOUS
<1>8. /\ z[1] = i /\ z[2] = Place(l) /\ z[2] \in Tree /\ BlockAt(z) = b
      /\ \A m \in Logicals : Place(m) = z[2] => m = l
  <2>1. BlockAt(<<i, Place(l)>>) = GetPhysical(Nodes[i], l)
    BY <1>6, AtPlaces
  <2> QED BY <1>2, <1>5, <1>6, <1>7, <2>1, PlaceIs
<1>9. z \in Owns
  <2>1. Unfreed(t, z[2])
    <3>1. z[2][1] \in Nat /\ Direct \in Nat
      <4>1. z[2][1] \in Slots
        BY <1>8, TreeIs
      <4>2. Slots \subseteq Nat /\ Direct \in Nat
        BY FileIs
      <4> QED BY <4>1, <4>2
    <3>2. z[2][1] >= Direct => pos[t] <= to[t] + (z[2][1] - Direct)
      BY <1>3, <1>4, <3>1
    <3>3. ASSUME NEW m \in Logicals, Place(m) = z[2] PROVE pos[t] <= m
      <4>1. m = l
        BY <1>8, <3>3
      <4> QED BY <1>2, <1>6, <4>1
    <3> QED BY <3>2, <3>3 DEF Unfreed
  <2> QED BY <1>4, <1>5, <1>7, <1>8, <2>1 DEF Owns
<1>10. b # 0 => b \in bmap \ TakenBlocks
  BY <1>1, <1>8, <1>9
<1>11. Unlinks(t, i)
  <2>1. TakenBlocks \subseteq bmap'
    <3>1. CASE b = 0
      BY <1>1, <1>3, <3>1 DEF blockmap
    <3>2. CASE b # 0
      <4>1. bmap' = bmap \ {b}
        BY <1>3, <1>10, <3>2, FreesOne
      <4> QED BY <1>1, <1>10, <3>2, <4>1
    <3> QED BY <3>1, <3>2
  <2> QED BY <1>2, <1>3, <1>4, <1>5, <2>1 DEF Unlinks, Moves, Arrives, inodemap
<1>12. /\ \A p : Live(i, p)' <=> /\ p[1] >= Direct => pos[t] + 1 <= to[t] + (p[1] - Direct)
                                 /\ \A m \in Logicals : Place(m) = p => pos[t] + 1 <= m
  BY <1>11, UnlinksIs
<1>13. ASSUME NEW x \in Owns, x[1] = i, BlockAt(x) = b, b # 0 PROVE ~Live(i, x[2])'
  <2>1. x = z
    BY <1>8, <1>9, <1>13 DEF Ready, Tidy, Owned, Own, BlockAt
  <2>2. ~(pos[t] + 1 <= l)
    BY <1>2, <1>6
  <2> QED BY <1>6, <1>8, <1>12, <2>1, <2>2
<1>14. ASSUME NEW x \in Owns, x[1] = i, BlockAt(x) # b PROVE Live(i, x[2])'
  <2>1. x[2] \in Tree /\ x = <<x[1], x[2]>> /\ Unfreed(t, x[2])
    BY <1>5, <1>14 DEF Owns
  <2>2. x[2] # Place(l)
    BY <1>7, <1>8, <1>14, <2>1
  <2>3. x[2][1] \in Nat /\ Direct \in Nat /\ Logicals \subseteq Nat
    <3>1. x[2][1] \in Slots
      BY <2>1, TreeIs
    <3>2. Slots \subseteq Nat /\ Direct \in Nat /\ Logicals \subseteq Nat
      BY FileIs
    <3> QED BY <3>1, <3>2
  <2>4. x[2][1] >= Direct => pos[t] + 1 <= to[t] + (x[2][1] - Direct)
    BY <1>3, <1>4, <2>3
  <2>5. ASSUME NEW m \in Logicals, Place(m) = x[2] PROVE pos[t] + 1 <= m
    <3>1. pos[t] <= m /\ m # l
      BY <2>1, <2>2, <2>5 DEF Unfreed
    <3> QED BY <1>2, <1>4, <2>3, <2>5, <3>1
  <2> QED BY <1>12, <2>4, <2>5
<1>15. b # 0 => Gone(t, i, b)
  BY <1>8, <1>9 DEF Gone
<1>16. \/ b = 0 /\ UNCHANGED <<bmap, disk>>
       \/ b # 0 /\ FreeBlocks({b}) /\ disk' = Forgotten({b}) /\ Gone(t, i, b)
  BY <1>3, <1>15 DEF blockmap
<1> QED BY <1>3, <1>11, <1>13, <1>14, <1>16, UnlinkStep

\* The inode is free once the blocks of the file are.
LEMMA TidyUnlinkEnd ==
  ASSUME NEW W, Ready(W), NEW t \in Tasks, UnlinkEnd(t)
  PROVE  Tidy(W)'
<1>1. Typed /\ Going(t) /\ TakenBlocks \subseteq bmap /\ bmap \subseteq Blocks /\ Apart /\ Marked
      /\ \A x \in Owns : BlockAt(x) # 0 => BlockAt(x) \in bmap
  BY ReadyIs
<1>2. PICK i : i = ino[t]
  OBVIOUS
<1>3. /\ op[t] = "unlink" /\ pos[t] = to[t] + 3 /\ UNCHANGED <<blockmap, disk, lost>>
      /\ inodes' = [inodes EXCEPT ![i] = NoInode] /\ Ends(t)
      /\ imap' = imap \/ imap' = imap \ {i}
      /\ imap' = imap => i < FirstInode \/ i \notin imap
  <2>1. inodes' = [inodes EXCEPT ![i] = NoInode]
    BY <1>1, <1>2, ExactSave DEF UnlinkEnd, Ready
  <2> QED BY <1>2, <2>1 DEF UnlinkEnd, inodemap
<1>4. i \in Inodes /\ Moves(t, "user", "none", 0, NoInode, 0, 0, 0, 0, 0, FALSE)
  BY <1>1, <1>2, UnlinkEndIs
<1>5. /\ call[t] = "unlink" /\ i \notin files /\ i \in imap /\ Nodes[i] = copy[t]
      /\ pos[t] \in Nat /\ to[t] \in Nat /\ ~Placing(t)
      /\ \A u \in Tasks \ {t} : ino[u] # i
      /\ \A p : Live(i, p) <=> Unfreed(t, p)
      /\ \A l : EndsBy(i, l) <=> to[t] <= l
  BY <1>2, <1>3, UnlinkingIs
<1>6. /\ Others(t) /\ op'[t] = "user" /\ ino'[t] = 0 /\ call'[t] = "none" /\ files' = files
      /\ inodes'[i] = NoInode /\ \A j \in Inodes \ {i} : inodes'[j] = inodes[j]
  <2>1. inodes \in [Inodes -> InodeType]
    BY <1>1 DEF Typed, StoreTypes
  <2> QED BY <1>3, <1>4, <1>5, <2>1 DEF Moves, Arrives, Ends
<1>7. Only(t, i)
  BY <1>1, <1>2, <1>4, <1>6, OnlyIs
<1>8. \A u \in Tasks : ino'[u] # i
  <2>1. i # 0
    BY <1>4, Volume
  <2> QED BY <1>5, <1>6, <2>1 DEF Others
<1>9. \A p : ~Live(i, p)'
  <2>1. i \notin Living'
    BY <1>5, <1>6, <1>8, LivingIs
  <2> QED BY <1>8, <2>1 DEF Live
<1>10. \A s \in Slots : Nodes'[i].ptr[s] = 0
  <2>1. Nodes'[i] = NoInode
    BY <1>4, <1>6, <1>7, <1>8, CurrentNext DEF Only
  <2> QED BY <2>1, NoInodeIs
<1>11. ASSUME NEW x \in Owns, x[1] = i PROVE BlockAt(x) = 0
  <2>1. x[2] \in Tree /\ Unfreed(t, x[2])
    BY <1>5, <1>11 DEF Owns
  <2>2. PICK p : p = x[2]
    OBVIOUS
  <2>3. /\ p[1] \in Slots /\ Len(p[2]) \in 0..3
        /\ ~IsTable(p) => \E l \in Logicals : p = Place(l)
    BY <2>1, <2>2, TreeIs
  <2>4. Slots = 0..(Direct + 2) /\ Direct \in Nat /\ Logicals \subseteq Nat
    BY FileIs
  <2>5. p[1] >= Direct => pos[t] <= to[t] + (p[1] - Direct)
    BY <2>1, <2>2 DEF Unfreed
  <2>6. p[1] < Direct
    BY <1>3, <1>5, <2>3, <2>4, <2>5
  <2>7. ~IsTable(p)
    BY <2>3, <2>6 DEF IsTable, Deep
  <2>8. PICK l \in Logicals : p = Place(l)
    BY <2>3, <2>7
  <2>9. pos[t] <= l
    BY <2>1, <2>2, <2>8 DEF Unfreed
  <2>10. to[t] <= l /\ l < Direct
    <3>1. p[1] = Root(l)
      BY <2>8, PlaceIs
    <3>2. Level(l) = 0
      <4>1. SUFFICES ASSUME Level(l) # 0 PROVE FALSE
        OBVIOUS
      <4>2. Level(l) \in 1..3 /\ Root(l) = Direct + Level(l) - 1
        BY <2>8, <4>1, Paths
      <4> QED BY <2>4, <2>6, <3>1, <4>2
    <3>3. l < Direct
      BY <2>8, <3>2, Paths
    <3>4. l \in Nat
      BY <2>4, <2>8
    <3> QED BY <1>3, <1>5, <2>9, <3>3, <3>4
  <2>11. EndsBy(x[1], l)
    BY <1>5, <1>11, <2>10
  <2>12. ~(l >= Direct)
    BY <2>4, <2>8, <2>10
  <2> QED BY <2>2, <2>8, <2>11, <2>12 DEF Ready, Tidy, Beyond
<1>12. Sheds(t, i)
  <2>1. bmap' = bmap /\ Quiet(-1, 0) /\ ~Placing(t)' /\ disk' = disk /\ lost' = lost
    BY <1>3, <1>6 DEF Quiet, Placing, blockmap
  <2> QED BY <1>1, <1>5, <1>7, <1>9, <1>11, <2>1 DEF Sheds
<1>13. Marked'
  <2>1. imap' = imap => i \in TakenInodes
    BY <1>3, <1>4, <1>5, Volume
  <2>2. files' = IF call[t] = "create" THEN files \cup {i} ELSE files
    BY <1>5, <1>6
  <2>3. TakenBlocks \subseteq bmap'
    BY <1>1, <1>3 DEF blockmap
  <2> QED BY <1>1, <1>2, <1>3, <1>4, <1>5, <1>6, <2>1, <2>2, <2>3, MarkedEnds DEF Ready
<1>14. Behind(t)' /\ Stands(t, W)' /\ Writes(t, W)' /\ Lacks(t)'
  BY <1>6 DEF Behind, Stands, Writes, Lacks, Placing
<1> QED BY <1>12, <1>13, <1>14, ShedStep

\* A pointer that leads to no logical block.
Bare(s) == (\A i \in Inodes : inodes[i].ptr[s] = 0) /\ \A t \in Tasks : copy[t].ptr[s] = 0
RootsOnly == \A s \in Slots : Bare(s) \/ \E l \in Logicals : Root(l) = s

\* A pointer stays bare if no inode and no copy sets it.
LEMMA BareIs ==
  ASSUME NEW s \in Slots, Bare(s), NEW t \in Tasks, Others(t), copy'[t].ptr[s] = 0,
         \A i \in Inodes : inodes'[i].ptr[s] = inodes[i].ptr[s] \/ inodes'[i].ptr[s] = 0
  PROVE  Bare(s)'
<1>1. \A u \in Tasks : copy'[u].ptr[s] = 0
  BY DEF Bare, Others
<1> QED BY <1>1 DEF Bare

\* A step sets no pointer but one that leads to a logical block.
LEMMA BareNext ==
  ASSUME Typed, Exact, NEW t \in Tasks, Going(t), Step(t), FollowsBlocks', NEW s \in Slots, Bare(s),
         \A l \in Logicals : Root(l) # s
  PROVE  Bare(s)'
<1>1. inodes \in [Inodes -> InodeType] /\ copy \in [Tasks -> InodeType] /\ copy[t] \in InodeType
      /\ copy[t].ptr[s] = 0 /\ (\A i \in Inodes : inodes[i].ptr[s] = 0) /\ NoInode.ptr[s] = 0
  BY NoInodeIs DEF Typed, StoreTypes, LocalTypes, Bare
<1>2. \A n, m, o, c, i, p, e, b, T, d, M :
        Moves(t, o, c, i, n, p, e, b, T, d, M) /\ n.ptr[s] = 0 => Others(t) /\ copy'[t].ptr[s] = 0
  BY DEF Moves, Arrives
<1>3. \A r \in Slots : \A b : r # s => [copy[t] EXCEPT !.ptr[r] = b].ptr[s] = 0
  BY <1>1 DEF InodeType
<1>4. ASSUME Others(t), copy'[t].ptr[s] = 0, inodes' = inodes PROVE Bare(s)'
  BY <1>4, BareIs
<1>5. ASSUME NEW n, Others(t), copy'[t].ptr[s] = 0, n.ptr[s] = 0, Save(t, n) PROVE Bare(s)'
  <2>0. inodes' = [inodes EXCEPT ![ino[t]] = n]
    BY <1>5, ExactSave
  <2>1. \A j \in Inodes : inodes'[j] = inodes[j] \/ inodes'[j] = n
    BY <1>1, <2>0
  <2>2. \A j \in Inodes : inodes'[j].ptr[s] = inodes[j].ptr[s] \/ inodes'[j].ptr[s] = 0
    BY <1>5, <2>1
  <2> QED BY <1>5, <2>2, BareIs
<1>6. ASSUME NEW g \in GroupIds, Create(t, g) PROVE Bare(s)'
  BY <1>1, <1>2, <1>4, <1>6, CreateIs DEF Create, store
<1>7. ASSUME CreateInit(t) PROVE Bare(s)'
  <2>1. Others(t) /\ copy'[t].ptr[s] = 0
    BY <1>1, <1>2, <1>7, CreateInitIs
  <2> QED BY <1>1, <1>5, <1>7, <2>1 DEF CreateInit
<1>8. ASSUME NEW i \in Inodes, NEW r \in Ranges, Write(t, i, r) PROVE Bare(s)'
  BY <1>1, <1>2, <1>4, <1>8, WriteIs DEF Write, store
<1>9. ASSUME WriteFound(t) PROVE Bare(s)'
  BY <1>1, <1>2, <1>4, <1>9, WriteFoundIs DEF WriteFound, store
<1>10. ASSUME WriteAllocate(t) PROVE Bare(s)'
  <2>1. PICK b, l, n : b = FreeBlock(InodeGroup[ino[t]]) /\ l = Here(t) /\ n = [copy[t] EXCEPT !.ptr[l] = b]
    OBVIOUS
  <2>2. /\ l \in Logicals
        /\ IF b < 0
           THEN Moves(t, "write", "write", ino[t], copy[t], pos[t], pos[t], block[t], table[t], 0, t \in dirty)
           ELSE IF Level(l) > 0
           THEN Moves(t, "root", "write", ino[t], copy[t], pos[t], to[t], b, table[t], 0, t \in dirty)
           ELSE /\ l \in Slots /\ l = Root(l) /\ n \in InodeType
                /\ Moves(t, "data", "write", ino[t], n, pos[t], to[t], b, table[t], 0, TRUE)
    BY <1>10, <2>1, WriteAllocateIs
  <2>3. l \in Slots /\ l = Root(l) => n.ptr[s] = 0
    BY <1>3, <2>1, <2>2
  <2>4. Others(t) /\ copy'[t].ptr[s] = 0
    BY <1>1, <1>2, <2>2, <2>3
  <2> QED BY <1>4, <1>10, <2>4 DEF WriteAllocate, store
<1>11. ASSUME WriteData(t) PROVE Bare(s)'
  BY <1>1, <1>2, <1>4, <1>11, WriteDataIs DEF WriteData
<1>12. ASSUME WriteEnd(t) PROVE Bare(s)'
  <2>1. Others(t) /\ copy'[t].ptr[s] = 0
    BY <1>1, <1>2, <1>12, WriteEndIs
  <2>2. PICK n : n = Written(copy[t], pos[t])
    OBVIOUS
  <2>3. n.ptr[s] = 0
    BY <1>1, <2>2 DEF Written, InodeType
  <2>4. inodes' = inodes \/ Save(t, n)
    BY <1>12, <2>2 DEF WriteEnd
  <2> QED BY <1>4, <1>5, <2>1, <2>3, <2>4
<1>13. ASSUME SetRoot(t) PROVE Bare(s)'
  <2>1. PICK r : r = Root(Here(t))
    OBVIOUS
  <2>2. Here(t) \in Logicals /\ r \in Slots /\ r # s
    BY <1>13, <2>1, SetRootIs
  <2>3. PICK b \in Blocks : Moves(t, "table", call[t], ino[t], [copy[t] EXCEPT !.ptr[r] = b], pos[t], to[t], block[t], b, 0, t \in dirty)
    BY <1>13, <2>1, SetRootIs
  <2>4. Others(t) /\ copy'[t].ptr[s] = 0
    BY <1>2, <1>3, <2>2, <2>3
  <2> QED BY <1>4, <1>13, <2>4 DEF SetRoot
<1>14. ASSUME SetTable(t) PROVE Bare(s)'
  <2>1. Others(t) /\ copy'[t].ptr[s] = 0
    BY <1>1, <1>2, <1>14, SetTableIs
  <2> QED BY <1>4, <1>14, <2>1 DEF SetTable
<1>15. ASSUME NoTable(t) PROVE Bare(s)'
  BY <1>1, <1>2, <1>4, <1>15, NoTableIs DEF NoTable
<1>16. ASSUME SetEntry(t) PROVE Bare(s)'
  BY <1>1, <1>2, <1>4, <1>16, SetEntryIs DEF SetEntry
<1>17. ASSUME NEW i \in Inodes, NEW z \in Sizes, Truncate(t, i, z) PROVE Bare(s)'
  <2>1. Others(t) /\ copy'[t].ptr[s] = 0
    BY <1>1, <1>2, <1>17, TruncateIs
  <2> QED BY <1>4, <1>17, <2>1 DEF Truncate
<1>18. ASSUME Shrink(t) PROVE Bare(s)'
  <2>1. Others(t) /\ copy'[t].ptr[s] = 0
    BY <1>1, <1>2, <1>18, ShrinkIs
  <2> QED BY <1>4, <1>18, <2>1 DEF Shrink
<1>25. ASSUME Clear(t) PROVE Bare(s)'
  <2>1. PICK l : l = pos[t] - 1
    OBVIOUS
  <2>2. /\ l \in Logicals
        /\ Moves(t, "shrink", "truncate", ino[t], Cleared(copy[t], l), l, to[t], block[t], table[t], 0, FALSE)
    BY <1>25, <2>1, ClearIs
  <2>3. Cleared(copy[t], l).ptr[s] = 0
    <3>1. Level(l) = 0 => l \in Slots /\ l # s
      BY <2>2, Paths
    <3>2. Level(l) = 0 => [copy[t] EXCEPT !.ptr[l] = 0].ptr[s] = 0
      BY <1>3, <3>1
    <3> QED BY <1>1, <3>2 DEF Cleared
  <2>4. Others(t) /\ copy'[t].ptr[s] = 0
    BY <1>1, <1>2, <2>2, <2>3
  <2> QED BY <1>4, <1>25, <2>4 DEF Clear
<1>26. ASSUME SaveRead(t) PROVE Bare(s)'
  <2>1. Others(t) /\ copy' = copy /\ inodes' = inodes
    BY <1>26, SaveReadIs DEF store
  <2> QED BY <1>1, <1>4, <2>1
<1>19. ASSUME Grow(t) PROVE Bare(s)'
  <2>1. PICK b, l, n : b = FreeBlock(InodeGroup[ino[t]]) /\ l = Here(t) /\ n = [copy[t] EXCEPT !.ptr[l] = b]
    OBVIOUS
  <2>2. /\ l \in Logicals
        /\ \/ Moves(t, "grow", call[t], ino[t], copy[t], pos[t], pos[t] * Words, block[t], table[t], 0, FALSE)
           \/ Moves(t, "root", call[t], ino[t], copy[t], pos[t], to[t], b, table[t], 0, FALSE)
           \/ /\ l \in Slots /\ l = Root(l)
              /\ Moves(t, "grow", call[t], ino[t], n, pos[t] + 1, to[t], block[t], table[t], 0, FALSE)
    BY <1>19, <2>1, GrowIs
  <2>3. l \in Slots /\ l = Root(l) => n.ptr[s] = 0
    BY <1>3, <2>1, <2>2
  <2>4. Others(t) /\ copy'[t].ptr[s] = 0
    BY <1>1, <1>2, <2>2, <2>3
  <2> QED BY <1>4, <1>19, <2>4 DEF Grow
<1>20. ASSUME TruncateEnd(t) PROVE Bare(s)'
  <2>1. Others(t) /\ copy'[t].ptr[s] = 0
    BY <1>1, <1>2, <1>20, TruncateEndIs
  <2>2. PICK n : n = [copy[t] EXCEPT !.size = to[t]]
    OBVIOUS
  <2>3. n.ptr[s] = 0
    BY <1>1, <2>2 DEF InodeType
  <2>4. Save(t, n)
    BY <1>20, <2>2 DEF TruncateEnd
  <2> QED BY <1>5, <2>1, <2>3, <2>4
<1>21. ASSUME NEW i \in Inodes, Unlink(t, i) PROVE Bare(s)'
  <2>1. Others(t) /\ copy'[t].ptr[s] = 0
    BY <1>1, <1>2, <1>21, UnlinkIs
  <2> QED BY <1>4, <1>21, <2>1 DEF Unlink
<1>22. ASSUME UnlinkBlock(t) PROVE Bare(s)'
  <2>1. Others(t) /\ copy'[t].ptr[s] = 0
    BY <1>1, <1>2, <1>22, UnlinkBlockIs
  <2> QED BY <1>4, <1>22, <2>1 DEF UnlinkBlock
<1>23. ASSUME UnlinkTable(t) PROVE Bare(s)'
  <2>1. Others(t) /\ copy'[t].ptr[s] = 0
    BY <1>1, <1>2, <1>23, UnlinkTableIs
  <2> QED BY <1>4, <1>23, <2>1 DEF UnlinkTable
<1>24. ASSUME UnlinkEnd(t) PROVE Bare(s)'
  <2>1. Others(t) /\ copy'[t].ptr[s] = 0
    BY <1>1, <1>2, <1>24, UnlinkEndIs
  <2> QED BY <1>1, <1>5, <1>24, <2>1 DEF UnlinkEnd
<1> QED
  BY <1>6, <1>7, <1>8, <1>9, <1>10, <1>11, <1>12, <1>13, <1>14, <1>15, <1>16, <1>17, <1>18, <1>19, <1>20, <1>21,
     <1>22, <1>23, <1>24, <1>25, <1>26 DEF Step

\* So only pointers that lead to logical blocks are ever set.
LEMMA RootsNext ==
  ASSUME Typed, Exact, NEW t \in Tasks, Going(t), Step(t), FollowsBlocks', RootsOnly
  PROVE  RootsOnly'
<1>1. ASSUME NEW s \in Slots PROVE Bare(s)' \/ \E l \in Logicals : Root(l) = s
  BY BareNext DEF RootsOnly
<1> QED BY <1>1 DEF RootsOnly

\* An unlink frees the indirect block at a pointer, and forgets those that hang on it.
LEMMA TidyUnlinkTable ==
  ASSUME Faults = {}, NEW W, Ready(W), RootsOnly, NEW t \in Tasks, UnlinkTable(t)
  PROVE  Tidy(W)'
<1>1. Typed /\ Going(t) /\ TakenBlocks \subseteq bmap /\ bmap \subseteq Blocks
      /\ \A x \in Owns : BlockAt(x) # 0 => BlockAt(x) \in bmap \ TakenBlocks
  BY ReadyIs
<1>2. PICK i, e, s : i = ino[t] /\ e = pos[t] - to[t] + 1 /\ s = Direct + e - 1
  OBVIOUS
<1>3. PICK b : b = copy[t].ptr[s]
  OBVIOUS
<1>4. /\ op[t] = "unlink" /\ pos[t] \in to[t]..(to[t] + 2) /\ UNCHANGED <<inodemap, inodes, files>>
      /\ \/ b = 0 /\ UNCHANGED <<blockmap, disk, lost>>
         \/ /\ b # 0 /\ FreeBlocks({b}) /\ disk' = Forgotten({b})
            /\ lost' = lost \cup Inner(copy[t], e)
  <2>1. /\ op[t] = "unlink" /\ pos[t] \in to[t]..(to[t] + 2) /\ UNCHANGED <<inodemap, inodes, files>>
        /\ IF b = 0 THEN UNCHANGED <<blockmap, disk, lost>>
           ELSE \E G \in IF e = 1 THEN {{}} ELSE Garbage :
                  /\ FreeBlocks(G \cup {b})
                  /\ disk' = Forgotten(G \cup {b})
                  /\ lost' = lost \cup (Inner(copy[t], e) \ G)
    BY <1>2, <1>3 DEF UnlinkTable
  <2>2. (IF e = 1 THEN {{}} ELSE Garbage) = {{}}
    BY DEF Garbage
  <2>3. {} \cup {b} = {b} /\ Inner(copy[t], e) \ {} = Inner(copy[t], e)
    OBVIOUS
  <2>4. CASE b = 0
    BY <2>1, <2>4
  <2>5. CASE b # 0
    <3>1. \E G \in {{}} : /\ FreeBlocks(G \cup {b})
                          /\ disk' = Forgotten(G \cup {b})
                          /\ lost' = lost \cup (Inner(copy[t], e) \ G)
      BY <2>1, <2>2, <2>5
    <3>2. /\ FreeBlocks({} \cup {b})
          /\ disk' = Forgotten({} \cup {b})
          /\ lost' = lost \cup (Inner(copy[t], e) \ {})
      BY <3>1
    <3>3. FreeBlocks({b}) /\ disk' = Forgotten({b}) /\ lost' = lost \cup Inner(copy[t], e)
      BY <2>3, <3>2
    <3> QED BY <2>1, <2>5, <3>3
  <2> QED BY <2>1, <2>4, <2>5
<1>5. /\ i \in Inodes /\ to[t] \in Nat /\ to[t] <= MaxBlocks /\ pos[t] \in Nat
      /\ Moves(t, "unlink", "unlink", i, copy[t], pos[t] + 1, to[t], block[t], table[t], 0, FALSE)
  BY <1>1, <1>2, UnlinkTableIs
<1>6. /\ call[t] = "unlink" /\ Nodes[i] = copy[t]
      /\ \A p : Live(i, p) <=> Unfreed(t, p)
      /\ \A l : EndsBy(i, l) <=> to[t] <= l
  BY <1>2, <1>4, UnlinkingIs
<1>7. e \in 1..3 /\ Direct \in Nat /\ s \in Slots /\ s \in Nat /\ s = Direct + (pos[t] - to[t]) /\ Deep(s) = e /\ s >= Direct
  <2>1. Direct \in Nat /\ Slots = 0..(Direct + 2)
    BY FileIs
  <2>2. e \in 1..3
    BY <1>2, <1>4, <1>5
  <2>3. s \in Slots /\ s \in Nat /\ s = Direct + (pos[t] - to[t]) /\ ~(s < Direct) /\ s >= Direct /\ s - Direct + 1 = e
    <3>1. s = Direct + e - 1 /\ e = pos[t] - to[t] + 1 /\ pos[t] \in Nat /\ to[t] \in Nat
      BY <1>2, <1>5
    <3>2. s = Direct + (pos[t] - to[t])
      BY <2>1, <2>2, <3>1
    <3>3. s \in Nat /\ s >= Direct /\ s <= Direct + 2 /\ s - Direct + 1 = e
      <4>1. e \in Int /\ e >= 1 /\ e <= 3 /\ Direct \in Nat
        BY <2>1, <2>2
      <4>2. s = Direct + e - 1
        BY <1>2
      <4> QED BY ONLY <4>1, <4>2
    <3> QED BY <2>1, <3>2, <3>3
  <2> QED BY <2>1, <2>2, <2>3 DEF Deep
<1>8. b # 0 => \E z \in Owns : z[1] = i /\ z[2][1] = s /\ BlockAt(z) = b
  <2> SUFFICES ASSUME b # 0 PROVE \E z \in Owns : z[1] = i /\ z[2][1] = s /\ BlockAt(z) = b
    OBVIOUS
  <2>1. PICK l \in Logicals : Root(l) = s
    BY <1>3, <1>7 DEF RootsOnly, Bare
  <2>2. PICK z, p : z = <<i, p>> /\ p = Stem(l, 0)
    OBVIOUS
  <2>3. 0 \in 0..Level(l) /\ (Level(l) = 0 => s < Direct)
    BY <2>1, Paths
  <2>4. 0 < Level(l)
    <3>1. ~(s < Direct)
      BY <1>7
    <3>2. Level(l) \in 0..3
      BY Paths
    <3> QED BY <2>3, <3>1, <3>2
  <2>5. p \in Tree /\ p[1] = s /\ IsTable(p)
    BY <2>1, <2>2, <2>3, <2>4, StemIs
  <2>6. Unfreed(t, p)
    <3>1. pos[t] <= to[t] + (p[1] - Direct)
      BY <1>5, <1>7, <2>5
    <3>2. \A m \in Logicals : Place(m) # p
      BY <2>5, PlaceIs
    <3> QED BY <3>1, <3>2 DEF Unfreed
  <2>7. z \in Owns
    BY <1>5, <1>6, <2>2, <2>5, <2>6 DEF Owns
  <2>8. BlockAt(<<i, Stem(l, 0)>>) = Nodes[i].ptr[Root(l)]
    BY AtPlaces
  <2>9. BlockAt(z) = b
    BY <1>3, <1>6, <2>1, <2>2, <2>8
  <2>10. z[1] = i /\ z[2][1] = s
    BY <2>2, <2>5
  <2> QED BY <2>7, <2>9, <2>10
<1>9. b # 0 => b \in bmap \ TakenBlocks
  BY <1>1, <1>8
<1>10. Unlinks(t, i)
  <2>1. TakenBlocks \subseteq bmap'
    <3>1. CASE b = 0
      BY <1>1, <1>4, <3>1 DEF blockmap
    <3>2. CASE b # 0
      <4>1. bmap' = bmap \ {b}
        BY <1>4, <1>9, <3>2, FreesOne
      <4> QED BY <1>1, <1>9, <3>2, <4>1
    <3> QED BY <3>1, <3>2
  <2> QED BY <1>2, <1>4, <1>5, <1>6, <2>1 DEF Unlinks, Moves, Arrives, inodemap
<1>11. \A p : Live(i, p)' <=> /\ p[1] >= Direct => pos[t] + 1 <= to[t] + (p[1] - Direct)
                              /\ \A m \in Logicals : Place(m) = p => pos[t] + 1 <= m
  BY <1>10, UnlinksIs
<1>12. ASSUME NEW x \in Owns, x[1] = i, BlockAt(x) = b, b # 0 PROVE ~Live(i, x[2])'
  <2>1. PICK z \in Owns : z[2][1] = s /\ BlockAt(z) = b
    BY <1>8, <1>12
  <2>2. x = z
    BY <1>12, <2>1 DEF Ready, Tidy, Owned, Own, BlockAt
  <2>3. x[2][1] = s
    BY <2>1, <2>2
  <2>4. ~(pos[t] + 1 <= to[t] + (s - Direct))
    BY <1>5, <1>7
  <2> QED BY <1>7, <1>11, <2>3, <2>4
<1>13. ASSUME NEW x \in Owns, x[1] = i, BlockAt(x) # 0, BlockAt(x) # b, ~Live(i, x[2])'
       PROVE  BlockAt(x) \in lost'
  <2>1. PICK p : p = x[2]
    OBVIOUS
  <2>2. p \in Tree /\ Unfreed(t, p) /\ BlockAt(x) = Reach(disk, copy[t], p)
    BY <1>6, <1>13, <2>1 DEF Owns, BlockAt, Has
  <2>3. p[1] \in Slots /\ Len(p[2]) \in 0..3 /\ (~IsTable(p) => \E l \in Logicals : p = Place(l))
    BY <2>2, TreeIs
  <2>4. Slots \subseteq Nat /\ Logicals \subseteq Nat
    BY FileIs
  <2>5. lost \subseteq lost'
    BY <1>4
  <2>6. CASE ~IsTable(p)
    <3>1. PICK l \in Logicals : p = Place(l)
      BY <2>3, <2>6
    <3>2. pos[t] <= l
      BY <2>2, <3>1 DEF Unfreed
    <3>3. l \in Nat
      BY <2>4, <3>1
    <3>4. to[t] <= l
      BY <1>4, <1>5, <3>2, <3>3
    <3>5. EndsBy(x[1], l)
      BY <1>6, <1>13, <3>4
    <3> QED BY <1>13, <2>1, <2>5, <3>1, <3>5 DEF Ready, Tidy, Beyond
  <2>7. CASE IsTable(p)
    <3>1. \A l \in Logicals : Place(l) # p
      BY <2>7, PlaceIs
    <3>2. p[1] >= Direct /\ ~(pos[t] + 1 <= to[t] + (p[1] - Direct))
      BY <1>11, <1>13, <2>1, <3>1
    <3>3. pos[t] <= to[t] + (p[1] - Direct)
      BY <2>2, <3>2 DEF Unfreed
    <3>4. p[1] = s
      <4>1. p[1] \in Nat
        BY <2>3, <2>4
      <4> QED BY <1>5, <1>7, <3>2, <3>3, <4>1
    <3>5. b # 0
      <4>1. SUFFICES ASSUME copy[t].ptr[p[1]] = 0 PROVE FALSE
        BY <1>3, <3>4
      <4>2. Reach(disk, copy[t], p) = 0
        BY <2>2, <4>1, ReachFrom
      <4> QED BY <1>13, <2>2, <4>2
    <3>6. Len(p[2]) > 0
      <4>1. SUFFICES ASSUME Len(p[2]) = 0 PROVE FALSE
        BY <2>3
      <4>2. Reach(disk, copy[t], p) = copy[t].ptr[p[1]]
        BY <4>1 DEF Reach
      <4> QED BY <1>3, <1>13, <2>2, <3>4, <4>2
    <3>7. BlockAt(x) \in Inner(copy[t], e)
      BY <1>7, <1>13, <2>2, <2>7, <3>4, <3>6, BlocksAre
    <3> QED BY <1>4, <3>5, <3>7
  <2> QED BY <2>6, <2>7
<1>14. b # 0 => Gone(t, i, b)
  BY <1>8 DEF Gone
<1>15. \/ b = 0 /\ UNCHANGED <<bmap, disk>>
       \/ b # 0 /\ FreeBlocks({b}) /\ disk' = Forgotten({b}) /\ Gone(t, i, b)
  BY <1>4, <1>14 DEF blockmap
<1>16. lost \subseteq lost'
  BY <1>4
<1> QED BY <1>10, <1>12, <1>13, <1>15, <1>16, UnlinkStep

-----------------------------------------------------------------------------
(* The invariant of the files.                                             *)

\* The files are in order, for some blocks that hang on block 0.
Sound == InOrder /\ RootsOnly /\ Exact /\ \E W : Tidy(W)

\* Only the inodes a task has read with its own change.
Reads == UNCHANGED <<bitmaps, store, op, call, ino, calls, copy, pos, to, block, table, depth, dirty, lost>>

\* The files do not depend on them.
LEMMA TidyReads ==
  ASSUME NEW W, Tidy(W), Reads
  PROVE  Tidy(W)'
<1>1. /\ UNCHANGED <<bmap, bfree, sbfree, imap, ifree, sifree, inodes, disk, files>>
      /\ UNCHANGED <<op, call, ino, copy, pos, to, block, table, depth, dirty, calls, lost>>
  BY DEF Reads, bitmaps, store
<1>2. Nodes' = Nodes
  BY <1>1 DEF Nodes, Current, At
<1>3. Owns' = Owns
  <2>1. \A i, p : Live(i, p)' <=> Live(i, p)
    BY <1>1 DEF Live, Living, Unfreed, Parted
  <2> QED BY <2>1 DEF Owns
<1>4. \A x : BlockAt(x)' = BlockAt(x)
  BY <1>1, <1>2 DEF BlockAt
<1>5. Marked' /\ Apart' /\ Clean'
  BY <1>1 DEF Tidy, Marked, Apart, Clean
<1>6. Owned'
  BY <1>1, <1>2, <1>3 DEF Tidy, Owned
<1>7. Beyond'
  <2>1. \A i, l : EndsBy(i, l)' <=> EndsBy(i, l)
    BY <1>1 DEF EndsBy, Edge, Here
  <2> QED BY <1>1, <1>3, <1>4, <2>1 DEF Tidy, Beyond
<1>8. Covered'
  BY <1>1, <1>3, <1>4 DEF Tidy, Covered, Placing
<1>9. Astray(W)'
  BY <1>1, <1>3, <1>4 DEF Tidy, Astray
<1>10. ASSUME NEW t \in Tasks PROVE Behind(t)' /\ Stands(t, W)' /\ Writes(t, W)' /\ Spare(t, W)' /\ Lacks(t)'
  <2>1. Here(t)' = Here(t)
    BY <1>1 DEF Here
  <2>2. Behind(t)' /\ Stands(t, W)' /\ Writes(t, W)'
    BY <1>1, <1>4, <2>1 DEF Tidy, Behind, Stands, Writes
  <2>3. Spare(t, W)' /\ Lacks(t)'
    BY <1>1, <1>3, <1>4, <2>1 DEF Tidy, Spare, Lacks, Placing
  <2> QED BY <2>2, <2>3
<1> QED BY <1>5, <1>6, <1>7, <1>8, <1>9, <1>10 DEF Tidy

\* A step that changes nothing keeps the files sound.
LEMMA SoundStays ==
  ASSUME Sound, UNCHANGED vars
  PROVE  Sound'
<1>1. Reads /\ image' = image
  BY DEF Reads, vars, local, caller
<1>2. InOrder'
  BY <1>1 DEF Reads, bitmaps, store, Sound, InOrder, Typed, StoreTypes, LocalTypes, Marks, Going
<1>3. RootsOnly'
  BY <1>1 DEF Reads, store, Sound, RootsOnly, Bare
<1>4. Exact'
  BY <1>1 DEF Reads, store, Sound, Exact
<1>5. PICK W : Tidy(W)
  BY DEF Sound
<1>6. Tidy(W)'
  BY <1>1, <1>5, TidyReads
<1> QED BY <1>2, <1>3, <1>4, <1>6 DEF Sound

\* A step that saves an inode, or none, and drops what its task has read for it.
LEMMA ExactDrops ==
  ASSUME Typed, Exact, NEW t \in Tasks, image' = [image EXCEPT ![t] = <<>>], NEW n,
         inodes' = inodes \/ Save(t, n)
  PROVE  Exact'
<1>1. DOMAIN image = Tasks /\ DOMAIN <<>> = {}
  BY DEF Typed, StoreTypes, ImagesOf
<1>2. image'[t] = <<>> /\ \A u \in Tasks \ {t} : image'[u] = image[u]
  BY <1>1
<1>3. DOMAIN image'[t] = {}
  BY <1>1, <1>2
<1>4. ASSUME NEW u \in Tasks \ {t}, NEW i \in DOMAIN image[u] PROVE inodes'[i] = inodes[i]
  <2>1. CASE inodes' = inodes
    BY <2>1
  <2>2. CASE Save(t, n)
    <3>1. inodes' = [inodes EXCEPT ![ino[t]] = n] /\ ino[t] \in DOMAIN image[t]
      BY <2>2, ExactSave DEF Save
    <3>2. i # ino[t]
      BY <3>1, <1>4 DEF Exact
    <3> QED BY <3>1, <3>2
  <2> QED BY <2>1, <2>2
<1>5. ASSUME NEW u \in Tasks, NEW i \in DOMAIN image'[u]
      PROVE  image'[u][i] = inodes'[i] /\ \A v \in Tasks \ {u} : i \notin DOMAIN image'[v]
  <2>1. u # t /\ i \in DOMAIN image[u]
    BY <1>2, <1>3, <1>5
  <2>2. image'[u][i] = inodes'[i]
    BY <1>2, <1>4, <2>1 DEF Exact
  <2>3. \A v \in Tasks \ {u} : i \notin DOMAIN image'[v]
    BY <1>2, <1>3, <2>1 DEF Exact
  <2> QED BY <2>2, <2>3
<1> QED BY <1>5 DEF Exact

\* A task reads a logical block that no other task has read.
LEMMA ExactReads ==
  ASSUME Faults = {}, Typed, Exact, NEW t \in Tasks, SaveRead(t)
  PROVE  Exact'
<1>1. DOMAIN image = Tasks /\ inodes' = inodes
  BY DEF SaveRead, store, Typed, StoreTypes, ImagesOf
<1>2. PICK m : m = [i \in Neighbours(ino[t]) |-> inodes[i]]
  OBVIOUS
<1>3. image'[t] = m /\ \A u \in Tasks \ {t} : image'[u] = image[u]
  BY <1>1, <1>2 DEF SaveRead
<1>4. DOMAIN m = Neighbours(ino[t]) /\ \A i \in DOMAIN m : m[i] = inodes[i]
  BY <1>2
<1>5. \A u \in Tasks : \A i \in DOMAIN m : i \notin DOMAIN image[u]
  <2>1. \A u \in Tasks : Neighbours(ino[t]) \cap DOMAIN image[u] = {}
    BY DEF SaveRead, Alone
  <2> QED BY <1>4, <2>1
<1>6. ASSUME NEW u \in Tasks, NEW i \in DOMAIN image'[u]
      PROVE  image'[u][i] = inodes[i] /\ \A v \in Tasks \ {u} : i \notin DOMAIN image'[v]
  <2>1. CASE u = t
    BY <1>3, <1>4, <1>5, <1>6, <2>1
  <2>2. CASE u # t
    BY <1>3, <1>5, <1>6, <2>2 DEF Exact
  <2> QED BY <2>1, <2>2
<1> QED BY <1>1, <1>6 DEF Exact

\* No step makes what a task has read with its inode stale.
LEMMA ExactNext ==
  ASSUME Faults = {}, Typed, Exact, NEW t \in Tasks, Step(t)
  PROVE  Exact'
<1>1. image' = image /\ inodes' = inodes => Exact'
  BY DEF Exact
<1>2. ASSUME image' = [image EXCEPT ![t] = <<>>], inodes' = inodes PROVE Exact'
  BY <1>2, ExactDrops
<1>3. ASSUME image' = [image EXCEPT ![t] = <<>>], NEW n, Save(t, n) PROVE Exact'
  BY <1>3, ExactDrops
<1>4. Ends(t) => image' = [image EXCEPT ![t] = <<>>]
  BY DEF Ends
<1>5. \A o, c, i, n, p, e : Starts(t, o, c, i, n, p, e) => image' = [image EXCEPT ![t] = <<>>]
  BY DEF Starts
<1>6. \A b : Placed(t, b) => image' = image
  BY DEF Placed, caller
<1>7. ASSUME NEW g \in GroupIds, Create(t, g) PROVE Exact'
  BY <1>2, <1>5, <1>7 DEF Create, store
<1>8. CASE CreateInit(t)
  <2>1. image' = [image EXCEPT ![t] = <<>>] /\ Save(t, NoInode)
    BY <1>4, <1>5, <1>8 DEF CreateInit
  <2> QED BY <1>3, <2>1
<1>9. ASSUME NEW i \in Inodes, NEW r \in Ranges, Write(t, i, r) PROVE Exact'
  BY <1>2, <1>5, <1>9 DEF Write, store
<1>10. CASE WriteAllocate(t) \/ Grow(t)
  BY <1>1, <1>6, <1>10 DEF WriteAllocate, Grow, store, caller
<1>11. CASE WriteFound(t) \/ WriteData(t) \/ SetRoot(t) \/ SetTable(t) \/ SetEntry(t)
  BY <1>1, <1>11 DEF WriteFound, WriteData, SetRoot, SetTable, SetEntry, store, caller
<1>12. CASE Shrink(t) \/ Clear(t) \/ UnlinkBlock(t) \/ UnlinkTable(t)
  BY <1>1, <1>12 DEF Shrink, Clear, UnlinkBlock, UnlinkTable, caller
<1>13. CASE WriteEnd(t)
  <2>1. PICK n : n = Written(copy[t], pos[t])
    OBVIOUS
  <2>2. inodes' = inodes \/ Save(t, n)
    BY <1>13, <2>1 DEF WriteEnd
  <2>3. image' = [image EXCEPT ![t] = <<>>]
    BY <1>4, <1>13 DEF WriteEnd
  <2> QED BY <1>2, <1>3, <2>2, <2>3
<1>14. CASE NoTable(t)
  BY <1>1, <1>2, <1>4, <1>14 DEF NoTable, caller
<1>15. ASSUME NEW i \in Inodes, NEW s \in Sizes, Truncate(t, i, s) PROVE Exact'
  BY <1>2, <1>5, <1>15 DEF Truncate
<1>16. CASE TruncateEnd(t)
  BY <1>3, <1>4, <1>16 DEF TruncateEnd
<1>17. ASSUME NEW i \in Inodes, Unlink(t, i) PROVE Exact'
  BY <1>2, <1>5, <1>17 DEF Unlink
<1>18. CASE UnlinkEnd(t)
  BY <1>3, <1>4, <1>18 DEF UnlinkEnd
<1>19. CASE SaveRead(t)
  BY <1>19, ExactReads
<1> QED
  BY <1>7, <1>8, <1>9, <1>10, <1>11, <1>12, <1>13, <1>14, <1>15, <1>16, <1>17, <1>18, <1>19 DEF Step

\* At first no file has anything, and nothing hangs on block 0.
LEMMA SoundInit == Init => Sound
<1> SUFFICES ASSUME Init PROVE Sound
  OBVIOUS
<1>1. InOrder /\ 0 \in TakenBlocks /\ TakenBlocks \subseteq Blocks /\ Blocks \subseteq Nat /\ Inodes \subseteq Nat \ {0}
  BY InOrderInit, Volume
<1>2. RootsOnly
  <2>1. \A s \in Slots : NoInode.ptr[s] = 0
    BY NoInodeIs
  <2> QED BY <2>1 DEF Init, RootsOnly, Bare
<1>3. \A t \in Tasks : op[t] = "user" /\ call[t] = "none" /\ ino[t] = 0
  BY DEF Init
<1>4. Owns = {}
  BY <1>3 DEF Init, Owns, Live, Living
<1>5. Marked
  BY <1>3 DEF Init, Marked
<1>6. Apart
  BY <1>3 DEF Apart
<1>7. Clean
  BY <1>1, BootAssumption DEF Init, Clean, Blank, Junk
<1>8. Owned
  BY <1>4 DEF Owned, Own, Rooted
<1>9. Beyond
  BY <1>4 DEF Beyond
<1>10. Covered
  BY DEF Init, Covered
<1>11. Astray({})
  BY <1>1, <1>4, BootAssumption DEF Init, Astray, Junk
<1>12. \A t \in Tasks : Behind(t) /\ Stands(t, {}) /\ Writes(t, {}) /\ Spare(t, {}) /\ Lacks(t)
  BY <1>3 DEF Behind, Stands, Writes, Spare, Lacks, Placing
<1>13. Tidy({})
  BY <1>5, <1>6, <1>7, <1>8, <1>9, <1>10, <1>11, <1>12 DEF Tidy
<1>14. Exact
  <2>1. DOMAIN <<>> = {}
    OBVIOUS
  <2> QED BY <2>1 DEF Init, Exact
<1> QED BY <1>1, <1>2, <1>13, <1>14 DEF Sound

\* A search for a block finds one, or none.
LEMMA FoundBlock ==
  ASSUME InOrder, 0 \in bmap, NEW t \in Tasks, op[t] # "user", NEW b, b = FreeBlock(InodeGroup[ino[t]])
  PROVE  b \in Int /\ (b = -1 \/ b > 0)
<1>1. Typed /\ Going(t)
  BY DEF InOrder
<1>2. ino[t] \in Inodes
  BY <1>1, CallIs
<1>3. InodeGroup[ino[t]] \in GroupIds
  BY <1>2, InGroups
<1>4. Blocks \ bmap \in SUBSET Nat /\ \A x \in Blocks \ bmap : BlockGroup[x] \in GroupIds
  BY Volume, InGroups
<1>5. b = -1 \/ b \in Blocks \ bmap
  BY <1>3, <1>4, Found DEF FreeBlock
<1>6. b = -1 \/ (b \in Nat /\ b # 0)
  BY <1>4, <1>5
<1> QED BY <1>6

\* No step of a task that has its file for itself makes a file unsound.
LEMMA SoundStep ==
  ASSUME Faults = {}, SizesFit, NEW W, Ready(W), RootsOnly, FollowsBlocks', NEW t \in Tasks, Step(t)
  PROVE  \E V : Tidy(V)'
<1>1. Typed /\ Going(t) /\ InOrder /\ 0 \in bmap
  BY ReadyIs DEF Ready
<1>2. Tidy(W)' => \E V : Tidy(V)'
  OBVIOUS
<1>3. ASSUME NEW g \in GroupIds, Create(t, g) PROVE Tidy(W)'
  BY <1>3, TidyCreate
<1>4. CASE CreateInit(t)
  BY <1>2, <1>4, TidyCreateInit
<1>5. ASSUME NEW i \in Inodes, NEW r \in Ranges, Write(t, i, r) PROVE Tidy(W)'
  BY <1>5, TidyWrite
<1>6. CASE WriteFound(t)
  BY <1>2, <1>6, TidyWriteFound
<1>7. CASE WriteAllocate(t) \/ Grow(t)
  <2>1. PICK b : b = FreeBlock(InodeGroup[ino[t]])
    OBVIOUS
  <2>2. op[t] # "user"
    BY <1>7 DEF WriteAllocate, Grow
  <2>3. b < 0 \/ b > 0
    <3>1. b = -1 \/ b > 0
      BY <1>1, <2>1, <2>2, FoundBlock
    <3>2. -1 < 0
      OBVIOUS
    <3> QED BY <3>1, <3>2
  <2>4. CASE b < 0
    <3>1. FreeBlock(InodeGroup[ino[t]]) < 0 /\ FreeBlock(InodeGroup[ino[t]]) <= 0
      <4>1. b = -1
        <5>1. b = -1 \/ b > 0
          BY <1>1, <2>1, <2>2, FoundBlock
        <5>2. CASE b > 0
          <6>1. b \in Int
            BY <1>1, <2>1, <2>2, FoundBlock
          <6> QED BY <2>4, <5>2, <6>1
        <5> QED BY <5>1, <5>2
      <4> QED BY <2>1, <4>1
    <3>2. \/ WriteAllocate(t) /\ FreeBlock(InodeGroup[ino[t]]) < 0
          \/ Grow(t) /\ FreeBlock(InodeGroup[ino[t]]) <= 0
      BY <1>7, <3>1
    <3>3. Tidy(W)'
      BY <3>2, TidyNoBlock
    <3> QED BY <1>2, <3>3
  <2>5. CASE b > 0 /\ Level(Here(t)) > 0
    BY <1>2, <1>7, <2>1, <2>5, TidyTakes
  <2>6. CASE b > 0 /\ Level(Here(t)) = 0
    BY <1>2, <1>7, <2>1, <2>6, TidyTakesDirect
  <2>7. Level(Here(t)) = 0 \/ Level(Here(t)) > 0
    BY DEF Level
  <2> QED BY <2>3, <2>4, <2>5, <2>6, <2>7
<1>8. CASE WriteData(t)
  BY <1>2, <1>8, TidyWriteData
<1>9. CASE WriteEnd(t)
  BY <1>2, <1>9, TidyWriteSaved, TidyWriteDropped
<1>10. CASE SetRoot(t)
  BY <1>2, <1>10, TidyRootThere, TidyRootNew
<1>11. CASE SetTable(t)
  BY <1>2, <1>11, TidyTableThere, TidyTableLost, TidyTableNew
<1>12. CASE NoTable(t)
  BY <1>2, <1>12, TidyNoTableWrite, TidyNoTableEnd
<1>13. CASE SetEntry(t)
  BY <1>2, <1>13, TidyEntryLost, TidyEntry
<1>14. ASSUME NEW i \in Inodes, NEW s \in Sizes, Truncate(t, i, s) PROVE Tidy(W)'
  BY <1>14, TidyTruncate
<1>15. CASE Shrink(t)
  BY <1>2, <1>15, TidyShrinkNone, TidyShrinkFree
<1>16. CASE TruncateEnd(t)
  BY <1>2, <1>16, TidyTruncateEnd
<1>17. ASSUME NEW i \in Inodes, Unlink(t, i) PROVE Tidy(W)'
  BY <1>17, TidyUnlink
<1>18. CASE UnlinkBlock(t)
  BY <1>2, <1>18, TidyUnlinkBlock
<1>19. CASE UnlinkTable(t)
  BY <1>2, <1>19, TidyUnlinkTable
<1>20. CASE UnlinkEnd(t)
  BY <1>2, <1>20, TidyUnlinkEnd
<1>21. CASE Clear(t)
  BY <1>2, <1>21, TidyClear
<1>22. CASE SaveRead(t)
  BY <1>2, <1>22, TidyReads DEF SaveRead, Reads, Ready
<1> QED
  BY <1>2, <1>3, <1>4, <1>5, <1>6, <1>7, <1>8, <1>9, <1>10, <1>11, <1>12, <1>13, <1>14, <1>15, <1>16, <1>17,
     <1>18, <1>19, <1>20, <1>21, <1>22 DEF Step

\* Every step keeps the files sound.
LEMMA SoundNext ==
  ASSUME Faults = {}, SizesFit, Sound, [Next]_vars, FollowsBlocks'
  PROVE  Sound'
<1>1. CASE Next
  <2>1. PICK t \in Tasks : Step(t)
    BY <1>1 DEF Next
  <2>2. InOrder /\ RootsOnly /\ Exact /\ Typed /\ Going(t)
    BY DEF Sound, InOrder
  <2>3. InOrder'
    BY <2>2, InOrderNext
  <2>4. RootsOnly'
    BY <2>1, <2>2, RootsNext
  <2>5. PICK W : Tidy(W)
    BY DEF Sound
  <2>6. Ready(W)
    BY <2>2, <2>3, <2>5 DEF Ready
  <2>7. \E V : Tidy(V)'
    BY <2>1, <2>2, <2>6, SoundStep
  <2>8. Exact'
    BY <2>1, <2>2, ExactNext
  <2> QED BY <2>3, <2>4, <2>7, <2>8 DEF Sound
<1>2. CASE UNCHANGED vars
  BY <1>2, SoundStays
<1> QED BY <1>1, <1>2

\* As long as no two tasks work on one file, or save inodes of one logical block, and no
\* word of data is taken for the number of an indirect block, the files are sound.
LEMMA SoundAlways == ASSUME Faults = {}, SizesFit PROVE Spec /\ []FollowsBlocks => []Sound
<1>1. Sound /\ [Next]_vars /\ FollowsBlocks' => Sound'
  BY SoundNext
<1> QED BY <1>1, SoundInit, PTL DEF Spec

-----------------------------------------------------------------------------
(* What the invariant says of the blocks that inodes name.                 *)

\* As many members as third components, if these tell the members apart.
LEMMA OneEach ==
  ASSUME NEW S, IsFiniteSet({o[3] : o \in S}), \A o, q \in S : o[3] = q[3] => o = q
  PROVE  Cardinality(S) = Cardinality({o[3] : o \in S})
<1>1. PICK T, f : T = {o[3] : o \in S} /\ f = [b \in T |-> CHOOSE o \in S : o[3] = b]
  OBVIOUS
<1>2. \A b \in T : f[b] \in S /\ f[b][3] = b
  BY <1>1
<1>3. \A o \in S : o[3] \in T /\ f[o[3]] = o
  <2> SUFFICES ASSUME NEW o \in S PROVE o[3] \in T /\ f[o[3]] = o
    OBVIOUS
  <2>1. o[3] \in T
    BY <1>1
  <2>2. f[o[3]] \in S /\ f[o[3]][3] = o[3]
    BY <1>2, <2>1
  <2> QED BY <2>1, <2>2
<1>4. f \in Bijection(T, S)
  <2>1. f \in [T -> S]
    BY <1>1, <1>2
  <2>2. \A a, b \in T : f[a] = f[b] => a = b
    <3> SUFFICES ASSUME NEW a \in T, NEW b \in T, f[a] = f[b] PROVE a = b
      OBVIOUS
    <3>1. f[a][3] = a /\ f[b][3] = b
      BY <1>2
    <3> QED BY <3>1
  <2>3. \A o \in S : \E b \in T : f[b] = o
    BY <1>3
  <2> QED BY <2>1, <2>2, <2>3 DEF Bijection, Injection, Surjection, IsInjective
<1>5. ExistsBijection(T, S)
  BY <1>4 DEF ExistsBijection
<1>6. IsFiniteSet(T)
  BY <1>1
<1>7. Cardinality(S) = Cardinality(T)
  BY <1>5, <1>6, FS_Bijection
<1> QED BY <1>1, <1>7

\* The uses U that the inodes N of files F make of blocks, if these are blocks that the
\* files have.
Have(U, N, F) ==
  /\ F \subseteq Inodes
  /\ \A i \in F : \A u \in U[i] :
       /\ u \in Uses(N[i])
       /\ \A p \in Tree : Reach(disk, N[i], p) # 0 /\ Named(u[1], p) =>
            <<i, p>> \in Owns /\ BlockAt(<<i, p>>) = Reach(disk, N[i], p)
RolesOf(U, F) == UNION {{<<i>> \o u : u \in U[i]} : i \in F}

\* Such a block is at one position of one file, and its role is the name of the position.
AtPosition(o) ==
  \E i, m, p : /\ p \in Tree /\ o = <<i, m, o[3]>> /\ Named(m, p) /\ <<i, p>> \in Owns
               /\ o[3] # 0 /\ o[3] = BlockAt(<<i, p>>)

LEMMA HaveIs ==
  ASSUME NEW U, NEW N, NEW F, Have(U, N, F), NEW o \in RolesOf(U, F)
  PROVE  AtPosition(o)
<1>1. PICK i \in F : o \in {<<i>> \o u : u \in U[i]}
  BY DEF RolesOf
<1>2. PICK u \in U[i] : o = <<i>> \o u
  BY <1>1
<1>10. u \in Uses(N[i])
  BY DEF Have
<1>3. u = <<u[1], u[2]>> /\ u[2] # 0 /\ \E p \in Tree : u[2] = Reach(disk, N[i], p) /\ Named(u[1], p)
  BY <1>10, UsesAre
<1>4. PICK m, b : m = u[1] /\ b = u[2]
  OBVIOUS
<1>5. PICK p \in Tree : b = Reach(disk, N[i], p) /\ Named(m, p)
  BY <1>3, <1>4
<1>6. o = <<i, m, b>>
  <2>1. o = <<i>> \o <<m, b>>
    BY <1>2, <1>3, <1>4
  <2>2. PICK S : S = {i, m, b}
    OBVIOUS
  <2>3. <<i>> \in Seq(S) /\ <<m, b>> \in Seq(S) /\ Len(<<i>>) = 1 /\ Len(<<m, b>>) = 2
    BY <2>2
  <2>4. /\ o \in Seq(S) /\ Len(o) = Len(<<i>>) + Len(<<m, b>>)
        /\ \A k \in 1..(Len(<<i>>) + Len(<<m, b>>)) :
             o[k] = IF k <= Len(<<i>>) THEN <<i>>[k] ELSE <<m, b>>[k - Len(<<i>>)]
    BY <2>1, <2>3, ConcatProperties
  <2>5. Len(o) = 3 /\ o[1] = i /\ o[2] = m /\ o[3] = b
    BY <2>3, <2>4
  <2>6. <<i, m, b>> \in Seq(S) /\ Len(<<i, m, b>>) = 3
    BY <2>2
  <2>7. \A k \in 1..3 : o[k] = <<i, m, b>>[k]
    BY <2>5
  <2> QED BY <2>4, <2>5, <2>6, <2>7, SeqEqual
<1>7. <<i, p>> \in Owns /\ BlockAt(<<i, p>>) = b
  BY <1>3, <1>4, <1>5 DEF Have
<1>8. o[3] = b
  BY <1>6
<1>9. o = <<i, m, o[3]>> /\ o[3] # 0 /\ o[3] = BlockAt(<<i, p>>)
  BY <1>3, <1>4, <1>6, <1>7, <1>8
<1> QED BY <1>5, <1>7, <1>9 DEF AtPosition

\* The members of a set of roles.
IsRole(U, F, o) == \E i \in F : \E u \in U[i] : o = <<i>> \o u

LEMMA RolesIs ==
  ASSUME NEW U, NEW F, NEW o
  PROVE  o \in RolesOf(U, F) <=> IsRole(U, F, o)
<1>3. PICK R : R = RolesOf(U, F)
  OBVIOUS
<1>1. ASSUME o \in R PROVE \E i \in F : \E u \in U[i] : o = <<i>> \o u
  <2>1. PICK i \in F : o \in {<<i>> \o u : u \in U[i]}
    BY <1>1, <1>3 DEF RolesOf
  <2> QED BY <2>1
<1>2. ASSUME NEW i \in F, NEW u \in U[i] PROVE <<i>> \o u \in R
  <2>1. PICK S : S = {<<i>> \o v : v \in U[i]}
    OBVIOUS
  <2>2. <<i>> \o u \in S
    BY <2>1
  <2>3. PICK T : T = {{<<j>> \o v : v \in U[j]} : j \in F}
    OBVIOUS
  <2>4. R = UNION T
    BY <1>3, <2>3 DEF RolesOf
  <2>5. S \in T
    BY <2>1, <2>3
  <2> QED BY <2>2, <2>4, <2>5
<1> QED BY <1>1, <1>2, <1>3 DEF IsRole

\* No block has two roles, and all are marked in use and are not the rest of the volume's.
LEMMA OneRole ==
  ASSUME InOrder, NEW W, Tidy(W), NEW U, NEW N, NEW F, Have(U, N, F), NEW R, R = RolesOf(U, F)
  PROVE  /\ Cardinality(R) = Cardinality({o[3] : o \in R})
         /\ \A o \in R : o[3] \in bmap \ TakenBlocks
<1>1. /\ \A x, y \in Owns : BlockAt(x) = BlockAt(y) /\ BlockAt(x) # 0 => x = y
      /\ \A x \in Owns : BlockAt(x) # 0 => BlockAt(x) \in bmap \ TakenBlocks
  BY DEF Tidy, Owned, Own, BlockAt
<1>2. ASSUME NEW o \in R PROVE AtPosition(o)
  BY HaveIs
<1>3. \A o \in R : o[3] \in bmap \ TakenBlocks
  BY <1>1, <1>2 DEF AtPosition
<1>4. \A o, q \in R : o[3] = q[3] => o = q
  <2> SUFFICES ASSUME NEW o \in R, NEW q \in R, o[3] = q[3] PROVE o = q
    OBVIOUS
  <2>1. PICK i, m, p : /\ p \in Tree /\ o = <<i, m, o[3]>> /\ Named(m, p) /\ <<i, p>> \in Owns
                       /\ o[3] # 0 /\ o[3] = BlockAt(<<i, p>>)
    BY <1>2 DEF AtPosition
  <2>2. PICK j, n, r : /\ r \in Tree /\ q = <<j, n, q[3]>> /\ Named(n, r) /\ <<j, r>> \in Owns
                       /\ q[3] # 0 /\ q[3] = BlockAt(<<j, r>>)
    BY <1>2 DEF AtPosition
  <2>3. <<i, p>> = <<j, r>>
    BY <1>1, <2>1, <2>2
  <2>4. i = j /\ p = r
    BY <2>3
  <2>5. m = n
    BY <2>1, <2>2, <2>4, NamesAre
  <2>6. o = <<i, m, o[3]>> /\ q = <<i, m, o[3]>>
    BY <2>1, <2>2, <2>4, <2>5
  <2> QED BY <2>6
<1>5. IsFiniteSet({o[3] : o \in R})
  <2>1. {o[3] : o \in R} \subseteq Blocks
    BY <1>3 DEF InOrder, Marks
  <2> QED BY <2>1, VolumeFinite, FS_Subset
<1> QED BY <1>3, <1>4, <1>5, OneEach

\* Every living file has an inode.
LEMMA LivingInodes ==
  ASSUME InOrder
  PROVE  Living \subseteq Inodes
<1>1. ASSUME NEW i \in Living PROVE i \in Inodes
  <2>1. i \in files \/ \E t \in Tasks : call[t] = "create" /\ op[t] # "create" /\ ino[t] = i
    BY <1>1, LivingIs
  <2>2. CASE i \in files
    BY <2>2 DEF InOrder, Typed, StoreTypes
  <2>3. ASSUME NEW t \in Tasks, call[t] = "create", ino[t] = i PROVE i \in Inodes
    <3>1. Typed /\ Going(t)
      BY DEF InOrder
    <3>2. op[t] # "user" /\ ino[t] \in Inodes
      BY <2>3, <3>1, CallIs
    <3> QED BY <2>3, <3>2
  <2> QED BY <2>1, <2>2, <2>3
<1> QED BY <1>1

\* The role of a block that is freed is the name of the position its file is parted from.
LEMMA PartedNames ==
  ASSUME Typed, NEW i \in Inodes, NEW p \in Tree, NEW m, Named(m, p)
  PROVE  m \in Freed(i) <=> Parted(i, p)
<1>1. m \in Freed(i) <=> \E t \in Tasks : ino[t] = i /\ op[t] = "clear" /\ m = <<0, pos[t] - 1>>
  BY DEF Freed, At
<1>2. ASSUME NEW t \in Tasks, ino[t] = i, op[t] = "clear", m = <<0, pos[t] - 1>> PROVE Parted(i, p)
  <2>1. m[1] = 0 /\ m[2] = pos[t] - 1
    BY <1>2
  <2>2. m[2] \in Logicals /\ p = Place(m[2])
    BY <2>1, NamesAre
  <2>3. pos[t] = m[2] + 1
    BY <2>1, LocalIs
  <2> QED BY <1>2, <2>2, <2>3 DEF Parted
<1>3. ASSUME NEW t \in Tasks, ino[t] = i, op[t] = "clear", NEW l \in Logicals, pos[t] = l + 1, p = Place(l)
      PROVE  m = <<0, pos[t] - 1>>
  <2>1. ~IsTable(p)
    BY <1>3, PlaceIs
  <2>2. PICK k \in Logicals : m = <<0, k>> /\ p = Place(k)
    BY <2>1 DEF Named
  <2>3. k = l
    BY <1>3, <2>2, PlaceIs
  <2>4. l = pos[t] - 1
    BY <1>3, FileIs
  <2> QED BY <2>2, <2>3, <2>4
<1> QED BY <1>1, <1>2, <1>3 DEF Parted

\* No two positions of living files have one block.
LEMMA NotSharedSound == Sound => NotShared
<1> SUFFICES ASSUME Sound PROVE NotShared
  OBVIOUS
<1>1. PICK W : InOrder /\ Tidy(W)
  BY DEF Sound
<1>2. Living \subseteq Inodes
  BY <1>1, LivingInodes
<1>3. PICK U : U = [i \in Living |-> Held(i)]
  OBVIOUS
<1>4. Have(U, Nodes, Living)
  <2>4. SUFFICES ASSUME NEW i \in Living, NEW u \in Held(i)
                 PROVE  /\ u \in Uses(Nodes[i])
                        /\ \A p \in Tree : Named(u[1], p) =>
                             <<i, p>> \in Owns /\ BlockAt(<<i, p>>) = Reach(disk, Nodes[i], p)
    <3>1. \A i \in Living : U[i] = Held(i)
      BY <1>3
    <3> QED BY <1>2, <3>1, Zenon DEF Have
  <2>1. i \in Inodes /\ u \in Uses(Nodes[i]) /\ u[1] \notin Freed(i)
    BY <1>2 DEF Held, Nodes
  <2>2. ASSUME NEW p \in Tree, Named(u[1], p) PROVE ~Parted(i, p)
    BY <1>1, <2>1, <2>2, PartedNames DEF InOrder
  <2>3. ASSUME NEW p \in Tree, Named(u[1], p)
        PROVE  <<i, p>> \in Owns /\ BlockAt(<<i, p>>) = Reach(disk, Nodes[i], p)
    <3>1. <<i, p>> \in Owns
      BY <2>1, <2>2, <2>3 DEF Owns, Live
    <3> QED BY <3>1 DEF BlockAt, Has
  <2> QED BY <2>1, <2>3
<1>6. PICK R : R = UNION {{<<i>> \o u : u \in Held(i)} : i \in Living}
  OBVIOUS
<1>7. R = RolesOf(U, Living)
  <2>1. \A i \in Living : U[i] = Held(i)
    BY <1>3
  <2>5. ASSUME NEW o \in R PROVE \E i \in Living : \E u \in Held(i) : o = <<i>> \o u
    <3>1. PICK i \in Living : o \in {<<i>> \o u : u \in Held(i)}
      BY <1>6
    <3> QED BY <3>1
  <2>6. ASSUME NEW i \in Living, NEW u \in Held(i) PROVE <<i>> \o u \in R
    <3>1. PICK S : S = {<<i>> \o v : v \in Held(i)}
      OBVIOUS
    <3>2. <<i>> \o u \in S
      BY <3>1
    <3>3. PICK T : T = {{<<j>> \o v : v \in Held(j)} : j \in Living}
      OBVIOUS
    <3>4. R = UNION T
      BY <1>6, <3>3
    <3>5. S \in T
      BY <3>1, <3>3
    <3> QED BY <3>2, <3>4, <3>5
  <2>2. \A o : o \in R <=> IsRole(U, Living, o)
    BY <2>1, <2>5, <2>6 DEF IsRole
  <2>4. \A o : o \in R <=> o \in RolesOf(U, Living)
    BY <2>2, RolesIs
  <2> QED BY <2>4
<1>8. Cardinality(R) = Cardinality({o[3] : o \in R}) /\ \A o \in R : o[3] \in bmap \ TakenBlocks
  BY <1>1, <1>4, <1>7, OneRole
<1>9. \A o \in R : o[3] \notin TakenBlocks
  BY <1>8
<1> QED BY <1>6, <1>8, <1>9 DEF NotShared

\* An inode on the disk names blocks of its file: it lacks some of the copy's pointers,
\* and has no others.
LEMMA CrashSafeSound == Sound => CrashSafe
<1> SUFFICES ASSUME Sound PROVE CrashSafe
  OBVIOUS
<1>1. PICK W : InOrder /\ Tidy(W)
  BY DEF Sound
<1>2. PICK F : F = files \ Shrinking
  OBVIOUS
<1>3. F \subseteq Inodes /\ F \subseteq files /\ Apart
  BY <1>1, <1>2 DEF InOrder, Typed, StoreTypes, Tidy
<1>4. ASSUME NEW i \in F, NEW p \in Tree, Reach(disk, inodes[i], p) # 0
      PROVE  <<i, p>> \in Owns /\ BlockAt(<<i, p>>) = Reach(disk, inodes[i], p)
  <2>1. i \in Inodes /\ i \in files
    BY <1>3
  <2>6. ~Parted(i, p)
    BY <1>2 DEF Parted, Shrinking
  <2>2. <<i, p>> \in Owns
    BY <2>1, <2>6 DEF Owns, Live, Living
  <2>3. BlockAt(<<i, p>>) = Reach(disk, Nodes[i], p)
    BY DEF BlockAt, Has
  <2>4. CASE \A t \in Tasks : ino[t] # i
    <3>1. Nodes[i] = inodes[i]
      BY <1>3, <2>1, <2>4, CurrentIs
    <3> QED BY <2>2, <2>3, <3>1
  <2>5. ASSUME NEW t \in Tasks, ino[t] = i PROVE BlockAt(<<i, p>>) = Reach(disk, inodes[i], p)
    <3>1. Nodes[i] = copy[t]
      BY <1>3, <2>1, <2>5, CurrentIs
    <3>2. Typed /\ Going(t) /\ op[t] \in Ops
      BY <1>1 DEF InOrder, Typed, LocalTypes
    <3>3. op[t] # "user"
      <4>1. i # 0
        BY <2>1, Volume
      <4> QED BY <2>5, <3>2, <4>1, CallIs
    <3>4. call[t] \notin {"create", "unlink"}
      BY <1>1, <2>1, <2>5 DEF Tidy, Marked
    <3>5. op[t] # "create" /\ op[t] # "unlink"
      BY <3>2, <3>4, CallIs
    <3>6. op[t] # "shrink" /\ op[t] # "clear"
      BY <1>2, <2>5 DEF Shrinking
    <3>7. op[t] \in {"write", "data", "root", "table", "grow"}
      BY <3>2, <3>3, <3>5, <3>6 DEF Ops
    <3>8. \A s \in Slots : inodes[i].ptr[s] \in {0, copy[t].ptr[s]}
      BY <1>1, <2>5, <3>7 DEF Tidy, Behind
    <3>9. p[1] \in Slots
      BY TreeIs
    <3>10. inodes[i].ptr[p[1]] # 0
      BY <1>4, ReachFrom
    <3>11. inodes[i].ptr[p[1]] = copy[t].ptr[p[1]]
      BY <3>8, <3>9, <3>10
    <3>12. Reach(disk, inodes[i], p) = Reach(disk, copy[t], p)
      BY <3>11, ReachFrom
    <3> QED BY <2>3, <3>1, <3>12
  <2> QED BY <2>2, <2>4, <2>5
<1>10. PICK U : U = [i \in F |-> Uses(inodes[i])]
  OBVIOUS
<1>5. Have(U, inodes, F)
  <2>1. \A i \in F : U[i] = Uses(inodes[i])
    BY <1>10
  <2> QED BY <1>3, <1>4, <2>1, Zenon DEF Have
<1>6. PICK R : R = UNION {{<<i>> \o u : u \in Uses(inodes[i])} : i \in F}
  OBVIOUS
<1>7. R = RolesOf(U, F)
  <2>1. \A i \in F : U[i] = Uses(inodes[i])
    BY <1>10
  <2>5. ASSUME NEW o \in R PROVE \E i \in F : \E u \in Uses(inodes[i]) : o = <<i>> \o u
    <3>1. PICK i \in F : o \in {<<i>> \o u : u \in Uses(inodes[i])}
      BY <1>6
    <3> QED BY <3>1
  <2>6. ASSUME NEW i \in F, NEW u \in Uses(inodes[i]) PROVE <<i>> \o u \in R
    <3>1. PICK S : S = {<<i>> \o v : v \in Uses(inodes[i])}
      OBVIOUS
    <3>2. <<i>> \o u \in S
      BY <3>1
    <3>3. PICK T : T = {{<<j>> \o v : v \in Uses(inodes[j])} : j \in F}
      OBVIOUS
    <3>4. R = UNION T
      BY <1>6, <3>3
    <3>5. S \in T
      BY <3>1, <3>3
    <3> QED BY <3>2, <3>4, <3>5
  <2>2. \A o : o \in R <=> IsRole(U, F, o)
    BY <2>1, <2>5, <2>6 DEF IsRole
  <2>4. \A o : o \in R <=> o \in RolesOf(U, F)
    BY <2>2, RolesIs
  <2> QED BY <2>4
<1>8. Cardinality(R) = Cardinality({o[3] : o \in R}) /\ \A o \in R : o[3] \in bmap \ TakenBlocks
  BY <1>1, <1>5, <1>7, OneRole
<1>9. \A o \in R : o[3] \in bmap
  BY <1>8
<1> QED BY <1>2, <1>6, <1>8, <1>9 DEF CrashSafe

HeldBlocks(i) == {u[2] : u \in Held(i)}

\* A block in use is at a position of a living file, of an unlink, in hand, or lost.
LEMMA NothingLeaksSound == Sound => NothingLeaks
<1> SUFFICES ASSUME Sound PROVE NothingLeaks
  OBVIOUS
<1>1. PICK W : InOrder /\ Tidy(W)
  BY DEF Sound
<1>2. imap \subseteq TakenInodes \cup files \cup {ino[t] : t \in Tasks}
  BY <1>1 DEF Tidy, Marked
<1>3. ASSUME NEW b \in bmap
      PROVE  \/ b \in TakenBlocks \cup lost
             \/ \E i \in Living : b \in HeldBlocks(i)
             \/ \E t \in Tasks : b \in Pending(t)
  <2>1. \/ b \in TakenBlocks \cup lost
        \/ \E x \in Owns : BlockAt(x) = b
        \/ \E t \in Tasks : Placing(t) /\ block[t] = b
    BY <1>1 DEF Tidy, Covered
  <2>2. ASSUME NEW t \in Tasks, Placing(t), block[t] = b PROVE b \in Pending(t)
    BY <2>2 DEF Pending, Placing
  <2>3. ASSUME NEW x \in Owns, BlockAt(x) = b, b # 0
        PROVE  \/ \E i \in Living : b \in HeldBlocks(i)
               \/ \E t \in Tasks : b \in Pending(t)
    <3>1. PICK i, p : i = x[1] /\ p = x[2]
      OBVIOUS
    <3>2. i \in Inodes /\ p \in Tree /\ Live(i, p) /\ b = Reach(disk, Nodes[i], p)
      BY <2>3, <3>1 DEF Owns, BlockAt, Has
    <3>3. b \in BlocksOf(Nodes[i])
      BY <2>3, <3>2, BlocksAre
    <3>4. CASE i \in Living /\ ~Parted(i, p)
      <4>1. Nodes[i] = Current(i)
        BY <3>2 DEF Nodes
      <4>2. PICK m : <<m, b>> \in Uses(Current(i)) /\ Named(m, p)
        BY <2>3, <3>2, <4>1, UsesAre
      <4>3. m \notin Freed(i)
        BY <1>1, <3>2, <3>4, <4>2, PartedNames DEF InOrder
      <4>4. PICK u : u = <<m, b>>
        OBVIOUS
      <4>5. u \in Held(i) /\ u[2] = b
        BY <4>2, <4>3, <4>4 DEF Held
      <4> QED BY <3>4, <4>5 DEF HeldBlocks
    <3>5. ASSUME NEW t \in Tasks, ino[t] = i, op[t] = "unlink" PROVE b \in Pending(t)
      <4>1. Nodes[i] = copy[t]
        BY <1>1, <3>2, <3>5, CurrentIs DEF Tidy
      <4> QED BY <3>3, <3>5, <4>1 DEF Pending
    <3> QED BY <3>2, <3>4, <3>5 DEF Live
  <2>4. 0 \in TakenBlocks
    BY Volume
  <2> QED BY <2>1, <2>2, <2>3, <2>4
<1>4. ASSUME NEW b \in bmap
      PROVE  b \in TakenBlocks \cup lost
                \cup (UNION {HeldBlocks(i) : i \in Living})
                \cup (UNION {Pending(t) : t \in Tasks})
  <2>1. ASSUME NEW i \in Living, b \in HeldBlocks(i)
        PROVE  b \in UNION {HeldBlocks(j) : j \in Living}
    BY <2>1, Zenon
  <2>2. ASSUME NEW t \in Tasks, b \in Pending(t) PROVE b \in UNION {Pending(u) : u \in Tasks}
    BY <2>2, Zenon
  <2>3. CASE b \in TakenBlocks \cup lost
    BY <2>3
  <2>4. CASE \E i \in Living : b \in HeldBlocks(i)
    <3>1. b \in UNION {HeldBlocks(j) : j \in Living}
      BY <2>1, <2>4
    <3> QED BY <3>1, Zenon
  <2>5. CASE \E t \in Tasks : b \in Pending(t)
    <3>1. b \in UNION {Pending(u) : u \in Tasks}
      BY <2>2, <2>5
    <3> QED BY <3>1, Zenon
  <2> QED BY <1>3, <2>3, <2>4, <2>5
<1> QED BY <1>2, <1>4 DEF NothingLeaks, HeldBlocks

\* What create, write, truncate and unlink allocate, link and free never gives a block two
\* roles: two files, two logical blocks of one file, or data and an indirect block; and
\* none is the rest of the volume's.
THEOREM BlocksNotShared == ASSUME Faults = {}, SizesFit PROVE Spec /\ []FollowsBlocks => []NotShared
  BY SoundAlways, NotSharedSound, PTL

\* A power failure at any moment leaves inodes that name only blocks marked in use, and
\* none twice, except of a file that truncate_inode is making shorter.
THEOREM CrashLeavesFilesSafe == ASSUME Faults = {}, SizesFit PROVE Spec /\ []FollowsBlocks => []CrashSafe
  BY SoundAlways, CrashSafeSound, PTL

\* Every block marked in use belongs to a file or to a call under way, or is one that
\* _set_physical_block forgot for want of space, or _free_double_indirect and
\* _free_triple_indirect with the indirect blocks of an unlinked file.
THEOREM BlocksNotLeaked == ASSUME Faults = {}, SizesFit PROVE Spec /\ []FollowsBlocks => []NothingLeaks
  BY SoundAlways, NothingLeaksSound, PTL

-----------------------------------------------------------------------------
(* Files of at most two levels of indirect blocks.                         *)

\* No file is large enough for a triple indirect block.
TwoLevels == MaxBlocks <= Direct + Words + DoubleSpan

\* Then no path has three indices.
LEMMA LevelsAre ==
  ASSUME TwoLevels, NEW l \in Logicals
  PROVE  Level(l) \in 0..2
<1>1. /\ Direct \in Nat /\ Words \in Nat /\ DoubleSpan \in Nat /\ MaxBlocks \in Nat
      /\ Logicals = 0..(MaxBlocks - 1)
  BY FileIs
<1>2. l \in Int /\ l < MaxBlocks
  BY <1>1
<1>3. MaxBlocks <= Direct + Words + DoubleSpan
  BY DEF TwoLevels
<1>4. l - Direct - Words < DoubleSpan
  BY <1>1, <1>2, <1>3
<1> QED BY <1>4 DEF Level

\* Only the two steps that follow pointers go to another indirect block.
LEMMA TableMoves ==
  ASSUME Typed, NEW t \in Tasks, Step(t)
  PROVE  SetRoot(t) \/ SetTable(t) \/ table' = table \/ table' = [table EXCEPT ![t] = 0]
<1>1. Ends(t) => table' = [table EXCEPT ![t] = 0]
  BY DEF Ends
<1>2. \A o, c, i, n, p, e : Starts(t, o, c, i, n, p, e) => table' = table
  BY DEF Starts
<1>3. \A b : Placed(t, b) => table' = table
  BY DEF Placed
<1>4. ASSUME NEW g \in GroupIds, Create(t, g) PROVE table' = table
  BY <1>2, <1>4 DEF Create
<1>5. CASE CreateInit(t)
  BY <1>1, <1>2, <1>5 DEF CreateInit
<1>6. ASSUME NEW i \in Inodes, NEW r \in Ranges, Write(t, i, r) PROVE table' = table
  BY <1>2, <1>6 DEF Write
<1>7. CASE WriteAllocate(t) \/ Grow(t)
  BY <1>3, <1>7 DEF WriteAllocate, Grow
<1>8. CASE WriteFound(t) \/ WriteData(t) \/ SaveRead(t) \/ Shrink(t) \/ Clear(t) \/ UnlinkBlock(t) \/ UnlinkTable(t)
  BY <1>8 DEF WriteFound, WriteData, SaveRead, Shrink, Clear, UnlinkBlock, UnlinkTable
<1>9. CASE WriteEnd(t) \/ TruncateEnd(t) \/ UnlinkEnd(t)
  BY <1>1, <1>9 DEF WriteEnd, TruncateEnd, UnlinkEnd
<1>10. CASE NoTable(t)
  BY <1>1, <1>10 DEF NoTable
<1>11. CASE SetEntry(t)
  BY <1>11 DEF SetEntry
<1>12. ASSUME NEW i \in Inodes, NEW s \in Sizes, Truncate(t, i, s) PROVE table' = table
  BY <1>2, <1>12 DEF Truncate
<1>13. ASSUME NEW i \in Inodes, Unlink(t, i) PROVE table' = table
  BY <1>2, <1>13 DEF Unlink
<1> QED BY <1>4, <1>5, <1>6, <1>7, <1>8, <1>9, <1>10, <1>11, <1>12, <1>13 DEF Step

\* No word of block 0 is data.
ZeroEmpty == \A k \in Entry : disk[0][k] >= 0

\* A step sets in block 0 nothing but the numbers of blocks.
LEMMA ZeroNext ==
  ASSUME Typed, ZeroEmpty, NEW t \in Tasks, Going(t), Step(t), op[t] = "data" => block[t] # 0
  PROVE  ZeroEmpty'
<1>1. /\ disk \in [Blocks -> [Entry -> Word]] /\ 0 \in Blocks /\ (\A k \in Entry : disk[0][k] >= 0)
      /\ block[t] \in Blocks /\ \A b \in Blocks : b >= 0
  BY Volume DEF Typed, StoreTypes, LocalTypes, ZeroEmpty
<1>2. disk' = disk => ZeroEmpty'
  BY DEF ZeroEmpty
<1>3. ASSUME NEW z, NEW f, disk' = [disk EXCEPT ![z] = f], z = 0 => \A k \in Entry : f[k] >= 0 PROVE ZeroEmpty'
  BY <1>1, <1>3 DEF ZeroEmpty
<1>4. ASSUME NEW B, disk' = Forgotten(B) PROVE ZeroEmpty'
  <2>1. disk'[0] = disk[0]
    BY <1>1, <1>4 DEF Forgotten
  <2> QED BY <1>1, <2>1 DEF ZeroEmpty
<1>5. \A k \in Entry : Zeros[k] >= 0
  BY DEF Zeros
<1>6. ASSUME NEW z, NEW j, NEW v, v \in Nat, disk' = [disk EXCEPT ![z][j] = v] PROVE ZeroEmpty'
  <2>1. \A k \in Entry : disk'[0][k] = disk[0][k] \/ disk'[0][k] = v
    BY <1>1, <1>6
  <2> QED BY <1>1, <1>6, <2>1 DEF ZeroEmpty
<1>7. ASSUME NEW g \in GroupIds, Create(t, g) PROVE ZeroEmpty'
  BY <1>2, <1>7 DEF Create, store
<1>8. CASE CreateInit(t) \/ WriteEnd(t) \/ TruncateEnd(t) \/ UnlinkEnd(t)
  BY <1>2, <1>8 DEF CreateInit, WriteEnd, TruncateEnd, UnlinkEnd
<1>9. CASE SaveRead(t) \/ WriteFound(t) \/ WriteAllocate(t)
  BY <1>2, <1>9 DEF SaveRead, WriteFound, WriteAllocate, store
<1>10. ASSUME NEW i \in Inodes, NEW r \in Ranges, Write(t, i, r) PROVE ZeroEmpty'
  BY <1>2, <1>10 DEF Write, store
<1>11. CASE WriteData(t)
  <2>1. PICK f : disk' = [disk EXCEPT ![block[t]] = f]
    BY <1>11 DEF WriteData
  <2>2. block[t] # 0
    BY <1>11 DEF WriteData
  <2> QED BY <1>3, <2>1, <2>2
<1>12. CASE SetRoot(t)
  <2>1. disk' = disk \/ \E b : disk' = [disk EXCEPT ![b] = Zeros]
    BY <1>12 DEF SetRoot
  <2> QED BY <1>2, <1>3, <1>5, <2>1
<1>13. CASE SetTable(t)
  <2>1. PICK k, b : \/ disk' = disk
                    \/ /\ b = IndirectBlock(BlockGroup[table[t]])
                       /\ disk' = [disk EXCEPT ![b] = Zeros, ![table[t]][k] = b]
    BY <1>13 DEF SetTable
  <2>2. CASE disk' = disk
    BY <1>2, <2>2
  <2>3. CASE b = IndirectBlock(BlockGroup[table[t]]) /\ disk' = [disk EXCEPT ![b] = Zeros, ![table[t]][k] = b]
    <3>1. BlockGroup[table[t]] \in GroupIds
      BY LocalIs, InGroups
    <3>2. b \in Nat
      BY <1>1, <2>3, <3>1, IndirectBlockIs, Volume
    <3>3. PICK d : d = [disk EXCEPT ![b] = Zeros]
      OBVIOUS
    <3>4. disk' = [d EXCEPT ![table[t]][k] = b] /\ DOMAIN d = Blocks /\ DOMAIN d[0] = Entry
      BY <1>1, <2>3, <3>3 DEF Zeros
    <3>5. \A j \in Entry : d[0][j] >= 0
      BY <1>1, <1>5, <3>3
    <3>6. \A j \in Entry : disk'[0][j] = d[0][j] \/ disk'[0][j] = b
      BY <1>1, <3>4
    <3> QED BY <3>2, <3>5, <3>6 DEF ZeroEmpty
  <2> QED BY <2>1, <2>2, <2>3
<1>14. CASE NoTable(t)
  BY <1>4, <1>14 DEF NoTable
<1>15. CASE SetEntry(t)
  <2>1. PICK k : disk' = [disk EXCEPT ![table[t]][k] = block[t]]
    BY <1>15 DEF SetEntry
  <2>2. block[t] \in Nat
    BY <1>1, Volume
  <2> QED BY <1>6, <2>1, <2>2
<1>16. ASSUME NEW i \in Inodes, NEW s \in Sizes, Truncate(t, i, s) PROVE ZeroEmpty'
  <2>1. disk' = ZeroedTail(inodes[i], s)
    BY <1>16 DEF Truncate
  <2>2. \/ disk' = disk
        \/ \E p, e : disk' = [disk EXCEPT ![p] = [k \in Entry |-> IF k >= e THEN 0 ELSE disk[p][k]]]
    BY <2>1 DEF ZeroedTail
  <2>3. ASSUME NEW p, NEW e, disk' = [disk EXCEPT ![p] = [k \in Entry |-> IF k >= e THEN 0 ELSE disk[p][k]]]
        PROVE  ZeroEmpty'
    <3>1. PICK f : f = [k \in Entry |-> IF k >= e THEN 0 ELSE disk[p][k]]
      OBVIOUS
    <3>2. p = 0 => \A k \in Entry : f[k] >= 0
      BY <1>1, <3>1
    <3> QED BY <1>3, <2>3, <3>1, <3>2
  <2> QED BY <1>2, <2>2, <2>3
<1>17. CASE Shrink(t)
  BY <1>2, <1>4, <1>17 DEF Shrink
<1>18. CASE Clear(t)
  <2>1. disk' = disk \/ \E z, k : disk' = [disk EXCEPT ![z][k] = 0]
    BY <1>18 DEF Clear
  <2> QED BY <1>2, <1>6, <2>1
<1>19. CASE Grow(t)
  <2>1. disk' = disk \/ \E b : disk' = [disk EXCEPT ![b] = Zeros]
    BY <1>19 DEF Grow
  <2> QED BY <1>2, <1>3, <1>5, <2>1
<1>20. ASSUME NEW i \in Inodes, Unlink(t, i) PROVE ZeroEmpty'
  BY <1>2, <1>20 DEF Unlink
<1>21. CASE UnlinkBlock(t)
  BY <1>2, <1>4, <1>21 DEF UnlinkBlock
<1>22. CASE UnlinkTable(t)
  <2>1. disk' = disk \/ \E B : disk' = Forgotten(B)
    BY <1>22 DEF UnlinkTable
  <2> QED BY <1>2, <1>4, <2>1
<1> QED
  BY <1>7, <1>8, <1>9, <1>10, <1>11, <1>12, <1>13, <1>14, <1>15, <1>16, <1>17, <1>18, <1>19, <1>20, <1>21,
     <1>22 DEF Step

\* The entry that a task follows names a block: block 0 has no data, and the indirect
\* blocks of files have none.
LEMMA EntryIsBlock ==
  ASSUME TwoLevels, InOrder, ZeroEmpty, NEW W, Tidy(W), NEW t \in Tasks, SetTable(t)
  PROVE  disk[table[t]][Path[Here(t)][depth[t] + 1]] \in Blocks
<1>1. PICK i, l, d, e : i = ino[t] /\ l = Here(t) /\ d = depth[t] /\ e = d + 1
  OBVIOUS
<1>2. Typed /\ Going(t) /\ op[t] = "table" /\ d < Level(l) - 1
  BY <1>1 DEF InOrder, SetTable
<1>3. l \in Logicals /\ Path[l][e] \in Entry /\ d \in 0..2
  BY <1>1, <1>2, PlacingIs
<1>4. d = 0
  <2>1. Level(l) \in 0..2
    BY <1>3, LevelsAre
  <2>2. PICK m : m = Level(l)
    OBVIOUS
  <2>3. m \in 0..2 /\ d < m - 1 /\ d \in 0..2
    BY <1>2, <1>3, <2>1, <2>2
  <2> QED BY ONLY <2>3
<1>5. CASE copy[t].ptr[Root(l)] = 0
  <2>1. table[t] = 0
    BY <1>1, <1>2, <1>4, <1>5 DEF Tidy, Stands
  <2>2. disk[0][Path[l][e]] >= 0
    BY <1>3 DEF ZeroEmpty
  <2>3. disk[0][Path[l][e]] \in Word
    BY <1>2, <1>3, Volume DEF Typed, StoreTypes
  <2>4. disk[0][Path[l][e]] \in Blocks
    BY <2>2, <2>3, WordIs
  <2> QED BY <1>1, <2>1, <2>4
<1>6. CASE copy[t].ptr[Root(l)] # 0
  <2>1. Rests(t, i, l, d, e)
    BY <1>1, <1>2, <1>6 DEF Rests
  <2>2. Stand(t, i, l, d, e)
    BY <2>1, StandsAt
  <2>3. disk[table[t]][Path[l][e]] \in Blocks
    BY <1>3, <2>2 DEF Stand
  <2> QED BY <1>1, <2>3
<1> QED BY <1>5, <1>6

\* Then every step stands at a block.
LEMMA FollowsNext ==
  ASSUME TwoLevels, Sound, FollowsBlocks, ZeroEmpty, [Next]_vars
  PROVE  FollowsBlocks' /\ ZeroEmpty'
<1>1. PICK W : InOrder /\ Tidy(W)
  BY DEF Sound
<1>2. table \in [Tasks -> Blocks] /\ Typed /\ 0 \in Blocks
  BY <1>1, Volume DEF InOrder, Typed, LocalTypes
<1>3. ASSUME NEW t \in Tasks, NEW b \in Blocks, table' = [table EXCEPT ![t] = b] PROVE FollowsBlocks'
  BY <1>2, <1>3 DEF FollowsBlocks
<1>4. ASSUME table' = table PROVE FollowsBlocks'
  BY <1>4 DEF FollowsBlocks
<1>5. ASSUME NEW t \in Tasks, Step(t) PROVE FollowsBlocks'
  <2>1. Going(t)
    BY <1>1 DEF InOrder
  <2>2. CASE SetRoot(t)
    <3>1. PICK s, h : s = Root(Here(t)) /\ h = RootHint(copy[t], Here(t))
      OBVIOUS
    <3>2. op[t] = "root"
      BY <2>2 DEF SetRoot
    <3>3. h \in GroupIds /\ s \in Slots
      BY <1>2, <2>1, <3>1, <3>2, HintIs
    <3>4. IndirectBlock(h) \in Blocks
      BY <1>2, <3>3, IndirectBlockIs
    <3>5. copy[t].ptr[s] \in Blocks
      BY <1>2, <3>3 DEF Typed, LocalTypes, InodeType
    <3>6. PICK b : b = IF copy[t].ptr[s] # 0 THEN copy[t].ptr[s] ELSE IndirectBlock(h)
      OBVIOUS
    <3>7. b \in Blocks
      BY <3>4, <3>5, <3>6
    <3>8. table' = [table EXCEPT ![t] = b]
      BY <2>2, <3>1, <3>6 DEF SetRoot
    <3> QED BY <1>3, <3>7, <3>8
  <2>3. CASE SetTable(t)
    <3>1. PICK x, h : x = disk[table[t]][Path[Here(t)][depth[t] + 1]] /\ h = BlockGroup[table[t]]
      OBVIOUS
    <3>2. x \in Blocks
      BY <1>1, <2>3, <3>1, EntryIsBlock
    <3>3. h \in GroupIds
      BY <1>2, <3>1, InGroups
    <3>4. IndirectBlock(h) \in Blocks
      BY <1>2, <3>3, IndirectBlockIs
    <3>5. PICK b : b = IF x # 0 THEN x ELSE IndirectBlock(h)
      OBVIOUS
    <3>6. b \in Blocks
      BY <3>2, <3>4, <3>5
    <3>7. table' = [table EXCEPT ![t] = b]
      BY <2>3, <3>1, <3>5 DEF SetTable
    <3> QED BY <1>3, <3>6, <3>7
  <2>4. table' = table \/ table' = [table EXCEPT ![t] = 0] => FollowsBlocks'
    BY <1>2, <1>3, <1>4
  <2> QED BY <1>2, <1>5, <2>2, <2>3, <2>4, TableMoves
<1>6. ASSUME NEW t \in Tasks, Step(t) PROVE ZeroEmpty'
  <2>1. Typed /\ Going(t) /\ (op[t] = "data" => block[t] # 0)
    BY <1>1 DEF InOrder, Tidy, Writes
  <2> QED BY <1>6, <2>1, ZeroNext
<1>7. CASE UNCHANGED vars
  BY <1>4, <1>7 DEF vars, local, store, ZeroEmpty
<1> QED BY <1>5, <1>6, <1>7 DEF Next

\* Then no word of data is ever taken for the number of an indirect block.
LEMMA FollowsAlways ==
  ASSUME Faults = {}, SizesFit, TwoLevels, Boot = Zeros
  PROVE  Spec => [](Sound /\ FollowsBlocks)
<1>1. Init => FollowsBlocks /\ ZeroEmpty
  BY Volume DEF Init, FollowsBlocks, ZeroEmpty, Zeros
<1>2. Sound /\ FollowsBlocks /\ ZeroEmpty /\ [Next]_vars => FollowsBlocks' /\ ZeroEmpty'
  BY FollowsNext
<1>3. Sound /\ FollowsBlocks' /\ [Next]_vars => Sound'
  BY SoundNext
<1> QED BY <1>1, <1>2, <1>3, SoundInit, PTL DEF Spec

\* On volumes without triple indirect blocks and with an empty block 0, while no two tasks
\* work on one file or save inodes of one logical block, all this holds of itself.
THEOREM TwoLevelFiles ==
  ASSUME Faults = {}, SizesFit, TwoLevels, Boot = Zeros
  PROVE  Spec => [](FollowsBlocks /\ CountsAgree /\ NotShared /\ CrashSafe /\ NothingLeaks)
<1>1. Sound => CountsAgree
  BY CountsInOrder DEF Sound, InOrder
<1> QED BY <1>1, FollowsAlways, NotSharedSound, CrashSafeSound, NothingLeaksSound, PTL
=============================================================================
