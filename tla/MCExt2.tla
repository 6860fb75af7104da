------------------------------- MODULE MCExt2 -------------------------------
EXTENDS Ext2, TLC

\* Writes of whole blocks: see ReadsBack in the README for other ones.
MCRanges == {<<0, 4>>, <<6, 2>>}

\* Block 0 has a zero, where a double indirect block would be named, and data.
MCBoot == [k \in Entry |-> IF k = 0 THEN 0 ELSE Junk]

Symmetric == Permutations(Tasks)
=============================================================================
