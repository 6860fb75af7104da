------------------------------- MODULE MCNvme -------------------------------
EXTENDS Nvme

\* All blocks, in two chunks; a part of the block in the middle; and one that
\* ends past the disk.
MCRanges == {<<0, 6>>, <<2, 1>>, <<5, 2>>}
=============================================================================
