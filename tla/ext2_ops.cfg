CONSTANTS
  Tasks = {t1, t2}
  Groups = 2
  BlocksPerGroup = 4
  InodesPerGroup = 2
  InodesPerLba = 2
  TakenBlocks = {0, 4, 5}
  TakenInodes = {1, 2}
  FirstInode = 2
  Boot <- MCBoot
  Direct = 1
  Words = 2
  MaxBlocks = 4
  SizeMod = 8
  Ranges <- MCRanges
  Sizes = {0, 5}
  MaxCalls = 6
  Prealloc = 0
  Faults = {}
SPECIFICATION Spec
SYMMETRY Symmetric
INVARIANTS CountsAgree NotShared CrashSafe NothingLeaks ReadsBack
CHECK_DEADLOCK FALSE
