CONSTANTS
  Tasks = {t1, t2}
  None = None
  Names = {"a", "b", "config.sys"}
  NameLen <- MCNameLen
  Inodes = {2, 3}
  BlockUnits = 9
  MaxBlocks = 2
  Faults = {}
SPECIFICATION Spec
INVARIANTS Tiles OneEntry CacheCoherent
PROPERTIES Implements
CHECK_DEADLOCK FALSE
