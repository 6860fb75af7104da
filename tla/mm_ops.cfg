SPECIFICATION Spec
CONSTANTS
  NProcs = 3
  NPages = 5
  StackSize = 2
  BrkBase = 1
  RmapBase = 3
  BrkSize = 2
  RmapSize = 1
  MaxLength = 1
  NFrames = 9
  Addrs = {3}
  Data = {0, 1}
  Zero = 0
  Calls = {"mmap", "munmap", "mprotect", "write_memory", "brk", "fork", "exit"}
  MaxEntries = 4
  None = None
  Unmapped = Unmapped
INVARIANTS MappedIsCounted WritableIsPrivate
PROPERTY Implements
CHECK_DEADLOCK FALSE
