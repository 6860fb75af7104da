SPECIFICATION Spec
CONSTANTS
  CPUs = {c1}
  BSP = c1
  MaxPid = 2
  NInit = 1
  Kernel = {}
  Pinned = {}
  DefaultCount = 2
  MaxSleep = 2
  MaxKeys = 2
  WaitArgs <- EachWait
  Calls = {"yield", "fork", "vfork", "wait", "wnohang", "exit", "sleep", "event"}
INVARIANTS ExitOwnsTask
PROPERTIES NoEarlyWake ZombieForever
