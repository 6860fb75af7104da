SPECIFICATION Spec
CONSTANTS
  CPUs = {c1, c2}
  BSP = c1
  MaxPid = 2
  NInit = 2
  Kernel = {}
  Pinned = {}
  DefaultCount = 1
  MaxSleep = 0
  MaxKeys = 1
  WaitArgs <- AnyWait
  Calls = {"event"}
INVARIANTS OneCpuPerTask
