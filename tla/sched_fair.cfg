SPECIFICATION FairSpec
CONSTANTS
  CPUs = {c1, c2}
  BSP = c1
  MaxPid = 3
  NInit = 3
  Kernel = {}
  Pinned = {}
  DefaultCount = 1
  MaxSleep = 0
  MaxKeys = 0
  WaitArgs <- AnyWait
  Calls = {"yield", "exit"}
PROPERTIES NoStarvation
