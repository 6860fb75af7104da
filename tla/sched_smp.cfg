SPECIFICATION Spec
CONSTANTS
  CPUs = {c1, c2}
  BSP = c1
  MaxPid = 3
  NInit = 2
  Kernel = {1}
  Pinned = {1}
  DefaultCount = 1
  MaxSleep = 0
  MaxKeys = 0
  WaitArgs <- NoWait
  Calls = {"yield", "fork", "exit", "setpgid"}
INVARIANTS TypeOK OneCpuPerTask RunningIsHeld ReadyBeforeRun ListIsLiveTasks
