CONSTANTS
  Tasks = {t1, t2}
  Boot = t1
  Pipes = {p1}
  None = None
  MaxFds = 3
  MaxBare = 1
  MaxBytes = 2
  Lengths = {2}
  Window = 1
  RefMod = 256
  Calls = {"pipe", "close", "dup", "dup2", "nonblock", "read", "write", "fork", "execve", "exit"}
  Faults = {}
SPECIFICATION Spec
INVARIANTS CountsAgree UsesAreLive NothingLeaks InOrder ReadyIsTrue
PROPERTY EofReaches
CHECK_DEADLOCK FALSE
