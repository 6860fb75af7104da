SPECIFICATION FrameSpec
CONSTANTS
  TotalPages = 7
  Usable <- MapWithHole
  Reserved <- LowMemory
  RefMod = 256
  MaxRun = 3
  MaxHeld = 5
  MaxShare = 3
  MaxPending = 2
  MaxFailed = 2
INVARIANTS HeldIsCounted NoLeak
