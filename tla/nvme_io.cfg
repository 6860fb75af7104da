CONSTANTS
  Tasks = {t1, t2}
  None = None
  SqSize = 3
  CqSize = 3
  IdMod = 4
  LbaSize = 2
  LbaCount = 3
  ChunkLbas = 2
  PageSize = 1
  Mps = 1
  Entries = 2
  MaxCalls = 1
  Ranges <- MCRanges
  DeviceErrors = TRUE
  Faults = {}
SPECIFICATION Spec
INVARIANTS OnceInFlight PrpsCover
PROPERTIES Implements Returns
CHECK_DEADLOCK FALSE
