SPECIFICATION Spec
CONSTANTS
  Header = 2
  PageUnits = 5
  InitPages = 1
  SparePages = 4
  MaxRequest = 6
INVARIANTS Tiled Coalesced UsedIsSum MallocSucceeds
PROPERTY Implements
