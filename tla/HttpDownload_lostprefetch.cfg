SPECIFICATION Spec
CONSTANTS
  Size = 7
  MaxConns = 2
  Buf = 1
  Arrivals = {1}
  StealMin = 3
  Errors = {}
  MaxFaults = 0
  MaxStarts = 1
  MaxPauses = 1
  PrefetchMax = 2
  WaitersDrain = TRUE
INVARIANTS
  DoneMeansComplete
CHECK_DEADLOCK FALSE
