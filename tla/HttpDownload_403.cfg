SPECIFICATION Spec
CONSTANTS
  Size = 7
  MaxConns = 2
  Buf = 1
  Arrivals = {1}
  StealMin = 3
  Errors = {"forbidden"}
  MaxFaults = 1
  MaxStarts = 1
  MaxPauses = 0
  PrefetchMax = 0
  WaitersDrain = TRUE
INVARIANTS
  DoneMeansComplete
CHECK_DEADLOCK FALSE
