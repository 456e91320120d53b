SPECIFICATION Spec
CONSTANTS
  Size = 7
  MaxConns = 2
  Buf = 1
  Arrivals = {1}
  StealMin = 3
  Errors = {"counted", "transient"}
  MaxFaults = 4
  MaxStarts = 2
  MaxPauses = 0
  PrefetchMax = 0
  WaitersDrain = TRUE
INVARIANTS
  NoStaleError
CHECK_DEADLOCK FALSE
