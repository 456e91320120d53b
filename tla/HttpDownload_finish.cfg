SPECIFICATION Spec
CONSTANTS
  Size = 21
  MaxConns = 3
  Buf = 2
  Arrivals = {2}
  StealMin = 5
  Errors = {"forbidden"}
  MaxFaults = 1
  MaxStarts = 1
  MaxPauses = 0
  PrefetchMax = 21
  WaitersDrain = TRUE
INVARIANTS
  NoByteLost
  Accounting
  RunGoesOn
CHECK_DEADLOCK FALSE
