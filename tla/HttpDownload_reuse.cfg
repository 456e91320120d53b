SPECIFICATION Spec
CONSTANTS
  Size = 7
  MaxConns = 2
  Buf = 1
  Arrivals = {1}
  StealMin = 3
  Errors = {}
  MaxFaults = 0
  MaxStarts = 2
  MaxPauses = 1
  PrefetchMax = 0
  WaitersDrain = FALSE
INVARIANTS
  NoWaitGroupReuse
CHECK_DEADLOCK FALSE
