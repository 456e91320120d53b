SPECIFICATION Spec
CONSTANTS
  Size = 8
  MaxConns = 2
  Buf = 1
  Arrivals = {1}
  StealMin = 3
  Errors = {"counted", "transient", "open"}
  MaxFaults = 1
  MaxStarts = 3
  MaxPauses = 2
  PrefetchMax = 0
  WaitersDrain = TRUE
INVARIANTS
  DoneMeansComplete
  FileOpenWhileRunning
  IInv
  BytesInv
  TypeOK
  ChunksDisjoint
PROPERTIES
  PauseHolds
CHECK_DEADLOCK FALSE
