CONSTANTS
  Total = 2  Retries = 2  Faults = {"counted", "write"}  RetryWaits = FALSE  SpareDrains = FALSE
  MaxFaults = 2  MaxStarts = 2  MaxPauses = 1
SPECIFICATION Spec
INVARIANTS
  LoopClosedOnce
  WholeUnlessBroken
  ResumedWhole
CHECK_DEADLOCK FALSE
