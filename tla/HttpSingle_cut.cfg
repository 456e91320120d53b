CONSTANTS
  Total = 2  Retries = 2  Faults = {"break"}  RetryWaits = TRUE  SpareDrains = TRUE
  MaxFaults = 1  MaxStarts = 1  MaxPauses = 0
SPECIFICATION Spec
INVARIANTS
  DoneMeansWhole
CHECK_DEADLOCK FALSE
