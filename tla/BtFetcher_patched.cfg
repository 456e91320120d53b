CONSTANTS
  Fetchers = {f1, f2}  Files = {1, 2}  Selections = {{1}, {2}}  EarlyPatch = FALSE  MaxBtCalls = 3
SPECIFICATION Spec
INVARIANTS
  WaitMeansComplete
CHECK_DEADLOCK FALSE
