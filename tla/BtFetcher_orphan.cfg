CONSTANTS
  Fetchers = {f1, f2}  Files = {1, 2}  Selections = {{1}}  EarlyPatch = FALSE  MaxBtCalls = 3
SPECIFICATION Spec
INVARIANTS
  NoOrphan
  NoPanic
CHECK_DEADLOCK FALSE
