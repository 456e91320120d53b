CONSTANTS
  Tasks = {t1}
  Clients = {c1, c2}
  Nobody = nobody
  Size = 2
  Ops = {"create", "continue", "pause", "patch", "stats", "delete", "close"}
  DeleteAtRest = TRUE
  MaxCalls = 3
  MaxRestarts = 2
  MaxFails = 1
SPECIFICATION Spec
INVARIANTS
  StoreInv
  DeletedStaysDeleted
  StoreBehindFile
  RunningIsSaved
CHECK_DEADLOCK FALSE
