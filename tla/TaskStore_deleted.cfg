CONSTANTS
  Tasks = {t1}  Clients = {c1}  Nobody = nobody  Size = 2
  Ops = {"create", "continue", "pause", "patch", "delete"}  DeleteAtRest = FALSE
  MaxCalls = 3  MaxRestarts = 1  MaxFails = 0
SPECIFICATION Spec
INVARIANTS
  DeletedStaysDeleted
CHECK_DEADLOCK FALSE
