CONSTANTS
  Tasks = {t1}  Clients = {c1}  Nobody = nobody  Size = 2
  Ops = {"create", "stats"}  DeleteAtRest = TRUE
  MaxCalls = 2  MaxRestarts = 2  MaxFails = 0
SPECIFICATION Spec
INVARIANTS
  ProgressKept
CHECK_DEADLOCK FALSE
