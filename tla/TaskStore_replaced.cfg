CONSTANTS
  Tasks = {t1}  Clients = {c1, c2}  Nobody = nobody  Size = 2
  Ops = {"create", "continue", "patch"}  DeleteAtRest = TRUE
  MaxCalls = 3  MaxRestarts = 1  MaxFails = 0
SPECIFICATION Spec
INVARIANTS
  NoneReplaced
CHECK_DEADLOCK FALSE
