CONSTANTS
  Tasks = {t1, t2}  Restored = {}  Uploads = {}  Clients = {c1}
  Notifier = notifier  Ticker = ticker  Nobody = nobody
  Ticking = FALSE  Limits = {1}  Batch = 1  MaxCalls = 4  MaxFails = 0  MaxErrors = 0
  Ops = {"create", "pause", "continue"}
SPECIFICATION Spec
PROPERTIES
  StartsWithinLimit
CHECK_DEADLOCK FALSE
