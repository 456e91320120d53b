CONSTANTS
  Tasks = {t1, t2, t3}  Restored = {t1, t2, t3}  Uploads = {}  Clients = {c1, c2}
  Notifier = notifier  Ticker = ticker  Nobody = nobody
  Ticking = FALSE  Limits = {1}  Batch = 1  MaxCalls = 3  MaxFails = 0  MaxErrors = 0
  Ops = {"continueAll", "pauseAll", "delete"}
SPECIFICATION Spec
INVARIANTS
  NoneMissed
CHECK_DEADLOCK FALSE
