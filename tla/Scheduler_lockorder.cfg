CONSTANTS
  Tasks = {t1, t2}  Restored = {}  Uploads = {}  Clients = {c1}
  Notifier = notifier  Ticker = ticker  Nobody = nobody
  Ticking = TRUE  Limits = {1}  Batch = 1  MaxCalls = 3  MaxFails = 0  MaxErrors = 0
  Ops = {"create", "continue"}
SPECIFICATION FairSpec
PROPERTIES
  ContinueReturns
CHECK_DEADLOCK FALSE
