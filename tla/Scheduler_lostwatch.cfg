CONSTANTS
  Tasks = {t1}  Restored = {}  Uploads = {}  Clients = {c1}
  Notifier = notifier  Ticker = ticker  Nobody = nobody
  Ticking = FALSE  Limits = {1}  Batch = 1  MaxCalls = 2  MaxFails = 1  MaxErrors = 0
  Ops = {"create", "continue"}
SPECIFICATION FairSpec
PROPERTIES
  EndNoticed
CHECK_DEADLOCK FALSE
