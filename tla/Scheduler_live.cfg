CONSTANTS
  Tasks = {t1, t2}  Restored = {}  Uploads = {}  Clients = {c1, c2}
  Notifier = notifier  Ticker = ticker  Nobody = nobody
  Ticking = TRUE  Limits = {1}  Batch = 1  MaxCalls = 3  MaxFails = 1  MaxErrors = 0
  Ops = {"create", "pause", "delete"}
SPECIFICATION FairSpec
PROPERTIES
  WaitServed
CHECK_DEADLOCK FALSE
