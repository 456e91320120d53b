CONSTANTS
  Tasks = {t1, t2, t3}  Restored = {t1, t2}  Uploads = {}  Clients = {c1, c2}
  Notifier = notifier  Ticker = ticker  Nobody = nobody
  Ticking = FALSE  Limits = {1}  Batch = 2  MaxCalls = 2  MaxFails = 0  MaxErrors = 1
  Ops = {"create", "pause", "pauseAll", "continue", "continueAll", "continueBatch", "delete",
         "deleteAll", "config"}
SYMMETRY MCSymmetry
SPECIFICATION Spec
INVARIANTS
  WaitQueued
CHECK_DEADLOCK FALSE
