CONSTANTS
  Tasks = {t1, t2, t3}  Restored = {}  Uploads = {}  Clients = {c1, c2}
  Notifier = notifier  Ticker = ticker  Nobody = nobody
  Ticking = FALSE  Limits = {1}  Batch = 1  MaxCalls = 4  MaxFails = 0  MaxErrors = 1
  Ops = {"create", "pause", "delete"}
SYMMETRY MCSymmetry
SPECIFICATION Spec
INVARIANTS
  TypeOK
  SlotNoticed
  WaitQueued
PROPERTIES
  StartsWithinLimit
  DeletedNeverStarts
CHECK_DEADLOCK FALSE
