CONSTANTS
  Components = {"multi"}
  Total = 2
  Retries = 2
  Faults = {"resolve", "break", "write", "forbidden", "counted", "transient", "expire"}
  RetryWaits = TRUE
  SpareDrains = TRUE
  MaxFaults = 3
  MaxStarts = 2
  MaxPauses = 1
  Parts = {"rar", "r00", "p1"}
  Deletable = {}
  MaxDeletes = 1
  MaxStops = 1
  Fetchers = {f1, f2}
  Files = {1, 2}
  Selections = {{1}}
  EarlyPatch = FALSE
  MaxBtCalls = 3
  Exts = {"x", "y"}
  Names = {"s", "b"}
  Values = {"u"}
  Registers = {"x"}
  Triggers = {g1}
  Keys = {k1}
  Callers = {a1, a2}
  Alone = {"install", "delete"}
  MaxExtCalls = 3
  MaxTriggers = 1
  MaxReboots = 1
  FileTasks = {d1, d2}
  Resolved = {d2}
  User = user
  Slots = 1
  OwnDeletes = TRUE
  MaxFileCalls = 4
  MaxFileFails = 1
  MaxFileStops = 1
SPECIFICATION PartsSpec
INVARIANTS
  DoneIsOwn
CHECK_DEADLOCK FALSE
