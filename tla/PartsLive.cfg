CONSTANTS
  Components = {"single", "multi", "bt"}
  Total = 2
  Retries = 2
  Faults = {"resolve", "break", "write", "forbidden", "counted", "transient", "expire"}
  RetryWaits = TRUE
  SpareDrains = FALSE
  MaxFaults = 1
  MaxStarts = 2
  MaxPauses = 1
  Parts = {"rar", "r00", "r01"}
  Deletable = {"r01"}
  MaxDeletes = 1
  MaxStops = 1
  Fetchers = {f1, f2}
  Files = {1}
  Selections = {{1}}
  EarlyPatch = FALSE
  MaxBtCalls = 2
  Exts = {"x", "y"}
  Names = {"s", "b"}
  Values = {"u"}
  Registers = {"x"}
  Triggers = {g1}
  Keys = {k1}
  Callers = {a1, a2}
  Alone = {"install", "delete"}
  MaxExtCalls = 3
  MaxTriggers = 1
  MaxReboots = 1
  FileTasks = {d1, d2}
  Resolved = {d2}
  User = user
  Slots = 1
  OwnDeletes = TRUE
  MaxFileCalls = 4
  MaxFileFails = 1
  MaxFileStops = 1
SPECIFICATION PartsFairSpec
PROPERTIES
  RunsEnd
  WholeExtracted
  DeleteEnds
CHECK_DEADLOCK FALSE
