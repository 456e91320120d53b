SPECIFICATION Spec
CONSTANTS
  FileTasks = {d1, d2}
  Resolved = {d2}
  User = user
  Slots = 1
  OwnDeletes = TRUE
  MaxFileCalls = 2
  MaxFileFails = 0
  MaxFileStops = 0
INVARIANTS
  OneFileEach
CHECK_DEADLOCK FALSE
