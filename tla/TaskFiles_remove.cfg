SPECIFICATION Spec
CONSTANTS
  FileTasks = {d1, d2}
  Resolved = {d2}
  User = user
  Slots = 1
  OwnDeletes = FALSE
  MaxFileCalls = 3
  MaxFileFails = 0
  MaxFileStops = 0
PROPERTIES
  RemovesOwn
CHECK_DEADLOCK FALSE
