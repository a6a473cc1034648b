SPECIFICATION FairSpec
CONSTANTS
  lib = lib exe = exe
  File <- MCLib
  Exec <- MCNone
  Reject <- MCNone
  Change <- MCMove
  QuietLoad = TRUE
  Delay = 1
  QueueLimit = 8
  Batch = 8
  MaxChanges = 4
PROPERTIES
  NewFilesDetected
CHECK_DEADLOCK FALSE
