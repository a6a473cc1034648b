SPECIFICATION FairSpec
CONSTANTS
  lib = lib exe = exe
  File <- MCFile
  Exec <- MCNone
  Reject <- MCNone
  Change <- MCOverwrite
  QuietLoad = TRUE
  Delay = 1
  QueueLimit = 2
  Batch = 8
  MaxChanges = 4
PROPERTIES
  OverflowChecksAll
CHECK_DEADLOCK FALSE
