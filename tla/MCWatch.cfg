SPECIFICATION FairSpec
CONSTANTS
  lib = lib exe = exe
  File <- MCFile
  Exec <- MCExec
  Reject <- MCLib
  Change <- MCAny
  QuietLoad = TRUE
  Delay = 2
  QueueLimit = 8
  Batch = 8
  MaxChanges = 3
INVARIANTS
  TypeOK
  NoChangeMissed
PROPERTIES
  LoadsAreQuiet
  ChangesDetected
CHECK_DEADLOCK FALSE
