SPECIFICATION FairSpec
CONSTANTS
    t1 = t1
    t2 = t2
    Thread <- MCThread
    MaxPatches = 4
    MaxUpdates = 4
INVARIANTS
    TypeOK
    CodeKept
    
PROPERTIES
    CodeNeverReverts
    UpdateCompletes
    
CHECK_DEADLOCK FALSE
