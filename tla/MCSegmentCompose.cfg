SPECIFICATION Spec
CONSTANTS
    t1 = t1
    t2 = t2
    Thread <- MCThread
    MaxPatches = 3
    MaxUpdates = 3
INVARIANT ComposeDelivers
CHECK_DEADLOCK FALSE
