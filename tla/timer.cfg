SPECIFICATION FairSpec
CONSTANTS
    Clients = {c1, c2}
    Delays = {1, 2}
    MaxStarts = 2
    MaxTime = 4
    MayDestroy = TRUE
INVARIANTS UsedIsAlive OneCallback
PROPERTIES EveryTimerEnds
CHECK_DEADLOCK FALSE
