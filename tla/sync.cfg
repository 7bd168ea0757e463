SPECIFICATION MCSpec
CONSTANTS
    t1 = t1
    t2 = t2
    t3 = t3
    c1 = c1
    i1 = i1
    i2 = i2
    NULL = NULL
    Threads = {t1, t2, t3}
    NSlots = 2
    Calls <- TwoKinds
    MaxRetries = 1
    MaxInFlight = 1
    SpuriousWakeups = FALSE
INVARIANTS PointerIsLive ExclusiveUntilStolen NoLostAnswer
PROPERTIES OnlyExpectedPayload EveryCallReturns
