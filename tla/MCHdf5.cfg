SPECIFICATION FairSpec
CONSTANTS
    k1 = k1
    k2 = k2
    t1 = t1
    t2 = t2
    NoThread = NoThread
    NoKey = NoKey
    Keys <- MCKeys
    Threads <- MCThreads
    Calls <- MCCalls
    Faults = TRUE
    MaxSize = 4
    MaxOpens = 2
INVARIANTS
    CallsEffective
    KeptClosed
PROPERTIES
    StoresBytes
    LockReleased
CHECK_DEADLOCK FALSE
