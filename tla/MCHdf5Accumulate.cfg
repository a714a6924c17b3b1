SPECIFICATION Spec
CONSTANTS
    k1 = k1
    k2 = k2
    t1 = t1
    t2 = t2
    NoThread = NoThread
    NoKey = NoKey
    Keys <- MCKeys
    Threads <- MCThreads
    Calls <- StraddleCalls
    Faults = FALSE
    MaxSize = 4
    MaxOpens = 1
INVARIANTS
    AccumulateCombines
CHECK_DEADLOCK FALSE
