SPECIFICATION Spec
CONSTANTS
    k1 = k1
    k2 = k2
    t1 = t1
    t2 = t2
    NoThread = NoThread
    NoKey = NoKey
    Keys <- MCKeys
    Threads <- MCThreads
    Blocks = 3
    Sizes = {1, 2, 3}
    CAP0 = 2
    MaxArrays = 3
SYMMETRY Symmetric
INVARIANTS
    SnapshotLive
    MappingsFaithful
    HandedUsable
    ClosedClean
CHECK_DEADLOCK FALSE
