SPECIFICATION Spec
CONSTANTS
    LS_ALIGN = 2
    LS_SUPER_SIZE = 2
    LS_MIN_EXTENT = 2
    LS_MAX_EXTENTS = 3
    CHUNK = 2
    Disk = 12
    Faults = FALSE
    FlCap0 = 1
    LostEnd = 12
    k1 = k1
    k2 = k2
    k3 = k3
    t1 = t1
    t2 = t2
    NoThread = NoThread
    NoKey = NoKey
    Keys <- MCKeys
    Threads <- MCThreads
    Settings <- RaceSettings
    Loaded <- Empty
SYMMETRY Symmetric
INVARIANTS
    PlaceCurrent
