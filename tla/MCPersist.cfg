SPECIFICATION Spec
CONSTANTS
    LS_ALIGN = 2
    LS_SUPER_SIZE = 2
    LS_MIN_EXTENT = 2
    LS_MAX_EXTENTS = 3
    Keys = {k1, k2}
    Procs = {p1, p2}
    MaxOpens = 2
    Settings <- LifeSettings
SYMMETRY Symmetric
INVARIANTS
    TypeOK
    KeptReadable
    FreeListRebuilt
    SpaceDisjoint
    SharedCoherent
    CrashConsistent
PROPERTIES
    OthersKept
CHECK_DEADLOCK FALSE
