SPECIFICATION Spec
CONSTANTS
    LS_ALIGN = 2
    LS_SUPER_SIZE = 2
    LS_MIN_EXTENT = 2
    LS_MAX_EXTENTS = 3
    Keys = {k1}
    Procs = {}
    MaxOpens = 2
    Settings <- EmptySettings
INVARIANTS
    EmptyReopens
CHECK_DEADLOCK FALSE
