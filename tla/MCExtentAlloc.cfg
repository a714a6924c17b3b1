SPECIFICATION Spec
CONSTANTS
    LS_ALIGN = 2
    LS_SUPER_SIZE = 2
    Requests = {1, 2, 4, 5}
    FlCap0 = 1
    MaxEnd = 16
INVARIANTS
    TypeOK
    FreeListCanonical
    SpacePartitioned
    OwnersDisjoint
    EmptyWhenDrained
    Aligned
CHECK_DEADLOCK FALSE
