SPECIFICATION FairSpec
CONSTANTS
    Workers = {w1, w2}
    Callers = {c1, c2}
    Reqs = {r1, r2, r3}
    NoReq = NoReq
    Errors = {"EIO"}
INVARIANTS
    TypeOK
    NoUseAfterFree
    FreedOnlyWhenDone
    RunOnce
    InflightExact
PROPERTIES
    RequestsComplete
    WaitsReturn
    CloseReturns
CHECK_DEADLOCK FALSE
