CONSTANTS
    Callers = {c1, c2}
    Chunks = {k1, k2}
    MaxSessions = 3
    MaxSize = 1
    MinIdle = 1
    MaxInflight = 1
    MaxFailures = 2
    MaxRequests = 3
    None = None
    Error = Error
    Mixed = Mixed
SPECIFICATION Spec
SYMMETRY TaskSymmetry
CHECK_DEADLOCK FALSE
INVARIANTS
    OwnResponse
    TableIsExact
    InflightIsExact
    PoolBound
