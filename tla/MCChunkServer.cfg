CONSTANTS
    MaxConnections = 1
    MaxPending = 1
    MaxRequests = 1
SPECIFICATION Spec
INVARIANTS
    AnsweredBeforeRelease
PROPERTIES
    RunEnds
    PendingIsServed
