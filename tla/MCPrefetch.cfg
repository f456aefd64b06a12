CONSTANTS
    Self = n0
    Peers = {n1, n2}
    Corrupt = {n2}
    Requests = {r1}
    MaxQueryPeers = 2
    MaxCopies = 2
    FailLimit = 1
SPECIFICATION Spec
INVARIANTS
    OnlyVerifiedIsStored
PROPERTIES
    FindableIsFetched
