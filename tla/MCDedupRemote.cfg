CONSTANTS
    Readers = {r1}
    NChunks = 2
    Digests = {"a", "b", "zero"}
    Content <- Distinct
    Zero = "zero"
    None = None
    Cuts <- CutLast
    Remote = TRUE
    Client = TRUE
    PeerHas = {"a"}
    Partial = {1}
    QueueLen = 1
    Collects = TRUE
    MaxFailures = 1
    MaxRestarts = 1
SPECIFICATION Spec
INVARIANTS
    ReadReturnsImage
PROPERTIES
    ImplementsImageStore
