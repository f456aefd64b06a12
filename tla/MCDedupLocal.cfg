CONSTANTS
    Readers = {r1}
    NChunks = 2
    Digests = {"a", "b", "zero"}
    Content <- Distinct
    Zero = "zero"
    None = None
    Cuts = {}
    Remote = FALSE
    Client = FALSE
    PeerHas = {}
    Partial = {1}
    QueueLen = 1
    Collects = TRUE
    MaxFailures = 1
    MaxRestarts = 1
SPECIFICATION FairSpec
INVARIANTS
    IndexIsTruthful
    NothingIsLost
PROPERTIES
    DedupCompletes
