CONSTANTS
    Readers = {r1, r2, r3}
    Droppers = {d1}
    NChunks = 1
    MaxFailures = 1
    WriterPriority = TRUE
    None = None
SPECIFICATION FairSpec
INVARIANTS
    OneFetcherPerChunk
    WaiterHasOwner
PROPERTIES
    ImplementsReadThrough
    ReadsTerminate
    InvalidationsTerminate
