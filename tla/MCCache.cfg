CONSTANTS
    Readers = {r1, r2}
    Droppers = {d1, d2}
    NChunks = 2
    MaxFailures = 1
    WriterPriority = FALSE
    None = None
SPECIFICATION Spec
SYMMETRY ThreadSymmetry
INVARIANTS
    TypeOK
    PresentMeansFetched
    ReadReturnsImage
PROPERTIES
    PunchIsSafe
