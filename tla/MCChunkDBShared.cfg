CONSTANTS
    Chunks = {c1, c2}
    Procs = {m, g}
    GcProcs = {g}
    Faulty = {g}
    Failing = {g}
    Callers = 1
    Capacity = 1
    HighMark = 0
    LowMark = 0
    GcBatch = 1
    AddBatch = 1
    AccessBatch = 1
    MinInterval = 1
    ExpireAfter = 0
    MaxTime = 2
SPECIFICATION Spec
SYMMETRY ChunkSymmetry
INVARIANTS
    AccessIsIndexed
    Collectable
    CleanStopLosesNothing
