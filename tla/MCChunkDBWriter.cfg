CONSTANTS
    Chunks = {c1, c2}
    Procs = {m}
    GcProcs = {}
    Faulty = {}
    Failing = {m}
    Callers = 2
    Capacity = 1
    HighMark = 1
    LowMark = 1
    GcBatch = 1
    AddBatch = 2
    AccessBatch = 1
    MinInterval = 1
    ExpireAfter = 1
    MaxTime = 2
SPECIFICATION FairSpec
INVARIANTS
    RegisteredIsStored
PROPERTIES
    AdditionsAnswered
