CONSTANTS
    NumChunks = 1
    Self = n1
    Others = {n2}
    Control = {w1}
    Sync = Sync
    Loop = Loop
    TTL = 3
    MaxOwners = 1
    RegisterBatch = 1
    SyncBatch = 1
    RepairBatch = 1
    MaxFailures = 1
SPECIFICATION FairSpec
INVARIANTS
    TrackedNeverLapses
    DeletedIsUnlisted
PROPERTIES
    StoredGetsListed
