CONSTANTS
    ChunkSize = 2
    ImageSize = 5
    FileSize = 3
    FileChunk = 2
    MaxOffset = 4
    QueueSize = 1
    StoreBatch = 2
    MaxReads = 2
SPECIFICATION Spec
INVARIANTS
    TypeOK
    ReadReturnsFile
    QueueIsStored
    SegmentsTile
PROPERTIES
    FindsPrefix
    DropEnds
