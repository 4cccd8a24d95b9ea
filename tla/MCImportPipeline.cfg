SPECIFICATION MCSpec
CONSTANTS
    NumNodeThreads = 2
    NumWayThreads = 3
    QueueSize = 2
    NodeBufferSize = 2
    WayBufferSize = 1
    Stagger = 0
    BlobSize = 2
    Files <- AllFiles
    Modes <- AllModes
INVARIANTS
    TypeOK
    PhasesInOrder
    InsertedOnce
    LoadComplete
    OffsetsSafe
