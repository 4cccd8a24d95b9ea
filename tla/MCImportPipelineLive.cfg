SPECIFICATION MCFairSpec
CONSTANTS
    NumNodeThreads = 2
    NumWayThreads = 2
    QueueSize = 1
    NodeBufferSize = 1
    WayBufferSize = 1
    Stagger = 1
    BlobSize = 3
    Files <- LiveFiles
    Modes <- AllModes
PROPERTIES
    Completes
    ImplementsPhasedLoad
