SPECIFICATION MCFairSpec
CONSTANTS
    Entities <- All
    Kind <- AllKinds
    Tagged <- WithTags
    Kept <- WithGoodTags
    Suspects <- MaybeRefused
    Earlier <- LeftBehind
    NodeRoom = 2
    Room = 2
    MaxFaults = 2
INVARIANTS
    TypeOK
    TagsConserved
    RowsComplete
PROPERTIES
    WriterEnds
