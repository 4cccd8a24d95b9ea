SPECIFICATION FairSpec
CONSTANTS
    MaxSeq = 3
    Files <- Mixed
    Room = 2
    NodeRoom = 2
    MaxFaults = 2
    MaxCrashes = 1
    MaxSignals = 1
INVARIANTS
    TypeOK
    NoChangeSkipped
    RepeatedByFailure
PROPERTIES
    InTurn
    CatchesUp
