SPECIFICATION MCFairSpec
CONSTANTS
    Nodes = {1, 2, 4}
    NumShards = 2
    Chunk = 2
    Limits = {3, 5}
    Faults = {"kill", "power"}
    MaxCrashes = 2
INVARIANTS
    TypeOK
    NoNodeDropped
    
PROPERTIES
    ImportEnds
