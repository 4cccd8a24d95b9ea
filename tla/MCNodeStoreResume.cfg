SPECIFICATION MCSpec
CONSTANTS
    Nodes = {1, 2, 4}
    NumShards = 2
    Chunk = 2
    Limits = {3, 5}
    Faults = {"kill"}
    MaxCrashes = 1
INVARIANTS
    ResumedMergeComplete
