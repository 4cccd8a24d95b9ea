SPECIFICATION MCSpec
CONSTANTS
    Entities <- All
    Kind <- AllKinds
    Tagged <- WithTags
    Kept <- WithGoodTags
    Suspects <- None
    Earlier <- None
    NodeRoom = 2
    Room = 2
    MaxFaults = 0
INVARIANTS
    RelationTagsInPlace
