SPECIFICATION Spec
CONSTANTS
    RingInputs <- SomeRings
    RelationInputs <- SomeRelations
    WayInputs <- SomeWays
    BlockInputs <- SomeBlocks
    FileInputs <- SomeFiles
    DocumentInputs <- SomeDocuments
INVARIANTS
    RingsRunAlongMembers
    HolesAreCut
    AreasAsDocumented
    PbfIsRead
    ChangesArrive
