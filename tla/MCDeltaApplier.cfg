SPECIFICATION MCSpec
CONSTANTS
    Nodes <- AllNodes
    Ways <- AllWays
    Relations <- AllRelations
    Contents <- AllContents
    Imported <- AllImported
    AreasByTags <- AllAreas
    Assembled <- AllAssembled
    AlphaNum <- Plain
    Rooms = {1, 2}
    NodeRoom = 2
    MaxChanges = 4
    NoContent = NoContent
INVARIANTS
    TypeOK
    RoadsFollowRelations
    TagsMirror
    RowsMirror
    WaysDrawnFromImport
