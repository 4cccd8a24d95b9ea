SPECIFICATION FairSpec
CONSTANTS
    way = way
    multi = multi
    relation = relation
    Nodes = {0, 1}
    Ways = {way}
    Multis = {multi}
    Relations = {relation}
    Uses <- UsesOf
    Threads = {1, 2}
    MaxCrashes = 1
INVARIANTS
    TypeOK
    ResumePointHolds
    LoadedOnce
    AirportsOnce
    AutovacuumBack
PROPERTIES
    ImportDone
