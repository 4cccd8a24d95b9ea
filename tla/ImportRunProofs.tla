--------------------------- MODULE ImportRunProofs ---------------------------
(***************************************************************************)
(* What an import guarantees over any number of runs, for every file, any  *)
(* number of crashes and any -t: TypeOK, ResumePointHolds, LoadedOnce,     *)
(* AirportsOnce and AutovacuumBack of module ImportRun.                    *)
(***************************************************************************)
EXTENDS ImportRun, TLAPS

------------------------------------------------------------------------------
(* Control: where a run is, given what it was asked for and what is known. *)

(* The rank of the phase that has been reached *)
Reach == IF pc \in PhaseNames THEN Rank(pc)
         ELSE IF pc = "clearAirports" THEN 7
         ELSE IF pc \in {"switchOn", "done"} THEN 8
         ELSE Rank(known)

SchemaStages == {"dropOsm", "createOsm", "dropAirports", "createAirports"}
Early == SchemaStages \cup {"switchOff", "prepare"}

(* A run that has not come to its phase was asked for what is known, and   *)
(* it makes the tables only to begin at the nodes; later it has never left *)
(* the phases behind the one it was asked for.                             *)
Control ==
    /\ pc \in Early => known = entry
    /\ pc \in SchemaStages => entry = "nodes"
    /\ pc \in LoadPhases => entry \in LoadPhases
    /\ pc = "indexing" => entry \in LoadPhases \cup {"indexing"}
    /\ pc = "nodes" => threads = writers
    /\ Reach >= Rank(known)

------------------------------------------------------------------------------
(* Data *)

NodesDone == \A n \in Nodes : InTables(n)
Found == Nodes \subseteq flat \cup UNION {shards[i] : i \in {j \in ShardIds : j < writers}}
FlatDone == flat = Nodes \/ hist.fewer
WaysDone == \A w \in Ways : InTables(w)
RelationsDone == \A r \in Multis \cup Relations : InTables(r)
AirportsDone == AirportsWhole \/ hist.kept

(* What is there when a phase has been reached *)
Reached ==
    /\ Reach >= 2 => NodesDone /\ Found
    /\ Reach >= 3 => FlatDone
    /\ Reach >= 5 => WaysDone
    /\ Reach >= 6 => RelationsDone
    /\ Reach >= 7 => gist
    /\ Reach >= 8 => AirportsDone

(* A tag table is there only with all of the tables of rows: initializeSchema *)
(* drops it before them and creates it after them.  So a node is committed *)
(* on half a schema, or a row given up, only to die for want of the tags.  *)
TagTables == {"node_tags", "way_tags", "area_tags", "relation_tags"}
SchemaInTurn == TagTables \cap tables # {} => RowTables \subseteq tables

WorkOf(p) == IF p = "nodes" THEN Nodes
             ELSE IF p = "ways" THEN Ways
             ELSE IF p = "relations" THEN Multis \cup Relations ELSE {}

(* Within a phase: what is done, what is under way, what is left. *)
Progress ==
    /\ todo \subseteq WorkOf(pc) /\ owing \subseteq WorkOf(pc)
    /\ \A e \in WorkOf(pc) \ todo :
          /\ rows[e] # "absent" \/ (e \in owing /\ TagsOf(e) \notin tables)
          /\ e \notin owing => tags[e] >= 1
          /\ e \in Nodes => e \in shards[e % threads]

(* A geometry is short only if some merge left shards out. *)
ShortOnlyIfFewer == \A e \in Entities : rows[e] = "short" => hist.fewer

(* A load puts the parts of the airports data there in turn, the schema    *)
(* takes them away with the countries last; none is there before a load,   *)
(* unless history knows of it.                                             *)
FirstParts(k) == [i \in AirportSteps |-> IF i <= k THEN 1 ELSE 0]
AirportsInTurn ==
    /\ \A i \in AirportSteps : airports[i] <= 1
    /\ airports[1] = 0 => airports = NoAirports
    /\ airports[1] # 0 => "countries" \in tables
    /\ loaded > 0 => airports = FirstParts(loaded)
    /\ pc # "airports" => loaded = 0
    /\ (\/ pc = "createAirports"
        \/ entry \in LoadPhases /\ pc \in LoadPhases \cup {"switchOff", "prepare", "indexing"}
        \/ pc = "airports" /\ loaded = 0)
       /\ ~hist.kept => airports = NoAirports

(* What the run will write has no tags yet, or history knows that it has. *)
Coming ==
    IF pc \in Early \ {"dropOsm"} THEN Written(entry) \ Emptied(entry)
    ELSE IF pc = "nodes" THEN todo \cup owing \cup (Entities \ Nodes)
    ELSE IF pc = "merge" THEN Entities \ Nodes
    ELSE IF pc = "ways" THEN todo \cup owing \cup Multis \cup Relations
    ELSE IF pc = "relations" THEN todo \cup owing ELSE {}
TagsInTurn ==
    /\ \A e \in Coming : tags[e] = 0 \/ e \in hist.doubled
    /\ \A e \in Entities : tags[e] <= 1 \/ e \in hist.doubled
    /\ todo \cap owing = {}

RunInv == /\ TypeOK /\ Control /\ SchemaInTurn /\ Progress /\ ShortOnlyIfFewer
          /\ AirportsInTurn /\ TagsInTurn
          /\ Reached /\ AutovacuumBack

------------------------------------------------------------------------------
(* The schema *)

Dropping == \/ DropTables("dropOsm", OsmDown, "createOsm")
            \/ DropTables("dropAirports", AirportsDown, "createAirports")
Creating == \/ CreateTables("createOsm", OsmUp, "dropAirports")
            \/ CreateTables("createAirports", AirportsUp, "switchOff")

LEMMA SchemaSteps == InitializeSchema <=> Dropping \/ Creating
  BY DEF InitializeSchema, Dropping, Creating

(* The last of an order comes after all the others. *)
LEMMA NextLast ==
    ASSUME NEW order, NEW S, NEW t \in NextIn(order, S)
    PROVE  \E j \in DOMAIN order : t = order[j] /\ t \in S /\ \A k \in 1 .. j - 1 : order[k] \notin S
  BY DEF NextIn

LEMMA NextNone ==
    ASSUME NEW order, DOMAIN order \in {1 .. 7, 1 .. 8}, NEW S, NextIn(order, S) = {}
    PROVE  \A j \in DOMAIN order : order[j] \notin S
  <1>0. \A j \in DOMAIN order :
           (\A k \in 1 .. j - 1 : order[k] \notin S) => order[j] \notin S
    BY DEF NextIn
  <1>1. order[1] \notin S
    BY <1>0
  <1>2. order[2] \notin S
    BY <1>0, <1>1
  <1>3. order[3] \notin S
    BY <1>0, <1>1, <1>2
  <1>4. order[4] \notin S
    BY <1>0, <1>1, <1>2, <1>3
  <1>5. order[5] \notin S
    BY <1>0, <1>1, <1>2, <1>3, <1>4
  <1>6. order[6] \notin S
    BY <1>0, <1>1, <1>2, <1>3, <1>4, <1>5
  <1>7. order[7] \notin S
    BY <1>0, <1>1, <1>2, <1>3, <1>4, <1>5, <1>6
  <1>8. 8 \in DOMAIN order => order[8] \notin S
    BY <1>0, <1>1, <1>2, <1>3, <1>4, <1>5, <1>6, <1>7
  <1>9. QED
    BY <1>1, <1>2, <1>3, <1>4, <1>5, <1>6, <1>7, <1>8

LEMMA TableTypes ==
    \A e \in Entities : TableOf(e) \in RowTables /\ TagsOf(e) \in TagTables
  BY EntityAssumption DEF Entities, TableOf, TagsOf, RowTables, TagTables

(* What a step of the schema does to what is not a table *)
LEMMA DropEffect ==
    ASSUME TypeOK, Dropping
    PROVE  /\ pc \in {"dropOsm", "dropAirports"}
           /\ pc' \in SchemaStages
           /\ pc = "dropAirports" => pc' # "createOsm"
           /\ tables' \subseteq tables
           /\ \A e \in Entities : rows'[e] \in {rows[e], "absent"} /\ tags'[e] \in {tags[e], 0}
           /\ \A i \in AirportSteps : airports'[i] \in {airports[i], 0}
           /\ gist' \in BOOLEAN
           /\ hist'.doubled = {e \in hist.doubled : tags'[e] > 0}
           /\ hist'.kept = (hist.kept /\ airports' # NoAirports)
           /\ hist'.fewer = (hist.fewer /\ \E e \in Entities : rows'[e] # "absent")
           /\ hist'.onFailed = hist.onFailed
           /\ UNCHANGED <<entry, threads, todo, owing, loaded, known, autovacuum, shards, flat,
                          writers, crashes>>
  <1>1. CASE DropTables("dropOsm", OsmDown, "createOsm")
    BY <1>1 DEF DropTables, TypeOK, SchemaStages, fileVars
  <1>2. CASE DropTables("dropAirports", AirportsDown, "createAirports")
    BY <1>2 DEF DropTables, TypeOK, SchemaStages, fileVars
  <1>3. QED
    BY <1>1, <1>2 DEF Dropping

LEMMA CreateEffect ==
    ASSUME TypeOK, Creating
    PROVE  /\ pc \in {"createOsm", "createAirports"}
           /\ pc' \in SchemaStages \cup {"switchOff"}
           /\ pc = "createOsm" => pc' \in {"createOsm", "dropAirports"}
           /\ pc = "createAirports" => pc' \in {"createAirports", "switchOff"}
           /\ tables \subseteq tables' /\ tables' \subseteq Tables
           /\ UNCHANGED <<entry, threads, todo, owing, loaded, known, rows, tags, gist, airports,
                          autovacuum, shards, flat, writers, crashes, hist>>
  <1>1. CASE CreateTables("createOsm", OsmUp, "dropAirports")
    <2>1. NextIn(OsmUp, Tables \ tables) \subseteq Tables
      BY NextLast
    <2>2. QED
      BY <1>1, <2>1 DEF CreateTables, TypeOK, SchemaStages, fileVars
  <1>2. CASE CreateTables("createAirports", AirportsUp, "switchOff")
    <2>1. NextIn(AirportsUp, Tables \ tables) \subseteq Tables
      BY NextLast
    <2>2. QED
      BY <1>2, <2>1 DEF CreateTables, TypeOK, SchemaStages, fileVars
  <1>3. QED
    BY <1>1, <1>2 DEF Creating

LEMMA SchemaInit == Init => SchemaInTurn
  BY DEF Init, SchemaInTurn

LEMMA SchemaStep == TypeOK /\ SchemaInTurn /\ [Next]_vars => SchemaInTurn'
  <1> SUFFICES ASSUME TypeOK, SchemaInTurn, [Next]_vars, TagTables \cap tables' # {}
               PROVE  RowTables \subseteq tables'
    BY DEF SchemaInTurn
  <1>1. CASE DropTables("dropOsm", OsmDown, "createOsm")
    <2>1. tables' = tables \ NextIn(OsmDown, tables) /\ RowTables \subseteq tables
      BY <1>1 DEF DropTables, SchemaInTurn
    <2> SUFFICES ASSUME NEW t \in RowTables, t \in NextIn(OsmDown, tables) PROVE FALSE
      BY <2>1
    <2>2. PICK j \in DOMAIN OsmDown :
             t = OsmDown[j] /\ \A k \in 1 .. j - 1 : OsmDown[k] \notin tables
      BY NextLast
    <2>3. j \in 1 .. 8
      BY DEF OsmDown
    <2>4. j >= 5
      BY <2>2, <2>3 DEF OsmDown, RowTables
    <2>5. OsmDown[1] \notin tables /\ OsmDown[2] \notin tables
          /\ OsmDown[3] \notin tables /\ OsmDown[4] \notin tables
      BY <2>2, <2>3, <2>4
    <2>6. TagTables \cap tables = {}
      BY <2>5 DEF OsmDown, TagTables
    <2>7. QED
      BY <2>1, <2>6
  <1>2. CASE DropTables("dropAirports", AirportsDown, "createAirports")
    <2>1. tables' = tables \ NextIn(AirportsDown, tables) /\ RowTables \subseteq tables
      BY <1>2 DEF DropTables, SchemaInTurn
    <2>2. \A t \in NextIn(AirportsDown, tables) : t \notin RowTables
      <3> SUFFICES ASSUME NEW t \in NextIn(AirportsDown, tables) PROVE t \notin RowTables
        OBVIOUS
      <3>1. PICK j \in DOMAIN AirportsDown : t = AirportsDown[j]
        BY NextLast
      <3>2. QED
        BY <3>1 DEF AirportsDown, RowTables
    <2>3. QED
      BY <2>1, <2>2
  <1>3. CASE CreateTables("createOsm", OsmUp, "dropAirports")
    <2>1. tables' = tables \cup NextIn(OsmUp, Tables \ tables)
      BY <1>3 DEF CreateTables
    <2>2. CASE TagTables \cap tables # {}
      BY <2>1, <2>2 DEF SchemaInTurn
    <2>3. CASE TagTables \cap tables = {}
      <3>1. PICK t \in NextIn(OsmUp, Tables \ tables) : t \in TagTables
        BY <2>1, <2>3
      <3>2. PICK j \in DOMAIN OsmUp :
               t = OsmUp[j] /\ \A k \in 1 .. j - 1 : OsmUp[k] \notin Tables \ tables
        BY <3>1, NextLast
      <3>3. j \in 1 .. 8
        BY DEF OsmUp
      <3>4. j >= 5
        BY <3>1, <3>2, <3>3 DEF OsmUp, TagTables
      <3>5. OsmUp[1] \in tables /\ OsmUp[2] \in tables /\ OsmUp[3] \in tables /\ OsmUp[4] \in tables
        BY <3>2, <3>3, <3>4 DEF Tables
      <3>6. QED
        BY <2>1, <3>5 DEF OsmUp, RowTables
    <2>4. QED
      BY <2>2, <2>3
  <1>4. CASE CreateTables("createAirports", AirportsUp, "switchOff")
    <2>1. tables' = tables \cup NextIn(AirportsUp, Tables \ tables)
      BY <1>4 DEF CreateTables
    <2>2. \A t \in NextIn(AirportsUp, Tables \ tables) : t \notin TagTables
      <3> SUFFICES ASSUME NEW t \in NextIn(AirportsUp, Tables \ tables) PROVE t \notin TagTables
        OBVIOUS
      <3>1. PICK j \in DOMAIN AirportsUp : t = AirportsUp[j]
        BY NextLast
      <3>2. QED
        BY <3>1 DEF AirportsUp, TagTables
    <2>3. QED
      BY <2>1, <2>2 DEF SchemaInTurn
  <1>5. CASE tables' = tables
    BY <1>5 DEF SchemaInTurn
  <1>6. QED
    <2>1. CASE InitializeSchema
      BY <1>1, <1>2, <1>3, <1>4, <2>1 DEF InitializeSchema
    <2>2. CASE ~InitializeSchema
      <3>1. tables' = tables
        BY <2>2 DEF Next, RunStep, vars, runVars, tableVars, Start, StartAnew, Refresh, SwitchOff,
          PrepareNodes, PrepareLoad, PrepareRest, ReindexDies, StoreNode, CommitRow, CommitTags,
          NodeCollides, EndNodes, EndWays, EndRelations, EndPhase, Merge, CreateGistIndexes,
          ClearAirports, DownloadFails, LoadAirports, AirportsCollide, TableMissing, Vacuum,
          SwitchOn, Crash
      <3>2. QED
        BY <1>5, <3>1
    <2>3. QED
      BY <2>1, <2>2

------------------------------------------------------------------------------
(* Types *)

LEMMA RankType == \A p \in PhaseNames : Rank(p) \in 1 .. 8
  BY DEF PhaseNames, Rank

(* A node thread has a shard of its own. *)
LEMMA ShardOf == \A n \in Nat, t \in Threads : n % t \in ShardIds /\ n % t < t
  BY ThreadAssumption DEF ShardIds

HistType == [doubled : SUBSET Entities, fewer : BOOLEAN, kept : BOOLEAN, onFailed : BOOLEAN]

LEMMA TypeInit == Init => TypeOK
  <1> SUFFICES ASSUME Init PROVE TypeOK
    OBVIOUS
  <1>1. hist \in HistType
    BY DEF Init, HistType
  <1>2. autovacuum \in BOOLEAN /\ tables \subseteq Tables /\ gist \in BOOLEAN
    BY DEF Init
  <1>3. crashes \in 0 .. MaxCrashes
    BY ThreadAssumption DEF Init
  <1>4. airports \in [AirportSteps -> 0 .. 2]
    BY DEF Init, NoAirports, AirportSteps
  <1>5. QED
    BY <1>1, <1>2, <1>3, <1>4 DEF Init, TypeOK, PhaseNames, HistType

(* What history notes, and what the server is set to *)
LEMMA HistTyped ==
    ASSUME hist \in HistType, autovacuum \in BOOLEAN,
           (\E p \in PhaseNames : Start(p)) \/ Merge \/ SwitchOn \/ SwitchOff
    PROVE  hist' \in HistType /\ autovacuum' \in BOOLEAN
  <1>1. CASE \E p \in PhaseNames : Start(p)
    <2> PICK p \in PhaseNames : Start(p)
      BY <1>1
    <2>1. hist' \in HistType
      BY DEF HistType, Start, Written, Emptied, LoadPhases, Entities
    <2>2. QED
      BY <2>1 DEF Start
  <1>2. CASE Merge
    <2>1. hist' \in HistType
      BY <1>2 DEF HistType, Merge
    <2>2. QED
      BY <1>2, <2>1 DEF Merge
  <1>3. CASE SwitchOn
    <2>1. hist' \in HistType
      BY <1>3 DEF HistType, SwitchOn
    <2>2. autovacuum' \in BOOLEAN
      BY <1>3 DEF SwitchOn
    <2>3. QED
      BY <2>1, <2>2
  <1>4. CASE SwitchOff
    BY <1>4 DEF SwitchOff
  <1>5. QED
    BY <1>1, <1>2, <1>3, <1>4

LEMMA TypeStep == TypeOK /\ [Next]_vars => TypeOK'
  <1> SUFFICES ASSUME TypeOK, [Next]_vars PROVE TypeOK'
    OBVIOUS
  <1> USE DEF TypeOK, PhaseNames
  <1>0. hist \in HistType
    BY DEF HistType
  <1>1. CASE \E p \in PhaseNames : Start(p)
    <2>1. hist' \in HistType
      BY <1>0, <1>1, HistTyped
    <2> PICK p \in PhaseNames : Start(p)
      BY <1>1
    <2>2. pc' = "switchOff" /\ entry' \in PhaseNames /\ known' \in PhaseNames
      BY DEF Start
    <2>3. threads' \in Threads
      BY DEF Start
    <2>4. UNCHANGED <<todo, owing, loaded, tableVars, autovacuum, fileVars, crashes>>
      BY DEF Start
    <2>5. QED
      BY <2>1, <2>2, <2>3, <2>4 DEF tableVars, fileVars, HistType
  <1>2. CASE StartAnew
    BY <1>2 DEF StartAnew, tableVars, fileVars
  <1>3. CASE Refresh
    BY <1>3 DEF Refresh, runVars, tableVars, fileVars
  <1>4. CASE Dropping
    <2>1. /\ rows' \in [Entities -> {"absent", "short", "whole"}]
          /\ tags' \in [Entities -> 0 .. 2]
          /\ airports' \in [AirportSteps -> 0 .. 2]
      BY <1>4 DEF Dropping, DropTables, AirportSteps
    <2>2. hist' \in HistType
      <3>1. hist' = [doubled |-> hist'.doubled, fewer |-> hist'.fewer, kept |-> hist'.kept,
                     onFailed |-> hist'.onFailed]
        BY <1>0, <1>4 DEF Dropping, DropTables, HistType
      <3>2. QED
        BY <1>0, <1>4, <3>1, DropEffect DEF HistType
    <2>3. QED
      BY <1>4, <2>1, <2>2, DropEffect DEF HistType, SchemaStages
  <1>5. CASE Creating
    BY <1>5, CreateEffect DEF SchemaStages
  <1>6. CASE SwitchOff
    <2>1. autovacuum' \in BOOLEAN
      BY <1>0, <1>6, HistTyped
    <2>2. QED
      BY <1>6, <2>1 DEF SwitchOff, tableVars, fileVars
  <1>7. CASE PrepareNodes
    BY <1>7 DEF PrepareNodes, tableVars, Entities
  <1>8. CASE PrepareLoad
    BY <1>8 DEF PrepareLoad, fileVars, Entities
  <1>9. CASE PrepareRest
    BY <1>9 DEF PrepareRest, tableVars, fileVars
  <1>10. CASE ReindexDies \/ NodeCollides \/ AirportsCollide \/ TableMissing
    BY <1>10 DEF ReindexDies, NodeCollides, AirportsCollide, TableMissing, Dies, tableVars, fileVars
  <1>11. CASE \E n \in Nodes : StoreNode(n)
    <2> PICK n \in Nodes : StoreNode(n)
      BY <1>11
    <2>1. shards' \in [ShardIds -> SUBSET Nodes]
      BY DEF StoreNode
    <2>2. QED
      BY <2>1 DEF StoreNode, runVars, tableVars
  <1>12. CASE \E e \in Entities : CommitRow(e)
    BY <1>12 DEF CommitRow, fileVars
  <1>13. CASE \E e \in Entities : CommitTags(e)
    BY <1>13 DEF CommitTags, fileVars, Twice
  <1>14. CASE EndNodes \/ EndWays \/ EndRelations
    BY <1>14 DEF EndNodes, EndWays, EndRelations, EndPhase, tableVars, fileVars, Entities
  <1>15. CASE Merge
    <2>1. shards' \in [ShardIds -> SUBSET Nodes]
      BY <1>15 DEF Merge
    <2>2. flat' \subseteq Nodes
      BY <1>15 DEF Merge, Merged
    <2>3. hist' \in HistType
      BY <1>0, <1>15, HistTyped
    <2>4. QED
      BY <1>15, <2>1, <2>2, <2>3 DEF Merge, tableVars, Entities, HistType
  <1>16. CASE CreateGistIndexes
    BY <1>16 DEF CreateGistIndexes, fileVars
  <1>17. CASE ClearAirports \/ LoadAirports
    BY <1>17 DEF ClearAirports, LoadAirports, NoAirports, AirportSteps, Twice, fileVars
  <1>18. CASE DownloadFails \/ Vacuum
    BY <1>18 DEF DownloadFails, Vacuum, tableVars, fileVars
  <1>19. CASE SwitchOn
    <2>1. hist' \in HistType /\ autovacuum' \in BOOLEAN
      BY <1>0, <1>19, HistTyped
    <2>2. QED
      BY <1>19, <2>1 DEF SwitchOn, tableVars, fileVars, HistType
  <1>20. CASE Crash
    BY <1>20, ThreadAssumption DEF Crash, Dies, tableVars, fileVars
  <1>21. CASE UNCHANGED vars
    BY <1>21 DEF vars, runVars, tableVars, fileVars
  <1>22. QED
    BY <1>1, <1>2, <1>3, <1>4, <1>5, <1>6, <1>7, <1>8, <1>9, <1>10, <1>11, <1>12, <1>13, <1>14,
       <1>15, <1>16, <1>17, <1>18, <1>19, <1>20, <1>21, SchemaSteps DEF Next, RunStep

(* The state is well typed in every run, for any file and any -t. *)
THEOREM TypeCorrect == Spec => []TypeOK
  BY TypeInit, TypeStep, PTL DEF Spec

------------------------------------------------------------------------------
(* Control *)

LEMMA ControlInit == Init => Control
  BY DEF Init, Control, Reach, Early, SchemaStages, LoadPhases, PhaseNames, Rank

LEMMA ControlStep == TypeOK /\ Control /\ [Next]_vars => Control'
  <1> SUFFICES ASSUME TypeOK, Control, [Next]_vars PROVE Control'
    OBVIOUS
  <1>0. pc \in PhaseNames \cup {"off", "dropOsm", "createOsm", "dropAirports", "createAirports",
                             "switchOff", "prepare", "clearAirports", "switchOn", "done"}
        /\ entry \in PhaseNames /\ known \in PhaseNames
    BY DEF TypeOK
  <1> USE DEF Control, Reach, Early, SchemaStages, LoadPhases, PhaseNames
  <1>1. CASE \E p \in PhaseNames : Start(p)
    BY <1>1, RankType DEF Start
  <1>2. CASE StartAnew
    BY <1>2, RankType DEF StartAnew
  <1>3. CASE Refresh
    BY <1>0, <1>3, RankType DEF Refresh, runVars, fileVars
  <1>4. CASE Dropping \/ Creating
    BY <1>0, <1>4, RankType, DropEffect, CreateEffect DEF SchemaStages
  <1>16. CASE SwitchOff
    BY <1>0, <1>16, RankType DEF SwitchOff, fileVars, SchemaStages
  <1>5. CASE PrepareNodes \/ PrepareLoad \/ PrepareRest
    BY <1>0, <1>5, RankType DEF PrepareNodes, PrepareLoad, PrepareRest, fileVars, Rank
  <1>6. CASE ReindexDies \/ NodeCollides \/ AirportsCollide \/ TableMissing \/ Crash
    BY <1>0, <1>6, RankType DEF ReindexDies, NodeCollides, AirportsCollide, TableMissing, Crash, Dies, fileVars
  <1>7. CASE \E n \in Nodes : StoreNode(n)
    BY <1>0, <1>7 DEF StoreNode, runVars
  <1>8. CASE \E e \in Entities : CommitRow(e) \/ CommitTags(e)
    BY <1>0, <1>8 DEF CommitRow, CommitTags, fileVars
  <1>9. CASE EndNodes \/ Merge \/ EndWays \/ EndRelations
    BY <1>0, <1>9 DEF EndNodes, EndWays, EndRelations, EndPhase, Merge, fileVars, Rank
  <1>10. CASE CreateGistIndexes \/ ClearAirports
    BY <1>0, <1>10, RankType DEF CreateGistIndexes, ClearAirports, fileVars, Rank
  <1>11. CASE DownloadFails \/ Vacuum
    BY <1>0, <1>11, RankType DEF DownloadFails, Vacuum, fileVars, Rank
  <1>12. CASE SwitchOn
    <2>1. pc' = "done" /\ known' = "vacuum"
      BY <1>12 DEF SwitchOn
    <2>2. QED
      BY <2>1 DEF Rank
  <1>13. CASE LoadAirports
    <2>1. pc = "airports" /\ pc' \in {"airports", "vacuum"} /\ UNCHANGED known
      BY <1>13 DEF LoadAirports
    <2>2. QED
      BY <1>0, <2>1 DEF Rank
  <1>14. CASE UNCHANGED vars
    BY <1>0, <1>14 DEF vars, runVars, fileVars
  <1>15. QED
    BY <1>1, <1>2, <1>3, <1>4, <1>5, <1>6, <1>7, <1>8, <1>9, <1>10, <1>11, <1>13, <1>12, <1>14, <1>16, SchemaSteps
    DEF Next, RunStep

------------------------------------------------------------------------------
(* The airports data *)

LEMMA NoneFirst == NoAirports = FirstParts(0)
  BY DEF NoAirports, FirstParts, AirportSteps

LEMMA AirportsInit == Init => AirportsInTurn
  BY DEF Init, AirportsInTurn, LoadPhases, NoAirports, AirportSteps

(* The parts come in turn: the next one joins those that are there. *)
LEMMA NextPart ==
    ASSUME AirportsInTurn, loaded \in 0 .. 7, LoadAirports
    PROVE  airports' = FirstParts(loaded + 1)
  <1>3. loaded = 0 => airports[1] = 0
    BY DEF LoadAirports, Unkeyed
  <1>4. airports = FirstParts(loaded)
    BY <1>3, NoneFirst DEF AirportsInTurn
  <1>5. airports[loaded + 1] = 0
    BY <1>4 DEF FirstParts, AirportSteps
  <1>6. airports' = [airports EXCEPT ![loaded + 1] = 1]
    <2>1. airports' = [airports EXCEPT ![loaded + 1] = Twice(airports[loaded + 1])]
      BY DEF LoadAirports
    <2>2. QED
      BY <1>5, <2>1 DEF Twice
  <1>7. airports = [i \in 1 .. 8 |-> IF i <= loaded THEN 1 ELSE 0]
    BY <1>4 DEF FirstParts, AirportSteps
  <1>8. airports' = [i \in 1 .. 8 |-> IF i <= loaded + 1 THEN 1 ELSE 0]
    <2>1. airports' = [i \in 1 .. 8 |-> IF i = loaded + 1 THEN 1 ELSE airports[i]]
      BY <1>6, <1>7
    <2>2. \A i \in 1 .. 8 : (IF i = loaded + 1 THEN 1 ELSE airports[i])
                               = (IF i <= loaded + 1 THEN 1 ELSE 0)
      BY <1>7
    <2>3. QED
      BY <2>1, <2>2, Zenon
  <1>9. QED
    BY <1>8 DEF FirstParts, AirportSteps

(* The countries go last, and then nothing is left. *)
LEMMA DropAirports ==
    ASSUME TypeOK, Control, AirportsInTurn, Dropping
    PROVE  AirportsInTurn'
  <1>1. \A i \in AirportSteps :
           airports'[i] = IF AirportTable[i] \in tables' THEN airports[i] ELSE 0
    BY DEF Dropping, DropTables
  <1>2. airports' \in [AirportSteps -> 0 .. 2]
    BY DEF Dropping, DropTables, TypeOK
  <1>3. loaded' = 0 /\ pc' \in SchemaStages
    BY DropEffect DEF AirportsInTurn
  <1>4. ASSUME airports'[1] = 0 PROVE airports' = NoAirports
    <2>1. CASE airports[1] = 0
      <3>1. \A i \in AirportSteps : airports[i] = 0
        BY <2>1 DEF AirportsInTurn, NoAirports
      <3>2. QED
        BY <1>1, <1>2, <3>1 DEF NoAirports
    <2>2. CASE airports[1] # 0
      <3>1. "countries" \in tables /\ "countries" \notin tables'
        BY <1>1, <1>4, <2>2 DEF AirportsInTurn, AirportSteps, AirportTable
      <3>2. DropTables("dropAirports", AirportsDown, "createAirports")
        <4> SUFFICES ASSUME DropTables("dropOsm", OsmDown, "createOsm") PROVE FALSE
          BY DEF Dropping
        <4>1. "countries" \in NextIn(OsmDown, tables)
          BY <3>1 DEF DropTables
        <4>2. PICK j \in DOMAIN OsmDown : "countries" = OsmDown[j]
          BY <4>1, NextLast
        <4>3. QED
          BY <4>2 DEF OsmDown
      <3>3. "countries" \in NextIn(AirportsDown, tables)
        BY <3>1, <3>2 DEF DropTables
      <3>4. PICK j \in DOMAIN AirportsDown :
               "countries" = AirportsDown[j] /\ \A k \in 1 .. j - 1 : AirportsDown[k] \notin tables
        BY <3>3, NextLast
      <3>5. j = 7
        BY <3>4 DEF AirportsDown
      <3>6. \A k \in 1 .. 6 : AirportsDown[k] \notin tables
        BY <3>4, <3>5
      <3>7. \A i \in AirportSteps : AirportTable[i] \notin tables'
        <4>1. \A k \in 1 .. 6 : AirportsDown[k] \notin tables'
          BY <3>6, DropEffect
        <4>2. AirportsDown[1] \notin tables' /\ AirportsDown[2] \notin tables'
              /\ AirportsDown[3] \notin tables' /\ AirportsDown[4] \notin tables'
              /\ AirportsDown[5] \notin tables' /\ AirportsDown[6] \notin tables'
          BY <4>1
        <4>3. {"countries", "regions", "airports", "tags", "frequencies", "runways", "navaids"}
                 \cap tables' = {}
          BY <3>1, <4>2 DEF AirportsDown
        <4>4. \A i \in AirportSteps : AirportTable[i] \in
                 {"countries", "regions", "airports", "tags", "frequencies", "runways", "navaids"}
          BY DEF AirportTable, AirportSteps
        <4>5. QED
          BY <4>3, <4>4
      <3>8. QED
        BY <1>1, <1>2, <3>7 DEF NoAirports
    <2>3. QED
      BY <2>1, <2>2
  <1>5. airports'[1] # 0 => "countries" \in tables'
    BY <1>1 DEF AirportTable, AirportSteps
  <1>6. \A i \in AirportSteps : airports'[i] <= 1
    BY DropEffect DEF AirportsInTurn, TypeOK
  <1>7. ASSUME pc' = "createAirports" PROVE airports' = NoAirports
    <2>1. NextIn(AirportsDown, tables') = {}
      BY <1>7 DEF Dropping, DropTables
    <2>2. DOMAIN AirportsDown = 1 .. 7
      BY DEF AirportsDown
    <2>3. \A j \in DOMAIN AirportsDown : AirportsDown[j] \notin tables'
      BY <2>1, <2>2, NextNone
    <2>4. AirportsDown[7] \notin tables'
      BY <2>2, <2>3
    <2>5. airports'[1] = 0
      BY <1>5, <2>4 DEF AirportsDown
    <2>6. QED
      BY <1>4, <2>5
  <1>8. QED
    BY <1>3, <1>4, <1>5, <1>6, <1>7 DEF AirportsInTurn, LoadPhases, SchemaStages

LEMMA AirportsStep == TypeOK /\ Control /\ AirportsInTurn /\ [Next]_vars => AirportsInTurn'
  <1> SUFFICES ASSUME TypeOK, Control, AirportsInTurn, [Next]_vars PROVE AirportsInTurn'
    OBVIOUS
  <1>0. loaded \in 0 .. 7
    BY DEF TypeOK
  <1> USE DEF AirportsInTurn, LoadPhases
  <1>1. CASE \E p \in PhaseNames : Start(p)
    <2> PICK p \in PhaseNames : Start(p)
      BY <1>1
    <2>1. pc' = "switchOff" /\ entry' = p /\ pc # "airports"
          /\ airports' = airports /\ loaded' = loaded /\ tables' = tables
      BY DEF Start, tableVars
    <2>2. p \in LoadPhases /\ airports # NoAirports => hist'.kept
      BY DEF Start, TypeOK
    <2>3. QED
      BY <2>1, <2>2
  <1>2. CASE StartAnew \/ Refresh
    BY <1>2 DEF StartAnew, Refresh, tableVars, runVars
  <1>3. CASE Dropping
    BY <1>3, DropAirports
  <1>4. CASE Creating
    BY <1>4, CreateEffect DEF Control, SchemaStages
  <1>18. CASE SwitchOff
    BY <1>18 DEF SwitchOff, tableVars, Control
  <1>5. CASE PrepareNodes \/ PrepareLoad \/ PrepareRest
    BY <1>5 DEF PrepareNodes, PrepareLoad, PrepareRest, tableVars
  <1>6. CASE ReindexDies \/ NodeCollides \/ AirportsCollide \/ TableMissing \/ Crash
    BY <1>6 DEF ReindexDies, NodeCollides, AirportsCollide, TableMissing, Crash, Dies, tableVars
  <1>7. CASE \E n \in Nodes : StoreNode(n)
    BY <1>7 DEF StoreNode, runVars, tableVars
  <1>8. CASE \E e \in Entities : CommitRow(e) \/ CommitTags(e)
    BY <1>8 DEF CommitRow, CommitTags
  <1>9. CASE EndNodes \/ EndWays \/ EndRelations
    BY <1>9 DEF EndNodes, EndWays, EndRelations, EndPhase, tableVars
  <1>10. CASE Merge
    <2>1. hist'.kept = hist.kept
      BY <1>10 DEF Merge, TypeOK
    <2>2. QED
      BY <1>10, <2>1 DEF Merge, tableVars
  <1>11. CASE CreateGistIndexes
    BY <1>11 DEF CreateGistIndexes, Control
  <1>12. CASE ClearAirports
    <2>1. airports' = NoAirports /\ loaded' = 0
      BY <1>12 DEF ClearAirports
    <2>2. QED
      BY <1>12, <2>1 DEF NoAirports, AirportSteps, ClearAirports
  <1>13. CASE DownloadFails \/ Vacuum
    BY <1>13 DEF DownloadFails, Vacuum, tableVars
  <1>14. CASE LoadAirports
    <2>1. airports' = FirstParts(loaded + 1)
      BY <1>0, <1>14, NextPart
    <2>2. /\ \A i \in AirportSteps : airports'[i] <= 1
          /\ airports'[1] # 0
      BY <1>0, <2>1 DEF FirstParts, AirportSteps
    <2>3. "countries" \in tables'
      <3>1. tables' = tables
        BY <1>14 DEF LoadAirports
      <3>2. CASE loaded = 0
        BY <1>14, <3>1, <3>2 DEF LoadAirports, AirportTable
      <3>3. CASE loaded > 0
        <4>1. airports[1] # 0
          BY <1>0, <3>3 DEF FirstParts, AirportSteps
        <4>2. QED
          BY <3>1, <4>1
      <3>4. QED
        BY <1>0, <3>2, <3>3
    <2>4. \/ pc' = "vacuum" /\ loaded' = 0
          \/ pc' = "airports" /\ loaded' = loaded + 1
      BY <1>14 DEF LoadAirports
    <2>5. QED
      BY <1>0, <2>1, <2>2, <2>3, <2>4
  <1>15. CASE SwitchOn
    <2>1. pc' = "done" /\ pc = "switchOn" /\ airports' = airports /\ loaded' = loaded
          /\ tables' = tables
      BY <1>15 DEF SwitchOn, tableVars
    <2>2. QED
      BY <2>1
  <1>16. CASE UNCHANGED vars
    BY <1>16 DEF vars, runVars, tableVars
  <1>17. QED
    BY <1>1, <1>2, <1>3, <1>4, <1>5, <1>6, <1>7, <1>8, <1>9, <1>10, <1>11, <1>12, <1>13,
       <1>14, <1>15, <1>16, <1>18, SchemaSteps DEF Next, RunStep

------------------------------------------------------------------------------
(* Within a phase *)

LEMMA ProgressInit == Init => Progress
  BY DEF Init, Progress, WorkOf

LEMMA ProgressStep == TypeOK /\ Control /\ SchemaInTurn /\ Progress /\ [Next]_vars => Progress'
  <1> SUFFICES ASSUME TypeOK, Control, SchemaInTurn, Progress, [Next]_vars PROVE Progress'
    OBVIOUS
  <1> USE DEF Progress, WorkOf
  <1>1. CASE (\E p \in PhaseNames : Start(p)) \/ StartAnew \/ Refresh
    BY <1>1 DEF Start, StartAnew, Refresh, tableVars, fileVars, runVars
  <1>2. CASE Dropping \/ Creating
    <2>1. pc \in SchemaStages /\ pc' \in SchemaStages \cup {"switchOff"}
          /\ UNCHANGED <<todo, owing>>
      BY <1>2, DropEffect, CreateEffect DEF SchemaStages
    <2>2. QED
      BY <2>1 DEF SchemaStages
  <1>15. CASE SwitchOff
    BY <1>15 DEF SwitchOff, tableVars, fileVars
  <1>3. CASE PrepareNodes \/ PrepareRest
    BY <1>3 DEF PrepareNodes, PrepareRest, tableVars, fileVars
  <1>4. CASE PrepareLoad
    BY <1>4 DEF PrepareLoad, fileVars
  <1>5. CASE ReindexDies \/ NodeCollides \/ AirportsCollide \/ TableMissing \/ Crash
    <2>1. pc' = "off" /\ todo' = {} /\ owing' = {}
      BY <1>5 DEF ReindexDies, NodeCollides, AirportsCollide, TableMissing, Crash, Dies
    <2>2. QED
      BY <2>1
  <1>6. CASE \E n \in Nodes : StoreNode(n)
    <2> PICK n \in Nodes : StoreNode(n)
      BY <1>6
    <2>1. UNCHANGED <<pc, threads, todo, owing, rows, tags, tables>>
      BY DEF StoreNode, runVars, tableVars
    <2>2. \A i \in ShardIds : shards[i] \subseteq shards'[i]
      BY DEF StoreNode, TypeOK
    <2>3. \A e \in Nodes : e % threads \in ShardIds
      BY ShardOf, EntityAssumption DEF TypeOK
    <2>4. QED
      BY <2>1, <2>2, <2>3
  <1>7. CASE \E e \in Entities : CommitRow(e)
    <2> PICK e \in Entities : CommitRow(e)
      BY <1>7
    <2>1. UNCHANGED <<pc, threads, tags, shards, tables>> /\ todo' = todo \ {e} /\ owing' = owing \cup {e}
      BY DEF CommitRow, fileVars
    <2>5. TagsOf(e) \in tables => TableOf(e) \in tables
      BY TableTypes DEF SchemaInTurn
    <2>6. e \in Nodes => TableOf(e) = "nodes"
      BY EntityAssumption DEF TableOf
    <2>2. /\ e \in todo /\ (rows'[e] # "absent" \/ TagsOf(e) \notin tables)
          /\ e \in Nodes => e \in shards[e % threads]
          /\ \A f \in Entities \ {e} : rows'[f] = rows[f]
      BY <2>5, <2>6 DEF CommitRow, Stored, TypeOK
    <2>3. WorkOf(pc) \subseteq Entities
      BY DEF Entities
    <2>4. QED
      BY <2>1, <2>2, <2>3
  <1>8. CASE \E e \in Entities : CommitTags(e)
    <2> PICK e \in Entities : CommitTags(e)
      BY <1>8
    <2>1. UNCHANGED <<pc, threads, todo, rows, shards, tables>> /\ owing' = owing \ {e}
          /\ TagsOf(e) \in tables
      BY DEF CommitTags, fileVars
    <2>2. tags'[e] >= 1 /\ \A f \in Entities \ {e} : tags'[f] = tags[f]
      BY DEF CommitTags, Twice, TypeOK
    <2>3. WorkOf(pc) \subseteq Entities
      BY DEF Entities
    <2>4. QED
      BY <2>1, <2>2, <2>3
  <1>9. CASE EndNodes \/ Merge \/ EndWays \/ EndRelations
    BY <1>9 DEF EndNodes, EndWays, EndRelations, EndPhase, Merge, Committed
  <1>10. CASE CreateGistIndexes \/ ClearAirports \/ DownloadFails \/ Vacuum
    BY <1>10 DEF CreateGistIndexes, ClearAirports, DownloadFails, Vacuum
  <1>11. CASE LoadAirports
    <2>1. pc = "airports" /\ pc' \in {"airports", "vacuum"} /\ UNCHANGED <<todo, owing>>
      BY <1>11 DEF LoadAirports
    <2>2. QED
      BY <2>1
  <1>12. CASE SwitchOn
    <2>1. pc = "switchOn" /\ pc' = "done" /\ UNCHANGED <<todo, owing>>
      BY <1>12 DEF SwitchOn
    <2>2. QED
      BY <2>1
  <1>13. CASE UNCHANGED vars
    BY <1>13 DEF vars, runVars, tableVars, fileVars
  <1>14. QED
    BY <1>1, <1>2, <1>3, <1>4, <1>5, <1>6, <1>7, <1>8, <1>9, <1>10, <1>11, <1>12, <1>13, <1>15, SchemaSteps
    DEF Next, RunStep

------------------------------------------------------------------------------
(* What has been done stays done. *)

LEMMA DoneInit == Init => ShortOnlyIfFewer /\ Reached
  BY DEF Init, ShortOnlyIfFewer, Reached, Reach, PhaseNames, Rank

(* A geometry is left short for want of a node or of a way that the phases *)
(* before should have put there.                                           *)
LEMMA DrawnWhole ==
    ASSUME TypeOK, Progress, Reached, ~hist.fewer,
           NEW e \in todo, pc \in {"ways", "relations"}
    PROVE  Drawn(e)
  <1>1. CASE pc = "ways"
    <2>1. flat = Nodes
      BY <1>1 DEF Reached, Reach, Rank, PhaseNames, FlatDone
    <2>2. e \in Ways /\ Uses[e] \subseteq Nodes
      BY <1>1, EntityAssumption DEF Progress, WorkOf
    <2>3. QED
      BY <2>1, <2>2, EntityAssumption DEF Drawn
  <1>2. CASE pc = "relations"
    <2>1. \A w \in Ways : rows[w] = "whole"
      BY <1>2 DEF Reached, Reach, Rank, PhaseNames, WaysDone, InTables
    <2>2. e \in Multis \cup Relations /\ Uses[e] \subseteq Ways
      BY <1>2, EntityAssumption DEF Progress, WorkOf
    <2>3. QED
      BY <2>1, <2>2, EntityAssumption DEF Drawn
  <1>3. QED
    BY <1>1, <1>2

LEMMA ShortStep ==
    TypeOK /\ Progress /\ Reached /\ ShortOnlyIfFewer /\ [Next]_vars => ShortOnlyIfFewer'
  <1> SUFFICES ASSUME TypeOK, Progress, Reached, ShortOnlyIfFewer, [Next]_vars,
                      NEW e \in Entities, rows'[e] = "short"
               PROVE  hist'.fewer
    BY DEF ShortOnlyIfFewer
  <1>0. rows[e] = "short" => hist.fewer
    BY DEF ShortOnlyIfFewer
  <1>1. CASE \E p \in PhaseNames : Start(p)
    <2>1. rows' = rows /\ hist'.fewer = hist.fewer
      BY <1>1 DEF Start, tableVars, TypeOK
    <2>2. QED
      BY <1>0, <2>1
  <1>2. CASE Dropping
    <2>1. rows[e] = "short" /\ rows'[e] # "absent"
      BY <1>2, DropEffect
    <2>2. QED
      BY <1>0, <1>2, <2>1, DropEffect
  <1>13. CASE Creating
    BY <1>0, <1>13, CreateEffect
  <1>3. CASE PrepareLoad
    BY <1>0, <1>3 DEF PrepareLoad
  <1>4. CASE \E f \in Entities : CommitRow(f)
    <2> PICK f \in Entities : CommitRow(f)
      BY <1>4
    <2>1. hist' = hist
      BY DEF CommitRow
    <2>2. CASE rows[e] = "short"
      BY <1>0, <2>1, <2>2
    <2>3. CASE rows[e] # "short"
      <3>1. e = f /\ e \in todo /\ e \notin Nodes /\ ~Drawn(e)
        BY <2>3 DEF CommitRow, TypeOK
      <3>2. pc \in {"ways", "relations"}
        BY <3>1 DEF CommitRow, Progress, WorkOf
      <3>3. QED
        BY <2>1, <3>1, <3>2, DrawnWhole
    <2>4. QED
      BY <2>2, <2>3
  <1>5. CASE Merge
    <2>1. rows' = rows /\ (hist.fewer => hist'.fewer)
      BY <1>5 DEF Merge, tableVars, TypeOK
    <2>2. QED
      BY <1>0, <2>1
  <1>6. CASE SwitchOn
    <2>1. rows' = rows /\ hist'.fewer = hist.fewer
      BY <1>6 DEF SwitchOn, tableVars, TypeOK
    <2>2. QED
      BY <1>0, <2>1
  <1>7. CASE \/ StartAnew \/ Refresh \/ SwitchOff \/ PrepareNodes \/ PrepareRest
             \/ EndNodes \/ EndWays \/ EndRelations
    BY <1>0, <1>7 DEF StartAnew, Refresh, SwitchOff, PrepareNodes, PrepareRest,
                      EndNodes, EndWays, EndRelations, EndPhase, tableVars
  <1>8. CASE ReindexDies \/ NodeCollides \/ AirportsCollide \/ TableMissing \/ Crash
    BY <1>0, <1>8 DEF ReindexDies, NodeCollides, AirportsCollide, TableMissing, Crash, tableVars
  <1>9. CASE (\E n \in Nodes : StoreNode(n)) \/ (\E f \in Entities : CommitTags(f))
    BY <1>0, <1>9 DEF StoreNode, CommitTags, tableVars
  <1>10. CASE CreateGistIndexes \/ ClearAirports \/ DownloadFails \/ LoadAirports \/ Vacuum
    BY <1>0, <1>10 DEF CreateGistIndexes, ClearAirports, DownloadFails, LoadAirports, Vacuum, tableVars
  <1>11. CASE UNCHANGED vars
    BY <1>0, <1>11 DEF vars, tableVars
  <1>12. QED
    BY <1>1, <1>2, <1>3, <1>4, <1>5, <1>6, <1>7, <1>8, <1>9, <1>10, <1>11, <1>13, SchemaSteps DEF Next, RunStep

(* A step that leaves rows, tags and node files as they are, and forgets   *)
(* nothing of what may be missing *)
Keeps == /\ UNCHANGED <<rows, tags, flat, shards, writers>>
         /\ hist.fewer => hist'.fewer

LEMMA KeepsRows ==
    ASSUME Keeps
    PROVE  /\ NodesDone => NodesDone'
           /\ Found => Found'
           /\ FlatDone => FlatDone'
           /\ WaysDone => WaysDone'
           /\ RelationsDone => RelationsDone'
  BY DEF Keeps, NodesDone, Found, FlatDone, WaysDone, RelationsDone, InTables

LEMMA KeepsAirports ==
    ASSUME airports' = airports, hist.kept => hist'.kept
    PROVE  AirportsDone => AirportsDone'
  BY DEF AirportsDone, AirportsWhole

LEMMA ReachType ==
    ASSUME TypeOK PROVE Reach \in 1 .. 8
  BY RankType DEF Reach, TypeOK, PhaseNames

(* Without a step in the data, nothing more may be reached. *)
LEMMA ReachedStays ==
    ASSUME TypeOK, TypeOK', Reached, Keeps, airports' = airports, gist' = gist,
           hist.kept => hist'.kept, Reach' <= Reach
    PROVE  Reached'
  <1>1. Reach \in 1 .. 8 /\ Reach' \in 1 .. 8
    BY ReachType DEF Reach, TypeOK, PhaseNames, Rank
  <1>2. QED
    BY <1>1, KeepsRows, KeepsAirports DEF Reached

(* A phase that ends has committed the rows and the tags of its entities.  *)
LEMMA PhaseDone ==
    ASSUME TypeOK, Progress, ShortOnlyIfFewer, Committed
    PROVE  \A e \in WorkOf(pc) : InTables(e)
  <1>1. WorkOf(pc) \subseteq Entities
    BY DEF WorkOf, Entities
  <1>2. \A e \in WorkOf(pc) : rows[e] # "absent" /\ tags[e] >= 1
    BY DEF Progress, Committed
  <1>3. \A e \in WorkOf(pc) : rows[e] \in {"absent", "short", "whole"}
    BY <1>1 DEF TypeOK
  <1>4. QED
    BY <1>1, <1>2, <1>3 DEF InTables, ShortOnlyIfFewer

(* Commits take nothing out of the tables. *)
LEMMA CommitKeeps ==
    ASSUME TypeOK, NEW e \in Entities, CommitRow(e) \/ CommitTags(e),
           NEW f \in Entities, InTables(f)
    PROVE  InTables(f)'
  <1>1. CASE CommitRow(e)
    <2>1. hist' = hist /\ tags' = tags
      BY <1>1 DEF CommitRow
    <2>2. rows[f] # "absent" => rows'[f] = rows[f]
      BY <1>1 DEF CommitRow, TypeOK
    <2>3. QED
      BY <2>1, <2>2 DEF InTables
  <1>2. CASE CommitTags(e)
    <2>1. hist' = hist /\ rows' = rows
      BY <1>2 DEF CommitTags
    <2>2. tags[f] >= 1 => tags'[f] >= 1
      BY <1>2 DEF CommitTags, Twice, TypeOK
    <2>3. QED
      BY <2>1, <2>2 DEF InTables
  <1>3. QED
    BY <1>1, <1>2

(* A resume empties none of the tables that it takes for granted. *)
LEMMA PrepareKeeps ==
    ASSUME TypeOK, PrepareLoad
    PROVE  /\ NodesDone => NodesDone'
           /\ entry = "relations" => (WaysDone => WaysDone')
  <1>1. hist' = hist /\ \A e \in Entities \ Emptied(entry) : rows'[e] = rows[e] /\ tags'[e] = tags[e]
    BY DEF PrepareLoad
  <1>2. Nodes \subseteq Entities \ Emptied(entry)
    BY EntityAssumption DEF Emptied, Entities
  <1>3. entry = "relations" => Ways \subseteq Entities \ Emptied(entry)
    BY EntityAssumption DEF Emptied, Entities
  <1>4. QED
    BY <1>1, <1>2, <1>3 DEF NodesDone, WaysDone, InTables

(* merge() moves what it finds, or it is taken down that it left some out. *)
LEMMA MergeKeeps ==
    ASSUME TypeOK, TypeOK', Merge, NodesDone, Found
    PROVE  NodesDone' /\ Found' /\ FlatDone'
  <1>1. UNCHANGED <<rows, tags, writers>> /\ (hist.fewer => hist'.fewer)
        /\ (threads < writers => hist'.fewer)
    BY DEF Merge, tableVars, TypeOK
  <1>2. NodesDone'
    BY <1>1 DEF NodesDone, InTables
  <1>3. \A i \in ShardIds : i < threads => shards[i] \subseteq flat'
    BY DEF Merge, Merged
  <1>4. \A i \in ShardIds : ~(i < threads) => shards'[i] = shards[i]
    BY DEF Merge
  <1>5. flat \subseteq flat'
    BY DEF Merge
  <1>6. Found'
    BY <1>1, <1>3, <1>4, <1>5 DEF Found
  <1>7. CASE threads < writers
    BY <1>1, <1>2, <1>6, <1>7 DEF FlatDone
  <1>8. CASE ~(threads < writers)
    <2>1. \A i \in ShardIds : i < writers => i < threads
      BY <1>8, ThreadAssumption DEF TypeOK, ShardIds
    <2>2. Nodes \subseteq flat'
      BY <1>3, <1>5, <2>1 DEF Found
    <2>3. QED
      BY <1>2, <1>6, <2>2 DEF FlatDone, TypeOK
  <1>9. QED
    BY <1>2, <1>6, <1>7, <1>8

LEMMA ReachedStep ==
    TypeOK /\ TypeOK' /\ Control /\ Control' /\ Progress /\ ShortOnlyIfFewer /\ AirportsInTurn
        /\ AirportsInTurn' /\ Reached /\ [Next]_vars
    => Reached'
  <1> SUFFICES ASSUME TypeOK, TypeOK', Control, Control', Progress, ShortOnlyIfFewer,
                      AirportsInTurn, AirportsInTurn', Reached, [Next]_vars
               PROVE  Reached'
    OBVIOUS
  <1>0. /\ Reach \in 1 .. 8 /\ Reach >= Rank(known)
        /\ Rank(known) \in 1 .. 8 /\ Rank(entry) \in 1 .. 8
    BY ReachType, RankType DEF Control, TypeOK
  <1>1. CASE \E p \in PhaseNames : Start(p)
    <2> PICK p \in PhaseNames : Start(p)
      BY <1>1
    <2>1. Reach' = Rank(p) /\ Rank(p) <= Rank(known)
      BY RankType DEF Start, AtLeast, Reach, PhaseNames, TypeOK
    <2>2. hist'.fewer = hist.fewer /\ (hist.kept => hist'.kept)
      BY DEF Start, TypeOK
    <2>3. Keeps /\ airports' = airports /\ gist' = gist
      BY <2>2 DEF Start, Keeps, tableVars, fileVars
    <2>4. Reach' <= Reach
      BY <1>0, <2>1, RankType
    <2>5. QED
      BY <2>2, <2>3, <2>4, ReachedStays
  <1>2. CASE StartAnew
    <2>1. Reach' = 1
      BY <1>2 DEF StartAnew, Reach, PhaseNames, Rank
    <2>2. QED
      BY <2>1 DEF Reached
  <1>3. CASE Refresh
    <2>1. Keeps /\ airports' = airports /\ gist' = gist /\ hist' = hist
      BY <1>3 DEF Refresh, Keeps, tableVars, fileVars
    <2>2. Reach' = Reach
      BY <1>3 DEF Refresh, runVars, Reach
    <2>3. QED
      BY <1>0, <2>1, <2>2, ReachedStays
  <1>4. CASE Dropping \/ Creating
    <2>1. pc \in SchemaStages /\ pc' \in SchemaStages \cup {"switchOff"} /\ known' = known
      BY <1>4, DropEffect, CreateEffect DEF SchemaStages
    <2>2. known = "nodes"
      BY <2>1 DEF Control, Early
    <2>3. Reach' = 1
      BY <2>1, <2>2 DEF SchemaStages, Reach, PhaseNames, Rank
    <2>4. QED
      BY <2>3 DEF Reached
  <1>5. CASE SwitchOff
    <2>1. Keeps /\ airports' = airports /\ gist' = gist /\ hist' = hist
      BY <1>5 DEF SwitchOff, Keeps, tableVars, fileVars
    <2>2. Reach' = Reach
      BY <1>5 DEF SwitchOff, Reach, PhaseNames
    <2>3. QED
      BY <1>0, <2>1, <2>2, ReachedStays
  <1>6. CASE PrepareNodes
    <2>1. Reach' = 1
      BY <1>6 DEF PrepareNodes, Reach, PhaseNames, Rank
    <2>2. QED
      BY <2>1 DEF Reached
  <1>7. CASE PrepareLoad
    <2>1. Reach = Rank(entry) /\ Reach' = Rank(entry)
      BY <1>7 DEF PrepareLoad, Control, Early, Reach, PhaseNames
    <2>2. Reach' = IF entry = "ways" THEN 3 ELSE 5
      BY <1>7, <2>1 DEF PrepareLoad, Rank
    <2>3. (Found => Found') /\ (FlatDone => FlatDone')
      BY <1>7 DEF PrepareLoad, fileVars, Found, FlatDone
    <2>4. QED
      BY <1>7, <2>1, <2>2, <2>3, PrepareKeeps DEF PrepareLoad, Reached
  <1>8. CASE PrepareRest
    <2>1. Keeps /\ airports' = airports /\ gist' = gist /\ hist' = hist
      BY <1>8 DEF PrepareRest, Keeps, tableVars, fileVars
    <2>2. Reach' = Reach
      BY <1>8 DEF PrepareRest, Control, Early, Reach, PhaseNames, Rank
    <2>3. QED
      BY <1>0, <2>1, <2>2, ReachedStays
  <1>9. CASE ReindexDies \/ NodeCollides \/ AirportsCollide \/ TableMissing \/ Crash
    <2>1. Keeps /\ airports' = airports /\ gist' = gist /\ hist' = hist
      BY <1>9 DEF ReindexDies, NodeCollides, AirportsCollide, TableMissing, Crash, Keeps, tableVars, fileVars
    <2>2. pc' = "off" /\ known' = known
      BY <1>9 DEF ReindexDies, NodeCollides, AirportsCollide, TableMissing, Crash, Dies
    <2>3. Reach' <= Reach
      BY <1>0, <2>2 DEF Reach, PhaseNames
    <2>4. QED
      BY <2>1, <2>3, ReachedStays
  <1>10. CASE \E n \in Nodes : StoreNode(n)
    <2>1. Reach' = 1
      BY <1>10 DEF StoreNode, runVars, Reach, PhaseNames, Rank
    <2>2. QED
      BY <2>1 DEF Reached
  <1>11. CASE \E e \in Entities : CommitRow(e) \/ CommitTags(e)
    <2> PICK e \in Entities : CommitRow(e) \/ CommitTags(e)
      BY <1>11
    <2>1. UNCHANGED <<pc, known, gist, airports, flat, shards, writers, hist>>
      BY DEF CommitRow, CommitTags, fileVars
    <2>2. Reach' = Reach
      BY <2>1 DEF Reach
    <2>3. \A f \in Entities : InTables(f) => InTables(f)'
      BY CommitKeeps
    <2>4. /\ NodesDone => NodesDone'
          /\ WaysDone => WaysDone'
          /\ RelationsDone => RelationsDone'
      BY <2>3 DEF NodesDone, WaysDone, RelationsDone, Entities
    <2>5. (Found => Found') /\ (FlatDone => FlatDone') /\ (AirportsDone => AirportsDone')
      BY <2>1 DEF Found, FlatDone, AirportsDone, AirportsWhole
    <2>6. QED
      BY <2>1, <2>2, <2>4, <2>5 DEF Reached
  <1>12. CASE EndNodes
    <2>1. pc = "nodes" /\ Committed /\ threads = writers
      BY <1>12 DEF EndNodes, EndPhase, Control
    <2>2. Keeps
      BY <1>12 DEF EndNodes, EndPhase, Keeps, tableVars, fileVars
    <2>3. NodesDone
      BY <2>1, PhaseDone DEF NodesDone, WorkOf
    <2>4. Found
      <3>1. \A n \in Nodes : n \in shards[n % threads]
        BY <2>1 DEF Progress, WorkOf, Committed
      <3>2. \A n \in Nodes : n % threads \in ShardIds /\ n % threads < writers
        BY <2>1, ShardOf, EntityAssumption DEF TypeOK
      <3>3. QED
        BY <3>1, <3>2 DEF Found
    <2>5. Reach' = 2
      BY <1>12 DEF EndNodes, EndPhase, Reach, PhaseNames, Rank
    <2>6. QED
      BY <2>2, <2>3, <2>4, <2>5, KeepsRows DEF Reached
  <1>13. CASE Merge
    <2>1. Reach = 2 /\ Reach' = 3
      BY <1>13 DEF Merge, Reach, PhaseNames, Rank
    <2>2. QED
      BY <1>13, <2>1, MergeKeeps DEF Reached
  <1>14. CASE EndWays
    <2>1. pc = "ways" /\ Committed
      BY <1>14 DEF EndWays, EndPhase
    <2>2. Keeps
      BY <1>14 DEF EndWays, EndPhase, Keeps, tableVars, fileVars
    <2>3. WaysDone
      BY <2>1, PhaseDone DEF WaysDone, WorkOf
    <2>4. Reach = 3 /\ Reach' = 5
      BY <1>14 DEF EndWays, EndPhase, Reach, PhaseNames, Rank
    <2>5. QED
      BY <2>2, <2>3, <2>4, KeepsRows DEF Reached
  <1>15. CASE EndRelations
    <2>1. pc = "relations" /\ Committed
      BY <1>15 DEF EndRelations, EndPhase
    <2>2. Keeps
      BY <1>15 DEF EndRelations, EndPhase, Keeps, tableVars, fileVars
    <2>3. RelationsDone
      BY <2>1, PhaseDone DEF RelationsDone, WorkOf
    <2>4. Reach = 5 /\ Reach' = 6
      BY <1>15 DEF EndRelations, EndPhase, Reach, PhaseNames, Rank
    <2>5. QED
      BY <2>2, <2>3, <2>4, KeepsRows DEF Reached
  <1>16. CASE CreateGistIndexes
    <2>1. Keeps /\ gist'
      BY <1>16 DEF CreateGistIndexes, Keeps, fileVars
    <2>2. Reach = 6 /\ Reach' = 7
      BY <1>16 DEF CreateGistIndexes, Reach, PhaseNames, Rank
    <2>3. QED
      BY <2>1, <2>2, KeepsRows DEF Reached
  <1>17. CASE ClearAirports
    <2>1. Keeps /\ gist' = gist
      BY <1>17 DEF ClearAirports, Keeps, fileVars
    <2>2. Reach = 7 /\ Reach' = 7
      BY <1>17 DEF ClearAirports, Reach, PhaseNames, Rank
    <2>3. QED
      BY <2>1, <2>2, KeepsRows DEF Reached
  <1>18. CASE DownloadFails
    <2>1. Keeps /\ gist' = gist /\ airports' = airports /\ hist' = hist
      BY <1>18 DEF DownloadFails, Keeps, tableVars, fileVars
    <2>2. Reach = 7 /\ Reach' = 8
      BY <1>18 DEF DownloadFails, Reach, PhaseNames, Rank
    <2>3. AirportsDone
      BY <1>18 DEF DownloadFails, AirportsInTurn, AirportsDone, AirportsWhole, NoAirports
    <2>4. QED
      BY <2>1, <2>2, <2>3, KeepsRows, KeepsAirports DEF Reached
  <1>19. CASE LoadAirports
    <2>1. Keeps /\ gist' = gist
      BY <1>19 DEF LoadAirports, Keeps, fileVars
    <2>2. Reach = 7 /\ pc' \in {"airports", "vacuum"}
      BY <1>19 DEF LoadAirports, Reach, PhaseNames, Rank
    <2>3. CASE pc' = "airports"
      <3>1. Reach' = 7
        BY <2>3 DEF Reach, PhaseNames, Rank
      <3>2. QED
        BY <2>1, <2>2, <3>1, KeepsRows DEF Reached
    <2>4. CASE pc' = "vacuum"
      <3>1. Reach' = 8
        BY <2>4 DEF Reach, PhaseNames, Rank
      <3>2. loaded = 7
        BY <1>19, <2>4 DEF LoadAirports, TypeOK
      <3>3. airports' = FirstParts(8)
        BY <1>19, <3>2, NextPart
      <3>4. AirportsDone'
        BY <3>3 DEF AirportsDone, AirportsWhole, FirstParts, AirportSteps
      <3>5. QED
        BY <2>1, <2>2, <3>1, <3>4, KeepsRows DEF Reached
    <2>5. QED
      BY <2>2, <2>3, <2>4
  <1>20. CASE Vacuum
    <2>1. Keeps /\ airports' = airports /\ gist' = gist /\ hist' = hist
      BY <1>20 DEF Vacuum, Keeps, tableVars, fileVars
    <2>2. Reach = 8 /\ Reach' = 8
      BY <1>20 DEF Vacuum, Reach, PhaseNames, Rank
    <2>3. QED
      BY <2>1, <2>2, ReachedStays
  <1>21. CASE SwitchOn
    <2>1. hist'.fewer = hist.fewer /\ hist'.kept = hist.kept
      BY <1>21 DEF SwitchOn, TypeOK
    <2>2. pc = "switchOn" /\ pc' = "done" /\ UNCHANGED <<tableVars, fileVars>>
      BY <1>21 DEF SwitchOn
    <2>3. Keeps /\ airports' = airports /\ gist' = gist
      BY <2>1, <2>2 DEF Keeps, tableVars, fileVars
    <2>4. Reach = 8 /\ Reach' = 8
      BY <2>2 DEF Reach, PhaseNames
    <2>5. QED
      BY <2>1, <2>3, <2>4, ReachedStays
  <1>22. CASE UNCHANGED vars
    <2>1. Keeps /\ airports' = airports /\ gist' = gist /\ hist' = hist
      BY <1>22 DEF vars, Keeps, tableVars, fileVars
    <2>2. Reach' = Reach
      BY <1>22 DEF vars, runVars, Reach
    <2>3. QED
      BY <1>0, <2>1, <2>2, ReachedStays
  <1>23. QED
    BY <1>1, <1>2, <1>3, <1>4, <1>5, <1>6, <1>7, <1>8, <1>9, <1>10, <1>11, <1>12, <1>13,
       <1>14, <1>15, <1>16, <1>17, <1>18, <1>19, <1>20, <1>21, <1>22, SchemaSteps DEF Next, RunStep

------------------------------------------------------------------------------
(* Tags *)

LEMMA TagsInit == Init => TagsInTurn
  BY DEF Init, TagsInTurn, Coming, Early, SchemaStages

(* Nothing more is coming, and no tag is written. *)
LEMMA TagsStay ==
    ASSUME TagsInTurn, tags' = tags, hist.doubled \subseteq hist'.doubled,
           Coming' \subseteq Coming, todo' \cap owing' = {}
    PROVE  TagsInTurn'
  BY DEF TagsInTurn

LEMMA CommitTagsInTurn ==
    ASSUME TypeOK, Progress, TagsInTurn, NEW e \in Entities, CommitTags(e)
    PROVE  TagsInTurn'
  <1>1. UNCHANGED <<pc, entry, todo, hist>> /\ owing' = owing \ {e} /\ e \in owing
    BY DEF CommitTags
  <1>2. e \in WorkOf(pc) /\ e \notin todo
    BY <1>1 DEF Progress, TagsInTurn
  <1>3. e \in Coming /\ e \notin Coming' /\ Coming' \subseteq Coming
    BY <1>1, <1>2, EntityAssumption DEF WorkOf, Coming, Early, SchemaStages
  <1>4. tags[e] = 0 \/ e \in hist.doubled
    BY <1>3 DEF TagsInTurn
  <1>5. tags[e] = 0 => tags'[e] <= 1
    BY DEF CommitTags, Twice, TypeOK
  <1>6. \A f \in Entities \ {e} : tags'[f] = tags[f]
    BY DEF CommitTags, TypeOK
  <1>7. Coming \subseteq Entities
    BY DEF Early, SchemaStages, Coming, Written, Entities, TypeOK
  <1>8. QED
    BY <1>1, <1>3, <1>4, <1>5, <1>6, <1>7 DEF TagsInTurn

(* What truncateForResume empties, and no more, is written once more. *)
LEMMA PrepareTagsInTurn ==
    ASSUME TypeOK, Progress, TagsInTurn, PrepareLoad
    PROVE  TagsInTurn'
  <1>1. pc = "prepare" /\ entry \in {"ways", "relations"} /\ pc' = entry
        /\ owing = {} /\ owing' = {} /\ hist' = hist
        /\ todo' = IF entry = "ways" THEN Ways ELSE Multis \cup Relations
    BY DEF PrepareLoad, Progress, WorkOf
  <1>2. \A e \in Entities : tags'[e] = IF e \in Emptied(entry) THEN 0 ELSE tags[e]
    BY DEF PrepareLoad
  <1>3. Coming' \subseteq Entities /\ Coming' \subseteq Coming \cup Emptied(entry)
    BY <1>1 DEF Early, SchemaStages, Coming, Written, Emptied, Entities
  <1>4. QED
    BY <1>1, <1>2, <1>3 DEF TagsInTurn

(* Tags go with their tables, and all are gone when tables are created. *)
LEMMA DropTags ==
    ASSUME TypeOK, Control, Progress, TagsInTurn, Dropping
    PROVE  TagsInTurn'
  <1>1. pc \in SchemaStages /\ pc' \in SchemaStages /\ UNCHANGED <<entry, todo, owing>>
    BY DropEffect DEF SchemaStages
  <1>2. \A e \in Entities : tags'[e] \in {tags[e], 0} /\ tags[e] \in 0 .. 2
    BY DropEffect DEF TypeOK
  <1>3. hist'.doubled = {e \in hist.doubled : tags'[e] > 0}
    BY DropEffect
  <1>4. \A e \in Entities : tags'[e] <= 1 \/ e \in hist'.doubled
    BY <1>2, <1>3 DEF TagsInTurn
  <1>5. Coming' \subseteq Entities
    BY <1>1 DEF Coming, Written, Entities, Early, SchemaStages
  <1>6. ASSUME NEW e \in Coming' PROVE tags'[e] = 0 \/ e \in hist'.doubled
    <2>1. CASE pc' = "dropOsm"
      BY <1>6, <2>1 DEF Coming, Early, SchemaStages
    <2>2. CASE pc' = "createOsm"
      <3>1. NextIn(OsmDown, tables') = {}
        BY <2>2 DEF Dropping, DropTables
      <3>2. DOMAIN OsmDown = 1 .. 8
        BY DEF OsmDown
      <3>3. \A j \in DOMAIN OsmDown : OsmDown[j] \notin tables'
        BY <3>1, <3>2, NextNone
      <3>4. OsmDown[1] \notin tables' /\ OsmDown[2] \notin tables'
            /\ OsmDown[3] \notin tables' /\ OsmDown[4] \notin tables'
        BY <3>2, <3>3
      <3>5. TagsOf(e) \notin tables'
        BY <1>5, <3>4, TableTypes DEF OsmDown, TagTables
      <3>6. QED
        BY <1>5, <3>5 DEF Dropping, DropTables
    <2>3. CASE pc' \in {"dropAirports", "createAirports"}
      <3>1. pc = "dropAirports"
        BY <2>3 DEF Dropping, DropTables
      <3>2. Coming' = Coming
        BY <1>1, <2>3, <3>1 DEF Coming, Early, SchemaStages
      <3>3. tags[e] = 0 \/ e \in hist.doubled
        BY <3>2 DEF TagsInTurn
      <3>4. QED
        BY <1>2, <1>3, <1>5, <3>3
    <2>4. QED
      BY <1>1, <2>1, <2>2, <2>3 DEF SchemaStages
  <1>7. QED
    BY <1>1, <1>4, <1>6 DEF TagsInTurn

LEMMA TagsStep ==
    TypeOK /\ Control /\ Progress /\ TagsInTurn /\ [Next]_vars => TagsInTurn'
  <1> SUFFICES ASSUME TypeOK, Control, Progress, TagsInTurn, [Next]_vars PROVE TagsInTurn'
    OBVIOUS
  <1>0. todo \cap owing = {} /\ (WorkOf(pc) = {} => todo = {} /\ owing = {})
    BY DEF TagsInTurn, Progress
  <1>1. CASE \E p \in PhaseNames : Start(p)
    <2> PICK p \in PhaseNames : Start(p)
      BY <1>1
    <2>1. pc' = "switchOff" /\ entry' = p /\ UNCHANGED <<todo, owing, tags>>
      BY DEF Start, tableVars
    <2>2. hist'.doubled = hist.doubled \cup {e \in Written(p) \ Emptied(p) : tags[e] > 0}
      BY DEF Start, TypeOK
    <2>3. Coming' = Written(p) \ Emptied(p) /\ Coming' \subseteq Entities
      BY <2>1 DEF Coming, Written, Entities, Early, SchemaStages
    <2>4. \A e \in Coming' : tags'[e] = 0 \/ e \in hist'.doubled
      BY <2>1, <2>2, <2>3 DEF TypeOK
    <2>5. QED
      BY <1>0, <2>1, <2>2, <2>4 DEF TagsInTurn
  <1>2. CASE StartAnew \/ Refresh
    <2>1. UNCHANGED <<todo, owing, tags, hist>>
      BY <1>2 DEF StartAnew, Refresh, runVars, tableVars
    <2>2. Coming' \subseteq Coming
      BY <1>2 DEF StartAnew, Refresh, runVars, Coming, Early, SchemaStages
    <2>3. QED
      BY <1>0, <2>1, <2>2, TagsStay
  <1>3. CASE Dropping
    BY <1>3, DropTags
  <1>18. CASE Creating
    <2>1. UNCHANGED <<entry, todo, owing, tags, hist>>
      BY <1>18, CreateEffect
    <2>2. Coming' = Coming
      BY <1>18, <2>1, CreateEffect DEF SchemaStages, Early, Coming
    <2>3. QED
      BY <1>0, <2>1, <2>2, TagsStay
  <1>4. CASE SwitchOff
    <2>1. UNCHANGED <<entry, todo, owing, tags, hist>>
      BY <1>4 DEF SwitchOff, tableVars
    <2>2. Coming' = Coming
      BY <1>4, <2>1 DEF SwitchOff, Coming, Early, SchemaStages
    <2>3. QED
      BY <1>0, <2>1, <2>2, TagsStay
  <1>5. CASE PrepareNodes
    <2>1. owing' = {} /\ UNCHANGED <<tags, hist>>
      BY <1>0, <1>5 DEF PrepareNodes, tableVars, WorkOf
    <2>2. Coming' \subseteq Coming
      BY <1>5, <2>1 DEF PrepareNodes, Coming, Written, Emptied, Entities, Early, SchemaStages
    <2>3. QED
      BY <2>1, <2>2, TagsStay
  <1>6. CASE PrepareLoad
    BY <1>6, PrepareTagsInTurn
  <1>7. CASE PrepareRest
    <2>1. UNCHANGED <<todo, owing, tags, hist>>
      BY <1>7 DEF PrepareRest, tableVars
    <2>2. Coming' \subseteq Coming
      BY <1>7, EntityAssumption DEF PrepareRest, Coming, Written, Emptied, Entities, Early, SchemaStages
    <2>3. QED
      BY <1>0, <2>1, <2>2, TagsStay
  <1>8. CASE ReindexDies \/ NodeCollides \/ AirportsCollide \/ TableMissing \/ Crash
    <2>1. UNCHANGED <<tags, hist>> /\ pc' = "off" /\ todo' = {} /\ owing' = {}
      BY <1>8 DEF ReindexDies, NodeCollides, AirportsCollide, TableMissing, Crash, Dies, tableVars
    <2>2. Coming' = {}
      BY <2>1 DEF Coming, Early, SchemaStages
    <2>3. QED
      BY <2>1, <2>2, TagsStay
  <1>9. CASE \E n \in Nodes : StoreNode(n)
    <2>1. UNCHANGED <<pc, entry, todo, owing, tags, hist>>
      BY <1>9 DEF StoreNode, runVars, tableVars
    <2>2. Coming' = Coming
      BY <2>1 DEF Coming, Early, SchemaStages
    <2>3. QED
      BY <1>0, <2>1, <2>2, TagsStay
  <1>10. CASE \E e \in Entities : CommitRow(e)
    <2> PICK e \in Entities : CommitRow(e)
      BY <1>10
    <2>1. UNCHANGED <<pc, entry, tags, hist>> /\ e \in todo
          /\ todo' = todo \ {e} /\ owing' = owing \cup {e}
      BY DEF CommitRow
    <2>2. todo' \cup owing' = todo \cup owing /\ todo' \cap owing' = {}
      BY <1>0, <2>1
    <2>3. Coming' = Coming
      BY <2>1, <2>2 DEF Coming, Early, SchemaStages
    <2>4. QED
      BY <2>1, <2>2, <2>3, TagsStay
  <1>11. CASE \E e \in Entities : CommitTags(e)
    BY <1>11, CommitTagsInTurn
  <1>12. CASE EndNodes \/ EndWays \/ EndRelations
    <2>1. owing' = {} /\ UNCHANGED <<tags, hist>>
      BY <1>12 DEF EndNodes, EndWays, EndRelations, EndPhase, Committed, tableVars
    <2>2. Coming' \subseteq Coming
      BY <1>12, <2>1 DEF EndNodes, EndWays, EndRelations, EndPhase, Coming, Early, SchemaStages
    <2>3. QED
      BY <2>1, <2>2, TagsStay
  <1>13. CASE Merge
    <2>1. owing' = {} /\ tags' = tags /\ hist'.doubled = hist.doubled
      BY <1>0, <1>13 DEF Merge, WorkOf, tableVars, TypeOK
    <2>2. Coming' \subseteq Coming
      BY <1>13, <2>1, EntityAssumption DEF Merge, Coming, Entities, Early, SchemaStages
    <2>3. QED
      BY <2>1, <2>2, TagsStay
  <1>14. CASE CreateGistIndexes \/ ClearAirports \/ DownloadFails \/ LoadAirports \/ Vacuum
    <2>1. UNCHANGED <<todo, owing, tags, hist>>
      BY <1>14 DEF CreateGistIndexes, ClearAirports, DownloadFails, LoadAirports, Vacuum, tableVars
    <2>2. pc' \in {"clearAirports", "airports", "vacuum", "switchOn"}
      BY <1>14 DEF CreateGistIndexes, ClearAirports, DownloadFails, LoadAirports, Vacuum
    <2>3. Coming' = {}
      BY <2>2 DEF Coming, Early, SchemaStages
    <2>4. QED
      BY <1>0, <2>1, <2>3, TagsStay
  <1>15. CASE SwitchOn
    <2>1. hist'.doubled = hist.doubled
      BY <1>15 DEF SwitchOn, TypeOK
    <2>2. UNCHANGED <<todo, owing, tags>> /\ pc' = "done"
      BY <1>15 DEF SwitchOn, tableVars
    <2>3. Coming' = {}
      BY <2>2 DEF Coming, Early, SchemaStages
    <2>4. QED
      BY <1>0, <2>1, <2>2, <2>3, TagsStay
  <1>16. CASE UNCHANGED vars
    <2>1. UNCHANGED <<pc, entry, todo, owing, tags, hist>>
      BY <1>16 DEF vars, runVars, tableVars
    <2>2. Coming' = Coming
      BY <2>1 DEF Coming, Early, SchemaStages
    <2>3. QED
      BY <1>0, <2>1, <2>2, TagsStay
  <1>17. QED
    BY <1>1, <1>2, <1>3, <1>4, <1>5, <1>6, <1>7, <1>8, <1>9, <1>10, <1>11, <1>12, <1>13,
       <1>14, <1>15, <1>16, <1>18, SchemaSteps DEF Next, RunStep

LEMMA AutovacuumStep == TypeOK /\ AutovacuumBack /\ [Next]_vars => AutovacuumBack'
  <1> SUFFICES ASSUME TypeOK, AutovacuumBack, [Next]_vars, pc' = "done"
               PROVE  autovacuum' \/ hist'.onFailed
    BY DEF AutovacuumBack
  <1>1. CASE SwitchOn
    <2>1. hist'.onFailed = ~autovacuum'
      BY <1>1 DEF SwitchOn, TypeOK
    <2>2. QED
      BY <2>1
  <1>2. CASE UNCHANGED vars
    BY <1>2 DEF vars, runVars, AutovacuumBack
  <1>3. CASE (\E p \in PhaseNames : Start(p)) \/ StartAnew \/ Refresh
    BY <1>3 DEF Start, StartAnew, Refresh, runVars, PhaseNames
  <1>4. CASE SwitchOff \/ PrepareNodes \/ PrepareLoad \/ PrepareRest
    BY <1>4 DEF SwitchOff, PrepareNodes, PrepareLoad, PrepareRest
  <1>11. CASE Dropping \/ Creating
    BY <1>11, DropEffect, CreateEffect DEF SchemaStages
  <1>5. CASE ReindexDies \/ NodeCollides \/ AirportsCollide \/ TableMissing \/ Crash
    BY <1>5 DEF ReindexDies, NodeCollides, AirportsCollide, TableMissing, Crash, Dies
  <1>6. CASE (\E n \in Nodes : StoreNode(n)) \/ EndNodes \/ Merge \/ EndWays \/ EndRelations
    BY <1>6 DEF StoreNode, EndNodes, EndWays, EndRelations, EndPhase, Merge, runVars
  <1>7. CASE \E e \in Entities : CommitRow(e)
    BY <1>7 DEF CommitRow
  <1>8. CASE \E e \in Entities : CommitTags(e)
    BY <1>8 DEF CommitTags, AutovacuumBack
  <1>9. CASE CreateGistIndexes \/ ClearAirports \/ DownloadFails \/ LoadAirports \/ Vacuum
    BY <1>9 DEF CreateGistIndexes, ClearAirports, DownloadFails, LoadAirports, Vacuum
  <1>10. QED
    BY <1>1, <1>2, <1>3, <1>4, <1>5, <1>6, <1>7, <1>8, <1>9, <1>11, SchemaSteps DEF Next, RunStep

------------------------------------------------------------------------------
(* Theorems *)

LEMMA RunInvInit == Init => RunInv
  <1>1. Init => AutovacuumBack
    BY DEF Init, AutovacuumBack
  <1>2. QED
    BY <1>1, TypeInit, ControlInit, SchemaInit, ProgressInit, DoneInit, AirportsInit, TagsInit DEF RunInv

LEMMA RunInvStep == RunInv /\ [Next]_vars => RunInv'
  BY TypeStep, ControlStep, SchemaStep, ProgressStep, ShortStep, ReachedStep, AirportsStep, TagsStep,
     AutovacuumStep DEF RunInv

LEMMA RunInvHolds == Spec => []RunInv
  BY RunInvInit, RunInvStep, PTL DEF Spec

(* Wherever the runs before died and whatever -t they had, what a resume   *)
(* at the phase shown or asked for takes for granted is committed.         *)
THEOREM ResumeIsSafe == Spec => []ResumePointHolds
  <1>1. RunInv => ResumePointHolds
    <2> SUFFICES ASSUME RunInv PROVE Ready(known)
      BY DEF ResumePointHolds
    <2>1. Reach \in 1 .. 8 /\ Rank(known) \in 1 .. 8 /\ Reach >= Rank(known)
      BY ReachType, RankType DEF RunInv, Control, TypeOK
    <2>2. /\ Rank(known) >= 2 => NodesDone /\ Found
          /\ Rank(known) >= 3 => FlatDone
          /\ Rank(known) >= 5 => WaysDone
          /\ Rank(known) >= 6 => RelationsDone
          /\ Rank(known) >= 7 => gist
          /\ Rank(known) >= 8 => AirportsDone
      BY <2>1 DEF RunInv, Reached
    <2>3. Found => Nodes \subseteq flat \cup UNION {shards[i] : i \in ShardIds}
      BY DEF Found
    <2>4. QED
      BY <2>2, <2>3 DEF Ready, AtLeast, Rank, NodesDone, FlatDone, WaysDone, RelationsDone, AirportsDone
  <1>2. QED
    BY <1>1, RunInvHolds, PTL

(* A finished import has every row, and every tag once but for what a      *)
(* resume wrote again without emptying it.                                 *)
THEOREM LoadIsOnce == Spec => []LoadedOnce
  <1>1. RunInv => LoadedOnce
    <2> SUFFICES ASSUME RunInv, pc = "done", NEW e \in Entities
                 PROVE  InTables(e) /\ (tags[e] = 1 \/ e \in hist.doubled)
      BY DEF LoadedOnce
    <2>1. NodesDone /\ WaysDone /\ RelationsDone
      BY DEF RunInv, Reached, Reach, PhaseNames
    <2>2. InTables(e)
      BY <2>1 DEF NodesDone, WaysDone, RelationsDone, Entities
    <2>3. tags[e] <= 1 \/ e \in hist.doubled
      BY DEF RunInv, TagsInTurn
    <2>4. QED
      BY <2>2, <2>3 DEF InTables, RunInv, TypeOK
  <1>2. QED
    BY <1>1, RunInvHolds, PTL

(* No part of the airports data is ever there twice, and a finished run    *)
(* leaves it whole or empty.                                               *)
THEOREM AirportsAreOnce == Spec => []AirportsOnce
  <1>1. RunInv => AirportsOnce
    <2> SUFFICES ASSUME RunInv PROVE AirportsOnce
      OBVIOUS
    <2>1. \A i \in AirportSteps : airports[i] <= 1
      BY DEF RunInv, AirportsInTurn, FirstParts
    <2>2. pc = "done" => AirportsDone
      BY DEF RunInv, Reached, Reach, PhaseNames
    <2>3. QED
      BY <2>1, <2>2 DEF AirportsOnce, AirportsDone
  <1>2. QED
    BY <1>1, RunInvHolds, PTL

(* Autovacuum is on when a run is done, unless the server refused. *)
THEOREM AutovacuumReturns == Spec => []AutovacuumBack
  <1>1. RunInv => AutovacuumBack
    BY DEF RunInv
  <1>2. QED
    BY <1>1, RunInvHolds, PTL
==============================================================================
