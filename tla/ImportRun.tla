------------------------------- MODULE ImportRun -------------------------------
(***************************************************************************)
(* The import as its operator sees it (main() of src/src/main.cpp): runs   *)
(* that may die anywhere, each started at a phase of -R no later than the  *)
(* one the operator knows the data to have reached, over the tables, the   *)
(* node files and the setting of the server that they share.               *)
(*                                                                         *)
(* A phase commits the row and then the tags of each of its entities.      *)
(* Module ImportPipeline justifies that a phase begins when the one before *)
(* has committed all of its own; merge() is one step here, and what a      *)
(* crash inside it costs is in NodeStore.  A way is "short" if it was      *)
(* drawn without some of its nodes, a relation if one of its ways is.      *)
(* Every entity has tags.                                                  *)
(***************************************************************************)
EXTENDS Integers, Sequences, FiniteSets

CONSTANTS Nodes,       \* 0 .. k - 1, in the order of the file
          Ways,
          Multis,      \* multipolygon relations, stored in areas
          Relations,   \* the others, stored in relations and roads
          Uses,        \* the nodes of a way, the ways of a relation
          Threads,     \* the values of -t considered
          MaxCrashes   \* bound on the crashes

Entities == Nodes \cup Ways \cup Multis \cup Relations

ASSUME EntityAssumption ==
    /\ Nodes \subseteq Nat
    /\ Nodes \cap Ways = {} /\ Nodes \cap Multis = {} /\ Nodes \cap Relations = {}
    /\ Ways \cap Multis = {} /\ Ways \cap Relations = {} /\ Multis \cap Relations = {}
    /\ Uses \in [Ways \cup Multis \cup Relations -> SUBSET (Nodes \cup Ways)]
    /\ \A w \in Ways : Uses[w] \subseteq Nodes
    /\ \A r \in Multis \cup Relations : Uses[r] \subseteq Ways
ASSUME ThreadAssumption == Threads \subseteq Nat \ {0} /\ MaxCrashes \in Nat

(* What -R may say, in the order of the phases. *)
PhaseNames == {"nodes", "merge", "ways", "reindex", "relations", "indexing", "airports", "vacuum"}
Rank(p) == CASE p = "nodes" -> 1     [] p = "merge" -> 2    [] p = "ways" -> 3
             [] p = "reindex" -> 4   [] p = "relations" -> 5 [] p = "indexing" -> 6
             [] p = "airports" -> 7  [] p = "vacuum" -> 8
AtLeast(p, q) == Rank(p) >= Rank(q)

(* The commits of the airports loader: countries, regions, airports and    *)
(* their tags, frequencies, runways, navaids and their tags.  The table of *)
(* the tags has no primary key.                                            *)
AirportSteps == 1 .. 8
Unkeyed == {4, 8}

(* The tables of each kind of entity; relations stands for roads as well.  *)
TableOf(e) == CASE e \in Nodes -> "nodes"  [] e \in Ways -> "ways"
                [] e \in Multis -> "areas" [] e \in Relations -> "relations"
TagsOf(e) == CASE e \in Nodes -> "node_tags"  [] e \in Ways -> "way_tags"
               [] e \in Multis -> "area_tags" [] e \in Relations -> "relation_tags"
AirportTable == <<"countries", "regions", "airports", "tags", "frequencies", "runways",
                  "navaids", "tags">>

(* The order in which initializeSchema drops tables and creates them. *)
RowTables == {"nodes", "ways", "areas", "relations"}
OsmDown == <<"node_tags", "way_tags", "area_tags", "relation_tags",
             "nodes", "ways", "areas", "relations">>
(* Tables of tags come before those of rows. *)
SlipOsmUp == OsmDown
OsmUp == <<"nodes", "ways", "areas", "relations",
           "node_tags", "way_tags", "area_tags", "relation_tags">>
(* The airports tables are forgotten. *)
SlipAirportsDown == << >>
AirportsDown == <<"tags", "runways", "frequencies", "navaids", "airports", "regions", "countries">>
AirportsUp == <<"countries", "regions", "airports", "tags", "frequencies", "runways", "navaids">>
Tables == {OsmUp[i] : i \in 1 .. 8} \cup {AirportsUp[i] : i \in 1 .. 7}

VARIABLES
    pc,        \* what the run is at, see TypeOK; "off": there is none
    entry,     \* its -R
    threads,   \* its -t
    todo,      \* entities of the phase that are not committed
    owing,     \* entities whose tags are still to be committed
    loaded,    \* commits of the airports loader
    known,     \* the phase that the operator takes the data to be in
    tables,    \* those that exist
    rows,      \* committed rows: "absent" | "short" | "whole"
    tags,      \* how often the tags of an entity are stored, two for more
    gist,      \* the spatial indexes exist
    airports,  \* how often each part of the airports data is stored
    autovacuum, \* it is on, for the whole server
    shards,    \* the nodes in each shard file
    flat,      \* the nodes in the flat file
    writers,   \* the -t that the shards were created with
    crashes,
    hist       \* history, read by the properties only

runVars   == <<pc, entry, threads, todo, owing, loaded>>
tableVars == <<tables, rows, tags, gist, airports>>
fileVars  == <<shards, flat, writers>>
vars == <<runVars, known, tableVars, autovacuum, fileVars, crashes, hist>>

------------------------------------------------------------------------------

ShardIds == UNION {0 .. t - 1 : t \in Threads}
Twice(n) == IF n = 0 THEN 1 ELSE 2
NoAirports == [i \in AirportSteps |-> 0]

Init ==
    /\ pc = "off" /\ entry = "nodes" /\ threads \in Threads
    /\ todo = {} /\ owing = {} /\ loaded = 0
    /\ known = "nodes"
    /\ tables = {}
    /\ rows = [e \in Entities |-> "absent"]
    /\ tags = [e \in Entities |-> 0]
    /\ gist = FALSE
    /\ airports = NoAirports
    /\ autovacuum = TRUE
    /\ shards = [i \in ShardIds |-> {}] /\ flat = {} /\ writers = threads
    /\ crashes = 0
    /\ hist = [doubled |-> {}, fewer |-> FALSE, kept |-> FALSE, onFailed |-> FALSE]

------------------------------------------------------------------------------
(* The operator *)

(* What a run started at phase p empties first, and what it writes. *)
Emptied(p) == CASE p = "ways" -> Ways \cup Multis
                [] p = "relations" -> Relations
                [] OTHER -> {}
Written(p) == CASE p = "nodes" -> Entities
                [] p \in {"merge", "ways"} -> Ways \cup Multis \cup Relations
                [] p = "relations" -> Multis \cup Relations
                [] OTHER -> {}
LoadPhases == {"nodes", "merge", "ways", "relations"}

(* -R p, by the documentation at any phase that has been reached, with any *)
(* -t, which only the node phase and the merge look at.  History takes     *)
(* down whose tags are there and will be written again, and whether there  *)
(* is airports data that will not be emptied.  Nothing looks whether the   *)
(* tables are there.                                                       *)
Start(p) ==
    /\ pc \in {"off", "done"}
    /\ AtLeast(known, p)
    /\ pc' = "switchOff" /\ entry' = p /\ known' = p
    /\ threads' \in IF p \in {"nodes", "merge"} THEN Threads ELSE {threads}
    /\ hist' = [hist EXCEPT
           !.doubled = @ \cup {e \in Written(p) \ Emptied(p) : tags[e] > 0},
           !.kept = @ \/ (p \in LoadPhases /\ airports # NoAirports)]
    /\ UNCHANGED <<todo, owing, loaded, tableVars, autovacuum, fileVars, crashes>>

(* -I, not to be combined with -R: everything from the start. *)
StartAnew ==
    /\ pc \in {"off", "done"}
    /\ pc' = "dropOsm" /\ entry' = "nodes" /\ known' = "nodes"
    /\ threads' \in Threads
    /\ UNCHANGED <<todo, owing, loaded, tableVars, autovacuum, fileVars, crashes, hist>>

(* The status line, once a second: the phase of a run that has one. *)
Refresh ==
    /\ entry \in LoadPhases
    /\ pc \in PhaseNames
    /\ known' = pc
    /\ UNCHANGED <<runVars, tableVars, autovacuum, fileVars, crashes, hist>>

------------------------------------------------------------------------------
(* The start of a run *)

(* initializeSchema commits its statements one by one.  The next table of  *)
(* an order that is in S:                                                  *)
NextIn(order, S) == {order[i] : i \in {j \in DOMAIN order :
                        order[j] \in S /\ \A k \in 1 .. j - 1 : order[k] \notin S}}

(* DROP TABLE IF EXISTS: what is in the table goes, and its indexes go. *)
DropTables(p, order, next) ==
    /\ pc = p
    /\ tables' = tables \ NextIn(order, tables)
    /\ pc' = IF NextIn(order, tables') = {} THEN next ELSE p
    /\ rows' = [e \in Entities |-> IF TableOf(e) \in tables' THEN rows[e] ELSE "absent"]
    /\ tags' = [e \in Entities |-> IF TagsOf(e) \in tables' THEN tags[e] ELSE 0]
    /\ airports' = [i \in AirportSteps |-> IF AirportTable[i] \in tables' THEN airports[i] ELSE 0]
    /\ gist' = (gist /\ RowTables \subseteq tables')
    /\ hist' = [hist EXCEPT !.doubled = {e \in @ : tags'[e] > 0},
                            !.kept = @ /\ airports' # NoAirports,
                            !.fewer = @ /\ \E e \in Entities : rows'[e] # "absent"]
    /\ UNCHANGED <<entry, threads, todo, owing, loaded, known, autovacuum, fileVars, crashes>>

CreateTables(p, order, next) ==
    /\ pc = p
    /\ tables' = tables \cup NextIn(order, Tables \ tables)
    /\ pc' = IF NextIn(order, Tables \ tables') = {} THEN next ELSE p
    /\ UNCHANGED <<entry, threads, todo, owing, loaded, known, rows, tags, gist, airports,
                   autovacuum, fileVars, crashes, hist>>

InitializeSchema ==
    \/ DropTables("dropOsm", OsmDown, "createOsm")
    \/ CreateTables("createOsm", OsmUp, "dropAirports")
    \/ DropTables("dropAirports", AirportsDown, "createAirports")
    \/ CreateTables("createAirports", AirportsUp, "switchOff")

(* setAutovacuum(false) logs an error and returns. *)
SwitchOff ==
    /\ pc = "switchOff"
    /\ autovacuum' \in {FALSE, autovacuum}
    /\ pc' = "prepare"
    /\ UNCHANGED <<entry, threads, todo, owing, loaded, known, tableVars, fileVars, crashes, hist>>

(* createFile *)
PrepareNodes ==
    /\ pc = "prepare" /\ entry = "nodes"
    /\ shards' = [i \in ShardIds |-> IF i < threads THEN {} ELSE shards[i]]
    /\ flat' = {} /\ writers' = threads
    /\ pc' = "nodes" /\ todo' = Nodes
    /\ UNCHANGED <<entry, threads, owing, loaded, known, tableVars, autovacuum, crashes, hist>>

(* The tables are left as they are. *)
SlipPrepareLoad ==
    /\ pc = "prepare" /\ entry \in {"ways", "relations"}
    /\ pc' = entry
    /\ todo' = IF entry = "ways" THEN Ways ELSE Multis \cup Relations
    /\ UNCHANGED <<entry, threads, owing, loaded, known, tableVars,
                   autovacuum, fileVars, crashes, hist>>

(* truncateForResume("ways"), truncateForResume("relations") *)
Truncated(p) == IF p = "ways" THEN {"ways", "areas", "way_tags", "area_tags"}
                ELSE {"relations", "relation_tags"}
PrepareLoad ==
    /\ pc = "prepare" /\ entry \in {"ways", "relations"}
    /\ Truncated(entry) \subseteq tables
    /\ rows' = [e \in Entities |-> IF e \in Emptied(entry) THEN "absent" ELSE rows[e]]
    /\ tags' = [e \in Entities |-> IF e \in Emptied(entry) THEN 0 ELSE tags[e]]
    /\ pc' = entry
    /\ todo' = IF entry = "ways" THEN Ways ELSE Multis \cup Relations
    /\ UNCHANGED <<entry, threads, owing, loaded, known, tables, gist, airports,
                   autovacuum, fileVars, crashes, hist>>

(* -R merge, -R indexing and -R vacuum go there as things are. *)
PrepareRest ==
    /\ pc = "prepare" /\ entry \in {"merge", "indexing", "airports", "vacuum"}
    /\ pc' = IF entry = "airports" THEN "clearAirports" ELSE entry
    /\ UNCHANGED <<entry, threads, todo, owing, loaded, known, tableVars,
                   autovacuum, fileVars, crashes, hist>>

Dies == pc' = "off" /\ todo' = {} /\ owing' = {} /\ loaded' = 0

(* -R reindex reads the nodes again, into shards that are not open: the    *)
(* first insert throws.                                                    *)
ReindexDies ==
    /\ pc = "prepare" /\ entry = "reindex"
    /\ Dies
    /\ UNCHANGED <<entry, threads, known, tableVars, autovacuum, fileVars, crashes, hist>>

------------------------------------------------------------------------------
(* The load *)

(* A node thread puts a node into its shard before it puts it into its     *)
(* buffer; nodes are dealt to the threads in turn.                         *)
Stored(e) == e \in Nodes => e \in shards[e % threads]
StoreNode(n) ==
    /\ pc = "nodes" /\ n \in todo /\ ~Stored(n)
    /\ shards' = [shards EXCEPT ![n % threads] = @ \cup {n}]
    /\ UNCHANGED <<runVars, known, tableVars, autovacuum, flat, writers, crashes, hist>>

Drawn(e) == \A x \in Uses[e] : IF e \in Ways THEN x \in flat ELSE rows[x] = "whole"

(* The row is committed.  One that is there already stays, and tryCopyBatch *)
(* gives it up if it finds no table; the tags are written in any case.     *)
CommitRow(e) ==
    /\ pc \in {"nodes", "ways", "relations"} /\ e \in todo /\ Stored(e)
    /\ e \in Nodes => rows[e] = "absent" /\ "nodes" \in tables
    /\ rows' = [rows EXCEPT ![e] = IF @ # "absent" \/ TableOf(e) \notin tables THEN @
                                   ELSE IF e \in Nodes \/ Drawn(e) THEN "whole" ELSE "short"]
    /\ todo' = todo \ {e} /\ owing' = owing \cup {e}
    /\ UNCHANGED <<pc, entry, threads, loaded, known, tables, tags, gist, airports,
                   autovacuum, fileVars, crashes, hist>>

(* flushNodes throws when a node is there already. *)
NodeCollides ==
    /\ pc = "nodes"
    /\ \E n \in todo : Stored(n) /\ rows[n] # "absent"
    /\ Dies
    /\ UNCHANGED <<entry, threads, known, tableVars, autovacuum, fileVars, crashes, hist>>

CommitTags(e) ==
    /\ e \in owing /\ TagsOf(e) \in tables
    /\ owing' = owing \ {e}
    /\ tags' = [tags EXCEPT ![e] = Twice(@)]
    /\ UNCHANGED <<pc, entry, threads, todo, loaded, known, tables, rows, gist, airports,
                   autovacuum, fileVars, crashes, hist>>

Committed == todo = {} /\ owing = {}

(* Threads have joined or passed the barrier, with empty buffers. *)
EndPhase(p, next, work) ==
    /\ pc = p /\ Committed
    /\ pc' = next /\ todo' = work
    /\ UNCHANGED <<entry, threads, owing, loaded, known, tableVars,
                   autovacuum, fileVars, crashes, hist>>

EndNodes == EndPhase("nodes", "merge", {})
EndWays == EndPhase("ways", "relations", Multis \cup Relations)
EndRelations == EndPhase("relations", "indexing", {})

(* merge(): the shards of the threads of this run, those that exist. *)
Merged == UNION {shards[i] : i \in {j \in ShardIds : j < threads}}

Merge ==
    /\ pc = "merge"
    /\ flat' = flat \cup Merged
    /\ shards' = [i \in ShardIds |-> IF i < threads THEN {} ELSE shards[i]]
    /\ pc' = "ways" /\ todo' = Ways
    /\ hist' = [hist EXCEPT !.fewer = @ \/ threads < writers]
    /\ UNCHANGED <<entry, threads, owing, loaded, known, tableVars, autovacuum, writers, crashes>>

------------------------------------------------------------------------------
(* After the load *)

(* createGistIndexes, one transaction; -R indexing then empties the        *)
(* airports tables, a run that comes from the load does not.               *)
CreateGistIndexes ==
    /\ pc = "indexing" /\ RowTables \subseteq tables
    /\ gist' = TRUE
    /\ pc' = IF entry = "indexing" THEN "clearAirports" ELSE "airports"
    /\ UNCHANGED <<entry, threads, todo, owing, loaded, known, tables, rows, tags, airports,
                   autovacuum, fileVars, crashes, hist>>

(* The tables are not emptied. *)
SlipClearAirports ==
    /\ pc = "clearAirports"
    /\ pc' = "airports"
    /\ UNCHANGED <<entry, threads, todo, owing, loaded, known, tableVars,
                   autovacuum, fileVars, crashes, hist>>

(* truncateForResume("airports") *)
ClearAirports ==
    /\ pc = "clearAirports" /\ {AirportTable[i] : i \in AirportSteps} \subseteq tables
    /\ airports' = NoAirports
    /\ pc' = "airports"
    /\ UNCHANGED <<entry, threads, todo, owing, loaded, known, tables, rows, tags, gist,
                   autovacuum, fileVars, crashes, hist>>

(* loadAirportsData: if one of the six downloads fails it returns, and the *)
(* run goes on.                                                            *)
DownloadFails ==
    /\ pc = "airports" /\ loaded = 0
    /\ pc' = "vacuum"
    /\ UNCHANGED <<entry, threads, todo, owing, loaded, known, tableVars,
                   autovacuum, fileVars, crashes, hist>>

(* The loads are counted on from one run to the next. *)
SlipLoadAirports ==
    LET i == loaded + 1 IN
    /\ pc = "airports" /\ AirportTable[i] \in tables
    /\ airports[i] = 0 \/ i \in Unkeyed
    /\ airports' = [airports EXCEPT ![i] = Twice(@)]
    /\ loaded' = i
    /\ pc' = IF i = 8 THEN "vacuum" ELSE pc
    /\ UNCHANGED <<entry, threads, todo, owing, known, tables, rows, tags, gist,
                   autovacuum, fileVars, crashes, hist>>

LoadAirports ==
    LET i == loaded + 1 IN
    /\ pc = "airports" /\ AirportTable[i] \in tables
    /\ airports[i] = 0 \/ i \in Unkeyed
    /\ airports' = [airports EXCEPT ![i] = Twice(@)]
    /\ IF i = 8 THEN pc' = "vacuum" /\ loaded' = 0 ELSE pc' = pc /\ loaded' = i
    /\ UNCHANGED <<entry, threads, todo, owing, known, tables, rows, tags, gist,
                   autovacuum, fileVars, crashes, hist>>

(* A row is there already, and nobody catches the exception. *)
AirportsCollide ==
    LET i == loaded + 1 IN
    /\ pc = "airports"
    /\ airports[i] # 0 /\ i \notin Unkeyed
    /\ Dies
    /\ UNCHANGED <<entry, threads, known, tableVars, autovacuum, fileVars, crashes, hist>>

(* The tables that the next statements of the run need: truncateForResume, *)
(* the COPY of nodes, that of any tags, createGistIndexes and the airports *)
(* loader throw without them.                                              *)
Needed ==
    CASE pc = "prepare" /\ entry \in {"ways", "relations"} -> Truncated(entry)
      [] pc \in {"nodes", "ways", "relations"} ->
             {TagsOf(e) : e \in owing} \cup {TableOf(n) : n \in {m \in todo \cap Nodes : Stored(m)}}
      [] pc = "indexing" -> RowTables
      [] pc = "clearAirports" -> {AirportTable[i] : i \in AirportSteps}
      [] pc = "airports" -> {AirportTable[loaded + 1]}
      [] OTHER -> {}
TableMissing ==
    /\ ~(Needed \subseteq tables)
    /\ Dies
    /\ UNCHANGED <<entry, threads, known, tableVars, autovacuum, fileVars, crashes, hist>>

(* vacuumAnalyze logs the tables it fails for and goes on. *)
Vacuum ==
    /\ pc = "vacuum"
    /\ pc' = "switchOn"
    /\ UNCHANGED <<entry, threads, todo, owing, loaded, known, tableVars,
                   autovacuum, fileVars, crashes, hist>>

(* Only a run that came from the load switches autovacuum on again. *)
SlipSwitchOn ==
    /\ pc = "switchOn"
    /\ autovacuum' = (autovacuum \/ entry \in LoadPhases)
    /\ pc' = "done" /\ known' = IF entry \in LoadPhases THEN "vacuum" ELSE known
    /\ UNCHANGED <<entry, threads, todo, owing, loaded, tableVars, fileVars, crashes, hist>>

(* setAutovacuum(true), which may fail like the other. *)
SwitchOn ==
    /\ pc = "switchOn"
    /\ autovacuum' \in {TRUE, autovacuum}
    /\ hist' = [hist EXCEPT !.onFailed = ~autovacuum']
    /\ pc' = "done" /\ known' = "vacuum"
    /\ UNCHANGED <<entry, threads, todo, owing, loaded, tableVars, fileVars, crashes>>

------------------------------------------------------------------------------

Crash ==
    /\ pc \notin {"off", "done"} /\ crashes < MaxCrashes
    /\ crashes' = crashes + 1
    /\ Dies
    /\ UNCHANGED <<entry, threads, known, tableVars, autovacuum, fileVars, hist>>

RunStep ==
    \/ InitializeSchema \/ SwitchOff
    \/ PrepareNodes \/ PrepareLoad \/ PrepareRest \/ ReindexDies
    \/ \E n \in Nodes : StoreNode(n)
    \/ \E e \in Entities : CommitRow(e) \/ CommitTags(e)
    \/ NodeCollides \/ EndNodes \/ Merge \/ EndWays \/ EndRelations
    \/ CreateGistIndexes \/ ClearAirports
    \/ DownloadFails \/ LoadAirports \/ AirportsCollide
    \/ TableMissing \/ Vacuum \/ SwitchOn

Next ==
    \/ \E p \in PhaseNames : Start(p)
    \/ StartAnew \/ Refresh \/ RunStep \/ Crash

Spec == Init /\ [][Next]_vars

(* A process runs, and the operator starts the import from the beginning   *)
(* if nothing else helps.                                                  *)
FairSpec == Spec /\ WF_vars(RunStep) /\ SF_vars(StartAnew)
------------------------------------------------------------------------------
(* Properties *)

TypeOK ==
    /\ pc \in PhaseNames \cup {"off", "dropOsm", "createOsm", "dropAirports", "createAirports",
                             "switchOff", "prepare", "clearAirports", "switchOn", "done"}
    /\ entry \in PhaseNames /\ known \in PhaseNames
    /\ threads \in Threads /\ writers \in Threads
    /\ todo \subseteq Entities /\ owing \subseteq Entities
    /\ loaded \in 0 .. 7
    /\ tables \subseteq Tables
    /\ gist \in BOOLEAN /\ autovacuum \in BOOLEAN
    /\ rows \in [Entities -> {"absent", "short", "whole"}]
    /\ tags \in [Entities -> 0 .. 2]
    /\ airports \in [AirportSteps -> 0 .. 2]
    /\ shards \in [ShardIds -> SUBSET Nodes] /\ flat \subseteq Nodes
    /\ crashes \in 0 .. MaxCrashes
    /\ hist \in [doubled : SUBSET Entities, fewer : BOOLEAN,
                 kept : BOOLEAN, onFailed : BOOLEAN]

(* The row and the tags of e are committed, the geometry complete unless   *)
(* some merge left shards out.                                             *)
InTables(e) ==
    /\ rows[e] = "whole" \/ (rows[e] = "short" /\ hist.fewer)
    /\ tags[e] >= 1

AirportsWhole == \E n \in {0, 1} : \A i \in AirportSteps : airports[i] = n

(* All that a resume at phase p takes for granted. *)
Ready(p) ==
    /\ AtLeast(p, "merge") =>
          (\A n \in Nodes : InTables(n)) /\ Nodes \subseteq flat \cup UNION {shards[i] : i \in ShardIds}
    /\ AtLeast(p, "ways") => flat = Nodes \/ hist.fewer
    /\ AtLeast(p, "relations") => \A w \in Ways : InTables(w)
    /\ AtLeast(p, "indexing") => \A r \in Multis \cup Relations : InTables(r)
    /\ AtLeast(p, "airports") => gist
    /\ AtLeast(p, "vacuum") => AirportsWhole \/ hist.kept

(* The phase an operator has seen, or has asked for, is one that -R may    *)
(* resume at: its prerequisites (main.cpp:369-372) are committed, wherever *)
(* the runs before died, be it between two statements of the schema.       *)
ResumePointHolds == Ready(known)

(* An import that is done has every row and every tag once, however often  *)
(* it died and wherever it was resumed, but for what a resume wrote again  *)
(* without emptying it: the multipolygons of -R relations, and what is of  *)
(* later phases than the one a run had reached.                            *)
LoadedOnce == pc = "done" =>
    \A e \in Entities : InTables(e) /\ (tags[e] = 1 \/ e \in hist.doubled)

(* The airports data is there as a whole or not at all when a run is done, *)
(* and no part of it ever twice, unless an import was resumed in its load  *)
(* with airports data in the tables (truncateForResume, loadAirportsData). *)
AirportsOnce ==
    /\ \A i \in AirportSteps : airports[i] <= 1
    /\ pc = "done" /\ ~hist.kept => AirportsWhole

(* A run that is done leaves autovacuum on, wherever it was resumed and    *)
(* whoever switched it off, unless the server refused.                     *)
AutovacuumBack == pc = "done" => autovacuum \/ hist.onFailed

(* With an operator who starts again from the beginning when nothing else  *)
(* helps, an import is done at last.                                       *)
ImportDone == []<>(pc = "done")
==============================================================================
