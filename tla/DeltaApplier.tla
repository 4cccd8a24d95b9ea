----------------------------- MODULE DeltaApplier -----------------------------
(***************************************************************************)
(* What a change file does to the tables (src/src/DeltaApplier.cpp): one   *)
(* handler per sort of entity and of change, over the NavDB of one thread, *)
(* whose inserts are buffered while updates and deletions are committed at *)
(* once, and over the flat file of the node store, which they read but in  *)
(* which only deletions show.                                              *)
(*                                                                         *)
(* map is the OpenStreetMap data the changes describe: a change is legal   *)
(* if it keeps references intact, as the OSM API does.  The tables should  *)
(* follow it.  Tags are functions from keys to values; a row keeps them in *)
(* place of the name column, which no filter touches.  Two nodes are never *)
(* in one place, and errors and crashes are left to Replicator.            *)
(***************************************************************************)
EXTENDS Integers, Sequences, FiniteSets, SequencesExt, Functions

CONSTANTS Nodes, Ways, Relations,
          Contents,    \* what each entity may be made of
          Imported,    \* what the import has loaded, NoContent for the rest
          AreasByTags, \* the ways that it stored in areas
          Assembled,   \* the multipolygons whose rings it could close
          AlphaNum,    \* the keys and values made of letters and digits only
          Rooms,       \* way_buffer_size_ of the runs considered
          NodeRoom,    \* NODE_BUFFER_SIZE
          MaxChanges,  \* bound on the changes of a behaviour
          NoContent

Entities == Nodes \cup Ways \cup Relations
Tables == {"nodes", "ways", "areas", "roads", "relations"}

ASSUME EntityAssumption ==
    /\ Nodes \cap Ways = {} /\ Ways \cap Relations = {} /\ Nodes \cap Relations = {}
    /\ \A e \in Entities : NoContent \notin Contents[e]
    /\ DOMAIN Imported = Entities
    /\ \A e \in Entities : Imported[e] \in Contents[e] \cup {NoContent}
    /\ \A n \in Nodes : \A c \in Contents[n] : c.at \in Nat \ {0}
    /\ \A w \in Ways : \A c \in Contents[w] : Range(c.refs) \subseteq Nodes
ASSUME RoomAssumption ==
    Rooms \subseteq Nat \ {0} /\ NodeRoom \in Nat \ {0} /\ MaxChanges \in Nat

VARIABLES
    map,     \* the map after the changes so far
    flat,    \* the flat file of the node store: a position, 0 for none
    rows,    \* committed rows of each table
    tagRows, \* committed tags: for table, entity and key the values of its rows
    buf,     \* row buffers
    tagBuf,  \* tag buffers
    room,    \* way_buffer_size_
    status,  \* "applying" | "flushed" | "dead"
    count,   \* changes applied
    hist     \* history, read by the properties only

dbVars == <<rows, tagRows, buf, tagBuf>>
vars == <<map, flat, dbVars, room, status, count, hist>>

------------------------------------------------------------------------------
(* Tags and geometries *)

Keys == UNION {DOMAIN c.tags : c \in UNION {Contents[e] : e \in Entities}}

Has(tags, k, v) == k \in DOMAIN tags /\ tags[k] = v
IsRoad(tags) == Has(tags, "route", "road") \/ "highway" \in DOMAIN tags
IsMultipolygon(tags) == Has(tags, "type", "multipolygon") \/ Has(tags, "type", "boundary")

(* The tags that an insert keeps, allAlphaNum in key and value. *)
Kept(tags) ==
    Restrict(tags, {k \in DOMAIN tags : k \in AlphaNum /\ tags[k] \in AlphaNum})

(* The import projects the point of a node, unless told not to by -L; the  *)
(* changes store it as it is.                                              *)
Projected(at) == [at |-> at, unit |-> "metre"]
Unprojected(at) == [at |-> at, unit |-> "degree"]

(* The points select() finds for the references of a way. *)
Found(located) == LET OnMap(p) == p[2] # 0 IN SelectSeq(located, OnMap)
Points(refs, places) == Found([i \in DOMAIN refs |-> <<refs[i], places[refs[i]]>>])

Drawn(geog) == Len(geog) >= 2
Closed(geog) == Len(geog) >= 4 /\ geog[1] = geog[Len(geog)]

Row(tags, geog) == [tags |-> tags, geog |-> geog]
NoRow == [missing |-> TRUE]

(* mergeLinestrings takes the members that are no polygons. *)
WayGeog(r, w) == IF r["ways"][w] # NoRow THEN r["ways"][w].geog
                 ELSE IF r["areas"][w] # NoRow THEN r["areas"][w].geog ELSE <<>>
RelationGeog(r, members) ==
    FlattenSeq([i \in DOMAIN members |->
                   IF Closed(WayGeog(r, members[i])) THEN <<>> ELSE WayGeog(r, members[i])])
RingsGeog(r, members) == FlattenSeq([i \in DOMAIN members |-> WayGeog(r, members[i])])

------------------------------------------------------------------------------
(* The import: each way that could be drawn in the table of its sort, the  *)
(* multipolygons with rings in areas, the tags that an insert keeps once.  *)

InImport(e) == Imported[e] # NoContent
ImportedPlaces == [n \in Nodes |-> IF InImport(n) THEN Imported[n].at ELSE 0]
ImportedTable(e) ==
    CASE e \in Nodes -> "nodes"
      [] e \in Ways -> IF e \in AreasByTags THEN "areas" ELSE "ways"
      [] e \in Relations -> IF IsMultipolygon(Imported[e].tags) THEN "areas" ELSE "relations"

ImportedRow(e, r) ==
    Row(Imported[e].tags,
        CASE e \in Nodes -> Projected(Imported[e].at)
          [] e \in Ways -> Points(Imported[e].refs, ImportedPlaces)
          [] e \in Relations -> IF ImportedTable(e) = "areas"
                                THEN RingsGeog(r, Imported[e].members)
                                ELSE RelationGeog(r, Imported[e].members))

NoRows == [t \in Tables |-> [e \in Entities |-> NoRow]]
NoTags == [k \in Keys |-> <<>>]
Stores(e) ==
    /\ InImport(e)
    /\ e \in Nodes => Imported[e].tags # <<>>
    /\ e \in Ways => Drawn(Points(Imported[e].refs, ImportedPlaces))
    /\ e \in Relations => ImportedTable(e) = "relations" \/ e \in Assembled
Stored(r, t, e) == IF Stores(e) /\ t = ImportedTable(e) THEN ImportedRow(e, r) ELSE NoRow
ImportedWays == [t \in Tables |-> [e \in Entities |->
                    IF e \in Ways THEN Stored(NoRows, t, e) ELSE NoRow]]
ImportedRows == [t \in Tables |-> [e \in Entities |->
    IF t = "roads"
    THEN IF /\ e \in Relations /\ InImport(e) /\ ImportedTable(e) = "relations"
            /\ IsRoad(Imported[e].tags) /\ ImportedRow(e, ImportedWays).geog # <<>>
         THEN ImportedRow(e, ImportedWays) ELSE NoRow
    ELSE Stored(ImportedWays, t, e)]]

Once(tags) == [k \in Keys |-> IF k \in DOMAIN tags THEN <<tags[k]>> ELSE <<>>]

Init ==
    /\ map = Imported
    /\ flat = ImportedPlaces
    /\ rows = ImportedRows
    /\ tagRows = [t \in Tables |-> [e \in Entities |->
                     IF rows[t][e] = NoRow THEN NoTags ELSE Once(Kept(rows[t][e].tags))]]
    /\ buf = [t \in Tables |-> <<>>]
    /\ tagBuf = [b \in {"tag", "way", "area"} |-> <<>>]
    /\ room \in Rooms
    /\ status = "applying"
    /\ count = 0
    /\ hist = [overtaken |-> {}, lost |-> {}, undrawn |-> {w \in Ways : InImport(w) /\ ~Stores(w)},
               moved |-> {}, born |-> {}]

------------------------------------------------------------------------------
(* NavDB, as functions of the state of the database and the buffers *)

Db == [rows |-> rows, tags |-> tagRows, buf |-> buf, tagBuf |-> tagBuf, dead |-> FALSE]
SetDb(d) ==
    /\ rows' = d.rows /\ tagRows' = d.tags /\ buf' = d.buf /\ tagBuf' = d.tagBuf
    /\ status' = IF d.dead THEN "dead" ELSE "applying"

BufferOf(t) == CASE t = "ways" -> "way" [] t = "areas" -> "area" [] OTHER -> "tag"

(* The comparison of the nodes is taken for that of the relations. *)
SlipFull(t, n) == CASE t = "nodes" -> n > NodeRoom
                    [] t = "ways"  -> n > room
                    [] OTHER       -> n > room

Full(t, n) == CASE t = "nodes" -> n >= NodeRoom
                [] t = "ways"  -> n >= room
                [] OTHER       -> n > room

(* The values of a key among the tags of a buffer that are an entity's. The *)
(* rows of a table have no order.                                          *)
Values(pushed, e, k) ==
    LET mine == SetToSeq({i \in DOMAIN pushed : pushed[i].id = e /\ k \in DOMAIN pushed[i].tags})
    IN [i \in DOMAIN mine |-> pushed[mine[i]].tags[k]]

(* The tags of a buffer go to the table that is flushed, whoever's they are. *)
FlushTags(d, t) ==
    LET pushed == d.tagBuf[BufferOf(t)] IN
    [d EXCEPT !.tags[t] = [e \in Entities |-> [k \in Keys |-> @[e][k] \o Values(pushed, e, k)]],
              !.tagBuf[BufferOf(t)] = <<>>]

(* Of the rows with one key the first stays: the others make the COPY fail *)
(* and tryCopyBatch leaves them out.                                       *)
First(b, e) == b[CHOOSE i \in DOMAIN b : b[i].id = e /\ \A j \in 1 .. i - 1 : b[j].id # e]
CopyRows(d, t) ==
    [d EXCEPT !.rows[t] = [e \in Entities |->
        IF @[e] = NoRow /\ \E i \in DOMAIN d.buf[t] : d.buf[t][i].id = e
        THEN First(d.buf[t], e).row ELSE @[e]]]

(* flushNodes has no retry. *)
Collides(d, t) ==
    \E i \in DOMAIN d.buf[t] :
        \/ d.rows[t][d.buf[t][i].id] # NoRow
        \/ \E j \in 1 .. i - 1 : d.buf[t][j].id = d.buf[t][i].id
Flush(d, t) ==
    IF d.buf[t] = <<>> THEN d
    ELSE IF t = "nodes" /\ Collides(d, t) THEN [d EXCEPT !.dead = TRUE]
    ELSE [FlushTags(CopyRows(d, t), t) EXCEPT !.buf[t] = <<>>]

(* insertNode, insertWay, insertArea, insertRoad, insertRelation; addTags, *)
(* addWayTags, addAreaTags                                                 *)
Insert(d, t, e, row) ==
    LET filled == [d EXCEPT !.buf[t] = Append(@, [id |-> e, row |-> row]),
                            !.tagBuf[BufferOf(t)] = Append(@, [id |-> e, tags |-> Kept(row.tags)])]
    IN IF Full(t, Len(filled.buf[t])) THEN Flush(filled, t) ELSE filled

(* A key that stays is taken for one to remove. *)
SlipDiff(values, k, tags, lucky) ==
    IF k \notin DOMAIN tags \/ values # <<>> THEN <<>>
    ELSE <<tags[k]>>

(* diffTags for one key: insert, update all its rows, leave or remove it,  *)
(* alphanumeric or not.                                                    *)
(* When rows of the key differ, what is compared is the one read last.     *)
Diff(values, k, tags, lucky) ==
    IF k \notin DOMAIN tags THEN <<>>
    ELSE IF values = <<>> THEN <<tags[k]>>
    ELSE IF lucky /\ tags[k] \in Range(values) THEN values
    ELSE [i \in DOMAIN values |-> tags[k]]

(* updateNode, updateWay, updateArea, updateRelation: UPDATE changes a row *)
(* that is there.                                                          *)
Update(d, t, e, row, lucky) ==
    [d EXCEPT !.rows[t][e] = IF @ = NoRow THEN NoRow ELSE row,
              !.tags[t][e] = [k \in Keys |-> Diff(@[k], k, row.tags, lucky)]]

Delete(d, t, e) == [d EXCEPT !.rows[t][e] = NoRow, !.tags[t][e] = NoTags]

------------------------------------------------------------------------------
(* History: overtaken entities had a row in a buffer when a later change   *)
(* came; lost ways have been modified since they were created; undrawn     *)
(* ways had fewer than two points when they last changed; moved nodes have *)
(* been created or modified; born entities have been created.              *)

Buffered(e) == \E t \in Tables : \E i \in DOMAIN buf[t] : buf[t][i].id = e
Overtaken(e) == IF Buffered(e) THEN {e} ELSE {}

Step(e, content) ==
    /\ status # "dead" /\ count < MaxChanges
    /\ count' = count + 1
    /\ map' = [map EXCEPT ![e] = content]
    /\ UNCHANGED room

Creates(e, c) == map[e] = NoContent /\ c \in Contents[e]
Modifies(e, c) == map[e] # NoContent /\ c \in Contents[e]

(* References are intact before and after every change. *)
Alive(e) == map[e] # NoContent
NodeFree(n) == \A w \in Ways : Alive(w) => n \notin Range(map[w].refs)
WayFree(w)  == \A r \in Relations : Alive(r) => w \notin Range(map[r].members)
RefsAlive(w, c) == \A n \in Range(c.refs) : Alive(n)
MembersAlive(r, c) == \A w \in Range(c.members) : Alive(w)

------------------------------------------------------------------------------
(* Nodes.  insert() puts the node into a shard that nothing merges, so the *)
(* flat file stays as it is.                                               *)

CreateNode(n) == \E c \in Contents[n] :
    /\ Creates(n, c)
    /\ Step(n, c)
    /\ IF c.tags = <<>> THEN SetDb(Db) ELSE SetDb(Insert(Db, "nodes", n, Row(c.tags, Unprojected(c.at))))
    /\ hist' = [hist EXCEPT !.moved = @ \cup {n}, !.born = @ \cup {n},
                            !.overtaken = @ \cup Overtaken(n)]
    /\ UNCHANGED flat

ModifyNode(n) == \E c \in Contents[n], lucky \in BOOLEAN :
    /\ Modifies(n, c)
    /\ Step(n, c)
    /\ SetDb(Update(Db, "nodes", n, Row(c.tags, Unprojected(c.at)), lucky))
    /\ hist' = [hist EXCEPT !.moved = @ \cup {n}, !.overtaken = @ \cup Overtaken(n)]
    /\ UNCHANGED flat

(* The flat file keeps the node. *)
SlipDeleteNode(n) ==
    /\ Alive(n) /\ NodeFree(n)
    /\ Step(n, NoContent)
    /\ UNCHANGED flat
    /\ SetDb(Delete(Db, "nodes", n))
    /\ hist' = [hist EXCEPT !.overtaken = @ \cup Overtaken(n)]

DeleteNode(n) ==
    /\ Alive(n) /\ NodeFree(n)
    /\ Step(n, NoContent)
    /\ flat' = [flat EXCEPT ![n] = 0]
    /\ SetDb(Delete(Db, "nodes", n))
    /\ hist' = [hist EXCEPT !.overtaken = @ \cup Overtaken(n)]

------------------------------------------------------------------------------
(* Ways: every closed one is an area here, whatever its tags. *)

TableFor(geog) == IF Closed(geog) THEN "areas" ELSE "ways"

CreateWay(w) == \E c \in Contents[w] :
    LET geog == Points(c.refs, flat) IN
    /\ Creates(w, c) /\ RefsAlive(w, c)
    /\ Step(w, c)
    /\ IF Drawn(geog) THEN SetDb(Insert(Db, TableFor(geog), w, Row(c.tags, geog))) ELSE SetDb(Db)
    /\ hist' = [hist EXCEPT !.born = @ \cup {w}, !.lost = @ \ {w},
                            !.undrawn = IF Drawn(geog) THEN @ \ {w} ELSE @ \cup {w},
                            !.overtaken = @ \cup Overtaken(w)]
    /\ UNCHANGED flat

(* The row is deleted from both tables and updated in one of them. *)
ModifyWay(w) == \E c \in Contents[w], lucky \in BOOLEAN :
    LET geog == Points(c.refs, flat)
        gone == Delete(Delete(Db, "ways", w), "areas", w)
    IN
    /\ Modifies(w, c) /\ RefsAlive(w, c)
    /\ Step(w, c)
    /\ IF Drawn(geog) THEN SetDb(Update(gone, TableFor(geog), w, Row(c.tags, geog), lucky))
                      ELSE SetDb(Db)
    /\ hist' = [hist EXCEPT !.lost = IF Drawn(geog) THEN @ \cup {w} ELSE @,
                            !.undrawn = IF Drawn(geog) THEN @ \ {w} ELSE @ \cup {w},
                            !.overtaken = @ \cup Overtaken(w)]
    /\ UNCHANGED flat

(* Only one of the two tables is cleared. *)
SlipDeleteWay(w) ==
    /\ Alive(w) /\ WayFree(w)
    /\ Step(w, NoContent)
    /\ SetDb(Delete(Db, "ways", w))
    /\ hist' = [hist EXCEPT !.overtaken = @ \cup Overtaken(w)]
    /\ UNCHANGED flat

DeleteWay(w) ==
    /\ Alive(w) /\ WayFree(w)
    /\ Step(w, NoContent)
    /\ SetDb(Delete(Delete(Db, "ways", w), "areas", w))
    /\ hist' = [hist EXCEPT !.overtaken = @ \cup Overtaken(w)]
    /\ UNCHANGED flat

------------------------------------------------------------------------------
(* Relations, and the roads among them *)

SyncRoad(d, r, row) ==
    IF IsRoad(row.tags) /\ row.geog # <<>> THEN Insert(d, "roads", r, row) ELSE d

CreateRelation(r) == \E c \in Contents[r] :
    LET row == Row(c.tags, RelationGeog(rows, c.members)) IN
    /\ Creates(r, c) /\ MembersAlive(r, c)
    /\ Step(r, c)
    /\ SetDb(SyncRoad(Insert(Db, "relations", r, row), r, row))
    /\ hist' = [hist EXCEPT !.born = @ \cup {r}, !.overtaken = @ \cup Overtaken(r)]
    /\ UNCHANGED flat

(* The old road is not deleted. *)
SlipModifyRelation(r) == \E c \in Contents[r], lucky \in BOOLEAN :
    LET row == Row(c.tags, RelationGeog(rows, c.members)) IN
    /\ Modifies(r, c) /\ MembersAlive(r, c)
    /\ Step(r, c)
    /\ SetDb(SyncRoad(Update(Db, "relations", r, row, lucky), r, row))
    /\ hist' = [hist EXCEPT !.overtaken = @ \cup Overtaken(r)]
    /\ UNCHANGED flat

ModifyRelation(r) == \E c \in Contents[r], lucky \in BOOLEAN :
    LET row == Row(c.tags, RelationGeog(rows, c.members)) IN
    /\ Modifies(r, c) /\ MembersAlive(r, c)
    /\ Step(r, c)
    /\ SetDb(SyncRoad(Delete(Update(Db, "relations", r, row, lucky), "roads", r), r, row))
    /\ hist' = [hist EXCEPT !.overtaken = @ \cup Overtaken(r)]
    /\ UNCHANGED flat

DeleteRelation(r) ==
    /\ Alive(r)
    /\ Step(r, NoContent)
    /\ SetDb(Delete(Delete(Db, "relations", r), "roads", r))
    /\ hist' = [hist EXCEPT !.overtaken = @ \cup Overtaken(r)]
    /\ UNCHANGED flat

------------------------------------------------------------------------------

(* flush() at the end of a file: finalize_ways, _roads, _relations *)
FlushAll(d) == Flush(Flush(Flush(Flush(d, "ways"), "areas"), "roads"), "relations")
EndFile ==
    /\ status = "applying"
    /\ LET d == FlushAll(Db) IN
          /\ rows' = d.rows /\ tagRows' = d.tags /\ buf' = d.buf /\ tagBuf' = d.tagBuf
    /\ status' = "flushed"
    /\ UNCHANGED <<map, flat, room, count, hist>>

Next == \/ \E n \in Nodes : CreateNode(n) \/ ModifyNode(n) \/ DeleteNode(n)
        \/ \E w \in Ways : CreateWay(w) \/ ModifyWay(w) \/ DeleteWay(w)
        \/ \E r \in Relations : CreateRelation(r) \/ ModifyRelation(r) \/ DeleteRelation(r)
        \/ EndFile

Spec == Init /\ [][Next]_vars

------------------------------------------------------------------------------
(* What the tables owe to the map once a file has been flushed.  Left out  *)
(* by name: entities overtaken by a later change while a row of theirs was *)
(* buffered, and the multipolygons of the import, whose row in areas no    *)
(* change touches.                                                         *)

(* Types, and no buffer ever holds more rows than its room. *)
TypeOK ==
    /\ \A e \in Entities : map[e] \in Contents[e] \cup {NoContent}
    /\ flat \in [Nodes -> Nat]
    /\ DOMAIN rows = Tables /\ DOMAIN tagRows = Tables
    /\ \A t \in Tables, e \in Entities :
          /\ rows[t][e] # NoRow => DOMAIN rows[t][e].tags \subseteq Keys
          /\ DOMAIN tagRows[t][e] = Keys
    /\ \A t \in Tables : \A i \in DOMAIN buf[t] : buf[t][i].id \in Entities
    /\ status # "dead" => \A t \in Tables : Len(buf[t]) <= (IF t = "nodes" THEN NodeRoom - 1
                                                          ELSE IF t = "ways" THEN room - 1
                                                          ELSE room)
    /\ room \in Rooms
    /\ status \in {"applying", "flushed", "dead"}
    /\ count \in 0 .. MaxChanges
    /\ \A h \in DOMAIN hist : hist[h] \subseteq Entities

ImportedMultipolygon(e) ==
    e \in Relations /\ InImport(e) /\ IsMultipolygon(Imported[e].tags)
Followed(e) == e \notin hist.overtaken /\ ~ImportedMultipolygon(e)

OwnTables(e) == CASE e \in Nodes -> {"nodes"}
                  [] e \in Ways -> {"ways", "areas"}
                  [] e \in Relations -> {"relations", "roads"}

(* relations has a row for every relation of the map and for no other, and *)
(* it names the tags of the map, whatever was created, modified, deleted   *)
(* and created again (createRelation, modifyRelation, deleteRelation).     *)
RelationsMirror == status = "flushed" =>
    \A r \in Relations : Followed(r) =>
        /\ rows["relations"][r] # NoRow <=> Alive(r)
        /\ Alive(r) => rows["relations"][r].tags = map[r].tags

(* A relation stands in roads exactly when it is a road with a geometry,   *)
(* and both of its rows agree: none is left behind when it stops being one *)
(* (the "Sync roads table" of modifyRelation).                             *)
RoadsFollowRelations == status = "flushed" =>
    \A r \in Relations : Followed(r) =>
        LET row == rows["relations"][r] IN
        rows["roads"][r] =
            IF row # NoRow /\ IsRoad(row.tags) /\ row.geog # <<>> THEN row ELSE NoRow

(* What is deleted from the map has no row and no tag left in a table of   *)
(* its own, in whichever table its earlier versions were (deleteNode,      *)
(* deleteWay, deleteRelation).                                             *)
DeletedGone == status = "flushed" =>
    \A e \in Entities : ~Alive(e) /\ Followed(e) =>
        \A t \in OwnTables(e) : rows[t][e] = NoRow /\ tagRows[t][e] = NoTags

(* The tags that the last change of an entity should have left: all after  *)
(* an update, after an insert those that it keeps.                         *)
DueTags(e) ==
    LET updated == IF e \in Nodes THEN hist.moved ELSE hist.lost
    IN IF e \in updated THEN map[e].tags ELSE Kept(map[e].tags)

(* Every tag due to a way is stored once, and no other, in one of its two  *)
(* tables however often it moves between them, and so it is for the nodes  *)
(* of the import (diffTags, deleteEntity).  A way that was last imported   *)
(* or created lacks the tags that are not alphanumeric, one that was last  *)
(* modified has them.  Ways too short to be drawn keep the tags they had;  *)
(* the tags of created nodes and relations are in RowsComplete of NavDB.   *)
TagsMirror == status = "flushed" =>
    \A e \in Nodes \cup Ways :
        Alive(e) /\ Followed(e) /\ e \notin hist.undrawn /\ (e \in Nodes => e \notin hist.born) =>
            \E t \in OwnTables(e) :
                  /\ tagRows[t][e] = Once(DueTags(e))
                  /\ \A u \in OwnTables(e) \ {t} : tagRows[u][e] = NoTags

(* Where the import put the nodes that no change has created. *)
KnownPlaces == [n \in Nodes |-> IF n \in hist.born THEN 0 ELSE ImportedPlaces[n]]
Known(refs) == Points(refs, KnownPlaces)

(* No way is in ways and in areas at once, and a way of at least two nodes *)
(* of the import has a row, unless it has been modified: modifyWay deletes *)
(* the row that it then updates, so a way that it could draw has none.     *)
WaysMirror == status = "flushed" =>
    \A w \in Ways : Followed(w) =>
        LET stored == {t \in OwnTables(w) : rows[t][w] # NoRow} IN
        /\ Cardinality(stored) <= 1
        /\ Alive(w) /\ w \notin hist.lost /\ Drawn(Known(map[w].refs)) => stored # {}
        /\ Alive(w) /\ w \in hist.lost => stored = {}

(* Whatever the order of changes and flushes and the versions before: a    *)
(* relation has its row, a way that was imported or created and could be   *)
(* drawn has one, and nothing is left of what is deleted.  Of the rows of  *)
(* living nodes, of ways that were modified and of what a later change has *)
(* overtaken in a buffer nothing is claimed but what the parts say.        *)
RowsMirror == RelationsMirror /\ WaysMirror /\ DeletedGone

(* A way is drawn through the nodes of its last version, in their order,   *)
(* where the import put them: a node created by a change is left out, even *)
(* one that takes the place of a deleted node of the import (buildWayGeom, *)
(* OSMMMap::remove).                                                       *)
WaysDrawnFromImport == status = "flushed" =>
    \A w \in Ways : Alive(w) /\ Followed(w) /\ w \notin hist.undrawn =>
        \A t \in OwnTables(w) : rows[t][w] # NoRow =>
            rows[t][w] = Row(map[w].tags, Known(map[w].refs))
==============================================================================
