---------------------------- MODULE ImportPipeline ----------------------------
(***************************************************************************)
(* The threads of one import run (src/src/main.cpp): the reading thread    *)
(* main(), the node threads with their queues and node_barrier, whose      *)
(* completion merges the node shards, and the way threads that share       *)
(* way_q, meet at way_barrier and write through one NavDB buffer each.     *)
(*                                                                         *)
(* An entity is its index in the file; its kind says what the code decides *)
(* from its tags.  A row is <<id, found>>: found is the set of entities    *)
(* the geometry was assembled from at the moment it was assembled, so a    *)
(* lookup made too early shows in the row.  Queue operations are atomic,   *)
(* which module BlockingQueue justifies.                                   *)
(***************************************************************************)
EXTENDS Integers, Sequences, FiniteSets

CONSTANTS NumNodeThreads,  \* -t
          NumWayThreads,   \* -w
          QueueSize,       \* -q, the bound of every queue
          NodeBufferSize,  \* NODE_BUFFER_SIZE
          WayBufferSize,   \* WAY_BUFFER_SIZE
          Stagger,         \* the 137 by which thread ids spread the thresholds
          BlobSize,        \* entities per PBF blob
          Files,           \* the PBF files considered, sequences of kinds
          Modes            \* subset of {"nodes", "merge", "ways", "relations"}

NodeKinds == {"bare", "node"}            \* without tags, with tags
(* A way is a line; a loop is closed and no area; the nodes of a stub are  *)
(* not in the file.                                                        *)
WayKinds  == {"way", "loop", "area", "stub"}
RelationKinds == {"relation", "road", "multi", "broken"}
Kinds == NodeKinds \cup WayKinds \cup RelationKinds

Stage(kind) == IF kind \in NodeKinds THEN 1 ELSE IF kind \in WayKinds THEN 2 ELSE 3

Tables == {"nodes", "ways", "areas", "relations", "roads"}

ASSUME SizeAssumption ==
    /\ NumNodeThreads \in Nat \ {0}
    /\ NumWayThreads \in Nat \ {0}
    /\ QueueSize \in Nat \ {0}
    /\ NodeBufferSize \in Nat \ {0}
    /\ WayBufferSize \in Nat \ {0}
    /\ Stagger \in Nat
    /\ BlobSize \in Nat \ {0}
ASSUME ModeAssumption == Modes \subseteq {"nodes", "merge", "ways", "relations"}

(* PBF files are sorted: nodes, then ways, then relations. *)
ASSUME FileAssumption ==
    \A f \in Files :
        /\ f \in Seq(Kinds)
        /\ \A i, j \in DOMAIN f : i < j => Stage(f[i]) <= Stage(f[j])

NodeThreads == 0 .. NumNodeThreads - 1
WayThreads  == 0 .. NumWayThreads - 1

VARIABLES
    file,         \* the PBF file read by this run
    mode,         \* what -R says, "nodes" when absent
    pos,          \* index of the next entity main() handles
    mpc,          \* main(): "reading" | "spinning" | "joinNodes" | "joinWays" | "loaded"
    nodePhase,    \* node_phase
    rr,           \* nodes handed out so far, for the round robin
    nodeOffset,   \* content of <nodes_file>.offset, 0 when absent
    relOffset,    \* content of <nodes_file>.relations_offset, 0 when absent
    nq,           \* node queues
    nqStop,       \* they are shut down
    npc,          \* node threads: "loop" | "barrier" | "done"
    nbuf,         \* node_buf_ of each node thread's NavDB
    shard,        \* nodes in each shard file
    merging,      \* number of shards merge() has consumed
    merged,       \* nodes select() finds
    mergeDone,    \* merge_done
    wq,           \* way_q
    wqStop,       \* it is shut down
    wpc,          \* way threads, see TypeOK
    hand,         \* entity a way thread is working on, 0 if none
    wayPhaseDone, \* way_phase_done of each way thread
    arrived,      \* way threads that have arrived at way_barrier
    buf,          \* row buffers of each way thread's NavDB, per table
    db            \* committed rows, per table

inputVars  == <<file, mode>>
mainVars   == <<pos, mpc, nodePhase, rr, nodeOffset, relOffset>>
nodeQVars  == <<nq, nqStop>>
nodeVars   == <<npc, nbuf, shard>>
mergeVars  == <<merging, merged, mergeDone>>
wayQVars   == <<wq, wqStop>>
wayVars    == <<wpc, hand, wayPhaseDone, arrived, buf>>
vars == <<inputVars, mainVars, nodeQVars, nodeVars, mergeVars, wayQVars, wayVars, db>>

------------------------------------------------------------------------------
(* The file and what a complete import makes of it. *)

Entities == DOMAIN file
OfKinds(K) == {i \in Entities : file[i] \in K}
NodeIds == OfKinds(NodeKinds)

(* buildWayGeom gives no geometry to fewer than two points. *)
HasGeometry(found) == Cardinality(found) >= 2

Refs(i) == IF file[i] = "stub" THEN {} ELSE NodeIds
WayIds == {i \in OfKinds(WayKinds) : HasGeometry(Refs(i))}

(* The ways that mergeWayGeoms can join: those that are no polygons. *)
Lines(ways) == {i \in ways : file[i] = "way"}
LineIds == Lines(WayIds)

RowId(row) == row[1]
Ids(rows) == {RowId(row) : row \in rows}

Expected == [table \in Tables |->
    CASE table = "nodes" -> {<<i, {}>> : i \in OfKinds({"node"})}
      [] table = "ways"  -> {<<i, NodeIds>> : i \in WayIds \cap OfKinds({"way", "loop"})}
      [] table = "areas" -> {<<i, NodeIds>> : i \in WayIds \cap OfKinds({"area"})}
                       \cup {<<-i, WayIds>> : i \in IF WayIds = {} THEN {} ELSE OfKinds({"multi"})}
      [] table = "relations" -> {<<i, LineIds>> : i \in OfKinds({"relation", "road"})}
      [] table = "roads" -> {<<i, LineIds>> : i \in IF LineIds = {} THEN {} ELSE OfKinds({"road"})}]

(* In areas, the rows of ways have their id, those of relations its negation. *)
IsWayRow(row) == row[1] > 0
WayRows(rows) == {row \in rows : IsWayRow(row)}

Firsts(K) == {i \in OfKinds(K) : \A j \in OfKinds(K) : i <= j}

(* Definitions named Slip... are what the code would be with one plausible  *)
(* mistake; nothing uses them but the mutants of PROJECT.json.             *)
(* The blob before is taken.                                               *)
SlipBlobStart(i) == ((i - 1) \div BlobSize - 1) * BlobSize + 1

(* Position of the blob that holds entity i. *)
BlobStart(i) == ((i - 1) \div BlobSize) * BlobSize + 1
NotNodes == WayKinds \cup RelationKinds

------------------------------------------------------------------------------
(* NavDB: a COPY adds the rows whose key is not in the table yet; the      *)
(* others are the bad rows tryCopyBatch removes.                           *)

Copied(table, rows) == table \cup {row \in rows : RowId(row) \notin Ids(table)}

BufferLimit(t) == WayBufferSize + (NumNodeThreads + t) * Stagger

(* insertWay flushes when the buffer reaches the limit, the others when it *)
(* exceeds it.                                                             *)
MustFlush(t, table, rows) ==
    IF table = "ways" THEN Cardinality(rows) >= BufferLimit(t)
                      ELSE Cardinality(rows) > BufferLimit(t)

(* Buffers of thread t after the rows new[table] were inserted, in order,  *)
(* and the full ones and those in always were flushed.                     *)
Filled(t, new) == [table \in Tables |-> buf[t][table] \cup new[table]]
Flushed(t, new, always) ==
    {table \in Tables : table \in always \/ MustFlush(t, table, Filled(t, new)[table])}

(* A flushed buffer is not cleared. *)
SlipInsertAndFlush(t, new, always) ==
    /\ buf' = [buf EXCEPT ![t] = Filled(t, new)]
    /\ db' = [table \in Tables |->
                  IF table \in Flushed(t, new, always)
                  THEN Copied(db[table], Filled(t, new)[table])
                  ELSE db[table]]

InsertAndFlush(t, new, always) ==
    /\ buf' = [buf EXCEPT ![t] = [table \in Tables |->
                  IF table \in Flushed(t, new, always) THEN {} ELSE Filled(t, new)[table]]]
    /\ db' = [table \in Tables |->
                  IF table \in Flushed(t, new, always)
                  THEN Copied(db[table], Filled(t, new)[table])
                  ELSE db[table]]

NoRows == [table \in Tables |-> {}]
OneRow(table, row) == [NoRows EXCEPT ![table] = {row}]

------------------------------------------------------------------------------
(* What the earlier attempts left behind for each -R mode.  Resuming at    *)
(* ways or relations truncates the tables of that phase first, but not the *)
(* rows of multipolygons in areas (relations) nor relations and roads      *)
(* (ways): those may survive from an attempt that got further.             *)

Survivors(table, K) ==
    SUBSET {row \in Expected[table] : file[IF IsWayRow(row) THEN row[1] ELSE -row[1]] \in K}

InitDb ==
    \E relRows \in Survivors("relations", RelationKinds),
       roadRows \in Survivors("roads", RelationKinds),
       areaRows \in Survivors("areas", RelationKinds) :
        /\ mode # "ways" => relRows = {} /\ roadRows = {}
        /\ mode # "relations" => areaRows = {}
        /\ db = [NoRows EXCEPT
                    !["nodes"] = IF mode = "nodes" THEN {} ELSE Expected["nodes"],
                    !["ways"]  = IF mode = "relations" THEN Expected["ways"] ELSE {},
                    !["areas"] = IF mode = "relations"
                                 THEN WayRows(Expected["areas"]) \cup areaRows ELSE {},
                    !["relations"] = relRows,
                    !["roads"] = roadRows]

(* Each offset file is missing or holds what an earlier attempt wrote.     *)
InitOffsets ==
    /\ nodeOffset \in {0} \cup {BlobStart(i) : i \in Firsts(NotNodes)}
    /\ relOffset \in {0} \cup {BlobStart(i) : i \in Firsts(RelationKinds)}
    /\ mode = "nodes" => nodeOffset = 0 /\ relOffset = 0

(* reader.seekTo of the best offset there is, else the beginning. *)
StartPos ==
    IF mode = "relations" /\ relOffset # 0 THEN relOffset
    ELSE IF mode # "nodes" /\ nodeOffset # 0 THEN nodeOffset ELSE 1

Init ==
    /\ file \in Files
    /\ mode \in Modes
    /\ InitOffsets
    /\ pos = StartPos
    /\ mpc = "reading"
    /\ nodePhase = (mode \in {"nodes", "merge"})
    /\ rr = 0
    /\ nq = [n \in NodeThreads |-> <<>>]
    /\ nqStop = ~nodePhase
    /\ npc = [n \in NodeThreads |-> IF nodePhase THEN "loop" ELSE "done"]
    /\ nbuf = [n \in NodeThreads |-> {}]
    /\ shard = [n \in NodeThreads |->
                   IF mode = "merge" THEN {i \in NodeIds : (i - 1) % NumNodeThreads = n} ELSE {}]
    /\ merging = IF nodePhase THEN 0 ELSE NumNodeThreads
    /\ merged = IF nodePhase THEN {} ELSE NodeIds
    /\ mergeDone = ~nodePhase
    /\ wq = <<>>
    /\ wqStop = FALSE
    /\ wpc = [t \in WayThreads |-> "popping"]
    /\ hand = [t \in WayThreads |-> 0]
    /\ wayPhaseDone = [t \in WayThreads |-> mode = "relations"]
    /\ arrived = {}
    /\ buf = [t \in WayThreads |-> NoRows]
    /\ InitDb

------------------------------------------------------------------------------
(* main(): the reading loop *)

More == mpc = "reading" /\ pos <= Len(file)
Kind == file[pos]

(* A node goes to the node queues in turn. *)
HandOutNode ==
    LET n == rr % NumNodeThreads IN
    /\ More
    /\ nodePhase /\ Kind \in NodeKinds /\ mode # "merge"
    /\ Len(nq[n]) < QueueSize
    /\ nq' = [nq EXCEPT ![n] = Append(@, pos)]
    /\ rr' = rr + 1
    /\ pos' = pos + 1
    /\ UNCHANGED <<inputVars, mpc, nodePhase, nodeOffset, relOffset, nqStop,
                   nodeVars, mergeVars, wayQVars, wayVars, db>>

(* -R merge: the shards are complete, the node is dropped. *)
SkipNode ==
    /\ More
    /\ nodePhase /\ Kind \in NodeKinds /\ mode = "merge"
    /\ pos' = pos + 1
    /\ UNCHANGED <<inputVars, mpc, nodePhase, rr, nodeOffset, relOffset,
                   nodeQVars, nodeVars, mergeVars, wayQVars, wayVars, db>>

(* The offset of the entity is recorded in place of that of its blob. *)
SlipEndNodePhase ==
    /\ More
    /\ nodePhase /\ Kind \notin NodeKinds
    /\ nodePhase' = FALSE
    /\ nqStop' = TRUE
    /\ nodeOffset' = pos
    /\ mpc' = "spinning"
    /\ UNCHANGED <<inputVars, pos, rr, relOffset, nq,
                   nodeVars, mergeVars, wayQVars, wayVars, db>>

(* First entity that is no node: the node queues are shut down, its blob   *)
(* recorded for later resumes, and main() waits for the merge.             *)
EndNodePhase ==
    /\ More
    /\ nodePhase /\ Kind \notin NodeKinds
    /\ nodePhase' = FALSE
    /\ nqStop' = TRUE
    /\ nodeOffset' = BlobStart(pos)
    /\ mpc' = "spinning"
    /\ UNCHANGED <<inputVars, pos, rr, relOffset, nq,
                   nodeVars, mergeVars, wayQVars, wayVars, db>>

(* The ways are fed without waiting for the merge. *)
SlipMergeSeen ==
    /\ mpc = "spinning"
    /\ mpc' = "reading"
    /\ UNCHANGED <<inputVars, pos, nodePhase, rr, nodeOffset, relOffset,
                   nodeQVars, nodeVars, mergeVars, wayQVars, wayVars, db>>

MergeSeen ==
    /\ mpc = "spinning"
    /\ mergeDone
    /\ mpc' = "reading"
    /\ UNCHANGED <<inputVars, pos, nodePhase, rr, nodeOffset, relOffset,
                   nodeQVars, nodeVars, mergeVars, wayQVars, wayVars, db>>

(* -R relations: the ways are in the database. *)
DropWay ==
    /\ More
    /\ ~nodePhase /\ mode = "relations" /\ Kind \in WayKinds
    /\ pos' = pos + 1
    /\ UNCHANGED <<inputVars, mpc, nodePhase, rr, nodeOffset, relOffset,
                   nodeQVars, nodeVars, mergeVars, wayQVars, wayVars, db>>

(* Everything else goes to way_q; the first relation's blob is recorded.   *)
Feed ==
    /\ More
    /\ ~nodePhase /\ ~(mode = "relations" /\ Kind \in WayKinds)
    /\ Len(wq) < QueueSize
    /\ relOffset' = IF /\ Kind \in RelationKinds
                       /\ \A i \in 1 .. pos - 1 : file[i] \notin RelationKinds
                    THEN BlobStart(pos) ELSE relOffset
    /\ wq' = Append(wq, pos)
    /\ pos' = pos + 1
    /\ UNCHANGED <<inputVars, mpc, nodePhase, rr, nodeOffset, nodeQVars,
                   nodeVars, mergeVars, wqStop, wayVars, db>>

EndOfFile ==
    /\ mpc = "reading" /\ pos > Len(file)
    /\ nqStop' = TRUE
    /\ mpc' = "joinNodes"
    /\ UNCHANGED <<inputVars, pos, nodePhase, rr, nodeOffset, relOffset, nq,
                   nodeVars, mergeVars, wayQVars, wayVars, db>>

JoinNodes ==
    /\ mpc = "joinNodes"
    /\ \A n \in NodeThreads : npc[n] = "done"
    /\ wqStop' = TRUE
    /\ mpc' = "joinWays"
    /\ UNCHANGED <<inputVars, pos, nodePhase, rr, nodeOffset, relOffset,
                   nodeQVars, nodeVars, mergeVars, wq, wayVars, db>>

JoinWays ==
    /\ mpc = "joinWays"
    /\ \A t \in WayThreads : wpc[t] = "done"
    /\ mpc' = "loaded"
    /\ UNCHANGED <<inputVars, pos, nodePhase, rr, nodeOffset, relOffset,
                   nodeQVars, nodeVars, mergeVars, wayQVars, wayVars, db>>

MainStep == \/ HandOutNode \/ SkipNode \/ EndNodePhase \/ MergeSeen \/ DropWay
            \/ Feed \/ EndOfFile \/ JoinNodes \/ JoinWays

------------------------------------------------------------------------------
(* nodeThread *)

NodeRows(ids) == {<<i, {}>> : i \in ids}

(* A node enters the shard; insertNode ignores it when it has no tags and  *)
(* flushes the buffer when it is full.                                     *)
StoreNode(n) ==
    LET i == Head(nq[n])
        rows == nbuf[n] \cup NodeRows({i} \cap OfKinds({"node"}))
        full == Cardinality(rows) >= NodeBufferSize
    IN
    /\ npc[n] = "loop"
    /\ nq[n] # <<>>
    /\ nq' = [nq EXCEPT ![n] = Tail(@)]
    /\ shard' = [shard EXCEPT ![n] = @ \cup {i}]
    /\ nbuf' = [nbuf EXCEPT ![n] = IF full THEN {} ELSE rows]
    /\ db' = IF full THEN [db EXCEPT !["nodes"] = Copied(@, rows)] ELSE db
    /\ UNCHANGED <<inputVars, mainVars, nqStop, npc, mergeVars, wayQVars, wayVars>>

(* finalize_nodes, then node_barrier. *)
EndNodes(n) ==
    /\ npc[n] = "loop"
    /\ nq[n] = <<>> /\ nqStop
    /\ db' = [db EXCEPT !["nodes"] = Copied(@, nbuf[n])]
    /\ nbuf' = [nbuf EXCEPT ![n] = {}]
    /\ npc' = [npc EXCEPT ![n] = "barrier"]
    /\ UNCHANGED <<inputVars, mainVars, nodeQVars, shard, mergeVars, wayQVars, wayVars>>

AllAtNodeBarrier == \A n \in NodeThreads : npc[n] = "barrier"

(* The completion step of node_barrier: merge() takes the shards in turn   *)
(* and deletes each when it is copied.                                     *)
MergeShard ==
    /\ AllAtNodeBarrier
    /\ merging < NumNodeThreads
    /\ merged' = merged \cup shard[merging]
    /\ shard' = [shard EXCEPT ![merging] = {}]
    /\ merging' = merging + 1
    /\ UNCHANGED <<inputVars, mainVars, nodeQVars, npc, nbuf, mergeDone, wayQVars, wayVars, db>>

MergeEnd ==
    /\ AllAtNodeBarrier
    /\ merging = NumNodeThreads
    /\ mergeDone' = TRUE
    /\ npc' = [n \in NodeThreads |-> "done"]
    /\ UNCHANGED <<inputVars, mainVars, nodeQVars, nbuf, shard, merging, merged,
                   wayQVars, wayVars, db>>

NodeStep == (\E n \in NodeThreads : StoreNode(n) \/ EndNodes(n)) \/ MergeShard \/ MergeEnd

------------------------------------------------------------------------------
(* wayThread *)

WayPop(t) ==
    /\ wpc[t] = "popping"
    /\ wq # <<>>
    /\ hand' = [hand EXCEPT ![t] = Head(wq)]
    /\ wq' = Tail(wq)
    /\ wpc' = [wpc EXCEPT ![t] = "working"]
    /\ UNCHANGED <<inputVars, mainVars, nodeQVars, nodeVars, mergeVars, wqStop,
                   wayPhaseDone, arrived, buf, db>>

Working(t, K) == wpc[t] = "working" /\ file[hand[t]] \in K

(* The entity in hand is dealt with: the loop body ends with finalize_roads. *)
FinishEntity(t, new) ==
    /\ InsertAndFlush(t, new, {"roads"})
    /\ hand' = [hand EXCEPT ![t] = 0]
    /\ wpc' = [wpc EXCEPT ![t] = "popping"]
    /\ UNCHANGED <<inputVars, mainVars, nodeQVars, nodeVars, mergeVars, wayQVars,
                   wayPhaseDone, arrived>>

(* Nodes that share a blob with the first way reach way_q on a resume.     *)
IgnoreNode(t) ==
    /\ Working(t, NodeKinds)
    /\ FinishEntity(t, NoRows)

(* The geometry is made of the nodes select() finds now; without one the   *)
(* way is dropped.                                                         *)
ProcessWay(t) ==
    LET i == hand[t]
        found == Refs(i) \cap merged
    IN
    /\ Working(t, WayKinds)
    /\ FinishEntity(t, IF mode = "relations" \/ ~HasGeometry(found) THEN NoRows
                       ELSE OneRow(IF file[i] = "area" THEN "areas" ELSE "ways", <<i, found>>))

(* The first relation of a thread sends it to the barrier, ways flushed;   *)
(* so does the end of the queue in a thread that saw no relation.          *)
FinalizeWays(t) ==
    /\ \/ Working(t, RelationKinds) /\ ~wayPhaseDone[t]
       \/ wpc[t] = "cleanup"
    /\ InsertAndFlush(t, NoRows, {"ways", "areas"})
    /\ wpc' = [wpc EXCEPT ![t] = "finalized"]
    /\ UNCHANGED <<inputVars, mainVars, nodeQVars, nodeVars, mergeVars, wayQVars,
                   hand, wayPhaseDone, arrived>>

ArriveAtWayBarrier(t) ==
    /\ wpc[t] = "finalized"
    /\ arrived' = arrived \cup {t}
    /\ wpc' = [wpc EXCEPT ![t] = "barrier"]
    /\ UNCHANGED <<inputVars, mainVars, nodeQVars, nodeVars, mergeVars, wayQVars,
                   hand, wayPhaseDone, buf, db>>

PassWayBarrier(t) ==
    /\ wpc[t] = "barrier"
    /\ arrived = WayThreads
    /\ wayPhaseDone' = [wayPhaseDone EXCEPT ![t] = hand[t] # 0]
    /\ wpc' = [wpc EXCEPT ![t] = IF hand[t] # 0 THEN "working" ELSE "ending"]
    /\ UNCHANGED <<inputVars, mainVars, nodeQVars, nodeVars, mergeVars, wayQVars,
                   hand, arrived, buf, db>>

(* getWay and getWayCoordsMap read the committed rows of the member ways,  *)
(* which are here all the ways of the file.                                *)
FoundWays == OfKinds(WayKinds) \cap Ids(db["ways"] \cup db["areas"])
FoundLines == Lines(FoundWays)

RelationRows(i) ==
    CASE file[i] = "broken" -> NoRows
      [] file[i] = "multi" -> IF FoundWays = {} THEN NoRows
                              ELSE OneRow("areas", <<-i, FoundWays>>)
      [] file[i] = "relation" -> OneRow("relations", <<i, FoundLines>>)
      [] file[i] = "road" -> IF FoundLines = {} THEN OneRow("relations", <<i, FoundLines>>)
                             ELSE [NoRows EXCEPT !["relations"] = {<<i, FoundLines>>},
                                                 !["roads"] = {<<i, FoundLines>>}]

(* The first relation does not wait at the barrier. *)
SlipProcessRelation(t) ==
    /\ Working(t, RelationKinds)
    /\ FinishEntity(t, RelationRows(hand[t]))

ProcessRelation(t) ==
    /\ Working(t, RelationKinds)
    /\ wayPhaseDone[t]
    /\ FinishEntity(t, RelationRows(hand[t]))

(* A thread that saw no relation leaves without the barrier. *)
SlipQueueEnds(t) ==
    /\ wpc[t] = "popping"
    /\ wq = <<>> /\ wqStop
    /\ wpc' = [wpc EXCEPT ![t] = "ending"]
    /\ UNCHANGED <<inputVars, mainVars, nodeQVars, nodeVars, mergeVars, wayQVars,
                   hand, wayPhaseDone, arrived, buf, db>>

(* pop returns false. *)
QueueEnds(t) ==
    /\ wpc[t] = "popping"
    /\ wq = <<>> /\ wqStop
    /\ wpc' = [wpc EXCEPT ![t] = IF wayPhaseDone[t] THEN "ending" ELSE "cleanup"]
    /\ UNCHANGED <<inputVars, mainVars, nodeQVars, nodeVars, mergeVars, wayQVars,
                   hand, wayPhaseDone, arrived, buf, db>>

(* Only finalize_relations, without the destructor's flushes. *)
SlipEndWayThread(t) ==
    /\ wpc[t] = "ending"
    /\ InsertAndFlush(t, NoRows, {"relations"})
    /\ wpc' = [wpc EXCEPT ![t] = "done"]
    /\ UNCHANGED <<inputVars, mainVars, nodeQVars, nodeVars, mergeVars, wayQVars,
                   hand, wayPhaseDone, arrived>>

(* finalize_relations, and the rest of the buffers in ~NavDB. *)
EndWayThread(t) ==
    /\ wpc[t] = "ending"
    /\ InsertAndFlush(t, NoRows, Tables)
    /\ wpc' = [wpc EXCEPT ![t] = "done"]
    /\ UNCHANGED <<inputVars, mainVars, nodeQVars, nodeVars, mergeVars, wayQVars,
                   hand, wayPhaseDone, arrived>>

WayStep(t) == \/ WayPop(t) \/ IgnoreNode(t) \/ ProcessWay(t) \/ FinalizeWays(t)
              \/ ArriveAtWayBarrier(t) \/ PassWayBarrier(t) \/ ProcessRelation(t)
              \/ QueueEnds(t) \/ EndWayThread(t)

------------------------------------------------------------------------------

Next == MainStep \/ NodeStep \/ \E t \in WayThreads : WayStep(t)

(* Every thread that can run is scheduled, and main()'s spin loop polls.   *)
Fairness ==
    /\ WF_vars(MainStep)
    /\ \A n \in NodeThreads : WF_vars(StoreNode(n) \/ EndNodes(n))
    /\ WF_vars(MergeShard \/ MergeEnd)
    /\ \A t \in WayThreads : WF_vars(WayStep(t))

Spec == Init /\ [][Next]_vars
FairSpec == Spec /\ Fairness

------------------------------------------------------------------------------
(* Properties *)

RowSets == [Tables -> SUBSET (Int \X SUBSET Entities)]

TypeOK ==
    /\ file \in Files
    /\ mode \in Modes
    /\ pos \in 1 .. Len(file) + 1
    /\ mpc \in {"reading", "spinning", "joinNodes", "joinWays", "loaded"}
    /\ nodePhase \in BOOLEAN
    /\ rr \in Nat
    /\ nodeOffset \in 0 .. Len(file)
    /\ relOffset \in 0 .. Len(file)
    /\ nq \in [NodeThreads -> Seq(Entities)]
    /\ nqStop \in BOOLEAN
    /\ npc \in [NodeThreads -> {"loop", "barrier", "done"}]
    /\ nbuf \in [NodeThreads -> SUBSET (Int \X SUBSET Entities)]
    /\ shard \in [NodeThreads -> SUBSET Entities]
    /\ merging \in 0 .. NumNodeThreads
    /\ merged \subseteq Entities
    /\ mergeDone \in BOOLEAN
    /\ wq \in Seq(Entities)
    /\ wqStop \in BOOLEAN
    /\ wpc \in [WayThreads -> {"popping", "working", "cleanup", "finalized",
                               "barrier", "ending", "done"}]
    /\ hand \in [WayThreads -> {0} \cup Entities]
    /\ wayPhaseDone \in [WayThreads -> BOOLEAN]
    /\ arrived \subseteq WayThreads
    /\ buf \in [WayThreads -> RowSets]
    /\ db \in RowSets

(* A way is looked up in the node store only when merge() has put every    *)
(* node of the file there: no way loses points because a node was still in *)
(* a queue, a shard or an unflushed buffer.                                *)
WaysSeeAllNodes ==
    \A t \in WayThreads : Working(t, WayKinds) => merged = NodeIds

(* A relation looks its members up only when every way that has a geometry *)
(* is committed, whichever thread's buffer it went through.                *)
RelationsSeeAllWays ==
    \A t \in WayThreads :
        Working(t, RelationKinds) /\ wayPhaseDone[t] => FoundWays = WayIds

(* No phase begins before the one it looks things up in is complete: the   *)
(* merge before the ways, the ways of all threads before the relations.    *)
PhasesInOrder == WaysSeeAllNodes /\ RelationsSeeAllWays

(* Nothing is inserted twice: a row is in one buffer only or in the table, *)
(* never in both, except for the rows that survive from an earlier attempt.*)
InsertedOnce ==
    \A table \in Tables, t, u \in WayThreads :
        /\ t # u => Ids(buf[t][table]) \cap Ids(buf[u][table]) = {}
        /\ mode \in {"nodes", "merge"} => Ids(buf[t][table]) \cap Ids(db[table]) = {}

(* Whatever is committed is right: no row was assembled from a partial     *)
(* lookup and no table has a row of another's kind.                        *)
CommittedRowsRight == \A table \in Tables : db[table] \subseteq Expected[table]

(* A run that ends has stored exactly what the file says, fresh or resumed *)
(* at any phase, whatever the queue, buffer and blob sizes are.            *)
LoadComplete == mpc = "loaded" => db = Expected

(* An offset file never points past work still to do: what precedes it are *)
(* only entities its phase skips, and it is the start of a blob.           *)
OffsetsSafe ==
    /\ nodeOffset # 0 => /\ nodeOffset = BlobStart(nodeOffset)
                         /\ \A i \in 1 .. nodeOffset - 1 : file[i] \in NodeKinds
    /\ relOffset # 0 => /\ relOffset = BlobStart(relOffset)
                        /\ \A i \in 1 .. relOffset - 1 : file[i] \notin RelationKinds

(* The import ends: no thread waits forever on a queue, a barrier, the     *)
(* merge or another thread, even when a file has fewer relations than      *)
(* there are way threads.                                                  *)
Completes == <>(mpc = "loaded")

Load == INSTANCE PhasedLoad
    WITH want <- Expected, wantStore <- NodeIds, have <- db, store <- merged

(* Every step of every thread is a step of a load whose phases do not      *)
(* overlap and that never takes a row back, and the load is completed.     *)
ImplementsPhasedLoad == Load!Spec
==============================================================================
