------------------------ MODULE ImportPipelineProofs ------------------------
(***************************************************************************)
(* Proofs about ImportPipeline for any file, any numbers of threads and    *)
(* any queue, buffer and blob sizes.  First the phases: what the lookups   *)
(* of ways and relations see.  Then what an import stores in the end and   *)
(* how it gets there: that the offset files are safe, that nothing is      *)
(* inserted twice, that a run that ends has stored what the file says,     *)
(* that every step is one of the phased load of module PhasedLoad, and     *)
(* that no run is ever stuck or goes on for ever.                          *)
(***************************************************************************)
EXTENDS ImportPipeline, FiniteSetTheorems, TLAPS

------------------------------------------------------------------------------
(* Lemmas about the operators of the model. *)

(* The blob of an entity starts at that entity or before it. *)
LEMMA BlobStartRange ==
    ASSUME NEW i \in Nat \ {0}
    PROVE  BlobStart(i) \in 1..i
  <1>1. BlobSize \in Nat \ {0} /\ i - 1 \in Nat
    BY SizeAssumption
  <1>2. /\ (i - 1) \div BlobSize \in Nat
        /\ ((i - 1) \div BlobSize) * BlobSize <= i - 1
    BY <1>1, Z3
  <1>3. ((i - 1) \div BlobSize) * BlobSize \in Nat
    BY <1>1, <1>2
  <1>4. QED
    BY <1>2, <1>3 DEF BlobStart

(* What a file is. *)
LEMMA FileFacts ==
    ASSUME file \in Files
    PROVE  /\ file \in Seq(Kinds) /\ Len(file) \in Nat
           /\ Entities = 1 .. Len(file)
           /\ \A i \in Entities : file[i] \in Kinds
           /\ \A i, j \in Entities : i < j => Stage(file[i]) <= Stage(file[j])
  BY FileAssumption DEF Entities

(* The kinds of the three phases are disjoint, and Stage tells them apart. *)
LEMMA KindFacts ==
    /\ NodeKinds \cap WayKinds = {} /\ NodeKinds \cap RelationKinds = {}
    /\ WayKinds \cap RelationKinds = {}
    /\ \A k \in NodeKinds : Stage(k) = 1
    /\ \A k \in WayKinds : Stage(k) = 2
    /\ \A k \in RelationKinds : Stage(k) = 3
  BY DEF NodeKinds, WayKinds, RelationKinds, Stage

Rows == Int \X SUBSET Entities

(* What one insertion and the flushes it causes do to the rows: none is    *)
(* lost, and a table that is always flushed leaves no buffered row.        *)
LEMMA FlushFacts ==
    ASSUME buf \in [WayThreads -> RowSets], db \in RowSets,
           NEW t \in WayThreads, NEW new \in RowSets, NEW always,
           InsertAndFlush(t, new, always), file' = file
    PROVE  /\ buf' \in [WayThreads -> RowSets]
           /\ db' \in RowSets
           /\ \A u \in WayThreads \ {t} : buf'[u] = buf[u]
           /\ \A table \in Tables :
                /\ buf'[t][table] \subseteq buf[t][table] \cup new[table]
                /\ db[table] \subseteq db'[table]
                /\ db'[table] \subseteq db[table] \cup buf[t][table] \cup new[table]
                /\ table \in always => buf'[t][table] = {}
                /\ Ids(buf[t][table] \cup new[table])
                       \subseteq Ids(buf'[t][table]) \cup Ids(db'[table])
  <1> DEFINE full == Flushed(t, new, always)
             fill == Filled(t, new)
             left == [table \in Tables |-> IF table \in full THEN {} ELSE fill[table]]
  <1>1. fill \in RowSets /\ \A table \in Tables : fill[table] = buf[t][table] \cup new[table]
    BY DEF Filled, RowSets
  <1>2. /\ left \in RowSets
        /\ \A table \in Tables : left[table] = IF table \in full THEN {} ELSE fill[table]
    BY <1>1 DEF RowSets
  <1>3. buf' = [buf EXCEPT ![t] = left]
    BY DEF InsertAndFlush
  <1>4. db' = [table \in Tables |->
                  IF table \in full THEN Copied(db[table], fill[table]) ELSE db[table]]
    BY DEF InsertAndFlush
  <1>5. buf' \in [WayThreads -> RowSets] /\ buf'[t] = left
    BY <1>2, <1>3 DEF RowSets, Entities
  <1>6. \A u \in WayThreads \ {t} : buf'[u] = buf[u]
    BY <1>3
  <1>7. \A table \in Tables :
            /\ db[table] \subseteq Copied(db[table], fill[table])
            /\ Copied(db[table], fill[table]) \subseteq db[table] \cup fill[table]
            /\ Ids(fill[table]) \subseteq Ids(Copied(db[table], fill[table]))
    BY DEF Copied, Ids
  <1>8. \A table \in Tables : table \in always => table \in full
    BY DEF Flushed
  <1>9. \A table \in Tables :
            db'[table] = IF table \in full THEN Copied(db[table], fill[table]) ELSE db[table]
    BY <1>4
  <1> HIDE DEF full, fill, left
  <1>10. db' \in RowSets
    <2>1. ASSUME NEW table \in Tables
          PROVE  (IF table \in full THEN Copied(db[table], fill[table]) ELSE db[table])
                     \in SUBSET (Int \X SUBSET Entities)
      BY <1>1, <1>7 DEF RowSets
    <2>2. QED
      BY <1>4, <2>1 DEF RowSets, Entities
  <1>11. ASSUME NEW table \in Tables
         PROVE  /\ buf'[t][table] \subseteq buf[t][table] \cup new[table]
                /\ db[table] \subseteq db'[table]
                /\ db'[table] \subseteq db[table] \cup buf[t][table] \cup new[table]
                /\ table \in always => buf'[t][table] = {}
                /\ Ids(buf[t][table] \cup new[table])
                       \subseteq Ids(buf'[t][table]) \cup Ids(db'[table])
    <2>1. CASE table \in full
      BY <1>1, <1>2, <1>5, <1>7, <1>9, <2>1
    <2>2. CASE table \notin full
      BY <1>1, <1>2, <1>5, <1>8, <1>9, <2>2
    <2>3. QED
      BY <2>1, <2>2
  <1>12. QED
    BY <1>5, <1>6, <1>10, <1>11

------------------------------------------------------------------------------
(* Type correctness. *)

(* The rows a way thread inserts for one entity are rows. *)
LEMMA NewRowsTyped ==
    ASSUME TypeOK
    PROVE  /\ NoRows \in RowSets
           /\ \A table \in Tables, row \in Rows : OneRow(table, row) \in RowSets
           /\ \A i \in OfKinds(RelationKinds) : RelationRows(i) \in RowSets
  <1>1. NoRows \in RowSets
    BY DEF NoRows, RowSets
  <1>2. \A table \in Tables, row \in Rows : OneRow(table, row) \in RowSets
    BY DEF OneRow, NoRows, RowSets, Rows
  <1>3. ASSUME NEW i \in OfKinds(RelationKinds) PROVE RelationRows(i) \in RowSets
    <2>1. i \in Int /\ FoundWays \in SUBSET Entities
      BY FileFacts DEF OfKinds, FoundWays, TypeOK
    <2>2. <<i, FoundLines>> \in Rows /\ <<-i, FoundWays>> \in Rows
      BY <2>1 DEF Rows, FoundLines, Lines
    <2>3. /\ OneRow("areas", <<-i, FoundWays>>) \in RowSets
          /\ OneRow("relations", <<i, FoundLines>>) \in RowSets
      BY <1>2, <2>2 DEF Tables
    <2>4. [NoRows EXCEPT !["relations"] = {<<i, FoundLines>>},
                         !["roads"] = {<<i, FoundLines>>}] \in RowSets
      BY <2>2 DEF NoRows, RowSets, Rows
    <2>5. file[i] \in {"relation", "road", "multi", "broken"}
      BY DEF OfKinds, RelationKinds
    <2>6. QED
      BY <1>1, <2>3, <2>4, <2>5 DEF RelationRows
  <1>4. QED
    BY <1>1, <1>2, <1>3

(* A way thread holds an entity while it works on one, and none between    *)
(* entities; at the barrier it may or may not.                             *)
HandInv ==
    \A t \in WayThreads :
        /\ wpc[t] = "working" => hand[t] # 0
        /\ wpc[t] \in {"popping", "cleanup", "ending", "done"} => hand[t] = 0

TypeInv == TypeOK /\ HandInv

LEMMA TypeInit == Init => TypeInv
  <1> SUFFICES ASSUME Init PROVE TypeOK
    BY DEF TypeInv, HandInv, Init
  <1>0. /\ file \in Files /\ Len(file) \in Nat /\ Entities = 1 .. Len(file)
        /\ NodeThreads \subseteq Nat /\ NumNodeThreads \in Nat
    BY FileFacts, SizeAssumption DEF Init, NodeThreads
  <1>1. nodeOffset \in 0 .. Len(file) /\ relOffset \in 0 .. Len(file)
    BY <1>0, BlobStartRange DEF Init, InitOffsets, Firsts, OfKinds
  <1>2. pos \in 1 .. Len(file) + 1
    BY <1>0, <1>1 DEF Init, StartPos
  <1>3. /\ nq \in [NodeThreads -> Seq(Entities)]
        /\ wq \in Seq(Entities)
    BY DEF Init
  <1>4. /\ npc \in [NodeThreads -> {"loop", "barrier", "done"}]
        /\ nbuf \in [NodeThreads -> SUBSET (Int \X SUBSET Entities)]
        /\ shard \in [NodeThreads -> SUBSET Entities]
    BY DEF Init, NodeIds, OfKinds
  <1>5. /\ merging \in 0 .. NumNodeThreads
        /\ merged \subseteq Entities
        /\ nodePhase \in BOOLEAN /\ nqStop \in BOOLEAN /\ mergeDone \in BOOLEAN
    BY <1>0 DEF Init, NodeIds, OfKinds
  <1>6. NoRows \in RowSets
    BY DEF NoRows, RowSets
  <1>7. db \in RowSets
    <2>1. \A table \in Tables : Expected[table] \in SUBSET (Int \X SUBSET Entities)
      <3>1. \A i \in Entities : i \in Int /\ -i \in Int
        BY <1>0
      <3>2. NodeIds \in SUBSET Entities /\ WayIds \in SUBSET Entities /\ LineIds \in SUBSET Entities
        BY DEF NodeIds, WayIds, OfKinds, LineIds, Lines
      <3>3. QED
        BY <3>1, <3>2 DEF Expected, Tables, OfKinds, WayIds
    <2>2. PICK relRows \in Survivors("relations", RelationKinds),
               roadRows \in Survivors("roads", RelationKinds),
               areaRows \in Survivors("areas", RelationKinds) :
               db = [NoRows EXCEPT
                    !["nodes"] = IF mode = "nodes" THEN {} ELSE Expected["nodes"],
                    !["ways"]  = IF mode = "relations" THEN Expected["ways"] ELSE {},
                    !["areas"] = IF mode = "relations"
                                 THEN WayRows(Expected["areas"]) \cup areaRows ELSE {},
                    !["relations"] = relRows,
                    !["roads"] = roadRows]
      BY DEF Init, InitDb
    <2>3. /\ relRows \subseteq Expected["relations"]
          /\ roadRows \subseteq Expected["roads"]
          /\ areaRows \subseteq Expected["areas"]
          /\ WayRows(Expected["areas"]) \subseteq Expected["areas"]
      BY DEF Survivors, WayRows
    <2>4. QED
      BY <2>1, <2>2, <2>3 DEF NoRows, RowSets, Tables
  <1>8. buf \in [WayThreads -> RowSets]
    BY <1>6 DEF Init
  <1>9. QED
    BY <1>0, <1>1, <1>2, <1>3, <1>4, <1>5, <1>7, <1>8 DEF Init, TypeOK

LEMMA HandStep == TypeInv /\ [Next]_vars => HandInv'
  <1> SUFFICES ASSUME TypeInv, [Next]_vars PROVE HandInv'
    OBVIOUS
  <1> USE DEF TypeInv, HandInv
  <1>1. CASE UNCHANGED <<wpc, hand>>
    BY <1>1
  <1>2. CASE MainStep \/ NodeStep \/ UNCHANGED vars
    BY <1>1, <1>2 DEF MainStep, NodeStep, HandOutNode, SkipNode, EndNodePhase, MergeSeen,
         DropWay, Feed, EndOfFile, JoinNodes, JoinWays, StoreNode, EndNodes, MergeShard,
         MergeEnd, wayVars, vars
  <1>3. ASSUME NEW t \in WayThreads, WayStep(t) PROVE HandInv'
    <2>1. CASE WayPop(t)
      <3>1. Head(wq) # 0
        BY <2>1, FileFacts DEF WayPop, TypeOK
      <3>2. QED
        BY <2>1, <3>1 DEF WayPop, TypeOK
    <2>2. CASE IgnoreNode(t) \/ ProcessWay(t) \/ ProcessRelation(t)
      BY <2>2 DEF IgnoreNode, ProcessWay, ProcessRelation, FinishEntity, TypeOK
    <2>3. CASE FinalizeWays(t) \/ ArriveAtWayBarrier(t)
      BY <2>3 DEF FinalizeWays, ArriveAtWayBarrier, TypeOK
    <2>4. CASE PassWayBarrier(t)
      BY <2>4 DEF PassWayBarrier, TypeOK
    <2>5. CASE QueueEnds(t)
      BY <2>5 DEF QueueEnds, TypeOK
    <2>6. CASE EndWayThread(t)
      BY <2>6 DEF EndWayThread, TypeOK
    <2>7. QED
      BY <1>3, <2>1, <2>2, <2>3, <2>4, <2>5, <2>6 DEF WayStep
  <1>4. QED
    BY <1>2, <1>3 DEF Next

LEMMA TypeStep == TypeInv /\ [Next]_vars => TypeInv'
  <1> SUFFICES ASSUME TypeOK, HandInv, [Next]_vars PROVE TypeOK'
    BY HandStep DEF TypeInv
  <1>0. /\ file' = file /\ mode' = mode /\ Entities' = Entities /\ RowSets' = RowSets
        /\ Len(file) \in Nat /\ Entities = 1 .. Len(file)
    <2>1. file' = file /\ mode' = mode
      BY DEF Next, vars, inputVars, MainStep, NodeStep, WayStep, HandOutNode, SkipNode,
             EndNodePhase, MergeSeen, DropWay, Feed, EndOfFile, JoinNodes, JoinWays,
             StoreNode, EndNodes, MergeShard, MergeEnd, WayPop, FinishEntity, IgnoreNode,
             ProcessWay, FinalizeWays, ArriveAtWayBarrier, PassWayBarrier,
             ProcessRelation, QueueEnds, EndWayThread
    <2>2. QED
      BY <2>1, FileFacts DEF Entities, RowSets, TypeOK
  <1>1. CASE MainStep
    <2>1. CASE More /\ (HandOutNode \/ SkipNode \/ EndNodePhase \/ DropWay \/ Feed)
      <3>0. pos \in Entities /\ BlobStart(pos) \in 0 .. Len(file) /\ pos + 1 \in 1 .. Len(file) + 1
        <4>1. pos \in Entities
          BY <1>0, <2>1 DEF More, TypeOK
        <4>2. BlobStart(pos) \in 1 .. pos
          BY <1>0, <4>1, BlobStartRange
        <4>3. QED
          BY <1>0, <4>1, <4>2
      <3>1. CASE HandOutNode
        <4>1. Append(nq[rr % NumNodeThreads], pos) \in Seq(Entities)
          <5>1. rr % NumNodeThreads \in NodeThreads
            BY SizeAssumption DEF TypeOK, NodeThreads
          <5>2. QED
            BY <3>0, <5>1 DEF TypeOK
        <4>2. nq' \in [NodeThreads -> Seq(Entities)]
          BY <3>1, <4>1 DEF HandOutNode, TypeOK
        <4>3. /\ rr' \in Nat /\ pos' = pos + 1
              /\ UNCHANGED <<inputVars, mpc, nodePhase, nodeOffset, relOffset, nqStop,
                             nodeVars, mergeVars, wayQVars, wayVars, db>>
          BY <3>1 DEF HandOutNode, TypeOK
        <4>4. QED
          BY <1>0, <3>0, <4>2, <4>3 DEF TypeOK, inputVars, nodeVars, mergeVars, wayQVars, wayVars
      <3>2. CASE SkipNode \/ DropWay
        BY <1>0, <3>0, <3>2 DEF SkipNode, DropWay, TypeOK, inputVars, nodeQVars, nodeVars, mergeVars, wayQVars, wayVars
      <3>3. CASE EndNodePhase
        BY <1>0, <3>0, <3>3 DEF EndNodePhase, TypeOK, inputVars, nodeVars, mergeVars, wayQVars, wayVars
      <3>4. CASE Feed
        <4>1. wq' \in Seq(Entities)
          BY <3>0, <3>4 DEF Feed, TypeOK
        <4>2. QED
          BY <1>0, <3>0, <3>4, <4>1 DEF Feed, TypeOK, inputVars, nodeQVars, nodeVars, mergeVars, wayVars
      <3>5. QED
        BY <2>1, <3>1, <3>2, <3>3, <3>4
    <2>2. CASE MergeSeen \/ EndOfFile \/ JoinNodes \/ JoinWays
      BY <1>0, <2>2 DEF MergeSeen, EndOfFile, JoinNodes, JoinWays, TypeOK,
            inputVars, nodeQVars, nodeVars, mergeVars, wayQVars, wayVars
    <2>3. QED
      BY <1>1, <2>1, <2>2 DEF MainStep, HandOutNode, SkipNode, EndNodePhase, DropWay, Feed
  <1>2. CASE NodeStep
    <2>1. ASSUME NEW n \in NodeThreads, StoreNode(n) PROVE TypeOK'
      <3> DEFINE i == Head(nq[n])
                 rows == nbuf[n] \cup NodeRows({i} \cap OfKinds({"node"}))
      <3>1. i \in Entities /\ Tail(nq[n]) \in Seq(Entities)
        BY <2>1 DEF StoreNode, TypeOK
      <3>2. rows \in SUBSET (Int \X SUBSET Entities)
        BY <1>0, <3>1 DEF NodeRows, OfKinds, TypeOK
      <3>3. Copied(db["nodes"], rows) \in SUBSET (Int \X SUBSET Entities)
        BY <3>2 DEF Copied, TypeOK, RowSets, Tables
      <3>4. /\ nq' \in [NodeThreads -> Seq(Entities)]
            /\ shard' \in [NodeThreads -> SUBSET Entities]
        BY <2>1, <3>1 DEF StoreNode, TypeOK
      <3>5. nbuf' \in [NodeThreads -> SUBSET (Int \X SUBSET Entities)]
        BY <2>1, <3>2 DEF StoreNode, TypeOK
      <3>6. db' \in RowSets
        BY <2>1, <3>3 DEF StoreNode, TypeOK, RowSets
      <3>7. QED
        BY <1>0, <2>1, <3>4, <3>5, <3>6 DEF StoreNode, TypeOK, inputVars, mainVars, mergeVars, wayQVars, wayVars
    <2>2. ASSUME NEW n \in NodeThreads, EndNodes(n) PROVE TypeOK'
      <3>1. Copied(db["nodes"], nbuf[n]) \in SUBSET (Int \X SUBSET Entities)
        BY DEF Copied, TypeOK, RowSets, Tables
      <3>2. db' \in RowSets
        BY <2>2, <3>1 DEF EndNodes, TypeOK, RowSets
      <3>3. QED
        BY <1>0, <2>2, <3>2 DEF EndNodes, TypeOK, inputVars, mainVars, nodeQVars, mergeVars, wayQVars, wayVars
    <2>3. CASE MergeShard
      <3>1. merging \in NodeThreads /\ merging + 1 \in 0 .. NumNodeThreads
        BY <2>3, SizeAssumption DEF MergeShard, TypeOK, NodeThreads
      <3>2. QED
        BY <1>0, <2>3, <3>1 DEF MergeShard, TypeOK, inputVars, mainVars, nodeQVars, wayQVars, wayVars
    <2>4. CASE MergeEnd
      BY <1>0, <2>4 DEF MergeEnd, TypeOK, inputVars, mainVars, nodeQVars, wayQVars, wayVars
    <2>5. QED
      BY <1>2, <2>1, <2>2, <2>3, <2>4 DEF NodeStep
  <1>3. ASSUME NEW t \in WayThreads, WayStep(t) PROVE TypeOK'
    <2>1. CASE WayPop(t)
      <3>1. Head(wq) \in Entities /\ Tail(wq) \in Seq(Entities)
        BY <2>1 DEF WayPop, TypeOK
      <3>2. QED
        BY <1>0, <2>1, <3>1 DEF WayPop, TypeOK, inputVars, mainVars, nodeQVars, nodeVars, mergeVars
    <2>2. ASSUME NEW new \in RowSets, FinishEntity(t, new) PROVE TypeOK'
      <3>1. buf' \in [WayThreads -> RowSets] /\ db' \in RowSets
        BY <1>0, <2>2, FlushFacts DEF FinishEntity, TypeOK
      <3>2. QED
        BY <1>0, <2>2, <3>1 DEF FinishEntity, TypeOK, inputVars, mainVars, nodeQVars, nodeVars, mergeVars, wayQVars
    <2>3. CASE IgnoreNode(t)
      BY <2>2, <2>3, NewRowsTyped DEF IgnoreNode
    <2>4. CASE ProcessWay(t)
      <3> DEFINE i == hand[t]
                 found == Refs(i) \cap merged
                 new == IF mode = "relations" \/ ~HasGeometry(found) THEN NoRows
                        ELSE OneRow(IF file[i] = "area" THEN "areas" ELSE "ways", <<i, found>>)
      <3>1. <<i, found>> \in Rows
        BY <1>0 DEF Rows, TypeOK
      <3>2. new \in RowSets
        BY <3>1, NewRowsTyped DEF Tables
      <3>3. QED
        BY <2>2, <2>4, <3>2 DEF ProcessWay
    <2>5. CASE ProcessRelation(t)
      <3>1. hand[t] \in OfKinds(RelationKinds)
        <4>1. hand[t] # 0
          BY <2>5 DEF ProcessRelation, Working, HandInv
        <4>2. QED
          BY <2>5, <4>1 DEF ProcessRelation, Working, OfKinds, TypeOK
      <3>2. QED
        BY <2>2, <2>5, <3>1, NewRowsTyped DEF ProcessRelation
    <2>6. CASE FinalizeWays(t) \/ EndWayThread(t)
      <3>1. buf' \in [WayThreads -> RowSets] /\ db' \in RowSets
        BY <1>0, <2>6, FlushFacts, NewRowsTyped DEF FinalizeWays, EndWayThread, TypeOK
      <3>2. QED
        BY <1>0, <2>6, <3>1 DEF FinalizeWays, EndWayThread, TypeOK, inputVars, mainVars, nodeQVars, nodeVars, mergeVars, wayQVars
    <2>7. CASE ArriveAtWayBarrier(t)
      BY <1>0, <2>7 DEF ArriveAtWayBarrier, TypeOK, inputVars, mainVars, nodeQVars, nodeVars, mergeVars, wayQVars
    <2>8. CASE PassWayBarrier(t) \/ QueueEnds(t)
      BY <1>0, <2>8 DEF PassWayBarrier, QueueEnds, TypeOK, inputVars, mainVars, nodeQVars, nodeVars, mergeVars, wayQVars
    <2>9. QED
      BY <1>3, <2>1, <2>3, <2>4, <2>5, <2>6, <2>7, <2>8 DEF WayStep
  <1>4. CASE UNCHANGED vars
    BY <1>0, <1>4 DEF vars, TypeOK, inputVars, mainVars, nodeQVars, nodeVars, mergeVars, wayQVars, wayVars
  <1>5. QED
    BY <1>1, <1>2, <1>3, <1>4 DEF Next

(* The variables keep their types; among them, an offset file never points *)
(* outside the file and rows never mention entities the file has not.      *)
THEOREM TypeCorrect == Spec => []TypeOK
  <1>1. TypeInv => TypeOK
    BY DEF TypeInv
  <1>2. QED
    BY <1>1, TypeInit, TypeStep, PTL DEF Spec

------------------------------------------------------------------------------
(* The node phase. *)

InSeq(x, s) == \E k \in 1 .. Len(s) : s[k] = x

LEMMA InAppend ==
    ASSUME NEW S, NEW s \in Seq(S), NEW x \in S, NEW y
    PROVE  InSeq(y, Append(s, x)) <=> (InSeq(y, s) \/ y = x)
  <1>1. Len(s) \in Nat /\ Len(Append(s, x)) = Len(s) + 1
    OBVIOUS
  <1>2. /\ \A k \in 1 .. Len(s) : Append(s, x)[k] = s[k]
        /\ Append(s, x)[Len(s) + 1] = x
    OBVIOUS
  <1>3. QED
    BY <1>1, <1>2 DEF InSeq

LEMMA InTail ==
    ASSUME NEW S, NEW s \in Seq(S), s # <<>>, NEW y
    PROVE  InSeq(y, s) <=> (y = Head(s) \/ InSeq(y, Tail(s)))
  <1>1. Len(s) \in Nat \ {0} /\ Len(Tail(s)) = Len(s) - 1 /\ Head(s) = s[1]
    OBVIOUS
  <1>2. \A k \in 1 .. Len(s) - 1 : Tail(s)[k] = s[k + 1]
    OBVIOUS
  <1>3. ASSUME InSeq(y, s) PROVE y = Head(s) \/ InSeq(y, Tail(s))
    <2>1. PICK k \in 1 .. Len(s) : s[k] = y
      BY <1>3 DEF InSeq
    <2>2. CASE k = 1
      BY <1>1, <2>1, <2>2
    <2>3. CASE k # 1
      <3>1. k - 1 \in 1 .. Len(s) - 1 /\ Tail(s)[k - 1] = y
        BY <1>1, <1>2, <2>1, <2>3
      <3>2. QED
        BY <1>1, <3>1 DEF InSeq
    <2>4. QED
      BY <2>2, <2>3
  <1>4. ASSUME InSeq(y, Tail(s)) PROVE InSeq(y, s)
    <2>1. PICK k \in 1 .. Len(s) - 1 : Tail(s)[k] = y
      BY <1>1, <1>4 DEF InSeq
    <2>2. k + 1 \in 1 .. Len(s) /\ s[k + 1] = y
      BY <1>1, <1>2, <2>1
    <2>3. QED
      BY <2>2 DEF InSeq
  <1>5. ASSUME y = Head(s) PROVE InSeq(y, s)
    BY <1>1, <1>5 DEF InSeq
  <1>6. QED
    BY <1>3, <1>4, <1>5

(* Every node of the file is on its way to the node store: unread, in a    *)
(* queue, in a shard or merged.                                            *)
NodesPlaced ==
    \A i \in NodeIds :
        \/ mode = "nodes" /\ i >= pos
        \/ \E n \in NodeThreads : InSeq(i, nq[n])
        \/ \E n \in NodeThreads : i \in shard[n]
        \/ i \in merged

(* Only nodes take that way. *)
NodesOnly ==
    /\ \A n \in NodeThreads : shard[n] \subseteq NodeIds
    /\ \A n \in NodeThreads : \A i \in Entities : InSeq(i, nq[n]) => i \in NodeIds
    /\ merged \subseteq NodeIds

(* The node queues are shut down after the last node, and a node thread    *)
(* leaves its loop with an empty queue that stays empty.                   *)
NodesEnd ==
    /\ mode = "nodes" /\ nqStop => \A i \in NodeIds : i < pos
    /\ mpc = "reading" /\ nodePhase => ~nqStop
    /\ mpc = "spinning" => ~nodePhase
    /\ \A n \in NodeThreads : npc[n] # "loop" => nq[n] = <<>> /\ nqStop

(* merge() runs after the node threads' loops and leaves consumed shards empty. *)
MergeOrder ==
    /\ merging > 0 => \A n \in NodeThreads : npc[n] # "loop"
    /\ \A n \in NodeThreads : n < merging => shard[n] = {}
    /\ mergeDone => NodeIds \subseteq merged

(* Nothing reaches the way threads before merge() is over. *)
FeedAfterMerge ==
    /\ ~nodePhase => mpc = "spinning" \/ mergeDone
    /\ wq # <<>> => mergeDone
    /\ \A t \in WayThreads : hand[t] # 0 => mergeDone

NodeInv == NodesPlaced /\ NodesOnly /\ NodesEnd /\ MergeOrder /\ FeedAfterMerge

LEMMA EmptyHasNone == \A x : ~InSeq(x, <<>>)
  BY DEF InSeq

LEMMA NodeInvInit == Init => NodeInv
  <1> SUFFICES ASSUME Init PROVE NodeInv
    OBVIOUS
  <1> USE DEF Init
  <1>0. /\ Entities = 1 .. Len(file) /\ Len(file) \in Nat
        /\ NodeThreads = 0 .. NumNodeThreads - 1 /\ NumNodeThreads \in Nat \ {0}
        /\ mode \in {"nodes", "merge", "ways", "relations"}
    BY FileFacts, SizeAssumption, ModeAssumption DEF NodeThreads
  <1>1. NodesPlaced
    <2> SUFFICES ASSUME NEW i \in NodeIds, mode # "nodes", i \notin merged
                 PROVE  \E n \in NodeThreads : i \in shard[n]
      BY <1>0 DEF NodesPlaced, StartPos, NodeIds, OfKinds
    <2>1. mode = "merge"
      BY <1>0
    <2>2. (i - 1) % NumNodeThreads \in NodeThreads
      BY <1>0 DEF NodeIds, OfKinds
    <2>3. QED
      BY <2>1, <2>2
  <1>2. NodesOnly
    BY EmptyHasNone DEF NodesOnly
  <1>3. NodesEnd
    BY <1>0 DEF NodesEnd
  <1>4. MergeOrder
    <2>1. CASE mode \in {"nodes", "merge"}
      <3>1. merging = 0 /\ ~mergeDone
        BY <2>1
      <3>2. QED
        BY <1>0, <3>1 DEF MergeOrder
    <2>2. CASE mode \notin {"nodes", "merge"}
      <3>1. /\ merged = NodeIds
            /\ \A n \in NodeThreads : npc[n] = "done" /\ shard[n] = {}
        BY <2>2
      <3>2. QED
        BY <3>1 DEF MergeOrder
    <2>3. QED
      BY <2>1, <2>2
  <1>5. FeedAfterMerge
    BY DEF FeedAfterMerge
  <1>6. QED
    BY <1>1, <1>2, <1>3, <1>4, <1>5 DEF NodeInv

LEMMA FileConstant ==
    ASSUME [Next]_vars
    PROVE  /\ file' = file /\ mode' = mode
           /\ Entities' = Entities /\ NodeIds' = NodeIds /\ WayIds' = WayIds
           /\ Expected' = Expected
  <1>1. file' = file /\ mode' = mode
    BY DEF Next, vars, inputVars, MainStep, NodeStep, WayStep, HandOutNode, SkipNode,
           EndNodePhase, MergeSeen, DropWay, Feed, EndOfFile, JoinNodes, JoinWays,
           StoreNode, EndNodes, MergeShard, MergeEnd, WayPop, FinishEntity, IgnoreNode,
           ProcessWay, FinalizeWays, ArriveAtWayBarrier, PassWayBarrier,
           ProcessRelation, QueueEnds, EndWayThread
  <1>2. Entities' = Entities /\ NodeIds' = NodeIds
    BY <1>1 DEF Entities, NodeIds, OfKinds
  <1>3. WayIds' = WayIds
    BY <1>1, <1>2 DEF WayIds, OfKinds, Entities, Refs
  <1>4. Expected' = Expected
    BY <1>1, <1>2, <1>3 DEF Expected, OfKinds, Entities, LineIds, Lines
  <1>5. QED
    BY <1>1, <1>2, <1>3, <1>4

LEMMA NodeInvStep == TypeInv /\ NodeInv /\ [Next]_vars => NodeInv'
  <1> SUFFICES ASSUME TypeInv, NodeInv, [Next]_vars PROVE NodeInv'
    OBVIOUS
  <1>0. /\ file' = file /\ mode' = mode /\ Entities' = Entities /\ NodeIds' = NodeIds
        /\ Entities = 1 .. Len(file) /\ Len(file) \in Nat
        /\ NodeIds \subseteq Entities /\ \A i \in NodeIds : i \in Nat
        /\ NodeThreads = 0 .. NumNodeThreads - 1 /\ NumNodeThreads \in Nat \ {0}
    BY FileConstant, FileFacts, SizeAssumption
       DEF TypeInv, TypeOK, NodeIds, OfKinds, NodeThreads
  <1>1. CASE MainStep
    <2>1. CASE HandOutNode
      <3> DEFINE n == rr % NumNodeThreads
      <3>1. n \in NodeThreads /\ pos \in Entities /\ pos \in NodeIds
        BY <1>0, <2>1 DEF HandOutNode, More, Kind, TypeInv, TypeOK, NodeIds, OfKinds
      <3>2. /\ ~nqStop /\ nq' = [nq EXCEPT ![n] = Append(@, pos)] /\ nq[n] \in Seq(Entities)
            /\ nq'[n] = Append(nq[n], pos)
            /\ \A m \in NodeThreads \ {n} : nq'[m] = nq[m]
        BY <2>1, <3>1 DEF HandOutNode, More, NodeInv, NodesEnd, TypeInv, TypeOK
      <3>3. \A i : InSeq(i, nq'[n]) <=> (InSeq(i, nq[n]) \/ i = pos)
        BY <3>1, <3>2, InAppend
      <3>4. NodesPlaced'
        <4>0. shard' = shard /\ merged' = merged /\ pos' = pos + 1 /\ pos \in Nat
          BY <1>0, <2>1, <3>1 DEF HandOutNode, nodeVars, mergeVars
        <4> SUFFICES ASSUME NEW i \in NodeIds, i < pos + 1 \/ mode # "nodes"
                     PROVE  \/ \E m \in NodeThreads : InSeq(i, nq'[m])
                            \/ \E m \in NodeThreads : i \in shard[m]
                            \/ i \in merged
          BY <1>0, <4>0 DEF NodesPlaced
        <4>1. CASE i = pos
          BY <3>1, <3>3, <4>1
        <4>2. CASE i # pos
          <5>1. \/ \E m \in NodeThreads : InSeq(i, nq[m])
                \/ \E m \in NodeThreads : i \in shard[m]
                \/ i \in merged
            BY <1>0, <3>1, <4>2 DEF NodeInv, NodesPlaced
          <5>2. QED
            BY <3>1, <3>2, <3>3, <5>1
        <4>3. QED
          BY <4>1, <4>2
      <3>5. NodesOnly'
        BY <1>0, <2>1, <3>1, <3>2, <3>3
           DEF NodesOnly, NodeInv, HandOutNode, nodeVars, mergeVars
      <3>6. NodesEnd' /\ MergeOrder' /\ FeedAfterMerge'
        BY <1>0, <2>1, <3>1, <3>2 DEF NodesEnd, MergeOrder, FeedAfterMerge, NodeInv, HandOutNode,
           More, nodeVars, mergeVars, wayQVars, wayVars
      <3>7. QED
        BY <3>4, <3>5, <3>6 DEF NodeInv
    <2>2. CASE SkipNode
      BY <1>0, <2>2 DEF SkipNode, NodeInv, NodesPlaced, NodesOnly, NodesEnd, MergeOrder,
         FeedAfterMerge, nodeQVars, nodeVars, mergeVars, wayQVars, wayVars
    <2>3. CASE EndNodePhase
      <3>1. \A i \in NodeIds : i < pos
        <4>1. pos \in Entities /\ file[pos] \in Kinds \ NodeKinds
          BY <1>0, <2>3, FileFacts DEF EndNodePhase, More, Kind, TypeInv, TypeOK
        <4>2. Stage(file[pos]) # 1 /\ Stage(file[pos]) \in 1 .. 3
          BY <4>1 DEF Stage, Kinds
        <4>3. \A i \in NodeIds : i # pos /\ Stage(file[i]) = 1
          BY <4>1, KindFacts DEF NodeIds, OfKinds
        <4>4. \A i \in Entities : pos < i => Stage(file[pos]) <= Stage(file[i])
          BY <4>1, FileFacts DEF TypeInv, TypeOK
        <4>5. ASSUME NEW i \in NodeIds PROVE i < pos
          <5>1. ~(pos < i)
            BY <1>0, <4>2, <4>3, <4>4
          <5>2. QED
            BY <1>0, <4>1, <4>3, <5>1
        <4>6. QED
          BY <4>5
      <3>2. QED
        BY <1>0, <2>3, <3>1 DEF EndNodePhase, NodeInv, NodesPlaced, NodesOnly, NodesEnd,
           MergeOrder, FeedAfterMerge, nodeVars, mergeVars, wayQVars, wayVars
    <2>4. CASE MergeSeen \/ JoinWays
      <3>1. NodesPlaced' /\ NodesOnly' /\ MergeOrder'
        <4>1. /\ pos' = pos /\ nq' = nq /\ shard' = shard /\ merged' = merged
              /\ npc' = npc /\ merging' = merging /\ mergeDone' = mergeDone
          BY <2>4 DEF MergeSeen, JoinWays, nodeQVars, nodeVars, mergeVars
        <4>2. QED
          BY <1>0, <4>1 DEF NodeInv, NodesPlaced, NodesOnly, MergeOrder
      <3>2. NodesEnd'
        BY <1>0, <2>4 DEF MergeSeen, JoinWays, NodeInv, NodesEnd, nodeQVars, nodeVars
      <3>3. FeedAfterMerge'
        BY <2>4 DEF MergeSeen, JoinWays, NodeInv, FeedAfterMerge, mergeVars, wayQVars, wayVars
      <3>4. QED
        BY <3>1, <3>2, <3>3 DEF NodeInv
    <2>5. CASE DropWay
      <3>1. pos \notin NodeIds
        BY <2>5, KindFacts DEF DropWay, Kind, NodeIds, OfKinds
      <3>2. QED
        BY <1>0, <2>5, <3>1 DEF DropWay, NodeInv, NodesPlaced, NodesOnly, NodesEnd, MergeOrder,
           FeedAfterMerge, nodeQVars, nodeVars, mergeVars, wayQVars, wayVars, TypeInv, TypeOK
    <2>6. CASE Feed
      <3>1. mergeDone
        BY <2>6 DEF Feed, More, NodeInv, FeedAfterMerge
      <3>2. NodeIds \subseteq merged
        BY <3>1 DEF NodeInv, MergeOrder
      <3>3. NodesPlaced' /\ NodesOnly'
        BY <1>0, <2>6, <3>2 DEF Feed, NodeInv, NodesPlaced, NodesOnly, nodeQVars, nodeVars, mergeVars
      <3>4. NodesEnd' /\ MergeOrder' /\ FeedAfterMerge'
        BY <1>0, <2>6, <3>1 DEF Feed, NodeInv, NodesEnd, MergeOrder, FeedAfterMerge,
           nodeQVars, nodeVars, mergeVars, wayVars, TypeInv, TypeOK
      <3>5. QED
        BY <3>3, <3>4 DEF NodeInv
    <2>7. CASE EndOfFile
      BY <1>0, <2>7 DEF EndOfFile, NodeInv, NodesPlaced, NodesOnly, NodesEnd, MergeOrder,
         FeedAfterMerge, nodeVars, mergeVars, wayQVars, wayVars, TypeInv, TypeOK
    <2>8. CASE JoinNodes
      BY <1>0, <2>8 DEF JoinNodes, NodeInv, NodesPlaced, NodesOnly, NodesEnd, MergeOrder,
         FeedAfterMerge, nodeQVars, nodeVars, mergeVars, wayVars
    <2>9. QED
      BY <1>1, <2>1, <2>2, <2>3, <2>4, <2>5, <2>6, <2>7, <2>8 DEF MainStep
  <1>2. CASE NodeStep
    <2>1. ASSUME NEW n \in NodeThreads, StoreNode(n) PROVE NodeInv'
      <3> DEFINE i == Head(nq[n])
      <3>1. /\ nq[n] \in Seq(Entities) /\ nq[n] # <<>>
            /\ nq'[n] = Tail(nq[n]) /\ shard'[n] = shard[n] \cup {i}
            /\ \A m \in NodeThreads \ {n} : nq'[m] = nq[m] /\ shard'[m] = shard[m]
        BY <2>1 DEF StoreNode, TypeInv, TypeOK
      <3>2. \A x : InSeq(x, nq[n]) <=> (x = i \/ InSeq(x, nq'[n]))
        BY <3>1, InTail
      <3>3. i \in NodeIds
        BY <3>1, <3>2 DEF NodeInv, NodesOnly
      <3>4. NodesPlaced'
        BY <1>0, <2>1, <3>1, <3>2 DEF StoreNode, NodeInv, NodesPlaced, mainVars, mergeVars
      <3>5. NodesOnly'
        BY <1>0, <2>1, <3>1, <3>2, <3>3 DEF StoreNode, NodeInv, NodesOnly, mergeVars
      <3>6. merging = 0
        BY <2>1 DEF StoreNode, NodeInv, MergeOrder, TypeInv, TypeOK
      <3>7. NodesEnd' /\ MergeOrder' /\ FeedAfterMerge'
        BY <1>0, <2>1, <3>1, <3>6 DEF StoreNode, NodeInv, NodesEnd, MergeOrder, FeedAfterMerge,
           mainVars, mergeVars, wayQVars, wayVars
      <3>8. QED
        BY <3>4, <3>5, <3>7 DEF NodeInv
    <2>2. ASSUME NEW n \in NodeThreads, EndNodes(n) PROVE NodeInv'
      BY <1>0, <2>2 DEF EndNodes, NodeInv, NodesPlaced, NodesOnly, NodesEnd, MergeOrder,
         FeedAfterMerge, mainVars, nodeQVars, mergeVars, wayQVars, wayVars, TypeInv, TypeOK
    <2>3. CASE MergeShard
      <3>1. /\ merging \in NodeThreads /\ merging' = merging + 1 /\ merging \in Nat
            /\ merged' = merged \cup shard[merging]
            /\ shard'[merging] = {}
            /\ \A n \in NodeThreads \ {merging} : shard'[n] = shard[n]
        BY <1>0, <2>3 DEF MergeShard, TypeInv, TypeOK
      <3>2. NodesPlaced' /\ NodesOnly'
        BY <1>0, <2>3, <3>1 DEF MergeShard, NodeInv, NodesPlaced, NodesOnly, mainVars, nodeQVars
      <3>3. NodesEnd' /\ FeedAfterMerge'
        BY <1>0, <2>3 DEF MergeShard, NodeInv, NodesEnd, FeedAfterMerge, mainVars, nodeQVars,
           wayQVars, wayVars
      <3>4. MergeOrder'
        BY <1>0, <2>3, <3>1 DEF MergeShard, NodeInv, MergeOrder, AllAtNodeBarrier
      <3>5. QED
        BY <3>2, <3>3, <3>4 DEF NodeInv
    <2>4. CASE MergeEnd
      <3>1. /\ nqStop /\ \A n \in NodeThreads : nq[n] = <<>> /\ shard[n] = {}
        BY <1>0, <2>4 DEF MergeEnd, AllAtNodeBarrier, NodeInv, NodesEnd, MergeOrder
      <3>2. NodeIds \subseteq merged
        <4>1. \A n \in NodeThreads : \A i : ~InSeq(i, nq[n])
          BY <3>1, EmptyHasNone
        <4>2. \A i \in NodeIds : ~(mode = "nodes" /\ i >= pos)
          BY <1>0, <3>1 DEF NodeInv, NodesEnd, TypeInv, TypeOK
        <4>3. QED
          BY <3>1, <4>1, <4>2 DEF NodeInv, NodesPlaced
      <3>3. NodesPlaced' /\ NodesOnly' /\ NodesEnd'
        BY <1>0, <2>4, <3>1 DEF MergeEnd, NodeInv, NodesPlaced, NodesOnly, NodesEnd, mainVars, nodeQVars
      <3>4. MergeOrder' /\ FeedAfterMerge'
        BY <1>0, <2>4, <3>2 DEF MergeEnd, NodeInv, MergeOrder, FeedAfterMerge, mainVars, wayQVars, wayVars
      <3>5. QED
        BY <3>3, <3>4 DEF NodeInv
    <2>5. QED
      BY <1>2, <2>1, <2>2, <2>3, <2>4 DEF NodeStep
  <1>3. CASE UNCHANGED <<mainVars, nodeQVars, nodeVars, mergeVars>> /\ FeedAfterMerge'
    BY <1>0, <1>3 DEF NodeInv, NodesPlaced, NodesOnly, NodesEnd, MergeOrder,
       mainVars, nodeQVars, nodeVars, mergeVars
  <1>4. ASSUME NEW t \in WayThreads, WayStep(t) PROVE NodeInv'
    <2>1. UNCHANGED <<mainVars, nodeQVars, nodeVars, mergeVars>>
      BY <1>4 DEF WayStep, WayPop, FinishEntity, IgnoreNode, ProcessWay, FinalizeWays,
         ArriveAtWayBarrier, PassWayBarrier, ProcessRelation, QueueEnds, EndWayThread
    <2>2. FeedAfterMerge'
      <3>1. CASE WayPop(t)
        BY <2>1, <3>1 DEF WayPop, NodeInv, FeedAfterMerge, mainVars, mergeVars, TypeInv, TypeOK
      <3>2. CASE hand' = [hand EXCEPT ![t] = 0] /\ wq' = wq
        BY <2>1, <3>2 DEF NodeInv, FeedAfterMerge, mainVars, mergeVars, TypeInv, TypeOK
      <3>3. CASE hand' = hand /\ wq' = wq
        BY <2>1, <3>3 DEF NodeInv, FeedAfterMerge, mainVars, mergeVars
      <3>4. QED
        BY <1>4, <3>1, <3>2, <3>3 DEF WayStep, FinishEntity, IgnoreNode, ProcessWay, FinalizeWays,
           ArriveAtWayBarrier, PassWayBarrier, ProcessRelation, QueueEnds, EndWayThread, wayQVars
    <2>3. QED
      BY <1>3, <2>1, <2>2
  <1>5. CASE UNCHANGED vars
    BY <1>0, <1>3, <1>5 DEF vars, NodeInv, FeedAfterMerge, mainVars, mergeVars, wayQVars, wayVars
  <1>6. QED
    BY <1>1, <1>2, <1>4, <1>5 DEF Next

(* Whatever the numbers of threads and the sizes of queues and buffers, no *)
(* way is looked up before every node of the file can be found.            *)
THEOREM WaysSeeNodes == Spec => []WaysSeeAllNodes
  <1>1. TypeInv /\ NodeInv => WaysSeeAllNodes
    BY DEF WaysSeeAllNodes, NodeInv, NodesOnly, MergeOrder, FeedAfterMerge, TypeInv, HandInv, Working
  <1>2. QED
    BY <1>1, TypeInit, TypeStep, NodeInvInit, NodeInvStep, PTL DEF Spec

------------------------------------------------------------------------------
(* The way phase. *)

(* Buffered and committed rows are rows of a complete import. *)
RowsRight ==
    /\ \A table \in Tables : db[table] \subseteq Expected[table]
    /\ \A t \in WayThreads, table \in Tables : buf[t][table] \subseteq Expected[table]
    /\ \A n \in NodeThreads : nbuf[n] \subseteq Expected["nodes"]

WayIdsIn(tables) == Ids(tables["ways"] \cup tables["areas"])

(* Every way that gets a row is unread, queued, in a thread's hand, in a   *)
(* buffer or committed.                                                    *)
WaysPlaced ==
    \A i \in WayIds :
        \/ i >= pos
        \/ InSeq(i, wq)
        \/ \E t \in WayThreads : hand[t] = i
        \/ \E t \in WayThreads : i \in WayIdsIn(buf[t])
        \/ i \in WayIdsIn(db)

(* way_q keeps the order of the file. *)
QueueOrder ==
    /\ \A k \in 1 .. Len(wq) : wq[k] < pos
    /\ \A k, l \in 1 .. Len(wq) : k < l => wq[k] < wq[l]

(* No way is left to pop. *)
WaysOver == \A i \in OfKinds(WayKinds) : i < pos /\ ~InSeq(i, wq)

(* A thread past the ways: it holds a relation, or it left its loop.       *)
PastWays(t) ==
    \/ t \in arrived
    \/ wpc[t] \in {"cleanup", "finalized", "barrier", "ending", "done"}
    \/ hand[t] # 0 /\ file[hand[t]] \in RelationKinds

(* Such a thread can only be there when the ways are over for everybody.   *)
WaysBehind ==
    /\ \A t \in WayThreads : PastWays(t) => WaysOver
    /\ mpc \in {"joinNodes", "joinWays", "loaded"} => pos = Len(file) + 1
    /\ wqStop => mpc \in {"joinWays", "loaded"}

(* A thread at the barrier or past it holds no way and buffers no way.     *)
ArrivedClean ==
    \A t \in WayThreads : t \in arrived \/ wpc[t] \in {"finalized", "barrier"} =>
        /\ hand[t] \notin WayIds
        /\ WayIds \cap WayIdsIn(buf[t]) = {}

BarrierInv ==
    /\ \A t \in WayThreads : wayPhaseDone[t] => mode = "relations" \/ arrived = WayThreads
    /\ mode = "relations" => WayIds \subseteq WayIdsIn(db)

WayInv == RowsRight /\ WaysPlaced /\ QueueOrder /\ WaysBehind /\ ArrivedClean /\ BarrierInv

(* The tables of a complete import, one by one. *)
LEMMA ExpectedTables ==
    /\ Expected["nodes"] = {<<i, {}>> : i \in OfKinds({"node"})}
    /\ Expected["ways"] = {<<i, NodeIds>> : i \in WayIds \cap OfKinds({"way", "loop"})}
    /\ Expected["areas"] = {<<i, NodeIds>> : i \in WayIds \cap OfKinds({"area"})}
            \cup {<<-i, WayIds>> : i \in IF WayIds = {} THEN {} ELSE OfKinds({"multi"})}
    /\ Expected["relations"] = {<<i, LineIds>> : i \in OfKinds({"relation", "road"})}
    /\ Expected["roads"] = {<<i, LineIds>> : i \in IF LineIds = {} THEN {} ELSE OfKinds({"road"})}
  BY DEF Expected, Tables

(* Only ways that have a geometry are found under the id of a way. *)
LEMMA FoundAreWays ==
    ASSUME file \in Files, NEW W, NEW A,
           W \subseteq Expected["ways"], A \subseteq Expected["areas"]
    PROVE  OfKinds(WayKinds) \cap Ids(W \cup A) \subseteq WayIds
  <1> SUFFICES ASSUME NEW i \in OfKinds(WayKinds), NEW row \in W \cup A, row[1] = i
               PROVE  i \in WayIds
    BY DEF Ids, RowId
  <1>1. i \in Nat \ {0}
    BY FileFacts DEF OfKinds
  <1>2. CASE row \in Expected["ways"]
    BY <1>2, ExpectedTables
  <1>3. CASE row \in Expected["areas"]
    <2>1. CASE row \in {<<j, NodeIds>> : j \in WayIds \cap OfKinds({"area"})}
      BY <2>1
    <2>2. CASE row \in {<<-j, WayIds>> : j \in OfKinds({"multi"})}
      <3>1. PICK j \in OfKinds({"multi"}) : row = <<-j, WayIds>>
        BY <2>2
      <3>2. j \in Nat \ {0} /\ i = -j
        BY <3>1, FileFacts DEF OfKinds
      <3>3. QED
        BY <1>1, <3>2
    <2>3. QED
      BY <1>3, <2>1, <2>2, ExpectedTables
  <1>4. QED
    BY <1>2, <1>3

(* Once every thread has arrived, or when the ways come from an earlier    *)
(* run, a relation finds all ways.                                         *)
LEMMA AllWaysFound ==
    ASSUME TypeInv, WayInv, mode = "relations" \/ arrived = WayThreads
    PROVE  FoundWays = WayIds
  <1>1. FoundWays \subseteq WayIds
    BY FoundAreWays DEF FoundWays, WayInv, RowsRight, TypeInv, TypeOK, Tables
  <1>2. WayIds \subseteq WayIdsIn(db)
    <2>1. CASE mode = "relations"
      BY <2>1 DEF WayInv, BarrierInv
    <2>2. CASE arrived = WayThreads
      <3>1. 0 \in WayThreads
        BY SizeAssumption DEF WayThreads
      <3>2. WaysOver
        BY <2>2, <3>1 DEF WayInv, WaysBehind, PastWays
      <3>3. \A t \in WayThreads : hand[t] \notin WayIds /\ WayIds \cap WayIdsIn(buf[t]) = {}
        BY <2>2 DEF WayInv, ArrivedClean
      <3>4. WayIds \subseteq OfKinds(WayKinds) /\ \A i \in WayIds : i \in Nat
        BY FileFacts DEF WayIds, OfKinds, TypeInv, TypeOK
      <3>5. ASSUME NEW i \in WayIds PROVE i \in WayIdsIn(db)
        <4>1. ~(i >= pos) /\ ~InSeq(i, wq)
          BY <3>2, <3>4 DEF WaysOver, TypeInv, TypeOK
        <4>2. QED
          BY <3>3, <4>1 DEF WayInv, WaysPlaced
      <3>6. QED
        BY <3>5
    <2>3. QED
      BY <2>1, <2>2
  <1>3. QED
    BY <1>1, <1>2 DEF FoundWays, WayIdsIn, WayIds, OfKinds

LEMMA WayInvInit == Init => WayInv
  <1> SUFFICES ASSUME Init PROVE WayInv
    OBVIOUS
  <1> USE DEF Init
  <1>0. /\ Entities = 1 .. Len(file) /\ Len(file) \in Nat
        /\ \A table \in Tables : NoRows[table] = {}
    BY FileFacts DEF NoRows
  <1>1. PICK relRows \in Survivors("relations", RelationKinds),
             roadRows \in Survivors("roads", RelationKinds),
             areaRows \in Survivors("areas", RelationKinds) :
             db = [NoRows EXCEPT
                    !["nodes"] = IF mode = "nodes" THEN {} ELSE Expected["nodes"],
                    !["ways"]  = IF mode = "relations" THEN Expected["ways"] ELSE {},
                    !["areas"] = IF mode = "relations"
                                 THEN WayRows(Expected["areas"]) \cup areaRows ELSE {},
                    !["relations"] = relRows,
                    !["roads"] = roadRows]
    BY DEF InitDb
  <1>2. /\ relRows \subseteq Expected["relations"]
        /\ roadRows \subseteq Expected["roads"]
        /\ areaRows \subseteq Expected["areas"]
        /\ WayRows(Expected["areas"]) \subseteq Expected["areas"]
    BY DEF Survivors, WayRows
  <1>3. RowsRight
    <2>1. \A table \in Tables : db[table] \subseteq Expected[table]
      BY <1>1, <1>2 DEF Tables, NoRows
    <2>2. QED
      BY <1>0, <2>1 DEF RowsRight
  <1>4. WaysPlaced /\ BarrierInv
    <2>1. CASE mode = "relations"
      <3>1. WayIds \subseteq WayIdsIn(db)
        <4>1. db["ways"] = Expected["ways"] /\ WayRows(Expected["areas"]) \subseteq db["areas"]
          BY <1>1, <2>1 DEF NoRows, Tables
        <4>2. ASSUME NEW i \in WayIds PROVE i \in WayIdsIn(db)
          <5>1. file[i] \in WayKinds /\ HasGeometry(Refs(i)) /\ i \in Entities /\ i > 0
            BY <1>0 DEF WayIds, OfKinds
          <5>2. file[i] # "stub"
            BY <5>1, FS_EmptySet DEF Refs, HasGeometry
          <5>3. CASE file[i] \in {"way", "loop"}
            <6>1. <<i, NodeIds>> \in db["ways"]
              BY <4>1, <5>1, <5>3, ExpectedTables DEF OfKinds
            <6>2. QED
              BY <6>1 DEF WayIdsIn, Ids, RowId
          <5>4. CASE file[i] = "area"
            <6>1. <<i, NodeIds>> \in db["areas"]
              BY <4>1, <5>1, <5>4, ExpectedTables DEF OfKinds, WayRows, IsWayRow
            <6>2. QED
              BY <6>1 DEF WayIdsIn, Ids, RowId
          <5>5. QED
            BY <5>1, <5>2, <5>3, <5>4 DEF WayKinds
        <4>3. QED
          BY <4>2
      <3>2. QED
        BY <2>1, <3>1 DEF WaysPlaced, BarrierInv
    <2>2. CASE mode # "relations"
      <3>1. BarrierInv
        BY <2>2 DEF BarrierInv
      <3>2. CASE mode = "nodes" \/ nodeOffset = 0
        <4>1. pos = 1
          BY <2>2, <3>2 DEF StartPos
        <4>2. QED
          BY <1>0, <3>1, <4>1 DEF WaysPlaced, WayIds, OfKinds
      <3>3. CASE mode # "nodes" /\ nodeOffset # 0
        <4>1. PICK f \in Firsts(NotNodes) : nodeOffset = BlobStart(f)
          BY <3>3 DEF InitOffsets
        <4>2. pos \in 1 .. f
          BY <1>0, <2>2, <3>3, <4>1, BlobStartRange DEF StartPos, Firsts, OfKinds
        <4>3. \A i \in WayIds : f <= i /\ i \in Nat /\ f \in Nat
          BY <1>0 DEF Firsts, WayIds, OfKinds, NotNodes
        <4>4. QED
          BY <3>1, <4>2, <4>3 DEF WaysPlaced
      <3>4. QED
        BY <3>2, <3>3
    <2>3. QED
      BY <2>1, <2>2
  <1>5. QueueOrder /\ WaysBehind /\ ArrivedClean
    <2>1. ArrivedClean /\ WaysBehind
      BY DEF ArrivedClean, WaysBehind, PastWays
    <2>2. QED
      BY <2>1 DEF QueueOrder
  <1>6. QED
    BY <1>3, <1>4, <1>5 DEF WayInv

(* The ids of the two tables of ways, and of fewer rows.                   *)
LEMMA WayIdsSplit ==
    ASSUME NEW tables
    PROVE  WayIdsIn(tables) = Ids(tables["ways"]) \cup Ids(tables["areas"])
  BY DEF WayIdsIn, Ids

LEMMA IdsSubset ==
    ASSUME NEW A, NEW B, A \subseteq B
    PROVE  Ids(A) \subseteq Ids(B)
  BY DEF Ids

LEMMA IdsUnion ==
    ASSUME NEW A, NEW B
    PROVE  Ids(A \cup B) = Ids(A) \cup Ids(B)
  BY DEF Ids

(* Insertion and flush move rows from the entity to a buffer to the table, *)
(* and lose none.                                                          *)
LEMMA FlushKeeps ==
    ASSUME TypeInv, RowsRight, NEW t \in WayThreads, NEW new \in RowSets, NEW always,
           InsertAndFlush(t, new, always), file' = file, Expected' = Expected, nbuf' = nbuf,
           \A table \in Tables : new[table] \subseteq Expected[table]
    PROVE  /\ RowsRight'
           /\ WayIdsIn(db) \subseteq WayIdsIn(db')
           /\ \A u \in WayThreads : WayIdsIn(buf[u]) \subseteq WayIdsIn(buf'[u]) \cup WayIdsIn(db')
           /\ WayIdsIn(new) \subseteq WayIdsIn(buf'[t]) \cup WayIdsIn(db')
           /\ \A u \in WayThreads \ {t} : buf'[u] = buf[u]
           /\ WayIdsIn(buf'[t]) \subseteq WayIdsIn(buf[t]) \cup WayIdsIn(new)
           /\ {"ways", "areas"} \subseteq always => WayIdsIn(buf'[t]) = {}
  <1>1. /\ \A u \in WayThreads \ {t} : buf'[u] = buf[u]
        /\ \A table \in Tables :
                /\ buf'[t][table] \subseteq buf[t][table] \cup new[table]
                /\ db[table] \subseteq db'[table]
                /\ db'[table] \subseteq db[table] \cup buf[t][table] \cup new[table]
                /\ table \in always => buf'[t][table] = {}
                /\ Ids(buf[t][table] \cup new[table])
                       \subseteq Ids(buf'[t][table]) \cup Ids(db'[table])
    BY FlushFacts DEF TypeInv, TypeOK
  <1>2. RowsRight'
    BY <1>1 DEF RowsRight
  <1>3. "ways" \in Tables /\ "areas" \in Tables
    BY DEF Tables
  <1>4. ASSUME NEW table \in {"ways", "areas"}
        PROVE  /\ Ids(db[table]) \subseteq Ids(db'[table])
               /\ Ids(buf[t][table]) \subseteq Ids(buf'[t][table]) \cup Ids(db'[table])
               /\ Ids(new[table]) \subseteq Ids(buf'[t][table]) \cup Ids(db'[table])
               /\ Ids(buf'[t][table]) \subseteq Ids(buf[t][table]) \cup Ids(new[table])
    <2>1. db[table] \subseteq db'[table] /\ buf'[t][table] \subseteq buf[t][table] \cup new[table]
      BY <1>1, <1>3
    <2>2. Ids(buf[t][table] \cup new[table]) \subseteq Ids(buf'[t][table]) \cup Ids(db'[table])
      BY <1>1, <1>3
    <2>3. Ids(buf[t][table] \cup new[table]) = Ids(buf[t][table]) \cup Ids(new[table])
      BY IdsUnion
    <2>4. Ids(db[table]) \subseteq Ids(db'[table])
      BY <2>1, IdsSubset
    <2>5. Ids(buf'[t][table]) \subseteq Ids(buf[t][table] \cup new[table])
      BY <2>1, IdsSubset
    <2>6. QED
      BY <2>2, <2>3, <2>4, <2>5
  <1>5. /\ WayIdsIn(db) = Ids(db["ways"]) \cup Ids(db["areas"])
        /\ WayIdsIn(db') = Ids(db'["ways"]) \cup Ids(db'["areas"])
        /\ WayIdsIn(buf[t]) = Ids(buf[t]["ways"]) \cup Ids(buf[t]["areas"])
        /\ WayIdsIn(buf'[t]) = Ids(buf'[t]["ways"]) \cup Ids(buf'[t]["areas"])
        /\ WayIdsIn(new) = Ids(new["ways"]) \cup Ids(new["areas"])
    BY WayIdsSplit
  <1>6. WayIdsIn(db) \subseteq WayIdsIn(db')
    BY <1>4, <1>5
  <1>7. /\ WayIdsIn(buf[t]) \subseteq WayIdsIn(buf'[t]) \cup WayIdsIn(db')
        /\ WayIdsIn(new) \subseteq WayIdsIn(buf'[t]) \cup WayIdsIn(db')
    BY <1>4, <1>5
  <1>8. WayIdsIn(buf'[t]) \subseteq WayIdsIn(buf[t]) \cup WayIdsIn(new)
    BY <1>4, <1>5
  <1>9. {"ways", "areas"} \subseteq always => WayIdsIn(buf'[t]) = {}
    BY <1>1, <1>3 DEF WayIdsIn, Ids
  <1>10. QED
    BY <1>1, <1>2, <1>6, <1>7, <1>8, <1>9

(* The row of a way, when its nodes are all merged, is the expected one.   *)
LEMMA WayRowRight ==
    ASSUME TypeInv, NodeInv, NEW t \in WayThreads, Working(t, WayKinds), mode # "relations",
           HasGeometry(Refs(hand[t]) \cap merged)
    PROVE  LET i == hand[t]
               new == OneRow(IF file[i] = "area" THEN "areas" ELSE "ways",
                             <<i, Refs(i) \cap merged>>)
           IN  /\ \A table \in Tables : new[table] \subseteq Expected[table]
               /\ i \in WayIdsIn(new)
               /\ new \in RowSets
  <1> DEFINE i == hand[t]
             new == OneRow(IF file[i] = "area" THEN "areas" ELSE "ways",
                           <<i, Refs(i) \cap merged>>)
  <1>1. i \in Entities /\ file[i] \in WayKinds /\ merged = NodeIds
    BY DEF Working, TypeInv, TypeOK, HandInv, NodeInv, FeedAfterMerge, MergeOrder, NodesOnly
  <1>2. file[i] # "stub"
    BY FS_EmptySet DEF Refs, HasGeometry
  <1>3. Refs(i) \cap merged = NodeIds /\ i \in WayIds
    BY <1>1, <1>2 DEF Refs, WayIds, OfKinds
  <1>4. file[i] \in {"way", "loop"} \/ file[i] = "area"
    BY <1>1, <1>2 DEF WayKinds
  <1>5. CASE file[i] \in {"way", "loop"}
    <2>1. <<i, NodeIds>> \in Expected["ways"]
      BY <1>1, <1>3, <1>5, ExpectedTables DEF OfKinds
    <2>2. new = OneRow("ways", <<i, NodeIds>>)
      BY <1>3, <1>5
    <2>3. \A table \in Tables : new[table] = IF table = "ways" THEN {<<i, NodeIds>>} ELSE {}
      BY <2>2 DEF OneRow, NoRows, Tables
    <2>4. i \in WayIdsIn(new)
      <3>1. <<i, NodeIds>> \in new["ways"] \cup new["areas"]
        BY <2>3 DEF Tables
      <3>2. RowId(<<i, NodeIds>>) \in WayIdsIn(new)
        BY <3>1 DEF WayIdsIn, Ids
      <3>3. QED
        BY <3>2 DEF RowId
    <2>5. new \in RowSets
      <3>1. <<i, NodeIds>> \in Rows
        BY <1>1, FileFacts DEF Rows, NodeIds, OfKinds, TypeInv, TypeOK
      <3>2. QED
        BY <2>2, <3>1, NewRowsTyped DEF TypeInv, Tables
    <2>6. ASSUME NEW table \in Tables PROVE new[table] \subseteq Expected[table]
      <3>1. CASE table = "ways"
        BY <2>1, <2>3, <3>1
      <3>2. CASE table # "ways"
        BY <2>3, <3>2
      <3>3. QED
        BY <3>1, <3>2
    <2>7. QED
      BY <2>4, <2>5, <2>6
  <1>6. CASE file[i] = "area"
    <2>1. <<i, NodeIds>> \in Expected["areas"]
      BY <1>1, <1>3, <1>6, ExpectedTables DEF OfKinds
    <2>2. new = OneRow("areas", <<i, NodeIds>>)
      BY <1>3, <1>6
    <2>3. \A table \in Tables : new[table] = IF table = "areas" THEN {<<i, NodeIds>>} ELSE {}
      BY <2>2 DEF OneRow, NoRows, Tables
    <2>4. i \in WayIdsIn(new)
      <3>1. <<i, NodeIds>> \in new["ways"] \cup new["areas"]
        BY <2>3 DEF Tables
      <3>2. RowId(<<i, NodeIds>>) \in WayIdsIn(new)
        BY <3>1 DEF WayIdsIn, Ids
      <3>3. QED
        BY <3>2 DEF RowId
    <2>5. new \in RowSets
      <3>1. <<i, NodeIds>> \in Rows
        BY <1>1, FileFacts DEF Rows, NodeIds, OfKinds, TypeInv, TypeOK
      <3>2. QED
        BY <2>2, <3>1, NewRowsTyped DEF TypeInv, Tables
    <2>6. ASSUME NEW table \in Tables PROVE new[table] \subseteq Expected[table]
      <3>1. CASE table = "areas"
        BY <2>1, <2>3, <3>1
      <3>2. CASE table # "areas"
        BY <2>3, <3>2
      <3>3. QED
        BY <3>1, <3>2
    <2>7. QED
      BY <2>4, <2>5, <2>6
  <1>7. QED
    BY <1>4, <1>5, <1>6

(* The rows of a relation that finds all ways are the expected ones, and   *)
(* none of them has the id of a way.                                       *)
LEMMA RelationRowsRight ==
    ASSUME TypeInv, WayInv, NEW i \in OfKinds(RelationKinds), FoundWays = WayIds
    PROVE  /\ \A table \in Tables : RelationRows(i)[table] \subseteq Expected[table]
           /\ WayIds \cap WayIdsIn(RelationRows(i)) = {}
  <1>0. /\ i \in Nat \ {0} /\ \A j \in WayIds : j \in Nat
        /\ \A table \in Tables : NoRows[table] = {}
        /\ "ways" \in Tables /\ "areas" \in Tables
        /\ "relations" \in Tables /\ "roads" \in Tables
    BY FileFacts DEF OfKinds, WayIds, NoRows, TypeInv, TypeOK, Tables
  <1>a. FoundLines = LineIds
    BY DEF FoundLines, LineIds
  <1>1. file[i] \in {"relation", "road", "multi", "broken"}
    BY DEF OfKinds, RelationKinds
  <1>2. \A table \in Tables : \A row : OneRow(table, row)[table] = {row}
                /\ \A other \in Tables \ {table} : OneRow(table, row)[other] = {}
    BY DEF OneRow, NoRows
  <1>3. CASE file[i] = "broken" \/ (file[i] = "multi" /\ WayIds = {})
    <2>1. RelationRows(i) = NoRows
      BY <1>3 DEF RelationRows
    <2>2. QED
      BY <1>0, <2>1 DEF WayIdsIn, Ids
  <1>4. CASE file[i] = "multi" /\ WayIds # {}
    <2>1. RelationRows(i) = OneRow("areas", <<-i, WayIds>>)
      BY <1>4 DEF RelationRows
    <2>2. <<-i, WayIds>> \in Expected["areas"]
      BY <1>4, ExpectedTables DEF OfKinds
    <2>3. WayIdsIn(RelationRows(i)) = {-i}
      BY <1>0, <1>2, <2>1 DEF WayIdsIn, Ids, RowId
    <2>4. QED
      BY <1>0, <1>2, <2>1, <2>2, <2>3
  <1>5. CASE file[i] = "relation" \/ (file[i] = "road" /\ LineIds = {})
    <2>1. RelationRows(i) = OneRow("relations", <<i, LineIds>>)
      BY <1>a, <1>5 DEF RelationRows
    <2>2. <<i, LineIds>> \in Expected["relations"]
      BY <1>5, ExpectedTables DEF OfKinds
    <2>3. WayIdsIn(RelationRows(i)) = {}
      BY <1>0, <1>2, <2>1 DEF WayIdsIn, Ids
    <2>4. QED
      BY <1>0, <1>2, <2>1, <2>2, <2>3
  <1>6. CASE file[i] = "road" /\ LineIds # {}
    <2>1. RelationRows(i) = [NoRows EXCEPT !["relations"] = {<<i, LineIds>>},
                                           !["roads"] = {<<i, LineIds>>}]
      BY <1>a, <1>6 DEF RelationRows
    <2>2. <<i, LineIds>> \in Expected["relations"] /\ <<i, LineIds>> \in Expected["roads"]
      BY <1>6, ExpectedTables DEF OfKinds
    <2>3. \A table \in Tables : RelationRows(i)[table] =
              IF table \in {"relations", "roads"} THEN {<<i, LineIds>>} ELSE {}
      BY <2>1 DEF NoRows, Tables
    <2>4. WayIdsIn(RelationRows(i)) = {}
      BY <1>0, <2>3 DEF WayIdsIn, Ids
    <2>5. QED
      BY <2>2, <2>3, <2>4
  <1>7. QED
    BY <1>1, <1>3, <1>4, <1>5, <1>6

(* The steps that leave the way threads and their tables alone keep the    *)
(* invariant of the way phase: main()'s, and the node threads'.            *)
LEMMA WayInvMain ==
    ASSUME TypeInv, NodeInv, WayInv, [Next]_vars, MainStep
    PROVE  WayInv'
  <1>0. /\ file' = file /\ mode' = mode /\ Entities' = Entities /\ WayIds' = WayIds
        /\ Expected' = Expected
        /\ Entities = 1 .. Len(file) /\ Len(file) \in Nat
        /\ OfKinds(WayKinds)' = OfKinds(WayKinds)
        /\ WayIds \subseteq OfKinds(WayKinds)
        /\ \A i \in OfKinds(WayKinds) : i \in 1 .. Len(file)
        /\ pos \in 1 .. Len(file) + 1
    BY FileConstant, FileFacts DEF TypeInv, TypeOK, WayIds, OfKinds, Entities
  <1>1. /\ wayVars' = wayVars /\ db' = db /\ nbuf' = nbuf
        /\ wpc' = wpc /\ hand' = hand /\ arrived' = arrived /\ buf' = buf
        /\ wayPhaseDone' = wayPhaseDone
    BY DEF MainStep, HandOutNode, SkipNode, EndNodePhase, MergeSeen, DropWay, Feed,
           EndOfFile, JoinNodes, JoinWays, wayVars, nodeVars
  <1>2. RowsRight' /\ ArrivedClean' /\ BarrierInv'
    BY <1>0, <1>1 DEF WayInv, RowsRight, ArrivedClean, BarrierInv
  <1>3. CASE UNCHANGED <<pos, wq>>
    <2>1. WaysPlaced' /\ QueueOrder' /\ WaysOver' = WaysOver
      BY <1>0, <1>1, <1>3 DEF WayInv, WaysPlaced, QueueOrder, WaysOver
    <2>2. /\ mpc' \in {"joinNodes", "joinWays", "loaded"} => pos = Len(file) + 1
          /\ wqStop' => mpc' \in {"joinWays", "loaded"}
      BY <1>0, <1>3 DEF MainStep, HandOutNode, SkipNode, EndNodePhase, MergeSeen, DropWay, Feed,
         EndOfFile, JoinNodes, JoinWays, More, wayQVars, WayInv, WaysBehind
    <2>3. WaysBehind'
      BY <1>0, <1>1, <1>3, <2>1, <2>2 DEF WayInv, WaysBehind, PastWays
    <2>4. QED
      BY <1>2, <2>1, <2>3 DEF WayInv
  <1>4. CASE HandOutNode \/ SkipNode \/ DropWay
    <2>1. /\ pos' = pos + 1 /\ mpc' = mpc /\ mpc = "reading"
          /\ wq' = wq /\ wqStop' = wqStop
      BY <1>4 DEF HandOutNode, SkipNode, DropWay, More, wayQVars
    <2>2. pos \in WayIds => mode = "relations"
      BY <1>4, KindFacts DEF HandOutNode, SkipNode, DropWay, Kind, WayIds, OfKinds
    <2>3. WaysPlaced'
      <3>1. CASE mode = "relations"
        BY <1>0, <1>1, <3>1 DEF WayInv, BarrierInv, WaysPlaced
      <3>2. CASE mode # "relations"
        BY <1>0, <1>1, <2>1, <2>2, <3>2 DEF WayInv, WaysPlaced
      <3>3. QED
        BY <3>1, <3>2
    <2>4. QueueOrder'
      <3>1. \A k \in 1 .. Len(wq) : wq[k] \in Int
        BY <1>0 DEF TypeInv, TypeOK
      <3>2. QED
        BY <1>0, <2>1, <3>1 DEF WayInv, QueueOrder
    <2>5. WaysOver => WaysOver'
      BY <1>0, <2>1 DEF WaysOver
    <2>6. WaysBehind'
      BY <1>0, <1>1, <2>1, <2>5 DEF WayInv, WaysBehind, PastWays
    <2>7. QED
      BY <1>2, <2>3, <2>4, <2>6 DEF WayInv
  <1>5. CASE Feed
    <2>1. /\ pos' = pos + 1 /\ mpc' = mpc /\ mpc = "reading"
          /\ wq' = Append(wq, pos) /\ wqStop' = wqStop /\ pos \in Entities
      BY <1>0, <1>5 DEF Feed, More
    <2>2. wq \in Seq(Entities)
      BY DEF TypeInv, TypeOK
    <2>3. \A x : InSeq(x, wq') <=> InSeq(x, wq) \/ x = pos
      BY <2>1, <2>2, InAppend
    <2>4. WaysPlaced'
      BY <1>0, <1>1, <2>1, <2>3 DEF WayInv, WaysPlaced
    <2>5. QueueOrder'
      <3>1. Len(wq) \in Nat /\ Len(wq') = Len(wq) + 1
        BY <2>1, <2>2
      <3>2. /\ \A k \in 1 .. Len(wq) : wq'[k] = wq[k] /\ wq[k] \in Int
            /\ wq'[Len(wq) + 1] = pos
        BY <1>0, <2>1, <2>2
      <3>3. \A k \in 1 .. Len(wq') : k \in 1 .. Len(wq) \/ k = Len(wq) + 1
        BY <3>1
      <3>4. \A k \in 1 .. Len(wq') : wq'[k] < pos'
        BY <1>0, <2>1, <3>1, <3>2, <3>3 DEF WayInv, QueueOrder
      <3>5. \A k, l \in 1 .. Len(wq') : k < l => wq'[k] < wq'[l]
        BY <1>0, <2>1, <3>1, <3>2, <3>3 DEF WayInv, QueueOrder
      <3>6. QED
        BY <3>4, <3>5 DEF QueueOrder
    <2>6. WaysOver => WaysOver'
      BY <1>0, <2>1, <2>3 DEF WaysOver
    <2>7. WaysBehind'
      BY <1>0, <1>1, <2>1, <2>6 DEF WayInv, WaysBehind, PastWays
    <2>8. QED
      BY <1>2, <2>4, <2>5, <2>7 DEF WayInv
  <1>6. QED
    BY <1>3, <1>4, <1>5 DEF MainStep, EndNodePhase, MergeSeen, EndOfFile, JoinNodes, JoinWays, wayQVars

LEMMA WayInvNode ==
    ASSUME TypeInv, NodeInv, WayInv, [Next]_vars, NodeStep
    PROVE  WayInv'
  <1>0. /\ file' = file /\ mode' = mode /\ Entities' = Entities /\ WayIds' = WayIds
        /\ Expected' = Expected
        /\ OfKinds(WayKinds)' = OfKinds(WayKinds)
        /\ "ways" \in Tables /\ "areas" \in Tables /\ "nodes" \in Tables
    BY FileConstant DEF OfKinds, Tables
  <1>1. /\ wpc' = wpc /\ hand' = hand /\ arrived' = arrived /\ buf' = buf
        /\ wayPhaseDone' = wayPhaseDone /\ wq' = wq /\ wqStop' = wqStop
        /\ pos' = pos /\ mpc' = mpc
    BY DEF NodeStep, StoreNode, EndNodes, MergeShard, MergeEnd, wayVars, wayQVars, mainVars
  <1>2. /\ db'["ways"] = db["ways"] /\ db'["areas"] = db["areas"]
        /\ RowsRight'
    <2>1. ASSUME NEW n \in NodeThreads, NEW rows, rows \subseteq Expected["nodes"],
                 db' = [db EXCEPT !["nodes"] = Copied(@, rows)] \/ db' = db,
                 nbuf' = [nbuf EXCEPT ![n] = {}] \/ nbuf' = [nbuf EXCEPT ![n] = rows]
          PROVE  /\ db'["ways"] = db["ways"] /\ db'["areas"] = db["areas"]
                 /\ RowsRight'
      <3>1. Copied(db["nodes"], rows) \subseteq Expected["nodes"]
        BY <1>0, <2>1 DEF Copied, WayInv, RowsRight
      <3>2. db \in [Tables -> SUBSET (Int \X SUBSET Entities)] /\ nbuf \in [NodeThreads -> SUBSET (Int \X SUBSET Entities)]
        BY DEF TypeInv, TypeOK, RowSets
      <3>3. /\ db'["ways"] = db["ways"] /\ db'["areas"] = db["areas"]
            /\ \A table \in Tables : db'[table] \subseteq Expected[table]
        BY <1>0, <2>1, <3>1, <3>2 DEF WayInv, RowsRight
      <3>4. \A m \in NodeThreads : nbuf'[m] \subseteq Expected["nodes"]
        BY <2>1, <3>2 DEF WayInv, RowsRight
      <3>5. QED
        BY <1>0, <1>1, <3>3, <3>4 DEF WayInv, RowsRight
    <2>2. ASSUME NEW n \in NodeThreads, StoreNode(n)
          PROVE  /\ db'["ways"] = db["ways"] /\ db'["areas"] = db["areas"]
                 /\ RowsRight'
      <3> DEFINE rows == nbuf[n] \cup NodeRows({Head(nq[n])} \cap OfKinds({"node"}))
      <3>1. rows \subseteq Expected["nodes"]
        BY ExpectedTables DEF NodeRows, WayInv, RowsRight
      <3>2. /\ db' = [db EXCEPT !["nodes"] = Copied(@, rows)] \/ db' = db
            /\ nbuf' = [nbuf EXCEPT ![n] = {}] \/ nbuf' = [nbuf EXCEPT ![n] = rows]
        BY <2>2 DEF StoreNode
      <3> HIDE DEF rows
      <3>3. QED
        BY <2>1, <3>1, <3>2
    <2>3. ASSUME NEW n \in NodeThreads, EndNodes(n)
          PROVE  /\ db'["ways"] = db["ways"] /\ db'["areas"] = db["areas"]
                 /\ RowsRight'
      <3>1. nbuf[n] \subseteq Expected["nodes"]
        BY DEF WayInv, RowsRight
      <3>2. QED
        BY <2>1, <2>3, <3>1 DEF EndNodes
    <2>4. CASE MergeShard \/ MergeEnd
      BY <1>0, <1>1, <2>4 DEF MergeShard, MergeEnd, WayInv, RowsRight
    <2>5. QED
      BY <2>2, <2>3, <2>4 DEF NodeStep
  <1>3. WayIdsIn(db') = WayIdsIn(db)
    BY <1>2 DEF WayIdsIn
  <1>4. WaysPlaced' /\ BarrierInv'
    BY <1>0, <1>1, <1>3 DEF WayInv, WaysPlaced, BarrierInv
  <1>5. QueueOrder' /\ ArrivedClean' /\ WaysOver' = WaysOver
    BY <1>0, <1>1 DEF WayInv, QueueOrder, ArrivedClean, WaysOver
  <1>6. WaysBehind'
    BY <1>0, <1>1, <1>5 DEF WayInv, WaysBehind, PastWays
  <1>7. QED
    BY <1>2, <1>4, <1>5, <1>6 DEF WayInv

(* A thread that inserts rows and flushes buffers without touching the     *)
(* queue or the barrier.                                                   *)
LEMMA WayInvInsert ==
    ASSUME TypeInv, WayInv, [Next]_vars, NEW t \in WayThreads, NEW new \in RowSets, NEW always,
           InsertAndFlush(t, new, always),
           \A table \in Tables : new[table] \subseteq Expected[table],
           hand[t] \in WayIds => \/ mode = "relations" \/ hand'[t] = hand[t]
                                \/ hand[t] \in WayIdsIn(new),
           t \in arrived => WayIds \cap WayIdsIn(new) = {},
           hand' = [hand EXCEPT ![t] = hand'[t]], hand'[t] \in {0, hand[t]},
           wpc' = [wpc EXCEPT ![t] = wpc'[t]],
           \/ wpc'[t] \in {"popping", "done"}
           \/ /\ wpc'[t] = "finalized" /\ hand[t] \notin WayIds
              /\ {"ways", "areas"} \subseteq always,
           PastWays(t)' => PastWays(t),
           UNCHANGED <<pos, mpc, wq, wqStop, arrived, wayPhaseDone, nbuf>>
    PROVE  WayInv'
  <1>0. /\ file' = file /\ mode' = mode /\ Entities' = Entities /\ WayIds' = WayIds
        /\ Expected' = Expected
        /\ OfKinds(WayKinds)' = OfKinds(WayKinds)
        /\ pos' = pos /\ mpc' = mpc /\ wq' = wq /\ wqStop' = wqStop
        /\ arrived' = arrived /\ wayPhaseDone' = wayPhaseDone /\ nbuf' = nbuf
        /\ \A i \in WayIds : i # 0
    BY FileConstant, FileFacts DEF OfKinds, WayIds, TypeInv, TypeOK
  <1>1. /\ \A u \in WayThreads \ {t} : hand'[u] = hand[u] /\ wpc'[u] = wpc[u]
        /\ hand'[t] \in {0, hand[t]}
    BY DEF TypeInv, TypeOK
  <1>2. /\ RowsRight'
        /\ WayIdsIn(db) \subseteq WayIdsIn(db')
        /\ \A u \in WayThreads : WayIdsIn(buf[u]) \subseteq WayIdsIn(buf'[u]) \cup WayIdsIn(db')
        /\ WayIdsIn(new) \subseteq WayIdsIn(buf'[t]) \cup WayIdsIn(db')
        /\ \A u \in WayThreads \ {t} : buf'[u] = buf[u]
        /\ WayIdsIn(buf'[t]) \subseteq WayIdsIn(buf[t]) \cup WayIdsIn(new)
        /\ {"ways", "areas"} \subseteq always => WayIdsIn(buf'[t]) = {}
    BY <1>0, FlushKeeps DEF WayInv
  <1>3. WaysPlaced'
    <2> SUFFICES ASSUME NEW i \in WayIds, ~(i >= pos), ~InSeq(i, wq),
                        \A u \in WayThreads : hand'[u] # i,
                        \A u \in WayThreads : i \notin WayIdsIn(buf'[u])
                 PROVE  i \in WayIdsIn(db')
      BY <1>0 DEF WaysPlaced
    <2>0. CASE mode = "relations"
      BY <1>2, <2>0 DEF WayInv, BarrierInv
    <2>1. CASE mode # "relations" /\ \E u \in WayThreads : hand[u] = i
      BY <1>1, <1>2, <2>1
    <2>2. CASE \E u \in WayThreads : i \in WayIdsIn(buf[u])
      BY <1>2, <2>2
    <2>3. CASE i \in WayIdsIn(db)
      BY <1>2, <2>3
    <2>4. QED
      BY <2>0, <2>1, <2>2, <2>3 DEF WayInv, WaysPlaced
  <1>4. QueueOrder' /\ WaysOver' = WaysOver
    BY <1>0 DEF WayInv, QueueOrder, WaysOver
  <1>5. WaysBehind'
    <2>1. \A u \in WayThreads \ {t} : PastWays(u)' => PastWays(u)
      BY <1>0, <1>1 DEF PastWays
    <2>2. QED
      BY <1>0, <1>4, <2>1 DEF WayInv, WaysBehind
  <1>6. ArrivedClean'
    <2>1. ASSUME NEW u \in WayThreads \ {t}, u \in arrived \/ wpc'[u] \in {"finalized", "barrier"}
          PROVE  hand'[u] \notin WayIds /\ WayIds \cap WayIdsIn(buf'[u]) = {}
      BY <1>1, <1>2, <2>1 DEF WayInv, ArrivedClean
    <2>2. ASSUME t \in arrived \/ wpc'[t] \in {"finalized", "barrier"}
          PROVE  hand'[t] \notin WayIds /\ WayIds \cap WayIdsIn(buf'[t]) = {}
      <3>1. CASE wpc'[t] = "finalized"
        BY <1>0, <1>1, <1>2, <3>1
      <3>2. CASE t \in arrived
        BY <1>0, <1>1, <1>2, <3>2 DEF WayInv, ArrivedClean
      <3>3. QED
        BY <2>2, <3>1, <3>2
    <2>3. QED
      BY <1>0, <2>1, <2>2 DEF ArrivedClean
  <1>7. BarrierInv'
    BY <1>0, <1>2 DEF WayInv, BarrierInv
  <1>8. QED
    BY <1>2, <1>3, <1>4, <1>5, <1>6, <1>7 DEF WayInv

(* Taking an entity from way_q: when it is a relation, no way is left      *)
(* behind it.                                                              *)
LEMMA WayInvPop ==
    ASSUME TypeInv, WayInv, [Next]_vars, NEW t \in WayThreads, WayPop(t)
    PROVE  WayInv'
  <1>0. /\ file' = file /\ mode' = mode /\ Entities' = Entities /\ WayIds' = WayIds
        /\ Expected' = Expected
        /\ OfKinds(WayKinds)' = OfKinds(WayKinds)
        /\ pos' = pos /\ mpc' = mpc /\ wqStop' = wqStop
        /\ arrived' = arrived /\ wayPhaseDone' = wayPhaseDone /\ nbuf' = nbuf
        /\ buf' = buf /\ db' = db
        /\ Entities = 1 .. Len(file) /\ Len(file) \in Nat
        /\ pos \in 1 .. Len(file) + 1
    BY FileConstant, FileFacts DEF OfKinds, WayPop, mainVars, nodeVars, TypeInv, TypeOK
  <1>1. /\ wq \in Seq(Entities) /\ wq # <<>> /\ wq' = Tail(wq)
        /\ hand'[t] = Head(wq) /\ wpc'[t] = "working" /\ wpc[t] = "popping" /\ hand[t] = 0
        /\ \A u \in WayThreads \ {t} : hand'[u] = hand[u] /\ wpc'[u] = wpc[u]
    BY DEF WayPop, TypeInv, TypeOK, HandInv
  <1>2. /\ Len(wq) \in Nat \ {0} /\ Len(wq') = Len(wq) - 1
        /\ Head(wq) = wq[1] /\ Head(wq) \in Entities
        /\ \A k \in 1 .. Len(wq) - 1 : wq'[k] = wq[k + 1]
        /\ \A k \in 1 .. Len(wq) : wq[k] \in Entities
    BY <1>1
  <1>3. \A x : InSeq(x, wq) <=> x = Head(wq) \/ InSeq(x, wq')
    BY <1>1, InTail
  <1>4. RowsRight' /\ BarrierInv'
    BY <1>0 DEF WayInv, RowsRight, BarrierInv
  <1>5. WaysPlaced'
    <2> SUFFICES ASSUME NEW i \in WayIds, ~(i >= pos), ~InSeq(i, wq'),
                        \A u \in WayThreads : hand'[u] # i,
                        \A u \in WayThreads : i \notin WayIdsIn(buf[u])
                 PROVE  i \in WayIdsIn(db)
      BY <1>0 DEF WaysPlaced
    <2>1. ~InSeq(i, wq) /\ i # 0
      BY <1>0, <1>1, <1>3 DEF WayIds, OfKinds
    <2>2. \A u \in WayThreads : hand[u] # i
      BY <1>1, <2>1
    <2>3. QED
      BY <2>1, <2>2 DEF WayInv, WaysPlaced
  <1>6. QueueOrder'
    <2>1. \A k \in 1 .. Len(wq) - 1 : k \in 1 .. Len(wq) /\ k + 1 \in 1 .. Len(wq)
      BY <1>2
    <2>2. \A k \in 1 .. Len(wq') : wq'[k] < pos'
      BY <1>0, <1>2, <2>1 DEF WayInv, QueueOrder
    <2>3. ASSUME NEW k \in 1 .. Len(wq'), NEW l \in 1 .. Len(wq'), k < l
          PROVE  wq'[k] < wq'[l]
      <3>1. k + 1 < l + 1 /\ k + 1 \in 1 .. Len(wq) /\ l + 1 \in 1 .. Len(wq)
        BY <1>2, <2>3
      <3>2. wq[k + 1] < wq[l + 1]
        BY <3>1 DEF WayInv, QueueOrder
      <3>3. QED
        BY <1>2, <3>2
    <2>4. QED
      BY <2>2, <2>3 DEF QueueOrder
  <1>7. WaysOver => WaysOver'
    BY <1>0, <1>3 DEF WaysOver
  <1>8. ASSUME file[Head(wq)] \in RelationKinds PROVE WaysOver'
    <2>1. \A i \in OfKinds(WayKinds) : i \in Entities /\ Stage(file[i]) = 2
      BY KindFacts DEF OfKinds
    <2>2. Stage(file[Head(wq)]) = 3
      BY <1>8, KindFacts
    <2>3. \A i \in Entities : Head(wq) <= i => Stage(file[i]) >= 3
      <3>1. \A i \in Entities : Head(wq) < i => 3 <= Stage(file[i])
        BY <1>2, <2>2, FileFacts DEF TypeInv, TypeOK
      <3>2. \A i \in Entities : Stage(file[i]) \in {1, 2, 3}
        BY DEF Stage
      <3>3. QED
        BY <1>0, <1>2, <2>2, <3>1, <3>2
    <2>4. ASSUME NEW i \in OfKinds(WayKinds) PROVE i < Head(wq)
      BY <1>0, <1>2, <2>1, <2>3
    <2>5. Head(wq) < pos
      BY <1>2 DEF WayInv, QueueOrder
    <2>6. ASSUME NEW i \in OfKinds(WayKinds) PROVE ~InSeq(i, wq')
      <3> SUFFICES ASSUME NEW k \in 1 .. Len(wq'), wq'[k] = i PROVE FALSE
        BY DEF InSeq
      <3>1. k + 1 \in 1 .. Len(wq) /\ 1 \in 1 .. Len(wq) /\ 1 < k + 1 /\ k \in 1 .. Len(wq) - 1
        BY <1>2
      <3>2. wq[1] < wq[k + 1]
        BY <3>1 DEF WayInv, QueueOrder
      <3>3. QED
        BY <1>0, <1>2, <2>4, <3>1, <3>2
    <2>7. QED
      BY <1>0, <1>2, <2>1, <2>4, <2>5, <2>6 DEF WaysOver
  <1>9. WaysBehind'
    <2>1. \A u \in WayThreads \ {t} : PastWays(u)' => PastWays(u)
      BY <1>0, <1>1 DEF PastWays
    <2>2. PastWays(t)' => PastWays(t) \/ file[Head(wq)] \in RelationKinds
      BY <1>0, <1>1 DEF PastWays
    <2>3. QED
      BY <1>0, <1>7, <1>8, <2>1, <2>2 DEF WayInv, WaysBehind
  <1>10. ArrivedClean'
    <2>1. ASSUME t \in arrived PROVE Head(wq) \notin WayIds
      <3>1. WaysOver
        BY <2>1 DEF WayInv, WaysBehind, PastWays
      <3>2. InSeq(Head(wq), wq)
        BY <1>3
      <3>3. QED
        BY <3>1, <3>2 DEF WaysOver, WayIds
    <2>2. QED
      BY <1>0, <1>1, <2>1 DEF WayInv, ArrivedClean
  <1>11. QED
    BY <1>4, <1>5, <1>6, <1>9, <1>10 DEF WayInv

LEMMA WayInvWay ==
    ASSUME TypeInv, NodeInv, WayInv, [Next]_vars, NEW t \in WayThreads, WayStep(t)
    PROVE  WayInv'
  <1>0. /\ file' = file /\ mode' = mode /\ Entities' = Entities /\ WayIds' = WayIds
        /\ Expected' = Expected
        /\ OfKinds(WayKinds)' = OfKinds(WayKinds)
        /\ WayIds \subseteq OfKinds(WayKinds) /\ \A i \in WayIds : i # 0
    BY FileConstant, FileFacts DEF OfKinds, WayIds, TypeInv, TypeOK
  <1>1. /\ NoRows \in RowSets /\ WayIdsIn(NoRows) = {}
        /\ \A table \in Tables : NoRows[table] \subseteq Expected[table]
    BY NewRowsTyped DEF TypeInv, NoRows, WayIdsIn, Ids, Tables
  <1>2. ASSUME NEW new \in RowSets, FinishEntity(t, new), wpc[t] = "working",
               \A table \in Tables : new[table] \subseteq Expected[table],
               hand[t] \in WayIds => mode = "relations" \/ hand[t] \in WayIdsIn(new),
               t \in arrived => WayIds \cap WayIdsIn(new) = {}
        PROVE  WayInv'
    <2>1. /\ InsertAndFlush(t, new, {"roads"})
          /\ hand' = [hand EXCEPT ![t] = 0] /\ wpc' = [wpc EXCEPT ![t] = "popping"]
          /\ UNCHANGED <<pos, mpc, wq, wqStop, arrived, wayPhaseDone, nbuf>>
      BY <1>2 DEF FinishEntity, mainVars, wayQVars, nodeVars
    <2>2. hand'[t] = 0 /\ wpc'[t] = "popping"
      BY <2>1 DEF TypeInv, TypeOK
    <2>3. PastWays(t)' => PastWays(t)
      BY <2>1, <2>2 DEF PastWays
    <2>4. QED
      BY <1>2, <2>1, <2>2, <2>3, WayInvInsert
  <1>3. CASE IgnoreNode(t)
    <2>1. hand[t] \notin WayIds
      BY <1>3, KindFacts DEF IgnoreNode, Working, WayIds, OfKinds
    <2>2. QED
      BY <1>1, <1>2, <1>3, <2>1 DEF IgnoreNode, Working
  <1>4. CASE ProcessWay(t)
    <2> DEFINE i == hand[t]
               found == Refs(i) \cap merged
               one == OneRow(IF file[i] = "area" THEN "areas" ELSE "ways", <<i, found>>)
    <2>1. Working(t, WayKinds) /\ wpc[t] = "working"
      BY <1>4 DEF ProcessWay, Working
    <2>2. merged = NodeIds /\ i \in OfKinds(WayKinds) /\ Refs(i) \cap merged = Refs(i)
      BY <2>1 DEF Working, TypeInv, TypeOK, HandInv, NodeInv, FeedAfterMerge, MergeOrder,
         NodesOnly, OfKinds, Refs
    <2>3. ASSUME t \in arrived PROVE i \notin WayIds
      BY <2>3 DEF WayInv, ArrivedClean
    <2>4. CASE mode = "relations"
      <3>1. FinishEntity(t, NoRows)
        BY <1>4, <2>4 DEF ProcessWay
      <3>2. QED
        BY <1>1, <1>2, <2>1, <2>4, <3>1
    <2>5. CASE mode # "relations" /\ ~HasGeometry(found)
      <3>1. FinishEntity(t, NoRows) /\ i \notin WayIds
        BY <1>4, <2>2, <2>5 DEF ProcessWay, WayIds
      <3>2. QED
        BY <1>1, <1>2, <2>1, <3>1
    <2>6. CASE mode # "relations" /\ HasGeometry(found)
      <3>1. FinishEntity(t, one) /\ i \in WayIds
        BY <1>4, <2>2, <2>6 DEF ProcessWay, WayIds
      <3>2. /\ \A table \in Tables : one[table] \subseteq Expected[table]
            /\ i \in WayIdsIn(one) /\ one \in RowSets
        BY <2>1, <2>6, WayRowRight
      <3> HIDE DEF one
      <3>3. QED
        BY <1>2, <2>1, <2>3, <3>1, <3>2
    <2>7. QED
      BY <2>4, <2>5, <2>6
  <1>5. CASE ProcessRelation(t)
    <2>1. Working(t, RelationKinds) /\ wpc[t] = "working" /\ wayPhaseDone[t]
      BY <1>5 DEF ProcessRelation, Working
    <2>2. hand[t] \in OfKinds(RelationKinds)
      BY <2>1 DEF Working, OfKinds, TypeInv, TypeOK, HandInv
    <2>3. FoundWays = WayIds
      BY <2>1, AllWaysFound DEF WayInv, BarrierInv
    <2>4. /\ \A table \in Tables : RelationRows(hand[t])[table] \subseteq Expected[table]
          /\ WayIds \cap WayIdsIn(RelationRows(hand[t])) = {}
      BY <2>2, <2>3, RelationRowsRight
    <2>5. RelationRows(hand[t]) \in RowSets
      BY <2>2, NewRowsTyped DEF TypeInv
    <2>6. hand[t] \notin WayIds
      BY <2>2, KindFacts DEF WayIds, OfKinds
    <2>7. FinishEntity(t, RelationRows(hand[t]))
      BY <1>5 DEF ProcessRelation
    <2>8. QED
      BY <1>2, <2>1, <2>4, <2>5, <2>6, <2>7
  <1>6. CASE FinalizeWays(t)
    <2>1. /\ InsertAndFlush(t, NoRows, {"ways", "areas"})
          /\ hand' = hand /\ wpc' = [wpc EXCEPT ![t] = "finalized"]
          /\ UNCHANGED <<pos, mpc, wq, wqStop, arrived, wayPhaseDone, nbuf>>
      BY <1>6 DEF FinalizeWays, mainVars, wayQVars, nodeVars
    <2>2. /\ wpc'[t] = "finalized" /\ hand' = [hand EXCEPT ![t] = hand'[t]]
          /\ hand'[t] = hand[t]
      BY <2>1 DEF TypeInv, TypeOK
    <2>3. PastWays(t) /\ hand[t] \notin WayIds
      BY <1>0, <1>6, KindFacts
         DEF FinalizeWays, Working, PastWays, TypeInv, HandInv, WayIds, OfKinds
    <2>4. QED
      BY <1>1, <2>1, <2>2, <2>3, WayInvInsert
  <1>7. CASE EndWayThread(t)
    <2>1. /\ InsertAndFlush(t, NoRows, Tables) /\ wpc[t] = "ending"
          /\ hand' = hand /\ wpc' = [wpc EXCEPT ![t] = "done"]
          /\ UNCHANGED <<pos, mpc, wq, wqStop, arrived, wayPhaseDone, nbuf>>
      BY <1>7 DEF EndWayThread, mainVars, wayQVars, nodeVars
    <2>2. /\ wpc'[t] = "done" /\ hand' = [hand EXCEPT ![t] = hand'[t]]
          /\ hand'[t] = hand[t]
      BY <2>1 DEF TypeInv, TypeOK
    <2>3. PastWays(t)
      BY <2>1 DEF PastWays
    <2>4. QED
      BY <1>1, <2>1, <2>2, <2>3, WayInvInsert
  <1>8. CASE WayPop(t)
    BY <1>8, WayInvPop
  <1>9. CASE ArriveAtWayBarrier(t) \/ PassWayBarrier(t) \/ QueueEnds(t)
    <2>1. /\ hand' = hand /\ buf' = buf /\ db' = db /\ nbuf' = nbuf /\ wq' = wq
          /\ wqStop' = wqStop /\ pos' = pos /\ mpc' = mpc
      BY <1>9 DEF ArriveAtWayBarrier, PassWayBarrier, QueueEnds, mainVars, nodeVars, wayQVars
    <2>2. \A u \in WayThreads \ {t} : wpc'[u] = wpc[u] /\ wayPhaseDone'[u] = wayPhaseDone[u]
      BY <1>9 DEF ArriveAtWayBarrier, PassWayBarrier, QueueEnds, TypeInv, TypeOK
    <2>3. \A u \in WayThreads \ {t} : u \in arrived' <=> u \in arrived
      BY <1>9 DEF ArriveAtWayBarrier, PassWayBarrier, QueueEnds
    <2>4. RowsRight' /\ WaysPlaced' /\ QueueOrder' /\ WaysOver' = WaysOver
      BY <1>0, <2>1 DEF WayInv, RowsRight, WaysPlaced, QueueOrder, WaysOver
    <2>5. \A u \in WayThreads \ {t} : PastWays(u)' => PastWays(u)
      BY <1>0, <2>1, <2>2, <2>3 DEF PastWays
    <2>6. PastWays(t)' => WaysOver
      <3>1. CASE ArriveAtWayBarrier(t) \/ PassWayBarrier(t)
        BY <3>1 DEF ArriveAtWayBarrier, PassWayBarrier, WayInv, WaysBehind, PastWays
      <3>2. CASE QueueEnds(t)
        <4>1. pos = Len(file) + 1 /\ wq = <<>>
          BY <3>2 DEF QueueEnds, WayInv, WaysBehind
        <4>2. \A i : ~InSeq(i, wq)
          BY <4>1, EmptyHasNone
        <4>3. \A i \in OfKinds(WayKinds) : i < pos
          BY <4>1, FileFacts DEF OfKinds, TypeInv, TypeOK
        <4>4. QED
          BY <4>2, <4>3 DEF WaysOver
      <3>3. QED
        BY <1>9, <3>1, <3>2
    <2>7. WaysBehind'
      BY <1>0, <2>1, <2>4, <2>5, <2>6 DEF WayInv, WaysBehind
    <2>8. ArrivedClean'
      <3>1. t \in arrived' \/ wpc'[t] \in {"finalized", "barrier"} =>
                t \in arrived \/ wpc[t] \in {"finalized", "barrier"}
        BY <1>9 DEF ArriveAtWayBarrier, PassWayBarrier, QueueEnds, TypeInv, TypeOK
      <3>2. QED
        BY <1>0, <2>1, <2>2, <2>3, <3>1 DEF WayInv, ArrivedClean
    <2>9. BarrierInv'
      <3>1. arrived = WayThreads => arrived' = WayThreads
        BY <1>9 DEF ArriveAtWayBarrier, PassWayBarrier, QueueEnds
      <3>2. wayPhaseDone'[t] => wayPhaseDone[t] \/ arrived' = WayThreads
        BY <1>9 DEF ArriveAtWayBarrier, PassWayBarrier, QueueEnds, TypeInv, TypeOK
      <3>3. QED
        BY <1>0, <2>1, <2>2, <3>1, <3>2 DEF WayInv, BarrierInv
    <2>10. QED
      BY <2>4, <2>7, <2>8, <2>9 DEF WayInv
  <1>10. QED
    BY <1>3, <1>4, <1>5, <1>6, <1>7, <1>8, <1>9 DEF WayStep

LEMMA WayInvStep == TypeInv /\ NodeInv /\ WayInv /\ [Next]_vars => WayInv'
  <1> SUFFICES ASSUME TypeInv, NodeInv, WayInv, [Next]_vars PROVE WayInv'
    OBVIOUS
  <1>1. CASE MainStep
    BY <1>1, WayInvMain
  <1>2. CASE NodeStep
    BY <1>2, WayInvNode
  <1>3. ASSUME NEW t \in WayThreads, WayStep(t) PROVE WayInv'
    BY <1>3, WayInvWay
  <1>4. CASE UNCHANGED vars
    <2>1. /\ Expected' = Expected /\ WayIds' = WayIds /\ file' = file /\ mode' = mode
          /\ OfKinds(WayKinds)' = OfKinds(WayKinds)
      BY FileConstant DEF OfKinds, Entities
    <2>2. /\ hand' = hand /\ buf' = buf /\ db' = db /\ nbuf' = nbuf /\ wq' = wq
          /\ wqStop' = wqStop /\ pos' = pos /\ mpc' = mpc /\ wpc' = wpc
          /\ arrived' = arrived /\ wayPhaseDone' = wayPhaseDone
      BY <1>4 DEF vars, mainVars, nodeVars, wayQVars, wayVars
    <2>3. RowsRight' /\ WaysPlaced' /\ QueueOrder' /\ WaysOver' = WaysOver
      BY <2>1, <2>2 DEF WayInv, RowsRight, WaysPlaced, QueueOrder, WaysOver
    <2>4. WaysBehind' /\ ArrivedClean' /\ BarrierInv'
      BY <2>1, <2>2, <2>3 DEF WayInv, WaysBehind, PastWays, ArrivedClean, BarrierInv
    <2>5. QED
      BY <2>3, <2>4 DEF WayInv
  <1>5. QED
    BY <1>1, <1>2, <1>3, <1>4 DEF Next

(* Whatever the numbers of threads and the sizes of queues and buffers, a  *)
(* relation is assembled only when every way that has a geometry is        *)
(* committed: way_barrier and the flushes before it are enough.            *)
THEOREM RelationsSeeWays == Spec => []RelationsSeeAllWays
  <1>1. TypeInv /\ WayInv => RelationsSeeAllWays
    BY AllWaysFound DEF RelationsSeeAllWays, WayInv, BarrierInv
  <1>2. QED
    BY <1>1, TypeInit, TypeStep, NodeInvInit, NodeInvStep, WayInvInit, WayInvStep, PTL DEF Spec

(* No row with a geometry assembled from a partial lookup is ever          *)
(* committed, for any file and any interleaving.                           *)
THEOREM CommittedRight == Spec => []CommittedRowsRight
  <1>1. WayInv => CommittedRowsRight
    BY DEF CommittedRowsRight, WayInv, RowsRight
  <1>2. QED
    BY <1>1, TypeInit, TypeStep, NodeInvInit, NodeInvStep, WayInvInit, WayInvStep, PTL DEF Spec

(* Neither ways nor relations begin before the phase that they look things *)
(* up in is complete, for any file, threads and sizes.                     *)
THEOREM PhasesHold == Spec => []PhasesInOrder
  <1>1. WaysSeeAllNodes /\ RelationsSeeAllWays => PhasesInOrder
    BY DEF PhasesInOrder
  <1>2. QED
    BY <1>1, WaysSeeNodes, RelationsSeeWays, PTL

------------------------------------------------------------------------------
(* Rows and the entities they were made of. *)

(* The entity a row was made of. *)
EntityOf(row) == IF row[1] > 0 THEN row[1] ELSE -row[1]

(* The tables that way threads write. *)
LateTables == {"ways", "areas", "relations", "roads"}

(* A row of a complete import is made of a way or a relation of the file;  *)
(* ways go to ways and, under their own id, to areas.                      *)
LEMMA LateRows ==
    ASSUME file \in Files, NEW table \in LateTables, NEW row \in Expected[table]
    PROVE  /\ EntityOf(row) \in OfKinds(WayKinds \cup RelationKinds)
           /\ EntityOf(row) \in 1 .. Len(file)
           /\ file[EntityOf(row)] \in WayKinds
                => table \in {"ways", "areas"} /\ row[1] > 0 /\ EntityOf(row) \in WayIds
           /\ file[EntityOf(row)] \in RelationKinds
                => table # "ways" /\ (table = "areas" => ~(row[1] > 0))
  <1>0. /\ Entities = 1 .. Len(file) /\ Len(file) \in Nat
        /\ \A K : \A i \in OfKinds(K) : i \in 1 .. Len(file) /\ file[i] \in K
    BY FileFacts DEF OfKinds
  <1>1. CASE table = "ways"
    <2>1. PICK i \in WayIds \cap OfKinds({"way", "loop"}) : row = <<i, NodeIds>>
      BY <1>1, ExpectedTables
    <2>2. i \in 1 .. Len(file) /\ file[i] \in {"way", "loop"} /\ row[1] = i
      BY <1>0, <2>1
    <2>3. EntityOf(row) = i
      BY <2>2 DEF EntityOf
    <2>4. QED
      BY <1>0, <1>1, <2>1, <2>2, <2>3 DEF OfKinds, WayKinds, RelationKinds
  <1>2. CASE table = "areas" /\ \E i \in WayIds \cap OfKinds({"area"}) : row = <<i, NodeIds>>
    <2>1. PICK i \in WayIds \cap OfKinds({"area"}) : row = <<i, NodeIds>>
      BY <1>2
    <2>2. i \in 1 .. Len(file) /\ file[i] = "area" /\ row[1] = i
      BY <1>0, <2>1
    <2>3. EntityOf(row) = i
      BY <2>2 DEF EntityOf
    <2>4. QED
      BY <1>0, <1>2, <2>1, <2>2, <2>3 DEF OfKinds, WayKinds, RelationKinds
  <1>3. CASE table = "areas" /\ \E i \in OfKinds({"multi"}) : row = <<-i, WayIds>>
    <2>1. PICK i \in OfKinds({"multi"}) : row = <<-i, WayIds>>
      BY <1>3
    <2>2. i \in 1 .. Len(file) /\ file[i] = "multi" /\ row[1] = -i
      BY <1>0, <2>1
    <2>3. EntityOf(row) = i /\ ~(row[1] > 0)
      BY <2>2 DEF EntityOf
    <2>4. QED
      BY <1>0, <1>3, <2>2, <2>3 DEF OfKinds, WayKinds, RelationKinds
  <1>4. CASE table \in {"relations", "roads"}
    <2>1. PICK i \in OfKinds({"relation", "road"}) : row = <<i, LineIds>>
      <3>1. OfKinds({"road"}) \subseteq OfKinds({"relation", "road"})
        BY DEF OfKinds
      <3>2. QED
        BY <1>4, <3>1, ExpectedTables
    <2>2. i \in 1 .. Len(file) /\ file[i] \in {"relation", "road"} /\ row[1] = i
      BY <1>0, <2>1
    <2>3. EntityOf(row) = i
      BY <2>2 DEF EntityOf
    <2>4. QED
      BY <1>0, <1>4, <2>2, <2>3 DEF OfKinds, WayKinds, RelationKinds
  <1>5. QED
    BY <1>1, <1>2, <1>3, <1>4, ExpectedTables DEF LateTables

(* Two rows of a table of a complete import have different keys, and are   *)
(* made of different entities.                                             *)
LEMMA RowUnique ==
    ASSUME file \in Files, NEW table \in Tables,
           NEW row \in Expected[table], NEW other \in Expected[table],
           row[1] = other[1] \/ (table # "nodes" /\ EntityOf(row) = EntityOf(other))
    PROVE  row = other
  <1>0. \A K : \A i \in OfKinds(K) : i \in Nat \ {0} /\ file[i] \in K
    BY FileFacts DEF OfKinds
  <1>1. CASE table = "nodes"
    <2>1. PICK i \in OfKinds({"node"}) : row = <<i, {}>>
      BY <1>1, ExpectedTables
    <2>2. PICK j \in OfKinds({"node"}) : other = <<j, {}>>
      BY <1>1, ExpectedTables
    <2>3. row[1] = i /\ other[1] = j /\ row[1] = other[1]
      BY <1>1, <2>1, <2>2
    <2>4. QED
      BY <2>1, <2>2, <2>3
  <1>2. CASE table = "ways"
    <2>1. PICK i \in OfKinds({"way", "loop"}) : row = <<i, NodeIds>>
      BY <1>2, ExpectedTables
    <2>2. PICK j \in OfKinds({"way", "loop"}) : other = <<j, NodeIds>>
      BY <1>2, ExpectedTables
    <2>3. row[1] = i /\ other[1] = j /\ EntityOf(row) = i /\ EntityOf(other) = j
      BY <1>0, <2>1, <2>2 DEF EntityOf
    <2>4. QED
      BY <2>1, <2>2, <2>3
  <1>3. CASE table \in {"relations", "roads"}
    <2>1. PICK i \in OfKinds({"relation", "road"}) : row = <<i, LineIds>>
      BY <1>3, ExpectedTables DEF OfKinds
    <2>2. PICK j \in OfKinds({"relation", "road"}) : other = <<j, LineIds>>
      BY <1>3, ExpectedTables DEF OfKinds
    <2>3. row[1] = i /\ other[1] = j /\ EntityOf(row) = i /\ EntityOf(other) = j
      BY <1>0, <2>1, <2>2 DEF EntityOf
    <2>4. QED
      BY <2>1, <2>2, <2>3
  <1>4. CASE table = "areas"
    <2>0. ASSUME NEW r \in Expected["areas"]
          PROVE  /\ EntityOf(r) \in OfKinds({"area", "multi"})
                 /\ r = IF file[EntityOf(r)] = "area" THEN <<EntityOf(r), NodeIds>>
                        ELSE <<-EntityOf(r), WayIds>>
      <3>1. CASE \E i \in OfKinds({"area"}) : r = <<i, NodeIds>>
        <4>1. PICK i \in OfKinds({"area"}) : r = <<i, NodeIds>>
          BY <3>1
        <4>2. EntityOf(r) = i /\ file[i] = "area"
          BY <1>0, <4>1 DEF EntityOf
        <4>3. QED
          BY <4>1, <4>2 DEF OfKinds
      <3>2. CASE \E i \in OfKinds({"multi"}) : r = <<-i, WayIds>>
        <4>1. PICK i \in OfKinds({"multi"}) : r = <<-i, WayIds>>
          BY <3>2
        <4>2. EntityOf(r) = i /\ file[i] = "multi"
          BY <1>0, <4>1 DEF EntityOf
        <4>3. QED
          BY <4>1, <4>2 DEF OfKinds
      <3>3. QED
        BY <3>1, <3>2, ExpectedTables
    <2>1. EntityOf(row) = EntityOf(other)
      BY <1>4 DEF EntityOf
    <2>2. QED
      BY <1>4, <2>0, <2>1
  <1>5. QED
    BY <1>1, <1>2, <1>3, <1>4 DEF Tables

(* A COPY of right rows into a table of right rows is a union: no row is   *)
(* kept out by another that has its key.                                   *)
LEMMA CopiedIsUnion ==
    ASSUME file \in Files, NEW table \in Tables,
           NEW A, A \subseteq Expected[table], NEW B, B \subseteq Expected[table]
    PROVE  Copied(A, B) = A \cup B
  <1>1. ASSUME NEW row \in B, RowId(row) \in Ids(A) PROVE row \in A
    <2>1. PICK other \in A : other[1] = row[1]
      BY <1>1 DEF Ids, RowId
    <2>2. QED
      BY <2>1, RowUnique
  <1>2. QED
    BY <1>1 DEF Copied

(* Rows that no two tables or buffers share have keys that they do not     *)
(* share.                                                                  *)
LEMMA DisjointIds ==
    ASSUME file \in Files, NEW table \in Tables,
           NEW A, A \subseteq Expected[table], NEW B, B \subseteq Expected[table],
           A \cap B = {}
    PROVE  Ids(A) \cap Ids(B) = {}
  <1> SUFFICES ASSUME NEW row \in A, NEW other \in B, row[1] = other[1] PROVE FALSE
    BY DEF Ids, RowId
  <1>1. row = other
    BY RowUnique
  <1>2. QED
    BY <1>1

(* The rows of a table of a complete import that are made of entity i.     *)
RowsOf(i, table) == {row \in Expected[table] : EntityOf(row) = i}

LEMMA RowsOfEntity ==
    ASSUME file \in Files, NEW i \in Entities
    PROVE  /\ RowsOf(i, "ways") =
                  IF file[i] \in {"way", "loop"} /\ i \in WayIds THEN {<<i, NodeIds>>} ELSE {}
           /\ RowsOf(i, "areas") =
                  IF file[i] = "area" /\ i \in WayIds THEN {<<i, NodeIds>>}
                  ELSE IF file[i] = "multi" /\ WayIds # {} THEN {<<-i, WayIds>>} ELSE {}
           /\ RowsOf(i, "relations") =
                  IF file[i] \in {"relation", "road"} THEN {<<i, LineIds>>} ELSE {}
           /\ RowsOf(i, "roads") =
                  IF file[i] = "road" /\ LineIds # {} THEN {<<i, LineIds>>} ELSE {}
  <1>0. /\ Entities = 1 .. Len(file) /\ Len(file) \in Nat /\ i \in Nat \ {0}
        /\ \A K : \A j \in OfKinds(K) : j \in Nat \ {0} /\ j \in Entities /\ file[j] \in K
        /\ \A K : file[i] \in K => i \in OfKinds(K)
    BY FileFacts DEF OfKinds
  <1>1. \A found : \A j \in Nat \ {0} : EntityOf(<<j, found>>) = j /\ EntityOf(<<-j, found>>) = j
    BY DEF EntityOf
  <1>2. RowsOf(i, "ways") =
            IF file[i] \in {"way", "loop"} /\ i \in WayIds THEN {<<i, NodeIds>>} ELSE {}
    <2>1. ASSUME NEW row \in RowsOf(i, "ways")
          PROVE  file[i] \in {"way", "loop"} /\ i \in WayIds /\ row = <<i, NodeIds>>
      <3>1. PICK j \in WayIds \cap OfKinds({"way", "loop"}) : row = <<j, NodeIds>>
        BY ExpectedTables DEF RowsOf
      <3>2. j = i
        BY <1>0, <1>1, <3>1 DEF RowsOf
      <3>3. QED
        BY <1>0, <3>1, <3>2
    <2>2. ASSUME file[i] \in {"way", "loop"}, i \in WayIds PROVE <<i, NodeIds>> \in RowsOf(i, "ways")
      BY <1>0, <1>1, <2>2, ExpectedTables DEF RowsOf
    <2>3. QED
      BY <2>1, <2>2
  <1>3. RowsOf(i, "areas") =
            IF file[i] = "area" /\ i \in WayIds THEN {<<i, NodeIds>>}
            ELSE IF file[i] = "multi" /\ WayIds # {} THEN {<<-i, WayIds>>} ELSE {}
    <2>1. ASSUME NEW row \in RowsOf(i, "areas")
          PROVE  \/ file[i] = "area" /\ i \in WayIds /\ row = <<i, NodeIds>>
                 \/ file[i] = "multi" /\ WayIds # {} /\ row = <<-i, WayIds>>
      <3>1. CASE \E j \in WayIds \cap OfKinds({"area"}) : row = <<j, NodeIds>>
        <4>1. PICK j \in WayIds \cap OfKinds({"area"}) : row = <<j, NodeIds>>
          BY <3>1
        <4>2. j = i
          BY <1>0, <1>1, <4>1 DEF RowsOf
        <4>3. QED
          BY <1>0, <4>1, <4>2
      <3>2. CASE WayIds # {} /\ \E j \in OfKinds({"multi"}) : row = <<-j, WayIds>>
        <4>1. PICK j \in OfKinds({"multi"}) : row = <<-j, WayIds>>
          BY <3>2
        <4>2. j = i
          BY <1>0, <1>1, <4>1 DEF RowsOf
        <4>3. QED
          BY <1>0, <3>2, <4>1, <4>2
      <3>3. QED
        BY <3>1, <3>2, ExpectedTables DEF RowsOf
    <2>2. ASSUME file[i] = "area", i \in WayIds PROVE <<i, NodeIds>> \in RowsOf(i, "areas")
      BY <1>0, <1>1, <2>2, ExpectedTables DEF RowsOf
    <2>3. ASSUME file[i] = "multi", WayIds # {} PROVE <<-i, WayIds>> \in RowsOf(i, "areas")
      BY <1>0, <1>1, <2>3, ExpectedTables DEF RowsOf
    <2>4. QED
      BY <2>1, <2>2, <2>3
  <1>4. RowsOf(i, "relations") =
            IF file[i] \in {"relation", "road"} THEN {<<i, LineIds>>} ELSE {}
    <2>1. ASSUME NEW row \in RowsOf(i, "relations")
          PROVE  file[i] \in {"relation", "road"} /\ row = <<i, LineIds>>
      <3>1. PICK j \in OfKinds({"relation", "road"}) : row = <<j, LineIds>>
        BY ExpectedTables DEF RowsOf
      <3>2. j = i
        BY <1>0, <1>1, <3>1 DEF RowsOf
      <3>3. QED
        BY <1>0, <3>1, <3>2
    <2>2. ASSUME file[i] \in {"relation", "road"}
          PROVE  <<i, LineIds>> \in RowsOf(i, "relations")
      BY <1>0, <1>1, <2>2, ExpectedTables DEF RowsOf
    <2>3. QED
      BY <2>1, <2>2
  <1>5. RowsOf(i, "roads") =
            IF file[i] = "road" /\ LineIds # {} THEN {<<i, LineIds>>} ELSE {}
    <2>1. ASSUME NEW row \in RowsOf(i, "roads")
          PROVE  file[i] = "road" /\ LineIds # {} /\ row = <<i, LineIds>>
      <3>1. LineIds # {} /\ \E j \in OfKinds({"road"}) : row = <<j, LineIds>>
        BY ExpectedTables DEF RowsOf
      <3>2. PICK j \in OfKinds({"road"}) : row = <<j, LineIds>>
        BY <3>1
      <3>3. j = i
        BY <1>0, <1>1, <3>2 DEF RowsOf
      <3>4. QED
        BY <1>0, <3>1, <3>2, <3>3
    <2>2. ASSUME file[i] = "road", LineIds # {} PROVE <<i, LineIds>> \in RowsOf(i, "roads")
      BY <1>0, <1>1, <2>2, ExpectedTables DEF RowsOf
    <2>3. QED
      BY <2>1, <2>2
  <1>6. QED
    BY <1>2, <1>3, <1>4, <1>5

(* An insertion and the flushes it causes, on right rows: the rows of a    *)
(* table all move from the buffer to the table, or all stay buffered.      *)
LEMMA FlushCases ==
    ASSUME TypeInv, RowsRight, NEW t \in WayThreads, NEW new \in RowSets, NEW always,
           InsertAndFlush(t, new, always),
           \A table \in Tables : new[table] \subseteq Expected[table]
    PROVE  /\ \A u \in WayThreads \ {t} : buf'[u] = buf[u]
           /\ \A table \in Tables :
                \/ /\ db'[table] = db[table] \cup (buf[t][table] \cup new[table])
                   /\ buf'[t][table] = {}
                \/ /\ table \notin always
                   /\ db'[table] = db[table]
                   /\ buf'[t][table] = buf[t][table] \cup new[table]
  <1> DEFINE full == Flushed(t, new, always)
             fill == Filled(t, new)
             left == [table \in Tables |-> IF table \in full THEN {} ELSE fill[table]]
  <1>1. \A table \in Tables : fill[table] = buf[t][table] \cup new[table]
    BY DEF Filled
  <1>2. /\ buf' = [buf EXCEPT ![t] = left]
        /\ db' = [table \in Tables |->
                  IF table \in full THEN Copied(db[table], fill[table]) ELSE db[table]]
    BY DEF InsertAndFlush
  <1>3. \A table \in Tables : left[table] = IF table \in full THEN {} ELSE fill[table]
    OBVIOUS
  <1>4. \A table \in Tables : table \in always => table \in full
    BY DEF Flushed
  <1> HIDE DEF full, fill, left
  <1>5. buf'[t] = left /\ \A u \in WayThreads \ {t} : buf'[u] = buf[u]
    BY <1>2 DEF TypeInv, TypeOK
  <1>6. ASSUME NEW table \in Tables
        PROVE  Copied(db[table], fill[table]) = db[table] \cup (buf[t][table] \cup new[table])
    <2>1. db[table] \subseteq Expected[table] /\ fill[table] \subseteq Expected[table]
      BY <1>1 DEF RowsRight
    <2>2. file \in Files
      BY DEF TypeInv, TypeOK
    <2>3. Copied(db[table], fill[table]) = db[table] \cup fill[table]
      BY <2>1, <2>2, CopiedIsUnion
    <2>4. QED
      BY <1>1, <2>3
  <1>7. ASSUME NEW table \in Tables
        PROVE  \/ /\ db'[table] = db[table] \cup (buf[t][table] \cup new[table])
                  /\ buf'[t][table] = {}
               \/ /\ table \notin always
                  /\ db'[table] = db[table]
                  /\ buf'[t][table] = buf[t][table] \cup new[table]
    <2>1. CASE table \in full
      BY <1>2, <1>3, <1>5, <1>6, <2>1
    <2>2. CASE table \notin full
      BY <1>1, <1>2, <1>3, <1>4, <1>5, <2>2
    <2>3. QED
      BY <2>1, <2>2
  <1>8. QED
    BY <1>5, <1>7

------------------------------------------------------------------------------
(* Where the rows of a complete import are, and who is done with what.     *)

(* An entity that no way thread is done with: unread, queued or in hand. *)
Waiting(i) ==
    \/ i >= pos
    \/ InSeq(i, wq)
    \/ \E t \in WayThreads : hand[t] = i

(* Every row of a way or relation is committed, buffered or still to be    *)
(* made.                                                                   *)
RowsPlaced ==
    \A table \in LateTables : \A row \in Expected[table] :
        \/ row \in db[table]
        \/ \E t \in WayThreads : row \in buf[t][table]
        \/ Waiting(EntityOf(row))

(* -R relations: the rows of ways, which are not made again, are there.    *)
WaysKept ==
    mode = "relations" =>
        \A table \in LateTables : \A row \in Expected[table] :
            file[EntityOf(row)] \in WayKinds => row \in db[table]

(* The same for the rows of nodes and the node threads.                    *)
NodeRowsPlaced ==
    \A row \in Expected["nodes"] :
        \/ row \in db["nodes"]
        \/ \E n \in NodeThreads : row \in nbuf[n]
        \/ /\ mode = "nodes"
           /\ row[1] >= pos \/ \E n \in NodeThreads : InSeq(row[1], nq[n])

(* The node threads leave nothing in their buffers.                        *)
NodesFlushed ==
    /\ \A n \in NodeThreads : npc[n] # "loop" => nbuf[n] = {}
    /\ mergeDone => \A n \in NodeThreads : npc[n] # "loop"
    /\ mpc \in {"joinWays", "loaded"} => \A n \in NodeThreads : npc[n] = "done"

OutOfLoop(t) ==
    \/ wpc[t] \in {"cleanup", "ending", "done"}
    \/ wpc[t] \in {"finalized", "barrier"} /\ hand[t] = 0

(* A way thread past its loop has seen the end of way_q, and one that is   *)
(* done has flushed all its buffers.                                       *)
QueueOver ==
    /\ \A t \in WayThreads : OutOfLoop(t) => wqStop /\ wq = <<>>
    /\ \A t \in WayThreads : wpc[t] = "done" => \A table \in Tables : buf[t][table] = {}
    /\ mpc = "loaded" => \A t \in WayThreads : wpc[t] = "done"

(* The ways are over for every thread. *)
RelationPhase == mode = "relations" \/ arrived = WayThreads

(* Rows of ways are buffered before that, rows of relations after, neither *)
(* before the merge.                                                       *)
BufferPhase ==
    \A t \in WayThreads :
        /\ buf[t]["nodes"] = {}
        /\ \A table \in LateTables : \A row \in buf[t][table] :
              /\ mergeDone
              /\ file[EntityOf(row)] \in WayKinds <=> ~RelationPhase

LoadInv == /\ RowsPlaced /\ WaysKept /\ NodeRowsPlaced /\ NodesFlushed
           /\ QueueOver /\ BufferPhase

(* An entity is in one place only, and one that has rows somewhere is in   *)
(* no place any more: no row is made a second time.                        *)
HandsDistinct ==
    /\ \A t \in WayThreads : hand[t] # 0 => hand[t] < pos /\ ~InSeq(hand[t], wq)
    /\ \A t, u \in WayThreads : t # u /\ hand[t] # 0 => hand[t] # hand[u]

RowsHandled ==
    \A table \in LateTables :
        /\ \A t \in WayThreads : \A row \in buf[t][table] : ~Waiting(EntityOf(row))
        /\ mode \in {"nodes", "merge"} => \A row \in db[table] : ~Waiting(EntityOf(row))

RowsApart ==
    \A table \in LateTables :
        /\ \A t, u \in WayThreads : t # u => buf[t][table] \cap buf[u][table] = {}
        /\ mode \in {"nodes", "merge"} =>
              \A t \in WayThreads : buf[t][table] \cap db[table] = {}

OnceInv == HandsDistinct /\ RowsHandled /\ RowsApart

------------------------------------------------------------------------------
(* The beginning. *)

(* The entities before the one a run starts with have no rows to make.     *)
LEMMA StartFacts ==
    ASSUME Init
    PROVE  /\ \A i \in OfKinds(RelationKinds) : pos <= i
           /\ mode # "relations" => \A i \in OfKinds(WayKinds) : pos <= i
           /\ mode = "nodes" => pos = 1
           /\ pos \in Nat \ {0}
  <1>0. /\ Entities = 1 .. Len(file) /\ Len(file) \in Nat
        /\ \A K : \A i \in OfKinds(K) : i \in 1 .. Len(file)
        /\ OfKinds(RelationKinds) \subseteq OfKinds(NotNodes)
        /\ OfKinds(WayKinds) \subseteq OfKinds(NotNodes)
    BY FileFacts DEF Init, OfKinds, NotNodes
  <1>1. pos = StartPos
    BY DEF Init
  <1>2. CASE mode = "relations" /\ relOffset # 0
    <2>1. PICK f \in Firsts(RelationKinds) : relOffset = BlobStart(f)
      BY <1>2 DEF Init, InitOffsets
    <2>2. f \in 1 .. Len(file) /\ \A i \in OfKinds(RelationKinds) : f <= i
      BY <1>0 DEF Firsts
    <2>3. pos \in 1 .. f
      BY <1>0, <1>1, <1>2, <2>1, <2>2, BlobStartRange DEF StartPos
    <2>4. QED
      BY <1>0, <1>2, <2>2, <2>3
  <1>3. CASE ~(mode = "relations" /\ relOffset # 0) /\ mode # "nodes" /\ nodeOffset # 0
    <2>1. PICK f \in Firsts(NotNodes) : nodeOffset = BlobStart(f)
      BY <1>3 DEF Init, InitOffsets
    <2>2. f \in 1 .. Len(file) /\ \A i \in OfKinds(NotNodes) : f <= i
      BY <1>0 DEF Firsts
    <2>3. pos \in 1 .. f
      BY <1>0, <1>1, <1>3, <2>1, <2>2, BlobStartRange DEF StartPos
    <2>4. QED
      BY <1>0, <1>3, <2>2, <2>3
  <1>4. CASE ~(mode = "relations" /\ relOffset # 0) /\ ~(mode # "nodes" /\ nodeOffset # 0)
    <2>1. pos = 1
      BY <1>1, <1>4 DEF StartPos
    <2>2. QED
      BY <1>0, <2>1
  <1>5. QED
    BY <1>2, <1>3, <1>4

LEMMA LoadInvInit == Init => LoadInv /\ OnceInv
  <1> SUFFICES ASSUME Init PROVE LoadInv /\ OnceInv
    OBVIOUS
  <1>0. /\ file \in Files /\ Len(file) \in Nat /\ Entities = 1 .. Len(file)
        /\ \A table \in Tables : NoRows[table] = {}
        /\ {"nodes", "ways", "areas", "relations", "roads"} = Tables
        /\ LateTables = Tables \ {"nodes"}
        /\ \A t \in WayThreads, table \in Tables : buf[t][table] = {}
        /\ \A t \in WayThreads : hand[t] = 0 /\ wpc[t] = "popping"
        /\ mode \in {"nodes", "merge", "ways", "relations"}
    BY FileFacts, ModeAssumption DEF Init, NoRows, Tables, LateTables
  <1>1. PICK relRows \in Survivors("relations", RelationKinds),
             roadRows \in Survivors("roads", RelationKinds),
             areaRows \in Survivors("areas", RelationKinds) :
        /\ mode # "ways" => relRows = {} /\ roadRows = {}
        /\ mode # "relations" => areaRows = {}
        /\ db = [NoRows EXCEPT
                    !["nodes"] = IF mode = "nodes" THEN {} ELSE Expected["nodes"],
                    !["ways"]  = IF mode = "relations" THEN Expected["ways"] ELSE {},
                    !["areas"] = IF mode = "relations"
                                 THEN WayRows(Expected["areas"]) \cup areaRows ELSE {},
                    !["relations"] = relRows,
                    !["roads"] = roadRows]
    BY DEF Init, InitDb
  <1>2. /\ db["nodes"] = IF mode = "nodes" THEN {} ELSE Expected["nodes"]
        /\ db["ways"] = IF mode = "relations" THEN Expected["ways"] ELSE {}
        /\ db["areas"] = IF mode = "relations"
                         THEN WayRows(Expected["areas"]) \cup areaRows ELSE {}
        /\ db["relations"] = relRows
        /\ db["roads"] = roadRows
    BY <1>0, <1>1 DEF NoRows
  <1>3. WaysKept
    <2> SUFFICES ASSUME mode = "relations", NEW table \in LateTables,
                        NEW row \in Expected[table], file[EntityOf(row)] \in WayKinds
                 PROVE  row \in db[table]
      BY DEF WaysKept
    <2>1. table \in {"ways", "areas"} /\ row[1] > 0
      BY <1>0, LateRows
    <2>2. QED
      BY <1>2, <2>1 DEF WayRows, IsWayRow
  <1>4. RowsPlaced
    <2> SUFFICES ASSUME NEW table \in LateTables, NEW row \in Expected[table],
                        row \notin db[table]
                 PROVE  EntityOf(row) >= pos
      BY DEF RowsPlaced, Waiting
    <2>1. EntityOf(row) \in OfKinds(WayKinds \cup RelationKinds) /\ EntityOf(row) \in 1 .. Len(file)
      BY <1>0, LateRows
    <2>2. EntityOf(row) \in OfKinds(WayKinds) => mode # "relations"
      BY <1>3 DEF WaysKept, OfKinds
    <2>3. EntityOf(row) \in OfKinds(WayKinds) \/ EntityOf(row) \in OfKinds(RelationKinds)
      BY <2>1 DEF OfKinds
    <2>4. pos <= EntityOf(row)
      BY <2>2, <2>3, StartFacts
    <2>5. pos \in Nat
      BY StartFacts
    <2>6. QED
      BY <1>0, <2>1, <2>4, <2>5
  <1>5. NodeRowsPlaced
    <2> SUFFICES ASSUME NEW row \in Expected["nodes"], mode = "nodes"
                 PROVE  row[1] >= pos
      BY <1>2 DEF NodeRowsPlaced
    <2>1. PICK i \in OfKinds({"node"}) : row = <<i, {}>>
      BY ExpectedTables
    <2>2. QED
      BY <1>0, <2>1, StartFacts DEF OfKinds
  <1>6. NodesFlushed
    BY DEF Init, NodesFlushed
  <1>7. QueueOver
    BY <1>0 DEF QueueOver, OutOfLoop, Init
  <1>8. BufferPhase
    BY <1>0 DEF BufferPhase
  <1>9. HandsDistinct
    BY <1>0 DEF HandsDistinct
  <1>10. mode \in {"nodes", "merge"} => \A table \in LateTables : db[table] = {}
    BY <1>1, <1>2 DEF LateTables
  <1>11. RowsHandled /\ RowsApart
    BY <1>0, <1>10 DEF RowsHandled, RowsApart
  <1>12. QED
    BY <1>3, <1>4, <1>5, <1>6, <1>7, <1>8, <1>9, <1>11 DEF LoadInv, OnceInv

------------------------------------------------------------------------------
(* main()'s steps: an entity is skipped only when it has no row to make.   *)

LEMMA LoadMain ==
    ASSUME TypeInv, NodeInv, WayInv, LoadInv, OnceInv, [Next]_vars, MainStep
    PROVE  LoadInv' /\ OnceInv'
  <1>0. /\ file' = file /\ mode' = mode /\ Expected' = Expected /\ file \in Files
        /\ Entities = 1 .. Len(file) /\ Len(file) \in Nat /\ pos \in Nat /\ pos \in 1 .. Len(file) + 1
        /\ "nodes" \in Tables
    BY FileConstant, FileFacts DEF TypeInv, TypeOK, Tables
  <1>1. /\ db' = db /\ nbuf' = nbuf /\ npc' = npc /\ mergeDone' = mergeDone
        /\ wpc' = wpc /\ hand' = hand /\ arrived' = arrived /\ buf' = buf
    BY DEF MainStep, HandOutNode, SkipNode, EndNodePhase, MergeSeen, DropWay, Feed,
           EndOfFile, JoinNodes, JoinWays, wayVars, nodeVars, mergeVars
  <1>2. WaysKept' /\ BufferPhase' /\ RelationPhase' = RelationPhase /\ RowsApart'
    BY <1>0, <1>1 DEF LoadInv, WaysKept, BufferPhase, RelationPhase, OnceInv, RowsApart
  <1>3. NodesFlushed'
    <2>1. mpc' \in {"joinWays", "loaded"} =>
              mpc \in {"joinWays", "loaded"} \/ \A n \in NodeThreads : npc[n] = "done"
      BY DEF MainStep, HandOutNode, SkipNode, EndNodePhase, MergeSeen, DropWay, Feed,
             EndOfFile, JoinNodes, JoinWays
    <2>2. QED
      BY <1>1, <2>1 DEF LoadInv, NodesFlushed
  <1>4. QueueOver'
    <2>1. mpc' = "loaded" => mpc = "loaded" \/ \A t \in WayThreads : wpc[t] = "done"
      BY DEF MainStep, HandOutNode, SkipNode, EndNodePhase, MergeSeen, DropWay, Feed,
             EndOfFile, JoinNodes, JoinWays
    <2>2. wqStop /\ wq = <<>> => wqStop' /\ wq' = <<>>
      <3>1. CASE Feed
        <4>1. ~wqStop
          BY <3>1 DEF Feed, More, WayInv, WaysBehind
        <4>2. QED
          BY <4>1
      <3>2. CASE ~Feed
        BY <3>2 DEF MainStep, HandOutNode, SkipNode, EndNodePhase, MergeSeen, DropWay,
               EndOfFile, JoinNodes, JoinWays, wayQVars
      <3>3. QED
        BY <3>1, <3>2
    <2>3. QED
      BY <1>1, <2>1, <2>2 DEF LoadInv, QueueOver, OutOfLoop
  <1>5. ASSUME \A i \in Nat : Waiting(i)' <=> Waiting(i),
               \A t \in WayThreads : hand[t] # 0 => hand[t] < pos' /\ ~InSeq(hand[t], wq')
        PROVE  RowsPlaced' /\ HandsDistinct' /\ RowsHandled'
    <2>1. \A table \in LateTables : \A row \in Expected[table] :
              EntityOf(row) \in Nat
      BY <1>0, LateRows
    <2>2. RowsPlaced'
      BY <1>0, <1>1, <1>5, <2>1 DEF LoadInv, RowsPlaced
    <2>3. HandsDistinct'
      BY <1>1, <1>5 DEF OnceInv, HandsDistinct
    <2>4. LateTables \subseteq Tables
      BY DEF LateTables, Tables
    <2>5. \A table \in LateTables :
             /\ \A t \in WayThreads : \A row \in buf[t][table] : EntityOf(row) \in Nat
             /\ \A row \in db[table] : EntityOf(row) \in Nat
      BY <2>1, <2>4 DEF WayInv, RowsRight
    <2>6. RowsHandled'
      BY <1>0, <1>1, <1>5, <2>5 DEF OnceInv, RowsHandled
    <2>7. QED
      BY <2>2, <2>3, <2>6
  <1>6. CASE UNCHANGED <<pos, wq>>
    <2>1. /\ \A i \in Nat : Waiting(i)' <=> Waiting(i)
          /\ \A t \in WayThreads : hand[t] # 0 => hand[t] < pos' /\ ~InSeq(hand[t], wq')
      BY <1>1, <1>6 DEF Waiting, OnceInv, HandsDistinct
    <2>2. nq' = nq
      BY <1>0, <1>6 DEF MainStep, HandOutNode, SkipNode, EndNodePhase, MergeSeen, DropWay, Feed,
             EndOfFile, JoinNodes, JoinWays, nodeQVars
    <2>3. NodeRowsPlaced'
      BY <1>0, <1>1, <1>6, <2>2 DEF LoadInv, NodeRowsPlaced
    <2>4. QED
      BY <1>2, <1>3, <1>4, <1>5, <2>1, <2>3 DEF LoadInv, OnceInv
  <1>7. CASE HandOutNode \/ SkipNode \/ DropWay
    <2>1. /\ pos' = pos + 1 /\ wq' = wq /\ pos \in Entities
      BY <1>0, <1>7 DEF HandOutNode, SkipNode, DropWay, More, wayQVars
    <2>2. ASSUME NEW table \in LateTables, NEW row \in Expected[table], row \notin db[table]
          PROVE  EntityOf(row) \in Nat /\ EntityOf(row) # pos
      <3>0. /\ EntityOf(row) \in OfKinds(WayKinds \cup RelationKinds)
            /\ EntityOf(row) \in 1 .. Len(file)
        BY <1>0, LateRows
      <3>1. EntityOf(row) \in OfKinds(WayKinds \cup RelationKinds) /\ EntityOf(row) \in Nat
        BY <1>0, <3>0
      <3>2. CASE HandOutNode \/ SkipNode
        BY <3>1, <3>2, KindFacts DEF HandOutNode, SkipNode, Kind, OfKinds
      <3>3. CASE DropWay
        BY <2>2, <3>1, <3>3 DEF DropWay, Kind, LoadInv, WaysKept
      <3>4. QED
        BY <1>7, <3>1, <3>2, <3>3
    <2>3. \A i \in Nat \ {pos} : Waiting(i) => Waiting(i)'
      BY <1>0, <1>1, <2>1 DEF Waiting
    <2>4. \A i \in Nat : Waiting(i)' => Waiting(i)
      BY <1>0, <1>1, <2>1 DEF Waiting
    <2>5. RowsPlaced'
      <3> SUFFICES ASSUME NEW table \in LateTables, NEW row \in Expected[table],
                          row \notin db[table],
                          \A t \in WayThreads : row \notin buf[t][table]
                   PROVE  Waiting(EntityOf(row))'
        BY <1>0, <1>1 DEF RowsPlaced
      <3>1. Waiting(EntityOf(row))
        BY DEF LoadInv, RowsPlaced
      <3>2. QED
        BY <2>2, <2>3, <3>1
    <2>6. HandsDistinct'
      <3>1. \A t \in WayThreads : hand[t] \in Nat
        BY <1>0 DEF TypeInv, TypeOK
      <3>2. QED
        BY <1>0, <1>1, <2>1, <3>1 DEF OnceInv, HandsDistinct
    <2>7. RowsHandled'
      <3>1. \A table \in LateTables :
             /\ \A t \in WayThreads : \A row \in buf[t][table] : EntityOf(row) \in Nat
             /\ \A row \in db[table] : EntityOf(row) \in Nat
        BY <1>0, LateRows DEF WayInv, RowsRight, LateTables, Tables
      <3>2. QED
        BY <1>0, <1>1, <2>4, <3>1 DEF OnceInv, RowsHandled
    <2>8. NodeRowsPlaced'
      <3>1. CASE mode # "nodes"
        BY <1>0, <1>1, <3>1 DEF LoadInv, NodeRowsPlaced
      <3>2. CASE mode = "nodes"
        <4> DEFINE n == rr % NumNodeThreads
        <4>1. HandOutNode
          BY <1>7, <3>2 DEF SkipNode, DropWay
        <4>2. n \in NodeThreads
          BY SizeAssumption DEF TypeInv, TypeOK, NodeThreads
        <4>3. /\ nq[n] \in Seq(Entities) /\ nq'[n] = Append(nq[n], pos)
              /\ \A m \in NodeThreads \ {n} : nq'[m] = nq[m]
          BY <4>1, <4>2 DEF HandOutNode, TypeInv, TypeOK
        <4> HIDE DEF n
        <4>4. \A i : InSeq(i, nq'[n]) <=> (InSeq(i, nq[n]) \/ i = pos)
          BY <2>1, <4>3, InAppend
        <4>5. \A i : (\E m \in NodeThreads : InSeq(i, nq[m])) \/ i = pos
                        => \E m \in NodeThreads : InSeq(i, nq'[m])
          BY <4>2, <4>3, <4>4
        <4>6. \A row \in Expected["nodes"] : row[1] \in Nat
          BY <1>0, ExpectedTables DEF OfKinds
        <4>7. ASSUME NEW row \in Expected["nodes"], row \notin db["nodes"],
                     \A m \in NodeThreads : row \notin nbuf[m]
              PROVE  row[1] >= pos + 1 \/ \E m \in NodeThreads : InSeq(row[1], nq'[m])
          <5>1. row[1] >= pos \/ \E m \in NodeThreads : InSeq(row[1], nq[m])
            BY <4>7 DEF LoadInv, NodeRowsPlaced
          <5>2. row[1] >= pos => row[1] >= pos + 1 \/ row[1] = pos
            BY <1>0, <4>6
          <5>3. QED
            BY <4>5, <5>1, <5>2
        <4>8. QED
          BY <1>0, <1>1, <2>1, <3>2, <4>7 DEF NodeRowsPlaced
      <3>3. QED
        BY <3>1, <3>2
    <2>9. QED
      BY <1>2, <1>3, <1>4, <2>5, <2>6, <2>7, <2>8 DEF LoadInv, OnceInv
  <1>8. CASE Feed
    <2>1. /\ pos' = pos + 1 /\ wq' = Append(wq, pos) /\ pos \in Entities /\ wq \in Seq(Entities)
          /\ nq' = nq
      BY <1>0, <1>8 DEF Feed, More, TypeInv, TypeOK, nodeQVars
    <2>2. \A x : InSeq(x, wq') <=> InSeq(x, wq) \/ x = pos
      BY <2>1, InAppend
    <2>3. \A i \in Nat : Waiting(i)' <=> Waiting(i)
      BY <1>0, <1>1, <2>1, <2>2 DEF Waiting
    <2>4. \A t \in WayThreads : hand[t] # 0 => hand[t] < pos' /\ ~InSeq(hand[t], wq')
      <3>1. \A t \in WayThreads : hand[t] \in Nat
        BY <1>0 DEF TypeInv, TypeOK
      <3>2. QED
        BY <1>0, <2>1, <2>2, <3>1 DEF OnceInv, HandsDistinct
    <2>5. NodeRowsPlaced'
      <3>1. mergeDone
        BY <1>8 DEF Feed, More, NodeInv, FeedAfterMerge
      <3>2. 0 \in NodeThreads
        BY SizeAssumption DEF NodeThreads
      <3>3. nqStop
        BY <3>1, <3>2 DEF LoadInv, NodesFlushed, NodeInv, NodesEnd
      <3>4. mode = "nodes" => \A row \in Expected["nodes"] : ~(row[1] >= pos)
        <4>1. \A row \in Expected["nodes"] : row[1] \in NodeIds /\ row[1] \in Nat
          BY <1>0, ExpectedTables DEF OfKinds, NodeIds, NodeKinds
        <4>2. QED
          BY <1>0, <3>3, <4>1 DEF NodeInv, NodesEnd
      <3>5. QED
        BY <1>0, <1>1, <2>1, <3>4 DEF LoadInv, NodeRowsPlaced
    <2>6. QED
      BY <1>2, <1>3, <1>4, <1>5, <2>3, <2>4, <2>5 DEF LoadInv, OnceInv
  <1>9. QED
    BY <1>6, <1>7, <1>8 DEF MainStep, EndNodePhase, MergeSeen, EndOfFile, JoinNodes, JoinWays, wayQVars

------------------------------------------------------------------------------
(* The node threads' steps touch the table of nodes only.                  *)

LEMMA LoadNode ==
    ASSUME TypeInv, NodeInv, WayInv, LoadInv, OnceInv, [Next]_vars, NodeStep
    PROVE  LoadInv' /\ OnceInv'
  <1>0. /\ file' = file /\ mode' = mode /\ Expected' = Expected /\ file \in Files
        /\ "nodes" \in Tables /\ LateTables = Tables \ {"nodes"}
    BY FileConstant DEF TypeInv, TypeOK, Tables, LateTables
  <1>1. /\ wpc' = wpc /\ hand' = hand /\ arrived' = arrived /\ buf' = buf
        /\ wq' = wq /\ wqStop' = wqStop /\ pos' = pos /\ mpc' = mpc
        /\ \A i : Waiting(i)' = Waiting(i)
        /\ RelationPhase' = RelationPhase
    BY <1>0 DEF NodeStep, StoreNode, EndNodes, MergeShard, MergeEnd, wayVars, wayQVars, mainVars,
           Waiting, RelationPhase
  <1>2. \A table \in LateTables : db'[table] = db[table]
    <2>1. db \in [Tables -> SUBSET (Int \X SUBSET Entities)]
      BY DEF TypeInv, TypeOK, RowSets
    <2>2. QED
      BY <1>0, <2>1 DEF NodeStep, StoreNode, EndNodes, MergeShard, MergeEnd
  <1>3. mergeDone => mergeDone'
    BY DEF NodeStep, StoreNode, EndNodes, MergeShard, MergeEnd, mergeVars
  <1>4. RowsPlaced' /\ WaysKept' /\ QueueOver' /\ BufferPhase'
    <2>1. RowsPlaced'
      BY <1>0, <1>1, <1>2 DEF LoadInv, RowsPlaced
    <2>2. WaysKept'
      BY <1>0, <1>2 DEF LoadInv, WaysKept
    <2>3. QueueOver' /\ BufferPhase'
      BY <1>0, <1>1, <1>3 DEF LoadInv, QueueOver, OutOfLoop, BufferPhase
    <2>4. QED
      BY <2>1, <2>2, <2>3
  <1>5. OnceInv'
    <2>1. HandsDistinct'
      BY <1>1 DEF OnceInv, HandsDistinct
    <2>2. RowsHandled'
      BY <1>0, <1>1, <1>2 DEF OnceInv, RowsHandled
    <2>3. RowsApart'
      BY <1>0, <1>1, <1>2 DEF OnceInv, RowsApart
    <2>4. QED
      BY <2>1, <2>2, <2>3 DEF OnceInv
  <1>6. NodeRowsPlaced' /\ NodesFlushed'
    <2>0. /\ db \in [Tables -> SUBSET (Int \X SUBSET Entities)]
          /\ nbuf \in [NodeThreads -> SUBSET (Int \X SUBSET Entities)]
          /\ npc \in [NodeThreads -> {"loop", "barrier", "done"}]
          /\ db["nodes"] \subseteq Expected["nodes"]
          /\ \A n \in NodeThreads : nbuf[n] \subseteq Expected["nodes"]
      BY <1>0 DEF TypeInv, TypeOK, RowSets, WayInv, RowsRight
    <2>01. ASSUME NEW rows, rows \subseteq Expected["nodes"]
           PROVE  Copied(db["nodes"], rows) = db["nodes"] \cup rows
      BY <1>0, <2>0, <2>01, CopiedIsUnion
    <2>1. ASSUME NEW n \in NodeThreads, StoreNode(n)
          PROVE  NodeRowsPlaced' /\ NodesFlushed'
      <3> DEFINE i == Head(nq[n])
                 rows == nbuf[n] \cup NodeRows({i} \cap OfKinds({"node"}))
      <3>1. /\ nq[n] \in Seq(Entities) /\ nq[n] # <<>>
            /\ nq'[n] = Tail(nq[n])
            /\ \A m \in NodeThreads \ {n} : nq'[m] = nq[m]
        BY <2>1 DEF StoreNode, TypeInv, TypeOK
      <3>2. \A x : InSeq(x, nq[n]) <=> (x = i \/ InSeq(x, nq'[n]))
        BY <3>1, InTail
      <3>3. rows \subseteq Expected["nodes"] /\ nbuf[n] \subseteq rows
        <4>1. NodeRows({i} \cap OfKinds({"node"})) \subseteq Expected["nodes"]
          BY ExpectedTables DEF NodeRows
        <4>2. QED
          BY <2>0, <4>1
      <3>4. Copied(db["nodes"], rows) = db["nodes"] \cup rows
        BY <2>01, <3>3
      <3>5. \/ nbuf' = [nbuf EXCEPT ![n] = {}] /\ db' = [db EXCEPT !["nodes"] = Copied(@, rows)]
            \/ nbuf' = [nbuf EXCEPT ![n] = rows] /\ db' = db
        BY <2>1 DEF StoreNode
      <3>6. \A row \in Expected["nodes"] : row[1] = i => row \in rows
        <4>1. ASSUME NEW row \in Expected["nodes"], row[1] = i PROVE row \in rows
          <5>1. PICK j \in OfKinds({"node"}) : row = <<j, {}>>
            BY ExpectedTables
          <5>2. j = i
            BY <4>1, <5>1
          <5>3. QED
            BY <5>1, <5>2 DEF NodeRows
        <4>2. QED
          BY <4>1
      <3> HIDE DEF i, rows
      <3>7. /\ db["nodes"] \subseteq db'["nodes"]
            /\ rows \subseteq db'["nodes"] \cup nbuf'[n]
            /\ \A m \in NodeThreads \ {n} : nbuf'[m] = nbuf[m]
        BY <1>0, <2>0, <3>4, <3>5
      <3>8. NodeRowsPlaced'
        <4> SUFFICES ASSUME NEW row \in Expected["nodes"], row \notin db'["nodes"],
                            \A m \in NodeThreads : row \notin nbuf'[m]
                     PROVE  mode = "nodes" /\ (row[1] >= pos \/ \E m \in NodeThreads : InSeq(row[1], nq'[m]))
          BY <1>0, <1>1 DEF NodeRowsPlaced
        <4>1. row \notin rows /\ row \notin db["nodes"] /\ row[1] # i
          BY <3>6, <3>7
        <4>2. \A m \in NodeThreads : row \notin nbuf[m]
          BY <3>3, <3>7, <4>1
        <4>3. mode = "nodes" /\ (row[1] >= pos \/ \E m \in NodeThreads : InSeq(row[1], nq[m]))
          BY <4>1, <4>2 DEF LoadInv, NodeRowsPlaced
        <4>4. \A m \in NodeThreads : InSeq(row[1], nq[m]) => InSeq(row[1], nq'[m])
          BY <3>1, <3>2, <4>1
        <4>5. QED
          BY <4>3, <4>4
      <3>9. NodesFlushed'
        <4>1. npc' = npc /\ npc[n] = "loop" /\ mergeDone' = mergeDone
          BY <2>1 DEF StoreNode, mergeVars
        <4>2. QED
          BY <1>1, <3>7, <4>1 DEF LoadInv, NodesFlushed
      <3>10. QED
        BY <3>8, <3>9
    <2>2. ASSUME NEW n \in NodeThreads, EndNodes(n)
          PROVE  NodeRowsPlaced' /\ NodesFlushed'
      <3>1. Copied(db["nodes"], nbuf[n]) = db["nodes"] \cup nbuf[n]
        BY <2>0, <2>01
      <3>2. /\ db'["nodes"] = db["nodes"] \cup nbuf[n] /\ nbuf'[n] = {} /\ nq' = nq
            /\ \A m \in NodeThreads \ {n} : nbuf'[m] = nbuf[m] /\ npc'[m] = npc[m]
            /\ npc'[n] = "barrier" /\ npc[n] = "loop" /\ mergeDone' = mergeDone
        BY <1>0, <2>0, <2>2, <3>1 DEF EndNodes, nodeQVars, mergeVars
      <3>3. NodeRowsPlaced'
        BY <1>0, <1>1, <3>2 DEF LoadInv, NodeRowsPlaced
      <3>4. NodesFlushed'
        BY <1>1, <3>2 DEF LoadInv, NodesFlushed
      <3>5. QED
        BY <3>3, <3>4
    <2>3. CASE MergeShard \/ MergeEnd
      <3>1. /\ db' = db /\ nbuf' = nbuf /\ nq' = nq
            /\ \/ npc' = npc /\ mergeDone' = mergeDone
               \/ \A n \in NodeThreads : npc[n] = "barrier" /\ npc'[n] = "done"
        BY <2>3 DEF MergeShard, MergeEnd, nodeQVars, AllAtNodeBarrier
      <3>2. NodeRowsPlaced'
        BY <1>0, <1>1, <3>1 DEF LoadInv, NodeRowsPlaced
      <3>3. NodesFlushed'
        BY <1>1, <3>1 DEF LoadInv, NodesFlushed
      <3>4. QED
        BY <3>2, <3>3
    <2>4. QED
      BY <2>1, <2>2, <2>3 DEF NodeStep
  <1>7. QED
    BY <1>4, <1>5, <1>6 DEF LoadInv

------------------------------------------------------------------------------
(* The way threads' steps. *)

(* new holds the rows of the entity in t's hand, all of them but those     *)
(* that are committed already, and their phase has come.                   *)
Made(t, new) ==
    /\ new["nodes"] = {}
    /\ \A table \in LateTables :
          /\ new[table] \subseteq RowsOf(hand[t], table)
          /\ RowsOf(hand[t], table) \subseteq new[table] \cup db[table]
          /\ \A row \in new[table] :
                /\ mergeDone
                /\ file[EntityOf(row)] \in WayKinds <=> ~RelationPhase

(* What the steps of a way thread that write rows have in common: it is    *)
(* done with an entity, it finalizes the ways, or it ends.                 *)
Writes(t, new, always) ==
    /\ new \in RowSets
    /\ InsertAndFlush(t, new, always)
    /\ UNCHANGED <<inputVars, mainVars, nodeQVars, nodeVars, mergeVars, wayQVars,
                   wayPhaseDone, arrived>>
    /\ \/ /\ Made(t, new)
          /\ hand[t] # 0
          /\ hand' = [hand EXCEPT ![t] = 0]
          /\ wpc' = [wpc EXCEPT ![t] = "popping"]
       \/ /\ new = NoRows
          /\ hand' = hand
          /\ hand[t] # 0 \/ wpc[t] = "cleanup"
          /\ wpc' = [wpc EXCEPT ![t] = "finalized"]
       \/ /\ new = NoRows
          /\ hand' = hand
          /\ wpc[t] = "ending"
          /\ wpc' = [wpc EXCEPT ![t] = "done"]
          /\ always = Tables

(* A way makes its row, once its nodes are merged, or has it committed.    *)
LEMMA WayMakes ==
    ASSUME TypeInv, NodeInv, WayInv, LoadInv, NEW t \in WayThreads, ProcessWay(t)
    PROVE  \E new : Writes(t, new, {"roads"})
  <1> DEFINE i == hand[t]
             found == Refs(i) \cap merged
             one == OneRow(IF file[i] = "area" THEN "areas" ELSE "ways", <<i, found>>)
  <1>1. /\ Working(t, WayKinds) /\ wpc[t] = "working" /\ i # 0
        /\ i \in Entities /\ file[i] \in WayKinds /\ i \in OfKinds(WayKinds)
        /\ mergeDone /\ merged = NodeIds /\ found = Refs(i)
        /\ file \in Files
    BY DEF ProcessWay, Working, TypeInv, TypeOK, HandInv, NodeInv, FeedAfterMerge, MergeOrder,
       NodesOnly, OfKinds, Refs
  <1>2. /\ \A table \in Tables : NoRows[table] = {}
        /\ NoRows \in RowSets
        /\ "nodes" \in Tables /\ LateTables = Tables \ {"nodes"}
    BY NewRowsTyped DEF NoRows, Tables, LateTables, TypeInv
  <1>3. file[i] \notin {"multi", "relation", "road"}
    BY <1>1 DEF WayKinds
  <1>4. ASSUME NEW new \in RowSets, FinishEntity(t, new), Made(t, new)
        PROVE  Writes(t, new, {"roads"})
    BY <1>1, <1>4 DEF Writes, FinishEntity
  <1>5. CASE mode = "relations"
    <2>1. FinishEntity(t, NoRows)
      BY <1>5 DEF ProcessWay
    <2>2. \A table \in LateTables : RowsOf(i, table) \subseteq db[table]
      BY <1>1, <1>5 DEF LoadInv, WaysKept, RowsOf
    <2>3. Made(t, NoRows)
      BY <1>2, <2>2 DEF Made
    <2>4. QED
      BY <1>2, <1>4, <2>1, <2>3
  <1>6. CASE mode # "relations" /\ ~HasGeometry(found)
    <2>1. FinishEntity(t, NoRows) /\ i \notin WayIds
      BY <1>1, <1>6 DEF ProcessWay, WayIds
    <2>2. \A table \in LateTables : RowsOf(i, table) = {}
      BY <1>1, <1>3, <2>1, RowsOfEntity DEF LateTables
    <2>3. Made(t, NoRows)
      BY <1>2, <2>2 DEF Made
    <2>4. QED
      BY <1>2, <1>4, <2>1, <2>3
  <1>7. CASE mode # "relations" /\ HasGeometry(found)
    <2>1. FinishEntity(t, one) /\ i \in WayIds
      BY <1>1, <1>7 DEF ProcessWay, WayIds
    <2>2. file[i] # "stub"
      BY <1>7, FS_EmptySet DEF Refs, HasGeometry
    <2>3. found = NodeIds /\ file[i] \in {"way", "loop", "area"}
      BY <1>1, <2>2 DEF Refs, WayKinds
    <2>4. ~RelationPhase
      BY <1>7, <2>1 DEF RelationPhase, WayInv, ArrivedClean
    <2>5. one \in RowSets
      BY <1>1, <1>7, WayRowRight
    <2>6. one = OneRow(IF file[i] = "area" THEN "areas" ELSE "ways", <<i, NodeIds>>)
      BY <2>3
    <2>7. \A table \in Tables :
              one[table] = IF table = (IF file[i] = "area" THEN "areas" ELSE "ways")
                           THEN {<<i, NodeIds>>} ELSE {}
      BY <2>6 DEF OneRow, NoRows
    <2> HIDE DEF one
    <2>8. \A table \in LateTables : one[table] = RowsOf(i, table)
      <3>1. /\ one["relations"] = {} /\ one["roads"] = {}
            /\ one["ways"] = IF file[i] \in {"way", "loop"} THEN {<<i, NodeIds>>} ELSE {}
            /\ one["areas"] = IF file[i] = "area" THEN {<<i, NodeIds>>} ELSE {}
        BY <1>2, <2>3, <2>7 DEF LateTables
      <3>2. QED
        BY <1>1, <1>3, <2>1, <2>3, <3>1, RowsOfEntity DEF LateTables
    <2>9. one["nodes"] = {}
      BY <1>2, <2>7
    <2>10. \A table \in LateTables : \A row \in one[table] : EntityOf(row) = i
      BY <2>8 DEF RowsOf
    <2>11. Made(t, one)
      BY <1>1, <2>4, <2>8, <2>9, <2>10 DEF Made
    <2>12. QED
      BY <1>4, <2>1, <2>5, <2>11
  <1>8. QED
    BY <1>5, <1>6, <1>7

(* A relation finds all ways and makes the rows it should.                 *)
LEMMA RelationMakes ==
    ASSUME TypeInv, NodeInv, WayInv, LoadInv, NEW t \in WayThreads, ProcessRelation(t)
    PROVE  \E new : Writes(t, new, {"roads"})
  <1> DEFINE i == hand[t]
             new == RelationRows(i)
  <1>1. /\ wpc[t] = "working" /\ i # 0 /\ wayPhaseDone[t]
        /\ i \in Entities /\ file[i] \in RelationKinds /\ i \in OfKinds(RelationKinds)
        /\ mergeDone /\ file \in Files
    BY DEF ProcessRelation, Working, TypeInv, TypeOK, HandInv, NodeInv, FeedAfterMerge, OfKinds
  <1>2. RelationPhase /\ FoundWays = WayIds /\ FoundLines = LineIds
    BY <1>1, AllWaysFound DEF WayInv, BarrierInv, RelationPhase, FoundLines, LineIds
  <1>3. FinishEntity(t, new) /\ new \in RowSets
    BY <1>1, NewRowsTyped DEF ProcessRelation, TypeInv
  <1>4. /\ file[i] \in {"relation", "road", "multi", "broken"}
        /\ file[i] \notin WayKinds /\ i \notin WayIds
    BY <1>1, KindFacts DEF RelationKinds, WayIds, OfKinds
  <1>5. /\ new["nodes"] = {} /\ new["ways"] = {}
        /\ new["areas"] = IF file[i] = "multi" /\ WayIds # {} THEN {<<-i, WayIds>>} ELSE {}
        /\ new["relations"] = IF file[i] \in {"relation", "road"} THEN {<<i, LineIds>>} ELSE {}
        /\ new["roads"] = IF file[i] = "road" /\ LineIds # {} THEN {<<i, LineIds>>} ELSE {}
    <2>1. \A table \in Tables : NoRows[table] = {}
      BY DEF NoRows
    <2>2. /\ \A other \in Tables : OneRow("areas", <<-i, WayIds>>)[other]
                  = IF other = "areas" THEN {<<-i, WayIds>>} ELSE {}
          /\ \A other \in Tables : OneRow("relations", <<i, LineIds>>)[other]
                  = IF other = "relations" THEN {<<i, LineIds>>} ELSE {}
      BY DEF OneRow, NoRows
    <2>3. \A other \in Tables :
              [NoRows EXCEPT !["relations"] = {<<i, LineIds>>},
                             !["roads"] = {<<i, LineIds>>}][other]
                  = IF other \in {"relations", "roads"} THEN {<<i, LineIds>>} ELSE {}
      BY DEF NoRows
    <2>4. {"nodes", "ways", "areas", "relations", "roads"} = Tables
      BY DEF Tables
    <2>5. CASE file[i] = "broken" \/ (file[i] = "multi" /\ WayIds = {})
      <3>1. new = NoRows
        BY <1>2, <2>5 DEF RelationRows
      <3>2. QED
        BY <2>1, <2>4, <2>5, <3>1
    <2>6. CASE file[i] = "multi" /\ WayIds # {}
      <3>1. new = OneRow("areas", <<-i, WayIds>>)
        BY <1>2, <2>6 DEF RelationRows
      <3>2. \A other \in Tables : new[other] = IF other = "areas" THEN {<<-i, WayIds>>} ELSE {}
        BY <2>2, <3>1
      <3> HIDE DEF new
      <3>3. QED
        BY <2>4, <2>6, <3>2
    <2>7. CASE file[i] = "relation" \/ (file[i] = "road" /\ LineIds = {})
      <3>1. new = OneRow("relations", <<i, LineIds>>)
        BY <1>2, <2>7 DEF RelationRows
      <3>2. \A other \in Tables : new[other] = IF other = "relations" THEN {<<i, LineIds>>} ELSE {}
        BY <2>2, <3>1
      <3> HIDE DEF new
      <3>3. QED
        BY <2>4, <2>7, <3>2
    <2>8. CASE file[i] = "road" /\ LineIds # {}
      <3>1. new = [NoRows EXCEPT !["relations"] = {<<i, LineIds>>}, !["roads"] = {<<i, LineIds>>}]
        BY <1>2, <2>8 DEF RelationRows
      <3>2. QED
        BY <2>3, <2>4, <2>8, <3>1
    <2>9. QED
      BY <1>4, <2>5, <2>6, <2>7, <2>8
  <1> HIDE DEF new
  <1>6. \A table \in LateTables : new[table] = RowsOf(i, table)
    BY <1>1, <1>4, <1>5, RowsOfEntity DEF LateTables
  <1>7. \A table \in LateTables : \A row \in new[table] : EntityOf(row) = i
    BY <1>6 DEF RowsOf
  <1>8. Made(t, new)
    BY <1>1, <1>2, <1>4, <1>5, <1>6, <1>7 DEF Made
  <1>9. QED
    BY <1>1, <1>3, <1>8 DEF Writes, FinishEntity

(* A step of a way thread moves it through its loop or writes rows.        *)
LEMMA WayCases ==
    ASSUME TypeInv, NodeInv, WayInv, LoadInv, NEW t \in WayThreads, WayStep(t)
    PROVE  \/ WayPop(t) \/ ArriveAtWayBarrier(t) \/ PassWayBarrier(t) \/ QueueEnds(t)
           \/ \E new, always : Writes(t, new, always)
  <1>1. NoRows \in RowSets
    BY NewRowsTyped DEF TypeInv
  <1>2. CASE IgnoreNode(t)
    <2>1. /\ hand[t] \in Entities /\ file[hand[t]] \in NodeKinds /\ hand[t] # 0
          /\ file \in Files
      BY <1>2 DEF IgnoreNode, Working, TypeInv, TypeOK, HandInv
    <2>2. hand[t] \notin WayIds /\ file[hand[t]] \notin {"multi", "relation", "road"}
      BY <2>1, KindFacts DEF WayIds, OfKinds, RelationKinds
    <2>3. \A table \in LateTables : RowsOf(hand[t], table) = {}
      BY <2>1, <2>2, RowsOfEntity DEF LateTables
    <2>4. \A table \in LateTables \cup {"nodes"} : NoRows[table] = {}
      BY DEF NoRows, LateTables, Tables
    <2>5. Made(t, NoRows)
      BY <2>3, <2>4 DEF Made
    <2>6. Writes(t, NoRows, {"roads"})
      BY <1>1, <1>2, <2>1, <2>5 DEF IgnoreNode, FinishEntity, Writes
    <2>7. QED
      BY <2>6
  <1>3. CASE FinalizeWays(t)
    <2>1. hand[t] # 0 \/ wpc[t] = "cleanup"
      BY <1>3 DEF FinalizeWays, Working, TypeInv, HandInv
    <2>2. Writes(t, NoRows, {"ways", "areas"})
      BY <1>1, <1>3, <2>1 DEF FinalizeWays, Writes
    <2>3. QED
      BY <2>2
  <1>4. CASE EndWayThread(t)
    <2>1. Writes(t, NoRows, Tables)
      BY <1>1, <1>4 DEF EndWayThread, Writes
    <2>2. QED
      BY <2>1
  <1>5. QED
    BY <1>2, <1>3, <1>4, WayMakes, RelationMakes DEF WayStep

(* Rows move from the entity to a buffer to the table.                     *)
LEMMA LoadWrites ==
    ASSUME TypeInv, NodeInv, WayInv, LoadInv, OnceInv, [Next]_vars,
           NEW t \in WayThreads, NEW new, NEW always, Writes(t, new, always)
    PROVE  LoadInv' /\ OnceInv'
  <1>0. /\ file' = file /\ mode' = mode /\ Expected' = Expected /\ file \in Files
        /\ "nodes" \in Tables /\ LateTables = Tables \ {"nodes"}
        /\ \A u \in WayThreads : hand[u] \in {0} \cup Entities
        /\ \A i \in Entities : i \in Nat \ {0}
    BY FileConstant, FileFacts DEF TypeInv, TypeOK, Tables, LateTables
  <1>1. /\ pos' = pos /\ mpc' = mpc /\ wq' = wq /\ wqStop' = wqStop /\ nq' = nq
        /\ npc' = npc /\ nbuf' = nbuf /\ mergeDone' = mergeDone /\ arrived' = arrived
        /\ RelationPhase' = RelationPhase
    BY <1>0 DEF Writes, mainVars, wayQVars, nodeQVars, nodeVars, mergeVars, RelationPhase
  <1>2. /\ \A u \in WayThreads \ {t} : hand'[u] = hand[u] /\ wpc'[u] = wpc[u]
        /\ \/ hand'[t] = 0 /\ hand[t] # 0 /\ Made(t, new)
           \/ hand'[t] = hand[t] /\ new = NoRows
    BY DEF Writes, TypeInv, TypeOK
  <1>3. /\ new \in RowSets /\ new["nodes"] = {}
        /\ \A table \in LateTables : new[table] \subseteq RowsOf(hand[t], table)
        /\ \A table \in LateTables : \A row \in new[table] :
              /\ row \in Expected[table] /\ EntityOf(row) = hand[t] /\ hand'[t] = 0 /\ hand[t] # 0
              /\ mergeDone /\ (file[EntityOf(row)] \in WayKinds <=> ~RelationPhase)
    <2>1. CASE Made(t, new) /\ hand'[t] = 0 /\ hand[t] # 0
      BY <2>1 DEF Writes, Made, RowsOf
    <2>2. CASE new = NoRows
      <3>1. \A table \in Tables : new[table] = {}
        BY <2>2 DEF NoRows
      <3>2. QED
        BY <1>0, <3>1 DEF Writes
    <2>3. QED
      BY <1>2, <2>1, <2>2
  <1>4. \A table \in Tables : new[table] \subseteq Expected[table]
    BY <1>0, <1>3
  <1>5. /\ \A u \in WayThreads \ {t} : buf'[u] = buf[u]
        /\ \A table \in Tables :
             \/ /\ db'[table] = db[table] \cup (buf[t][table] \cup new[table])
                /\ buf'[t][table] = {}
             \/ /\ table \notin always
                /\ db'[table] = db[table]
                /\ buf'[t][table] = buf[t][table] \cup new[table]
    BY <1>3, <1>4, FlushCases DEF Writes, WayInv
  <1>6. \A i \in Nat \ {0} : Waiting(i)' => Waiting(i)
    BY <1>0, <1>1, <1>2 DEF Waiting
  <1>7. RowsPlaced'
    <2> SUFFICES ASSUME NEW table \in LateTables, NEW row \in Expected[table],
                        row \notin db'[table],
                        \A u \in WayThreads : row \notin buf'[u][table]
                 PROVE  Waiting(EntityOf(row))'
      BY <1>0 DEF RowsPlaced
    <2>1. /\ row \notin db[table] /\ row \notin new[table]
          /\ \A u \in WayThreads : row \notin buf[u][table]
      BY <1>0, <1>5
    <2>2. Waiting(EntityOf(row))
      BY <2>1 DEF LoadInv, RowsPlaced
    <2>3. ASSUME hand[t] = EntityOf(row) PROVE hand'[t] = hand[t]
      BY <1>2, <2>1, <2>3 DEF Made, RowsOf
    <2>4. QED
      BY <1>1, <1>2, <2>2, <2>3 DEF Waiting
  <1>8. WaysKept'
    BY <1>0, <1>5 DEF LoadInv, WaysKept
  <1>9. NodeRowsPlaced' /\ NodesFlushed'
    <2>1. db["nodes"] \subseteq db'["nodes"]
      BY <1>0, <1>5
    <2>2. QED
      BY <1>0, <1>1, <2>1 DEF LoadInv, NodeRowsPlaced, NodesFlushed
  <1>10. QueueOver'
    <2>1. OutOfLoop(t)' => OutOfLoop(t)
      BY DEF Writes, OutOfLoop, TypeInv, TypeOK
    <2>2. \A u \in WayThreads \ {t} : OutOfLoop(u)' => OutOfLoop(u)
      BY <1>2 DEF OutOfLoop
    <2>3. wpc'[t] = "done" => \A table \in Tables : buf'[t][table] = {}
      <3>1. wpc'[t] = "done" => always = Tables
        BY DEF Writes, TypeInv, TypeOK
      <3>2. QED
        BY <1>5, <3>1
    <2>4. mpc # "loaded"
      BY DEF Writes, LoadInv, QueueOver, TypeInv, TypeOK, HandInv
    <2>5. QED
      BY <1>1, <1>2, <1>5, <2>1, <2>2, <2>3, <2>4 DEF LoadInv, QueueOver
  <1>11. BufferPhase'
    <2>1. /\ buf'[t]["nodes"] = {}
          /\ \A table \in LateTables : buf'[t][table] \subseteq buf[t][table] \cup new[table]
      BY <1>0, <1>3, <1>5 DEF LoadInv, BufferPhase
    <2>2. QED
      BY <1>0, <1>1, <1>3, <1>5, <2>1 DEF LoadInv, BufferPhase
  <1>12. HandsDistinct'
    BY <1>0, <1>1, <1>2 DEF OnceInv, HandsDistinct
  <1>13. ASSUME NEW table \in LateTables
         PROVE  /\ \A u \in WayThreads : \A row \in buf[u][table] :
                      row \in Expected[table] /\ EntityOf(row) \in Nat \ {0} /\ ~Waiting(EntityOf(row))
                /\ mode \in {"nodes", "merge"} => \A row \in db[table] :
                      row \in Expected[table] /\ EntityOf(row) \in Nat \ {0} /\ ~Waiting(EntityOf(row))
    <2>1. \A row \in Expected[table] : EntityOf(row) \in 1 .. Len(file)
      BY <1>0, LateRows
    <2>2. \A row \in Expected[table] : EntityOf(row) \in Nat \ {0}
      BY <1>0, <2>1, FileFacts
    <2>3. QED
      BY <1>0, <2>2 DEF WayInv, RowsRight, OnceInv, RowsHandled
  <1>14. \A table \in LateTables : \A row \in new[table] :
             Waiting(EntityOf(row)) /\ ~Waiting(EntityOf(row))'
    <2> SUFFICES ASSUME NEW i, i = hand[t], i # 0, hand'[t] = 0
                 PROVE  Waiting(i) /\ ~Waiting(i)'
      BY <1>3
    <2>1. i < pos /\ i \in Nat /\ pos \in Nat /\ ~InSeq(i, wq)
      BY <1>0, FileFacts DEF OnceInv, HandsDistinct, TypeInv, TypeOK
    <2>2. \A u \in WayThreads : hand'[u] # i
      BY <1>2 DEF OnceInv, HandsDistinct
    <2>3. QED
      BY <1>1, <2>1, <2>2 DEF Waiting
  <1>15. RowsHandled'
    <2>1. ASSUME NEW table \in LateTables, NEW u \in WayThreads, NEW row \in buf'[u][table]
          PROVE  ~Waiting(EntityOf(row))'
      <3>1. row \in buf[u][table] \/ row \in new[table]
        BY <1>0, <1>5, <2>1
      <3>2. QED
        BY <1>6, <1>13, <1>14, <3>1
    <2>2. ASSUME NEW table \in LateTables, mode \in {"nodes", "merge"}, NEW row \in db'[table]
          PROVE  ~Waiting(EntityOf(row))'
      <3>1. row \in db[table] \/ row \in buf[t][table] \/ row \in new[table]
        BY <1>0, <1>5, <2>2
      <3>2. QED
        BY <1>6, <1>13, <1>14, <2>2, <3>1
    <2>3. QED
      BY <1>0, <2>1, <2>2 DEF RowsHandled
  <1>16. RowsApart'
    <2> SUFFICES ASSUME NEW table \in LateTables
                 PROVE  /\ \A u, v \in WayThreads : u # v => buf'[u][table] \cap buf'[v][table] = {}
                        /\ mode \in {"nodes", "merge"} =>
                              \A u \in WayThreads : buf'[u][table] \cap db'[table] = {}
      BY <1>0 DEF RowsApart
    <2>1. /\ \A u, v \in WayThreads : u # v => buf[u][table] \cap buf[v][table] = {}
          /\ mode \in {"nodes", "merge"} =>
                \A u \in WayThreads : buf[u][table] \cap db[table] = {}
      BY DEF OnceInv, RowsApart
    <2>2. /\ \A u \in WayThreads : new[table] \cap buf[u][table] = {}
          /\ mode \in {"nodes", "merge"} => new[table] \cap db[table] = {}
      BY <1>13, <1>14
    <2>3. /\ \A u \in WayThreads \ {t} : buf'[u][table] = buf[u][table]
          /\ buf'[t][table] \subseteq buf[t][table] \cup new[table]
      BY <1>0, <1>5
    <2>4. \A u, v \in WayThreads : u # v => buf'[u][table] \cap buf'[v][table] = {}
      BY <2>1, <2>2, <2>3
    <2>5. ASSUME mode \in {"nodes", "merge"}, NEW u \in WayThreads
          PROVE  buf'[u][table] \cap db'[table] = {}
      <3>1. CASE db'[table] = db[table]
        BY <2>1, <2>2, <2>3, <2>5, <3>1
      <3>2. CASE db'[table] = db[table] \cup (buf[t][table] \cup new[table]) /\ buf'[t][table] = {}
        BY <2>1, <2>2, <2>3, <2>5, <3>2
      <3>3. QED
        BY <1>0, <1>5, <3>1, <3>2
    <2>6. QED
      BY <2>4, <2>5
  <1>17. QED
    BY <1>7, <1>8, <1>9, <1>10, <1>11, <1>12, <1>15, <1>16 DEF LoadInv, OnceInv

(* A thread that takes an entity from way_q, or moves on without writing.  *)
LEMMA LoadMoves ==
    ASSUME TypeInv, NodeInv, WayInv, LoadInv, OnceInv, [Next]_vars, NEW t \in WayThreads,
           WayPop(t) \/ ArriveAtWayBarrier(t) \/ PassWayBarrier(t) \/ QueueEnds(t)
    PROVE  LoadInv' /\ OnceInv'
  <1>0. /\ file' = file /\ mode' = mode /\ Expected' = Expected /\ file \in Files
        /\ \A u \in WayThreads : hand[u] \in {0} \cup Entities
        /\ \A i \in Entities : i \in Nat \ {0}
        /\ LateTables \subseteq Tables
    BY FileConstant, FileFacts DEF TypeInv, TypeOK, LateTables, Tables
  <1>1. /\ pos' = pos /\ mpc' = mpc /\ wqStop' = wqStop /\ nq' = nq /\ db' = db /\ buf' = buf
        /\ npc' = npc /\ nbuf' = nbuf /\ mergeDone' = mergeDone
    BY DEF WayPop, ArriveAtWayBarrier, PassWayBarrier, QueueEnds, mainVars, wayQVars,
           nodeQVars, nodeVars, mergeVars
  <1>2. WaysKept' /\ NodeRowsPlaced' /\ NodesFlushed' /\ RowsApart'
    BY <1>0, <1>1 DEF LoadInv, WaysKept, NodeRowsPlaced, NodesFlushed, OnceInv, RowsApart
  <1>3. ASSUME \A i \in Nat \ {0} : Waiting(i)' <=> Waiting(i)
        PROVE  RowsPlaced' /\ RowsHandled'
    <2>1. \A table \in LateTables : \A row \in Expected[table] : EntityOf(row) \in 1 .. Len(file)
      BY <1>0, LateRows
    <2>2. \A table \in LateTables : \A row \in Expected[table] : EntityOf(row) \in Nat \ {0}
      BY <1>0, <2>1, FileFacts
    <2>3. \A table \in LateTables :
             /\ \A u \in WayThreads : \A row \in buf[u][table] : EntityOf(row) \in Nat \ {0}
             /\ \A row \in db[table] : EntityOf(row) \in Nat \ {0}
      BY <1>0, <2>2 DEF WayInv, RowsRight
    <2>4. QED
      BY <1>0, <1>1, <1>3, <2>2, <2>3 DEF LoadInv, RowsPlaced, OnceInv, RowsHandled
  <1>4. CASE WayPop(t)
    <2>1. /\ wq \in Seq(Entities) /\ wq # <<>> /\ wq' = Tail(wq) /\ Head(wq) \in Entities
          /\ hand'[t] = Head(wq) /\ hand[t] = 0 /\ wpc'[t] = "working"
          /\ \A u \in WayThreads \ {t} : hand'[u] = hand[u] /\ wpc'[u] = wpc[u]
          /\ arrived' = arrived
      BY <1>4 DEF WayPop, TypeInv, TypeOK, HandInv
    <2>2. \A i : InSeq(i, wq) <=> i = Head(wq) \/ InSeq(i, wq')
      BY <2>1, InTail
    <2>3. \A i \in Nat \ {0} : Waiting(i)' <=> Waiting(i)
      BY <1>1, <2>1, <2>2 DEF Waiting
    <2>4. HandsDistinct'
      <3>1. Head(wq) < pos /\ ~InSeq(Head(wq), wq')
        <4>1. /\ Len(wq) \in Nat \ {0} /\ Len(wq') = Len(wq) - 1 /\ Head(wq) = wq[1]
              /\ \A k \in 1 .. Len(wq) - 1 : wq'[k] = wq[k + 1]
              /\ \A k \in 1 .. Len(wq) : wq[k] \in Entities
          BY <2>1
        <4>2. Head(wq) < pos
          BY <4>1 DEF WayInv, QueueOrder
        <4>3. ASSUME NEW k \in 1 .. Len(wq) - 1 PROVE wq'[k] # Head(wq)
          <5>1. 1 \in 1 .. Len(wq) /\ k + 1 \in 1 .. Len(wq) /\ 1 < k + 1
            BY <4>1
          <5>2. wq[1] < wq[k + 1]
            BY <5>1 DEF WayInv, QueueOrder
          <5>3. QED
            BY <1>0, <4>1, <5>1, <5>2
        <4>4. QED
          BY <4>1, <4>2, <4>3 DEF InSeq
      <3>2. InSeq(Head(wq), wq)
        BY <2>2
      <3>3. \A u \in WayThreads : hand[u] # 0 => hand[u] # Head(wq)
        BY <3>2 DEF OnceInv, HandsDistinct
      <3>4. QED
        BY <1>1, <2>1, <2>2, <3>1, <3>3 DEF OnceInv, HandsDistinct
    <2>5. QueueOver'
      <3>1. \A u \in WayThreads \ {t} : OutOfLoop(u)' => OutOfLoop(u)
        BY <2>1 DEF OutOfLoop
      <3>2. ~OutOfLoop(t)' /\ wpc[t] = "popping"
        BY <1>4, <2>1 DEF OutOfLoop, WayPop
      <3>3. \A u \in WayThreads : ~OutOfLoop(u)
        BY <2>1 DEF LoadInv, QueueOver
      <3>4. QED
        BY <1>1, <2>1, <3>1, <3>2, <3>3 DEF LoadInv, QueueOver
    <2>6. BufferPhase'
      BY <1>0, <1>1, <2>1 DEF LoadInv, BufferPhase, RelationPhase
    <2>7. QED
      BY <1>2, <1>3, <2>3, <2>4, <2>5, <2>6 DEF LoadInv, OnceInv
  <1>5. CASE ArriveAtWayBarrier(t) \/ PassWayBarrier(t) \/ QueueEnds(t)
    <2>1. /\ wq' = wq /\ hand' = hand
          /\ \A u \in WayThreads \ {t} : wpc'[u] = wpc[u]
      BY <1>5 DEF ArriveAtWayBarrier, PassWayBarrier, QueueEnds, wayQVars, TypeInv, TypeOK
    <2>2. /\ \A i \in Nat \ {0} : Waiting(i)' <=> Waiting(i)
          /\ HandsDistinct'
      BY <1>1, <2>1 DEF Waiting, OnceInv, HandsDistinct
    <2>3. QueueOver'
      <3>1. OutOfLoop(t)' => wqStop /\ wq = <<>>
        BY <1>5, <2>1 DEF ArriveAtWayBarrier, PassWayBarrier, QueueEnds, OutOfLoop,
           LoadInv, QueueOver, TypeInv, TypeOK
      <3>2. \A u \in WayThreads \ {t} : OutOfLoop(u)' => OutOfLoop(u)
        BY <2>1 DEF OutOfLoop
      <3>3. wpc[t] # "done" /\ wpc'[t] # "done"
        BY <1>5 DEF ArriveAtWayBarrier, PassWayBarrier, QueueEnds, TypeInv, TypeOK
      <3>4. QED
        BY <1>1, <2>1, <3>1, <3>2, <3>3 DEF LoadInv, QueueOver
    <2>4. BufferPhase'
      <3>1. CASE RelationPhase' = RelationPhase
        BY <1>0, <1>1, <3>1 DEF LoadInv, BufferPhase
      <3>2. CASE RelationPhase' # RelationPhase
        <4>1. /\ ~RelationPhase /\ RelationPhase'
              /\ \A u \in WayThreads : u \in arrived \/ wpc[u] = "finalized"
          BY <1>0, <1>5, <3>2 DEF RelationPhase, ArriveAtWayBarrier, PassWayBarrier, QueueEnds
        <4>2. \A u \in WayThreads : WayIds \cap WayIdsIn(buf[u]) = {}
          BY <4>1 DEF WayInv, ArrivedClean
        <4>3. ASSUME NEW u \in WayThreads, NEW table \in LateTables, NEW row \in buf[u][table]
              PROVE  FALSE
          <5>1. row \in Expected[table] /\ file[EntityOf(row)] \in WayKinds
            BY <1>0, <4>1 DEF LoadInv, BufferPhase, WayInv, RowsRight
          <5>2. table \in {"ways", "areas"} /\ row[1] > 0 /\ EntityOf(row) \in WayIds
            BY <1>0, <5>1, LateRows
          <5>3. row[1] \in WayIds /\ row \in buf[u]["ways"] \cup buf[u]["areas"]
            BY <5>2 DEF EntityOf
          <5>4. row[1] \in WayIdsIn(buf[u])
            BY <5>3 DEF WayIdsIn, Ids, RowId
          <5>5. QED
            BY <4>2, <5>3, <5>4
        <4>4. QED
          BY <1>0, <1>1, <4>3 DEF LoadInv, BufferPhase
      <3>3. QED
        BY <3>1, <3>2
    <2>5. QED
      BY <1>2, <1>3, <2>2, <2>3, <2>4 DEF LoadInv, OnceInv
  <1>6. QED
    BY <1>4, <1>5

LEMMA LoadInvStep ==
    TypeInv /\ NodeInv /\ WayInv /\ LoadInv /\ OnceInv /\ [Next]_vars => LoadInv' /\ OnceInv'
  <1> SUFFICES ASSUME TypeInv, NodeInv, WayInv, LoadInv, OnceInv, [Next]_vars
               PROVE  LoadInv' /\ OnceInv'
    OBVIOUS
  <1>1. CASE MainStep
    BY <1>1, LoadMain
  <1>2. CASE NodeStep
    BY <1>2, LoadNode
  <1>3. ASSUME NEW t \in WayThreads, WayStep(t) PROVE LoadInv' /\ OnceInv'
    BY <1>3, WayCases, LoadMoves, LoadWrites
  <1>4. CASE UNCHANGED vars
    <2>1. /\ Expected' = Expected /\ file' = file /\ mode' = mode
          /\ pos' = pos /\ mpc' = mpc /\ nq' = nq /\ npc' = npc /\ nbuf' = nbuf
          /\ mergeDone' = mergeDone /\ wq' = wq /\ wqStop' = wqStop /\ wpc' = wpc
          /\ hand' = hand /\ arrived' = arrived /\ buf' = buf /\ db' = db
      BY <1>4, FileConstant DEF vars, inputVars, mainVars, nodeQVars, nodeVars, mergeVars,
         wayQVars, wayVars
    <2>2. /\ RelationPhase' = RelationPhase
          /\ \A i : Waiting(i)' = Waiting(i)
          /\ \A t : OutOfLoop(t)' = OutOfLoop(t)
      BY <2>1 DEF RelationPhase, Waiting, OutOfLoop
    <2>3. RowsPlaced' /\ WaysKept' /\ NodeRowsPlaced' /\ NodesFlushed'
      BY <2>1, <2>2 DEF LoadInv, RowsPlaced, WaysKept, NodeRowsPlaced, NodesFlushed
    <2>4. QueueOver' /\ BufferPhase'
      BY <2>1, <2>2 DEF LoadInv, QueueOver, BufferPhase
    <2>5. OnceInv'
      BY <2>1, <2>2 DEF OnceInv, HandsDistinct, RowsHandled, RowsApart
    <2>6. QED
      BY <2>3, <2>4, <2>5 DEF LoadInv
  <1>5. QED
    BY <1>1, <1>2, <1>3, <1>4 DEF Next

------------------------------------------------------------------------------
(* The results. *)

(* When the merge is over the rows of all nodes are committed.             *)
LEMMA NodesStored ==
    ASSUME TypeInv, NodeInv, WayInv, LoadInv, \A n \in NodeThreads : npc[n] # "loop"
    PROVE  db["nodes"] = Expected["nodes"]
  <1>1. \A n \in NodeThreads : nbuf[n] = {} /\ nq[n] = <<>> /\ nqStop
    BY DEF LoadInv, NodesFlushed, NodeInv, NodesEnd
  <1>2. 0 \in NodeThreads
    BY SizeAssumption DEF NodeThreads
  <1>3. ASSUME NEW row \in Expected["nodes"] PROVE row \in db["nodes"]
    <2>1. \A n \in NodeThreads : ~InSeq(row[1], nq[n])
      BY <1>1, EmptyHasNone
    <2>2. row[1] \in NodeIds /\ row[1] \in Nat /\ pos \in Nat
      <3>1. PICK i \in OfKinds({"node"}) : row = <<i, {}>>
        BY ExpectedTables
      <3>2. i \in NodeIds /\ i \in Nat
        BY FileFacts DEF OfKinds, NodeIds, NodeKinds, TypeInv, TypeOK
      <3>3. QED
        BY <3>1, <3>2 DEF TypeInv, TypeOK
    <2>3. mode = "nodes" => ~(row[1] >= pos)
      BY <1>1, <1>2, <2>2 DEF NodeInv, NodesEnd
    <2>4. QED
      BY <1>1, <2>1, <2>3 DEF LoadInv, NodeRowsPlaced
  <1>4. db["nodes"] \subseteq Expected["nodes"]
    BY DEF WayInv, RowsRight, Tables
  <1>5. QED
    BY <1>3, <1>4

LEMMA LoadedIsComplete == TypeInv /\ NodeInv /\ WayInv /\ LoadInv => LoadComplete
  <1> SUFFICES ASSUME TypeInv, NodeInv, WayInv, LoadInv, mpc = "loaded"
               PROVE  db = Expected
    BY DEF LoadComplete
  <1>1. /\ \A t \in WayThreads : wpc[t] = "done" /\ hand[t] = 0
        /\ \A t \in WayThreads, table \in Tables : buf[t][table] = {}
    BY DEF LoadInv, QueueOver, TypeInv, HandInv
  <1>2. 0 \in WayThreads
    BY SizeAssumption DEF WayThreads
  <1>3. wq = <<>> /\ pos = Len(file) + 1
    BY <1>1, <1>2 DEF LoadInv, QueueOver, OutOfLoop, WayInv, WaysBehind
  <1>4. LateTables = Tables \ {"nodes"} /\ "nodes" \in Tables
    BY DEF LateTables, Tables
  <1>5. ASSUME NEW table \in LateTables PROVE db[table] = Expected[table]
    <2>1. ASSUME NEW row \in Expected[table] PROVE row \in db[table]
      <3>1. EntityOf(row) \in 1 .. Len(file)
        BY LateRows DEF TypeInv, TypeOK
      <3>2. Len(file) \in Nat
        BY FileFacts DEF TypeInv, TypeOK
      <3>3. ~Waiting(EntityOf(row))
        BY <1>1, <1>3, <3>1, <3>2, EmptyHasNone DEF Waiting
      <3>4. QED
        BY <1>1, <1>4, <3>3 DEF LoadInv, RowsPlaced
    <2>2. db[table] \subseteq Expected[table]
      BY <1>4 DEF WayInv, RowsRight
    <2>3. QED
      BY <2>1, <2>2
  <1>6. db["nodes"] = Expected["nodes"]
    <2>1. \A n \in NodeThreads : npc[n] # "loop"
      BY DEF LoadInv, NodesFlushed
    <2>2. QED
      BY <2>1, NodesStored
  <1>7. \A table \in Tables : db[table] = Expected[table]
    BY <1>4, <1>5, <1>6
  <1>8. \A tables \in [Tables -> SUBSET (Int \X SUBSET Entities)] :
            (\A table \in Tables : tables[table] = Expected[table]) => tables = Expected
    BY Zenon DEF Expected
  <1>9. QED
    BY <1>7, <1>8 DEF TypeInv, TypeOK, RowSets

LEMMA OnceEverywhere == TypeInv /\ WayInv /\ LoadInv /\ OnceInv => InsertedOnce
  <1> SUFFICES ASSUME TypeInv, WayInv, LoadInv, OnceInv,
                      NEW table \in Tables, NEW t \in WayThreads, NEW u \in WayThreads
               PROVE  /\ t # u => Ids(buf[t][table]) \cap Ids(buf[u][table]) = {}
                      /\ mode \in {"nodes", "merge"} => Ids(buf[t][table]) \cap Ids(db[table]) = {}
    BY DEF InsertedOnce
  <1>1. /\ t # u => buf[t][table] \cap buf[u][table] = {}
        /\ mode \in {"nodes", "merge"} => buf[t][table] \cap db[table] = {}
    <2>1. CASE table = "nodes"
      BY <2>1 DEF LoadInv, BufferPhase
    <2>2. CASE table \in LateTables
      BY <2>2 DEF OnceInv, RowsApart
    <2>3. QED
      BY <2>1, <2>2 DEF Tables, LateTables
  <1>2. /\ buf[t][table] \subseteq Expected[table] /\ buf[u][table] \subseteq Expected[table]
        /\ db[table] \subseteq Expected[table] /\ file \in Files
    BY DEF WayInv, RowsRight, TypeInv, TypeOK
  <1>3. QED
    BY <1>1, <1>2, DisjointIds

(* A run that ends has stored exactly what the file says: for any sorted   *)
(* file, any numbers of threads, any sizes of queues, buffers and blobs,   *)
(* from the beginning or resumed at any phase.                             *)
THEOREM LoadIsComplete == Spec => []LoadComplete
  BY LoadedIsComplete, TypeInit, TypeStep, NodeInvInit, NodeInvStep, WayInvInit, WayInvStep,
     LoadInvInit, LoadInvStep, PTL DEF Spec

(* No row is ever inserted twice, through whichever threads' buffers the   *)
(* entities of the file go.                                                *)
THEOREM RowsInsertedOnce == Spec => []InsertedOnce
  BY OnceEverywhere, TypeInit, TypeStep, NodeInvInit, NodeInvStep, WayInvInit, WayInvStep,
     LoadInvInit, LoadInvStep, PTL DEF Spec

(* The rest of the two offset files: while the node phase lasts, everything *)
(* read so far is a node.                                                  *)
NodesSoFar == nodePhase => \A i \in 1 .. pos - 1 : file[i] \in NodeKinds

(* The start of a blob is the start of its blob.                           *)
LEMMA BlobStartOfStart ==
    ASSUME NEW i \in Nat \ {0}
    PROVE  BlobStart(BlobStart(i)) = BlobStart(i)
  <1>1. BlobSize \in Nat \ {0} /\ i - 1 \in Nat
    BY SizeAssumption
  <1> DEFINE k == (i - 1) \div BlobSize
  <1>2. k \in Nat /\ BlobStart(i) = k * BlobSize + 1
    BY <1>1, Z3 DEF BlobStart
  <1> HIDE DEF k
  <1>3. (k * BlobSize) \div BlobSize = k
    BY <1>1, <1>2, Z3
  <1>4. k * BlobSize \in Nat
    BY <1>1, <1>2
  <1>5. BlobStart(k * BlobSize + 1) = ((k * BlobSize) \div BlobSize) * BlobSize + 1
    <2>1. (k * BlobSize + 1) - 1 = k * BlobSize
      BY <1>4
    <2>2. QED
      BY <2>1 DEF BlobStart
  <1>6. QED
    BY <1>2, <1>3, <1>5

LEMMA OffsetsInit == Init => OffsetsSafe /\ NodesSoFar
  <1> SUFFICES ASSUME Init PROVE OffsetsSafe /\ NodesSoFar
    OBVIOUS
  <1>0. /\ Entities = 1 .. Len(file) /\ Len(file) \in Nat
        /\ \A i \in Entities : file[i] \in Kinds
        /\ Kinds = NodeKinds \cup NotNodes
        /\ mode \in {"nodes", "merge", "ways", "relations"}
    BY FileFacts, ModeAssumption DEF Init, Kinds, NotNodes
  <1>1. ASSUME nodeOffset # 0
        PROVE  /\ nodeOffset = BlobStart(nodeOffset) /\ nodeOffset \in Nat
               /\ \A i \in 1 .. nodeOffset - 1 : file[i] \in NodeKinds
    <2>1. PICK f \in Firsts(NotNodes) : nodeOffset = BlobStart(f)
      BY <1>1 DEF Init, InitOffsets
    <2>2. /\ f \in 1 .. Len(file) /\ f \in Nat \ {0}
          /\ \A i \in 1 .. Len(file) : file[i] \in NotNodes => f <= i
      BY <1>0, <2>1 DEF Firsts, OfKinds
    <2>3. nodeOffset \in 1 .. f /\ nodeOffset = BlobStart(nodeOffset)
      BY <2>1, <2>2, BlobStartRange, BlobStartOfStart
    <2>4. \A i \in 1 .. nodeOffset - 1 : i \in 1 .. Len(file) /\ ~(f <= i)
      BY <1>0, <2>2, <2>3
    <2>5. QED
      BY <1>0, <2>2, <2>3, <2>4
  <1>2. ASSUME relOffset # 0
        PROVE  /\ relOffset = BlobStart(relOffset)
               /\ \A i \in 1 .. relOffset - 1 : file[i] \notin RelationKinds
    <2>1. PICK f \in Firsts(RelationKinds) : relOffset = BlobStart(f)
      BY <1>2 DEF Init, InitOffsets
    <2>2. /\ f \in 1 .. Len(file) /\ f \in Nat \ {0}
          /\ \A i \in 1 .. Len(file) : file[i] \in RelationKinds => f <= i
      BY <1>0, <2>1 DEF Firsts, OfKinds
    <2>3. relOffset \in 1 .. f /\ relOffset = BlobStart(relOffset)
      BY <2>1, <2>2, BlobStartRange, BlobStartOfStart
    <2>4. \A i \in 1 .. relOffset - 1 : i \in 1 .. Len(file) /\ ~(f <= i)
      BY <1>0, <2>2, <2>3
    <2>5. QED
      BY <2>2, <2>3, <2>4
  <1>3. NodesSoFar
    <2>1. nodePhase => pos = 1 \/ (nodeOffset # 0 /\ pos = nodeOffset)
      BY <1>0 DEF Init, StartPos
    <2>2. QED
      BY <1>1, <2>1 DEF NodesSoFar
  <1>4. QED
    BY <1>1, <1>2, <1>3 DEF OffsetsSafe

LEMMA OffsetsStep ==
    TypeInv /\ OffsetsSafe /\ NodesSoFar /\ [Next]_vars => OffsetsSafe' /\ NodesSoFar'
  <1> SUFFICES ASSUME TypeInv, OffsetsSafe, NodesSoFar, [Next]_vars
               PROVE  OffsetsSafe' /\ NodesSoFar'
    OBVIOUS
  <1>0. file' = file /\ pos \in Nat \ {0} /\ Len(file) \in Nat
    BY FileConstant, FileFacts DEF TypeInv, TypeOK
  <1>1. CASE UNCHANGED <<pos, nodePhase, nodeOffset, relOffset>>
    BY <1>0, <1>1 DEF OffsetsSafe, NodesSoFar
  <1>2. CASE HandOutNode \/ SkipNode
    <2>1. /\ nodePhase' = nodePhase /\ nodeOffset' = nodeOffset /\ relOffset' = relOffset
          /\ pos' = pos + 1 /\ nodePhase /\ file[pos] \in NodeKinds
      BY <1>2 DEF HandOutNode, SkipNode, Kind
    <2>2. \A i \in 1 .. pos' - 1 : i \in 1 .. pos - 1 \/ i = pos
      BY <1>0, <2>1
    <2>3. QED
      BY <1>0, <2>1, <2>2 DEF OffsetsSafe, NodesSoFar
  <1>3. CASE EndNodePhase
    <2>1. /\ nodePhase /\ ~nodePhase' /\ nodeOffset' = BlobStart(pos) /\ relOffset' = relOffset
      BY <1>3 DEF EndNodePhase
    <2>2. BlobStart(pos) \in 1 .. pos /\ BlobStart(BlobStart(pos)) = BlobStart(pos)
      BY <1>0, BlobStartRange, BlobStartOfStart
    <2>3. \A i \in 1 .. BlobStart(pos) - 1 : file[i] \in NodeKinds
      BY <1>0, <2>1, <2>2 DEF NodesSoFar
    <2>4. QED
      BY <1>0, <2>1, <2>2, <2>3 DEF OffsetsSafe, NodesSoFar
  <1>4. CASE DropWay \/ Feed
    <2>1. /\ ~nodePhase /\ ~nodePhase' /\ nodeOffset' = nodeOffset
          /\ \/ relOffset' = relOffset
             \/ /\ relOffset' = BlobStart(pos)
                /\ \A i \in 1 .. pos - 1 : file[i] \notin RelationKinds
      BY <1>4 DEF DropWay, Feed
    <2>2. BlobStart(pos) \in 1 .. pos /\ BlobStart(BlobStart(pos)) = BlobStart(pos)
      BY <1>0, BlobStartRange, BlobStartOfStart
    <2>3. QED
      BY <1>0, <2>1, <2>2 DEF OffsetsSafe, NodesSoFar
  <1>5. QED
    BY <1>1, <1>2, <1>3, <1>4 DEF Next, vars, mainVars, MainStep, NodeStep, WayStep, MergeSeen,
       EndOfFile, JoinNodes, JoinWays, StoreNode, EndNodes, MergeShard, MergeEnd, WayPop,
       FinishEntity, IgnoreNode, ProcessWay, FinalizeWays, ArriveAtWayBarrier, PassWayBarrier,
       ProcessRelation, QueueEnds, EndWayThread

(* The offset files never point past an entity that a resumed run needs,   *)
(* and always at the start of a blob, for any file and blob size.          *)
THEOREM OffsetsAreSafe == Spec => []OffsetsSafe
  BY OffsetsInit, OffsetsStep, TypeInit, TypeStep, PTL DEF Spec

------------------------------------------------------------------------------
(* The import follows the phased load of module PhasedLoad: the mapping    *)
(* takes the committed rows and the nodes the store can look up.           *)

LEMMA LoadInit == Init => Load!Init
  <1> SUFFICES ASSUME Init PROVE Load!Init
    OBVIOUS
  <1>1. \A table \in Tables : db[table] \subseteq Expected[table]
    BY WayInvInit DEF WayInv, RowsRight
  <1>2. merged \subseteq NodeIds
    BY NodeInvInit DEF NodeInv, NodesOnly
  <1>3. QED
    BY <1>1, <1>2 DEF Load!Init

LEMMA MergedNodes ==
    ASSUME TypeInv, NodeInv, WayInv, LoadInv, mergeDone
    PROVE  Load!NodesLoaded
  <1>1. merged = NodeIds
    BY DEF NodeInv, NodesOnly, MergeOrder
  <1>2. db["nodes"] = Expected["nodes"]
    BY NodesStored DEF LoadInv, NodesFlushed
  <1>3. QED
    BY <1>1, <1>2 DEF Load!NodesLoaded

LEMMA CommittedWays ==
    ASSUME TypeInv, NodeInv, WayInv, LoadInv, RelationPhase
    PROVE  Load!WaysLoaded
  <1>0. file \in Files /\ 0 \in WayThreads
    BY SizeAssumption DEF WayThreads, TypeInv, TypeOK
  <1>1. ASSUME NEW table \in {"ways", "areas"}, NEW row \in Expected[table], row[1] > 0
        PROVE  row \in db[table]
    <2>1. table \in LateTables /\ EntityOf(row) = row[1]
      BY <1>1 DEF LateTables, EntityOf
    <2>2. EntityOf(row) \in OfKinds(WayKinds \cup RelationKinds)
      BY <1>0, <2>1, LateRows
    <2>3. file[EntityOf(row)] \in WayKinds
      <3>1. file[EntityOf(row)] \in WayKinds \/ file[EntityOf(row)] \in RelationKinds
        BY <2>2 DEF OfKinds
      <3>2. file[EntityOf(row)] \in RelationKinds => table # "ways" /\ (table = "areas" => ~(row[1] > 0))
        BY <1>0, <2>1, LateRows
      <3>3. QED
        BY <1>1, <3>1, <3>2
    <2>4. CASE mode = "relations"
      BY <2>1, <2>3, <2>4 DEF LoadInv, WaysKept
    <2>5. CASE arrived = WayThreads
      <3>1. EntityOf(row) \in WayIds /\ EntityOf(row) \in OfKinds(WayKinds)
        BY <1>0, <2>1, <2>2, <2>3, LateRows DEF OfKinds
      <3>2. EntityOf(row) < pos /\ ~InSeq(EntityOf(row), wq)
        BY <1>0, <2>5, <3>1 DEF WayInv, WaysBehind, PastWays, WaysOver
      <3>3. \A t \in WayThreads : hand[t] # EntityOf(row)
        BY <2>5, <3>1 DEF WayInv, ArrivedClean
      <3>4. \A t \in WayThreads : row \notin buf[t][table]
        BY <2>1, <2>3, <2>5 DEF LoadInv, BufferPhase, RelationPhase
      <3>5. EntityOf(row) \in Nat /\ pos \in Nat
        BY <1>0, <3>1, FileFacts DEF OfKinds, TypeInv, TypeOK
      <3>6. QED
        BY <2>1, <3>2, <3>3, <3>4, <3>5 DEF LoadInv, RowsPlaced, Waiting
    <2>6. QED
      BY <2>4, <2>5 DEF RelationPhase
  <1>2. \A table \in {"ways", "areas"} : db[table] \subseteq Expected[table]
    BY DEF WayInv, RowsRight, Tables
  <1>3. QED
    BY <1>1, <1>2 DEF Load!WaysLoaded, Load!WayTables, Load!WayRowsOf

(* The steps of main() are invisible there. *)
LEMMA LoadMainStutters ==
    ASSUME [Next]_vars, MainStep
    PROVE  UNCHANGED Load!loadVars
  BY FileConstant DEF MainStep, HandOutNode, SkipNode, EndNodePhase, MergeSeen, DropWay, Feed,
     EndOfFile, JoinNodes, JoinWays, mergeVars, Load!loadVars

(* Those of the node threads load nodes. *)
LEMMA NodeStepLoads ==
    ASSUME TypeInv, NodeInv', WayInv', [Next]_vars, NodeStep
    PROVE  Load!LoadNodes
  <1>0. /\ Expected' = Expected /\ NodeIds' = NodeIds
        /\ db \in [Tables -> SUBSET (Int \X SUBSET Entities)] /\ "nodes" \in Tables
    BY FileConstant DEF TypeInv, TypeOK, RowSets, Tables
  <1>1. merged \subseteq merged' /\ merged' \subseteq NodeIds
    <2>1. merged \subseteq merged'
      BY DEF NodeStep, StoreNode, EndNodes, MergeShard, MergeEnd, mergeVars
    <2>2. QED
      BY <1>0, <2>1 DEF NodeInv, NodesOnly
  <1>2. \A table \in Tables : db'[table] \subseteq Expected[table]
    BY <1>0 DEF WayInv, RowsRight
  <1>3. \A table \in Tables : db[table] \subseteq db'[table]
    <2>1. \A A, B : A \subseteq Copied(A, B)
      BY DEF Copied
    <2>2. db' = db \/ \E rows : db' = [db EXCEPT !["nodes"] = Copied(@, rows)]
      BY DEF NodeStep, StoreNode, EndNodes, MergeShard, MergeEnd
    <2>3. QED
      BY <1>0, <2>1, <2>2
  <1>4. \A table \in Tables \ {"nodes"} : db'[table] = db[table]
    BY <1>0 DEF NodeStep, StoreNode, EndNodes, MergeShard, MergeEnd
  <1>5. QED
    BY <1>1, <1>2, <1>3, <1>4 DEF Load!LoadNodes, Load!Grows, Load!OnlyGrow

(* A flush of a way thread's buffers loads ways or relations.              *)
LEMMA WritesLoad ==
    ASSUME TypeInv, NodeInv, WayInv, LoadInv, [Next]_vars,
           NEW t \in WayThreads, NEW new, NEW always, Writes(t, new, always)
    PROVE  Load!LoadWays \/ Load!LoadRelations \/ UNCHANGED Load!loadVars
  <1>0. /\ Expected' = Expected /\ NodeIds' = NodeIds /\ merged' = merged /\ file \in Files
        /\ "nodes" \in Tables /\ LateTables = Tables \ {"nodes"}
        /\ db \in [Tables -> SUBSET (Int \X SUBSET Entities)]
    BY FileConstant DEF Writes, mergeVars, TypeInv, TypeOK, RowSets, Tables, LateTables
  <1>1. /\ new \in RowSets /\ new["nodes"] = {}
        /\ \A table \in LateTables : \A row \in new[table] :
              /\ row \in Expected[table]
              /\ mergeDone /\ (file[EntityOf(row)] \in WayKinds <=> ~RelationPhase)
    <2>1. CASE Made(t, new)
      BY <2>1 DEF Writes, Made, RowsOf
    <2>2. CASE new = NoRows
      <3>1. \A table \in Tables : new[table] = {}
        BY <2>2 DEF NoRows
      <3>2. QED
        BY <1>0, <3>1 DEF Writes
    <2>3. QED
      BY <2>1, <2>2 DEF Writes
  <1>2. \A table \in Tables : new[table] \subseteq Expected[table]
    BY <1>0, <1>1
  <1>3. \A table \in Tables :
           \/ db'[table] = db[table]
           \/ db'[table] = db[table] \cup (buf[t][table] \cup new[table])
    BY <1>1, <1>2, FlushCases DEF Writes, WayInv
  <1>4. \A table \in Tables : db[table] \subseteq db'[table] /\ db'[table] \subseteq Expected[table]
    BY <1>2, <1>3 DEF WayInv, RowsRight
  <1>5. ASSUME NEW table \in Tables, NEW row \in db'[table] \ db[table]
        PROVE  /\ table \in LateTables /\ row \in Expected[table] /\ mergeDone
               /\ file[EntityOf(row)] \in WayKinds <=> ~RelationPhase
    <2>1. row \in buf[t][table] \/ row \in new[table]
      BY <1>3, <1>5
    <2>2. table # "nodes"
      BY <1>1, <2>1 DEF LoadInv, BufferPhase
    <2>3. QED
      BY <1>0, <1>1, <1>4, <1>5, <2>1, <2>2 DEF LoadInv, BufferPhase
  <1>6. ASSUME NEW table \in Tables, NEW row \in db'[table] \ db[table]
        PROVE  /\ RelationPhase => table \in {"areas", "relations", "roads"}
               /\ ~RelationPhase => table \in {"ways", "areas"} /\ row[1] > 0
    <2>1. /\ table \in LateTables /\ row \in Expected[table]
          /\ file[EntityOf(row)] \in WayKinds <=> ~RelationPhase
      BY <1>5, <1>6
    <2>2. file[EntityOf(row)] \in WayKinds \/ file[EntityOf(row)] \in RelationKinds
      BY <1>0, <2>1, LateRows DEF OfKinds
    <2>3. QED
      BY <1>0, <2>1, <2>2, LateRows DEF LateTables
  <1>7. Load!Grows
    BY <1>4 DEF Load!Grows
  <1>8. CASE \A table \in Tables : db'[table] = db[table]
    <2>1. db' \in [Tables -> SUBSET (Int \X SUBSET Entities)] /\ DOMAIN db' = Tables
      BY <1>0, <1>8 DEF Writes, InsertAndFlush
    <2>2. db' = db
      BY <1>0, <1>8, <2>1
    <2>3. QED
      BY <1>0, <2>2 DEF Load!loadVars
  <1>9. CASE ~(\A table \in Tables : db'[table] = db[table])
    <2>1. PICK table \in Tables : db'[table] \ db[table] # {}
      BY <1>4, <1>9
    <2>2. mergeDone
      BY <1>5, <2>1
    <2>3. Load!NodesLoaded
      BY <2>2, MergedNodes
    <2>4. CASE RelationPhase
      <3>1. Load!WaysLoaded
        BY <2>4, CommittedWays
      <3>2. Load!OnlyGrow({"areas", "relations", "roads"})
        BY <1>4, <1>6, <2>4 DEF Load!OnlyGrow
      <3>3. QED
        BY <1>0, <1>7, <2>3, <3>1, <3>2 DEF Load!LoadRelations
    <2>5. CASE ~RelationPhase
      <3>1. Load!OnlyGrow({"ways", "areas"})
        BY <1>4, <1>6, <2>5 DEF Load!OnlyGrow
      <3>2. \A late \in {"ways", "areas"} : \A row \in db'[late] \ db[late] : row[1] > 0
        BY <1>6, <2>5 DEF Tables
      <3>3. QED
        BY <1>0, <1>7, <2>3, <3>1, <3>2 DEF Load!LoadWays, Load!WayTables
    <2>6. QED
      BY <2>4, <2>5
  <1>10. QED
    BY <1>8, <1>9

LEMMA LoadStep ==
    TypeInv /\ NodeInv /\ WayInv /\ LoadInv /\ NodeInv' /\ WayInv' /\ [Next]_vars
        => [Load!Next]_(Load!loadVars)
  <1> SUFFICES ASSUME TypeInv, NodeInv, WayInv, LoadInv, NodeInv', WayInv', [Next]_vars
               PROVE  [Load!Next]_(Load!loadVars)
    OBVIOUS
  <1>0. Expected' = Expected /\ NodeIds' = NodeIds
    BY FileConstant
  <1>1. CASE UNCHANGED vars
    BY <1>0, <1>1 DEF vars, mergeVars, Load!loadVars
  <1>2. CASE MainStep
    BY <1>2, LoadMainStutters
  <1>3. CASE NodeStep
    BY <1>0, <1>3, NodeStepLoads DEF Load!Next
  <1>4. ASSUME NEW t \in WayThreads, WayStep(t) PROVE [Load!Next]_(Load!loadVars)
    <2>1. CASE WayPop(t) \/ ArriveAtWayBarrier(t) \/ PassWayBarrier(t) \/ QueueEnds(t)
      BY <1>0, <2>1 DEF WayPop, ArriveAtWayBarrier, PassWayBarrier, QueueEnds, mergeVars,
         Load!loadVars
    <2>2. ASSUME NEW new, NEW always, Writes(t, new, always)
          PROVE  [Load!Next]_(Load!loadVars)
      BY <1>0, <2>2, WritesLoad DEF Load!Next
    <2>3. QED
      BY <1>4, <2>1, <2>2, WayCases
  <1>5. QED
    BY <1>1, <1>2, <1>3, <1>4 DEF Next

(* Every step of an import is a step of a load in phases that do not       *)
(* overlap: nodes are merged and committed before the first row of a way,  *)
(* ways before the first row of a relation, and no row is taken back, for  *)
(* any file, numbers of threads and sizes.                                 *)
THEOREM LoadInPhases == Spec => Load!Safety
  <1>1. Spec => [](TypeInv /\ NodeInv /\ WayInv /\ LoadInv /\ OnceInv)
    BY TypeInit, TypeStep, NodeInvInit, NodeInvStep, WayInvInit, WayInvStep, LoadInvInit,
       LoadInvStep, PTL DEF Spec
  <1>2. QED
    BY <1>1, LoadInit, LoadStep, PTL DEF Spec, Load!Safety

------------------------------------------------------------------------------
(* An import gets on: nobody waits for ever on a queue, a barrier, the      *)
(* merge or another thread, and every step uses up something to do.         *)

(* The shutdowns come in the order of main(). *)
StopsInOrder ==
    /\ ~nodePhase => nqStop
    /\ mpc \in {"joinNodes", "joinWays", "loaded"} => nqStop
    /\ mpc \in {"joinWays", "loaded"} => wqStop

(* Node threads leave their barrier together, after the merge. *)
NodesTogether ==
    \A n \in NodeThreads : npc[n] = "done" =>
        /\ mergeDone
        /\ \A m \in NodeThreads : npc[m] = "done"

(* Way threads leave theirs when all have arrived, -R relations has none. *)
WaysTogether ==
    \A t \in WayThreads :
        /\ wpc[t] = "barrier" => t \in arrived
        /\ mode = "relations" => wayPhaseDone[t] /\ wpc[t] \notin {"cleanup", "finalized", "barrier"}
        /\ mode # "relations" /\ wpc[t] \in {"ending", "done"} => arrived = WayThreads

(* A node is in one place of one node queue, where it was put when read. *)
NodesQueuedOnce ==
    /\ \A n \in NodeThreads : \A x : InSeq(x, nq[n]) => x < pos
    /\ \A n, m \in NodeThreads : \A x : InSeq(x, nq[n]) /\ InSeq(x, nq[m]) => n = m
    /\ \A n \in NodeThreads : \A k, l \in 1 .. Len(nq[n]) : k < l => nq[n][k] < nq[n][l]

OrderInv == StopsInOrder /\ NodesTogether /\ WaysTogether /\ NodesQueuedOnce

LEMMA OrderInit == Init => OrderInv
  <1> SUFFICES ASSUME Init PROVE OrderInv
    OBVIOUS
  <1>1. StopsInOrder
    BY DEF Init, StopsInOrder
  <1>2. NodesTogether
    BY DEF Init, NodesTogether
  <1>3. WaysTogether
    BY DEF Init, WaysTogether
  <1>4. NodesQueuedOnce
    <2>1. \A n \in NodeThreads : nq[n] = <<>> /\ Len(nq[n]) = 0
      BY DEF Init
    <2>2. QED
      BY <2>1, EmptyHasNone DEF NodesQueuedOnce
  <1>5. QED
    BY <1>1, <1>2, <1>3, <1>4 DEF OrderInv

(* The ends of a queue that is in order *)
LEMMA OrderAppend ==
    ASSUME NEW s \in Seq(Int), NEW x \in Int, \A y : InSeq(y, s) => y < x,
           \A k, l \in 1 .. Len(s) : k < l => s[k] < s[l]
    PROVE  \A k, l \in 1 .. Len(Append(s, x)) : k < l => Append(s, x)[k] < Append(s, x)[l]
  <1>1. PICK r : r = Append(s, x)
    OBVIOUS
  <1>2. /\ Len(s) \in Nat /\ Len(r) = Len(s) + 1 /\ r[Len(s) + 1] = x
        /\ \A k \in 1 .. Len(s) : r[k] = s[k]
    BY <1>1
  <1>3. ASSUME NEW k \in 1 .. Len(r), NEW l \in 1 .. Len(r), k < l PROVE r[k] < r[l]
    <2>1. k \in 1 .. Len(s)
      BY <1>2, <1>3
    <2>2. CASE l = Len(s) + 1
      BY <1>2, <2>1, <2>2 DEF InSeq
    <2>3. CASE l # Len(s) + 1
      BY <1>2, <1>3, <2>1, <2>3
    <2>4. QED
      BY <2>2, <2>3
  <1>4. QED
    BY <1>1, <1>3

LEMMA OrderTail ==
    ASSUME NEW s \in Seq(Int), s # <<>>,
           \A k, l \in 1 .. Len(s) : k < l => s[k] < s[l]
    PROVE  /\ \A k, l \in 1 .. Len(Tail(s)) : k < l => Tail(s)[k] < Tail(s)[l]
           /\ ~InSeq(Head(s), Tail(s))
  <1>1. PICK r : r = Tail(s)
    OBVIOUS
  <1>2. /\ Len(s) \in Nat \ {0} /\ Len(r) = Len(s) - 1 /\ Head(s) = s[1]
        /\ \A k \in 1 .. Len(s) - 1 : r[k] = s[k + 1]
        /\ \A k \in 1 .. Len(s) : s[k] \in Int
    BY <1>1
  <1>3. \A k \in 1 .. Len(r) : k + 1 \in 1 .. Len(s) /\ r[k] = s[k + 1] /\ k + 1 > 1
    BY <1>2
  <1>4. \A k, l \in 1 .. Len(r) : k < l => r[k] < r[l]
    BY <1>3
  <1>5. \A k \in 1 .. Len(r) : r[k] # Head(s)
    <2> TAKE k \in 1 .. Len(r)
    <2>1. s[1] < s[k + 1] /\ 1 \in 1 .. Len(s)
      BY <1>2, <1>3
    <2>2. QED
      BY <1>2, <1>3, <2>1
  <1>6. QED
    BY <1>1, <1>4, <1>5 DEF InSeq

LEMMA OrderMain == TypeInv /\ NodeInv /\ OrderInv /\ MainStep /\ [Next]_vars => OrderInv'
  <1> SUFFICES ASSUME TypeInv, NodeInv, OrderInv, MainStep, [Next]_vars PROVE OrderInv'
    OBVIOUS
  <1>0. mode' = mode /\ pos \in Int /\ npc' = npc /\ mergeDone' = mergeDone
        /\ wpc' = wpc /\ arrived' = arrived /\ wayPhaseDone' = wayPhaseDone
    BY FileConstant DEF TypeInv, TypeOK, MainStep, HandOutNode, SkipNode, EndNodePhase,
       MergeSeen, DropWay, Feed, EndOfFile, JoinNodes, JoinWays, nodeVars, mergeVars, wayVars
  <1>1. NodesTogether' /\ WaysTogether'
    BY <1>0 DEF OrderInv, NodesTogether, WaysTogether
  <1>2. StopsInOrder'
    BY DEF OrderInv, StopsInOrder, NodeInv, NodesEnd, MainStep, HandOutNode, SkipNode,
       EndNodePhase, MergeSeen, DropWay, Feed, EndOfFile, JoinNodes, JoinWays, More,
       nodeQVars, wayQVars
  <1>3. NodesQueuedOnce'
    <2>1. CASE HandOutNode
      <3>0. rr % NumNodeThreads \in NodeThreads
        BY SizeAssumption DEF TypeInv, TypeOK, NodeThreads
      <3>1. PICK n \in NodeThreads : n = rr % NumNodeThreads
        BY <3>0
      <3>2. /\ nq[n] \in Seq(Int) /\ nq[n] \in Seq(Entities) /\ pos \in Entities
            /\ pos' = pos + 1
            /\ nq'[n] = Append(nq[n], pos)
            /\ \A m \in NodeThreads \ {n} : nq'[m] = nq[m]
        <4>1. Entities = 1 .. Len(file) /\ Len(file) \in Nat
          BY FileFacts DEF TypeInv, TypeOK
        <4>2. nq[n] \in Seq(Entities)
          BY DEF TypeInv, TypeOK
        <4>3. QED
          BY <2>1, <3>1, <4>1, <4>2 DEF HandOutNode, More, TypeInv, TypeOK
      <3>3. \A x : InSeq(x, nq'[n]) <=> InSeq(x, nq[n]) \/ x = pos
        BY <3>2, InAppend
      <3>4. \A m \in NodeThreads : \A x : InSeq(x, nq[m]) => x < pos /\ x # pos
        BY <1>0 DEF OrderInv, NodesQueuedOnce
      <3>5. \A m \in NodeThreads : \A x : InSeq(x, nq'[m]) => x < pos'
        <4> SUFFICES ASSUME NEW m \in NodeThreads, NEW x, InSeq(x, nq'[m]) PROVE x < pos + 1
          BY <3>2
        <4>1. InSeq(x, nq[m]) \/ x = pos
          BY <3>2, <3>3
        <4>2. CASE x = pos
          BY <1>0, <4>2
        <4>3. CASE InSeq(x, nq[m])
          <5>1. PICK k \in 1 .. Len(nq[m]) : nq[m][k] = x
            BY <4>3 DEF InSeq
          <5>2. x \in Entities /\ Entities \subseteq Int
            BY <5>1, FileFacts DEF TypeInv, TypeOK
          <5>3. QED
            BY <1>0, <3>4, <4>3, <5>2
        <4>4. QED
          BY <4>1, <4>2, <4>3
      <3>6. \A k, l \in NodeThreads : \A x : InSeq(x, nq'[k]) /\ InSeq(x, nq'[l]) => k = l
        BY <3>2, <3>3, <3>4 DEF OrderInv, NodesQueuedOnce
      <3>7. \A k, l \in 1 .. Len(nq'[n]) : k < l => nq'[n][k] < nq'[n][l]
        BY <1>0, <3>2, <3>4, OrderAppend DEF OrderInv, NodesQueuedOnce
      <3>8. \A m \in NodeThreads : \A k, l \in 1 .. Len(nq'[m]) : k < l => nq'[m][k] < nq'[m][l]
        BY <3>2, <3>7 DEF OrderInv, NodesQueuedOnce
      <3>9. QED
        BY <3>5, <3>6, <3>8 DEF NodesQueuedOnce
    <2>2. CASE ~HandOutNode
      <3>1. nq' = nq /\ (pos' = pos \/ pos' = pos + 1)
        BY <2>2 DEF MainStep, SkipNode, EndNodePhase, MergeSeen, DropWay, Feed, EndOfFile,
           JoinNodes, JoinWays, nodeQVars
      <3>2. \A n \in NodeThreads : \A x : InSeq(x, nq[n]) => x < pos'
        <4> SUFFICES ASSUME NEW n \in NodeThreads, NEW x, InSeq(x, nq[n]) PROVE x < pos'
          OBVIOUS
        <4>1. PICK k \in 1 .. Len(nq[n]) : nq[n][k] = x
          BY DEF InSeq
        <4>2. x \in Entities /\ Entities \subseteq Int
          BY <4>1, FileFacts DEF TypeInv, TypeOK
        <4>3. x < pos
          BY DEF OrderInv, NodesQueuedOnce
        <4>4. QED
          BY <1>0, <3>1, <4>2, <4>3
      <3>3. QED
        BY <3>1, <3>2 DEF OrderInv, NodesQueuedOnce
    <2>3. QED
      BY <2>1, <2>2
  <1>4. QED
    BY <1>1, <1>2, <1>3 DEF OrderInv

LEMMA OrderNode == TypeInv /\ OrderInv /\ NodeStep => OrderInv'
  <1> SUFFICES ASSUME TypeInv, OrderInv, NodeStep PROVE OrderInv'
    OBVIOUS
  <1>0. /\ mode' = mode /\ pos' = pos /\ mpc' = mpc /\ nodePhase' = nodePhase
        /\ nqStop' = nqStop /\ wqStop' = wqStop
        /\ wpc' = wpc /\ arrived' = arrived /\ wayPhaseDone' = wayPhaseDone
    BY DEF NodeStep, StoreNode, EndNodes, MergeShard, MergeEnd, inputVars, mainVars,
       nodeQVars, wayQVars, wayVars
  <1>1. StopsInOrder' /\ WaysTogether'
    BY <1>0 DEF OrderInv, StopsInOrder, WaysTogether
  <1>2. NodesTogether'
    <2>1. ASSUME NEW n \in NodeThreads, StoreNode(n) PROVE NodesTogether'
      BY <2>1 DEF StoreNode, mergeVars, OrderInv, NodesTogether
    <2>2. ASSUME NEW n \in NodeThreads, EndNodes(n) PROVE NodesTogether'
      <3>1. /\ mergeDone' = mergeDone /\ npc[n] = "loop" /\ npc'[n] = "barrier"
            /\ \A m \in NodeThreads \ {n} : npc'[m] = npc[m]
        BY <2>2 DEF EndNodes, mergeVars, TypeInv, TypeOK
      <3>2. \A m \in NodeThreads : npc'[m] # "done"
        BY <3>1 DEF OrderInv, NodesTogether
      <3>3. QED
        BY <3>2 DEF NodesTogether
    <2>3. CASE MergeShard
      BY <2>3 DEF MergeShard, OrderInv, NodesTogether
    <2>4. CASE MergeEnd
      BY <2>4 DEF MergeEnd, NodesTogether
    <2>5. QED
      BY <2>1, <2>2, <2>3, <2>4 DEF NodeStep
  <1>3. NodesQueuedOnce'
    <2>1. ASSUME NEW n \in NodeThreads, StoreNode(n) PROVE NodesQueuedOnce'
      <3>1. /\ nq[n] \in Seq(Entities) /\ nq[n] # <<>>
            /\ nq'[n] = Tail(nq[n]) /\ \A m \in NodeThreads \ {n} : nq'[m] = nq[m]
        BY <2>1 DEF StoreNode, TypeInv, TypeOK
      <3>2. nq[n] \in Seq(Int)
        <4>1. Entities = 1 .. Len(file) /\ Len(file) \in Nat
          BY FileFacts DEF TypeInv, TypeOK
        <4>2. QED
          BY <3>1, <4>1
      <3>3. \A x : InSeq(x, nq'[n]) => InSeq(x, nq[n])
        BY <3>1, InTail
      <3>4. \A k, l \in 1 .. Len(nq'[n]) : k < l => nq'[n][k] < nq'[n][l]
        BY <3>1, <3>2, OrderTail DEF OrderInv, NodesQueuedOnce
      <3>5. \A m \in NodeThreads : \A x : InSeq(x, nq'[m]) => InSeq(x, nq[m])
        BY <3>1, <3>3
      <3>6. QED
        BY <1>0, <3>1, <3>4, <3>5 DEF OrderInv, NodesQueuedOnce
    <2>2. CASE nq' = nq
      BY <1>0, <2>2 DEF OrderInv, NodesQueuedOnce
    <2>3. QED
      BY <2>1, <2>2 DEF NodeStep, EndNodes, MergeShard, MergeEnd, nodeQVars
  <1>4. QED
    BY <1>1, <1>2, <1>3 DEF OrderInv

LEMMA OrderWay ==
    ASSUME TypeInv, WayInv, OrderInv, NEW t \in WayThreads, WayStep(t)
    PROVE  OrderInv'
  <1>0. /\ mode' = mode /\ pos' = pos /\ mpc' = mpc /\ nodePhase' = nodePhase /\ nq' = nq
        /\ nqStop' = nqStop /\ wqStop' = wqStop /\ npc' = npc /\ mergeDone' = mergeDone
    BY DEF WayStep, WayPop, IgnoreNode, ProcessWay, ProcessRelation, FinishEntity, FinalizeWays,
       ArriveAtWayBarrier, PassWayBarrier, QueueEnds, EndWayThread, inputVars, mainVars,
       nodeQVars, nodeVars, mergeVars, wayQVars
  <1>1. StopsInOrder' /\ NodesTogether' /\ NodesQueuedOnce'
    BY <1>0 DEF OrderInv, StopsInOrder, NodesTogether, NodesQueuedOnce
  <1>2. /\ \A u \in WayThreads \ {t} : wpc'[u] = wpc[u] /\ wayPhaseDone'[u] = wayPhaseDone[u]
        /\ arrived \subseteq arrived' /\ arrived' \subseteq WayThreads
    BY DEF WayStep, WayPop, IgnoreNode, ProcessWay, ProcessRelation, FinishEntity, FinalizeWays,
       ArriveAtWayBarrier, PassWayBarrier, QueueEnds, EndWayThread, TypeInv, TypeOK
  <1>3. /\ wpc'[t] = "barrier" => t \in arrived'
        /\ mode = "relations" => wayPhaseDone'[t] /\ wpc'[t] \notin {"cleanup", "finalized", "barrier"}
        /\ mode # "relations" /\ wpc'[t] \in {"ending", "done"} => arrived = WayThreads
    <2>0. /\ wpc[t] = "barrier" => t \in arrived
          /\ mode = "relations" => wayPhaseDone[t] /\ wpc[t] \notin {"cleanup", "finalized", "barrier"}
          /\ mode # "relations" /\ wpc[t] \in {"ending", "done"} => arrived = WayThreads
      BY DEF OrderInv, WaysTogether
    <2>1. CASE WayPop(t) \/ IgnoreNode(t) \/ ProcessWay(t) \/ ProcessRelation(t)
      <3>1. wpc'[t] \in {"popping", "working"} /\ wayPhaseDone' = wayPhaseDone
        BY <2>1 DEF WayPop, IgnoreNode, ProcessWay, ProcessRelation, FinishEntity, TypeInv, TypeOK
      <3>2. QED
        BY <2>0, <3>1
    <2>2. CASE FinalizeWays(t)
      <3>1. wpc'[t] = "finalized" /\ mode # "relations"
        BY <2>0, <2>2 DEF FinalizeWays, TypeInv, TypeOK
      <3>2. QED
        BY <3>1
    <2>3. CASE ArriveAtWayBarrier(t)
      <3>1. wpc'[t] = "barrier" /\ mode # "relations" /\ t \in arrived'
        BY <2>0, <2>3 DEF ArriveAtWayBarrier, TypeInv, TypeOK
      <3>2. QED
        BY <3>1
    <2>4. CASE PassWayBarrier(t)
      <3>1. wpc'[t] \in {"working", "ending"} /\ mode # "relations" /\ arrived = WayThreads
        BY <2>0, <2>4 DEF PassWayBarrier, TypeInv, TypeOK
      <3>2. QED
        BY <3>1
    <2>5. CASE QueueEnds(t)
      <3>1. /\ wpc'[t] = IF wayPhaseDone[t] THEN "ending" ELSE "cleanup"
            /\ wayPhaseDone' = wayPhaseDone
        BY <2>5 DEF QueueEnds, TypeInv, TypeOK
      <3>2. wayPhaseDone[t] => mode = "relations" \/ arrived = WayThreads
        BY DEF WayInv, BarrierInv
      <3>3. QED
        BY <2>0, <3>1, <3>2
    <2>6. CASE EndWayThread(t)
      <3>1. wpc'[t] = "done" /\ wpc[t] = "ending" /\ wayPhaseDone' = wayPhaseDone
        BY <2>6 DEF EndWayThread, TypeInv, TypeOK
      <3>2. QED
        BY <2>0, <3>1
    <2>7. QED
      BY <2>1, <2>2, <2>3, <2>4, <2>5, <2>6 DEF WayStep
  <1>4. WaysTogether'
    BY <1>0, <1>2, <1>3 DEF OrderInv, WaysTogether
  <1>5. QED
    BY <1>1, <1>4 DEF OrderInv

LEMMA OrderStep == TypeInv /\ NodeInv /\ WayInv /\ OrderInv /\ [Next]_vars => OrderInv'
  <1> SUFFICES ASSUME TypeInv, NodeInv, WayInv, OrderInv, [Next]_vars PROVE OrderInv'
    OBVIOUS
  <1>1. CASE UNCHANGED vars
    BY <1>1 DEF vars, inputVars, mainVars, nodeQVars, nodeVars, mergeVars, wayQVars, wayVars,
       OrderInv, StopsInOrder, NodesTogether, WaysTogether, NodesQueuedOnce
  <1>2. QED
    BY <1>1, OrderMain, OrderNode, OrderWay DEF Next

(* Who can go on: main() with an entity, the merge or a join, a node thread *)
(* with its queue, the last of them with the merge, a way thread with       *)
(* way_q, an entity, its buffers or the barrier.                            *)
MainCanGoOn ==
    \/ /\ More /\ nodePhase /\ Kind \in NodeKinds
       /\ mode = "merge" \/ Len(nq[rr % NumNodeThreads]) < QueueSize
    \/ More /\ nodePhase /\ Kind \notin NodeKinds
    \/ /\ More /\ ~nodePhase
       /\ (mode = "relations" /\ Kind \in WayKinds) \/ Len(wq) < QueueSize
    \/ mpc = "reading" /\ pos > Len(file)
    \/ mpc = "spinning" /\ mergeDone
    \/ mpc = "joinNodes" /\ \A n \in NodeThreads : npc[n] = "done"
    \/ mpc = "joinWays" /\ \A t \in WayThreads : wpc[t] = "done"
NodeCanGoOn(n) == npc[n] = "loop" /\ (nq[n] # <<>> \/ nqStop)
WayCanGoOn(t) ==
    \/ wpc[t] = "popping" /\ (wq # <<>> \/ wqStop)
    \/ wpc[t] \in {"working", "cleanup", "finalized", "ending"}
    \/ wpc[t] = "barrier" /\ arrived = WayThreads
CanGoOn == \/ MainCanGoOn
           \/ \E n \in NodeThreads : NodeCanGoOn(n)
           \/ AllAtNodeBarrier
           \/ \E t \in WayThreads : WayCanGoOn(t)

(* The node threads are at work as long as main() needs them. *)
LEMMA NodesOver ==
    ASSUME TypeInv, NodeInv, OrderInv, mpc # "loaded", ~CanGoOn
    PROVE  /\ \A n \in NodeThreads : npc[n] = "done"
           /\ mergeDone /\ nqStop
  <1>0. rr % NumNodeThreads \in NodeThreads
    BY SizeAssumption DEF TypeInv, TypeOK, NodeThreads
  <1>1. ASSUME NEW n \in NodeThreads, npc[n] = "loop" PROVE FALSE
    <2>1. nq[n] = <<>> /\ ~nqStop
      BY <1>1 DEF CanGoOn, NodeCanGoOn
    <2>2. nodePhase /\ mpc \notin {"joinNodes", "joinWays"}
      BY <2>1 DEF OrderInv, StopsInOrder
    <2>3. mpc = "reading"
      BY <2>2 DEF NodeInv, NodesEnd, TypeInv, TypeOK
    <2>4. More
      <3>1. pos \in Int /\ Len(file) \in Int
        BY FileFacts DEF TypeInv, TypeOK
      <3>2. QED
        BY <2>3, <3>1 DEF CanGoOn, MainCanGoOn, More
    <2>5. ~(Len(nq[rr % NumNodeThreads]) < QueueSize)
      BY <2>2, <2>4 DEF CanGoOn, MainCanGoOn
    <2>6. nq[rr % NumNodeThreads] # <<>>
      BY <2>5, SizeAssumption
    <2>7. npc[rr % NumNodeThreads] = "loop"
      BY <1>0, <2>6 DEF NodeInv, NodesEnd
    <2>8. QED
      BY <1>0, <2>6, <2>7 DEF CanGoOn, NodeCanGoOn
  <1>2. PICK n \in NodeThreads : npc[n] # "barrier"
    BY DEF CanGoOn, AllAtNodeBarrier
  <1>3. npc[n] = "done"
    BY <1>1, <1>2 DEF TypeInv, TypeOK
  <1>4. QED
    BY <1>0, <1>3 DEF OrderInv, NodesTogether, NodeInv, NodesEnd

LEMMA SomebodyGoesOn ==
    ASSUME TypeInv, NodeInv, WayInv, LoadInv, OrderInv, mpc # "loaded"
    PROVE  CanGoOn
  <1> SUFFICES ASSUME ~CanGoOn PROVE FALSE
    OBVIOUS
  <1>1. (\A n \in NodeThreads : npc[n] = "done") /\ mergeDone /\ nqStop
    BY NodesOver
  <1>2. \A t \in WayThreads :
           /\ wpc[t] \in {"popping", "barrier", "done"}
           /\ wpc[t] = "popping" => wq = <<>> /\ ~wqStop
           /\ wpc[t] = "barrier" => arrived # WayThreads
    BY DEF CanGoOn, WayCanGoOn, TypeInv, TypeOK
  <1>3. 0 \in WayThreads
    BY SizeAssumption DEF WayThreads
  <1>4. mpc \in {"reading", "joinWays"}
    BY <1>1 DEF CanGoOn, MainCanGoOn, TypeInv, TypeOK
  <1>5. CASE mpc = "reading"
    <2>1. More
      <3>1. pos \in Int /\ Len(file) \in Int
        BY FileFacts DEF TypeInv, TypeOK
      <3>2. QED
        BY <1>5, <3>1 DEF CanGoOn, MainCanGoOn, More
    <2>2. ~nodePhase
      BY <1>1, <1>5 DEF NodeInv, NodesEnd
    <2>3. ~(Len(wq) < QueueSize)
      BY <2>1, <2>2 DEF CanGoOn, MainCanGoOn
    <2>4. wq # <<>>
      BY <2>3, SizeAssumption
    <2>5. \A t \in WayThreads : wpc[t] = "barrier"
      BY <1>2, <2>4 DEF LoadInv, QueueOver, OutOfLoop
    <2>6. WayThreads \subseteq arrived
      BY <2>5 DEF OrderInv, WaysTogether
    <2>7. QED
      BY <1>2, <1>3, <2>5, <2>6 DEF TypeInv, TypeOK
  <1>6. CASE mpc = "joinWays"
    <2>1. wqStop
      BY <1>6 DEF OrderInv, StopsInOrder
    <2>2. PICK t \in WayThreads : wpc[t] # "done"
      BY <1>6 DEF CanGoOn, MainCanGoOn
    <2>3. wpc[t] = "barrier" /\ mode # "relations" /\ arrived # WayThreads
      BY <1>2, <2>1, <2>2 DEF OrderInv, WaysTogether
    <2>4. PICK u \in WayThreads : u \notin arrived
      BY <2>3 DEF TypeInv, TypeOK
    <2>5. wpc[u] = "done"
      BY <1>2, <2>1, <2>4 DEF OrderInv, WaysTogether
    <2>6. QED
      BY <2>3, <2>5 DEF OrderInv, WaysTogether
  <1>7. QED
    BY <1>4, <1>5, <1>6

(* No import is ever stuck: until all is loaded somebody can go on,         *)
(* whatever the numbers of threads, the length of the queues and the file   *)
(* are, with fewer relations than way threads or none, and at whatever      *)
(* phase it is resumed (BlockingQueue, node_barrier, way_barrier and the    *)
(* spin loop and joins of main()).                                          *)
THEOREM ImportNeverStuck == Spec => [](mpc # "loaded" => CanGoOn)
  <1>1. Spec => [](TypeInv /\ NodeInv /\ WayInv /\ LoadInv /\ OnceInv /\ OrderInv)
    BY TypeInit, TypeStep, NodeInvInit, NodeInvStep, WayInvInit, WayInvStep, LoadInvInit,
       LoadInvStep, OrderInit, OrderStep, PTL DEF Spec
  <1>2. QED
    BY <1>1, SomebodyGoesOn, PTL

------------------------------------------------------------------------------
(* The work that is left, in finite sets that only shrink.                  *)

(* Entities to read, to store, to pop and to deal with; shards to merge;    *)
(* node threads in their loop and not yet done.                             *)
ToRead   == pos .. Len(file)
ToStore  == {i \in Entities : i >= pos \/ \E n \in NodeThreads : InSeq(i, nq[n])}
ToPop    == {i \in Entities : i >= pos \/ InSeq(i, wq)}
ToHandle == {i \in Entities : Waiting(i)}
ToMerge  == merging .. NumNodeThreads - 1
InLoop   == {n \in NodeThreads : npc[n] = "loop"}
NotDone  == {n \in NodeThreads : npc[n] # "done"}

(* How many more times main() changes its state, besides reading, and how   *)
(* far a way thread is from its end, besides popping and dealing with       *)
(* entities: working before the barrier is 6, after it 2.                   *)
MainSteps ==
    CASE mpc = "reading" -> IF nodePhase THEN 5 ELSE 3
      [] mpc = "spinning" -> 4
      [] mpc = "joinNodes" -> 2
      [] mpc = "joinWays" -> 1
      [] mpc = "loaded" -> 0
WaySteps(t) ==
    CASE wpc[t] \in {"popping", "working"} -> IF wayPhaseDone[t] THEN 2 ELSE 6
      [] wpc[t] = "cleanup" -> 5
      [] wpc[t] = "finalized" -> 4
      [] wpc[t] = "barrier" -> 3
      [] wpc[t] = "ending" -> 1
      [] wpc[t] = "done" -> 0
MainAhead == 1 .. MainSteps
WayAhead  == {s \in WayThreads \X (1 .. 6) : s[2] <= WaySteps(s[1])}

Left == <<ToRead, ToStore, ToPop, ToHandle, ToMerge, InLoop, NotDone, MainAhead, WayAhead>>
Stages == 1 .. 9
Tagged(sets) == UNION {{stage} \X sets[stage] : stage \in Stages}
Todo == Tagged(Left)

LEMMA WayStepsIs ==
    ASSUME NEW t \in WayThreads
    PROVE  /\ wpc[t] \in {"popping", "working"} => WaySteps(t) = IF wayPhaseDone[t] THEN 2 ELSE 6
           /\ wpc[t] = "cleanup" => WaySteps(t) = 5
           /\ wpc[t] = "finalized" => WaySteps(t) = 4
           /\ wpc[t] = "barrier" => WaySteps(t) = 3
           /\ wpc[t] = "ending" => WaySteps(t) = 1
           /\ wpc[t] = "done" => WaySteps(t) = 0
  BY DEF WaySteps

LEMMA MainStepsIs ==
    /\ mpc = "reading" => MainSteps = IF nodePhase THEN 5 ELSE 3
    /\ mpc = "spinning" => MainSteps = 4
    /\ mpc = "joinNodes" => MainSteps = 2
    /\ mpc = "joinWays" => MainSteps = 1
    /\ mpc = "loaded" => MainSteps = 0
  BY DEF MainSteps

LEMMA TaggedHas ==
    ASSUME NEW L, NEW stage, NEW x
    PROVE  <<stage, x>> \in Tagged(L) <=> stage \in Stages /\ x \in L[stage]
  BY DEF Tagged

LEMMA TaggedLess ==
    ASSUME NEW L, NEW M, \A stage \in Stages : M[stage] \subseteq L[stage],
           NEW less \in Stages, M[less] # L[less]
    PROVE  Tagged(M) \subseteq Tagged(L) /\ Tagged(M) # Tagged(L)
  <1>1. Tagged(M) \subseteq Tagged(L)
    BY DEF Tagged
  <1>2. PICK x \in L[less] : x \notin M[less]
    OBVIOUS
  <1>3. <<less, x>> \in Tagged(L) /\ <<less, x>> \notin Tagged(M)
    BY <1>2, TaggedHas
  <1>4. QED
    BY <1>1, <1>3

LEMMA TaggedFinite ==
    ASSUME NEW L, \A stage \in Stages : IsFiniteSet(L[stage])
    PROVE  IsFiniteSet(Tagged(L))
  <1> DEFINE f == [stage \in Stages |-> {stage} \X L[stage]]
             T == {f[stage] : stage \in Stages}
  <1>1. IsFiniteSet(Stages)
    <2>1. PICK a \in Int, b \in Int : a = 1 /\ b = 9
      OBVIOUS
    <2>2. IsFiniteSet(a .. b)
      BY FS_Interval
    <2>3. QED
      BY <2>1, <2>2 DEF Stages
  <1>2. IsFiniteSet(T)
    <2>1. f \in Surjection(Stages, T)
      BY DEF Surjection
    <2>2. QED
      BY <1>1, <2>1, FS_Surjection
  <1>3. \A stage \in Stages : IsFiniteSet(f[stage])
    <2> TAKE stage \in Stages
    <2>1. IsFiniteSet({stage} \X L[stage])
      BY FS_Singleton, FS_Product
    <2>2. QED
      BY <2>1
  <1>4. \A S \in T : IsFiniteSet(S)
    BY <1>3
  <1>5. UNION T = Tagged(L)
    BY DEF Tagged
  <1> HIDE DEF T
  <1>6. QED
    BY <1>2, <1>4, <1>5, FS_UNION

(* Nothing is added to the work, and something is done. *)
GetsLess ==
    /\ ToRead' \subseteq ToRead /\ ToStore' \subseteq ToStore /\ ToPop' \subseteq ToPop
    /\ ToHandle' \subseteq ToHandle /\ ToMerge' \subseteq ToMerge
    /\ InLoop' \subseteq InLoop /\ NotDone' \subseteq NotDone
    /\ MainAhead' \subseteq MainAhead /\ WayAhead' \subseteq WayAhead
    /\ \/ ToRead' # ToRead \/ ToStore' # ToStore \/ ToPop' # ToPop
       \/ ToHandle' # ToHandle \/ ToMerge' # ToMerge
       \/ InLoop' # InLoop \/ NotDone' # NotDone
       \/ MainAhead' # MainAhead \/ WayAhead' # WayAhead

LEMMA LessTodo == GetsLess => Todo' \subseteq Todo /\ Todo' # Todo
  <1> SUFFICES ASSUME GetsLess PROVE Todo' \subseteq Todo /\ Todo' # Todo
    OBVIOUS
  <1>1. PICK L : L = Left
    OBVIOUS
  <1>2. PICK M : M = Left'
    OBVIOUS
  <1>3. /\ L[1] = ToRead /\ L[2] = ToStore /\ L[3] = ToPop /\ L[4] = ToHandle /\ L[5] = ToMerge
        /\ L[6] = InLoop /\ L[7] = NotDone /\ L[8] = MainAhead /\ L[9] = WayAhead
    BY <1>1 DEF Left
  <1>4. /\ M[1] = ToRead' /\ M[2] = ToStore' /\ M[3] = ToPop' /\ M[4] = ToHandle' /\ M[5] = ToMerge'
        /\ M[6] = InLoop' /\ M[7] = NotDone' /\ M[8] = MainAhead' /\ M[9] = WayAhead'
    BY <1>2 DEF Left
  <1>5. \A stage \in Stages : M[stage] \subseteq L[stage]
    BY <1>3, <1>4 DEF GetsLess, Stages
  <1>6. \E stage \in Stages : M[stage] # L[stage]
    <2>1. /\ 1 \in Stages /\ 2 \in Stages /\ 3 \in Stages /\ 4 \in Stages /\ 5 \in Stages
          /\ 6 \in Stages /\ 7 \in Stages /\ 8 \in Stages /\ 9 \in Stages
      BY DEF Stages
    <2>2. QED
      BY <1>3, <1>4, <2>1, Zenon DEF GetsLess
  <1>7. Tagged(M) \subseteq Tagged(L) /\ Tagged(M) # Tagged(L)
    BY <1>5, <1>6, TaggedLess
  <1>8. QED
    BY <1>1, <1>2, <1>7 DEF Todo

(* The work of main() and of each way thread, as numbers *)
LEMMA AheadLess ==
    ASSUME NEW a \in Nat, NEW b \in Nat, b < a
    PROVE  1 .. b \subseteq 1 .. a /\ 1 .. b # 1 .. a
  <1>1. a \in 1 .. a /\ a \notin 1 .. b
    OBVIOUS
  <1>2. QED
    BY <1>1

LEMMA StepsTyped ==
    ASSUME TypeInv
    PROVE  MainSteps \in 0 .. 5 /\ \A t \in WayThreads : WaySteps(t) \in 0 .. 6
  <1>1. MainSteps \in 0 .. 5
    <2>1. mpc \in {"reading", "spinning", "joinNodes", "joinWays", "loaded"} /\ nodePhase \in BOOLEAN
      BY DEF TypeInv, TypeOK
    <2>2. QED
      BY <2>1, MainStepsIs
  <1>2. ASSUME NEW t \in WayThreads PROVE WaySteps(t) \in 0 .. 6
    <2>1. /\ wpc[t] \in {"popping", "working", "cleanup", "finalized", "barrier", "ending", "done"}
          /\ wayPhaseDone[t] \in BOOLEAN
      BY DEF TypeInv, TypeOK
    <2>2. QED
      BY <2>1, WayStepsIs
  <1>3. QED
    BY <1>1, <1>2

LEMMA TodoFinite == TypeInv => IsFiniteSet(Todo)
  <1> SUFFICES ASSUME TypeInv PROVE IsFiniteSet(Todo)
    OBVIOUS
  <1>1. PICK L : L = Left
    OBVIOUS
  <1>2. /\ L[1] = ToRead /\ L[2] = ToStore /\ L[3] = ToPop /\ L[4] = ToHandle /\ L[5] = ToMerge
        /\ L[6] = InLoop /\ L[7] = NotDone /\ L[8] = MainAhead /\ L[9] = WayAhead
    BY <1>1 DEF Left
  <1>3. Entities = 1 .. Len(file) /\ Len(file) \in Nat /\ pos \in Int
    BY FileFacts DEF TypeInv, TypeOK
  <1>4. IsFiniteSet(Entities) /\ IsFiniteSet(L[1])
    BY <1>2, <1>3, FS_Interval DEF ToRead
  <1>5. IsFiniteSet(L[2]) /\ IsFiniteSet(L[3]) /\ IsFiniteSet(L[4])
    BY <1>2, <1>4, FS_Subset DEF ToStore, ToPop, ToHandle
  <1>6. /\ IsFiniteSet(NodeThreads) /\ IsFiniteSet(WayThreads)
        /\ IsFiniteSet(L[5]) /\ IsFiniteSet(L[8]) /\ IsFiniteSet(1 .. 6)
    <2>1. /\ NumNodeThreads - 1 \in Int /\ NumWayThreads - 1 \in Int
          /\ merging \in Int /\ MainSteps \in Int
      BY SizeAssumption, StepsTyped DEF TypeInv, TypeOK
    <2>2. IsFiniteSet(0 .. NumNodeThreads - 1) /\ IsFiniteSet(0 .. NumWayThreads - 1)
      BY <2>1, FS_Interval
    <2>3. IsFiniteSet(merging .. NumNodeThreads - 1) /\ IsFiniteSet(1 .. MainSteps)
      BY <2>1, FS_Interval
    <2>4. IsFiniteSet(1 .. 6)
      <3>1. PICK a \in Int, b \in Int : a = 1 /\ b = 6
        OBVIOUS
      <3>2. IsFiniteSet(a .. b)
        BY FS_Interval
      <3>3. QED
        BY <3>1, <3>2
    <2>5. QED
      BY <1>2, <2>2, <2>3, <2>4 DEF NodeThreads, WayThreads, ToMerge, MainAhead
  <1>7. IsFiniteSet(L[6]) /\ IsFiniteSet(L[7])
    BY <1>2, <1>6, FS_Subset DEF InLoop, NotDone
  <1>8. IsFiniteSet(L[9])
    <2>1. IsFiniteSet(WayThreads \X (1 .. 6))
      BY <1>6, FS_Product
    <2>2. QED
      BY <1>2, <2>1, FS_Subset DEF WayAhead
  <1>9. \A stage \in Stages : IsFiniteSet(L[stage])
    BY <1>4, <1>5, <1>6, <1>7, <1>8 DEF Stages
  <1>10. QED
    BY <1>1, <1>9, TaggedFinite DEF Todo
LEMMA LessMain == TypeInv /\ NodeInv /\ MainStep /\ [Next]_vars => GetsLess
  <1> SUFFICES ASSUME TypeInv, NodeInv, MainStep, [Next]_vars PROVE GetsLess
    OBVIOUS
  <1>0. /\ file' = file /\ Entities' = Entities /\ Entities = 1 .. Len(file) /\ Len(file) \in Nat
        /\ pos \in Nat \ {0}
    BY FileConstant, FileFacts DEF TypeInv, TypeOK
  <1>1. /\ npc' = npc /\ merging' = merging
        /\ wpc' = wpc /\ hand' = hand /\ wayPhaseDone' = wayPhaseDone
    BY DEF MainStep, HandOutNode, SkipNode, EndNodePhase, MergeSeen, DropWay, Feed, EndOfFile,
       JoinNodes, JoinWays, nodeVars, mergeVars, wayVars
  <1>2. /\ ToMerge' = ToMerge /\ InLoop' = InLoop /\ NotDone' = NotDone /\ WayAhead' = WayAhead
    BY <1>1 DEF ToMerge, InLoop, NotDone, WayAhead, WaySteps
  <1>3. ASSUME pos' = pos + 1, pos \in Entities, mpc' = mpc, nodePhase' = nodePhase,
               \A n \in NodeThreads : \A x : InSeq(x, nq'[n]) => InSeq(x, nq[n]) \/ x = pos,
               \A x : InSeq(x, wq') => InSeq(x, wq) \/ x = pos
        PROVE  GetsLess
    <2>1. ToRead' \subseteq ToRead /\ ToRead' # ToRead
      <3>1. pos \in pos .. Len(file) /\ pos \notin pos + 1 .. Len(file)
            /\ pos + 1 .. Len(file) \subseteq pos .. Len(file)
        BY <1>0, <1>3
      <3>2. QED
        BY <1>0, <1>3, <3>1 DEF ToRead
    <2>2. \A i \in Entities : (i >= pos + 1 => i >= pos) /\ (i = pos => i >= pos)
      BY <1>0
    <2>3. ToStore' \subseteq ToStore /\ ToPop' \subseteq ToPop
      BY <1>0, <1>3, <2>2 DEF ToStore, ToPop
    <2>4. ToHandle' \subseteq ToHandle
      BY <1>0, <1>1, <1>3, <2>2 DEF ToHandle, Waiting
    <2>5. MainAhead' = MainAhead
      BY <1>3 DEF MainAhead, MainSteps
    <2>6. QED
      BY <1>2, <2>1, <2>3, <2>4, <2>5 DEF GetsLess
  <1>4. ASSUME pos' = pos, nq' = nq, wq' = wq, MainSteps' < MainSteps, MainSteps' \in Nat
        PROVE  GetsLess
    <2>1. /\ ToRead' = ToRead /\ ToStore' = ToStore /\ ToPop' = ToPop /\ ToHandle' = ToHandle
      BY <1>0, <1>1, <1>4 DEF ToRead, ToStore, ToPop, ToHandle, Waiting
    <2>2. MainAhead' \subseteq MainAhead /\ MainAhead' # MainAhead
      <3>1. MainSteps \in Nat
        BY StepsTyped
      <3>2. QED
        BY <1>4, <3>1, AheadLess DEF MainAhead
    <2>3. QED
      BY <1>2, <2>1, <2>2 DEF GetsLess
  <1>5. CASE HandOutNode
    <2>0. rr % NumNodeThreads \in NodeThreads
      BY SizeAssumption DEF TypeInv, TypeOK, NodeThreads
    <2>1. PICK n \in NodeThreads : n = rr % NumNodeThreads
      BY <2>0
    <2>2. /\ nq[n] \in Seq(Entities) /\ nq'[n] = Append(nq[n], pos)
          /\ \A m \in NodeThreads \ {n} : nq'[m] = nq[m]
      BY <1>5, <2>1 DEF HandOutNode, TypeInv, TypeOK
    <2>3. pos \in Entities
      BY <1>0, <1>5 DEF HandOutNode, More
    <2>4. \A x : InSeq(x, nq'[n]) => InSeq(x, nq[n]) \/ x = pos
      BY <2>2, <2>3, InAppend
    <2>5. \A m \in NodeThreads : \A x : InSeq(x, nq'[m]) => InSeq(x, nq[m]) \/ x = pos
      BY <2>2, <2>4
    <2>6. pos' = pos + 1 /\ mpc' = mpc /\ nodePhase' = nodePhase /\ wq' = wq
      BY <1>5 DEF HandOutNode, wayQVars
    <2>7. QED
      BY <1>3, <2>3, <2>5, <2>6
  <1>6. CASE SkipNode \/ DropWay
    <2>1. /\ pos \in Entities
          /\ pos' = pos + 1 /\ mpc' = mpc /\ nodePhase' = nodePhase /\ nq' = nq /\ wq' = wq
      BY <1>0, <1>6 DEF SkipNode, DropWay, More, nodeQVars, wayQVars
    <2>2. QED
      BY <1>3, <2>1
  <1>7. CASE Feed
    <2>1. /\ pos \in Entities /\ wq \in Seq(Entities) /\ wq' = Append(wq, pos)
          /\ pos' = pos + 1 /\ mpc' = mpc /\ nodePhase' = nodePhase /\ nq' = nq
      BY <1>0, <1>7 DEF Feed, More, nodeQVars, TypeInv, TypeOK
    <2>2. \A x : InSeq(x, wq') => InSeq(x, wq) \/ x = pos
      BY <2>1, InAppend
    <2>3. QED
      BY <1>3, <2>1, <2>2
  <1>8. CASE EndNodePhase \/ MergeSeen \/ EndOfFile \/ JoinNodes \/ JoinWays
    <2>1. pos' = pos /\ nq' = nq /\ wq' = wq
      BY <1>8 DEF EndNodePhase, MergeSeen, EndOfFile, JoinNodes, JoinWays, nodeQVars, wayQVars
    <2>2. MainSteps = (CASE mpc = "reading" -> IF nodePhase THEN 5 ELSE 3
                         [] mpc = "spinning" -> 4 [] mpc = "joinNodes" -> 2
                         [] mpc = "joinWays" -> 1 [] mpc = "loaded" -> 0)
          /\ MainSteps' = (CASE mpc' = "reading" -> IF nodePhase' THEN 5 ELSE 3
                         [] mpc' = "spinning" -> 4 [] mpc' = "joinNodes" -> 2
                         [] mpc' = "joinWays" -> 1 [] mpc' = "loaded" -> 0)
      BY DEF MainSteps
    <2>3. MainSteps' < MainSteps /\ MainSteps' \in Nat
      <3>1. CASE EndNodePhase
        BY <2>2, <3>1 DEF EndNodePhase, More
      <3>2. CASE MergeSeen
        BY <2>2, <3>2 DEF MergeSeen, NodeInv, NodesEnd
      <3>3. CASE EndOfFile
        BY <2>2, <3>3 DEF EndOfFile
      <3>4. CASE JoinNodes
        BY <2>2, <3>4 DEF JoinNodes
      <3>5. CASE JoinWays
        BY <2>2, <3>5 DEF JoinWays
      <3>6. QED
        BY <1>8, <3>1, <3>2, <3>3, <3>4, <3>5
    <2>4. QED
      BY <1>4, <2>1, <2>3
  <1>9. QED
    BY <1>5, <1>6, <1>7, <1>8 DEF MainStep

LEMMA LessNode == TypeInv /\ OrderInv /\ NodeStep => GetsLess
  <1> SUFFICES ASSUME TypeInv, OrderInv, NodeStep PROVE GetsLess
    OBVIOUS
  <1>0. /\ file' = file /\ Entities' = Entities /\ Entities = 1 .. Len(file) /\ Len(file) \in Nat
        /\ pos' = pos /\ mpc' = mpc /\ nodePhase' = nodePhase /\ wq' = wq
        /\ wpc' = wpc /\ hand' = hand /\ wayPhaseDone' = wayPhaseDone
    BY FileFacts DEF NodeStep, StoreNode, EndNodes, MergeShard, MergeEnd, inputVars, mainVars,
       wayQVars, wayVars, TypeInv, TypeOK, Entities
  <1>1. /\ ToRead' = ToRead /\ ToPop' = ToPop /\ ToHandle' = ToHandle
        /\ MainAhead' = MainAhead /\ WayAhead' = WayAhead
    BY <1>0 DEF ToRead, ToPop, ToHandle, Waiting, MainAhead, MainSteps, WayAhead, WaySteps
  <1>2. ASSUME NEW n \in NodeThreads, StoreNode(n) PROVE GetsLess
    <2>1. /\ nq[n] \in Seq(Entities) /\ nq[n] # <<>>
          /\ nq'[n] = Tail(nq[n]) /\ \A m \in NodeThreads \ {n} : nq'[m] = nq[m]
          /\ npc' = npc /\ merging' = merging
      BY <1>2 DEF StoreNode, mergeVars, TypeInv, TypeOK
    <2>2. PICK i : i = Head(nq[n])
      OBVIOUS
    <2>3. nq[n] \in Seq(Int)
      BY <1>0, <2>1
    <2>4. /\ InSeq(i, nq[n]) /\ ~InSeq(i, nq'[n]) /\ i \in Entities
          /\ \A x : InSeq(x, nq'[n]) => InSeq(x, nq[n])
      BY <2>1, <2>2, <2>3, InTail, OrderTail DEF OrderInv, NodesQueuedOnce
    <2>5. i < pos /\ \A m \in NodeThreads \ {n} : ~InSeq(i, nq'[m])
      BY <2>1, <2>4 DEF OrderInv, NodesQueuedOnce
    <2>6. ~(i >= pos)
      BY <1>0, <2>4, <2>5 DEF TypeInv, TypeOK
    <2>7. i \in ToStore /\ i \notin ToStore'
      BY <1>0, <2>4, <2>5, <2>6 DEF ToStore
    <2>8. ToStore' \subseteq ToStore
      BY <1>0, <2>1, <2>4 DEF ToStore
    <2>9. ToMerge' = ToMerge /\ InLoop' = InLoop /\ NotDone' = NotDone
      BY <2>1 DEF ToMerge, InLoop, NotDone
    <2>10. QED
      BY <1>1, <2>7, <2>8, <2>9 DEF GetsLess
  <1>3. ASSUME NEW n \in NodeThreads, EndNodes(n) PROVE GetsLess
    <2>1. /\ npc[n] = "loop" /\ npc'[n] = "barrier"
          /\ \A m \in NodeThreads \ {n} : npc'[m] = npc[m]
          /\ nq' = nq /\ merging' = merging
      BY <1>3 DEF EndNodes, nodeQVars, mergeVars, TypeInv, TypeOK
    <2>2. n \in InLoop /\ n \notin InLoop' /\ InLoop' \subseteq InLoop /\ NotDone' \subseteq NotDone
      BY <2>1 DEF InLoop, NotDone
    <2>3. ToStore' = ToStore /\ ToMerge' = ToMerge
      BY <1>0, <2>1 DEF ToStore, ToMerge
    <2>4. QED
      BY <1>1, <2>2, <2>3 DEF GetsLess
  <1>4. CASE MergeShard
    <2>1. nq' = nq /\ npc' = npc /\ merging' = merging + 1 /\ merging < NumNodeThreads
      BY <1>4 DEF MergeShard, nodeQVars
    <2>2. merging \in Int /\ NumNodeThreads \in Int
      BY SizeAssumption DEF TypeInv, TypeOK
    <2>3. /\ merging \in merging .. NumNodeThreads - 1
          /\ merging \notin merging + 1 .. NumNodeThreads - 1
          /\ merging + 1 .. NumNodeThreads - 1 \subseteq merging .. NumNodeThreads - 1
      BY <2>1, <2>2
    <2>4. ToMerge' \subseteq ToMerge /\ ToMerge' # ToMerge
      BY <2>1, <2>3 DEF ToMerge
    <2>5. ToStore' = ToStore /\ InLoop' = InLoop /\ NotDone' = NotDone
      BY <1>0, <2>1 DEF ToStore, InLoop, NotDone
    <2>6. QED
      BY <1>1, <2>4, <2>5 DEF GetsLess
  <1>5. CASE MergeEnd
    <2>1. /\ nq' = nq /\ merging' = merging
          /\ \A n \in NodeThreads : npc[n] = "barrier" /\ npc'[n] = "done"
      BY <1>5 DEF MergeEnd, AllAtNodeBarrier, nodeQVars
    <2>2. 0 \in NodeThreads
      BY SizeAssumption DEF NodeThreads
    <2>3. 0 \in NotDone /\ 0 \notin NotDone' /\ NotDone' \subseteq NotDone /\ InLoop' \subseteq InLoop
      BY <2>1, <2>2 DEF NotDone, InLoop
    <2>4. ToStore' = ToStore /\ ToMerge' = ToMerge
      BY <1>0, <2>1 DEF ToStore, ToMerge
    <2>5. QED
      BY <1>1, <2>3, <2>4 DEF GetsLess
  <1>6. QED
    BY <1>2, <1>3, <1>4, <1>5 DEF NodeStep

LEMMA LessWay ==
    ASSUME TypeInv, WayInv, OnceInv, NEW t \in WayThreads, WayStep(t)
    PROVE  GetsLess
  <1>0. /\ file' = file /\ Entities' = Entities /\ Entities = 1 .. Len(file) /\ Len(file) \in Nat
        /\ pos' = pos /\ mpc' = mpc /\ nodePhase' = nodePhase /\ nq' = nq
        /\ npc' = npc /\ merging' = merging
    BY FileFacts DEF WayStep, WayPop, IgnoreNode, ProcessWay, ProcessRelation, FinishEntity,
       FinalizeWays, ArriveAtWayBarrier, PassWayBarrier, QueueEnds, EndWayThread, inputVars,
       mainVars, nodeQVars, nodeVars, mergeVars, TypeInv, TypeOK, Entities
  <1>1. /\ ToRead' = ToRead /\ ToStore' = ToStore /\ ToMerge' = ToMerge
        /\ InLoop' = InLoop /\ NotDone' = NotDone /\ MainAhead' = MainAhead
    BY <1>0 DEF ToRead, ToStore, ToMerge, InLoop, NotDone, MainAhead, MainSteps
  <1>2. \A u \in WayThreads \ {t} : wpc'[u] = wpc[u] /\ hand'[u] = hand[u]
                                    /\ wayPhaseDone'[u] = wayPhaseDone[u]
    BY DEF WayStep, WayPop, IgnoreNode, ProcessWay, ProcessRelation, FinishEntity, FinalizeWays,
       ArriveAtWayBarrier, PassWayBarrier, QueueEnds, EndWayThread, TypeInv, TypeOK
  <1>3. \A u \in WayThreads \ {t} : WaySteps(u)' = WaySteps(u)
    BY <1>2 DEF WaySteps
  <1>4. /\ WaySteps(t) = (CASE wpc[t] \in {"popping", "working"} -> IF wayPhaseDone[t] THEN 2 ELSE 6
                            [] wpc[t] = "cleanup" -> 5 [] wpc[t] = "finalized" -> 4
                            [] wpc[t] = "barrier" -> 3 [] wpc[t] = "ending" -> 1
                            [] wpc[t] = "done" -> 0)
        /\ WaySteps(t)' = (CASE wpc'[t] \in {"popping", "working"} -> IF wayPhaseDone'[t] THEN 2 ELSE 6
                            [] wpc'[t] = "cleanup" -> 5 [] wpc'[t] = "finalized" -> 4
                            [] wpc'[t] = "barrier" -> 3 [] wpc'[t] = "ending" -> 1
                            [] wpc'[t] = "done" -> 0)
    BY DEF WaySteps
  <1>5. ASSUME WaySteps(t)' = WaySteps(t) PROVE WayAhead' = WayAhead
    BY <1>3, <1>5 DEF WayAhead
  <1>6. ASSUME WaySteps(t)' < WaySteps(t), WaySteps(t)' \in Nat, hand' = hand, wq' = wq
        PROVE  GetsLess
    <2>1. WaySteps(t) \in 1 .. 6
      BY <1>6, StepsTyped
    <2>2. <<t, WaySteps(t)>> \in WayAhead /\ <<t, WaySteps(t)>> \notin WayAhead'
      BY <1>6, <2>1 DEF WayAhead
    <2>3. \A s \in 1 .. 6 : s <= WaySteps(t)' => s <= WaySteps(t)
      BY <1>6, <2>1
    <2>4. WayAhead' \subseteq WayAhead
      BY <1>3, <2>3 DEF WayAhead
    <2>5. ToPop' = ToPop /\ ToHandle' = ToHandle
      BY <1>0, <1>6 DEF ToPop, ToHandle, Waiting
    <2>6. QED
      BY <1>1, <2>2, <2>4, <2>5 DEF GetsLess
  <1>7. CASE WayPop(t)
    <2>1. /\ wq \in Seq(Entities) /\ wq # <<>> /\ wq' = Tail(wq) /\ hand'[t] = Head(wq)
          /\ wpc[t] = "popping" /\ wpc'[t] = "working" /\ wayPhaseDone' = wayPhaseDone
      BY <1>7 DEF WayPop, TypeInv, TypeOK
    <2>2. PICK i : i = Head(wq)
      OBVIOUS
    <2>3. wq \in Seq(Int)
      BY <1>0, <2>1
    <2>4. \A k, l \in 1 .. Len(wq) : k < l => wq[k] < wq[l]
      BY DEF WayInv, QueueOrder
    <2>5. /\ InSeq(i, wq) /\ ~InSeq(i, wq') /\ \A x : InSeq(x, wq') => InSeq(x, wq)
      BY <2>1, <2>2, <2>3, <2>4, InTail, OrderTail
    <2>6. i \in Entities /\ ~(i >= pos)
      <3>1. i = wq[1] /\ 1 \in 1 .. Len(wq) /\ i \in Entities
        BY <2>1, <2>2
      <3>2. i < pos
        BY <3>1 DEF WayInv, QueueOrder
      <3>3. QED
        BY <1>0, <3>1, <3>2 DEF TypeInv, TypeOK
    <2>7. i \in ToPop /\ i \notin ToPop' /\ ToPop' \subseteq ToPop
      BY <1>0, <2>5, <2>6 DEF ToPop
    <2>8. ToHandle' \subseteq ToHandle
      <3>1. \A x : Waiting(x)' => Waiting(x)
        BY <1>0, <1>2, <2>1, <2>2, <2>5 DEF Waiting
      <3>2. QED
        BY <1>0, <3>1 DEF ToHandle
    <2>9. WayAhead' = WayAhead
      BY <1>4, <1>5, <2>1
    <2>10. QED
      BY <1>1, <2>7, <2>8, <2>9 DEF GetsLess
  <1>8. CASE IgnoreNode(t) \/ ProcessWay(t) \/ ProcessRelation(t)
    <2>1. /\ wq' = wq /\ hand'[t] = 0 /\ wpc[t] = "working" /\ wpc'[t] = "popping"
          /\ wayPhaseDone' = wayPhaseDone
      BY <1>8 DEF IgnoreNode, ProcessWay, ProcessRelation, Working, FinishEntity, wayQVars,
         TypeInv, TypeOK
    <2>2. PICK i : i = hand[t]
      OBVIOUS
    <2>3. i # 0 /\ i \in Entities
      BY <2>1, <2>2 DEF TypeInv, TypeOK, HandInv
    <2>4. i < pos /\ ~InSeq(i, wq) /\ \A u \in WayThreads \ {t} : hand[u] # i
      BY <2>2, <2>3 DEF OnceInv, HandsDistinct
    <2>5. ~(i >= pos)
      BY <1>0, <2>3, <2>4 DEF TypeInv, TypeOK
    <2>6. i \in ToHandle /\ i \notin ToHandle'
      BY <1>0, <1>2, <2>1, <2>2, <2>3, <2>4, <2>5 DEF ToHandle, Waiting
    <2>7. ToHandle' \subseteq ToHandle
      <3>1. \A x \in Entities : Waiting(x)' => Waiting(x)
        BY <1>0, <1>2, <2>1 DEF Waiting
      <3>2. QED
        BY <1>0, <3>1 DEF ToHandle
    <2>8. ToPop' = ToPop /\ WayAhead' = WayAhead
      BY <1>0, <1>4, <1>5, <2>1 DEF ToPop
    <2>9. QED
      BY <1>1, <2>6, <2>7, <2>8 DEF GetsLess
  <1>9. CASE FinalizeWays(t) \/ ArriveAtWayBarrier(t) \/ PassWayBarrier(t) \/ QueueEnds(t)
             \/ EndWayThread(t)
    <2>1. hand' = hand /\ wq' = wq
      BY <1>9 DEF FinalizeWays, ArriveAtWayBarrier, PassWayBarrier, QueueEnds, EndWayThread, wayQVars
    <2>2. WaySteps(t)' < WaySteps(t) /\ WaySteps(t)' \in Nat
      <3>1. CASE FinalizeWays(t)
        <4>1. /\ (wpc[t] = "working" /\ ~wayPhaseDone[t]) \/ wpc[t] = "cleanup"
              /\ wpc'[t] = "finalized"
          BY <3>1 DEF FinalizeWays, Working, TypeInv, TypeOK
        <4>2. QED
          BY <1>4, <4>1
      <3>2. CASE ArriveAtWayBarrier(t)
        <4>1. wpc[t] = "finalized" /\ wpc'[t] = "barrier"
          BY <3>2 DEF ArriveAtWayBarrier, TypeInv, TypeOK
        <4>2. QED
          BY <1>4, <4>1
      <3>3. CASE PassWayBarrier(t)
        <4>1. /\ wpc[t] = "barrier"
              /\ wpc'[t] = "ending" \/ (wpc'[t] = "working" /\ wayPhaseDone'[t])
          BY <3>3 DEF PassWayBarrier, TypeInv, TypeOK
        <4>2. QED
          BY <1>4, <4>1
      <3>4. CASE QueueEnds(t)
        <4>1. /\ wpc[t] = "popping"
              /\ wpc'[t] = IF wayPhaseDone[t] THEN "ending" ELSE "cleanup"
          BY <3>4 DEF QueueEnds, TypeInv, TypeOK
        <4>2. QED
          BY <1>4, <4>1
      <3>5. CASE EndWayThread(t)
        <4>1. wpc[t] = "ending" /\ wpc'[t] = "done"
          BY <3>5 DEF EndWayThread, TypeInv, TypeOK
        <4>2. QED
          BY <1>4, <4>1
      <3>6. QED
        BY <1>9, <3>1, <3>2, <3>3, <3>4, <3>5
    <2>3. QED
      BY <1>6, <2>1, <2>2
  <1>10. QED
    BY <1>7, <1>8, <1>9 DEF WayStep

(* The work of an import is finite at any time.                             *)
THEOREM WorkIsFinite == Spec => []IsFiniteSet(Todo)
  <1>1. Spec => []TypeInv
    BY TypeInit, TypeStep, PTL DEF Spec
  <1>2. QED
    BY <1>1, TodoFinite, PTL

(* Every step of every thread uses up some of the work and makes no new:    *)
(* an entity is read, queued, stored, popped and dealt with once, and each  *)
(* thread goes through its states once.  So an import takes a bounded       *)
(* number of steps, in any order and without any assumption on the          *)
(* scheduler (the loops of main(), nodeThread and wayThread).               *)
THEOREM EveryStepUsesUp == Spec => [][/\ Todo' \subseteq Todo
                                      /\ Cardinality(Todo') < Cardinality(Todo)]_vars
  <1>1. Spec => [](TypeInv /\ NodeInv /\ WayInv /\ LoadInv /\ OnceInv /\ OrderInv)
    BY TypeInit, TypeStep, NodeInvInit, NodeInvStep, WayInvInit, WayInvStep, LoadInvInit,
       LoadInvStep, OrderInit, OrderStep, PTL DEF Spec
  <1>2. TypeInv /\ NodeInv /\ WayInv /\ OnceInv /\ OrderInv /\ [Next]_vars
            => [Todo' \subseteq Todo /\ Cardinality(Todo') < Cardinality(Todo)]_vars
    <2> SUFFICES ASSUME TypeInv, NodeInv, WayInv, OnceInv, OrderInv, Next
                 PROVE  Todo' \subseteq Todo /\ Cardinality(Todo') < Cardinality(Todo)
      OBVIOUS
    <2>1. GetsLess
      BY LessMain, LessNode, LessWay DEF Next
    <2>2. Todo' \subseteq Todo /\ Todo' # Todo
      BY <2>1, LessTodo
    <2>3. PICK S, T : S = Todo /\ T = Todo'
      OBVIOUS
    <2>4. IsFiniteSet(S) /\ T \in SUBSET S /\ T # S
      BY <2>2, <2>3, TodoFinite
    <2>5. /\ IsFiniteSet(T) /\ Cardinality(T) <= Cardinality(S)
          /\ Cardinality(S) = Cardinality(T) => S = T
      BY <2>4, FS_Subset
    <2>6. Cardinality(S) \in Nat /\ Cardinality(T) \in Nat
      BY <2>4, <2>5, FS_CardinalityType
    <2>7. QED
      BY <2>2, <2>3, <2>4, <2>5, <2>6
  <1>3. QED
    BY <1>1, <1>2, PTL DEF Spec
==============================================================================
