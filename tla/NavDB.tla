--------------------------------- MODULE NavDB ---------------------------------
(***************************************************************************)
(* The database writer of one thread of an import (src/src/NavDB.cpp): row *)
(* buffers per table, three tag buffers, a COPY transaction for the rows   *)
(* and another for the tags, the retries of tryCopyBatch, the finalizers   *)
(* and the destructor, driven as nodeThread and wayThread drive it.        *)
(*                                                                         *)
(* The writers of an import share nothing but the tables, to which each    *)
(* appends rows of its own ids, so one writer stands for them all.  The    *)
(* tags of an entity that allAlphaNum accepts are pushed and copied        *)
(* together: a count per entity says how often.  The tag table of a table  *)
(* goes by the table's name.                                               *)
(***************************************************************************)
EXTENDS Integers, Sequences, FiniteSets

CONSTANTS Entities,    \* what the thread is given
          Kind,        \* the kind of each
          Tagged,      \* those with tags
          Kept,        \* those with a tag that allAlphaNum accepts
          Suspects,    \* those whose row PostgreSQL may refuse
          Earlier,     \* multipolygons that -R relations finds in areas
          NodeRoom,    \* NODE_BUFFER_SIZE
          Room,        \* way_buffer_size_
          MaxFaults    \* bound on the errors no row is to blame for

Kinds == {"node", "way", "area", "multi", "relation", "road"}
Tables == {"nodes", "ways", "areas", "roads", "relations"}
Buffers == {"tag", "way", "area"}

ASSUME EntitiesAssumption ==
    /\ IsFiniteSet(Entities)
    /\ Kind \in [Entities -> Kinds]
    /\ Kept \subseteq Tagged /\ Tagged \subseteq Entities
    /\ Suspects \subseteq Entities
    /\ Earlier \subseteq {e \in Entities : Kind[e] = "multi"}
ASSUME RoomAssumption == NodeRoom \in Nat /\ Room \in Nat /\ MaxFaults \in Nat

VARIABLES
    stage,     \* "nodes" | "ways" | "relations" | "finishing" | "closing" | "done" | "dead"
    given,     \* what the thread is to pop
    left,      \* rows in areas, with their tags, when it starts
    todo,      \* entities it has not yet popped
    plan,      \* calls left of the handler, finalizer or destructor under way
    step,      \* of the flush at the head of plan: "copy" | "retry" | "tags"
    rowBuf,    \* buffered rows of each table
    tagBuf,    \* how often an entity's tags are in each tag buffer
    table,     \* committed rows
    tagTable,  \* how often an entity's tags are committed
    calls,     \* history: how often each entity was inserted in each table
    bad,       \* the rows PostgreSQL refuses
    faults,
    swallowed, \* the destructor caught an exception
    report     \* last recovery: rows tryCopyBatch returned, rows it wrote

inputVars == <<given, left, todo, calls, bad>>
dbVars == <<table, tagTable>>
vars == <<stage, plan, step, rowBuf, tagBuf, dbVars, inputVars, faults, swallowed, report>>

InsertOp(t, e) == [op |-> "insert", table |-> t, entity |-> e]
FlushOp(t) == [op |-> "flush", table |-> t]
TagsOp(t) == [op |-> "tags", table |-> t]
Ops == [op : {"insert"}, table : Tables, entity : Entities]
         \cup [op : {"flush", "tags"}, table : Tables]

Nowhere == [e \in Entities |-> 0]

StageOf(e) == CASE Kind[e] = "node"            -> "nodes"
                [] Kind[e] \in {"way", "area"} -> "ways"
                [] OTHER                       -> "relations"

(* A node thread, a way thread, or a way thread of -R relations: it skips  *)
(* ways, and truncateForResume has left areas as they were.                *)
Owners == {[from |-> "nodes", pops |-> {"nodes"}, left |-> {}],
           [from |-> "ways", pops |-> {"ways", "relations"}, left |-> {}],
           [from |-> "relations", pops |-> {"relations"}, left |-> Earlier]}

Init ==
    /\ \E o \in Owners :
          /\ stage = o.from
          /\ given = {e \in Entities : StageOf(e) \in o.pops}
          /\ left = o.left
    /\ todo = given
    /\ plan = <<>>
    /\ step = "copy"
    /\ rowBuf = [t \in Tables |-> {}]
    /\ tagBuf = [b \in Buffers |-> Nowhere]
    /\ table = [t \in Tables |-> IF t = "areas" THEN left ELSE {}]
    /\ tagTable = [t \in Tables |->
                      IF t = "areas" THEN [e \in Entities |-> IF e \in left \cap Kept THEN 1 ELSE 0]
                                     ELSE Nowhere]
    /\ calls = [t \in Tables |-> Nowhere]
    /\ bad \in SUBSET Suspects
    /\ faults = 0
    /\ swallowed = FALSE
    /\ report = [claimed |-> 0, wrote |-> 0]

------------------------------------------------------------------------------
(* What the threads call *)

(* The calls of nodeThread and of wayThread's visitor for one entity, with *)
(* the finalize_roads that follows each entity of the latter.              *)
Handler(e) ==
    CASE Kind[e] = "node"           -> <<InsertOp("nodes", e)>>
      [] Kind[e] = "way"            -> <<InsertOp("ways", e), FlushOp("roads")>>
      [] Kind[e] \in {"area", "multi"} -> <<InsertOp("areas", e), FlushOp("roads")>>
      [] Kind[e] = "relation"       -> <<InsertOp("relations", e), FlushOp("roads")>>
      [] Kind[e] = "road"           -> <<InsertOp("relations", e), InsertOp("roads", e),
                                         FlushOp("roads")>>

(* One iteration of a thread's loop. *)
Take(e) ==
    /\ plan = <<>>
    /\ e \in todo /\ stage = StageOf(e)
    /\ todo' = todo \ {e}
    /\ plan' = Handler(e)
    /\ UNCHANGED <<stage, step, rowBuf, tagBuf, dbVars, given, left, calls, bad, faults, swallowed, report>>

(* finalize_ways, before the first relation or after the loop *)
FinalizeWays ==
    /\ stage = "ways" /\ plan = <<>>
    /\ \A e \in todo : StageOf(e) # "ways"
    /\ stage' = "relations"
    /\ plan' = <<FlushOp("ways"), FlushOp("areas")>>
    /\ UNCHANGED <<step, rowBuf, tagBuf, dbVars, inputVars, faults, swallowed, report>>

(* The finalizers at the end of each thread function *)
Finalize ==
    /\ stage \in {"nodes", "relations"} /\ plan = <<>>
    /\ todo = {}
    /\ stage' = "finishing"
    /\ plan' = IF stage = "nodes" THEN <<FlushOp("nodes"), TagsOp("nodes")>>
                                  ELSE <<FlushOp("relations")>>
    /\ UNCHANGED <<step, rowBuf, tagBuf, dbVars, inputVars, faults, swallowed, report>>

(* ~NavDB *)
Destroy ==
    /\ stage = "finishing" /\ plan = <<>>
    /\ stage' = "closing"
    /\ plan' = <<FlushOp("nodes"), FlushOp("ways"), FlushOp("areas"),
                 FlushOp("roads"), FlushOp("relations")>>
    /\ UNCHANGED <<step, rowBuf, tagBuf, dbVars, inputVars, faults, swallowed, report>>

Destroyed ==
    /\ stage = "closing" /\ plan = <<>>
    /\ stage' = "done"
    /\ UNCHANGED <<plan, step, rowBuf, tagBuf, dbVars, inputVars, faults, swallowed, report>>

------------------------------------------------------------------------------
(* insertNode, insertWay, insertArea, insertRoad, insertRelation *)

(* Areas share the buffer of the ways. *)
SlipBufferOf(t) == IF t \in {"ways", "areas"} THEN "way" ELSE "tag"

(* The buffer addTags, addWayTags and addAreaTags fill and finalize_tags   *)
(* empties for a table.                                                    *)
BufferOf(t) == CASE t = "ways"  -> "way"
                 [] t = "areas" -> "area"
                 [] OTHER       -> "tag"

Full(t, n) == CASE t = "nodes" -> n >= NodeRoom
                [] t = "ways"  -> n >= Room
                [] OTHER       -> n > Room

Accepted(e) == IF e \in Kept THEN 1 ELSE 0

Insert ==
    /\ plan # <<>> /\ Head(plan).op = "insert"
    /\ LET t == Head(plan).table
           e == Head(plan).entity
           b == BufferOf(t)
           rows == rowBuf[t] \cup {e}
       IN IF t = "nodes" /\ e \notin Tagged
          THEN /\ plan' = Tail(plan)
               /\ UNCHANGED <<tagBuf, rowBuf, calls>>
          ELSE /\ tagBuf' = [tagBuf EXCEPT ![b][e] = @ + Accepted(e)]
               /\ rowBuf' = [rowBuf EXCEPT ![t] = rows]
               /\ calls' = [calls EXCEPT ![t][e] = @ + 1]
               /\ plan' = IF Full(t, Cardinality(rows)) THEN <<FlushOp(t)>> \o Tail(plan)
                                                        ELSE Tail(plan)
    /\ UNCHANGED <<stage, step, dbVars, given, left, todo, bad, faults, swallowed, report>>

------------------------------------------------------------------------------
(* flushNodes, flushViaTemp, flushRelations *)

Flushing(t) == plan # <<>> /\ Head(plan).op = "flush" /\ t = Head(plan).table

SkipFlush ==
    /\ \E t \in Tables : Flushing(t) /\ rowBuf[t] = {}
    /\ step = "copy"
    /\ plan' = Tail(plan)
    /\ UNCHANGED <<stage, step, rowBuf, tagBuf, dbVars, inputVars, faults, swallowed, report>>

(* Rows a COPY of the buffer fails for: the data are refused, or the key   *)
(* is taken.                                                               *)
Refused(t) == {e \in rowBuf[t] : e \in bad \/ e \in table[t]}

CopyRows(t) ==
    /\ Flushing(t) /\ step = "copy" /\ rowBuf[t] # {}
    /\ Refused(t) = {}
    /\ table' = [table EXCEPT ![t] = @ \cup rowBuf[t]]
    /\ step' = "tags"
    /\ UNCHANGED <<stage, plan, rowBuf, tagBuf, tagTable, inputVars, faults, swallowed, report>>

(* An error, if there is still one to come, that is no row's fault. *)
Fault == faults < MaxFaults /\ faults' = faults + 1
NoFault == UNCHANGED faults

(* An exception that leaves a flush ends the process, but the destructor   *)
(* logs it and leaves the tables that come after.                          *)
Throw ==
    IF stage = "closing"
    THEN stage' = "done" /\ swallowed' = TRUE /\ plan' = <<>>
    ELSE stage' = "dead" /\ UNCHANGED <<plan, swallowed>>

(* The first COPY fails: flushNodes rethrows, the others retry. *)
CopyFails(t) ==
    /\ Flushing(t) /\ step = "copy" /\ rowBuf[t] # {}
    /\ \/ Refused(t) # {} /\ NoFault
       \/ Fault
    /\ IF t = "nodes" THEN Throw /\ UNCHANGED step
                      ELSE step' = "retry" /\ UNCHANGED <<stage, plan, swallowed>>
    /\ UNCHANGED <<rowBuf, tagBuf, dbVars, inputVars, report>>

(* tryCopyBatch: the rest of the batch goes through, *)
RetryStores(t) ==
    /\ Flushing(t) /\ step = "retry" /\ rowBuf[t] # {}
    /\ Refused(t) = {}
    /\ table' = [table EXCEPT ![t] = @ \cup rowBuf[t]]
    /\ report' = [claimed |-> Cardinality(rowBuf[t]), wrote |-> Cardinality(rowBuf[t])]
    /\ step' = "tags"
    /\ UNCHANGED <<stage, plan, rowBuf, tagBuf, tagTable, inputVars, faults, swallowed>>

(* The row the message names is not the one that is erased: lines count    *)
(* from 1.                                                                 *)
SlipRetrySkips(t) ==
    /\ Flushing(t) /\ step = "retry"
    /\ Refused(t) # {} /\ NoFault
    /\ rowBuf' = [rowBuf EXCEPT ![t] = IF @ = Refused(t) THEN @ ELSE @ \ {CHOOSE e \in @ : e \notin Refused(t)}]
    /\ UNCHANGED <<stage, plan, step, tagBuf, dbVars, inputVars, swallowed, report>>

(* or the message names a line: that of a row that is refused, or of the   *)
(* row the COPY had reached when something else failed.                    *)
RetrySkips(t) ==
    /\ Flushing(t) /\ step = "retry"
    /\ \E e \in rowBuf[t] :
          /\ \/ e \in Refused(t) /\ NoFault
             \/ Fault
          /\ rowBuf' = [rowBuf EXCEPT ![t] = @ \ {e}]
    /\ UNCHANGED <<stage, plan, step, tagBuf, dbVars, inputVars, swallowed, report>>

(* A batch that is given up counts as -1. *)
SlipRetryEnds(t) ==
    /\ Flushing(t) /\ step = "retry"
    /\ \/ rowBuf[t] = {} /\ NoFault
       \/ rowBuf[t] # {} /\ Fault
    /\ report' = [claimed |-> IF rowBuf[t] = {} THEN 0 ELSE -1, wrote |-> 0]
    /\ step' = "tags"
    /\ UNCHANGED <<stage, plan, rowBuf, tagBuf, dbVars, inputVars, swallowed>>

(* or it names none, or no row is left. *)
RetryEnds(t) ==
    /\ Flushing(t) /\ step = "retry"
    /\ \/ rowBuf[t] = {} /\ NoFault
       \/ rowBuf[t] # {} /\ Fault
    /\ report' = [claimed |-> Cardinality(rowBuf[t]), wrote |-> 0]
    /\ step' = "tags"
    /\ UNCHANGED <<stage, plan, rowBuf, tagBuf, dbVars, inputVars, swallowed>>

------------------------------------------------------------------------------
(* finalize_tags_locked *)

(* The call at the head of plan is at its tags: those of the table go      *)
(* wherever its buffer's turn comes, whoever's they are.                   *)
AtTags(t) ==
    /\ plan # <<>> /\ t = Head(plan).table
    /\ \/ Head(plan).op = "flush" /\ step = "tags"
       \/ Head(plan).op = "tags"

(* The buffer is not cleared. *)
SlipCopyTags(t) ==
    /\ AtTags(t)
    /\ tagTable' = [tagTable EXCEPT ![t] = [e \in Entities |-> @[e] + tagBuf[BufferOf(t)][e]]]
    /\ rowBuf' = [rowBuf EXCEPT ![t] = IF Head(plan).op = "flush" THEN {} ELSE @]
    /\ step' = "copy"
    /\ plan' = Tail(plan)
    /\ UNCHANGED <<stage, table, tagBuf, inputVars, faults, swallowed, report>>

CopyTags(t) ==
    /\ AtTags(t)
    /\ tagTable' = [tagTable EXCEPT ![t] = [e \in Entities |-> @[e] + tagBuf[BufferOf(t)][e]]]
    /\ tagBuf' = [tagBuf EXCEPT ![BufferOf(t)] = Nowhere]
    /\ rowBuf' = [rowBuf EXCEPT ![t] = IF Head(plan).op = "flush" THEN {} ELSE @]
    /\ step' = "copy"
    /\ plan' = Tail(plan)
    /\ UNCHANGED <<stage, table, inputVars, faults, swallowed, report>>

TagsFail(t) ==
    /\ AtTags(t)
    /\ tagBuf[BufferOf(t)] # Nowhere
    /\ Fault
    /\ Throw
    /\ UNCHANGED <<step, rowBuf, tagBuf, dbVars, inputVars, report>>

------------------------------------------------------------------------------
Call == \/ \E e \in Entities : Take(e)
        \/ FinalizeWays \/ Finalize \/ Destroy \/ Destroyed
        \/ Insert

Flush == \/ SkipFlush
         \/ \E t \in Tables : \/ CopyRows(t) \/ CopyFails(t)
                              \/ RetryStores(t) \/ RetrySkips(t) \/ RetryEnds(t)
                              \/ CopyTags(t) \/ TagsFail(t)

Next == stage \notin {"done", "dead"} /\ (Call \/ Flush)

Spec == Init /\ [][Next]_vars
FairSpec == Spec /\ WF_vars(Next)

------------------------------------------------------------------------------
(* Properties *)

TypeOK ==
    /\ stage \in {"nodes", "ways", "relations", "finishing", "closing", "done", "dead"}
    /\ given \subseteq Entities /\ left \subseteq Earlier /\ todo \subseteq given
    /\ plan \in Seq(Ops)
    /\ step \in {"copy", "retry", "tags"}
    /\ rowBuf \in [Tables -> SUBSET Entities]
    /\ tagBuf \in [Buffers -> [Entities -> Nat]]
    /\ table \in [Tables -> SUBSET Entities]
    /\ tagTable \in [Tables -> [Entities -> Nat]]
    /\ calls \in [Tables -> [Entities -> Nat]]
    /\ bad \subseteq Suspects
    /\ faults \in 0 .. MaxFaults
    /\ swallowed \in BOOLEAN
    /\ report \in [claimed : Nat, wrote : Nat]

(* Tags pushed for an entity by so many inserts of a kind *)
Pushed(e, n) == IF e \in Kept THEN n ELSE 0
Before(e) == IF e \in left \cap Kept THEN 1 ELSE 0

(* No tag is lost or written twice: each one an insert pushed is in its    *)
(* buffer or in a table that takes from it, through every failed COPY,     *)
(* retry and exception.                                                    *)
TagsConserved ==
    \A e \in Entities :
       /\ tagBuf["way"][e] + tagTable["ways"][e] = Pushed(e, calls["ways"][e])
       /\ tagBuf["area"][e] + tagTable["areas"][e] = Before(e) + Pushed(e, calls["areas"][e])
       /\ tagBuf["tag"][e] + tagTable["nodes"][e] + tagTable["roads"][e] + tagTable["relations"][e]
            = Pushed(e, calls["nodes"][e] + calls["roads"][e] + calls["relations"][e])

MidFlush(t) == plan # <<>> /\ Head(plan) = FlushOp(t) /\ step = "tags"

(* A committed node, way, area or road has its tags in its tag table, but  *)
(* for the moment between the two transactions of its flush and for areas  *)
(* whose tags failed in the destructor.                                    *)
RowsHaveTags ==
    \A t \in Tables \ {"relations"} : \A e \in table[t] \cap Kept :
       tagTable[t][e] > 0 \/ MidFlush(t) \/ (t = "areas" /\ swallowed)

InTable(e, t) ==
    CASE t = "nodes"     -> Kind[e] = "node" /\ e \in Tagged
      [] t = "ways"      -> Kind[e] = "way"
      [] t = "areas"     -> Kind[e] \in {"area", "multi"}
      [] t = "roads"     -> Kind[e] = "road"
      [] t = "relations" -> Kind[e] \in {"relation", "road"}

(* A writer that ends leaves no buffered row behind, and without faults    *)
(* each row that PostgreSQL takes is in its table: a row that it refuses   *)
(* takes no other with it, whatever buffer and whichever flush it is in.   *)
RowsLoaded ==
    (stage = "done" /\ faults = 0) =>
       \A t \in Tables :
          table[t] = {e \in given : InTable(e, t) /\ e \notin bad}
                       \cup (IF t = "areas" THEN left ELSE {})

(* No flush takes a row from a table or its tags from a row: neither a row *)
(* that is refused beside it, nor the order of buffers and transactions.   *)
RowsComplete == RowsHaveTags /\ RowsLoaded

(* Refused rows one at a time, a batch given up, exceptions: each writer   *)
(* comes to its end.                                                       *)
WriterEnds == <>(stage \in {"done", "dead"})

(* README.md:37-38: road_tags holds the tags of roads, relation_tags those *)
(* of relations.                                                           *)
RelationTagsInPlace ==
    \A e \in Entities : tagTable["roads"][e] > 0 => Kind[e] = "road"
==============================================================================
