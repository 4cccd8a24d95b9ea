------------------------------ MODULE NavDBProofs ------------------------------
(* The types of the database writer, that no tag is lost or doubled on its  *)
(* way from an insert to a tag table, and that the tables end up complete:  *)
(* each row that is due, with its tags.                                     *)
EXTENDS NavDB, FiniteSetTheorems, TLAPS

(* The calls of a thread are well formed. *)
LEMMA OpsTyped ==
    /\ \A t \in Tables, e \in Entities : InsertOp(t, e) \in Ops
    /\ \A t \in Tables : FlushOp(t) \in Ops /\ TagsOp(t) \in Ops
BY DEF InsertOp, FlushOp, TagsOp, Ops

LEMMA HandlerTyped ==
    ASSUME NEW e \in Entities
    PROVE  Handler(e) \in Seq(Ops)
<1>1. Kind[e] \in Kinds
  BY EntitiesAssumption
<1>2. {"nodes", "ways", "areas", "roads", "relations"} \subseteq Tables
  BY DEF Tables
<1>3. /\ InsertOp("nodes", e) \in Ops /\ InsertOp("ways", e) \in Ops
      /\ InsertOp("areas", e) \in Ops /\ InsertOp("relations", e) \in Ops
      /\ InsertOp("roads", e) \in Ops /\ FlushOp("roads") \in Ops
  BY <1>2, OpsTyped
<1> QED
  BY <1>1, <1>3 DEF Handler, Kinds

LEMMA BufferTyped == \A t \in Tables : BufferOf(t) \in Buffers
BY DEF BufferOf, Buffers, Tables

(* What the head of a plan is. *)
LEMMA HeadTyped ==
    ASSUME plan \in Seq(Ops), plan # <<>>
    PROVE  /\ Head(plan) \in Ops
           /\ Tail(plan) \in Seq(Ops)
           /\ Head(plan).table \in Tables
           /\ Head(plan).op = "insert" => Head(plan).entity \in Entities
<1>1. Head(plan) \in Ops /\ Tail(plan) \in Seq(Ops)
  OBVIOUS
<1> QED
  BY <1>1 DEF Ops

LEMMA RowsFinite ==
    ASSUME NEW S, S \subseteq Entities
    PROVE  Cardinality(S) \in Nat
BY EntitiesAssumption, FS_Subset, FS_CardinalityType

LEMMA InitTyped == Init => TypeOK
<1> SUFFICES ASSUME Init PROVE TypeOK
  OBVIOUS
<1> USE EntitiesAssumption, RoomAssumption DEF Init
<1>1. Nowhere \in [Entities -> Nat]
  BY DEF Nowhere
<1>2. [e \in Entities |-> IF e \in left \cap Kept THEN 1 ELSE 0] \in [Entities -> Nat]
  OBVIOUS
<1>3. tagTable \in [Tables -> [Entities -> Nat]]
  BY <1>1, <1>2
<1>4. tagBuf \in [Buffers -> [Entities -> Nat]] /\ calls \in [Tables -> [Entities -> Nat]]
  BY <1>1
<1>6. /\ stage \in {"nodes", "ways", "relations"}
      /\ given \subseteq Entities /\ left \subseteq Earlier /\ todo \subseteq given
  <2>1. PICK o \in Owners : /\ stage = o.from
                           /\ given = {e \in Entities : StageOf(e) \in o.pops}
                           /\ left = o.left
    OBVIOUS
  <2>2. o.from \in {"nodes", "ways", "relations"} /\ o.left \subseteq Earlier
    BY DEF Owners
  <2>3. todo = given
    OBVIOUS
  <2> QED
    BY <2>1, <2>2, <2>3
<1>5. table \in [Tables -> SUBSET Entities] /\ rowBuf \in [Tables -> SUBSET Entities]
  BY <1>6
<1>7. plan \in Seq(Ops) /\ bad \subseteq Suspects /\ faults \in 0 .. MaxFaults
  OBVIOUS
<1>8. step = "copy" /\ swallowed = FALSE /\ report \in [claimed : Nat, wrote : Nat]
  OBVIOUS
<1> QED
  BY <1>3, <1>4, <1>5, <1>6, <1>7, <1>8 DEF TypeOK

(* The calls that put work in an empty plan *)
LEMMA CallTyped == TypeOK /\ (\/ \E e \in Entities : Take(e)
                              \/ FinalizeWays \/ Finalize \/ Destroy \/ Destroyed) => TypeOK'
<1> SUFFICES ASSUME TypeOK PROVE (\/ \E e \in Entities : Take(e)
                              \/ FinalizeWays \/ Finalize \/ Destroy \/ Destroyed) => TypeOK'
  OBVIOUS
<1> USE DEF TypeOK, inputVars, dbVars
<1>0. /\ FlushOp("nodes") \in Ops /\ FlushOp("ways") \in Ops /\ FlushOp("areas") \in Ops
      /\ FlushOp("roads") \in Ops /\ FlushOp("relations") \in Ops /\ TagsOp("nodes") \in Ops
  BY OpsTyped DEF Tables
<1>1. ASSUME NEW e \in Entities, Take(e) PROVE TypeOK'
  BY <1>1, HandlerTyped DEF Take
<1>2. CASE FinalizeWays
  <2>1. plan' \in Seq(Ops)
    BY <1>0, <1>2 DEF FinalizeWays
  <2> QED
    BY <1>2, <2>1 DEF FinalizeWays
<1>3. CASE Finalize
  <2>1. plan' \in Seq(Ops)
    BY <1>0, <1>3 DEF Finalize
  <2> QED
    BY <1>3, <2>1 DEF Finalize
<1>4. CASE Destroy
  <2>1. plan' \in Seq(Ops)
    BY <1>0, <1>4 DEF Destroy
  <2> QED
    BY <1>4, <2>1 DEF Destroy
<1>5. CASE Destroyed
  BY <1>5 DEF Destroyed
<1> QED
  BY <1>1, <1>2, <1>3, <1>4, <1>5

LEMMA InsertKeeps ==
    Insert => UNCHANGED <<stage, step, table, tagTable, given, left, todo, bad, faults,
                          swallowed, report>>
BY DEF Insert, dbVars

(* The two outcomes of an insert *)
LEMMA InsertCases ==
    ASSUME Insert, NEW t, t = Head(plan).table, NEW e, e = Head(plan).entity
    PROVE  \/ plan' = Tail(plan) /\ tagBuf' = tagBuf /\ rowBuf' = rowBuf /\ calls' = calls
           \/ /\ tagBuf' = [tagBuf EXCEPT ![BufferOf(t)][e] = @ + Accepted(e)]
              /\ rowBuf' = [rowBuf EXCEPT ![t] = rowBuf[t] \cup {e}]
              /\ calls' = [calls EXCEPT ![t][e] = @ + 1]
              /\ plan' \in {<<FlushOp(t)>> \o Tail(plan), Tail(plan)}
<1>1. CASE t = "nodes" /\ e \notin Tagged
  BY <1>1 DEF Insert
<1>2. CASE ~(t = "nodes" /\ e \notin Tagged)
  BY <1>2, Zenon DEF Insert
<1> QED
  BY <1>1, <1>2

LEMMA InsertTyped == TypeOK /\ Insert => TypeOK'
<1> SUFFICES ASSUME TypeOK, Insert PROVE TypeOK'
  OBVIOUS
<1>1. PICK t \in Tables : t = Head(plan).table
  BY HeadTyped DEF Insert, TypeOK
<1>2. PICK e \in Entities : e = Head(plan).entity
  BY HeadTyped DEF Insert, TypeOK
<1>3. /\ Tail(plan) \in Seq(Ops) /\ FlushOp(t) \in Ops
      /\ BufferOf(t) \in Buffers /\ Accepted(e) \in Nat
  BY HeadTyped, OpsTyped, BufferTyped DEF Insert, TypeOK, Accepted
<1>4. <<FlushOp(t)>> \o Tail(plan) \in Seq(Ops)
  BY <1>3
<1>5. UNCHANGED <<stage, step, table, tagTable, given, left, todo, bad, faults, swallowed, report>>
  BY InsertKeeps
<1>6. CASE plan' = Tail(plan) /\ tagBuf' = tagBuf /\ rowBuf' = rowBuf /\ calls' = calls
  BY <1>3, <1>5, <1>6 DEF TypeOK
<1>7. CASE /\ tagBuf' = [tagBuf EXCEPT ![BufferOf(t)][e] = @ + Accepted(e)]
           /\ rowBuf' = [rowBuf EXCEPT ![t] = rowBuf[t] \cup {e}]
           /\ calls' = [calls EXCEPT ![t][e] = @ + 1]
           /\ plan' \in {<<FlushOp(t)>> \o Tail(plan), Tail(plan)}
  <2>1. tagBuf' \in [Buffers -> [Entities -> Nat]]
    BY <1>3, <1>7 DEF TypeOK
  <2>2. rowBuf' \in [Tables -> SUBSET Entities]
    BY <1>7 DEF TypeOK
  <2>3. calls' \in [Tables -> [Entities -> Nat]]
    BY <1>7 DEF TypeOK
  <2>4. plan' \in Seq(Ops)
    BY <1>3, <1>4, <1>7
  <2> QED
    BY <1>5, <2>1, <2>2, <2>3, <2>4 DEF TypeOK
<1> QED
  BY <1>1, <1>2, <1>6, <1>7, InsertCases

LEMMA ThrowTyped ==
    ASSUME TypeOK, Throw
    PROVE  /\ stage' \in {"done", "dead"}
           /\ plan' \in Seq(Ops)
           /\ swallowed' \in BOOLEAN
<1>1. CASE stage = "closing"
  <2>1. stage' = "done" /\ swallowed' = TRUE /\ plan' = <<>>
    BY <1>1 DEF Throw
  <2> QED
    BY <2>1
<1>2. CASE stage # "closing"
  <2>1. stage' = "dead" /\ plan' = plan /\ swallowed' = swallowed
    BY <1>2 DEF Throw
  <2>2. plan \in Seq(Ops) /\ swallowed \in BOOLEAN
    BY DEF TypeOK
  <2> QED
    BY <2>1, <2>2, Zenon
<1> QED
  BY <1>1, <1>2

LEMMA FaultTyped ==
    ASSUME TypeOK, Fault \/ NoFault
    PROVE  faults' \in 0 .. MaxFaults
BY RoomAssumption DEF TypeOK, Fault, NoFault

LEMMA FlushTyped == TypeOK /\ Flush => TypeOK'
<1> SUFFICES ASSUME TypeOK, Flush PROVE TypeOK'
  OBVIOUS
<1> USE DEF TypeOK, inputVars, dbVars
<1>1. CASE SkipFlush
  <2>1. Tail(plan) \in Seq(Ops)
    BY <1>1, HeadTyped DEF SkipFlush, Flushing
  <2> QED
    BY <1>1, <2>1 DEF SkipFlush
<1>2. ASSUME NEW t \in Tables, CopyRows(t) PROVE TypeOK'
  BY <1>2 DEF CopyRows
<1>3. ASSUME NEW t \in Tables, CopyFails(t) PROVE TypeOK'
  <2>1. faults' \in 0 .. MaxFaults
    BY <1>3, FaultTyped DEF CopyFails
  <2>2. CASE t = "nodes"
    BY <1>3, <2>1, <2>2, ThrowTyped DEF CopyFails
  <2>3. CASE t # "nodes"
    BY <1>3, <2>1, <2>3 DEF CopyFails
  <2> QED
    BY <2>2, <2>3
<1>4. ASSUME NEW t \in Tables, RetryStores(t) PROVE TypeOK'
  <2>1. Cardinality(rowBuf[t]) \in Nat
    BY RowsFinite
  <2> QED
    BY <1>4, <2>1 DEF RetryStores
<1>5. ASSUME NEW t \in Tables, RetrySkips(t) PROVE TypeOK'
  <2>1. faults' \in 0 .. MaxFaults
    BY <1>5, FaultTyped DEF RetrySkips
  <2> QED
    BY <1>5, <2>1 DEF RetrySkips
<1>6. ASSUME NEW t \in Tables, RetryEnds(t) PROVE TypeOK'
  <2>1. Cardinality(rowBuf[t]) \in Nat
    BY RowsFinite
  <2>2. faults' \in 0 .. MaxFaults
    BY <1>6, FaultTyped DEF RetryEnds
  <2> QED
    BY <1>6, <2>1, <2>2 DEF RetryEnds
<1>7. ASSUME NEW t \in Tables, CopyTags(t) PROVE TypeOK'
  <2>1. Tail(plan) \in Seq(Ops) /\ BufferOf(t) \in Buffers
    BY <1>7, HeadTyped, BufferTyped DEF CopyTags, AtTags
  <2>2. Nowhere \in [Entities -> Nat]
    BY DEF Nowhere
  <2>3. [e \in Entities |-> tagTable[t][e] + tagBuf[BufferOf(t)][e]] \in [Entities -> Nat]
    BY <2>1
  <2>4. tagTable' \in [Tables -> [Entities -> Nat]]
    BY <1>7, <2>3 DEF CopyTags
  <2>5. tagBuf' \in [Buffers -> [Entities -> Nat]]
    BY <1>7, <2>1, <2>2 DEF CopyTags
  <2>6. rowBuf' \in [Tables -> SUBSET Entities]
    BY <1>7 DEF CopyTags
  <2> QED
    BY <1>7, <2>1, <2>4, <2>5, <2>6 DEF CopyTags
<1>8. ASSUME NEW t \in Tables, TagsFail(t) PROVE TypeOK'
  <2>1. faults' \in 0 .. MaxFaults
    BY <1>8, FaultTyped DEF TagsFail
  <2> QED
    BY <1>8, <2>1, ThrowTyped DEF TagsFail
<1> QED
  BY <1>1, <1>2, <1>3, <1>4, <1>5, <1>6, <1>7, <1>8 DEF Flush

(* The state of a writer, and each plan its thread makes, is well formed    *)
(* (NavDB.h:140-175 and the calls of main.cpp:540-584, 770-897).            *)
THEOREM WriterTyped == Spec => []TypeOK
<1>1. TypeOK /\ [Next]_vars => TypeOK'
  <2>1. TypeOK /\ Next => TypeOK'
    BY CallTyped, InsertTyped, FlushTyped DEF Next, Call
  <2>2. TypeOK /\ UNCHANGED vars => TypeOK'
    BY DEF TypeOK, vars, inputVars, dbVars
  <2> QED
    BY <2>1, <2>2
<1> QED
  BY InitTyped, <1>1, PTL DEF Spec

------------------------------------------------------------------------------
(* Conservation of tags *)

(* The three equations for one entity *)
Balanced(e) ==
    /\ tagBuf["way"][e] + tagTable["ways"][e] = Pushed(e, calls["ways"][e])
    /\ tagBuf["area"][e] + tagTable["areas"][e] = Before(e) + Pushed(e, calls["areas"][e])
    /\ tagBuf["tag"][e] + tagTable["nodes"][e] + tagTable["roads"][e] + tagTable["relations"][e]
         = Pushed(e, calls["nodes"][e] + calls["roads"][e] + calls["relations"][e])

(* The counts in them *)
BalanceTyped(e) ==
    /\ tagBuf["way"][e] \in Nat /\ tagBuf["area"][e] \in Nat /\ tagBuf["tag"][e] \in Nat
    /\ tagTable["ways"][e] \in Nat /\ tagTable["areas"][e] \in Nat
    /\ tagTable["nodes"][e] \in Nat /\ tagTable["roads"][e] \in Nat
    /\ tagTable["relations"][e] \in Nat
    /\ calls["ways"][e] \in Nat /\ calls["areas"][e] \in Nat
    /\ calls["nodes"][e] \in Nat /\ calls["roads"][e] \in Nat /\ calls["relations"][e] \in Nat

LEMMA BalanceTypes == TypeOK => \A e \in Entities : BalanceTyped(e)
BY DEF TypeOK, BalanceTyped, Buffers, Tables

LEMMA BalancedSame ==
    ASSUME TagsConserved, UNCHANGED <<tagBuf, tagTable, calls, left>>
    PROVE  TagsConserved'
BY DEF TagsConserved, Pushed, Before

LEMMA InitConserved == Init => TagsConserved
<1> SUFFICES ASSUME Init, NEW e \in Entities PROVE Balanced(e)
  BY DEF TagsConserved, Balanced
<1> QED
  BY DEF Init, Balanced, Pushed, Before, Nowhere, Tables, Buffers

(* An insert pushes the tags that the call is counted with. *)
LEMMA InsertConserves == TypeOK /\ TagsConserved /\ Insert => TagsConserved'
<1> SUFFICES ASSUME TypeOK, TagsConserved, Insert PROVE TagsConserved'
  OBVIOUS
<1>1. PICK t \in Tables : t = Head(plan).table
  BY HeadTyped DEF Insert, TypeOK
<1>2. PICK x \in Entities : x = Head(plan).entity
  BY HeadTyped DEF Insert, TypeOK
<1>3. tagTable' = tagTable /\ left' = left
  BY InsertKeeps
<1>4. CASE plan' = Tail(plan) /\ tagBuf' = tagBuf /\ rowBuf' = rowBuf /\ calls' = calls
  BY <1>3, <1>4, BalancedSame
<1>5. CASE /\ tagBuf' = [tagBuf EXCEPT ![BufferOf(t)][x] = @ + Accepted(x)]
           /\ rowBuf' = [rowBuf EXCEPT ![t] = rowBuf[t] \cup {x}]
           /\ calls' = [calls EXCEPT ![t][x] = @ + 1]
           /\ plan' \in {<<FlushOp(t)>> \o Tail(plan), Tail(plan)}
  <2> SUFFICES ASSUME NEW e \in Entities PROVE Balanced(e)'
    BY DEF TagsConserved, Balanced
  <2>1. Balanced(e)
    BY DEF TagsConserved, Balanced
  <2>2. BufferOf(t) \in Buffers
    BY BufferTyped
  <2>3. CASE e # x
    <3>1. /\ \A b \in Buffers : tagBuf'[b][e] = tagBuf[b][e]
          /\ \A u \in Tables : calls'[u][e] = calls[u][e]
      BY <1>5, <2>2, <2>3 DEF TypeOK
    <3> QED
      BY <1>3, <2>1, <3>1 DEF Balanced, Pushed, Before, Buffers, Tables
  <2>4. CASE e = x
    <3>1. /\ tagBuf'[BufferOf(t)][e] = tagBuf[BufferOf(t)][e] + Accepted(e)
          /\ \A b \in Buffers \ {BufferOf(t)} : tagBuf'[b][e] = tagBuf[b][e]
          /\ calls'[t][e] = calls[t][e] + 1
          /\ \A u \in Tables \ {t} : calls'[u][e] = calls[u][e]
      BY <1>5, <2>2, <2>4 DEF TypeOK
    <3>2. BalanceTyped(e)
      BY BalanceTypes
    <3>3. CASE t = "ways"
      <4>1. /\ tagBuf'["way"][e] = tagBuf["way"][e] + Accepted(e)
            /\ tagBuf'["area"][e] = tagBuf["area"][e]
            /\ tagBuf'["tag"][e] = tagBuf["tag"][e]
        BY <3>1, <3>3 DEF BufferOf, Buffers
      <4>2. /\ calls'["ways"][e] = calls["ways"][e] + 1
            /\ calls'["areas"][e] = calls["areas"][e]
            /\ calls'["nodes"][e] = calls["nodes"][e]
            /\ calls'["roads"][e] = calls["roads"][e]
            /\ calls'["relations"][e] = calls["relations"][e]
        BY <3>1, <3>3 DEF Tables
      <4> QED
        BY <1>3, <2>1, <3>2, <4>1, <4>2 DEF Balanced, BalanceTyped, Pushed, Before, Accepted
    <3>4. CASE t = "areas"
      <4>1. /\ tagBuf'["area"][e] = tagBuf["area"][e] + Accepted(e)
            /\ tagBuf'["way"][e] = tagBuf["way"][e]
            /\ tagBuf'["tag"][e] = tagBuf["tag"][e]
        BY <3>1, <3>4 DEF BufferOf, Buffers
      <4>2. /\ calls'["areas"][e] = calls["areas"][e] + 1
            /\ calls'["ways"][e] = calls["ways"][e]
            /\ calls'["nodes"][e] = calls["nodes"][e]
            /\ calls'["roads"][e] = calls["roads"][e]
            /\ calls'["relations"][e] = calls["relations"][e]
        BY <3>1, <3>4 DEF Tables
      <4> QED
        BY <1>3, <2>1, <3>2, <4>1, <4>2 DEF Balanced, BalanceTyped, Pushed, Before, Accepted
    <3>5. CASE t = "nodes"
      <4>1. /\ tagBuf'["tag"][e] = tagBuf["tag"][e] + Accepted(e)
            /\ tagBuf'["way"][e] = tagBuf["way"][e]
            /\ tagBuf'["area"][e] = tagBuf["area"][e]
        BY <3>1, <3>5 DEF BufferOf, Buffers
      <4>2. /\ calls'["nodes"][e] = calls["nodes"][e] + 1
            /\ calls'["ways"][e] = calls["ways"][e]
            /\ calls'["areas"][e] = calls["areas"][e]
            /\ calls'["roads"][e] = calls["roads"][e]
            /\ calls'["relations"][e] = calls["relations"][e]
        BY <3>1, <3>5 DEF Tables
      <4> QED
        BY <1>3, <2>1, <3>2, <4>1, <4>2 DEF Balanced, BalanceTyped, Pushed, Before, Accepted
    <3>6. CASE t = "roads"
      <4>1. /\ tagBuf'["tag"][e] = tagBuf["tag"][e] + Accepted(e)
            /\ tagBuf'["way"][e] = tagBuf["way"][e]
            /\ tagBuf'["area"][e] = tagBuf["area"][e]
        BY <3>1, <3>6 DEF BufferOf, Buffers
      <4>2. /\ calls'["roads"][e] = calls["roads"][e] + 1
            /\ calls'["ways"][e] = calls["ways"][e]
            /\ calls'["areas"][e] = calls["areas"][e]
            /\ calls'["nodes"][e] = calls["nodes"][e]
            /\ calls'["relations"][e] = calls["relations"][e]
        BY <3>1, <3>6 DEF Tables
      <4> QED
        BY <1>3, <2>1, <3>2, <4>1, <4>2 DEF Balanced, BalanceTyped, Pushed, Before, Accepted
    <3>7. CASE t = "relations"
      <4>1. /\ tagBuf'["tag"][e] = tagBuf["tag"][e] + Accepted(e)
            /\ tagBuf'["way"][e] = tagBuf["way"][e]
            /\ tagBuf'["area"][e] = tagBuf["area"][e]
        BY <3>1, <3>7 DEF BufferOf, Buffers
      <4>2. /\ calls'["relations"][e] = calls["relations"][e] + 1
            /\ calls'["ways"][e] = calls["ways"][e]
            /\ calls'["areas"][e] = calls["areas"][e]
            /\ calls'["nodes"][e] = calls["nodes"][e]
            /\ calls'["roads"][e] = calls["roads"][e]
        BY <3>1, <3>7 DEF Tables
      <4> QED
        BY <1>3, <2>1, <3>2, <4>1, <4>2 DEF Balanced, BalanceTyped, Pushed, Before, Accepted
    <3> QED
      BY <3>3, <3>4, <3>5, <3>6, <3>7 DEF Tables
  <2> QED
    BY <2>3, <2>4
<1> QED
  BY <1>1, <1>2, <1>4, <1>5, InsertCases

(* A COPY of tags moves them. *)
LEMMA CopyTagsConserves ==
    ASSUME TypeOK, TagsConserved, NEW t \in Tables, CopyTags(t)
    PROVE  TagsConserved'
<1> SUFFICES ASSUME NEW e \in Entities PROVE Balanced(e)'
  BY DEF TagsConserved, Balanced
<1>1. Balanced(e)
  BY DEF TagsConserved, Balanced
<1>2. BufferOf(t) \in Buffers
  BY BufferTyped
<1>3. /\ tagTable'[t][e] = tagTable[t][e] + tagBuf[BufferOf(t)][e]
      /\ \A u \in Tables \ {t} : tagTable'[u][e] = tagTable[u][e]
      /\ tagBuf'[BufferOf(t)][e] = 0
      /\ \A b \in Buffers \ {BufferOf(t)} : tagBuf'[b][e] = tagBuf[b][e]
      /\ calls' = calls /\ left' = left
  BY <1>2 DEF CopyTags, TypeOK, Nowhere, inputVars
<1>4. BalanceTyped(e)
  BY BalanceTypes
<1>5. CASE t = "ways"
  BY <1>1, <1>3, <1>4, <1>5 DEF Balanced, BalanceTyped, Pushed, Before, BufferOf, Buffers, Tables
<1>6. CASE t = "areas"
  BY <1>1, <1>3, <1>4, <1>6 DEF Balanced, BalanceTyped, Pushed, Before, BufferOf, Buffers, Tables
<1>7. CASE t = "nodes"
  BY <1>1, <1>3, <1>4, <1>7 DEF Balanced, BalanceTyped, Pushed, Before, BufferOf, Buffers, Tables
<1>8. CASE t = "roads"
  BY <1>1, <1>3, <1>4, <1>8 DEF Balanced, BalanceTyped, Pushed, Before, BufferOf, Buffers, Tables
<1>9. CASE t = "relations"
  BY <1>1, <1>3, <1>4, <1>9 DEF Balanced, BalanceTyped, Pushed, Before, BufferOf, Buffers, Tables
<1> QED
  BY <1>5, <1>6, <1>7, <1>8, <1>9 DEF Tables

(* Every tag that an insert pushed is in its buffer or, once, in a table    *)
(* that takes from the buffer, whatever COPY fails, whichever rows          *)
(* tryCopyBatch drops and wherever an exception ends the flush              *)
(* (NavDB.cpp:57-157, 191-296).                                             *)
THEOREM NoTagLost == Spec => []TagsConserved
<1>1. TypeOK /\ TagsConserved /\ [Next]_vars => TagsConserved'
  <2> SUFFICES ASSUME TypeOK, TagsConserved, [Next]_vars PROVE TagsConserved'
    OBVIOUS
  <2>1. CASE Call
    <3>1. CASE Insert
      BY <3>1, InsertConserves
    <3>2. CASE \E e \in Entities : Take(e)
      BY <3>2, BalancedSame DEF Take, dbVars
    <3>3. CASE FinalizeWays \/ Finalize \/ Destroy \/ Destroyed
      BY <3>3, BalancedSame DEF FinalizeWays, Finalize, Destroy, Destroyed, dbVars, inputVars
    <3> QED
      BY <2>1, <3>1, <3>2, <3>3 DEF Call
  <2>2. CASE SkipFlush
    BY <2>2, BalancedSame DEF SkipFlush, dbVars, inputVars
  <2>3. ASSUME NEW t \in Tables, CopyTags(t) PROVE TagsConserved'
    BY <2>3, CopyTagsConserves
  <2>4. ASSUME NEW t \in Tables,
               CopyRows(t) \/ CopyFails(t) \/ RetryStores(t) \/ RetrySkips(t)
                 \/ RetryEnds(t) \/ TagsFail(t)
        PROVE  TagsConserved'
    BY <2>4, BalancedSame
    DEF CopyRows, CopyFails, RetryStores, RetrySkips, RetryEnds, TagsFail, dbVars, inputVars
  <2>5. CASE UNCHANGED vars
    BY <2>5, BalancedSame DEF vars, dbVars, inputVars
  <2> QED
    BY <2>1, <2>2, <2>3, <2>4, <2>5 DEF Next, Flush
<1> QED
  BY WriterTyped, InitConserved, <1>1, PTL DEF Spec

------------------------------------------------------------------------------
(* Rows with their tags, and all of them: what the plan, the buffers and    *)
(* the tables have to do with each other between two steps                  *)

Running == stage \notin {"done", "dead"}

InSeq(p, o) == \E k \in 1 .. Len(p) : p[k] = o

(* The entities that are given to insert* of a table *)
Belongs(e, t) == InTable(e, t) \/ (t = "nodes" /\ Kind[e] = "node")

Fits(o) ==
    /\ o.op = "insert" => /\ o.entity \in given /\ stage = StageOf(o.entity)
                          /\ Belongs(o.entity, o.table)
    /\ o.op = "tags" => o.table = "nodes" /\ stage = "finishing"
    /\ stage = "nodes" => o.table = "nodes"

(* finalize_roads comes right after each insertRoad. *)
RoadsFlushed(p) ==
    \A k \in 1 .. Len(p) :
       (p[k].op = "insert" /\ p[k].table = "roads")
          => (k < Len(p) /\ p[k + 1] = FlushOp("roads"))

PlanFits == (\A k \in 1 .. Len(plan) : Fits(plan[k])) /\ RoadsFlushed(plan)

StepFits == step # "copy" => (plan # <<>> /\ Head(plan).op = "flush")

(* Where rows can be buffered, of the tables that share a tag buffer and of *)
(* those no flush of the destructor is to find filled. The tags of roads    *)
(* never wait beside those of nodes.                                        *)
Homes ==
    /\ rowBuf["nodes"] # {} => (stage = "nodes" \/ (stage = "finishing" /\ Flushing("nodes")))
    /\ rowBuf["ways"] # {} => (stage = "ways" \/ (stage = "relations" /\ Flushing("ways")))
    /\ rowBuf["roads"] # {} => (stage = "relations" /\ Flushing("roads"))

Shape == Running => (PlanFits /\ StepFits /\ Homes)

(* A buffered row has its tags in the buffer its table's flush will copy, *)
BufferedTagged ==
    Running => \A t \in Tables \ {"relations"} : \A e \in rowBuf[t] \cap Kept :
                  tagBuf[BufferOf(t)][e] > 0

(* and a committed one without tags is still buffered. *)
CommittedTagged ==
    \A t \in Tables \ {"relations"} : \A e \in table[t] \cap Kept :
       \/ tagTable[t][e] > 0
       \/ MidFlush(t) /\ e \in rowBuf[t]
       \/ t = "areas" /\ swallowed

(* What each entity is given to *)
LEMMA KindsApart ==
    ASSUME NEW e \in Entities
    PROVE  /\ Belongs(e, "nodes") => StageOf(e) = "nodes"
           /\ Belongs(e, "ways") => StageOf(e) = "ways"
           /\ Belongs(e, "roads") => StageOf(e) = "relations"
           /\ StageOf(e) = "nodes" => Kind[e] = "node"
           /\ StageOf(e) \in {"nodes", "ways", "relations"}
<1>1. Kind[e] \in Kinds
  BY EntitiesAssumption
<1> QED
  BY <1>1 DEF Kinds, Belongs, InTable, StageOf

(* The operations of a handler *)
LEMMA HandlerFits ==
    ASSUME NEW e \in Entities, e \in given, stage = StageOf(e)
    PROVE  /\ \A k \in 1 .. Len(Handler(e)) : Fits(Handler(e)[k])
           /\ RoadsFlushed(Handler(e))
<1>0. Kind[e] \in Kinds
  BY EntitiesAssumption
<1>1. /\ \A t \in Tables : Belongs(e, t) => Fits(InsertOp(t, e)) \/ stage = "nodes"
      /\ stage # "nodes" => Fits(FlushOp("roads"))
      /\ stage = "nodes" /\ Belongs(e, "nodes") => Fits(InsertOp("nodes", e))
  BY DEF Fits, InsertOp, FlushOp
<1>2. /\ \A t \in Tables : InsertOp(t, e).op = "insert" /\ InsertOp(t, e).table = t
      /\ FlushOp("roads").op = "flush"
  BY DEF InsertOp, FlushOp
<1>3. {"nodes", "ways", "areas", "roads", "relations"} = Tables
  BY DEF Tables
<1>4. CASE Kind[e] = "node"
  <2>1. Handler(e) = <<InsertOp("nodes", e)>>
    BY <1>4 DEF Handler
  <2>2. Belongs(e, "nodes") /\ stage = "nodes"
    BY <1>4 DEF Belongs, StageOf
  <2> QED
    BY <1>1, <1>2, <1>3, <2>1, <2>2 DEF RoadsFlushed
<1>5. ASSUME NEW t \in {"ways", "areas", "relations"}, Belongs(e, t), stage # "nodes",
             Handler(e) = <<InsertOp(t, e), FlushOp("roads")>>
      PROVE  /\ \A k \in 1 .. Len(Handler(e)) : Fits(Handler(e)[k])
             /\ RoadsFlushed(Handler(e))
  <2>1. Fits(InsertOp(t, e)) /\ Fits(FlushOp("roads"))
    BY <1>1, <1>3, <1>5
  <2> QED
    BY <1>2, <1>3, <1>5, <2>1 DEF RoadsFlushed
<1>6. CASE Kind[e] = "way"
  <2>1. Handler(e) = <<InsertOp("ways", e), FlushOp("roads")>>
    BY <1>6 DEF Handler
  <2> QED
    BY <1>5, <1>6, <2>1 DEF Belongs, InTable, StageOf
<1>7. CASE Kind[e] \in {"area", "multi"}
  <2>1. Handler(e) = <<InsertOp("areas", e), FlushOp("roads")>>
    BY <1>7 DEF Handler
  <2>2. Belongs(e, "areas") /\ stage # "nodes"
    BY <1>7 DEF Belongs, InTable, StageOf
  <2> QED
    BY <1>5, <2>1, <2>2
<1>8. CASE Kind[e] = "relation"
  <2>1. Handler(e) = <<InsertOp("relations", e), FlushOp("roads")>>
    BY <1>8 DEF Handler
  <2> QED
    BY <1>5, <1>8, <2>1 DEF Belongs, InTable, StageOf
<1>9. CASE Kind[e] = "road"
  <2>1. Handler(e) = <<InsertOp("relations", e), InsertOp("roads", e), FlushOp("roads")>>
    BY <1>9 DEF Handler
  <2>2. Belongs(e, "relations") /\ Belongs(e, "roads") /\ stage # "nodes"
    BY <1>9 DEF Belongs, InTable, StageOf
  <2>3. Fits(InsertOp("relations", e)) /\ Fits(InsertOp("roads", e)) /\ Fits(FlushOp("roads"))
    BY <1>1, <1>3, <2>2
  <2> QED
    BY <1>2, <1>3, <2>1, <2>3 DEF RoadsFlushed
<1> QED
  BY <1>0, <1>4, <1>6, <1>7, <1>8, <1>9 DEF Kinds

(* The rest of a plan *)
LEMMA TailAt ==
    ASSUME NEW p \in Seq(Ops), p # <<>>
    PROVE  /\ Len(Tail(p)) = Len(p) - 1 /\ Len(p) \in Nat /\ Len(p) > 0
           /\ \A k \in 1 .. Len(Tail(p)) : Tail(p)[k] = p[k + 1] /\ k + 1 \in 1 .. Len(p)
           /\ Head(p) = p[1] /\ 1 \in 1 .. Len(p)
OBVIOUS

LEMMA TailFits ==
    ASSUME plan \in Seq(Ops), plan # <<>>, PlanFits
    PROVE  /\ \A k \in 1 .. Len(Tail(plan)) : Fits(Tail(plan)[k])
           /\ RoadsFlushed(Tail(plan))
<1>1. \A k \in 1 .. Len(Tail(plan)) : Fits(Tail(plan)[k])
  BY TailAt DEF PlanFits
<1>2. ASSUME NEW k \in 1 .. Len(Tail(plan)), Tail(plan)[k].op = "insert",
             Tail(plan)[k].table = "roads"
      PROVE  k < Len(Tail(plan)) /\ Tail(plan)[k + 1] = FlushOp("roads")
  <2>1. /\ k + 1 \in 1 .. Len(plan) /\ plan[k + 1].op = "insert" /\ plan[k + 1].table = "roads"
        /\ Len(Tail(plan)) = Len(plan) - 1 /\ Len(plan) \in Nat
    BY <1>2, TailAt
  <2>2. k + 1 < Len(plan) /\ plan[(k + 1) + 1] = FlushOp("roads")
    BY <2>1 DEF PlanFits, RoadsFlushed
  <2>3. k + 1 \in 1 .. Len(Tail(plan))
    BY <2>1, <2>2
  <2> QED
    BY <2>1, <2>2, <2>3, TailAt
<1> QED
  BY <1>1, <1>2 DEF RoadsFlushed

(* A flush that a full buffer puts before the rest of the plan *)
LEMMA FlushBefore ==
    ASSUME NEW p \in Seq(Ops), NEW t \in Tables,
           \A k \in 1 .. Len(p) : Fits(p[k]), RoadsFlushed(p),
           stage = "nodes" => t = "nodes"
    PROVE  /\ \A k \in 1 .. Len(<<FlushOp(t)>> \o p) : Fits((<<FlushOp(t)>> \o p)[k])
           /\ RoadsFlushed(<<FlushOp(t)>> \o p)
<1> DEFINE q == <<FlushOp(t)>> \o p
<1>1. /\ Len(q) = Len(p) + 1 /\ Len(p) \in Nat /\ q[1] = FlushOp(t)
      /\ \A k \in 1 .. Len(p) : q[k + 1] = p[k]
  BY OpsTyped
<1>2. FlushOp(t).op = "flush" /\ FlushOp(t).table = t
  BY DEF FlushOp
<1> HIDE DEF q
<1>3. ASSUME NEW k \in 1 .. Len(q)
      PROVE  /\ Fits(q[k])
             /\ (q[k].op = "insert" /\ q[k].table = "roads")
                   => (k < Len(q) /\ q[k + 1] = FlushOp("roads"))
  <2>1. CASE k = 1
    BY <1>1, <1>2, <2>1 DEF Fits
  <2>2. CASE k # 1
    <3>1. k - 1 \in 1 .. Len(p) /\ q[k] = p[k - 1]
      BY <1>1, <2>2
    <3>2. ASSUME p[k - 1].op = "insert", p[k - 1].table = "roads"
          PROVE  k < Len(q) /\ q[k + 1] = FlushOp("roads")
      <4>1. k - 1 < Len(p) /\ p[(k - 1) + 1] = FlushOp("roads")
        BY <3>1, <3>2 DEF RoadsFlushed
      <4>2. k \in 1 .. Len(p) /\ p[k] = FlushOp("roads")
        BY <3>1, <4>1, <1>1
      <4> QED
        BY <4>1, <4>2, <1>1
    <3> QED
      BY <3>1, <3>2
  <2> QED
    BY <2>1, <2>2
<1> QED
  BY <1>3 DEF RoadsFlushed, q

LEMMA InSeqTail ==
    ASSUME NEW p \in Seq(Ops), p # <<>>, NEW o, InSeq(p, o), Head(p) # o
    PROVE  InSeq(Tail(p), o)
<1>1. PICK k \in 1 .. Len(p) : p[k] = o
  BY DEF InSeq
<1>2. k # 1
  BY <1>1, TailAt
<1>3. k - 1 \in 1 .. Len(Tail(p)) /\ Tail(p)[k - 1] = p[(k - 1) + 1]
  BY <1>2, TailAt
<1> QED
  BY <1>1, <1>3 DEF InSeq

LEMMA InSeqAfter ==
    ASSUME NEW p \in Seq(Ops), NEW f \in Ops, NEW o, InSeq(p, o)
    PROVE  InSeq(<<f>> \o p, o)
<1>1. PICK k \in 1 .. Len(p) : p[k] = o
  BY DEF InSeq
<1>2. k + 1 \in 1 .. Len(<<f>> \o p) /\ (<<f>> \o p)[k + 1] = p[k]
  OBVIOUS
<1> QED
  BY <1>1, <1>2 DEF InSeq

(* Steps that keep the plan, or take its head off, and buffer no row *)
LEMMA ShapeKept ==
    ASSUME Running, Shape, plan' = plan, stage' = stage, given' = given,
           \A t \in Tables : rowBuf'[t] \subseteq rowBuf[t],
           step' # "copy" => (plan # <<>> /\ Head(plan).op = "flush")
    PROVE  Shape'
<1>1. PlanFits'
  BY DEF Shape, PlanFits, Fits, RoadsFlushed, Belongs, InTable
<1>2. rowBuf'["nodes"] \subseteq rowBuf["nodes"] /\ rowBuf'["ways"] \subseteq rowBuf["ways"]
      /\ rowBuf'["roads"] \subseteq rowBuf["roads"]
  BY DEF Tables
<1>3. Homes'
  BY <1>2 DEF Shape, Homes, Flushing
<1> QED
  BY <1>1, <1>3 DEF Shape, StepFits

LEMMA ShapePop ==
    ASSUME TypeOK, Running, Shape, plan # <<>>, plan' = Tail(plan), stage' = stage,
           given' = given, step' = "copy",
           \A t \in Tables : rowBuf'[t] \subseteq rowBuf[t],
           \A t \in Tables : Flushing(t) => rowBuf'[t] = {}
    PROVE  Shape'
<1>1. PlanFits'
  <2>1. plan \in Seq(Ops) /\ PlanFits
    BY DEF TypeOK, Shape
  <2> QED
    BY <2>1, TailFits DEF PlanFits, Fits, RoadsFlushed, Belongs, InTable
<1>2. ASSUME NEW t \in Tables, rowBuf'[t] # {} PROVE rowBuf[t] # {} /\ ~Flushing(t)
  BY <1>2
<1>3. {"nodes", "ways", "roads"} \subseteq Tables
  BY DEF Tables
<1>4. Homes'
  BY <1>2, <1>3 DEF Shape, Homes
<1> QED
  BY <1>1, <1>4 DEF Shape, StepFits

(* The calls that make a plan *)
LEMMA TakeShape ==
    ASSUME TypeOK, Running, Shape, NEW e \in Entities, Take(e)
    PROVE  Shape'
<1>1. /\ plan = <<>> /\ e \in given /\ stage = StageOf(e) /\ plan' = Handler(e)
      /\ stage' = stage /\ step' = step /\ rowBuf' = rowBuf /\ given' = given
  BY DEF Take, TypeOK
<1>2. PlanFits'
  BY <1>1, HandlerFits DEF PlanFits, Fits, RoadsFlushed, Belongs, InTable
<1>3. Homes'
  BY <1>1 DEF Shape, Homes, Flushing
<1> QED
  BY <1>1, <1>2, <1>3 DEF Shape, StepFits

(* A plan of flushes and of copies of nodes' tags *)
LEMMA FlushesFit ==
    ASSUME \A k \in 1 .. Len(plan') :
              /\ plan'[k].op \in {"flush", "tags"}
              /\ plan'[k].op = "tags" => (plan'[k].table = "nodes" /\ stage' = "finishing"),
           stage' # "nodes"
    PROVE  PlanFits'
BY DEF PlanFits, Fits, RoadsFlushed

LEMMA EndShape ==
    ASSUME TypeOK, Running, Shape, FinalizeWays \/ Finalize \/ Destroy \/ Destroyed
    PROVE  Shape'
<1> USE DEF FlushOp, TagsOp
<1>1. CASE FinalizeWays
  <2>1. /\ stage = "ways" /\ plan = <<>> /\ stage' = "relations" /\ step' = step
        /\ plan' = <<FlushOp("ways"), FlushOp("areas")>> /\ rowBuf' = rowBuf
    BY <1>1 DEF FinalizeWays
  <2>2. PlanFits'
    BY <2>1, FlushesFit
  <2>3. Homes'
    BY <2>1 DEF Shape, Homes, Flushing
  <2> QED
    BY <2>1, <2>2, <2>3 DEF Shape, StepFits
<1>2. CASE Finalize
  <2>1. /\ stage \in {"nodes", "relations"} /\ plan = <<>> /\ stage' = "finishing"
        /\ step' = step /\ rowBuf' = rowBuf
        /\ stage = "nodes" => plan' = <<FlushOp("nodes"), TagsOp("nodes")>>
        /\ stage # "nodes" => plan' = <<FlushOp("relations")>>
    BY <1>2 DEF Finalize
  <2>2. PlanFits'
    <3>1. CASE stage = "nodes"
      <4>1. plan' = <<FlushOp("nodes"), TagsOp("nodes")>> /\ stage' = "finishing"
        BY <2>1, <3>1
      <4> QED
        BY <4>1, FlushesFit
    <3>2. CASE stage # "nodes"
      <4>1. plan' = <<FlushOp("relations")>> /\ stage' = "finishing"
        BY <2>1, <3>2
      <4> QED
        BY <4>1, FlushesFit
    <3> QED
      BY <3>1, <3>2
  <2>3. Homes'
    BY <2>1 DEF Shape, Homes, Flushing
  <2> QED
    BY <2>1, <2>2, <2>3 DEF Shape, StepFits
<1>3. CASE Destroy
  <2>1. /\ stage = "finishing" /\ plan = <<>> /\ stage' = "closing"
        /\ step' = step /\ rowBuf' = rowBuf
        /\ plan' = <<FlushOp("nodes"), FlushOp("ways"), FlushOp("areas"),
                     FlushOp("roads"), FlushOp("relations")>>
    BY <1>3 DEF Destroy
  <2>2. PlanFits'
    BY <2>1, FlushesFit
  <2>3. Homes'
    BY <2>1 DEF Shape, Homes, Flushing
  <2> QED
    BY <2>1, <2>2, <2>3 DEF Shape, StepFits
<1>4. CASE Destroyed
  BY <1>4 DEF Destroyed, Shape, Running
<1> QED
  BY <1>1, <1>2, <1>3, <1>4

(* The row an insert buffers *)
LEMMA InsertAt ==
    ASSUME TypeOK, Running, Shape, Insert
    PROVE  \E t \in Tables, e \in Entities :
              /\ Head(plan) = InsertOp(t, e) /\ e \in given
              /\ stage = StageOf(e) /\ Belongs(e, t)
              /\ stage = "nodes" => t = "nodes"
              /\ \A u \in Tables : ~Flushing(u)
              /\ step = "copy"
              /\ \/ /\ t = "nodes" /\ e \notin Tagged
                    /\ plan' = Tail(plan) /\ tagBuf' = tagBuf /\ rowBuf' = rowBuf
                 \/ /\ tagBuf' = [tagBuf EXCEPT ![BufferOf(t)][e] = @ + Accepted(e)]
                    /\ rowBuf' = [rowBuf EXCEPT ![t] = rowBuf[t] \cup {e}]
                    /\ t = "nodes" => e \in Tagged
                    /\ plan' \in {<<FlushOp(t)>> \o Tail(plan), Tail(plan)}
<1>1. plan # <<>> /\ Head(plan).op = "insert" /\ plan \in Seq(Ops)
  BY DEF Insert, TypeOK
<1>2. Head(plan) \in Ops
  BY <1>1, HeadTyped
<1>3. PICK t \in Tables, e \in Entities : Head(plan) = [op |-> "insert", table |-> t, entity |-> e]
  BY <1>1, <1>2 DEF Ops
<1>4. t = Head(plan).table /\ e = Head(plan).entity
  BY <1>3
<1>5. Fits(Head(plan))
  BY <1>1, TailAt DEF Shape, PlanFits
<1>6. /\ e \in given /\ stage = StageOf(e) /\ Belongs(e, t) /\ (stage = "nodes" => t = "nodes")
  BY <1>1, <1>4, <1>5 DEF Fits
<1>7. (\A u \in Tables : ~Flushing(u)) /\ step = "copy"
  BY <1>1 DEF Flushing, Shape, StepFits
<1>8. \/ /\ t = "nodes" /\ e \notin Tagged
         /\ plan' = Tail(plan) /\ tagBuf' = tagBuf /\ rowBuf' = rowBuf
      \/ /\ tagBuf' = [tagBuf EXCEPT ![BufferOf(t)][e] = @ + Accepted(e)]
         /\ rowBuf' = [rowBuf EXCEPT ![t] = rowBuf[t] \cup {e}]
         /\ t = "nodes" => e \in Tagged
         /\ plan' \in {<<FlushOp(t)>> \o Tail(plan), Tail(plan)}
  <2>1. CASE t = "nodes" /\ e \notin Tagged
    BY <1>4, <2>1 DEF Insert
  <2>2. CASE ~(t = "nodes" /\ e \notin Tagged)
    BY <1>4, <2>2, Zenon DEF Insert
  <2> QED
    BY <2>1, <2>2
<1> QED
  BY <1>3, <1>6, <1>7, <1>8 DEF InsertOp

LEMMA InsertShape ==
    ASSUME TypeOK, Running, Shape, Insert
    PROVE  Shape'
<1>1. PICK t \in Tables, e \in Entities :
              /\ Head(plan) = InsertOp(t, e) /\ e \in given
              /\ stage = StageOf(e) /\ Belongs(e, t)
              /\ stage = "nodes" => t = "nodes"
              /\ \A u \in Tables : ~Flushing(u)
              /\ step = "copy"
              /\ \/ /\ t = "nodes" /\ e \notin Tagged
                    /\ plan' = Tail(plan) /\ tagBuf' = tagBuf /\ rowBuf' = rowBuf
                 \/ /\ tagBuf' = [tagBuf EXCEPT ![BufferOf(t)][e] = @ + Accepted(e)]
                    /\ rowBuf' = [rowBuf EXCEPT ![t] = rowBuf[t] \cup {e}]
                    /\ t = "nodes" => e \in Tagged
                    /\ plan' \in {<<FlushOp(t)>> \o Tail(plan), Tail(plan)}
  BY InsertAt
<1>2. stage' = stage /\ step' = step /\ given' = given
  BY InsertKeeps
<1>3. plan # <<>> /\ plan \in Seq(Ops) /\ Tail(plan) \in Seq(Ops)
  BY HeadTyped DEF Insert, TypeOK
<1>4. /\ \A k \in 1 .. Len(Tail(plan)) : Fits(Tail(plan)[k])
      /\ RoadsFlushed(Tail(plan))
  BY <1>3, TailFits DEF Shape
<1>5. /\ \A k \in 1 .. Len(<<FlushOp(t)>> \o Tail(plan)) : Fits((<<FlushOp(t)>> \o Tail(plan))[k])
      /\ RoadsFlushed(<<FlushOp(t)>> \o Tail(plan))
  BY <1>1, <1>3, <1>4, FlushBefore
<1>6. plan' \in {<<FlushOp(t)>> \o Tail(plan), Tail(plan)}
  BY <1>1
<1>7. PlanFits'
  <2>1. (\A k \in 1 .. Len(plan') : Fits(plan'[k])) /\ RoadsFlushed(plan')
    BY <1>4, <1>5, <1>6
  <2> QED
    BY <1>2, <2>1 DEF PlanFits, Fits, RoadsFlushed, Belongs, InTable
<1>8. t = "roads" => \E q \in Seq(Ops) : plan' = <<FlushOp("roads")>> \o q
  <2> SUFFICES ASSUME t = "roads" PROVE \E q \in Seq(Ops) : plan' = <<FlushOp("roads")>> \o q
    OBVIOUS
  <2>1. CASE plan' = <<FlushOp(t)>> \o Tail(plan)
    BY <1>3, <2>1
  <2>2. CASE plan' = Tail(plan)
    <3>1. plan[1].op = "insert" /\ plan[1].table = "roads" /\ 1 \in 1 .. Len(plan)
      BY <1>1, <1>3, TailAt DEF InsertOp
    <3>2. 1 < Len(plan) /\ plan[1 + 1] = FlushOp("roads")
      BY <3>1 DEF Shape, PlanFits, RoadsFlushed
    <3>3. Tail(plan) # <<>> /\ Tail(plan)[1] = FlushOp("roads")
      <4>1. 1 \in 1 .. Len(Tail(plan))
        BY <1>3, <3>2, TailAt
      <4>2. Tail(plan)[1] = plan[1 + 1]
        BY <1>3, <4>1, TailAt
      <4>3. Tail(plan) # <<>>
        <5>1. 1 .. Len(<<>>) = {}
          OBVIOUS
        <5> QED
          BY <4>1, <5>1, Zenon
      <4> QED
        BY <3>2, <4>2, <4>3
    <3>4. Tail(plan) = <<FlushOp("roads")>> \o Tail(Tail(plan)) /\ Tail(Tail(plan)) \in Seq(Ops)
      BY <1>3, <3>3
    <3> QED
      BY <2>2, <3>4
  <2> QED
    BY <1>6, <2>1, <2>2
<1>9. t = "roads" => Flushing("roads")'
  <2>1. \A q \in Seq(Ops) : <<FlushOp("roads")>> \o q # <<>>
                            /\ Head(<<FlushOp("roads")>> \o q) = FlushOp("roads")
    BY OpsTyped DEF Tables
  <2> QED
    BY <1>8, <2>1 DEF Flushing, FlushOp
<1>10. \A u \in Tables \ {t} : rowBuf'[u] = rowBuf[u]
  BY <1>1 DEF TypeOK
<1>11. Homes'
  <2>1. {"nodes", "ways", "roads"} \subseteq Tables
    BY DEF Tables
  <2>2. ("nodes" # t \/ stage = "nodes") /\ ("ways" # t \/ stage = "ways")
        /\ ("roads" # t \/ stage = "relations")
    BY <1>1, KindsApart
  <2>3. rowBuf'["nodes"] # {} => stage = "nodes"
    BY <1>1, <1>10, <2>1, <2>2 DEF Shape, Homes
  <2>4. rowBuf'["ways"] # {} => stage = "ways"
    BY <1>1, <1>10, <2>1, <2>2 DEF Shape, Homes
  <2>5. rowBuf'["roads"] # {} => t = "roads"
    BY <1>1, <1>10, <2>1 DEF Shape, Homes
  <2> QED
    BY <1>2, <1>9, <2>2, <2>3, <2>4, <2>5 DEF Homes
<1> QED
  BY <1>1, <1>2, <1>7, <1>11 DEF Shape, StepFits

(* An exception ends the thread. *)
LEMMA ThrowStops ==
    ASSUME Throw
    PROVE  /\ stage' \in {"done", "dead"}
           /\ stage = "closing" => (stage' = "done" /\ swallowed' = TRUE /\ plan' = <<>>)
           /\ stage # "closing" => (stage' = "dead" /\ swallowed' = swallowed /\ plan' = plan)
BY DEF Throw

LEMMA FlushShape ==
    ASSUME TypeOK, Running, Shape, Flush
    PROVE  Shape'
<1> USE DEF inputVars, dbVars
<1>1. CASE SkipFlush
  <2>1. PICK t \in Tables : Flushing(t) /\ rowBuf[t] = {}
    BY <1>1 DEF SkipFlush
  <2>2. /\ plan # <<>> /\ plan' = Tail(plan) /\ stage' = stage /\ given' = given
        /\ step' = "copy" /\ rowBuf' = rowBuf
    BY <1>1, <2>1 DEF SkipFlush, Flushing
  <2>3. \A u \in Tables : Flushing(u) => rowBuf'[u] = {}
    BY <2>1, <2>2 DEF Flushing
  <2> QED
    BY <2>2, <2>3, ShapePop
<1>2. ASSUME NEW t \in Tables, CopyRows(t) \/ RetryStores(t) \/ RetryEnds(t) PROVE Shape'
  <2>1. /\ Flushing(t) /\ plan' = plan /\ stage' = stage /\ given' = given /\ rowBuf' = rowBuf
    BY <1>2 DEF CopyRows, RetryStores, RetryEnds
  <2> QED
    BY <2>1, ShapeKept DEF Flushing
<1>3. ASSUME NEW t \in Tables, RetrySkips(t) PROVE Shape'
  <2>1. /\ Flushing(t) /\ plan' = plan /\ stage' = stage /\ given' = given /\ step' = step
    BY <1>3 DEF RetrySkips
  <2>2. PICK e \in rowBuf[t] : rowBuf' = [rowBuf EXCEPT ![t] = @ \ {e}]
    BY <1>3 DEF RetrySkips
  <2>3. \A u \in Tables : rowBuf'[u] \subseteq rowBuf[u]
    BY <2>2 DEF TypeOK
  <2> QED
    BY <2>1, <2>3, ShapeKept DEF Flushing
<1>4. ASSUME NEW t \in Tables, CopyFails(t) PROVE Shape'
  <2>1. CASE t = "nodes"
    <3>1. stage' \in {"done", "dead"}
      BY <1>4, <2>1, ThrowStops DEF CopyFails
    <3> QED
      BY <3>1 DEF Shape, Running
  <2>2. CASE t # "nodes"
    <3>1. /\ Flushing(t) /\ plan' = plan /\ stage' = stage /\ given' = given /\ rowBuf' = rowBuf
      BY <1>4, <2>2 DEF CopyFails
    <3> QED
      BY <3>1, ShapeKept DEF Flushing
  <2> QED
    BY <2>1, <2>2
<1>5. ASSUME NEW t \in Tables, CopyTags(t) PROVE Shape'
  <2>1. /\ plan # <<>> /\ t = Head(plan).table /\ plan' = Tail(plan) /\ stage' = stage
        /\ given' = given /\ step' = "copy"
        /\ rowBuf' = [rowBuf EXCEPT ![t] = IF Head(plan).op = "flush" THEN {} ELSE @]
    BY <1>5 DEF CopyTags, AtTags
  <2>2. /\ \A u \in Tables : rowBuf'[u] \subseteq rowBuf[u]
        /\ Head(plan).op = "flush" => rowBuf'[t] = {}
    BY <2>1 DEF TypeOK
  <2>3. \A u \in Tables : Flushing(u) => rowBuf'[u] = {}
    BY <2>1, <2>2 DEF Flushing
  <2> QED
    BY <2>1, <2>2, <2>3, ShapePop
<1>6. ASSUME NEW t \in Tables, TagsFail(t) PROVE Shape'
  <2>1. stage' \in {"done", "dead"}
    BY <1>6, ThrowStops DEF TagsFail
  <2> QED
    BY <2>1 DEF Shape, Running
<1> QED
  BY <1>1, <1>2, <1>3, <1>4, <1>5, <1>6 DEF Flush

(* Between two steps the plan fits the stage, and only some buffers hold    *)
(* rows.                                                                    *)
LEMMA ShapeInit == Init => Shape
<1> SUFFICES ASSUME Init PROVE Shape
  OBVIOUS
<1>1. plan = <<>> /\ step = "copy" /\ \A t \in Tables : rowBuf[t] = {}
  BY DEF Init
<1> QED
  BY <1>1 DEF Shape, PlanFits, RoadsFlushed, StepFits, Homes, Tables

LEMMA ShapeStep == TypeOK /\ Shape /\ [Next]_vars => Shape'
<1> SUFFICES ASSUME TypeOK, Shape, [Next]_vars PROVE Shape'
  OBVIOUS
<1>1. CASE Next
  <2>1. Running
    BY <1>1 DEF Next, Running
  <2>2. CASE Call
    BY <2>1, <2>2, TakeShape, EndShape, InsertShape DEF Call
  <2>3. CASE Flush
    BY <2>1, <2>3, FlushShape
  <2> QED
    BY <1>1, <2>2, <2>3 DEF Next
<1>2. CASE UNCHANGED vars
  BY <1>2 DEF vars, inputVars, dbVars, Shape, Running, PlanFits, Fits, Belongs, InTable,
              RoadsFlushed, StepFits, Homes, Flushing
<1> QED
  BY <1>1, <1>2

(* Steps that neither buffer rows nor touch tags *)
LEMMA BufferedKept ==
    ASSUME Running, BufferedTagged, tagBuf' = tagBuf,
           \A t \in Tables : rowBuf'[t] \subseteq rowBuf[t]
    PROVE  BufferedTagged'
BY DEF BufferedTagged, Running

(* The rows that share a tag buffer with those of a flush are none. *)
LEMMA BufferAlone ==
    ASSUME TypeOK, Running, Shape, NEW t \in Tables, AtTags(t),
           NEW u \in Tables \ {"relations"}, BufferOf(u) = BufferOf(t),
           u # t \/ Head(plan).op # "flush"
    PROVE  rowBuf[u] = {}
<1>1. plan # <<>> /\ t = Head(plan).table /\ plan \in Seq(Ops) /\ Fits(Head(plan))
  BY TailAt DEF AtTags, TypeOK, Shape, PlanFits
<1>2. ~Flushing(u)
  BY <1>1 DEF Flushing
<1>3. CASE u = "roads"
  BY <1>2, <1>3 DEF Shape, Homes
<1>4. CASE u = "nodes"
  <2>1. rowBuf[u] # {} => (stage = "nodes" /\ t = "nodes" /\ Head(plan).op = "tags")
    BY <1>1, <1>2, <1>4 DEF Shape, Homes, Fits, AtTags
  <2> QED
    BY <1>1, <2>1 DEF Fits
<1>5. CASE u = "ways"
  <2>1. t = "ways" /\ Head(plan).op = "tags"
    BY <1>5 DEF BufferOf, Tables, AtTags
  <2> QED
    BY <1>1, <2>1 DEF Fits
<1>6. CASE u = "areas"
  <2>1. t = "areas" /\ Head(plan).op = "tags"
    BY <1>6 DEF BufferOf, Tables, AtTags
  <2> QED
    BY <1>1, <2>1 DEF Fits
<1> QED
  BY <1>3, <1>4, <1>5, <1>6 DEF Tables

(* An insert pushes a row and its tags together. *)
LEMMA InsertBuffers ==
    ASSUME TypeOK, Running, Shape, BufferedTagged, Insert
    PROVE  BufferedTagged'
<1>1. PICK t \in Tables, e \in Entities :
          \/ tagBuf' = tagBuf /\ rowBuf' = rowBuf
          \/ /\ tagBuf' = [tagBuf EXCEPT ![BufferOf(t)][e] = @ + Accepted(e)]
             /\ rowBuf' = [rowBuf EXCEPT ![t] = rowBuf[t] \cup {e}]
  BY InsertAt
<1>2. CASE tagBuf' = tagBuf /\ rowBuf' = rowBuf
  BY <1>2, BufferedKept
<1>3. CASE /\ tagBuf' = [tagBuf EXCEPT ![BufferOf(t)][e] = @ + Accepted(e)]
           /\ rowBuf' = [rowBuf EXCEPT ![t] = rowBuf[t] \cup {e}]
  <2> SUFFICES ASSUME NEW u \in Tables \ {"relations"}, NEW x \in rowBuf'[u] \cap Kept
               PROVE  tagBuf'[BufferOf(u)][x] > 0
    BY DEF BufferedTagged
  <2>1. x \in Entities /\ BufferOf(u) \in Buffers /\ BufferOf(t) \in Buffers
    BY EntitiesAssumption, BufferTyped
  <2>2. tagBuf \in [Buffers -> [Entities -> Nat]] /\ rowBuf \in [Tables -> SUBSET Entities]
    BY DEF TypeOK
  <2>3. Accepted(e) \in Nat /\ tagBuf[BufferOf(u)][x] \in Nat
    BY <2>1, <2>2 DEF Accepted
  <2>4. \/ tagBuf'[BufferOf(u)][x] = tagBuf[BufferOf(u)][x]
        \/ /\ BufferOf(u) = BufferOf(t) /\ x = e
           /\ tagBuf'[BufferOf(u)][x] = tagBuf[BufferOf(u)][x] + Accepted(e)
    BY <1>3, <2>1, <2>2
  <2>5. CASE x \in rowBuf[u]
    <3>1. tagBuf[BufferOf(u)][x] > 0
      BY <2>5 DEF BufferedTagged
    <3> QED
      BY <2>3, <2>4, <3>1
  <2>6. CASE x \notin rowBuf[u]
    <3>1. u = t /\ x = e
      BY <1>3, <2>2, <2>6
    <3>2. Accepted(e) = 1
      BY <3>1 DEF Accepted
    <3>3. tagBuf'[BufferOf(t)][e] = tagBuf[BufferOf(t)][e] + Accepted(e)
      BY <1>3, <2>1, <2>2
    <3> QED
      BY <2>3, <3>1, <3>2, <3>3
  <2> QED
    BY <2>5, <2>6
<1> QED
  BY <1>1, <1>2, <1>3

(* A COPY of tags empties its buffer of no tags but those of the rows it    *)
(* follows.                                                                 *)
LEMMA CopyTagsBuffers ==
    ASSUME TypeOK, Running, Shape, BufferedTagged, NEW t \in Tables, CopyTags(t)
    PROVE  BufferedTagged'
<1>1. /\ AtTags(t)
      /\ tagBuf' = [tagBuf EXCEPT ![BufferOf(t)] = Nowhere]
      /\ rowBuf' = [rowBuf EXCEPT ![t] = IF Head(plan).op = "flush" THEN {} ELSE @]
  BY DEF CopyTags
<1> SUFFICES ASSUME NEW u \in Tables \ {"relations"}, NEW x \in rowBuf'[u] \cap Kept
             PROVE  tagBuf'[BufferOf(u)][x] > 0
  BY DEF BufferedTagged
<1>2. BufferOf(u) \in Buffers /\ BufferOf(t) \in Buffers
  BY BufferTyped
<1>3. x \in rowBuf[u] /\ (u # t \/ Head(plan).op # "flush")
  BY <1>1 DEF TypeOK
<1>4. BufferOf(u) # BufferOf(t)
  BY <1>1, <1>3, BufferAlone
<1>5. tagBuf'[BufferOf(u)] = tagBuf[BufferOf(u)]
  BY <1>1, <1>2, <1>4 DEF TypeOK
<1> QED
  BY <1>3, <1>5 DEF BufferedTagged

LEMMA BufferedInit == Init => BufferedTagged
<1> SUFFICES ASSUME Init PROVE BufferedTagged
  OBVIOUS
<1>1. \A t \in Tables : rowBuf[t] = {}
  BY DEF Init
<1> QED
  BY <1>1 DEF BufferedTagged

LEMMA BufferedStep == TypeOK /\ Shape /\ BufferedTagged /\ [Next]_vars => BufferedTagged'
<1> SUFFICES ASSUME TypeOK, Shape, BufferedTagged, [Next]_vars PROVE BufferedTagged'
  OBVIOUS
<1>1. CASE UNCHANGED vars
  BY <1>1 DEF vars, BufferedTagged, Running
<1>2. CASE Next
  <2>1. Running
    BY <1>2 DEF Next, Running
  <2>2. CASE Insert
    BY <2>1, <2>2, InsertBuffers
  <2>3. CASE (\E e \in Entities : Take(e)) \/ FinalizeWays \/ Finalize \/ Destroy \/ Destroyed
             \/ SkipFlush
    <3>1. tagBuf' = tagBuf /\ rowBuf' = rowBuf
      BY <2>3 DEF Take, FinalizeWays, Finalize, Destroy, Destroyed, SkipFlush
    <3> QED
      BY <2>1, <3>1, BufferedKept
  <2>4. ASSUME NEW t \in Tables,
               CopyRows(t) \/ CopyFails(t) \/ RetryStores(t) \/ RetryEnds(t) \/ TagsFail(t)
        PROVE  BufferedTagged'
    <3>1. tagBuf' = tagBuf /\ rowBuf' = rowBuf
      BY <2>4 DEF CopyRows, CopyFails, RetryStores, RetryEnds, TagsFail
    <3> QED
      BY <2>1, <3>1, BufferedKept
  <2>5. ASSUME NEW t \in Tables, RetrySkips(t) PROVE BufferedTagged'
    <3>1. tagBuf' = tagBuf /\ \E e \in rowBuf[t] : rowBuf' = [rowBuf EXCEPT ![t] = @ \ {e}]
      BY <2>5 DEF RetrySkips
    <3>2. \A u \in Tables : rowBuf'[u] \subseteq rowBuf[u]
      BY <3>1 DEF TypeOK
    <3> QED
      BY <2>1, <3>1, <3>2, BufferedKept
  <2>6. ASSUME NEW t \in Tables, CopyTags(t) PROVE BufferedTagged'
    BY <2>1, <2>6, CopyTagsBuffers
  <2> QED
    BY <1>2, <2>2, <2>3, <2>4, <2>5, <2>6 DEF Next, Call, Flush
<1> QED
  BY <1>1, <1>2

(* Steps that commit nothing while no flush is between its transactions *)
LEMMA CommittedKept ==
    ASSUME CommittedTagged, table' = table, tagTable' = tagTable,
           swallowed => swallowed', \A t \in Tables : ~MidFlush(t)
    PROVE  CommittedTagged'
BY DEF CommittedTagged

(* A COPY of rows leaves them to the tags that come next. *)
LEMMA RowsCommitted ==
    ASSUME TypeOK, CommittedTagged, NEW t \in Tables, CopyRows(t) \/ RetryStores(t)
    PROVE  CommittedTagged'
<1>1. /\ Flushing(t) /\ step # "tags" /\ step' = "tags" /\ rowBuf' = rowBuf /\ plan' = plan
      /\ table' = [table EXCEPT ![t] = @ \cup rowBuf[t]]
      /\ tagTable' = tagTable /\ swallowed' = swallowed
  BY DEF CopyRows, RetryStores
<1>2. PICK h : h = Head(plan)
  OBVIOUS
<1>3. h \in Ops /\ h.op = "flush" /\ h.table = t /\ plan # <<>>
  BY <1>1, <1>2, HeadTyped DEF Flushing, TypeOK
<1>4. h = FlushOp(t)
  BY <1>3 DEF Ops, FlushOp
<1>5. MidFlush(t)'
  BY <1>1, <1>2, <1>3, <1>4 DEF MidFlush
<1> SUFFICES ASSUME NEW u \in Tables \ {"relations"}, NEW e \in table'[u] \cap Kept
             PROVE  \/ tagTable'[u][e] > 0
                    \/ MidFlush(u)' /\ e \in rowBuf'[u]
                    \/ u = "areas" /\ swallowed'
  BY DEF CommittedTagged
<1>6. CASE e \in table[u]
  BY <1>1, <1>6 DEF CommittedTagged, MidFlush
<1>7. CASE e \notin table[u]
  <2>1. u = t /\ e \in rowBuf[t]
    BY <1>1, <1>7 DEF TypeOK
  <2> QED
    BY <1>1, <1>5, <2>1
<1> QED
  BY <1>6, <1>7

(* The tags that come next are those of the buffered rows, and no tag is    *)
(* taken from a table.                                                      *)
LEMMA TagsCommitted ==
    ASSUME TypeOK, Running, BufferedTagged, CommittedTagged, NEW t \in Tables, CopyTags(t)
    PROVE  CommittedTagged'
<1>1. /\ AtTags(t) /\ table' = table /\ swallowed' = swallowed
      /\ tagTable' = [tagTable EXCEPT ![t] = [e \in Entities |-> @[e] + tagBuf[BufferOf(t)][e]]]
  BY DEF CopyTags
<1> SUFFICES ASSUME NEW u \in Tables \ {"relations"}, NEW e \in table[u] \cap Kept
             PROVE  \/ tagTable'[u][e] > 0
                    \/ u = "areas" /\ swallowed'
  BY <1>1 DEF CommittedTagged
<1>2. e \in Entities /\ BufferOf(t) \in Buffers
  BY BufferTyped, EntitiesAssumption
<1>3. /\ tagTable[u][e] \in Nat /\ tagBuf[BufferOf(t)][e] \in Nat
      /\ tagTable'[u][e] = tagTable[u][e] + (IF u = t THEN tagBuf[BufferOf(t)][e] ELSE 0)
  BY <1>1, <1>2 DEF TypeOK
<1>4. CASE MidFlush(u) /\ e \in rowBuf[u]
  <2>1. u = t
    BY <1>1, <1>4 DEF MidFlush, AtTags, FlushOp
  <2>2. tagBuf[BufferOf(u)][e] > 0
    BY <1>4 DEF BufferedTagged
  <2> QED
    BY <1>3, <2>1, <2>2
<1>5. CASE tagTable[u][e] > 0
  BY <1>3, <1>5
<1>6. CASE u = "areas" /\ swallowed
  BY <1>1, <1>6
<1> QED
  BY <1>4, <1>5, <1>6 DEF CommittedTagged

(* Only the destructor goes on after an exception at the tags, and only     *)
(* rows of areas and relations are left to it.                              *)
LEMMA TagsFailCommitted ==
    ASSUME Running, Shape, CommittedTagged, NEW t \in Tables, TagsFail(t)
    PROVE  CommittedTagged'
<1>1. /\ table' = table /\ tagTable' = tagTable /\ rowBuf' = rowBuf /\ step' = step
  BY DEF TagsFail, dbVars
<1>2. CASE stage = "closing"
  <2>1. swallowed'
    BY <1>2, ThrowStops DEF TagsFail
  <2>2. rowBuf["nodes"] = {} /\ rowBuf["ways"] = {} /\ rowBuf["roads"] = {}
    BY <1>2 DEF Shape, Homes
  <2> SUFFICES ASSUME NEW u \in Tables \ {"relations"}, NEW e \in table[u] \cap Kept
               PROVE  tagTable[u][e] > 0 \/ u = "areas"
    BY <1>1, <2>1 DEF CommittedTagged
  <2>3. u # "areas" => rowBuf[u] = {}
    BY <2>2 DEF Tables
  <2> QED
    BY <2>3 DEF CommittedTagged
<1>3. CASE stage # "closing"
  <2>1. plan' = plan /\ swallowed' = swallowed
    BY <1>3, ThrowStops DEF TagsFail
  <2> QED
    BY <1>1, <2>1 DEF CommittedTagged, MidFlush
<1> QED
  BY <1>2, <1>3

LEMMA CommittedInit == Init => CommittedTagged
<1> SUFFICES ASSUME Init, NEW t \in Tables \ {"relations"}, NEW e \in table[t] \cap Kept
             PROVE  tagTable[t][e] > 0
  BY DEF CommittedTagged
<1>1. t = "areas" /\ e \in left
  BY DEF Init
<1>2. e \in Entities /\ "areas" \in Tables
  BY EntitiesAssumption DEF Tables
<1>3. tagTable["areas"] = [x \in Entities |-> IF x \in left \cap Kept THEN 1 ELSE 0]
  BY <1>2 DEF Init
<1> QED
  BY <1>1, <1>2, <1>3

LEMMA CommittedStep ==
    TypeOK /\ Shape /\ BufferedTagged /\ CommittedTagged /\ [Next]_vars => CommittedTagged'
<1> SUFFICES ASSUME TypeOK, Shape, BufferedTagged, CommittedTagged, [Next]_vars
             PROVE  CommittedTagged'
  OBVIOUS
<1> USE DEF dbVars
<1>1. CASE UNCHANGED vars
  BY <1>1 DEF vars, CommittedTagged, MidFlush
<1>2. CASE Next
  <2>1. Running
    BY <1>2 DEF Next, Running
  <2>2. CASE (\E e \in Entities : Take(e)) \/ FinalizeWays \/ Finalize \/ Destroy \/ Destroyed
    <3>1. table' = table /\ tagTable' = tagTable /\ swallowed' = swallowed /\ plan = <<>>
      BY <2>2 DEF Take, FinalizeWays, Finalize, Destroy, Destroyed
    <3> QED
      BY <3>1, CommittedKept DEF MidFlush
  <2>3. CASE Insert
    <3>1. table' = table /\ tagTable' = tagTable /\ swallowed' = swallowed
          /\ Head(plan).op = "insert"
      BY <2>3, InsertKeeps DEF Insert
    <3> QED
      BY <3>1, CommittedKept DEF MidFlush, FlushOp
  <2>4. CASE SkipFlush
    <3>1. table' = table /\ tagTable' = tagTable /\ swallowed' = swallowed /\ step = "copy"
      BY <2>4 DEF SkipFlush
    <3> QED
      BY <3>1, CommittedKept DEF MidFlush
  <2>5. ASSUME NEW t \in Tables, CopyFails(t) \/ RetrySkips(t) \/ RetryEnds(t)
        PROVE  CommittedTagged'
    <3>1. table' = table /\ tagTable' = tagTable /\ step # "tags"
      BY <2>5 DEF CopyFails, RetrySkips, RetryEnds
    <3>2. swallowed => swallowed'
      BY <2>5, ThrowStops DEF CopyFails, RetrySkips, RetryEnds
    <3> QED
      BY <3>1, <3>2, CommittedKept DEF MidFlush
  <2>6. ASSUME NEW t \in Tables, CopyRows(t) \/ RetryStores(t) PROVE CommittedTagged'
    BY <2>6, RowsCommitted
  <2>7. ASSUME NEW t \in Tables, CopyTags(t) PROVE CommittedTagged'
    BY <2>1, <2>7, TagsCommitted
  <2>8. ASSUME NEW t \in Tables, TagsFail(t) PROVE CommittedTagged'
    BY <2>1, <2>8, TagsFailCommitted
  <2> QED
    BY <1>2, <2>2, <2>3, <2>4, <2>5, <2>6, <2>7, <2>8 DEF Next, Call, Flush
<1> QED
  BY <1>1, <1>2

LEMMA TaggedBeside == CommittedTagged => RowsHaveTags
BY DEF CommittedTagged, RowsHaveTags

------------------------------------------------------------------------------
(* All rows in their tables: no row that is not due is buffered or          *)
(* committed, and as long as nothing but rows is at fault each row that is  *)
(* due is somewhere.                                                        *)

Own(t) == IF t = "areas" THEN left ELSE {}

Sound ==
    \A t \in Tables :
       /\ rowBuf[t] \subseteq {e \in given : InTable(e, t)}
       /\ table[t] \subseteq {e \in given : InTable(e, t) /\ e \notin bad} \cup Own(t)
       /\ Own(t) \subseteq table[t]

(* A flush clears its buffer after its rows are stored. *)
StoredFirst ==
    (step = "tags" /\ Running) => \A t \in Tables : Flushing(t) => rowBuf[t] \subseteq table[t]

(* A row that is due is committed, buffered, planned or not yet popped. *)
Placed ==
    stage # "dead" =>
       \A t \in Tables : \A e \in given \ bad : InTable(e, t) =>
          e \in table[t] \/ e \in rowBuf[t] \/ e \in todo \/ InSeq(plan, InsertOp(t, e))

(* The destructor has a flush for each row that is left. *)
ClosingFlushes ==
    stage = "closing" => \A t \in Tables : rowBuf[t] # {} => InSeq(plan, FlushOp(t))

Ends ==
    /\ stage \in {"finishing", "closing", "done"} => todo = {}
    /\ stage = "done" => (plan = <<>> /\ \A t \in Tables : rowBuf[t] = {})

AllPlaced == faults = 0 => (StoredFirst /\ Placed /\ ClosingFlushes /\ Ends)

(* Sound *)
LEMMA SoundKept ==
    ASSUME Sound, UNCHANGED <<given, left, bad, table>>,
           \A t \in Tables : rowBuf'[t] \subseteq rowBuf[t]
    PROVE  Sound'
BY DEF Sound, Own, InTable

LEMMA InsertSound ==
    ASSUME TypeOK, Running, Shape, Sound, Insert
    PROVE  Sound'
<1>1. PICK t \in Tables, e \in Entities :
              /\ e \in given /\ Belongs(e, t)
              /\ \/ t = "nodes" /\ e \notin Tagged /\ rowBuf' = rowBuf
                 \/ /\ rowBuf' = [rowBuf EXCEPT ![t] = rowBuf[t] \cup {e}]
                    /\ t = "nodes" => e \in Tagged
  BY InsertAt
<1>2. UNCHANGED <<given, left, bad, table>>
  BY InsertKeeps
<1>3. CASE t = "nodes" /\ e \notin Tagged /\ rowBuf' = rowBuf
  BY <1>2, <1>3, SoundKept
<1>4. CASE /\ rowBuf' = [rowBuf EXCEPT ![t] = rowBuf[t] \cup {e}]
           /\ t = "nodes" => e \in Tagged
  <2>1. InTable(e, t)
    BY <1>1, <1>4 DEF Belongs, InTable
  <2>2. \A u \in Tables : rowBuf'[u] \subseteq {x \in given : InTable(x, u)}
    BY <1>1, <1>4, <2>1 DEF Sound, TypeOK
  <2> QED
    BY <1>2, <2>2 DEF Sound, Own, InTable
<1> QED
  BY <1>1, <1>3, <1>4

LEMMA StoreSound ==
    ASSUME TypeOK, Sound, NEW t \in Tables, CopyRows(t) \/ RetryStores(t)
    PROVE  Sound'
<1>1. /\ table' = [table EXCEPT ![t] = @ \cup rowBuf[t]] /\ rowBuf' = rowBuf
      /\ UNCHANGED <<given, left, bad>> /\ Refused(t) = {}
  BY DEF CopyRows, RetryStores, inputVars
<1>2. \A e \in rowBuf[t] : e \notin bad
  BY <1>1 DEF Refused
<1>3. \A u \in Tables : \/ u # t /\ table'[u] = table[u]
                        \/ u = t /\ table'[u] = table[u] \cup rowBuf[u]
  BY <1>1 DEF TypeOK
<1>4. ASSUME NEW u \in Tables
      PROVE  /\ table'[u] \subseteq {e \in given : InTable(e, u) /\ e \notin bad} \cup Own(u)
             /\ Own(u) \subseteq table'[u]
  BY <1>2, <1>3 DEF Sound
<1> QED
  BY <1>1, <1>4 DEF Sound, Own, InTable

LEMMA SoundInit == Init => Sound
<1> SUFFICES ASSUME Init PROVE Sound
  OBVIOUS
<1>1. \A t \in Tables : rowBuf[t] = {} /\ table[t] = (IF t = "areas" THEN left ELSE {})
  BY DEF Init
<1> QED
  BY <1>1 DEF Sound, Own

LEMMA SoundStep == TypeOK /\ Shape /\ Sound /\ [Next]_vars => Sound'
<1> SUFFICES ASSUME TypeOK, Shape, Sound, [Next]_vars PROVE Sound'
  OBVIOUS
<1> USE DEF inputVars, dbVars
<1>1. CASE UNCHANGED vars
  BY <1>1, SoundKept DEF vars
<1>2. CASE Next
  <2>1. CASE Insert
    BY <1>2, <2>1, InsertSound DEF Next, Running
  <2>2. CASE (\E e \in Entities : Take(e)) \/ FinalizeWays \/ Finalize \/ Destroy \/ Destroyed
             \/ SkipFlush
    BY <2>2, SoundKept DEF Take, FinalizeWays, Finalize, Destroy, Destroyed, SkipFlush
  <2>3. ASSUME NEW t \in Tables, CopyFails(t) \/ RetryEnds(t) \/ TagsFail(t) PROVE Sound'
    BY <2>3, SoundKept DEF CopyFails, RetryEnds, TagsFail
  <2>4. ASSUME NEW t \in Tables, RetrySkips(t) PROVE Sound'
    <3>1. UNCHANGED <<given, left, bad, table>>
          /\ \E e \in rowBuf[t] : rowBuf' = [rowBuf EXCEPT ![t] = @ \ {e}]
      BY <2>4 DEF RetrySkips
    <3>2. \A u \in Tables : rowBuf'[u] \subseteq rowBuf[u]
      BY <3>1 DEF TypeOK
    <3> QED
      BY <3>1, <3>2, SoundKept
  <2>5. ASSUME NEW t \in Tables, CopyTags(t) PROVE Sound'
    <3>1. UNCHANGED <<given, left, bad, table>>
          /\ rowBuf' = [rowBuf EXCEPT ![t] = IF Head(plan).op = "flush" THEN {} ELSE @]
      BY <2>5 DEF CopyTags
    <3>2. \A u \in Tables : rowBuf'[u] \subseteq rowBuf[u]
      BY <3>1 DEF TypeOK
    <3> QED
      BY <3>1, <3>2, SoundKept
  <2>6. ASSUME NEW t \in Tables, CopyRows(t) \/ RetryStores(t) PROVE Sound'
    BY <2>6, StoreSound
  <2> QED
    BY <1>2, <2>1, <2>2, <2>3, <2>4, <2>5, <2>6 DEF Next, Call, Flush
<1> QED
  BY <1>1, <1>2

(* AllPlaced. Faults are never taken back. *)
LEMMA FaultsStay ==
    ASSUME TypeOK, Next, faults' = 0
    PROVE  faults = 0
<1>1. faults' = faults \/ faults' = faults + 1
  BY InsertKeeps
  DEF Next, Call, Flush, Take, FinalizeWays, Finalize, Destroy, Destroyed, SkipFlush, CopyRows,
      CopyFails, RetryStores, RetrySkips, RetryEnds, CopyTags, TagsFail, Fault, NoFault
<1> QED
  BY <1>1, RoomAssumption DEF TypeOK

(* An entity that is popped is planned for each of its tables, as far as it *)
(* has tags. *)
LEMMA HandlerPlaces ==
    ASSUME NEW e \in Entities, NEW t \in Tables, InTable(e, t)
    PROVE  InSeq(Handler(e), InsertOp(t, e))
<1>0. Kind[e] \in Kinds
  BY EntitiesAssumption
<1>1. CASE Kind[e] = "node"
  <2>1. Handler(e) = <<InsertOp("nodes", e)>> /\ t = "nodes"
    BY <1>1 DEF Handler, InTable, Tables
  <2> QED
    BY <2>1 DEF InSeq
<1>2. CASE Kind[e] = "way"
  <2>1. Handler(e) = <<InsertOp("ways", e), FlushOp("roads")>> /\ t = "ways"
    BY <1>2 DEF Handler, InTable, Tables
  <2> QED
    BY <2>1 DEF InSeq
<1>3. CASE Kind[e] \in {"area", "multi"}
  <2>1. Handler(e) = <<InsertOp("areas", e), FlushOp("roads")>> /\ t = "areas"
    BY <1>3 DEF Handler, InTable, Tables
  <2> QED
    BY <2>1 DEF InSeq
<1>4. CASE Kind[e] = "relation"
  <2>1. Handler(e) = <<InsertOp("relations", e), FlushOp("roads")>> /\ t = "relations"
    BY <1>4 DEF Handler, InTable, Tables
  <2> QED
    BY <2>1 DEF InSeq
<1>5. CASE Kind[e] = "road"
  <2>1. /\ Handler(e) = <<InsertOp("relations", e), InsertOp("roads", e), FlushOp("roads")>>
        /\ t \in {"relations", "roads"}
    BY <1>5 DEF Handler, InTable, Tables
  <2>2. CASE t = "relations"
    BY <2>1, <2>2 DEF InSeq
  <2>3. CASE t = "roads"
    BY <2>1, <2>3 DEF InSeq
  <2> QED
    BY <2>1, <2>2, <2>3
<1> QED
  BY <1>0, <1>1, <1>2, <1>3, <1>4, <1>5 DEF Kinds

LEMMA TakePlaced ==
    ASSUME TypeOK, Running, Shape, AllPlaced, NEW e \in Entities, Take(e), faults = 0
    PROVE  AllPlaced'
<1>1. /\ plan = <<>> /\ e \in todo /\ stage = StageOf(e) /\ todo' = todo \ {e}
      /\ plan' = Handler(e)
      /\ UNCHANGED <<stage, step, rowBuf, table, given, bad, faults>>
  BY DEF Take, dbVars
<1>2. step' # "tags"
  BY <1>1 DEF Shape, StepFits
<1>3. stage \in {"nodes", "ways", "relations"}
  BY <1>1, KindsApart
<1>4. Placed'
  <2> SUFFICES ASSUME NEW t \in Tables, NEW x \in given \ bad, InTable(x, t)
               PROVE  \/ x \in table[t] \/ x \in rowBuf[t] \/ x \in todo'
                      \/ InSeq(plan', InsertOp(t, x))
    BY <1>1 DEF Placed, InTable
  <2>1. ~InSeq(plan, InsertOp(t, x))
    BY <1>1 DEF InSeq
  <2>2. x \in table[t] \/ x \in rowBuf[t] \/ x \in todo
    BY <1>3, <2>1 DEF AllPlaced, Placed
  <2>3. x = e => InSeq(plan', InsertOp(t, x))
    BY <1>1, HandlerPlaces
  <2> QED
    BY <1>1, <2>2, <2>3
<1> QED
  BY <1>1, <1>2, <1>3, <1>4 DEF AllPlaced, StoredFirst, ClosingFlushes, Ends

LEMMA EndPlaced ==
    ASSUME TypeOK, Running, Shape, AllPlaced, faults = 0,
           FinalizeWays \/ Finalize \/ Destroy \/ Destroyed
    PROVE  AllPlaced'
<1>1. /\ plan = <<>> /\ UNCHANGED <<step, rowBuf, table, given, todo, bad, faults>>
      /\ stage' # "dead"
  BY DEF FinalizeWays, Finalize, Destroy, Destroyed, dbVars, inputVars
<1>2. step' # "tags"
  BY <1>1 DEF Shape, StepFits
<1>3. Placed'
  <2> SUFFICES ASSUME NEW t \in Tables, NEW x \in given \ bad, InTable(x, t)
               PROVE  x \in table[t] \/ x \in rowBuf[t] \/ x \in todo
    BY <1>1 DEF Placed, InTable
  <2>1. ~InSeq(plan, InsertOp(t, x))
    BY <1>1 DEF InSeq
  <2> QED
    BY <2>1 DEF AllPlaced, Placed, Running
<1>4. ClosingFlushes' /\ Ends'
  <2>1. CASE FinalizeWays \/ Finalize
    BY <1>1, <2>1 DEF FinalizeWays, Finalize, ClosingFlushes, Ends, AllPlaced
  <2>2. CASE Destroy
    <3>1. /\ stage = "finishing" /\ stage' = "closing"
          /\ plan' = <<FlushOp("nodes"), FlushOp("ways"), FlushOp("areas"),
                       FlushOp("roads"), FlushOp("relations")>>
      BY <2>2 DEF Destroy
    <3>2. /\ plan'[1] = FlushOp("nodes") /\ plan'[2] = FlushOp("ways")
          /\ plan'[3] = FlushOp("areas") /\ plan'[4] = FlushOp("roads")
          /\ plan'[5] = FlushOp("relations") /\ Len(plan') = 5
      BY <3>1
    <3>3. ASSUME NEW t \in Tables PROVE \E k \in 1 .. 5 : plan'[k] = FlushOp(t)
      BY <3>2 DEF Tables
    <3> QED
      BY <1>1, <3>1, <3>2, <3>3 DEF ClosingFlushes, InSeq, Ends, AllPlaced
  <2>3. CASE Destroyed
    <3>1. stage = "closing" /\ stage' = "done" /\ plan' = <<>>
      BY <1>1, <2>3 DEF Destroyed
    <3>2. \A t \in Tables : ~InSeq(plan, FlushOp(t))
      BY <1>1 DEF InSeq
    <3> QED
      BY <1>1, <3>1, <3>2 DEF ClosingFlushes, Ends, AllPlaced
  <2> QED
    BY <2>1, <2>2, <2>3
<1> QED
  BY <1>1, <1>2, <1>3, <1>4 DEF AllPlaced, StoredFirst

LEMMA InsertPlaced ==
    ASSUME TypeOK, Running, Shape, AllPlaced, Insert, faults = 0
    PROVE  AllPlaced'
<1>1. PICK t \in Tables, e \in Entities :
              /\ Head(plan) = InsertOp(t, e) /\ e \in given
              /\ stage = StageOf(e) /\ Belongs(e, t)
              /\ stage = "nodes" => t = "nodes"
              /\ \A u \in Tables : ~Flushing(u)
              /\ step = "copy"
              /\ \/ /\ t = "nodes" /\ e \notin Tagged
                    /\ plan' = Tail(plan) /\ tagBuf' = tagBuf /\ rowBuf' = rowBuf
                 \/ /\ tagBuf' = [tagBuf EXCEPT ![BufferOf(t)][e] = @ + Accepted(e)]
                    /\ rowBuf' = [rowBuf EXCEPT ![t] = rowBuf[t] \cup {e}]
                    /\ t = "nodes" => e \in Tagged
                    /\ plan' \in {<<FlushOp(t)>> \o Tail(plan), Tail(plan)}
  BY InsertAt
<1>2. UNCHANGED <<stage, step, table, given, todo, bad, faults>>
  BY InsertKeeps
<1>3. stage \in {"nodes", "ways", "relations"}
  BY <1>1, KindsApart
<1>4. /\ plan # <<>> /\ plan \in Seq(Ops) /\ Tail(plan) \in Seq(Ops) /\ FlushOp(t) \in Ops
      /\ plan' \in {<<FlushOp(t)>> \o Tail(plan), Tail(plan)}
  BY <1>1, HeadTyped, OpsTyped DEF Insert, TypeOK
<1>5. \A u \in Tables : rowBuf[u] \subseteq rowBuf'[u]
  <2>1. rowBuf' = rowBuf \/ rowBuf' = [rowBuf EXCEPT ![t] = rowBuf[t] \cup {e}]
    BY <1>1
  <2> QED
    BY <2>1 DEF TypeOK
<1>6. Placed'
  <2> SUFFICES ASSUME NEW u \in Tables, NEW x \in given \ bad, InTable(x, u)
               PROVE  \/ x \in table[u] \/ x \in rowBuf'[u] \/ x \in todo
                      \/ InSeq(plan', InsertOp(u, x))
    BY <1>2 DEF Placed, InTable
  <2>1. x \in table[u] \/ x \in rowBuf[u] \/ x \in todo \/ InSeq(plan, InsertOp(u, x))
    BY DEF AllPlaced, Placed, Running
  <2>2. CASE InSeq(plan, InsertOp(u, x)) /\ ~(u = t /\ x = e)
    <3>1. Head(plan) # InsertOp(u, x)
      BY <1>1, <2>2 DEF InsertOp
    <3>2. InSeq(Tail(plan), InsertOp(u, x))
      BY <1>4, <2>2, <3>1, InSeqTail
    <3>3. InSeq(<<FlushOp(t)>> \o Tail(plan), InsertOp(u, x))
      BY <1>4, <3>2, InSeqAfter
    <3> QED
      BY <1>4, <3>2, <3>3
  <2>3. CASE u = t /\ x = e
    <3>1. ~(t = "nodes" /\ e \notin Tagged)
      BY <2>3 DEF InTable
    <3> QED
      BY <1>1, <2>3, <3>1 DEF TypeOK
  <2> QED
    BY <1>5, <2>1, <2>2, <2>3
<1>7. stage' \in {"nodes", "ways", "relations"} /\ step' = "copy"
  BY <1>1, <1>2, <1>3
<1> QED
  BY <1>6, <1>7 DEF AllPlaced, StoredFirst, ClosingFlushes, Ends

(* Steps of a flush that keep its call at the head of the plan *)
LEMMA FlushPlaced ==
    ASSUME TypeOK, Running, AllPlaced, faults = 0,
           UNCHANGED <<stage, plan, given, todo, bad>>,
           \A t \in Tables : rowBuf'[t] \subseteq rowBuf[t] /\ table[t] \subseteq table'[t],
           \A t \in Tables : \A e \in rowBuf[t] \ rowBuf'[t] : e \in bad \/ e \in table[t],
           StoredFirst'
    PROVE  AllPlaced'
<1>1. Placed'
  BY DEF AllPlaced, Placed, InTable
<1>2. ClosingFlushes'
  BY DEF AllPlaced, ClosingFlushes
<1>3. Ends'
  BY DEF AllPlaced, Ends, Running
<1> QED
  BY <1>1, <1>2, <1>3 DEF AllPlaced

(* Steps that take from the plan a call that is done with its rows *)
LEMMA PopPlaced ==
    ASSUME TypeOK, Running, AllPlaced, faults = 0,
           UNCHANGED <<stage, table, given, todo, bad>>,
           plan # <<>>, plan' = Tail(plan), step' = "copy", Head(plan).op # "insert",
           \A t \in Tables : rowBuf'[t] \subseteq rowBuf[t],
           \A t \in Tables : Flushing(t) => rowBuf'[t] = {},
           \A t \in Tables : \A e \in rowBuf[t] \ rowBuf'[t] : e \in table[t]
    PROVE  AllPlaced'
<1>0. plan \in Seq(Ops)
  BY DEF TypeOK
<1>1. Placed'
  <2> SUFFICES ASSUME NEW t \in Tables, NEW x \in given \ bad, InTable(x, t)
               PROVE  \/ x \in table[t] \/ x \in rowBuf'[t] \/ x \in todo
                      \/ InSeq(plan', InsertOp(t, x))
    BY DEF Placed, InTable
  <2>1. x \in table[t] \/ x \in rowBuf[t] \/ x \in todo \/ InSeq(plan, InsertOp(t, x))
    BY DEF AllPlaced, Placed, Running
  <2>2. ASSUME InSeq(plan, InsertOp(t, x)) PROVE InSeq(plan', InsertOp(t, x))
    <3>1. Head(plan) # InsertOp(t, x)
      BY DEF InsertOp
    <3> QED
      BY <1>0, <2>2, <3>1, InSeqTail
  <2> QED
    BY <2>1, <2>2
<1>2. ClosingFlushes'
  <2> SUFFICES ASSUME stage = "closing", NEW t \in Tables, rowBuf'[t] # {}
               PROVE  InSeq(plan', FlushOp(t))
    BY DEF ClosingFlushes
  <2>1. InSeq(plan, FlushOp(t)) /\ ~Flushing(t)
    BY DEF AllPlaced, ClosingFlushes
  <2>2. Head(plan) # FlushOp(t)
    BY <2>1 DEF Flushing, FlushOp
  <2> QED
    BY <1>0, <2>1, <2>2, InSeqTail
<1>3. Ends'
  BY DEF AllPlaced, Ends, Running
<1> QED
  BY <1>1, <1>2, <1>3 DEF AllPlaced, StoredFirst

(* Without a fault an exception is a refused row of nodes, and no row of    *)
(* nodes is left to the destructor.                                         *)
LEMMA ThrowPlaced ==
    ASSUME TypeOK, Running, Shape, AllPlaced, NEW t \in Tables, CopyFails(t), faults' = 0,
           t = "nodes"
    PROVE  AllPlaced'
<1>1. Throw /\ rowBuf["nodes"] # {} /\ todo' = todo /\ rowBuf' = rowBuf
  BY DEF CopyFails, inputVars
<1>2. stage # "closing"
  BY <1>1 DEF Shape, Homes
<1>3. stage' = "dead"
  BY <1>1, <1>2, ThrowStops
<1> QED
  BY <1>3 DEF AllPlaced, StoredFirst, Running, Placed, ClosingFlushes, Ends

LEMMA PlacedInit == Init => AllPlaced
<1> SUFFICES ASSUME Init PROVE AllPlaced
  OBVIOUS
<1>1. stage \in {"nodes", "ways", "relations"}
  BY DEF Init, Owners
<1>2. todo = given /\ step = "copy"
  BY DEF Init
<1> QED
  BY <1>1, <1>2 DEF AllPlaced, StoredFirst, Placed, ClosingFlushes, Ends

LEMMA PlacedStep == TypeOK /\ Shape /\ AllPlaced /\ [Next]_vars => AllPlaced'
<1> SUFFICES ASSUME TypeOK, Shape, AllPlaced, [Next]_vars, faults' = 0 PROVE AllPlaced'
  BY DEF AllPlaced
<1> USE DEF inputVars, dbVars
<1>1. CASE UNCHANGED vars
  BY <1>1 DEF vars, AllPlaced, StoredFirst, Placed, ClosingFlushes, Ends, Running, Flushing, InTable
<1>2. CASE Next
  <2>1. Running /\ faults = 0
    BY <1>2, FaultsStay DEF Next, Running
  <2>2. CASE \E e \in Entities : Take(e)
    BY <2>1, <2>2, TakePlaced
  <2>3. CASE FinalizeWays \/ Finalize \/ Destroy \/ Destroyed
    BY <2>1, <2>3, EndPlaced
  <2>4. CASE Insert
    BY <2>1, <2>4, InsertPlaced
  <2>5. CASE SkipFlush
    <3>1. PICK t \in Tables : Flushing(t) /\ rowBuf[t] = {}
      BY <2>5 DEF SkipFlush
    <3>2. /\ plan # <<>> /\ plan' = Tail(plan) /\ step' = "copy" /\ rowBuf' = rowBuf
          /\ Head(plan).op # "insert" /\ UNCHANGED <<stage, table, given, todo, bad>>
      BY <2>5, <3>1 DEF SkipFlush, Flushing
    <3>3. \A u \in Tables : Flushing(u) => rowBuf'[u] = {}
      BY <3>1, <3>2 DEF Flushing
    <3> QED
      BY <2>1, <3>2, <3>3, PopPlaced
  <2>6. ASSUME NEW t \in Tables, CopyRows(t) \/ RetryStores(t) PROVE AllPlaced'
    <3>1. /\ UNCHANGED <<stage, plan, given, todo, bad, rowBuf>>
          /\ Flushing(t) /\ table' = [table EXCEPT ![t] = @ \cup rowBuf[t]]
      BY <2>6 DEF CopyRows, RetryStores
    <3>2. /\ \A u \in Tables : table[u] \subseteq table'[u]
          /\ rowBuf[t] \subseteq table'[t]
      BY <3>1 DEF TypeOK
    <3>3. StoredFirst'
      BY <3>1, <3>2 DEF StoredFirst, Flushing
    <3> QED
      BY <2>1, <3>1, <3>2, <3>3, FlushPlaced
  <2>7. ASSUME NEW t \in Tables, RetrySkips(t) PROVE AllPlaced'
    <3>1. UNCHANGED <<stage, plan, step, table, given, todo, bad>> /\ step = "retry"
      BY <2>7 DEF RetrySkips
    <3>2. ~Fault
      BY <2>1, RoomAssumption DEF Fault
    <3>3. PICK e \in rowBuf[t] : e \in Refused(t) /\ rowBuf' = [rowBuf EXCEPT ![t] = @ \ {e}]
      BY <2>7, <3>2 DEF RetrySkips
    <3>4. /\ e \in bad \/ e \in table[t]
          /\ \A u \in Tables : rowBuf'[u] = (IF u = t THEN rowBuf[u] \ {e} ELSE rowBuf[u])
      BY <3>3 DEF Refused, TypeOK
    <3>5. StoredFirst'
      BY <3>1 DEF StoredFirst
    <3> QED
      BY <2>1, <3>1, <3>4, <3>5, FlushPlaced
  <2>8. ASSUME NEW t \in Tables, RetryEnds(t) PROVE AllPlaced'
    <3>1. UNCHANGED <<stage, plan, table, rowBuf, given, todo, bad>> /\ Flushing(t)
      BY <2>8 DEF RetryEnds
    <3>2. rowBuf[t] = {}
      BY <2>1, <2>8, RoomAssumption DEF RetryEnds, Fault
    <3>3. StoredFirst'
      BY <3>1, <3>2 DEF StoredFirst, Flushing
    <3> QED
      BY <2>1, <3>1, <3>3, FlushPlaced
  <2>9. ASSUME NEW t \in Tables, CopyFails(t) PROVE AllPlaced'
    <3>1. CASE t = "nodes"
      BY <2>1, <2>9, <3>1, ThrowPlaced
    <3>2. CASE t # "nodes"
      <4>1. UNCHANGED <<stage, plan, table, rowBuf, given, todo, bad>> /\ step' = "retry"
        BY <2>9, <3>2 DEF CopyFails
      <4>2. StoredFirst'
        BY <4>1 DEF StoredFirst
      <4> QED
        BY <2>1, <4>1, <4>2, FlushPlaced
    <3> QED
      BY <3>1, <3>2
  <2>10. ASSUME NEW t \in Tables, CopyTags(t) PROVE AllPlaced'
    <3>1. /\ AtTags(t) /\ UNCHANGED <<stage, table, given, todo, bad>>
          /\ plan' = Tail(plan) /\ step' = "copy"
          /\ rowBuf' = [rowBuf EXCEPT ![t] = IF Head(plan).op = "flush" THEN {} ELSE @]
      BY <2>10 DEF CopyTags
    <3>2. /\ plan # <<>> /\ t = Head(plan).table /\ Head(plan).op # "insert"
          /\ Head(plan).op = "flush" => (step = "tags" /\ Flushing(t))
      BY <3>1 DEF AtTags, Flushing
    <3>3. /\ \A u \in Tables : rowBuf'[u] \subseteq rowBuf[u]
          /\ \A u \in Tables : Flushing(u) => rowBuf'[u] = {}
          /\ \A u \in Tables : rowBuf'[u] # rowBuf[u] => (u = t /\ Head(plan).op = "flush")
      BY <3>1, <3>2 DEF Flushing, TypeOK
    <3>4. Head(plan).op = "flush" => rowBuf[t] \subseteq table[t]
      BY <2>1, <3>2 DEF AllPlaced, StoredFirst
    <3>5. \A u \in Tables : \A e \in rowBuf[u] \ rowBuf'[u] : e \in table[u]
      BY <3>3, <3>4
    <3> QED
      BY <2>1, <3>1, <3>2, <3>3, <3>5, PopPlaced
  <2>11. ASSUME NEW t \in Tables, TagsFail(t) PROVE AllPlaced'
    <3>1. FALSE
      BY <2>1, <2>11, RoomAssumption DEF TagsFail, Fault
    <3> QED
      BY <3>1
  <2> QED
    BY <1>2, <2>2, <2>3, <2>4, <2>5, <2>6, <2>7, <2>8, <2>9, <2>10, <2>11 DEF Next, Call, Flush
<1> QED
  BY <1>1, <1>2

LEMMA AllLoaded == Sound /\ AllPlaced => RowsLoaded
<1> SUFFICES ASSUME Sound, AllPlaced, stage = "done", faults = 0, NEW t \in Tables
             PROVE  table[t] = {e \in given : InTable(e, t) /\ e \notin bad} \cup Own(t)
  BY DEF RowsLoaded, Own
<1>1. plan = <<>> /\ rowBuf[t] = {} /\ todo = {}
  BY DEF AllPlaced, Ends
<1>2. ASSUME NEW e \in given, InTable(e, t), e \notin bad PROVE e \in table[t]
  <2>1. ~InSeq(plan, InsertOp(t, e))
    BY <1>1 DEF InSeq
  <2> QED
    BY <1>1, <1>2, <2>1 DEF AllPlaced, Placed
<1> QED
  BY <1>2 DEF Sound

(* Every committed row has its tags beside it but between the two           *)
(* transactions of its flush (NavDB.cpp:161-296) and for areas the          *)
(* destructor gave up (43-53); and a writer that ends without a fault has   *)
(* stored each row PostgreSQL takes, and none but those, however the        *)
(* buffers filled and whichever rows tryCopyBatch dropped (191-238).        *)
THEOREM RowsArriveComplete == Spec => []RowsComplete
<1> DEFINE Inv == Shape /\ BufferedTagged /\ CommittedTagged /\ Sound /\ AllPlaced
<1>1. Init => Inv
  BY ShapeInit, BufferedInit, CommittedInit, SoundInit, PlacedInit
<1>2. TypeOK /\ Inv /\ [Next]_vars => Inv'
  BY ShapeStep, BufferedStep, CommittedStep, SoundStep, PlacedStep
<1>3. Inv => RowsComplete
  BY TaggedBeside, AllLoaded DEF RowsComplete
<1> HIDE DEF Inv
<1> QED
  BY WriterTyped, <1>1, <1>2, <1>3, PTL DEF Spec
==============================================================================
