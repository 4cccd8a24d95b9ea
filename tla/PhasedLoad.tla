------------------------------ MODULE PhasedLoad ------------------------------
(***************************************************************************)
(* What an import run promises, without its threads, queues and buffers:   *)
(* the tables fill up to what the file says in three phases that do not    *)
(* overlap, because each phase looks up what the one before it stored.     *)
(* ImportPipeline implements it.                                           *)
(***************************************************************************)
EXTENDS Integers

CONSTANT Tables

VARIABLES want,       \* the rows of a complete import, per table; never changes
          wantStore,  \* the nodes of the file; never changes
          have,       \* the rows committed so far, per table
          store       \* the nodes the node store can look up

loadVars == <<want, wantStore, have, store>>

(* Rows made of ways have positive keys; areas also holds multipolygon     *)
(* relations, under the negated key.                                       *)
WayTables == {"ways", "areas"}
WayRowsOf(tables, t) == {row \in tables[t] : row[1] > 0}

NodesLoaded == store = wantStore /\ have["nodes"] = want["nodes"]
WaysLoaded  == \A t \in WayTables : WayRowsOf(have, t) = WayRowsOf(want, t)
Complete    == NodesLoaded /\ have = want

Grows == \A t \in Tables : have[t] \subseteq have'[t] /\ have'[t] \subseteq want[t]
OnlyGrow(S) == \A t \in Tables \ S : have'[t] = have[t]

Init ==
    /\ \A t \in Tables : have[t] \subseteq want[t]
    /\ store \subseteq wantStore

LoadNodes ==
    /\ store \subseteq store' /\ store' \subseteq wantStore
    /\ Grows /\ OnlyGrow({"nodes"})

LoadWays ==
    /\ NodesLoaded
    /\ UNCHANGED store
    /\ Grows /\ OnlyGrow(WayTables)
    /\ \A t \in WayTables : \A row \in have'[t] \ have[t] : row[1] > 0

LoadRelations ==
    /\ NodesLoaded /\ WaysLoaded
    /\ UNCHANGED store
    /\ Grows /\ OnlyGrow({"areas", "relations", "roads"})

Next ==
    /\ LoadNodes \/ LoadWays \/ LoadRelations
    /\ UNCHANGED <<want, wantStore>>

(* The phases do not overlap, and every load is completed. *)
Safety == Init /\ [][Next]_loadVars
Spec == Safety /\ <>Complete
==============================================================================
