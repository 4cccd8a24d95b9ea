-------------------------------- MODULE MCNavDB --------------------------------
(* Instances of the database writer for TLC: more entities of a kind than  *)
(* its buffer holds, rows that PostgreSQL may refuse in every table, and a *)
(* multipolygon of an earlier attempt.                                      *)
EXTENDS NavDB

AllKinds == [n1 |-> "node", n2 |-> "node", n3 |-> "node",
             w1 |-> "way", w2 |-> "way", a1 |-> "area",
             m1 |-> "multi", m2 |-> "multi",
             r1 |-> "relation", r2 |-> "relation", x1 |-> "road"]
All == DOMAIN AllKinds
WithTags == All \ {"n3", "w1"}
WithGoodTags == WithTags \ {"m2"}
MaybeRefused == {"n2", "w2", "a1", "m2", "x1"}
LeftBehind == {"m1"}
None == {}

Ended == stage \in {"done", "dead"} /\ UNCHANGED vars
MCSpec == Init /\ [][Next \/ Ended]_vars
MCFairSpec == MCSpec /\ WF_vars(Next)
==============================================================================
