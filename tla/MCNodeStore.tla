------------------------------ MODULE MCNodeStore ------------------------------
(* Instances of the node store for TLC: ids on both sides of the least -n. *)
EXTENDS NodeStore

Finished == phase = "done" /\ delta # "none" /\ UNCHANGED vars
MCSpec == Init /\ [][Next \/ Finished]_vars
MCFairSpec == MCSpec /\ WF_vars(ImportStep) /\ WF_vars(Restart) /\ SF_vars(RestartNodes)
==============================================================================
