--------------------------- MODULE MCBlockingQueue ---------------------------
(* Model values for TLC, without symmetry, for liveness is checked.        *)
EXTENDS BlockingQueue

(* The program stops when every thread has returned. *)
Terminated ==
    /\ closer = "closed"
    /\ \A c \in Poppers : cpc[c] = "done"

Finished == Terminated /\ UNCHANGED vars

MCSpec == Init /\ [][Next \/ Finished]_vars
MCFairSpec == MCSpec /\ Fairness
==============================================================================
