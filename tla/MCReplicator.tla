------------------------------ MODULE MCReplicator ------------------------------
(* An instance of poll mode for TLC: files whose changes reach the database *)
(* in each way, with more creates than a buffer holds.  The nodes of the    *)
(* second file fill the buffer with those of the first or the third; the    *)
(* third fills it alone, so that a replay can jam.  What is applied at once *)
(* comes after its nodes: a jammed file would repeat it without end.        *)
EXTENDS Replicator

Mixed == <<<<"way", "direct", "node">>, <<"node">>,
           <<"node", "relation", "node", "way", "way", "direct">>>>
==============================================================================
