--------------------------- MODULE MCImportPipeline ---------------------------
(* Instances of the import for TLC: files of up to nine entities whose      *)
(* phases straddle blobs, two threads of each sort.                         *)
EXTENDS ImportPipeline

MixedFile == <<"bare", "node", "way", "area", "relation", "multi">>
RoadFile == <<"node", "bare", "area", "area", "stub", "way", "road", "broken", "multi">>
NodeOnlyFile == <<"node", "bare", "node", "node">>
WaysOnlyFile == <<"node", "bare", "way", "area", "way">>
ClosedRoadFile == <<"node", "bare", "loop", "area", "road">>
OneRoadFile == <<"node", "bare", "loop", "road">>
RelationsOnlyFile == <<"bare", "relation", "multi">>

AllFiles == {MixedFile, RoadFile, ClosedRoadFile, NodeOnlyFile, WaysOnlyFile,
             RelationsOnlyFile}
LiveFiles == {MixedFile, NodeOnlyFile, OneRoadFile, RelationsOnlyFile}
AllModes == {"nodes", "merge", "ways", "relations"}
FreshOnly == {"nodes"}

Finished == mpc = "loaded" /\ UNCHANGED vars
MCSpec == Init /\ [][Next \/ Finished]_vars
MCFairSpec == MCSpec /\ Fairness
==============================================================================
