------------------------------ MODULE MCImportRun ------------------------------
(* An instance of the import run for TLC: two nodes, on one thread or two, *)
(* a way through both, a multipolygon and a relation of it.                *)
EXTENDS ImportRun

CONSTANTS way, multi, relation

UsesOf == [e \in {way, multi, relation} |-> IF e = way THEN {0, 1} ELSE {way}]
==============================================================================
