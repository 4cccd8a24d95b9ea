---------------------------- MODULE MCDeltaApplier ----------------------------
(* An instance of the delta applier for TLC: a way of each table, a new    *)
(* one and one too short to be drawn, a road, a new relation and a         *)
(* multipolygon, a node that may go and come back, and a tag that inserts  *)
(* leave out.                                                              *)
EXTENDS DeltaApplier

AllNodes == {"a", "b", "c", "d"}
AllWays == {"w0", "w1", "w2", "w3"}
AllRelations == {"r1", "r2", "r3"}

None == <<>>
Shop(v) == [shop |-> v]
Named(v) == [shop |-> v, name |-> "Main Street"]
Route == [route |-> "road"]
Bus == [route |-> "bus"]
Multi == [type |-> "multipolygon"]

Node(at, tags) == [at |-> at, tags |-> tags]
Way(refs, tags) == [refs |-> refs, tags |-> tags]
Relation(members, tags) == [members |-> members, tags |-> tags]

AllContents ==
    [a |-> {Node(1, None)},
     b |-> {Node(2, None)},
     c |-> {Node(3, Named("x")), Node(4, Named("y"))},
     d |-> {Node(5, None), Node(6, Shop("x"))},
     w0 |-> {Way(<<"a", "b">>, Named("x")), Way(<<"a", "b", "d", "a">>, Named("y")),
             Way(<<"b", "d">>, None)},
     w1 |-> {Way(<<"a", "b", "c", "a">>, Shop("x")), Way(<<"b", "a">>, None)},
     w2 |-> {Way(<<"a", "b", "c", "a">>, Shop("x")), Way(<<"a", "b">>, Named("y"))},
     w3 |-> {Way(<<"a">>, Shop("x")), Way(<<"a", "b">>, Named("x"))},
     r1 |-> {Relation(<<"w0">>, Route), Relation(<<"w0", "w2">>, Bus)},
     r2 |-> {Relation(<<"w2">>, Route), Relation(<<"w0">>, Bus)},
     r3 |-> {Relation(<<"w1">>, Multi)}]
AllImported ==
    [a |-> Node(1, None), b |-> Node(2, None), c |-> Node(3, Named("x")), d |-> NoContent,
     w0 |-> Way(<<"a", "b">>, Named("x")), w1 |-> Way(<<"a", "b", "c", "a">>, Shop("x")),
     w2 |-> NoContent, w3 |-> Way(<<"a">>, Shop("x")),
     r1 |-> Relation(<<"w0">>, Route), r2 |-> NoContent, r3 |-> Relation(<<"w1">>, Multi)]
AllAreas == {"w1"}
AllAssembled == {"r3"}
Plain == {"shop", "name", "route", "type", "x", "y", "road", "bus", "multipolygon"}

Ended == (status = "dead" \/ count = MaxChanges) /\ UNCHANGED vars
MCSpec == Init /\ [][Next \/ Ended]_vars
==============================================================================
