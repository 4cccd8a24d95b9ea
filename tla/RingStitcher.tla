----------------------------- MODULE RingStitcher -----------------------------
(***************************************************************************)
(* Multipolygon assembly (src/src/main.cpp): stitchRings joins the member  *)
(* ways of a role end to end into closed rings, buildMultipolygon makes    *)
(* polygons of the rings.  A segment and a ring are sequences of points, a *)
(* point is a pair of coordinates.  The vector of segments that the code   *)
(* takes from is the set of their indices here: the first is the least.    *)
(***************************************************************************)
EXTENDS Integers, Sequences, FiniteSets, SequencesExt

Closed(ring) == ring[1] = Last(ring)

Complete(ring) == Len(ring) >= 4 /\ Closed(ring)

(* The segments that go on where the ring ends. *)
Continues(ring, seg) == Last(ring) \in {seg[1], Last(seg)}

(* A segment that ends where the ring ends is taken as it stands. *)
SlipJoined(ring, seg) == ring \o Tail(seg)

Joined(ring, seg) ==
    ring \o Tail(IF seg[1] = Last(ring) THEN seg ELSE Reverse(seg))

(* A ring that did not close is closed by force. *)
Forced(ring) == IF Closed(ring) THEN ring ELSE Append(ring, ring[1])

(* The loops as turns, each of which takes one segment off those left.     *)
(* Points in front of the first are not looked at: the ring grows at its   *)
(* end until it closes or nothing continues it.                            *)
Grow(segs, s) ==
    LET i == Min({j \in s.left : Continues(s.ring, segs[j])})
    IN [s EXCEPT !.ring = Joined(@, segs[i]), !.left = @ \ {i}]

StartRing(segs, left, rings) ==
    [ring |-> segs[Min(left)], left |-> left \ {Min(left)}, rings |-> rings]

Finished(s) ==
    LET ring == Forced(s.ring) IN IF Len(ring) >= 4 THEN Append(s.rings, ring) ELSE s.rings

Turn(segs, s) ==
    IF ~Complete(s.ring) /\ \E j \in s.left : Continues(s.ring, segs[j])
    THEN Grow(segs, s)
    ELSE StartRing(segs, s.left, Finished(s))

(* The rings of the segments whose indices are in own. *)
Turns(segs, own) ==
    LET turn[n \in 0 .. Cardinality(own) - 1] ==
            IF n = 0 THEN StartRing(segs, own, <<>>) ELSE Turn(segs, turn[n - 1])
    IN turn

stitchRings(segs, own) ==
    IF own = {} THEN <<>> ELSE Finished(Turns(segs, own)[Cardinality(own) - 1])

------------------------------------------------------------------------------
(* The box is taken without its edges. *)
SlipInBox(p, ring) ==
    \A c \in {1, 2} : /\ Min({ring[i][c] : i \in DOMAIN ring}) < p[c]
                      /\ p[c] < Max({ring[i][c] : i \in DOMAIN ring})

InBox(p, ring) ==
    \A c \in {1, 2} : /\ Min({ring[i][c] : i \in DOMAIN ring}) <= p[c]
                      /\ p[c] <= Max({ring[i][c] : i \in DOMAIN ring})

(* Members whose way has no row are passed over.  Every role but "inner"   *)
(* is an outer one.                                                        *)
Points(members) == [i \in DOMAIN members |-> members[i].points]
Having(members, inner) ==
    {i \in DOMAIN members : members[i].points # <<>> /\ (members[i].role = "inner") = inner}
RingsOf(members, inner) == stitchRings(Points(members), Having(members, inner))

(* The polygons of the relation, none for the empty string: a single outer *)
(* ring takes all inner rings, of several each takes those whose first     *)
(* point is in its box.                                                    *)
buildMultipolygon(members) ==
    LET outers == RingsOf(members, FALSE)
        Holes(outer) == {inner \in ToSet(RingsOf(members, TRUE)) :
                            Len(outers) = 1 \/ InBox(inner[1], outer)}
    IN [i \in DOMAIN outers |-> [shell |-> outers[i], holes |-> Holes(outers[i])]]

------------------------------------------------------------------------------
(* Reference definitions *)

EdgesOf(path) == {{path[i], path[i + 1]} : i \in 1 .. Len(path) - 1}
Ends(segs, own, p) == Cardinality({i \in own : segs[i][1] = p})
                    + Cardinality({i \in own : Last(segs[i]) = p})
EndPoints(segs, own) == {segs[i][1] : i \in own} \cup {Last(segs[i]) : i \in own}
EvenEnds(segs, own) == \A p \in EndPoints(segs, own) : Ends(segs, own, p) % 2 = 0
TwoEnds(segs, own) == \A p \in EndPoints(segs, own) : Ends(segs, own, p) = 2

(* Segments belong together if a chain of common ends joins them. *)
Touch(s, t) == {s[1], Last(s)} \cap {t[1], Last(t)} # {}
Together(segs, own) ==
    {C \in SUBSET own : C # {} /\ \A i \in C, j \in own : Touch(segs[i], segs[j]) => j \in C}
Chains(segs, own) ==
    {C \in Together(segs, own) : \A D \in Together(segs, own) : D \subseteq C => D = C}
EdgesIn(segs, C) == UNION {EdgesOf(segs[i]) : i \in C}
PointsIn(segs, C) == 1 + Cardinality(UNION {{i} \X (2 .. Len(segs[i])) : i \in C})

(* Every ring is closed, has four points and runs along edges of the       *)
(* segments; only its last edge may be invented, and is not if the ends of *)
(* the segments pair up.                                                   *)
AlongMembers(segs, own, rings) ==
    \A r \in ToSet(rings) :
       /\ Complete(r)
       /\ EdgesOf(SubSeq(r, 1, Len(r) - 1)) \subseteq EdgesIn(segs, own)
       /\ EvenEnds(segs, own) => EdgesOf(r) \subseteq EdgesIn(segs, own)

(* One ring for each chain that is long enough, with all of its edges.     *)
OnePerChain(segs, own, rings) ==
    LET long == {C \in Chains(segs, own) : PointsIn(segs, C) >= 4}
    IN /\ Len(rings) = Cardinality(long)
       /\ {EdgesOf(r) : r \in ToSet(rings)} = {EdgesIn(segs, C) : C \in long}

(* A point a ring goes around: a ray from it in each direction along an    *)
(* axis meets an edge, one that begins at a and ends at b or the reverse.  *)
(* Ahead says that on axis c the edge is not behind p where it crosses     *)
(* the line through p, on which the other axis d is constant.              *)
Ahead(p, a, b, c, d, sign) ==
    /\ a[d] <= p[d] /\ p[d] <= b[d]
    /\ \/ a[d] = b[d] /\ (sign * p[c] <= sign * a[c] \/ sign * p[c] <= sign * b[c])
       \/ a[d] < b[d]
            /\ sign * (p[c] - a[c]) * (b[d] - a[d]) <= sign * (b[c] - a[c]) * (p[d] - a[d])
Meets(p, ring, c, d, sign) ==
    \E i \in 1 .. Len(ring) - 1 : \/ Ahead(p, ring[i], ring[i + 1], c, d, sign)
                                  \/ Ahead(p, ring[i + 1], ring[i], c, d, sign)
GoesAround(ring, p) ==
    \A sign \in {-1, 1} : Meets(p, ring, 1, 2, sign) /\ Meets(p, ring, 2, 1, sign)
==============================================================================
