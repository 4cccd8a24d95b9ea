----------------------------- MODULE WayClassifier -----------------------------
(***************************************************************************)
(* Way or area: isArea (src/src/main.cpp), and the rule that the comment   *)
(* above it gives.  Tags are a function from keys to values.               *)
(***************************************************************************)
EXTENDS TLC

LinearKeys == {"highway", "railway", "waterway", "power", "man_made"}
LinearTags == {<<"junction", "roundabout">>, <<"junction", "circular">>,
               <<"barrier", "fence">>, <<"barrier", "wall">>, <<"barrier", "hedge">>,
               <<"barrier", "retaining_wall">>, <<"barrier", "city_wall">>,
               <<"aeroway", "runway">>, <<"aeroway", "taxiway">>, <<"aeroway", "taxilane">>}
AreaKeys == {"building", "building:part", "landuse", "leisure", "natural",
             "amenity", "shop", "tourism", "historic", "military",
             "boundary", "place", "sport", "landcover"}

Has(tags, k, v) == k \in DOMAIN tags /\ tags[k] = v
Linear(tags) == \/ DOMAIN tags \cap LinearKeys # {}
                \/ \E t \in LinearTags : Has(tags, t[1], t[2])
AreaLike(tags) == DOMAIN tags \cap AreaKeys # {}

(* area=no decides nothing. *)
SlipIsArea(closed, tags) ==
    closed /\ (Has(tags, "area", "yes") \/ (~Linear(tags) /\ AreaLike(tags)))

isArea(closed, tags) ==
    /\ closed
    /\ \/ Has(tags, "area", "yes")
       \/ /\ ~Has(tags, "area", "no")
          /\ ~Linear(tags)
          /\ AreaLike(tags)

(* The comment: explicit tags, then tags for areas, then tags for lines.   *)
Documented(closed, tags) ==
    /\ closed
    /\ \/ Has(tags, "area", "yes")
       \/ ~Has(tags, "area", "no") /\ AreaLike(tags)
==============================================================================
