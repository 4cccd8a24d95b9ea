------------------------------- MODULE OscParser -------------------------------
(***************************************************************************)
(* The OSC reader (src/src/OSCReader.cpp): the handlers that expat calls   *)
(* at the start and the end of each element, one flag and one element      *)
(* under construction for each sort of entity, and a callback for each     *)
(* change.  An event is the start or the end of an element, a record of    *)
(* its name and attributes.                                                *)
(***************************************************************************)
EXTENDS Integers, Sequences, SequencesExt

Blocks == {"create", "modify", "delete"}
Sorts == {"node", "way", "relation"}

NoEntity == [id |-> 0, tags |-> {}, refs |-> <<>>, members |-> <<>>]

(* ParseState; tags are a set of pairs, their keys differ. *)
Fresh == [change |-> "create", in |-> {}, made |-> [s \in Sorts |-> NoEntity], out |-> <<>>]

(* The entity keeps what an earlier one of its sort has left. *)
SlipStartEntity(s, e) == [s EXCEPT !.in = @ \cup {e.name}, !.made[e.name].id = e.id]

StartEntity(s, e) ==
    [s EXCEPT !.in = @ \cup {e.name}, !.made[e.name] = [NoEntity EXCEPT !.id = e.id]]

AddTag(s, e) ==
    IF ~({"k", "v"} \subseteq DOMAIN e) THEN s
    ELSE [s EXCEPT !.made = [x \in Sorts |-> IF x \in s.in
                                THEN [s.made[x] EXCEPT !.tags = @ \cup {<<e.k, e.v>>}]
                                ELSE s.made[x]]]

AddRef(s, e) ==
    IF "way" \in s.in /\ e.ref # 0 THEN [s EXCEPT !.made["way"].refs = Append(@, e.ref)] ELSE s

(* Only ways are members. *)
AddMember(s, e) ==
    IF "relation" \in s.in /\ e.type = "way" /\ e.ref # 0
    THEN [s EXCEPT !.made["relation"].members = Append(@, <<e.ref, e.role>>)] ELSE s

startElement(s, e) ==
    CASE e.name \in Blocks  -> [s EXCEPT !.change = e.name]
      [] e.name \in Sorts   -> StartEntity(s, e)
      [] e.name = "tag"     -> AddTag(s, e)
      [] e.name = "nd"      -> AddRef(s, e)
      [] e.name = "member"  -> AddMember(s, e)
      [] OTHER              -> s

endElement(s, e) ==
    IF e.name \in s.in
    THEN [s EXCEPT !.in = @ \ {e.name},
                   !.out = Append(@, <<s.change, e.name, s.made[e.name]>>)]
    ELSE s

Handle(s, event) == IF event.start THEN startElement(s, event.e) ELSE endElement(s, event.e)

(* parse: the changes of the events up to an error, and their number. *)
Parsed(from, events) ==
    LET state[n \in 0 .. Len(events)] ==
            IF n = 0 THEN from ELSE Handle(state[n - 1], events[n])
    IN state[Len(events)]
parse(events) == Parsed(Fresh, events).out

------------------------------------------------------------------------------
(* Reference: a document is a sequence of blocks, a block has a sort of    *)
(* change and entities, an entity has children.  What is in a block and is *)
(* not an entity has no meaning.                                           *)

Element(e, inner) == <<[start |-> TRUE, e |-> e]>> \o inner \o <<[start |-> FALSE, e |-> e]>>
ChildEvents(c) == Element(c, <<>>)
EntityEvents(x) ==
    Element(x.e, FlattenSeq([i \in DOMAIN x.children |-> ChildEvents(x.children[i])]))
BlockEvents(b) ==
    Element([name |-> b.change],
            FlattenSeq([i \in DOMAIN b.entities |-> EntityEvents(b.entities[i])]))
Events(document) ==
    Element([name |-> "osmChange"],
            FlattenSeq([i \in DOMAIN document |-> BlockEvents(document[i])]))

Described(x) ==
    [id      |-> x.e.id,
     tags    |-> {<<t.k, t.v>> : t \in {c \in ToSet(x.children) : c.name = "tag"}},
     refs    |-> FlattenSeq([i \in DOMAIN x.children |->
                     IF x.e.name = "way" /\ x.children[i].name = "nd"
                     THEN <<x.children[i].ref>> ELSE <<>>]),
     members |-> FlattenSeq([i \in DOMAIN x.children |->
                     IF x.e.name = "relation" /\ x.children[i].name = "member"
                        /\ x.children[i].type = "way"
                     THEN <<<<x.children[i].ref, x.children[i].role>>>> ELSE <<>>])]
EntityChanges(change, x) ==
    IF x.e.name \in Sorts THEN <<<<change, x.e.name, Described(x)>>>> ELSE <<>>
BlockChanges(b) ==
    FlattenSeq([i \in DOMAIN b.entities |-> EntityChanges(b.change, b.entities[i])])
Changes(document) == FlattenSeq([i \in DOMAIN document |-> BlockChanges(document[i])])
==============================================================================
