------------------------------- MODULE PbfReader -------------------------------
(***************************************************************************)
(* The PBF reader (src/src/OSMReader.cpp): blobs, and the delta coding of  *)
(* a primitive block.  A file is a sequence of blobs, one of which may be  *)
(* cut off.  Encoded is the format as the PBF specification has it; Decode *)
(* is what the reader makes of it.  The position of a blob is its index.   *)
(* What a loop appends to is a sequence of what each turn appends,         *)
(* flattened.                                                              *)
(***************************************************************************)
EXTENDS Integers, Sequences, SequencesExt, Functions

(* A string is its index in the string table of the block, from 1; an      *)
(* index of 0 ends the tags of a dense node, and stands for no role.  The  *)
(* keys of an entity differ, so that its tags are a set of pairs.          *)
Text(pb, i) == IF i \in DOMAIN pb.strings THEN pb.strings[i] ELSE ""
Tags(pb, pairs) == {<<Text(pb, p[1]), Text(pb, p[2])>> : p \in ToSet(pairs)}

Sums(deltas) ==
    LET sum[i \in 0 .. Len(deltas)] == IF i = 0 THEN 0 ELSE sum[i - 1] + deltas[i]
    IN [i \in DOMAIN deltas |-> sum[i]]

Coordinate(pb, offset, units) == offset + pb.granularity * units

(* The position in keys_vals of the end of the tags that begin at a        *)
(* position: their delimiter, or the end of the array.                     *)
TagsEnd(kv, at) ==
    at + 2 * Min({m \in 0 .. Len(kv) : at + 2 * m > Len(kv) \/ kv[at + 2 * m] = 0})

(* The delimiter is not passed. *)
SlipPassed(end) == end

Passed(end) == end + 1

(* Where the tags of the n-th dense node begin. *)
TagsBegin(kv, n) ==
    LET begin[i \in 0 .. n - 1] == IF i = 0 THEN 1 ELSE Passed(TagsEnd(kv, begin[i - 1]))
    IN begin[n - 1]

DenseTags(pb, kv, n) ==
    LET at == TagsBegin(kv, n)
    IN {<<Text(pb, kv[at + 2 * m]), Text(pb, kv[at + 2 * m + 1])>> :
           m \in {k \in 0 .. Len(kv) : at + 2 * k < TagsEnd(kv, at)}}

DenseNodes(pb, dense) ==
    LET ids == Sums(dense.id)
        lats == Sums(dense.lat)
        lons == Sums(dense.lon)
    IN [i \in DOMAIN ids |-> [id |-> ids[i], tags |-> DenseTags(pb, dense.kv, i),
                              lat |-> Coordinate(pb, pb.lat_offset, lats[i]),
                              lon |-> Coordinate(pb, pb.lon_offset, lons[i])]]

Node(pb, n) == [id |-> n.id, tags |-> Tags(pb, n.tags),
                lat |-> Coordinate(pb, pb.lat_offset, n.lat),
                lon |-> Coordinate(pb, pb.lon_offset, n.lon)]

Way(pb, w) == [id |-> w.id, tags |-> Tags(pb, w.tags), refs |-> Sums(w.refs)]

(* Member ids are summed over all members, and only the ways are kept.     *)
WayMembers(pb, r) ==
    LET ids == Sums(r.memids)
    IN FlattenSeq([i \in DOMAIN ids |->
           IF r.types[i] = "way" THEN <<<<ids[i], Text(pb, r.roles[i])>>>> ELSE <<>>])

Relation(pb, r) == [id |-> r.id, tags |-> Tags(pb, r.tags), members |-> WayMembers(pb, r)]

(* parsePrimitiveBlock *)
Group(pb, g) ==
    DenseNodes(pb, g.dense) \o [i \in DOMAIN g.nodes |-> Node(pb, g.nodes[i])]
                            \o [i \in DOMAIN g.ways |-> Way(pb, g.ways[i])]
                            \o [i \in DOMAIN g.relations |-> Relation(pb, g.relations[i])]
Decode(pb) == FlattenSeq([i \in DOMAIN pb.groups |-> Group(pb, pb.groups[i])])

------------------------------------------------------------------------------
(* readBlob and next: a header and a blob compressed by anything but zlib  *)
(* give no data and are passed over; a blob that is cut off is the end of  *)
(* the file.                                                               *)

Readable(blob) == blob.kind \in {"zlib", "raw"}

(* The first blob with data from a position on. *)
First(file, pos) ==
    LET data == {i \in DOMAIN file : i >= pos /\ Readable(file[i])}
    IN IF data = {} THEN Len(file) + 1 ELSE Min(data)

next(file, pos) ==
    LET first == First(file, pos)
        ok == first \in DOMAIN file /\ \A i \in pos .. first : ~file[i].cut
    IN [ok |-> ok, batch |-> IF ok THEN Decode(file[first].block) ELSE <<>>, pos |-> first + 1]

(* The reading loop of main() from where seekTo() put it, over one blob at *)
(* least in each turn: all it is given until next() fails.                 *)
Turned(file, s) ==
    LET n == next(file, s.pos)
    IN IF s.ok THEN [ok |-> n.ok, pos |-> n.pos, out |-> s.out \o n.batch] ELSE s
ReadFrom(file, pos) ==
    LET turn[n \in 0 .. Len(file) + 1] ==
            IF n = 0 THEN [ok |-> TRUE, pos |-> pos, out |-> <<>>] ELSE Turned(file, turn[n - 1])
    IN turn[Len(file) + 1].out

------------------------------------------------------------------------------
(* Reference: the encoder of the format.  Entities are as in the map, but  *)
(* for strings, which are indices, and coordinates in units.               *)

Deltas(values) == [i \in DOMAIN values |-> IF i = 1 THEN values[1] ELSE values[i] - values[i - 1]]

(* Keys and values of one node, each an index from 1, with their delimiter; *)
(* there is no array if no node has tags.                                   *)
KeysVals(tags) == FlattenSeq([j \in DOMAIN tags |-> <<tags[j][1], tags[j][2]>>])
DenseKeysVals(nodes) ==
    IF \A i \in DOMAIN nodes : nodes[i].tags = <<>> THEN <<>>
    ELSE FlattenSeq([i \in DOMAIN nodes |-> Append(KeysVals(nodes[i].tags), 0)])
EncodeDense(nodes) ==
    [id  |-> Deltas([i \in DOMAIN nodes |-> nodes[i].id]),
     lat |-> Deltas([i \in DOMAIN nodes |-> nodes[i].lat]),
     lon |-> Deltas([i \in DOMAIN nodes |-> nodes[i].lon]),
     kv  |-> DenseKeysVals(nodes)]
EncodeWay(w) == [id |-> w.id, tags |-> w.tags, refs |-> Deltas(w.refs)]
EncodeRelation(r) ==
    [id |-> r.id, tags |-> r.tags,
     memids |-> Deltas([i \in DOMAIN r.members |-> r.members[i].id]),
     types  |-> [i \in DOMAIN r.members |-> r.members[i].type],
     roles  |-> [i \in DOMAIN r.members |-> r.members[i].role]]
EncodeGroup(g) == [dense |-> EncodeDense(g.dense), nodes |-> g.nodes,
                   ways |-> [i \in DOMAIN g.ways |-> EncodeWay(g.ways[i])],
                   relations |-> [i \in DOMAIN g.relations |-> EncodeRelation(g.relations[i])]]
EncodeBlock(pb) == [pb EXCEPT !.groups = [i \in DOMAIN @ |-> EncodeGroup(@[i])]]

(* What the reader should deliver of a block: each entity as it was meant, *)
(* of the members the ways.                                                *)
WaysOnly(pb, members) ==
    FlattenSeq([i \in DOMAIN members |->
        IF members[i].type = "way" THEN <<<<members[i].id, Text(pb, members[i].role)>>>> ELSE <<>>])
MeantGroup(pb, g) ==
    [i \in DOMAIN g.dense |-> Node(pb, g.dense[i])]
    \o [i \in DOMAIN g.nodes |-> Node(pb, g.nodes[i])]
    \o [i \in DOMAIN g.ways |->
           [id |-> g.ways[i].id, tags |-> Tags(pb, g.ways[i].tags), refs |-> g.ways[i].refs]]
    \o [i \in DOMAIN g.relations |->
           [id |-> g.relations[i].id, tags |-> Tags(pb, g.relations[i].tags),
            members |-> WaysOnly(pb, g.relations[i].members)]]
Meant(pb) == FlattenSeq([i \in DOMAIN pb.groups |-> MeantGroup(pb, pb.groups[i])])

(* What it should deliver of a file from a position on: the blobs with     *)
(* data up to the first that is cut off.                                   *)
EncodeFile(file) == [i \in DOMAIN file |-> [file[i] EXCEPT !.block = EncodeBlock(@)]]
MeantFrom(file, pos) ==
    LET whole == {n \in 0 .. Len(file) : \A i \in pos .. n : ~file[i].cut}
        Meaning(blob) == IF Readable(blob) THEN Meant(blob.block) ELSE <<>>
    IN FlattenSeq([i \in 1 .. Max(whole) |-> IF i < pos THEN <<>> ELSE Meaning(file[i])])
==============================================================================
