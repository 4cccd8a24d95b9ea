------------------------------ MODULE Algorithms ------------------------------
(***************************************************************************)
(* The sequential algorithms, each with a reference definition beside it,  *)
(* on any sets of inputs: each state that is not idle has an input of one  *)
(* of them, and the properties compare what the code computes from it with *)
(* what it should.                                                         *)
(***************************************************************************)
EXTENDS RingStitcher, WayClassifier, PbfReader, OscParser

CONSTANTS RingInputs,      \* segments
          RelationInputs,  \* members of a relation, each with the points of its way
          WayInputs,       \* whether a way is closed, and its tags
          BlockInputs,     \* primitive blocks as they are meant
          FileInputs,      \* files of blobs, and where reading begins
          DocumentInputs   \* change files

(* A row of ways or areas has points, unless it was not found.             *)
Paths == Seq(Int \X Int)
Members == [role : STRING, points : Paths]

(* Blocks as an encoder is given them: a tag is a key and a value, each an *)
(* index of the string table, where 0 is no string.                        *)
Strings == Nat \ {0}
TagLists == Seq(Strings \X Strings)
Nodes == [id : Int, tags : TagLists, lat : Int, lon : Int]
Ways == [id : Int, tags : TagLists, refs : Seq(Int)]
Relations == [id : Int, tags : TagLists,
              members : Seq([id : Int, type : {"node", "way", "relation"}, role : Nat])]
Groups == [dense : Seq(Nodes), nodes : Seq(Nodes), ways : Seq(Ways), relations : Seq(Relations)]
PrimitiveBlocks == [granularity : Int, lat_offset : Int, lon_offset : Int,
                    strings : Seq(STRING), groups : Seq(Groups)]
Blobs == [kind : {"header", "zlib", "raw", "other"}, cut : BOOLEAN, block : PrimitiveBlocks]

(* Children have their attributes, and refer to something.  An element     *)
(* that is no entity may stand in the place of one.                        *)
LegalChild(c) ==
    /\ c.name \notin Blocks \cup Sorts
    /\ c.name = "tag" => {"k", "v"} \subseteq DOMAIN c /\ c.k \in STRING /\ c.v \in STRING
    /\ c.name \in {"nd", "member"} => c.ref \in Int \ {0}
    /\ c.name = "member" => c.role \in STRING
LegalEntity(x) ==
    /\ x.e.name \notin Blocks \cup {"tag", "nd", "member"}
    /\ x.e.name \in Sorts => x.e.id \in Int
    /\ x.children \in Seq(ToSet(x.children)) /\ \A c \in ToSet(x.children) : LegalChild(c)
LegalBlock(b) ==
    /\ b.change \in Blocks
    /\ b.entities \in Seq(ToSet(b.entities)) /\ \A x \in ToSet(b.entities) : LegalEntity(x)
LegalDocument(d) == d \in Seq(ToSet(d)) /\ \A b \in ToSet(d) : LegalBlock(b)

ASSUME InputsAssumption ==
    /\ RingInputs \subseteq Seq(Paths \ {<<>>})
    /\ RelationInputs \subseteq Seq(Members)
    /\ \A w \in WayInputs : w.closed \in BOOLEAN
    /\ BlockInputs \subseteq PrimitiveBlocks
    /\ FileInputs \subseteq [file : Seq(Blobs), pos : Nat \ {0}]
    /\ \A d \in DocumentInputs : LegalDocument(d)

VARIABLES part, input
vars == <<part, input>>

------------------------------------------------------------------------------

Init == part = "idle" /\ input = <<>>

Given(p, inputs) == part = "idle" /\ part' = p /\ input' \in inputs
Stitch == Given("rings", RingInputs)
Assemble == Given("relation", RelationInputs)
Classify == Given("way", WayInputs)
DecodeBlock == Given("block", BlockInputs)
ReadFile == Given("file", FileInputs)
Parse == Given("document", DocumentInputs)
Idle == part # "idle" /\ part' = "idle" /\ input' = <<>>

Next == Stitch \/ Assemble \/ Classify \/ DecodeBlock \/ ReadFile \/ Parse \/ Idle
Spec == Init /\ [][Next]_vars

------------------------------------------------------------------------------

(* What stitchRings gives as a ring is closed, with four points, and runs  *)
(* along edges of its segments; the one edge that may be invented to close *)
(* it is the last, and there is none if the members' ends pair up, however *)
(* the members are ordered and directed.  Where just two members meet at   *)
(* each end, the rings are the chains of members that meet, each with all  *)
(* of its edges.                                                           *)
RingsRunAlongMembers == part = "rings" =>
    LET all == DOMAIN input
        rings == stitchRings(input, all)
    IN /\ AlongMembers(input, all, rings)
       /\ TwoEnds(input, all) => OnePerChain(input, all, rings)

(* Shells run along outer members and holes along inner ones, and every    *)
(* hole is cut out of every shell that goes around or touches its first    *)
(* point, of a single shell in any case (buildMultipolygon).               *)
HolesAreCut == part = "relation" =>
    LET polygons == buildMultipolygon(input)
        points == Points(input)
        holes == RingsOf(input, TRUE)
    IN /\ AlongMembers(points, Having(input, FALSE), [i \in DOMAIN polygons |-> polygons[i].shell])
       /\ AlongMembers(points, Having(input, TRUE), holes)
       /\ \A i \in DOMAIN polygons :
             /\ polygons[i].holes \subseteq ToSet(holes)
             /\ \A hole \in ToSet(holes) :
                   Len(polygons) = 1 \/ GoesAround(polygons[i].shell, hole[1])
                      => hole \in polygons[i].holes

(* isArea decides as the comment above it says, except for a closed way    *)
(* without an explicit tag that has tags for lines and tags for areas.     *)
AreasAsDocumented == part = "way" =>
    LET t == input.tags IN
    isArea(input.closed, t) # Documented(input.closed, t)
       <=> /\ input.closed /\ ~Has(t, "area", "yes") /\ ~Has(t, "area", "no")
           /\ Linear(t) /\ AreaLike(t)

(* A block is read as it was meant: ids, coordinates, tags, references and *)
(* way members, whatever is left out or goes down (parsePrimitiveBlock).   *)
(* From wherever the file is read, every entity behind it is delivered     *)
(* once and in order: those of blobs that zlib or nothing compressed, up   *)
(* to a blob that is cut off (next, readBlob, seekTo).                     *)
PbfIsRead ==
    /\ part = "block" => Decode(EncodeBlock(input)) = Meant(input)
    /\ part = "file" => ReadFrom(EncodeFile(input.file), input.pos)
                           = MeantFrom(input.file, input.pos)

(* The changes of a document arrive in its order, each as described, and   *)
(* of a document that breaks off, a first part of them (startElement,      *)
(* endElement).                                                            *)
ChangesArrive == part = "document" =>
    LET events == Events(input)
    IN /\ parse(events) = Changes(input)
       /\ \A n \in DOMAIN events : IsPrefix(parse(SubSeq(events, 1, n)), Changes(input))
==============================================================================
