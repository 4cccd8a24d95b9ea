-------------------------------- MODULE MCData --------------------------------
(***************************************************************************)
(* Bounded inputs for the sequential algorithms.                           *)
(***************************************************************************)
EXTENDS Algorithms, FiniteSets, TLC

(* Segments between four points, of two or three points or closed; up to   *)
(* three of any length or four short ones, the first of each shape.        *)
Corners == {<<0, 0>>, <<2, 0>>, <<2, 2>>, <<0, 2>>}
Short == {<<p, q>> : p, q \in Corners} \ {<<p, p>> : p \in Corners}
Long == {s \in [1 .. 3 -> Corners] : Cardinality({s[i] : i \in 1 .. 3}) = 3}
Loops == {Append(s, s[1]) : s \in {t \in Long : t[1] = <<0, 0>>}}
SomePaths == Short \cup Long \cup Loops
Starts == {<<<<0, 0>>, <<2, 0>>>>, <<<<0, 0>>, <<2, 0>>, <<2, 2>>>>,
           <<<<0, 0>>, <<2, 0>>, <<2, 2>>, <<0, 0>>>>}
SomeRings == {<<a>> : a \in Starts} \cup {<<a, b>> : a \in Starts, b \in SomePaths}
             \cup {<<a, b, c>> : a \in Starts, b, c \in SomePaths}
             \cup {<<a, b, c, d>> : a \in Starts, b, c, d \in Short}

(* Relations of a square, a hook and two holes; a shell is one way or two, *)
(* one of them without a role, or is not in the database.                  *)
Member(role, points) == [role |-> role, points |-> points]
Square == <<<<0, 0>>, <<2, 0>>, <<2, 2>>, <<0, 2>>, <<0, 0>>>>
Hook == <<<<3, 0>>, <<5, 0>>, <<5, 1>>, <<4, 1>>, <<4, 2>>, <<3, 2>>, <<3, 0>>>>
Hole(p) == <<p, <<p[1], p[2] + 7>>, <<p[1] + 7, p[2]>>, p>>
ShellMembers(ring) ==
    {<<Member("outer", ring)>>, <<Member("", Reverse(ring))>>, <<Member("outer", <<>>)>>}
    \cup {<<Member("outer", SubSeq(ring, 1, k)), Member("", SubSeq(ring, k, Len(ring)))>> :
             k \in 2 .. Len(ring) - 1}
SomeRelations ==
    {a \o <<Member("inner", Hole(p))>> \o b \o <<Member("inner", Hole(q))>> :
        a \in ShellMembers(Square), b \in ShellMembers(Hook),
        p \in {<<x, y>> : x \in 0 .. 5, y \in 0 .. 2}, q \in {<<1, 1>>, <<4, 2>>}}

(* Tags of every class, each value that is looked for and another one.     *)
TagChoices ==
    {"area" :> v : v \in {"yes", "no", "part"}}
    \cup {k :> "yes" : k \in LinearKeys \cup {"building", "leisure", "name"}}
    \cup {t[1] :> t[2] : t \in LinearTags} \cup {"junction" :> "jughandle"}
SomeWays == {[closed |-> c, tags |-> a @@ b @@ d] :
                c \in BOOLEAN, a, b \in TagChoices, d \in {"area" :> v : v \in {"yes", "no"}}
                                                          \cup TagChoices}

(* Blocks of two groups, and files of up to three blobs.                   *)
SomeTags == {<<>>, <<<<1, 2>>>>, <<<<1, 2>>, <<3, 1>>>>}
NodeOf(id, tags) == [id |-> id, tags |-> tags, lat |-> 2 * id, lon |-> -id]
NodeLists == {<<>>} \cup {<<NodeOf(5, t)>> : t \in SomeTags}
             \cup {<<NodeOf(5, t), NodeOf(3, u)>> : t, u \in SomeTags}
             \cup {<<NodeOf(5, t), NodeOf(3, u), NodeOf(9, t)>> : t, u \in SomeTags}
WayLists == {<<>>, <<[id |-> 4, tags |-> <<>>, refs |-> <<5, 3, 9, 5>>]>>}
MemberOf(id, type, role) == [id |-> id, type |-> type, role |-> role]
SomeMembers == {MemberOf(7, "way", 3), MemberOf(4, "node", 0), MemberOf(6, "way", 0)}
RelationLists == {<<>>} \cup {<<[id |-> 8, tags |-> <<<<1, 2>>>>, members |-> m]>> :
                                 m \in UNION {[1 .. n -> SomeMembers] : n \in 0 .. 3}}
SomeGroups == {[dense |-> d, nodes |-> n, ways |-> w, relations |-> <<>>] :
                  d \in NodeLists, n \in {<<>>, <<NodeOf(2, <<<<3, 3>>>>)>>}, w \in WayLists}
              \cup {[dense |-> <<>>, nodes |-> <<>>, ways |-> w, relations |-> r] :
                  w \in WayLists, r \in RelationLists}
OneNode(n) == [dense |-> <<NodeOf(n, <<>>)>>, nodes |-> <<>>, ways |-> <<>>, relations |-> <<>>]
Block(groups) == [granularity |-> 100, lat_offset |-> 50, lon_offset |-> -10,
                  strings |-> <<"highway", "path", "outer">>, groups |-> groups]
SomeBlocks == {Block(<<g, OneNode(1)>>) : g \in SomeGroups}

Blob(kind, n, cut) == [kind |-> kind, block |-> Block(<<OneNode(n)>>), cut |-> cut]
SomeFiles ==
    {[pos |-> p, file |-> [i \in DOMAIN kinds |-> Blob(kinds[i], i, i = cut)]] :
        p \in 1 .. 3, cut \in 0 .. 3,
        kinds \in UNION {[1 .. n -> {"header", "zlib", "raw", "other"}] : n \in 1 .. 3}}

(* Documents of up to two blocks with up to two entities each.             *)
Tag == [name |-> "tag", k |-> "name", v |-> "x"]
Nd(n) == [name |-> "nd", ref |-> n]
Child(type, n) == [name |-> "member", type |-> type, ref |-> n, role |-> "outer"]
Entity(name, id, children) == [e |-> [name |-> name, id |-> id], children |-> children]
EntityChoices ==
    {Entity("node", 1, c) : c \in {<<>>, <<Tag>>}}
    \cup {Entity("way", 1, c) : c \in {<<>>, <<Nd(2), Nd(1), Tag>>, <<Tag, Nd(2)>>}}
    \cup {Entity("relation", 1, c) :
             c \in {<<>>, <<Child("way", 3), Child("node", 4), Tag, Child("way", 5)>>}}
    \cup {Entity("bounds", 0, <<>>)}
Lists == {<<x>> : x \in EntityChoices} \cup {<<x, y>> : x, y \in EntityChoices}
BlockOf(c, l) == [change |-> c, entities |-> l]
SomeDocuments ==
    {<<BlockOf(c, l)>> : c \in Blocks, l \in Lists}
    \cup {<<BlockOf("delete", l), BlockOf("create", m)>> : l, m \in {k \in Lists : Len(k) = 1}}
==============================================================================
