-------------------------- MODULE DeltaApplierProofs --------------------------
(* That the tables follow the changes of a file: the types of the delta     *)
(* applier, what each call of NavDB does to the rows and tags that an       *)
(* entity has or is to get, and from that each invariant its run checks.    *)
EXTENDS DeltaApplier, FiniteSetTheorems, WellFoundedInduction, TLAPS

------------------------------------------------------------------------------
(* Operators of the model                                                   *)

LEMMA NoRowIsNone == \A x, y : Row(x, y) # NoRow
BY DEF Row, NoRow

LEMMA RowFields == \A x, y : Row(x, y).tags = x /\ Row(x, y).geog = y
BY DEF Row

(* A nonempty set of indices has a least one. *)
LEMMA LeastIndex ==
    ASSUME NEW n \in Nat, NEW T \in SUBSET (1 .. n), T # {}
    PROVE  \E i \in T : \A j \in 1 .. i - 1 : j \notin T
<1> DEFINE F == {1 .. i : i \in T}
<1>1. F \subseteq FiniteSubsetsOf(1 .. n) /\ F # {}
  <2>1. \A i \in T : 1 .. i \subseteq 1 .. n /\ IsFiniteSet(1 .. i)
    BY FS_Interval
  <2> QED
    BY <2>1 DEF FiniteSubsetsOf
<1>2. PICK S \in F : \A R \in F : ~(<<R, S>> \in StrictSubsetOrdering(1 .. n))
  BY <1>1, FS_StrictSubsetOrderingWellFounded, WFMin
<1>3. PICK i \in T : S = 1 .. i
  OBVIOUS
<1>4. ASSUME NEW j \in 1 .. i - 1, j \in T PROVE FALSE
  <2>1. 1 .. j \in F
    BY <1>4
  <2>2. 1 .. j \subseteq 1 .. i /\ 1 .. j # 1 .. i /\ 1 .. i \subseteq 1 .. n
    BY <1>3
  <2>3. <<1 .. j, 1 .. i>> \in StrictSubsetOrdering(1 .. n)
    BY <2>2 DEF StrictSubsetOrdering
  <2> QED
    BY <1>2, <1>3, <2>1, <2>3
<1> QED
  BY <1>4

LEMMA NoValues ==
    ASSUME NEW pushed, NEW e, NEW k,
           \A i \in DOMAIN pushed : ~(pushed[i].id = e /\ k \in DOMAIN pushed[i].tags)
    PROVE  Values(pushed, e, k) = <<>>
<1> DEFINE S == {i \in DOMAIN pushed : pushed[i].id = e /\ k \in DOMAIN pushed[i].tags}
<1>1. S = {}
  OBVIOUS
<1>2. Cardinality(S) = 0
  BY <1>1, FS_EmptySet
<1>3. \E f : f \in [1 .. 0 -> {}] /\ IsInjective(f)
  <2>1. [x \in {} |-> x] \in [1 .. 0 -> {}] /\ IsInjective([x \in {} |-> x])
    BY DEF IsInjective
  <2> QED
    BY <2>1
<1>4. SetToSeq(S) \in [1 .. 0 -> {}]
  BY <1>1, <1>2, <1>3 DEF SetToSeq
<1>5. DOMAIN SetToSeq(S) = {}
  BY <1>4
<1>6. Values(pushed, e, k) = [i \in DOMAIN SetToSeq(S) |-> pushed[SetToSeq(S)[i]].tags[k]]
  BY DEF Values
<1> HIDE DEF S
<1> QED
  BY <1>5, <1>6

LEMMA OneValue ==
    ASSUME NEW pushed, NEW e, NEW k, NEW x \in DOMAIN pushed,
           \A i \in DOMAIN pushed : (pushed[i].id = e /\ k \in DOMAIN pushed[i].tags) <=> i = x
    PROVE  Values(pushed, e, k) = <<pushed[x].tags[k]>>
<1> DEFINE S == {i \in DOMAIN pushed : pushed[i].id = e /\ k \in DOMAIN pushed[i].tags}
<1>1. S = {x}
  OBVIOUS
<1>2. Cardinality(S) = 1
  BY <1>1, FS_Singleton
<1>3. \E f : f \in [1 .. 1 -> {x}] /\ IsInjective(f)
  <2>1. <<x>> \in [1 .. 1 -> {x}] /\ IsInjective(<<x>>)
    BY DEF IsInjective
  <2> QED
    BY <2>1
<1>4. SetToSeq(S) \in [1 .. 1 -> {x}]
  BY <1>1, <1>2, <1>3 DEF SetToSeq
<1>5. Values(pushed, e, k) = [i \in DOMAIN SetToSeq(S) |-> pushed[SetToSeq(S)[i]].tags[k]]
  BY DEF Values
<1> HIDE DEF S
<1>6. DOMAIN SetToSeq(S) = 1 .. 1 /\ \A i \in 1 .. 1 : SetToSeq(S)[i] = x
  BY <1>4
<1>7. Values(pushed, e, k) = [i \in 1 .. 1 |-> pushed[x].tags[k]]
  BY <1>5, <1>6
<1> QED
  BY <1>7

LEMMA OnceOf ==
    ASSUME NEW tags
    PROVE  /\ DOMAIN Once(tags) = Keys
           /\ \A k \in Keys : Once(tags)[k] = (IF k \in DOMAIN tags THEN <<tags[k]>> ELSE <<>>)
BY DEF Once

LEMMA OnceNone == Once(<<>>) = NoTags
BY DEF Once, NoTags

LEMMA KeptNone == Kept(<<>>) = <<>>
BY DEF Kept, Restrict

(* diffTags leaves an entity that had each tag once with each tag once. *)
LEMMA DiffOnce ==
    ASSUME NEW old, NEW tags, NEW lucky \in BOOLEAN, NEW k \in Keys
    PROVE  Diff(Once(old)[k], k, tags, lucky) = Once(tags)[k]
<1>1. Once(old)[k] = (IF k \in DOMAIN old THEN <<old[k]>> ELSE <<>>)
      /\ Once(tags)[k] = (IF k \in DOMAIN tags THEN <<tags[k]>> ELSE <<>>)
  BY OnceOf
<1>2. CASE k \notin DOMAIN tags
  BY <1>1, <1>2 DEF Diff
<1>3. CASE k \in DOMAIN tags /\ k \notin DOMAIN old
  BY <1>1, <1>3 DEF Diff
<1>4. CASE k \in DOMAIN tags /\ k \in DOMAIN old
  <2>1. PICK v : v = old[k]
    OBVIOUS
  <2>2. /\ Once(old)[k] = <<v>> /\ <<v>> # <<>> /\ Once(tags)[k] = <<tags[k]>>
        /\ DOMAIN <<v>> = 1 .. 1 /\ Range(<<v>>) = {v}
    BY <1>1, <1>4, <2>1 DEF Range
  <2>3. [i \in DOMAIN <<v>> |-> tags[k]] = <<tags[k]>>
    BY <2>2
  <2> QED
    BY <1>4, <2>2, <2>3 DEF Diff
<1> QED
  BY <1>2, <1>3, <1>4

------------------------------------------------------------------------------
(* The state of the database and its buffers                                *)

Fields == {"rows", "tags", "buf", "tagBuf", "dead"}
BufferNames == {"tag", "way", "area"}
IsSeq(s) == \E S : s \in Seq(S)
ByKey(f) == f = [k \in Keys |-> f[k]]

IsDb(d) ==
    /\ DOMAIN d = Fields /\ d = [x \in Fields |-> d[x]] /\ d.dead \in BOOLEAN
    /\ DOMAIN d.rows = Tables /\ DOMAIN d.tags = Tables
    /\ \A t \in Tables : DOMAIN d.rows[t] = Entities /\ DOMAIN d.tags[t] = Entities
    /\ \A t \in Tables, e \in Entities : ByKey(d.tags[t][e])
    /\ DOMAIN d.buf = Tables /\ \A t \in Tables : IsSeq(d.buf[t])
    /\ DOMAIN d.tagBuf = BufferNames /\ \A b \in BufferNames : IsSeq(d.tagBuf[b])

(* A state with its parts, for states are only compared part by part *)
Has5(x, R, T, B, G, D) ==
    /\ DOMAIN x = Fields /\ x = [y \in Fields |-> x[y]]
    /\ x.rows = R /\ x.tags = T /\ x.buf = B /\ x.tagBuf = G /\ x.dead = D

(* What an insert adds before it flushes *)
Fill(d, t, e, row) ==
    [d EXCEPT !.buf[t] = Append(@, [id |-> e, row |-> row]),
              !.tagBuf[BufferOf(t)] = Append(@, [id |-> e, tags |-> Kept(row.tags)])]

(* The rows and tags after a flush *)
StoredRows(d, t) ==
    [d.rows EXCEPT ![t] = [e \in Entities |->
        IF d.rows[t][e] = NoRow /\ \E i \in DOMAIN d.buf[t] : d.buf[t][i].id = e
        THEN First(d.buf[t], e).row ELSE d.rows[t][e]]]
StoredTags(d, t) ==
    [d.tags EXCEPT ![t] = [e \in Entities |->
        [k \in Keys |-> d.tags[t][e][k] \o Values(d.tagBuf[BufferOf(t)], e, k)]]]

LEMMA BufferNamed == \A t \in Tables : BufferOf(t) \in BufferNames
BY DEF BufferOf, BufferNames, Tables

LEMMA AppendSeq ==
    ASSUME NEW s, IsSeq(s), NEW x
    PROVE  /\ IsSeq(Append(s, x)) /\ Len(s) \in Nat /\ DOMAIN s = 1 .. Len(s)
           /\ Len(Append(s, x)) = Len(s) + 1
           /\ DOMAIN Append(s, x) = 1 .. Len(s) + 1
           /\ \A i \in 1 .. Len(s) : Append(s, x)[i] = s[i]
           /\ Append(s, x)[Len(s) + 1] = x
<1>1. PICK S : s \in Seq(S)
  BY DEF IsSeq
<1>2. s \in Seq(S \cup {x})
  BY <1>1
<1>3. Append(s, x) \in Seq(S \cup {x})
  BY <1>2
<1> QED
  BY <1>2, <1>3 DEF IsSeq

LEMMA SeqIs ==
    ASSUME NEW S, NEW s \in Seq(S)
    PROVE  IsSeq(s)
BY Zenon DEF IsSeq

(* The tags of a buffer move to the table that is flushed. *)
LEMMA FlushTagsAs ==
    ASSUME NEW d, IsDb(d), NEW t \in Tables
    PROVE  Has5(FlushTags(d, t), d.rows, StoredTags(d, t), d.buf,
                [d.tagBuf EXCEPT ![BufferOf(t)] = <<>>], d.dead)
<1>1. PICK T : T = [e \in Entities |->
                      [k \in Keys |-> d.tags[t][e][k] \o Values(d.tagBuf[BufferOf(t)], e, k)]]
  OBVIOUS
<1>2. FlushTags(d, t) = [d EXCEPT !.tags[t] = T, !.tagBuf[BufferOf(t)] = <<>>]
  BY <1>1 DEF FlushTags
<1>3. StoredTags(d, t) = [d.tags EXCEPT ![t] = T]
  BY <1>1 DEF StoredTags
<1> QED
  BY <1>2, <1>3 DEF Has5, IsDb, Fields

LEMMA FlushAs ==
    ASSUME NEW d, IsDb(d), NEW t \in Tables
    PROVE  \/ d.buf[t] = <<>> /\ Flush(d, t) = d
           \/ t = "nodes" /\ Has5(Flush(d, t), d.rows, d.tags, d.buf, d.tagBuf, TRUE)
           \/ Has5(Flush(d, t), StoredRows(d, t), StoredTags(d, t), [d.buf EXCEPT ![t] = <<>>],
                   [d.tagBuf EXCEPT ![BufferOf(t)] = <<>>], d.dead)
<1>1. CASE d.buf[t] = <<>>
  BY <1>1, Zenon DEF Flush
<1>2. CASE d.buf[t] # <<>> /\ t = "nodes" /\ Collides(d, t)
  <2>1. Flush(d, t) = [d EXCEPT !.dead = TRUE]
    BY <1>2, Zenon DEF Flush
  <2> QED
    BY <1>2, <2>1 DEF Has5, IsDb, Fields
<1>3. CASE d.buf[t] # <<>> /\ ~(t = "nodes" /\ Collides(d, t))
  <2>1. PICK R : R = [e \in Entities |->
                        IF d.rows[t][e] = NoRow /\ \E i \in DOMAIN d.buf[t] : d.buf[t][i].id = e
                        THEN First(d.buf[t], e).row ELSE d.rows[t][e]]
    OBVIOUS
  <2>2. PICK s : s = CopyRows(d, t)
    OBVIOUS
  <2>a. s = [d EXCEPT !.rows[t] = R]
    BY <2>1, <2>2 DEF CopyRows
  <2>3. Flush(d, t) = [FlushTags(s, t) EXCEPT !.buf[t] = <<>>]
    BY <1>3, <2>2, Zenon DEF Flush
  <2>4. StoredRows(d, t) = [d.rows EXCEPT ![t] = R]
    BY <2>1 DEF StoredRows
  <2>5. Has5(s, StoredRows(d, t), d.tags, d.buf, d.tagBuf, d.dead)
    BY <2>a, <2>4 DEF Has5, IsDb, Fields
  <2>6. IsDb(s)
    <3>1. DOMAIN StoredRows(d, t) = Tables
          /\ \A u \in Tables : DOMAIN StoredRows(d, t)[u] = Entities
      BY <2>1, <2>4 DEF IsDb
    <3>2. /\ DOMAIN s = Fields /\ s = [x \in Fields |-> s[x]]
          /\ s.rows = StoredRows(d, t) /\ s.tags = d.tags /\ s.buf = d.buf /\ s.tagBuf = d.tagBuf
          /\ s.dead = d.dead /\ d.dead \in BOOLEAN
      BY <2>5 DEF Has5, IsDb
    <3> HIDE <2>1, <2>2, <2>3, <2>4
    <3>3. /\ DOMAIN s.rows = Tables /\ DOMAIN s.tags = Tables
          /\ \A u \in Tables : DOMAIN s.rows[u] = Entities /\ DOMAIN s.tags[u] = Entities
      BY <3>1, <3>2 DEF IsDb
    <3>4. \A u \in Tables, e \in Entities : ByKey(s.tags[u][e])
      BY <3>2 DEF IsDb
    <3>5. /\ DOMAIN s.buf = Tables /\ \A u \in Tables : IsSeq(s.buf[u])
          /\ DOMAIN s.tagBuf = BufferNames /\ \A b \in BufferNames : IsSeq(s.tagBuf[b])
      BY <3>2 DEF IsDb
    <3> QED
      BY <3>2, <3>3, <3>4, <3>5 DEF IsDb
  <2>7. StoredTags(s, t) = StoredTags(d, t)
    BY <2>5 DEF StoredTags, Has5
  <2>8. Has5(FlushTags(s, t), StoredRows(d, t), StoredTags(d, t), d.buf,
             [d.tagBuf EXCEPT ![BufferOf(t)] = <<>>], d.dead)
    BY <2>5, <2>6, <2>7, FlushTagsAs DEF Has5
  <2> QED
    BY <2>3, <2>8 DEF Has5, IsDb, Fields
<1> QED
  BY <1>1, <1>2, <1>3

LEMMA FillAs ==
    ASSUME NEW d, IsDb(d), NEW t \in Tables, NEW e, NEW row
    PROVE  Has5(Fill(d, t, e, row), d.rows, d.tags,
                [d.buf EXCEPT ![t] = Append(d.buf[t], [id |-> e, row |-> row])],
                [d.tagBuf EXCEPT ![BufferOf(t)] =
                    Append(d.tagBuf[BufferOf(t)], [id |-> e, tags |-> Kept(row.tags)])], d.dead)
<1>1. PICK B : B = Append(d.buf[t], [id |-> e, row |-> row])
  OBVIOUS
<1>2. PICK G : G = Append(d.tagBuf[BufferOf(t)], [id |-> e, tags |-> Kept(row.tags)])
  OBVIOUS
<1>3. Fill(d, t, e, row) = [d EXCEPT !.buf[t] = B, !.tagBuf[BufferOf(t)] = G]
  BY <1>1, <1>2 DEF Fill, IsDb, Fields
<1>4. Has5([d EXCEPT !.buf[t] = B, !.tagBuf[BufferOf(t)] = G], d.rows, d.tags,
           [d.buf EXCEPT ![t] = B], [d.tagBuf EXCEPT ![BufferOf(t)] = G], d.dead)
  BY DEF Has5, IsDb, Fields
<1> QED
  BY <1>1, <1>2, <1>3, <1>4

LEMMA InsertAs ==
    ASSUME NEW d, NEW t, NEW e, NEW row
    PROVE  Insert(d, t, e, row) = (IF Full(t, Len(Fill(d, t, e, row).buf[t]))
                                   THEN Flush(Fill(d, t, e, row), t) ELSE Fill(d, t, e, row))
BY Zenon DEF Insert, Fill

LEMMA UpdateAs ==
    ASSUME NEW d, IsDb(d), NEW t \in Tables, NEW e \in Entities, NEW row, NEW lucky
    PROVE  Has5(Update(d, t, e, row, lucky),
                [d.rows EXCEPT ![t] = [d.rows[t] EXCEPT ![e] =
                    IF d.rows[t][e] = NoRow THEN NoRow ELSE row]],
                [d.tags EXCEPT ![t] = [d.tags[t] EXCEPT ![e] =
                    [k \in Keys |-> Diff(d.tags[t][e][k], k, row.tags, lucky)]]],
                d.buf, d.tagBuf, d.dead)
<1>1. PICK R : R = IF d.rows[t][e] = NoRow THEN NoRow ELSE row
  OBVIOUS
<1>2. PICK T : T = [k \in Keys |-> Diff(d.tags[t][e][k], k, row.tags, lucky)]
  OBVIOUS
<1>3. Update(d, t, e, row, lucky) = [d EXCEPT !.rows[t][e] = R, !.tags[t][e] = T]
  BY <1>1, <1>2 DEF Update, IsDb, Fields
<1>4. Has5([d EXCEPT !.rows[t][e] = R, !.tags[t][e] = T],
           [d.rows EXCEPT ![t] = [d.rows[t] EXCEPT ![e] = R]],
           [d.tags EXCEPT ![t] = [d.tags[t] EXCEPT ![e] = T]], d.buf, d.tagBuf, d.dead)
  BY DEF Has5, IsDb, Fields
<1> QED
  BY <1>1, <1>2, <1>3, <1>4

LEMMA DeleteAs ==
    ASSUME NEW d, IsDb(d), NEW t \in Tables, NEW e \in Entities
    PROVE  Has5(Delete(d, t, e),
                [d.rows EXCEPT ![t] = [d.rows[t] EXCEPT ![e] = NoRow]],
                [d.tags EXCEPT ![t] = [d.tags[t] EXCEPT ![e] = NoTags]],
                d.buf, d.tagBuf, d.dead)
<1>1. PICK R : R = NoRow
  OBVIOUS
<1>2. PICK T : T = NoTags
  OBVIOUS
<1>3. Delete(d, t, e) = [d EXCEPT !.rows[t][e] = R, !.tags[t][e] = T]
  BY <1>1, <1>2 DEF Delete
<1>4. Has5([d EXCEPT !.rows[t][e] = R, !.tags[t][e] = T],
           [d.rows EXCEPT ![t] = [d.rows[t] EXCEPT ![e] = R]],
           [d.tags EXCEPT ![t] = [d.tags[t] EXCEPT ![e] = T]], d.buf, d.tagBuf, d.dead)
  BY DEF Has5, IsDb, Fields
<1> QED
  BY <1>1, <1>2, <1>3, <1>4

------------------------------------------------------------------------------
(* Each of them keeps the shape of the state.                               *)

LEMMA PartsIsDb ==
    ASSUME NEW x, NEW R, NEW T, NEW B, NEW G, NEW D \in BOOLEAN, Has5(x, R, T, B, G, D),
           DOMAIN R = Tables, DOMAIN T = Tables,
           \A t \in Tables : DOMAIN R[t] = Entities /\ DOMAIN T[t] = Entities,
           \A t \in Tables, e \in Entities : ByKey(T[t][e]),
           DOMAIN B = Tables, \A t \in Tables : IsSeq(B[t]),
           DOMAIN G = BufferNames, \A b \in BufferNames : IsSeq(G[b])
    PROVE  IsDb(x)
BY DEF IsDb, Has5

LEMMA FlushIsDb ==
    ASSUME NEW d, IsDb(d), NEW t \in Tables
    PROVE  IsDb(Flush(d, t))
<1>1. CASE Flush(d, t) = d
  BY <1>1
<1>2. CASE Has5(Flush(d, t), d.rows, d.tags, d.buf, d.tagBuf, TRUE)
  <2>1. /\ DOMAIN d.rows = Tables /\ DOMAIN d.tags = Tables
        /\ \A u \in Tables : DOMAIN d.rows[u] = Entities /\ DOMAIN d.tags[u] = Entities
        /\ \A u \in Tables, f \in Entities : ByKey(d.tags[u][f])
        /\ DOMAIN d.buf = Tables /\ \A u \in Tables : IsSeq(d.buf[u])
        /\ DOMAIN d.tagBuf = BufferNames /\ \A b \in BufferNames : IsSeq(d.tagBuf[b])
    BY DEF IsDb
  <2> QED
    BY <1>2, <2>1, PartsIsDb
<1>3. CASE Has5(Flush(d, t), StoredRows(d, t), StoredTags(d, t), [d.buf EXCEPT ![t] = <<>>],
                [d.tagBuf EXCEPT ![BufferOf(t)] = <<>>], d.dead)
  <2>1. DOMAIN StoredRows(d, t) = Tables
        /\ \A u \in Tables : DOMAIN StoredRows(d, t)[u] = Entities
    BY DEF StoredRows, IsDb
  <2>2. DOMAIN StoredTags(d, t) = Tables
        /\ \A u \in Tables : DOMAIN StoredTags(d, t)[u] = Entities
    BY DEF StoredTags, IsDb
  <2>3. ASSUME NEW u \in Tables, NEW e \in Entities
        PROVE  ByKey(StoredTags(d, t)[u][e])
    <3>1. CASE u = t
      <4>1. StoredTags(d, t)[u][e] = [k \in Keys |->
                d.tags[t][e][k] \o Values(d.tagBuf[BufferOf(t)], e, k)]
        BY <3>1 DEF StoredTags, IsDb
      <4> QED
        BY <4>1 DEF ByKey
    <3>2. CASE u # t
      <4>1. StoredTags(d, t)[u] = d.tags[u]
        BY <3>2 DEF StoredTags, IsDb
      <4> QED
        BY <4>1 DEF IsDb
    <3> QED
      BY <3>1, <3>2
  <2>4. PICK B : B = [d.buf EXCEPT ![t] = <<>>]
    OBVIOUS
  <2>5. DOMAIN B = Tables /\ \A u \in Tables : IsSeq(B[u])
    <3>1. DOMAIN B = Tables /\ B[t] \in Seq(Entities) /\ \A u \in Tables \ {t} : B[u] = d.buf[u]
      BY <2>4 DEF IsDb
    <3> QED
      BY <3>1, SeqIs DEF IsDb
  <2>6. PICK G : G = [d.tagBuf EXCEPT ![BufferOf(t)] = <<>>]
    OBVIOUS
  <2>7. DOMAIN G = BufferNames /\ \A b \in BufferNames : IsSeq(G[b])
    <3>1. /\ DOMAIN G = BufferNames /\ G[BufferOf(t)] \in Seq(Entities)
          /\ \A b \in BufferNames \ {BufferOf(t)} : G[b] = d.tagBuf[b]
      BY <2>6, BufferNamed DEF IsDb
    <3> QED
      BY <3>1, SeqIs DEF IsDb
  <2>8. Has5(Flush(d, t), StoredRows(d, t), StoredTags(d, t), B, G, d.dead)
    BY <1>3, <2>4, <2>6
  <2>9. d.dead \in BOOLEAN
    BY DEF IsDb
  <2> QED
    BY <2>1, <2>2, <2>3, <2>5, <2>7, <2>8, <2>9, PartsIsDb
<1> QED
  BY <1>1, <1>2, <1>3, FlushAs

LEMMA FillIsDb ==
    ASSUME NEW d, IsDb(d), NEW t \in Tables, NEW e, NEW row
    PROVE  IsDb(Fill(d, t, e, row))
<1>1. PICK B : B = [d.buf EXCEPT ![t] = Append(d.buf[t], [id |-> e, row |-> row])]
  OBVIOUS
<1>2. PICK G : G = [d.tagBuf EXCEPT ![BufferOf(t)] =
                       Append(d.tagBuf[BufferOf(t)], [id |-> e, tags |-> Kept(row.tags)])]
  OBVIOUS
<1>3. Has5(Fill(d, t, e, row), d.rows, d.tags, B, G, d.dead)
  BY <1>1, <1>2, FillAs
<1>4. DOMAIN B = Tables /\ \A u \in Tables : IsSeq(B[u])
  <2>1. IsSeq(Append(d.buf[t], [id |-> e, row |-> row]))
    BY AppendSeq DEF IsDb
  <2> QED
    BY <1>1, <2>1 DEF IsDb
<1>5. DOMAIN G = BufferNames /\ \A b \in BufferNames : IsSeq(G[b])
  <2>1. IsSeq(Append(d.tagBuf[BufferOf(t)], [id |-> e, tags |-> Kept(row.tags)]))
    BY AppendSeq, BufferNamed DEF IsDb
  <2> QED
    BY <1>2, <2>1 DEF IsDb
<1>6. /\ d.dead \in BOOLEAN
      /\ DOMAIN d.rows = Tables /\ DOMAIN d.tags = Tables
      /\ \A u \in Tables : DOMAIN d.rows[u] = Entities /\ DOMAIN d.tags[u] = Entities
      /\ \A u \in Tables, f \in Entities : ByKey(d.tags[u][f])
  BY DEF IsDb
<1> QED
  BY <1>3, <1>4, <1>5, <1>6, PartsIsDb

LEMMA OneChangedIsDb ==
    ASSUME NEW d, IsDb(d), NEW t \in Tables, NEW e \in Entities, NEW x, NEW row, NEW tags,
           ByKey(tags),
           Has5(x, [d.rows EXCEPT ![t] = [d.rows[t] EXCEPT ![e] = row]],
                [d.tags EXCEPT ![t] = [d.tags[t] EXCEPT ![e] = tags]],
                d.buf, d.tagBuf, d.dead)
    PROVE  IsDb(x)
<1>1. PICK R : R = [d.rows EXCEPT ![t] = [d.rows[t] EXCEPT ![e] = row]]
  OBVIOUS
<1>2. PICK T : T = [d.tags EXCEPT ![t] = [d.tags[t] EXCEPT ![e] = tags]]
  OBVIOUS
<1>3. DOMAIN R = Tables /\ DOMAIN T = Tables
      /\ \A u \in Tables : DOMAIN R[u] = Entities /\ DOMAIN T[u] = Entities
  BY <1>1, <1>2 DEF IsDb
<1>4. \A u \in Tables, f \in Entities : ByKey(T[u][f])
  <2>1. ASSUME NEW u \in Tables, NEW f \in Entities
        PROVE  T[u][f] = tags \/ T[u][f] = d.tags[u][f]
    BY <1>2 DEF IsDb
  <2> QED
    BY <2>1 DEF IsDb
<1>5. Has5(x, R, T, d.buf, d.tagBuf, d.dead)
  BY <1>1, <1>2
<1>6. /\ d.dead \in BOOLEAN
      /\ DOMAIN d.buf = Tables /\ \A u \in Tables : IsSeq(d.buf[u])
      /\ DOMAIN d.tagBuf = BufferNames /\ \A b \in BufferNames : IsSeq(d.tagBuf[b])
  BY DEF IsDb
<1> QED
  BY <1>3, <1>4, <1>5, <1>6, PartsIsDb

LEMMA UpdateIsDb ==
    ASSUME NEW d, IsDb(d), NEW t \in Tables, NEW e \in Entities, NEW row, NEW lucky
    PROVE  IsDb(Update(d, t, e, row, lucky))
<1>1. ByKey([k \in Keys |-> Diff(d.tags[t][e][k], k, row.tags, lucky)])
  BY DEF ByKey
<1> QED
  BY <1>1, UpdateAs, OneChangedIsDb

LEMMA DeleteIsDb ==
    ASSUME NEW d, IsDb(d), NEW t \in Tables, NEW e \in Entities
    PROVE  IsDb(Delete(d, t, e))
<1>1. ByKey(NoTags)
  BY DEF ByKey, NoTags
<1> QED
  BY <1>1, DeleteAs, OneChangedIsDb

------------------------------------------------------------------------------
(* What an entity has or is to get: a row, in the table or waiting in the   *)
(* buffer alone, and likewise its tags.                                     *)

In(d, t, e) == \E i \in DOMAIN d.buf[t] : d.buf[t][i].id = e
Waits(d, t, e, row) ==
    \E i \in DOMAIN d.buf[t] :
       /\ d.buf[t][i].id = e /\ d.buf[t][i].row = row
       /\ \A j \in DOMAIN d.buf[t] : d.buf[t][j].id = e => j = i
Holds(d, t, e, row) ==
    \/ d.rows[t][e] = row /\ ~In(d, t, e)
    \/ row # NoRow /\ d.rows[t][e] = NoRow /\ Waits(d, t, e, row)

Pending(d, b, e) == \E i \in DOMAIN d.tagBuf[b] : d.tagBuf[b][i].id = e
TagsWait(d, b, e, tags) ==
    \E i \in DOMAIN d.tagBuf[b] :
       /\ d.tagBuf[b][i].id = e /\ d.tagBuf[b][i].tags = tags
       /\ \A j \in DOMAIN d.tagBuf[b] : d.tagBuf[b][j].id = e => j = i
TagsDue(d, t, e, tags) ==
    \/ d.tags[t][e] = Once(tags) /\ ~Pending(d, BufferOf(t), e)
    \/ t \in {"ways", "areas"} /\ d.tags[t][e] = NoTags /\ TagsWait(d, BufferOf(t), e, tags)

KeepsRow(d, x, t, e)  == \A row : Holds(d, t, e, row) => Holds(x, t, e, row)
KeepsTags(d, x, t, e) == \A tags : TagsDue(d, t, e, tags) => TagsDue(x, t, e, tags)
Keeps(d, x, e) == \A t \in Tables : KeepsRow(d, x, t, e) /\ KeepsTags(d, x, t, e)

(* Tags wait beside a row that waits. *)
BesideRows(d) == \A b \in BufferNames : \A i \in DOMAIN d.tagBuf[b] :
                    \E t \in Tables : BufferOf(t) = b /\ In(d, t, d.tagBuf[b][i].id)

LEMMA SameKeeps ==
    ASSUME NEW d, NEW x, NEW t, NEW e
    PROVE  /\ (x.rows[t][e] = d.rows[t][e] /\ x.buf[t] = d.buf[t]) => KeepsRow(d, x, t, e)
           /\ (x.tags[t][e] = d.tags[t][e] /\ x.tagBuf[BufferOf(t)] = d.tagBuf[BufferOf(t)])
                => KeepsTags(d, x, t, e)
<1>1. ASSUME x.rows[t][e] = d.rows[t][e], x.buf[t] = d.buf[t]
      PROVE  KeepsRow(d, x, t, e)
  BY <1>1 DEF KeepsRow, Holds, In, Waits
<1>2. ASSUME x.tags[t][e] = d.tags[t][e], x.tagBuf[BufferOf(t)] = d.tagBuf[BufferOf(t)]
      PROVE  KeepsTags(d, x, t, e)
  BY <1>2 DEF KeepsTags, TagsDue, Pending, TagsWait
<1> QED
  BY <1>1, <1>2

LEMMA KeepsThrough ==
    ASSUME NEW d, NEW x, NEW y, NEW e
    PROVE  /\ \A t : KeepsRow(d, x, t, e) /\ KeepsRow(x, y, t, e) => KeepsRow(d, y, t, e)
           /\ \A t : KeepsTags(d, x, t, e) /\ KeepsTags(x, y, t, e) => KeepsTags(d, y, t, e)
           /\ Keeps(d, x, e) /\ Keeps(x, y, e) => Keeps(d, y, e)
           /\ Keeps(d, d, e)
BY DEF KeepsRow, KeepsTags, Keeps

LEMMA FirstStays ==
    ASSUME NEW b, IsSeq(b), NEW e, \E i \in DOMAIN b : b[i].id = e
    PROVE  \E i \in DOMAIN b : First(b, e) = b[i] /\ b[i].id = e
<1>1. PICK S : b \in Seq(S)
  BY DEF IsSeq
<1>2. Len(b) \in Nat /\ DOMAIN b = 1 .. Len(b)
  BY <1>1
<1> DEFINE T == {i \in 1 .. Len(b) : b[i].id = e}
<1>3. T \in SUBSET (1 .. Len(b)) /\ T # {}
  BY <1>2
<1>4. PICK i \in T : \A j \in 1 .. i - 1 : j \notin T
  BY <1>2, <1>3, LeastIndex
<1>5. i \in DOMAIN b /\ b[i].id = e /\ \A j \in 1 .. i - 1 : b[j].id # e
  <2>1. \A j \in 1 .. i - 1 : j \in 1 .. Len(b)
    BY <1>2
  <2> QED
    BY <1>2, <1>4, <2>1
<1> QED
  BY <1>5, Zenon DEF First

(* A flush, if it does not end the process, keeps what everyone is to get. *)
LEMMA FlushKeeps ==
    ASSUME NEW d, IsDb(d), NEW t \in Tables, ~Flush(d, t).dead, NEW e \in Entities
    PROVE  Keeps(d, Flush(d, t), e)
<1>1. CASE Flush(d, t) = d
  BY <1>1, KeepsThrough
<1>2. CASE Has5(Flush(d, t), StoredRows(d, t), StoredTags(d, t), [d.buf EXCEPT ![t] = <<>>],
                [d.tagBuf EXCEPT ![BufferOf(t)] = <<>>], d.dead)
  <2>1. PICK x : x = Flush(d, t)
    OBVIOUS
  <2>2. /\ x.rows = StoredRows(d, t) /\ x.tags = StoredTags(d, t)
        /\ x.buf = [d.buf EXCEPT ![t] = <<>>]
        /\ x.tagBuf = [d.tagBuf EXCEPT ![BufferOf(t)] = <<>>]
    BY <1>2, <2>1 DEF Has5
  <2>3. /\ \A u \in Tables \ {t} : x.rows[u] = d.rows[u] /\ x.tags[u] = d.tags[u]
                                   /\ x.buf[u] = d.buf[u]
        /\ \A b \in BufferNames \ {BufferOf(t)} : x.tagBuf[b] = d.tagBuf[b]
        /\ x.buf[t] = <<>> /\ x.tagBuf[BufferOf(t)] = <<>>
    BY <2>2, BufferNamed DEF IsDb, StoredRows, StoredTags
  <2>4. /\ x.rows[t][e] = (IF d.rows[t][e] = NoRow /\ In(d, t, e)
                           THEN First(d.buf[t], e).row ELSE d.rows[t][e])
        /\ x.tags[t][e] = [k \in Keys |->
               d.tags[t][e][k] \o Values(d.tagBuf[BufferOf(t)], e, k)]
    <3>1. x.rows[t] = [f \in Entities |->
             IF d.rows[t][f] = NoRow /\ \E i \in DOMAIN d.buf[t] : d.buf[t][i].id = f
             THEN First(d.buf[t], f).row ELSE d.rows[t][f]]
      BY <2>2 DEF IsDb, StoredRows
    <3>2. x.tags[t] = [f \in Entities |-> [k \in Keys |->
             d.tags[t][f][k] \o Values(d.tagBuf[BufferOf(t)], f, k)]]
      BY <2>2 DEF IsDb, StoredTags
    <3> QED
      BY <3>1, <3>2 DEF In
  <2>5. ~In(x, t, e) /\ ~Pending(x, BufferOf(t), e)
    BY <2>3 DEF In, Pending
  <2>6. ASSUME NEW u \in Tables PROVE KeepsRow(d, x, u, e)
    <3>1. CASE u # t
      BY <2>3, <3>1, SameKeeps
    <3>2. ASSUME u = t, NEW row, Holds(d, t, e, row)
          PROVE  x.rows[t][e] = row
      <4>1. CASE d.rows[t][e] = row /\ ~In(d, t, e)
        BY <2>4, <4>1
      <4>2. CASE d.rows[t][e] = NoRow /\ Waits(d, t, e, row)
        <5>1. PICK i \in DOMAIN d.buf[t] :
                 /\ d.buf[t][i].id = e /\ d.buf[t][i].row = row
                 /\ \A j \in DOMAIN d.buf[t] : d.buf[t][j].id = e => j = i
          BY <4>2 DEF Waits
        <5>2. In(d, t, e) /\ IsSeq(d.buf[t])
          BY <5>1 DEF In, IsDb
        <5>3. First(d.buf[t], e).row = row
          BY <5>1, <5>2, FirstStays
        <5> QED
          BY <2>4, <4>2, <5>2, <5>3
      <4> QED
        BY <3>2, <4>1, <4>2 DEF Holds
    <3> QED
      BY <2>5, <3>1, <3>2 DEF KeepsRow, Holds
  <2>7. ASSUME NEW u \in Tables PROVE KeepsTags(d, x, u, e)
    <3>1. CASE BufferOf(u) # BufferOf(t)
      <4>1. u # t /\ BufferOf(u) \in BufferNames
        BY <3>1, BufferNamed
      <4> QED
        BY <2>3, <3>1, <4>1, SameKeeps
    <3>2. CASE BufferOf(u) = BufferOf(t) /\ u # t
      <4>1. u \notin {"ways", "areas"}
        BY <3>2 DEF BufferOf, Tables
      <4>2. ~Pending(x, BufferOf(u), e) /\ x.tags[u] = d.tags[u]
        BY <2>3, <2>5, <3>2
      <4> QED
        BY <4>1, <4>2 DEF KeepsTags, TagsDue
    <3>3. CASE u = t
      <4>1. ASSUME NEW tags, d.tags[t][e] = Once(tags), ~Pending(d, BufferOf(t), e)
            PROVE  x.tags[t][e] = Once(tags)
        <5>1. \A k \in Keys : Values(d.tagBuf[BufferOf(t)], e, k) = <<>>
          BY <4>1, NoValues DEF Pending
        <5>2. \A k \in Keys : Once(tags)[k] \o <<>> = Once(tags)[k]
          BY OnceOf
        <5>3. x.tags[t][e] = [k \in Keys |-> Once(tags)[k]]
          BY <2>4, <4>1, <5>1, <5>2
        <5> QED
          BY <5>3 DEF Once
      <4>2. ASSUME NEW tags, d.tags[t][e] = NoTags, TagsWait(d, BufferOf(t), e, tags)
            PROVE  x.tags[t][e] = Once(tags)
        <5>1. PICK g : g = d.tagBuf[BufferOf(t)]
          OBVIOUS
        <5>2. PICK i \in DOMAIN g : /\ g[i].id = e /\ g[i].tags = tags
                                    /\ \A j \in DOMAIN g : g[j].id = e => j = i
          BY <4>2, <5>1 DEF TagsWait
        <5>3. ASSUME NEW k \in Keys PROVE Values(g, e, k) = Once(tags)[k]
          <6>1. CASE k \in DOMAIN tags
            <7>1. \A j \in DOMAIN g : (g[j].id = e /\ k \in DOMAIN g[j].tags) <=> j = i
              BY <5>2, <6>1
            <7>2. Values(g, e, k) = <<g[i].tags[k]>>
              BY <7>1, OneValue
            <7>3. Once(tags)[k] = <<tags[k]>>
              BY <6>1, OnceOf
            <7> QED
              BY <5>2, <7>2, <7>3
          <6>2. CASE k \notin DOMAIN tags
            <7>1. \A j \in DOMAIN g : ~(g[j].id = e /\ k \in DOMAIN g[j].tags)
              BY <5>2, <6>2
            <7>2. Values(g, e, k) = <<>>
              BY <7>1, NoValues
            <7>3. Once(tags)[k] = <<>>
              BY <6>2, OnceOf
            <7> QED
              BY <7>2, <7>3
          <6> QED
            BY <6>1, <6>2
        <5>4. \A k \in Keys : d.tags[t][e][k] = <<>>
          BY <4>2 DEF NoTags
        <5>5. \A k \in Keys : <<>> \o Once(tags)[k] = Once(tags)[k]
          BY OnceOf
        <5>6. x.tags[t][e] = [k \in Keys |-> Once(tags)[k]]
          BY <2>4, <5>1, <5>3, <5>4, <5>5
        <5> QED
          BY <5>6 DEF Once
      <4> QED
        BY <2>5, <3>3, <4>1, <4>2 DEF KeepsTags, TagsDue
    <3> QED
      BY <3>1, <3>2, <3>3
  <2> QED
    BY <2>1, <2>6, <2>7 DEF Keeps
<1> QED
  BY <1>1, <1>2, FlushAs DEF Has5

------------------------------------------------------------------------------
(* An insert gives its entity the row and the tags, and nobody else's away. *)

LEMMA Appended ==
    ASSUME NEW s, IsSeq(s), NEW p, NEW y, y = Append(s, p)
    PROVE  /\ Len(s) \in Nat /\ Len(y) = Len(s) + 1
           /\ \E n \in Nat : /\ DOMAIN s = 1 .. n /\ DOMAIN y = 1 .. n + 1
                             /\ \A i \in 1 .. n : y[i] = s[i]
                             /\ y[n + 1] = p
<1>1. /\ Len(s) \in Nat /\ DOMAIN s = 1 .. Len(s)
      /\ DOMAIN y = 1 .. Len(s) + 1 /\ Len(y) = Len(s) + 1
      /\ \A i \in 1 .. Len(s) : y[i] = s[i]
      /\ y[Len(s) + 1] = p
  BY AppendSeq
<1> QED
  BY <1>1

LEMMA FillElsewhere ==
    ASSUME NEW d, IsDb(d), NEW t \in Tables, NEW e, NEW row,
           NEW x, x = Fill(d, t, e, row), NEW b, b = BufferOf(t)
    PROVE  /\ x.rows = d.rows /\ x.tags = d.tags /\ x.dead = d.dead
           /\ \A u \in Tables \ {t} : x.buf[u] = d.buf[u]
           /\ \A c \in BufferNames \ {b} : x.tagBuf[c] = d.tagBuf[c]
<1>1. PICK p : p = [id |-> e, row |-> row]
  OBVIOUS
<1>2. PICK q : q = [id |-> e, tags |-> Kept(row.tags)]
  OBVIOUS
<1>3. /\ x.rows = d.rows /\ x.tags = d.tags /\ x.dead = d.dead
      /\ x.buf = [d.buf EXCEPT ![t] = Append(d.buf[t], p)]
      /\ x.tagBuf = [d.tagBuf EXCEPT ![b] = Append(d.tagBuf[b], q)]
  BY <1>1, <1>2, FillAs DEF Has5
<1>4. b \in BufferNames
  BY BufferNamed
<1>5. \A u \in Tables \ {t} : x.buf[u] = d.buf[u]
  BY <1>3 DEF IsDb
<1>6. \A c \in BufferNames \ {b} : x.tagBuf[c] = d.tagBuf[c]
  BY <1>3, <1>4 DEF IsDb
<1> QED
  BY <1>3, <1>5, <1>6

(* A buffer has got one more entry, the last.                               *)
RowGrown(d, x, t, e, row) ==
    \E n \in Nat : /\ DOMAIN d.buf[t] = 1 .. n /\ DOMAIN x.buf[t] = 1 .. n + 1
                   /\ \A i \in 1 .. n : x.buf[t][i] = d.buf[t][i]
                   /\ x.buf[t][n + 1].id = e /\ x.buf[t][n + 1].row = row
TagsGrown(d, x, b, e, row) ==
    \E n \in Nat : /\ DOMAIN d.tagBuf[b] = 1 .. n /\ DOMAIN x.tagBuf[b] = 1 .. n + 1
                   /\ \A i \in 1 .. n : x.tagBuf[b][i] = d.tagBuf[b][i]
                   /\ x.tagBuf[b][n + 1].id = e /\ x.tagBuf[b][n + 1].tags = Kept(row.tags)

LEMMA FillRows ==
    ASSUME NEW d, IsDb(d), NEW t \in Tables, NEW e, NEW row,
           NEW x, x = Fill(d, t, e, row), NEW b, b = BufferOf(t)
    PROVE  /\ Len(d.buf[t]) \in Nat /\ Len(x.buf[t]) = Len(d.buf[t]) + 1
           /\ RowGrown(d, x, t, e, row)
<1>1. PICK p : p = [id |-> e, row |-> row]
  OBVIOUS
<1>2. PICK q : q = [id |-> e, tags |-> Kept(row.tags)]
  OBVIOUS
<1>3. /\ x.rows = d.rows /\ x.tags = d.tags /\ x.dead = d.dead
      /\ x.buf = [d.buf EXCEPT ![t] = Append(d.buf[t], p)]
      /\ x.tagBuf = [d.tagBuf EXCEPT ![b] = Append(d.tagBuf[b], q)]
  BY <1>1, <1>2, FillAs DEF Has5
<1>4. b \in BufferNames
  BY BufferNamed
<1>5. x.buf[t] = Append(d.buf[t], p) /\ IsSeq(d.buf[t])
  BY <1>3 DEF IsDb
<1>6. /\ Len(d.buf[t]) \in Nat /\ Len(x.buf[t]) = Len(d.buf[t]) + 1
      /\ \E n \in Nat : /\ DOMAIN d.buf[t] = 1 .. n /\ DOMAIN x.buf[t] = 1 .. n + 1
                        /\ \A i \in 1 .. n : x.buf[t][i] = d.buf[t][i]
                        /\ x.buf[t][n + 1] = p
  BY <1>5, Appended
<1>7. p.id = e /\ p.row = row
  BY <1>1
<1> QED
  BY <1>6, <1>7 DEF RowGrown

LEMMA FillTags ==
    ASSUME NEW d, IsDb(d), NEW t \in Tables, NEW e, NEW row,
           NEW x, x = Fill(d, t, e, row), NEW b, b = BufferOf(t)
    PROVE  TagsGrown(d, x, b, e, row)
<1>1. PICK p : p = [id |-> e, row |-> row]
  OBVIOUS
<1>2. PICK q : q = [id |-> e, tags |-> Kept(row.tags)]
  OBVIOUS
<1>3. /\ x.rows = d.rows /\ x.tags = d.tags /\ x.dead = d.dead
      /\ x.buf = [d.buf EXCEPT ![t] = Append(d.buf[t], p)]
      /\ x.tagBuf = [d.tagBuf EXCEPT ![b] = Append(d.tagBuf[b], q)]
  BY <1>1, <1>2, FillAs DEF Has5
<1>4. b \in BufferNames
  BY BufferNamed
<1>5. PICK g : g = d.tagBuf[b]
  OBVIOUS
<1>6. PICK h : h = x.tagBuf[b]
  OBVIOUS
<1>7. h = Append(g, q) /\ IsSeq(g)
  BY <1>3, <1>4, <1>5, <1>6 DEF IsDb
<1>8. PICK n \in Nat : /\ DOMAIN g = 1 .. n /\ DOMAIN h = 1 .. n + 1
                       /\ \A i \in 1 .. n : h[i] = g[i]
                       /\ h[n + 1] = q
  BY <1>7, Appended
<1>9. h[n + 1].id = e /\ h[n + 1].tags = Kept(row.tags)
  BY <1>2, <1>8
<1> QED
  BY <1>5, <1>6, <1>8, <1>9 DEF TagsGrown

LEMMA FillIn ==
    ASSUME NEW d, IsDb(d), NEW t \in Tables, NEW e, NEW row
    PROVE  /\ \A u \in Tables : \A f : In(Fill(d, t, e, row), u, f)
                                     <=> In(d, u, f) \/ (u = t /\ f = e)
           /\ \A c \in BufferNames : \A f : Pending(Fill(d, t, e, row), c, f)
                                     <=> Pending(d, c, f) \/ (c = BufferOf(t) /\ f = e)
<1>1. PICK x : x = Fill(d, t, e, row)
  OBVIOUS
<1>a. RowGrown(d, x, t, e, row) /\ TagsGrown(d, x, BufferOf(t), e, row)
  BY <1>1, FillRows, FillTags
<1>2. PICK n \in Nat :
         /\ DOMAIN d.buf[t] = 1 .. n /\ DOMAIN x.buf[t] = 1 .. n + 1
         /\ \A i \in 1 .. n : x.buf[t][i] = d.buf[t][i]
         /\ x.buf[t][n + 1].id = e
  BY <1>a DEF RowGrown
<1>3. PICK m \in Nat :
         /\ DOMAIN d.tagBuf[BufferOf(t)] = 1 .. m /\ DOMAIN x.tagBuf[BufferOf(t)] = 1 .. m + 1
         /\ \A i \in 1 .. m : x.tagBuf[BufferOf(t)][i] = d.tagBuf[BufferOf(t)][i]
         /\ x.tagBuf[BufferOf(t)][m + 1].id = e
  BY <1>a DEF TagsGrown
<1>4. /\ \A u \in Tables \ {t} : x.buf[u] = d.buf[u]
      /\ \A c \in BufferNames \ {BufferOf(t)} : x.tagBuf[c] = d.tagBuf[c]
  BY <1>1, FillElsewhere
<1>5. /\ n + 1 \in 1 .. n + 1 /\ m + 1 \in 1 .. m + 1
      /\ \A i \in 1 .. n + 1 : i \in 1 .. n \/ i = n + 1
      /\ \A i \in 1 .. m + 1 : i \in 1 .. m \/ i = m + 1
      /\ \A i \in 1 .. n : i \in 1 .. n + 1
      /\ \A i \in 1 .. m : i \in 1 .. m + 1
  OBVIOUS
<1>6. ASSUME NEW f PROVE In(x, t, f) <=> In(d, t, f) \/ f = e
  BY <1>2, <1>5 DEF In
<1>7. ASSUME NEW f PROVE Pending(x, BufferOf(t), f) <=> Pending(d, BufferOf(t), f) \/ f = e
  BY <1>3, <1>5 DEF Pending
<1>8. ASSUME NEW u \in Tables, u # t, NEW f PROVE In(x, u, f) <=> In(d, u, f)
  BY <1>4, <1>8 DEF In
<1>9. ASSUME NEW c \in BufferNames, c # BufferOf(t), NEW f PROVE Pending(x, c, f) <=> Pending(d, c, f)
  BY <1>4, <1>9 DEF Pending
<1> QED
  BY <1>1, <1>6, <1>7, <1>8, <1>9

LEMMA FillKeeps ==
    ASSUME NEW d, IsDb(d), NEW t \in Tables, NEW e, NEW row, NEW u \in Tables, NEW f
    PROVE  /\ (f # e \/ u # t) => KeepsRow(d, Fill(d, t, e, row), u, f)
           /\ (f # e \/ BufferOf(u) # BufferOf(t)) => KeepsTags(d, Fill(d, t, e, row), u, f)
<1>1. PICK x : x = Fill(d, t, e, row)
  OBVIOUS
<1>a. RowGrown(d, x, t, e, row) /\ TagsGrown(d, x, BufferOf(t), e, row)
  BY <1>1, FillRows, FillTags
<1>2. PICK n \in Nat :
         /\ DOMAIN d.buf[t] = 1 .. n /\ DOMAIN x.buf[t] = 1 .. n + 1
         /\ \A i \in 1 .. n : x.buf[t][i] = d.buf[t][i]
         /\ x.buf[t][n + 1].id = e
  BY <1>a DEF RowGrown
<1>3. PICK m \in Nat :
         /\ DOMAIN d.tagBuf[BufferOf(t)] = 1 .. m /\ DOMAIN x.tagBuf[BufferOf(t)] = 1 .. m + 1
         /\ \A i \in 1 .. m : x.tagBuf[BufferOf(t)][i] = d.tagBuf[BufferOf(t)][i]
         /\ x.tagBuf[BufferOf(t)][m + 1].id = e
  BY <1>a DEF TagsGrown
<1>4. /\ x.rows = d.rows /\ x.tags = d.tags
      /\ \A v \in Tables \ {t} : x.buf[v] = d.buf[v]
      /\ \A c \in BufferNames \ {BufferOf(t)} : x.tagBuf[c] = d.tagBuf[c]
  BY <1>1, FillElsewhere
<1>5. /\ \A i \in 1 .. n + 1 : i \in 1 .. n \/ i = n + 1
      /\ \A i \in 1 .. m + 1 : i \in 1 .. m \/ i = m + 1
      /\ \A i \in 1 .. n : i \in 1 .. n + 1
      /\ \A i \in 1 .. m : i \in 1 .. m + 1
  OBVIOUS
<1>6. ASSUME u # t PROVE KeepsRow(d, x, u, f)
  <2>1. x.rows[u][f] = d.rows[u][f] /\ x.buf[u] = d.buf[u]
    BY <1>4, <1>6
  <2> QED
    BY <2>1, SameKeeps
<1>7. ASSUME BufferOf(u) # BufferOf(t) PROVE KeepsTags(d, x, u, f)
  <2>1. x.tags[u][f] = d.tags[u][f] /\ x.tagBuf[BufferOf(u)] = d.tagBuf[BufferOf(u)]
    BY <1>4, <1>7, BufferNamed
  <2> QED
    BY <2>1, SameKeeps
<1>8. ASSUME f # e, u = t PROVE KeepsRow(d, x, u, f)
  <2>1. In(x, t, f) <=> In(d, t, f)
    BY <1>1, <1>8, FillIn
  <2>2. ASSUME NEW r, Waits(d, t, f, r) PROVE Waits(x, t, f, r)
    <3>1. PICK i \in 1 .. n : /\ d.buf[t][i].id = f /\ d.buf[t][i].row = r
                              /\ \A j \in 1 .. n : d.buf[t][j].id = f => j = i
      BY <1>2, <2>2 DEF Waits
    <3>2. i \in DOMAIN x.buf[t] /\ x.buf[t][i].id = f /\ x.buf[t][i].row = r
      BY <1>2, <1>5, <3>1
    <3>3. ASSUME NEW j \in DOMAIN x.buf[t], x.buf[t][j].id = f PROVE j = i
      BY <1>2, <1>5, <1>8, <3>1, <3>3
    <3> QED
      BY <3>2, <3>3 DEF Waits
  <2> QED
    BY <1>4, <1>8, <2>1, <2>2 DEF KeepsRow, Holds
<1>9. ASSUME f # e, BufferOf(u) = BufferOf(t) PROVE KeepsTags(d, x, u, f)
  <2> DEFINE b == BufferOf(t)
  <2>1. Pending(x, b, f) <=> Pending(d, b, f)
    BY <1>1, <1>9, FillIn, BufferNamed
  <2>2. ASSUME NEW r, TagsWait(d, b, f, r) PROVE TagsWait(x, b, f, r)
    <3>1. PICK i \in 1 .. m : /\ d.tagBuf[b][i].id = f /\ d.tagBuf[b][i].tags = r
                              /\ \A j \in 1 .. m : d.tagBuf[b][j].id = f => j = i
      BY <1>3, <2>2 DEF TagsWait
    <3>2. i \in DOMAIN x.tagBuf[b] /\ x.tagBuf[b][i].id = f /\ x.tagBuf[b][i].tags = r
      BY <1>3, <1>5, <3>1
    <3>3. ASSUME NEW j \in DOMAIN x.tagBuf[b], x.tagBuf[b][j].id = f PROVE j = i
      BY <1>3, <1>5, <1>9, <3>1, <3>3
    <3> QED
      BY <3>2, <3>3 DEF TagsWait
  <2> QED
    BY <1>4, <1>9, <2>1, <2>2 DEF KeepsTags, TagsDue
<1> QED
  BY <1>1, <1>6, <1>7, <1>8, <1>9

(* What an insert does, if it does not end the process *)
LEMMA InsertKeeps ==
    ASSUME NEW d, IsDb(d), NEW t \in Tables, NEW e \in Entities, NEW row,
           ~Insert(d, t, e, row).dead,
           NEW u \in Tables, NEW f \in Entities
    PROVE  /\ (f # e \/ u # t) => KeepsRow(d, Insert(d, t, e, row), u, f)
           /\ (f # e \/ BufferOf(u) # BufferOf(t)) => KeepsTags(d, Insert(d, t, e, row), u, f)
<1>1. PICK x : x = Fill(d, t, e, row)
  OBVIOUS
<1>2. PICK y : y = Insert(d, t, e, row)
  OBVIOUS
<1>3. IsDb(x)
  BY <1>1, FillIsDb
<1>4. y = x \/ y = Flush(x, t)
  BY <1>1, <1>2, InsertAs
<1>5. Keeps(x, y, f)
  BY <1>2, <1>3, <1>4, FlushKeeps, KeepsThrough
<1>6. KeepsRow(x, y, u, f) /\ KeepsTags(x, y, u, f)
  BY <1>5 DEF Keeps
<1>7. /\ (f # e \/ u # t) => KeepsRow(d, x, u, f)
      /\ (f # e \/ BufferOf(u) # BufferOf(t)) => KeepsTags(d, x, u, f)
  BY <1>1, FillKeeps
<1> QED
  BY <1>2, <1>6, <1>7, KeepsThrough

LEMMA InsertGives ==
    ASSUME NEW d, IsDb(d), NEW t \in Tables, NEW e \in Entities, NEW row,
           ~Insert(d, t, e, row).dead, row # NoRow
    PROVE  /\ Holds(d, t, e, NoRow) => Holds(Insert(d, t, e, row), t, e, row)
           /\ (t \in {"ways", "areas"} /\ d.tags[t][e] = NoTags /\ ~Pending(d, BufferOf(t), e))
                => TagsDue(Insert(d, t, e, row), t, e, Kept(row.tags))
<1>1. PICK x : x = Fill(d, t, e, row)
  OBVIOUS
<1>2. PICK y : y = Insert(d, t, e, row)
  OBVIOUS
<1>3. IsDb(x)
  BY <1>1, FillIsDb
<1>4. y = x \/ y = Flush(x, t)
  BY <1>1, <1>2, InsertAs
<1>5. Keeps(x, y, e)
  BY <1>2, <1>3, <1>4, FlushKeeps, KeepsThrough
<1>6. KeepsRow(x, y, t, e) /\ KeepsTags(x, y, t, e)
  BY <1>5 DEF Keeps
<1>7. x.rows = d.rows /\ x.tags = d.tags
  BY <1>1, FillElsewhere
<1>8. ASSUME Holds(d, t, e, NoRow) PROVE Holds(x, t, e, row)
  <2>a. RowGrown(d, x, t, e, row)
    BY <1>1, FillRows
  <2>1. PICK n \in Nat :
           /\ DOMAIN d.buf[t] = 1 .. n /\ DOMAIN x.buf[t] = 1 .. n + 1
           /\ \A i \in 1 .. n : x.buf[t][i] = d.buf[t][i]
           /\ x.buf[t][n + 1].id = e /\ x.buf[t][n + 1].row = row
    BY <2>a DEF RowGrown
  <2>2. n + 1 \in 1 .. n + 1 /\ \A i \in 1 .. n + 1 : i \in 1 .. n \/ i = n + 1
    OBVIOUS
  <2>3. d.rows[t][e] = NoRow /\ \A i \in 1 .. n : d.buf[t][i].id # e
    BY <1>8, <2>1 DEF Holds, In
  <2>4. \A j \in DOMAIN x.buf[t] : x.buf[t][j].id = e => j = n + 1
    BY <2>1, <2>2, <2>3
  <2>5. n + 1 \in DOMAIN x.buf[t] /\ x.buf[t][n + 1].id = e /\ x.buf[t][n + 1].row = row
    BY <2>1, <2>2
  <2>6. Waits(x, t, e, row)
    BY <2>4, <2>5 DEF Waits
  <2> QED
    BY <1>7, <2>3, <2>6 DEF Holds
<1>9. ASSUME t \in {"ways", "areas"}, d.tags[t][e] = NoTags, ~Pending(d, BufferOf(t), e)
      PROVE  TagsDue(x, t, e, Kept(row.tags))
  <2>b. PICK b : b = BufferOf(t)
    OBVIOUS
  <2>a. TagsGrown(d, x, b, e, row)
    BY <1>1, <2>b, FillTags
  <2>1. PICK m \in Nat :
           /\ DOMAIN d.tagBuf[b] = 1 .. m /\ DOMAIN x.tagBuf[b] = 1 .. m + 1
           /\ \A i \in 1 .. m : x.tagBuf[b][i] = d.tagBuf[b][i]
           /\ x.tagBuf[b][m + 1].id = e /\ x.tagBuf[b][m + 1].tags = Kept(row.tags)
    BY <2>a DEF TagsGrown
  <2>2. m + 1 \in 1 .. m + 1 /\ \A i \in 1 .. m + 1 : i \in 1 .. m \/ i = m + 1
    OBVIOUS
  <2>3. \A i \in 1 .. m : d.tagBuf[b][i].id # e
    BY <1>9, <2>b, <2>1 DEF Pending
  <2>4. TagsWait(x, b, e, Kept(row.tags))
    BY <2>1, <2>2, <2>3 DEF TagsWait
  <2> QED
    BY <1>7, <1>9, <2>b, <2>4 DEF TagsDue
<1> QED
  BY <1>2, <1>6, <1>8, <1>9 DEF KeepsRow, KeepsTags

------------------------------------------------------------------------------
(* Updates and deletions                                                    *)

LEMMA DeleteDoes ==
    ASSUME NEW d, IsDb(d), NEW t \in Tables, NEW e \in Entities,
           NEW x, x = Delete(d, t, e)
    PROVE  /\ x.buf = d.buf /\ x.tagBuf = d.tagBuf /\ x.dead = d.dead
           /\ x.rows[t][e] = NoRow /\ x.tags[t][e] = NoTags
           /\ \A u \in Tables, f \in Entities : (f # e \/ u # t) =>
                 x.rows[u][f] = d.rows[u][f] /\ x.tags[u][f] = d.tags[u][f]
<1>1. Has5(x, [d.rows EXCEPT ![t] = [d.rows[t] EXCEPT ![e] = NoRow]],
           [d.tags EXCEPT ![t] = [d.tags[t] EXCEPT ![e] = NoTags]], d.buf, d.tagBuf, d.dead)
  BY DeleteAs
<1>2. /\ x.rows = [d.rows EXCEPT ![t] = [d.rows[t] EXCEPT ![e] = NoRow]]
      /\ x.tags = [d.tags EXCEPT ![t] = [d.tags[t] EXCEPT ![e] = NoTags]]
      /\ x.buf = d.buf /\ x.tagBuf = d.tagBuf /\ x.dead = d.dead
  BY <1>1 DEF Has5
<1>3. /\ x.rows[t] = [d.rows[t] EXCEPT ![e] = NoRow]
      /\ x.tags[t] = [d.tags[t] EXCEPT ![e] = NoTags]
      /\ \A u \in Tables \ {t} : x.rows[u] = d.rows[u] /\ x.tags[u] = d.tags[u]
  BY <1>2 DEF IsDb
<1>4. DOMAIN d.rows[t] = Entities /\ DOMAIN d.tags[t] = Entities
  BY DEF IsDb
<1> QED
  BY <1>2, <1>3, <1>4

LEMMA UpdateDoes ==
    ASSUME NEW d, IsDb(d), NEW t \in Tables, NEW e \in Entities, NEW row, NEW lucky \in BOOLEAN,
           NEW x, x = Update(d, t, e, row, lucky)
    PROVE  /\ x.buf = d.buf /\ x.tagBuf = d.tagBuf /\ x.dead = d.dead
           /\ x.rows[t][e] = (IF d.rows[t][e] = NoRow THEN NoRow ELSE row)
           /\ \A old : d.tags[t][e] = Once(old) => x.tags[t][e] = Once(row.tags)
           /\ \A u \in Tables, f \in Entities : (f # e \/ u # t) =>
                 x.rows[u][f] = d.rows[u][f] /\ x.tags[u][f] = d.tags[u][f]
<1>1. PICK R : R = IF d.rows[t][e] = NoRow THEN NoRow ELSE row
  OBVIOUS
<1>2. PICK T : T = [k \in Keys |-> Diff(d.tags[t][e][k], k, row.tags, lucky)]
  OBVIOUS
<1>3. Has5(x, [d.rows EXCEPT ![t] = [d.rows[t] EXCEPT ![e] = R]],
           [d.tags EXCEPT ![t] = [d.tags[t] EXCEPT ![e] = T]], d.buf, d.tagBuf, d.dead)
  BY <1>1, <1>2, UpdateAs
<1>4. /\ x.buf = d.buf /\ x.tagBuf = d.tagBuf /\ x.dead = d.dead
      /\ x.rows[t][e] = R /\ x.tags[t][e] = T
      /\ \A u \in Tables, f \in Entities : (f # e \/ u # t) =>
            x.rows[u][f] = d.rows[u][f] /\ x.tags[u][f] = d.tags[u][f]
  <2>1. /\ x.rows = [d.rows EXCEPT ![t] = [d.rows[t] EXCEPT ![e] = R]]
        /\ x.tags = [d.tags EXCEPT ![t] = [d.tags[t] EXCEPT ![e] = T]]
        /\ x.buf = d.buf /\ x.tagBuf = d.tagBuf /\ x.dead = d.dead
    BY <1>3 DEF Has5
  <2>2. /\ x.rows[t] = [d.rows[t] EXCEPT ![e] = R]
        /\ x.tags[t] = [d.tags[t] EXCEPT ![e] = T]
        /\ \A u \in Tables \ {t} : x.rows[u] = d.rows[u] /\ x.tags[u] = d.tags[u]
    BY <2>1 DEF IsDb
  <2>3. DOMAIN d.rows[t] = Entities /\ DOMAIN d.tags[t] = Entities
    BY DEF IsDb
  <2> QED
    BY <2>1, <2>2, <2>3
<1>5. ASSUME NEW old, d.tags[t][e] = Once(old) PROVE T = Once(row.tags)
  <2>1. \A k \in Keys : Diff(d.tags[t][e][k], k, row.tags, lucky) = Once(row.tags)[k]
    BY <1>5, DiffOnce
  <2>2. T = [k \in Keys |-> Once(row.tags)[k]]
    BY <1>2, <2>1
  <2> QED
    BY <2>2 DEF Once
<1> QED
  BY <1>1, <1>4, <1>5

------------------------------------------------------------------------------
(* Types of what is stored and buffered, bounds of the buffers, and tags    *)
(* that wait beside their rows                                              *)

RowsTyped(d) ==
    /\ \A t \in Tables, e \in Entities :
          d.rows[t][e] # NoRow => DOMAIN d.rows[t][e].tags \subseteq Keys
    /\ \A t \in Tables : \A i \in DOMAIN d.buf[t] :
          d.buf[t][i].id \in Entities /\ DOMAIN d.buf[t][i].row.tags \subseteq Keys
MaxLen(t) == IF t = "nodes" THEN NodeRoom - 1 ELSE IF t = "ways" THEN room - 1 ELSE room
Bounded(d) == ~d.dead => \A t \in Tables : Len(d.buf[t]) <= MaxLen(t)
Good(d) == IsDb(d) /\ RowsTyped(d) /\ BesideRows(d) /\ Bounded(d)

(* What a flush leaves where *)
LEMMA FlushDoes ==
    ASSUME NEW d, IsDb(d), NEW t \in Tables, NEW x, x = Flush(d, t)
    PROVE  /\ \/ x = d /\ d.buf[t] = <<>>
              \/ /\ x.rows = d.rows /\ x.tags = d.tags /\ x.buf = d.buf
                 /\ x.tagBuf = d.tagBuf /\ x.dead /\ t = "nodes"
              \/ /\ \A u \in Tables \ {t} : x.rows[u] = d.rows[u] /\ x.buf[u] = d.buf[u]
                 /\ \A e \in Entities : \/ x.rows[t][e] = d.rows[t][e]
                                        \/ \E i \in DOMAIN d.buf[t] : x.rows[t][e] = d.buf[t][i].row
                 /\ \A c \in BufferNames \ {BufferOf(t)} : x.tagBuf[c] = d.tagBuf[c]
                 /\ x.buf[t] = <<>> /\ x.tagBuf[BufferOf(t)] = <<>> /\ x.dead = d.dead
<1>1. CASE d.buf[t] = <<>> /\ x = d
  BY <1>1
<1>2. CASE t = "nodes" /\ Has5(x, d.rows, d.tags, d.buf, d.tagBuf, TRUE)
  BY <1>2 DEF Has5
<1>3. CASE Has5(x, StoredRows(d, t), StoredTags(d, t), [d.buf EXCEPT ![t] = <<>>],
                [d.tagBuf EXCEPT ![BufferOf(t)] = <<>>], d.dead)
  <2>1. /\ x.rows = StoredRows(d, t) /\ x.dead = d.dead
        /\ x.buf = [d.buf EXCEPT ![t] = <<>>]
        /\ x.tagBuf = [d.tagBuf EXCEPT ![BufferOf(t)] = <<>>]
    BY <1>3 DEF Has5
  <2>2. /\ \A u \in Tables \ {t} : x.rows[u] = d.rows[u] /\ x.buf[u] = d.buf[u]
        /\ \A c \in BufferNames \ {BufferOf(t)} : x.tagBuf[c] = d.tagBuf[c]
        /\ x.buf[t] = <<>> /\ x.tagBuf[BufferOf(t)] = <<>>
    BY <2>1, BufferNamed DEF IsDb, StoredRows
  <2>3. x.rows[t] = [f \in Entities |->
             IF d.rows[t][f] = NoRow /\ \E i \in DOMAIN d.buf[t] : d.buf[t][i].id = f
             THEN First(d.buf[t], f).row ELSE d.rows[t][f]]
    BY <2>1 DEF IsDb, StoredRows
  <2>4. ASSUME NEW e \in Entities
        PROVE  \/ x.rows[t][e] = d.rows[t][e]
               \/ \E i \in DOMAIN d.buf[t] : x.rows[t][e] = d.buf[t][i].row
    <3>1. CASE d.rows[t][e] = NoRow /\ \E i \in DOMAIN d.buf[t] : d.buf[t][i].id = e
      <4>1. x.rows[t][e] = First(d.buf[t], e).row
        BY <2>3, <3>1
      <4>2. IsSeq(d.buf[t])
        BY DEF IsDb
      <4>3. \E i \in DOMAIN d.buf[t] : First(d.buf[t], e) = d.buf[t][i]
        BY <3>1, <4>2, FirstStays
      <4> QED
        BY <4>1, <4>3
    <3>2. CASE ~(d.rows[t][e] = NoRow /\ \E i \in DOMAIN d.buf[t] : d.buf[t][i].id = e)
      <4>1. x.rows[t][e] = d.rows[t][e]
        BY <2>3, <3>2
      <4> QED
        BY <4>1
    <3> QED
      BY <3>1, <3>2
  <2> QED
    BY <2>1, <2>2, <2>4
<1> QED
  BY <1>1, <1>2, <1>3, FlushAs

LEMMA FlushTyped ==
    ASSUME NEW d, IsDb(d), NEW t \in Tables, RowsTyped(d), BesideRows(d)
    PROVE  RowsTyped(Flush(d, t)) /\ BesideRows(Flush(d, t))
<1>1. PICK x : x = Flush(d, t)
  OBVIOUS
<1>2. CASE x = d
  BY <1>1, <1>2
<1>3. CASE x.rows = d.rows /\ x.buf = d.buf /\ x.tagBuf = d.tagBuf
  BY <1>1, <1>3 DEF RowsTyped, BesideRows, In
<1>4. CASE /\ \A u \in Tables \ {t} : x.rows[u] = d.rows[u] /\ x.buf[u] = d.buf[u]
           /\ \A e \in Entities : \/ x.rows[t][e] = d.rows[t][e]
                                  \/ \E i \in DOMAIN d.buf[t] : x.rows[t][e] = d.buf[t][i].row
           /\ \A c \in BufferNames \ {BufferOf(t)} : x.tagBuf[c] = d.tagBuf[c]
           /\ x.buf[t] = <<>> /\ x.tagBuf[BufferOf(t)] = <<>>
  <2>1. ASSUME NEW u \in Tables, NEW e \in Entities, x.rows[u][e] # NoRow
        PROVE  DOMAIN x.rows[u][e].tags \subseteq Keys
    BY <1>4, <2>1 DEF RowsTyped
  <2>2. ASSUME NEW u \in Tables, NEW i \in DOMAIN x.buf[u]
        PROVE  x.buf[u][i].id \in Entities /\ DOMAIN x.buf[u][i].row.tags \subseteq Keys
    BY <1>4 DEF RowsTyped
  <2>3. ASSUME NEW b \in BufferNames, NEW i \in DOMAIN x.tagBuf[b]
        PROVE  \E u \in Tables : BufferOf(u) = b /\ In(x, u, x.tagBuf[b][i].id)
    <3>1. b # BufferOf(t) /\ x.tagBuf[b] = d.tagBuf[b]
      BY <1>4
    <3>2. PICK u \in Tables : BufferOf(u) = b /\ In(d, u, d.tagBuf[b][i].id)
      BY <3>1 DEF BesideRows
    <3>3. u # t /\ x.buf[u] = d.buf[u]
      BY <1>4, <3>1, <3>2
    <3> QED
      BY <3>1, <3>2, <3>3 DEF In
  <2> QED
    BY <1>1, <2>1, <2>2, <2>3 DEF RowsTyped, BesideRows
<1> QED
  BY <1>1, <1>2, <1>3, <1>4, FlushDoes

LEMMA FillTyped ==
    ASSUME NEW d, IsDb(d), NEW t \in Tables, NEW e \in Entities, NEW row,
           DOMAIN row.tags \subseteq Keys, RowsTyped(d), BesideRows(d)
    PROVE  RowsTyped(Fill(d, t, e, row)) /\ BesideRows(Fill(d, t, e, row))
<1>1. PICK x : x = Fill(d, t, e, row)
  OBVIOUS
<1>2. PICK b : b = BufferOf(t)
  OBVIOUS
<1>3. /\ x.rows = d.rows
      /\ \A u \in Tables \ {t} : x.buf[u] = d.buf[u]
      /\ \A c \in BufferNames \ {b} : x.tagBuf[c] = d.tagBuf[c]
  BY <1>1, <1>2, FillElsewhere
<1>a. RowGrown(d, x, t, e, row) /\ TagsGrown(d, x, b, e, row)
  BY <1>1, <1>2, FillRows, FillTags
<1>4. PICK n \in Nat : /\ DOMAIN d.buf[t] = 1 .. n /\ DOMAIN x.buf[t] = 1 .. n + 1
                       /\ \A i \in 1 .. n : x.buf[t][i] = d.buf[t][i]
                       /\ x.buf[t][n + 1].id = e /\ x.buf[t][n + 1].row = row
  BY <1>a DEF RowGrown
<1>5. PICK m \in Nat : /\ DOMAIN d.tagBuf[b] = 1 .. m /\ DOMAIN x.tagBuf[b] = 1 .. m + 1
                       /\ \A i \in 1 .. m : x.tagBuf[b][i] = d.tagBuf[b][i]
                       /\ x.tagBuf[b][m + 1].id = e
  BY <1>a DEF TagsGrown
<1>6. ASSUME NEW u \in Tables, NEW i \in DOMAIN x.buf[u]
      PROVE  x.buf[u][i].id \in Entities /\ DOMAIN x.buf[u][i].row.tags \subseteq Keys
  <2>1. CASE u # t
    BY <1>3, <2>1 DEF RowsTyped
  <2>2. CASE u = t
    <3>1. i \in 1 .. n \/ i = n + 1
      BY <1>4, <2>2
    <3> QED
      BY <1>4, <2>2, <3>1 DEF RowsTyped
  <2> QED
    BY <2>1, <2>2
<1>7. ASSUME NEW c \in BufferNames, NEW i \in DOMAIN x.tagBuf[c]
      PROVE  \E u \in Tables : BufferOf(u) = c /\ In(x, u, x.tagBuf[c][i].id)
  <2>1. CASE i \in DOMAIN d.tagBuf[c] /\ x.tagBuf[c][i] = d.tagBuf[c][i]
    <3>1. PICK u \in Tables : BufferOf(u) = c /\ In(d, u, d.tagBuf[c][i].id)
      BY <2>1 DEF BesideRows
    <3>2. In(x, u, d.tagBuf[c][i].id)
      BY <1>1, <3>1, FillIn
    <3> QED
      BY <2>1, <3>1, <3>2
  <2>2. CASE c = b /\ i = m + 1
    <3>1. In(x, t, e)
      BY <1>1, FillIn
    <3> QED
      BY <1>2, <1>5, <2>2, <3>1
  <2>3. CASE c = b /\ i # m + 1
    <3>1. i \in 1 .. m
      BY <1>5, <2>3
    <3> QED
      BY <1>5, <2>1, <2>3, <3>1
  <2> QED
    BY <1>3, <2>1, <2>2, <2>3
<1>8. ASSUME NEW u \in Tables, NEW f \in Entities, x.rows[u][f] # NoRow
      PROVE  DOMAIN x.rows[u][f].tags \subseteq Keys
  BY <1>3, <1>8 DEF RowsTyped
<1> QED
  BY <1>1, <1>6, <1>7, <1>8 DEF RowsTyped, BesideRows

LEMMA RoomIsNat ==
    ASSUME room \in Rooms
    PROVE  \A t \in Tables : MaxLen(t) \in Nat
BY RoomAssumption DEF MaxLen

LEMMA FlushGood ==
    ASSUME NEW d, Good(d), NEW t \in Tables, room \in Rooms
    PROVE  Good(Flush(d, t))
<1>1. PICK x : x = Flush(d, t)
  OBVIOUS
<1>2. IsDb(x) /\ RowsTyped(x) /\ BesideRows(x)
  BY <1>1, FlushIsDb, FlushTyped DEF Good
<1>3. x = d \/ x.dead \/ (/\ \A u \in Tables \ {t} : x.buf[u] = d.buf[u]
                          /\ x.buf[t] = <<>> /\ x.dead = d.dead)
  BY <1>1, FlushDoes DEF Good
<1>4. Len(<<>>) = 0 /\ MaxLen(t) \in Nat
  BY RoomIsNat
<1>5. Bounded(x)
  BY <1>3, <1>4 DEF Bounded, Good
<1> QED
  BY <1>1, <1>2, <1>5 DEF Good

LEMMA InsertGood ==
    ASSUME NEW d, Good(d), ~d.dead, NEW t \in Tables, NEW e \in Entities, NEW row,
           DOMAIN row.tags \subseteq Keys, room \in Rooms
    PROVE  Good(Insert(d, t, e, row))
<1>1. PICK x : x = Fill(d, t, e, row)
  OBVIOUS
<1>2. PICK y : y = Insert(d, t, e, row)
  OBVIOUS
<1>3. IsDb(x) /\ RowsTyped(x) /\ BesideRows(x)
  BY <1>1, FillIsDb, FillTyped DEF Good
<1>4. y = (IF Full(t, Len(x.buf[t])) THEN Flush(x, t) ELSE x)
  BY <1>1, <1>2, InsertAs
<1>5. IsDb(y) /\ RowsTyped(y) /\ BesideRows(y)
  BY <1>3, <1>4, FlushIsDb, FlushTyped
<1>6. \A u \in Tables \ {t} : x.buf[u] = d.buf[u] /\ Len(x.buf[u]) <= MaxLen(u)
  BY <1>1, FillElsewhere DEF Good, Bounded
<1>7. MaxLen(t) \in Nat /\ Len(<<>>) = 0
  BY RoomIsNat
<1>8. CASE ~Full(t, Len(x.buf[t]))
  <2>1. Len(x.buf[t]) <= MaxLen(t)
    <3>1. Len(d.buf[t]) \in Nat /\ Len(x.buf[t]) = Len(d.buf[t]) + 1
      BY <1>1, FillRows DEF Good
    <3>2. room \in Nat /\ NodeRoom \in Nat
      BY RoomAssumption
    <3> QED
      BY <1>8, <3>1, <3>2 DEF Full, MaxLen
  <2> QED
    BY <1>2, <1>4, <1>5, <1>6, <1>8, <2>1 DEF Bounded, Good
<1>9. CASE Full(t, Len(x.buf[t]))
  <2>1. y = Flush(x, t)
    BY <1>4, <1>9
  <2>2. y.dead \/ (/\ \A u \in Tables \ {t} : y.buf[u] = x.buf[u]
                   /\ y.buf[t] = <<>>)
    BY <1>3, <2>1, FlushDoes
  <2>3. Bounded(y)
    BY <1>6, <1>7, <2>2 DEF Bounded
  <2> QED
    BY <1>2, <1>5, <2>3 DEF Good
<1> QED
  BY <1>8, <1>9

(* Updates and deletions leave the buffers alone. *)
LEMMA ChangeGood ==
    ASSUME NEW d, Good(d), NEW x, IsDb(x), NEW t \in Tables, NEW e \in Entities,
           x.buf = d.buf, x.tagBuf = d.tagBuf, x.dead = d.dead,
           \A u \in Tables, f \in Entities : (f # e \/ u # t) => x.rows[u][f] = d.rows[u][f],
           x.rows[t][e] # NoRow => DOMAIN x.rows[t][e].tags \subseteq Keys
    PROVE  Good(x)
<1>1. RowsTyped(x)
  BY DEF RowsTyped, Good
<1>2. BesideRows(x)
  BY DEF BesideRows, In, Good
<1>3. Bounded(x)
  BY DEF Bounded, Good
<1> QED
  BY <1>1, <1>2, <1>3 DEF Good

LEMMA DeleteGood ==
    ASSUME NEW d, Good(d), NEW t \in Tables, NEW e \in Entities
    PROVE  Good(Delete(d, t, e))
<1>1. PICK x : x = Delete(d, t, e)
  OBVIOUS
<1>2. IsDb(d) /\ IsDb(x)
  BY <1>1, DeleteIsDb DEF Good
<1> QED
  BY <1>1, <1>2, DeleteDoes, ChangeGood

LEMMA UpdateGood ==
    ASSUME NEW d, Good(d), NEW t \in Tables, NEW e \in Entities, NEW row,
           DOMAIN row.tags \subseteq Keys, NEW lucky \in BOOLEAN
    PROVE  Good(Update(d, t, e, row, lucky))
<1>1. PICK x : x = Update(d, t, e, row, lucky)
  OBVIOUS
<1>2. IsDb(d) /\ IsDb(x)
  BY <1>1, UpdateIsDb DEF Good
<1>3. /\ x.buf = d.buf /\ x.tagBuf = d.tagBuf /\ x.dead = d.dead
      /\ x.rows[t][e] = (IF d.rows[t][e] = NoRow THEN NoRow ELSE row)
      /\ \A u \in Tables, f \in Entities : (f # e \/ u # t) => x.rows[u][f] = d.rows[u][f]
  BY <1>1, <1>2, UpdateDoes
<1>4. x.rows[t][e] # NoRow => DOMAIN x.rows[t][e].tags \subseteq Keys
  BY <1>3
<1> QED
  BY <1>1, <1>2, <1>3, <1>4, ChangeGood

------------------------------------------------------------------------------
(* Type correctness                                                         *)

HistFields == {"overtaken", "lost", "undrawn", "moved", "born"}

DbTyped ==
    /\ IsDb(Db) /\ RowsTyped(Db) /\ BesideRows(Db)
    /\ status # "dead" => Bounded(Db)
RestTyped ==
    /\ DOMAIN map = Entities /\ \A e \in Entities : map[e] \in Contents[e] \cup {NoContent}
    /\ flat \in [Nodes -> Nat]
    /\ room \in Rooms
    /\ status \in {"applying", "flushed", "dead"}
    /\ count \in 0 .. MaxChanges
    /\ DOMAIN hist = HistFields /\ \A h \in HistFields : hist[h] \subseteq Entities
TypeInv == DbTyped /\ RestTyped

LEMMA TypeInvIsTypeOK == TypeInv => TypeOK
<1> SUFFICES ASSUME TypeInv PROVE TypeOK
  OBVIOUS
<1>1. /\ Db.rows = rows /\ Db.tags = tagRows /\ Db.buf = buf /\ ~Db.dead
  BY DEF Db
<1>2. /\ DOMAIN rows = Tables /\ DOMAIN tagRows = Tables
      /\ \A t \in Tables, e \in Entities : ByKey(tagRows[t][e])
  BY <1>1 DEF TypeInv, DbTyped, IsDb
<1>a. ASSUME NEW f, ByKey(f) PROVE DOMAIN f = Keys
  BY <1>a DEF ByKey
<1>3. \A t \in Tables, e \in Entities : DOMAIN tagRows[t][e] = Keys
  BY <1>2, <1>a
<1>4. /\ \A t \in Tables, e \in Entities :
            rows[t][e] # NoRow => DOMAIN rows[t][e].tags \subseteq Keys
      /\ \A t \in Tables : \A i \in DOMAIN buf[t] : buf[t][i].id \in Entities
  BY <1>1 DEF TypeInv, DbTyped, RowsTyped
<1>5. status # "dead" => \A t \in Tables : Len(buf[t]) <= MaxLen(t)
  BY <1>1 DEF TypeInv, DbTyped, Bounded
<1>6. RestTyped
  BY DEF TypeInv
<1>7. status # "dead" => \A t \in Tables : Len(buf[t]) <= (IF t = "nodes" THEN NodeRoom - 1
                                                            ELSE IF t = "ways" THEN room - 1
                                                            ELSE room)
  BY <1>5 DEF MaxLen
<1> QED
  BY <1>2, <1>3, <1>4, <1>6, <1>7 DEF TypeOK, RestTyped

LEMMA KeysOfContents ==
    ASSUME NEW e \in Entities, NEW c \in Contents[e]
    PROVE  DOMAIN c.tags \subseteq Keys
BY DEF Keys

(* What the import put into the tables *)
LEMMA ImportedRowIs ==
    ASSUME NEW t \in Tables, NEW e \in Entities, ImportedRows[t][e] # NoRow
    PROVE  InImport(e) /\ ImportedRows[t][e].tags = Imported[e].tags
<1>1. \A r : ImportedRow(e, r).tags = Imported[e].tags
  BY RowFields DEF ImportedRow
<1>2. \A r : Stored(r, t, e) # NoRow => InImport(e) /\ Stored(r, t, e) = ImportedRow(e, r)
  BY Zenon DEF Stored, Stores
<1>3. CASE t = "roads"
  <2>1. ImportedRows[t][e] =
          IF /\ e \in Relations /\ InImport(e) /\ ImportedTable(e) = "relations"
             /\ IsRoad(Imported[e].tags) /\ ImportedRow(e, ImportedWays).geog # <<>>
          THEN ImportedRow(e, ImportedWays) ELSE NoRow
    BY <1>3 DEF ImportedRows
  <2>2. InImport(e) /\ ImportedRows[t][e] = ImportedRow(e, ImportedWays)
    BY <2>1, Zenon
  <2> QED
    BY <1>1, <2>2
<1>4. CASE t # "roads"
  <2>1. ImportedRows[t][e] = Stored(ImportedWays, t, e)
    BY <1>4 DEF ImportedRows
  <2> QED
    BY <1>1, <1>2, <2>1
<1> QED
  BY <1>3, <1>4

LEMMA ImportedContent ==
    ASSUME NEW e \in Entities, InImport(e)
    PROVE  Imported[e] \in Contents[e]
BY EntityAssumption DEF InImport

LEMMA ImportedPlacesTyped == ImportedPlaces \in [Nodes -> Nat]
<1>1. ASSUME NEW n \in Nodes PROVE (IF InImport(n) THEN Imported[n].at ELSE 0) \in Nat
  <2>1. CASE InImport(n)
    <3>1. Imported[n] \in Contents[n]
      BY <2>1, ImportedContent DEF Entities
    <3> QED
      BY <2>1, <3>1, EntityAssumption
  <2>2. CASE ~InImport(n)
    BY <2>2
  <2> QED
    BY <2>1, <2>2
<1> QED
  BY <1>1 DEF ImportedPlaces

LEMMA InitTyped == Init => TypeInv
<1> SUFFICES ASSUME Init PROVE TypeInv
  OBVIOUS
<1>1. /\ rows = ImportedRows /\ buf = [t \in Tables |-> <<>>]
      /\ tagRows = [t \in Tables |-> [e \in Entities |->
                       IF rows[t][e] = NoRow THEN NoTags ELSE Once(Kept(rows[t][e].tags))]]
      /\ tagBuf = [b \in {"tag", "way", "area"} |-> <<>>]
  BY DEF Init
<1>2. Has5(Db, rows, tagRows, buf, tagBuf, FALSE)
  BY DEF Db, Has5, Fields
<1>3. DOMAIN rows = Tables /\ \A t \in Tables : DOMAIN rows[t] = Entities
  BY <1>1 DEF ImportedRows
<1>4. DOMAIN tagRows = Tables /\ \A t \in Tables : DOMAIN tagRows[t] = Entities
  BY <1>1
<1>5. ASSUME NEW t \in Tables, NEW e \in Entities PROVE ByKey(tagRows[t][e])
  <2>1. ByKey(NoTags) /\ \A x : ByKey(Once(x))
    BY DEF ByKey, NoTags, Once
  <2>2. tagRows[t][e] = NoTags \/ tagRows[t][e] = Once(Kept(rows[t][e].tags))
    BY <1>1
  <2> QED
    BY <2>1, <2>2
<1>6. /\ DOMAIN buf = Tables /\ DOMAIN tagBuf = BufferNames
      /\ \A t \in Tables : buf[t] \in Seq(Entities) /\ buf[t] = <<>>
      /\ \A b \in BufferNames : tagBuf[b] \in Seq(Entities) /\ tagBuf[b] = <<>>
  BY <1>1 DEF BufferNames
<1>7. /\ \A t \in Tables : IsSeq(buf[t])
      /\ \A b \in BufferNames : IsSeq(tagBuf[b])
  BY <1>6, SeqIs
<1>8. IsDb(Db)
  <2>1. DOMAIN buf = Tables /\ DOMAIN tagBuf = BufferNames
    BY <1>6
  <2>2. \A t \in Tables : DOMAIN rows[t] = Entities /\ DOMAIN tagRows[t] = Entities
    BY <1>3, <1>4
  <2>3. \A t \in Tables, e \in Entities : ByKey(tagRows[t][e])
    BY <1>5
  <2>4. DOMAIN rows = Tables /\ DOMAIN tagRows = Tables /\ FALSE \in BOOLEAN
    BY <1>3, <1>4
  <2> QED
    BY <1>2, <1>7, <2>1, <2>2, <2>3, <2>4, PartsIsDb
<1>9. Db.rows = rows /\ Db.buf = buf /\ Db.tagBuf = tagBuf
  BY DEF Db
<1>10. \A t \in Tables, e \in Entities :
          rows[t][e] # NoRow => DOMAIN rows[t][e].tags \subseteq Keys
  BY <1>1, ImportedRowIs, ImportedContent, KeysOfContents
<1>11. RowsTyped(Db)
  BY <1>6, <1>9, <1>10 DEF RowsTyped
<1>12. BesideRows(Db)
  BY <1>6, <1>9 DEF BesideRows
<1>13. room \in Rooms
  BY DEF Init
<1>14. Bounded(Db)
  <2>1. \A t \in Tables : MaxLen(t) \in Nat /\ Len(buf[t]) = 0
    BY <1>6, <1>13, RoomIsNat
  <2> QED
    BY <1>9, <2>1 DEF Bounded
<1>15. RestTyped
  <2>1. map = Imported /\ flat = ImportedPlaces /\ status = "applying" /\ count = 0
        /\ hist = [overtaken |-> {}, lost |-> {}, undrawn |-> {w \in Ways : InImport(w) /\ ~Stores(w)},
                   moved |-> {}, born |-> {}]
    BY DEF Init
  <2>a. PICK short : short = {w \in Ways : InImport(w) /\ ~Stores(w)}
    OBVIOUS
  <2>b. short \subseteq Entities
    BY <2>a DEF Entities
  <2>c. hist = [overtaken |-> {}, lost |-> {}, undrawn |-> short, moved |-> {}, born |-> {}]
    BY <2>1, <2>a
  <2>2. DOMAIN hist = HistFields /\ \A h \in HistFields : hist[h] \subseteq Entities
    BY <2>b, <2>c DEF HistFields
  <2>3. 0 \in 0 .. MaxChanges
    BY RoomAssumption
  <2>4. DOMAIN map = Entities /\ \A e \in Entities : map[e] \in Contents[e] \cup {NoContent}
    BY <2>1, EntityAssumption
  <2> QED
    BY <1>13, <2>1, <2>2, <2>3, <2>4, ImportedPlacesTyped DEF RestTyped
<1> QED
  BY <1>8, <1>11, <1>12, <1>14, <1>15 DEF TypeInv, DbTyped

(* A change begins in a good state, and one it makes good is one.           *)
LEMMA DbIsGood ==
    ASSUME TypeInv, status # "dead"
    PROVE  Good(Db) /\ Db.dead = FALSE /\ IsDb(Db)
BY DEF TypeInv, DbTyped, Good, Db

LEMMA SetDbTyped ==
    ASSUME NEW d, Good(d), SetDb(d), room' = room
    PROVE  /\ DbTyped' /\ status' \in {"applying", "dead"}
           /\ status' # "dead" => Db' = d
<1>1. /\ rows' = d.rows /\ tagRows' = d.tags /\ buf' = d.buf /\ tagBuf' = d.tagBuf
      /\ status' = IF d.dead THEN "dead" ELSE "applying"
  BY DEF SetDb
<1>2. PICK y : y = [rows |-> d.rows, tags |-> d.tags, buf |-> d.buf, tagBuf |-> d.tagBuf,
                    dead |-> FALSE]
  OBVIOUS
<1>3. Db' = y
  BY <1>1, <1>2 DEF Db
<1>4. Has5(y, d.rows, d.tags, d.buf, d.tagBuf, FALSE)
  BY <1>2 DEF Has5, Fields
<1>5. /\ DOMAIN d.rows = Tables /\ DOMAIN d.tags = Tables
      /\ \A u \in Tables : DOMAIN d.rows[u] = Entities /\ DOMAIN d.tags[u] = Entities
      /\ \A u \in Tables, f \in Entities : ByKey(d.tags[u][f])
      /\ DOMAIN d.buf = Tables /\ \A u \in Tables : IsSeq(d.buf[u])
      /\ DOMAIN d.tagBuf = BufferNames /\ \A b \in BufferNames : IsSeq(d.tagBuf[b])
  BY DEF Good, IsDb
<1>6. IsDb(y)
  BY <1>4, <1>5, PartsIsDb
<1>7. y.rows = d.rows /\ y.tags = d.tags /\ y.buf = d.buf /\ y.tagBuf = d.tagBuf /\ y.dead = FALSE
  BY <1>2
<1>8. RowsTyped(y)
  BY <1>7 DEF Good, RowsTyped
<1>9. BesideRows(y)
  BY <1>7 DEF Good, BesideRows, In
<1>10. d.dead \in BOOLEAN
  BY DEF Good, IsDb
<1>11. status' # "dead" => Bounded(d)' /\ d.dead = FALSE
  BY <1>1, <1>10 DEF Good, Bounded, MaxLen
<1>12. status' # "dead" => Bounded(y)'
  BY <1>7, <1>11 DEF Bounded, MaxLen
<1>13. IsDb(Db') /\ RowsTyped(Db') /\ BesideRows(Db')
  BY <1>3, <1>6, <1>8, <1>9
<1>14. (status # "dead" => Bounded(Db))'
  BY <1>3, <1>12 DEF Bounded, MaxLen
<1>15. ASSUME d.dead = FALSE PROVE y = d
  <2>1. /\ DOMAIN d = Fields /\ d = [x \in Fields |-> d[x]]
        /\ DOMAIN y = Fields /\ y = [x \in Fields |-> y[x]]
    BY <1>4 DEF Good, IsDb, Has5
  <2>2. \A x \in Fields : y[x] = d[x]
    BY <1>7, <1>15 DEF Fields
  <2> QED
    BY <2>1, <2>2
<1> QED
  BY <1>1, <1>3, <1>10, <1>13, <1>14, <1>15 DEF DbTyped

LEMMA ChangeTyped ==
    ASSUME TypeInv, NEW e \in Entities, NEW c \in Contents[e] \cup {NoContent}, Step(e, c),
           NEW d, Good(d), SetDb(d), flat' \in [Nodes -> Nat],
           DOMAIN hist' = HistFields, \A h \in HistFields : hist'[h] \subseteq Entities
    PROVE  TypeInv'
<1>1. room' = room /\ map' = [map EXCEPT ![e] = c] /\ count' = count + 1 /\ count < MaxChanges
  BY DEF Step
<1>2. RestTyped
  BY DEF TypeInv
<1>3. DbTyped' /\ status' \in {"applying", "dead"}
  BY <1>1, SetDbTyped
<1>4. DOMAIN map' = Entities /\ \A f \in Entities : map'[f] \in Contents[f] \cup {NoContent}
  BY <1>1, <1>2 DEF RestTyped
<1>5. count' \in 0 .. MaxChanges
  BY <1>1, <1>2, RoomAssumption DEF RestTyped
<1>6. RestTyped'
  BY <1>1, <1>2, <1>3, <1>4, <1>5 DEF RestTyped
<1> QED
  BY <1>3, <1>6 DEF TypeInv

LEMMA HistTyped ==
    ASSUME TypeInv, NEW e \in Entities
    PROVE  /\ hist.overtaken \subseteq Entities /\ hist.lost \subseteq Entities
           /\ hist.undrawn \subseteq Entities /\ hist.moved \subseteq Entities
           /\ hist.born \subseteq Entities /\ DOMAIN hist = HistFields
           /\ Overtaken(e) \subseteq Entities
BY DEF TypeInv, RestTyped, HistFields, Overtaken

LEMMA SyncGood ==
    ASSUME NEW d, Good(d), ~d.dead, NEW r \in Entities, NEW row,
           DOMAIN row.tags \subseteq Keys, room \in Rooms
    PROVE  Good(SyncRoad(d, r, row))
<1>1. SyncRoad(d, r, row) = d \/ SyncRoad(d, r, row) = Insert(d, "roads", r, row)
  BY Zenon DEF SyncRoad
<1> QED
  BY <1>1, InsertGood DEF Tables

(* Only an insert of a node may end the process. *)
LEMMA InsertAlive ==
    ASSUME NEW d, IsDb(d), NEW t \in Tables \ {"nodes"}, NEW e \in Entities, NEW row
    PROVE  Insert(d, t, e, row).dead = d.dead
<1>1. PICK x : x = Fill(d, t, e, row)
  OBVIOUS
<1>2. IsDb(x) /\ x.dead = d.dead
  BY <1>1, FillIsDb, FillElsewhere
<1>3. PICK y : y = Flush(x, t)
  OBVIOUS
<1>4. y.dead = x.dead
  BY <1>2, <1>3, FlushDoes
<1>5. Insert(d, t, e, row) = x \/ Insert(d, t, e, row) = y
  BY <1>1, <1>3, InsertAs
<1> QED
  BY <1>2, <1>4, <1>5

LEMMA Sorts ==
    /\ Nodes \subseteq Entities /\ Ways \subseteq Entities /\ Relations \subseteq Entities
    /\ {"nodes", "ways", "areas", "roads", "relations"} = Tables
BY DEF Entities, Tables

LEMMA RowTyped ==
    ASSUME NEW e \in Entities, NEW c \in Contents[e], NEW geog
    PROVE  Row(c.tags, geog).tags = c.tags /\ DOMAIN Row(c.tags, geog).tags \subseteq Keys
BY RowFields, KeysOfContents

LEMMA NodeChangeTyped ==
    ASSUME TypeInv, NEW n \in Nodes, CreateNode(n) \/ ModifyNode(n) \/ DeleteNode(n)
    PROVE  TypeInv'
<1>1. n \in Entities /\ "nodes" \in Tables
  BY Sorts
<1>2. flat \in [Nodes -> Nat] /\ room \in Rooms
  BY DEF TypeInv, RestTyped
<1>3. /\ hist.overtaken \cup Overtaken(n) \subseteq Entities /\ hist.moved \cup {n} \subseteq Entities
      /\ hist.born \cup {n} \subseteq Entities /\ DOMAIN hist = HistFields
      /\ \A h \in HistFields : hist[h] \subseteq Entities
  BY <1>1, HistTyped DEF TypeInv, RestTyped
<1>4. CASE CreateNode(n)
  <2>1. PICK c \in Contents[n] :
           /\ Step(n, c)
           /\ IF c.tags = <<>> THEN SetDb(Db) ELSE SetDb(Insert(Db, "nodes", n, Row(c.tags, Unprojected(c.at))))
           /\ hist' = [hist EXCEPT !.moved = @ \cup {n}, !.born = @ \cup {n},
                                   !.overtaken = @ \cup Overtaken(n)]
           /\ flat' = flat
    BY <1>4 DEF CreateNode
  <2>2. Good(Db) /\ ~Db.dead
    BY <2>1, DbIsGood DEF Step
  <2>3. Good(Insert(Db, "nodes", n, Row(c.tags, Unprojected(c.at))))
    BY <1>1, <1>2, <2>2, InsertGood, RowTyped
  <2>4. PICK d : Good(d) /\ SetDb(d)
    BY <2>1, <2>2, <2>3
  <2>5. DOMAIN hist' = HistFields /\ \A h \in HistFields : hist'[h] \subseteq Entities
    BY <2>1, <1>3 DEF HistFields
  <2> QED
    BY <1>1, <1>2, <2>1, <2>4, <2>5, ChangeTyped
<1>5. CASE ModifyNode(n)
  <2>1. PICK c \in Contents[n], lucky \in BOOLEAN :
           /\ Step(n, c)
           /\ SetDb(Update(Db, "nodes", n, Row(c.tags, Unprojected(c.at)), lucky))
           /\ hist' = [hist EXCEPT !.moved = @ \cup {n}, !.overtaken = @ \cup Overtaken(n)]
           /\ flat' = flat
    BY <1>5 DEF ModifyNode
  <2>2. Good(Db)
    BY <2>1, DbIsGood DEF Step
  <2>3. PICK d : Good(d) /\ SetDb(d)
    BY <1>1, <2>1, <2>2, UpdateGood, RowTyped
  <2>4. DOMAIN hist' = HistFields /\ \A h \in HistFields : hist'[h] \subseteq Entities
    BY <2>1, <1>3 DEF HistFields
  <2> QED
    BY <1>1, <1>2, <2>1, <2>3, <2>4, ChangeTyped
<1>6. CASE DeleteNode(n)
  <2>1. /\ Step(n, NoContent)
        /\ SetDb(Delete(Db, "nodes", n))
        /\ hist' = [hist EXCEPT !.overtaken = @ \cup Overtaken(n)]
        /\ flat' = [flat EXCEPT ![n] = 0]
    BY <1>6 DEF DeleteNode
  <2>2. Good(Db)
    BY <2>1, DbIsGood DEF Step
  <2>3. PICK d : Good(d) /\ SetDb(d)
    BY <1>1, <2>1, <2>2, DeleteGood
  <2>4. DOMAIN hist' = HistFields /\ \A h \in HistFields : hist'[h] \subseteq Entities
    BY <2>1, <1>3 DEF HistFields
  <2>5. flat' \in [Nodes -> Nat]
    BY <1>2, <2>1
  <2> QED
    BY <1>1, <2>1, <2>3, <2>4, <2>5, ChangeTyped
<1> QED
  BY <1>4, <1>5, <1>6

LEMMA TableForTyped == \A geog : TableFor(geog) \in {"ways", "areas"} /\ TableFor(geog) \in Tables
BY DEF TableFor, Tables

LEMMA WayChangeTyped ==
    ASSUME TypeInv, NEW w \in Ways, CreateWay(w) \/ ModifyWay(w) \/ DeleteWay(w)
    PROVE  TypeInv'
<1>1. w \in Entities /\ "ways" \in Tables /\ "areas" \in Tables
  BY Sorts
<1>2. flat \in [Nodes -> Nat] /\ room \in Rooms
  BY DEF TypeInv, RestTyped
<1>3. /\ hist.overtaken \cup Overtaken(w) \subseteq Entities /\ hist.lost \cup {w} \subseteq Entities
      /\ hist.born \cup {w} \subseteq Entities /\ hist.undrawn \cup {w} \subseteq Entities
      /\ hist.lost \ {w} \subseteq Entities /\ hist.undrawn \ {w} \subseteq Entities
      /\ DOMAIN hist = HistFields
      /\ \A h \in HistFields : hist[h] \subseteq Entities
  BY <1>1, HistTyped DEF TypeInv, RestTyped
<1>4. CASE CreateWay(w)
  <2>1. PICK c \in Contents[w] :
           /\ Step(w, c)
           /\ IF Drawn(Points(c.refs, flat))
              THEN SetDb(Insert(Db, TableFor(Points(c.refs, flat)), w,
                                Row(c.tags, Points(c.refs, flat))))
              ELSE SetDb(Db)
           /\ hist' = [hist EXCEPT !.born = @ \cup {w}, !.lost = @ \ {w},
                          !.undrawn = IF Drawn(Points(c.refs, flat)) THEN @ \ {w} ELSE @ \cup {w},
                          !.overtaken = @ \cup Overtaken(w)]
           /\ flat' = flat
    BY <1>4 DEF CreateWay
  <2>2. Good(Db) /\ ~Db.dead
    BY <2>1, DbIsGood DEF Step
  <2>3. Good(Insert(Db, TableFor(Points(c.refs, flat)), w, Row(c.tags, Points(c.refs, flat))))
    BY <1>1, <1>2, <2>2, InsertGood, RowTyped, TableForTyped
  <2>4. PICK d : Good(d) /\ SetDb(d)
    BY <2>1, <2>2, <2>3
  <2>5. DOMAIN hist' = HistFields /\ \A h \in HistFields : hist'[h] \subseteq Entities
    BY <2>1, <1>3 DEF HistFields
  <2> QED
    BY <1>1, <1>2, <2>1, <2>4, <2>5, ChangeTyped
<1>5. CASE ModifyWay(w)
  <2>1. PICK c \in Contents[w], lucky \in BOOLEAN :
           /\ Step(w, c)
           /\ IF Drawn(Points(c.refs, flat))
              THEN SetDb(Update(Delete(Delete(Db, "ways", w), "areas", w),
                                TableFor(Points(c.refs, flat)), w,
                                Row(c.tags, Points(c.refs, flat)), lucky))
              ELSE SetDb(Db)
           /\ hist' = [hist EXCEPT !.lost = IF Drawn(Points(c.refs, flat)) THEN @ \cup {w} ELSE @,
                          !.undrawn = IF Drawn(Points(c.refs, flat)) THEN @ \ {w} ELSE @ \cup {w},
                          !.overtaken = @ \cup Overtaken(w)]
           /\ flat' = flat
    BY <1>5 DEF ModifyWay
  <2>2. Good(Db)
    BY <2>1, DbIsGood DEF Step
  <2>3. Good(Delete(Delete(Db, "ways", w), "areas", w))
    BY <1>1, <2>2, DeleteGood
  <2>4. Good(Update(Delete(Delete(Db, "ways", w), "areas", w), TableFor(Points(c.refs, flat)), w,
                    Row(c.tags, Points(c.refs, flat)), lucky))
    BY <1>1, <2>3, UpdateGood, RowTyped, TableForTyped
  <2>5. PICK d : Good(d) /\ SetDb(d)
    BY <2>1, <2>2, <2>4
  <2>6. DOMAIN hist' = HistFields /\ \A h \in HistFields : hist'[h] \subseteq Entities
    BY <2>1, <1>3 DEF HistFields
  <2> QED
    BY <1>1, <1>2, <2>1, <2>5, <2>6, ChangeTyped
<1>6. CASE DeleteWay(w)
  <2>1. /\ Step(w, NoContent)
        /\ SetDb(Delete(Delete(Db, "ways", w), "areas", w))
        /\ hist' = [hist EXCEPT !.overtaken = @ \cup Overtaken(w)]
        /\ flat' = flat
    BY <1>6 DEF DeleteWay
  <2>2. Good(Db)
    BY <2>1, DbIsGood DEF Step
  <2>3. PICK d : Good(d) /\ SetDb(d)
    BY <1>1, <2>1, <2>2, DeleteGood
  <2>4. DOMAIN hist' = HistFields /\ \A h \in HistFields : hist'[h] \subseteq Entities
    BY <2>1, <1>3 DEF HistFields
  <2> QED
    BY <1>1, <1>2, <2>1, <2>3, <2>4, ChangeTyped
<1> QED
  BY <1>4, <1>5, <1>6

LEMMA RelationChangeTyped ==
    ASSUME TypeInv, NEW r \in Relations,
           CreateRelation(r) \/ ModifyRelation(r) \/ DeleteRelation(r)
    PROVE  TypeInv'
<1>1. r \in Entities /\ "relations" \in Tables /\ "roads" \in Tables
  BY Sorts
<1>2. flat \in [Nodes -> Nat] /\ room \in Rooms
  BY DEF TypeInv, RestTyped
<1>3. /\ hist.overtaken \cup Overtaken(r) \subseteq Entities
      /\ hist.born \cup {r} \subseteq Entities
      /\ DOMAIN hist = HistFields
      /\ \A h \in HistFields : hist[h] \subseteq Entities
  BY <1>1, HistTyped DEF TypeInv, RestTyped
<1>4. CASE CreateRelation(r)
  <2>1. PICK c \in Contents[r] :
           /\ Step(r, c)
           /\ SetDb(SyncRoad(Insert(Db, "relations", r, Row(c.tags, RelationGeog(rows, c.members))),
                             r, Row(c.tags, RelationGeog(rows, c.members))))
           /\ hist' = [hist EXCEPT !.born = @ \cup {r}, !.overtaken = @ \cup Overtaken(r)]
           /\ flat' = flat
    BY <1>4 DEF CreateRelation
  <2>2. Good(Db) /\ ~Db.dead /\ IsDb(Db)
    BY <2>1, DbIsGood DEF Step
  <2>3. PICK row : /\ row = Row(c.tags, RelationGeog(rows, c.members))
                   /\ DOMAIN row.tags \subseteq Keys
    BY <1>1, RowTyped
  <2>4. PICK x : x = Insert(Db, "relations", r, row)
    OBVIOUS
  <2>5. Good(x) /\ ~x.dead
    BY <1>1, <1>2, <2>2, <2>3, <2>4, InsertGood, InsertAlive
  <2>6. Good(SyncRoad(x, r, row)) /\ SetDb(SyncRoad(x, r, row))
    BY <1>1, <1>2, <2>1, <2>3, <2>4, <2>5, SyncGood
  <2>7. DOMAIN hist' = HistFields /\ \A h \in HistFields : hist'[h] \subseteq Entities
    BY <2>1, <1>3 DEF HistFields
  <2> QED
    BY <1>1, <1>2, <2>1, <2>6, <2>7, ChangeTyped
<1>5. CASE ModifyRelation(r)
  <2>1. PICK c \in Contents[r], lucky \in BOOLEAN :
           /\ Step(r, c)
           /\ SetDb(SyncRoad(Delete(Update(Db, "relations", r,
                                           Row(c.tags, RelationGeog(rows, c.members)), lucky),
                                    "roads", r),
                             r, Row(c.tags, RelationGeog(rows, c.members))))
           /\ hist' = [hist EXCEPT !.overtaken = @ \cup Overtaken(r)]
           /\ flat' = flat
    BY <1>5 DEF ModifyRelation
  <2>2. Good(Db) /\ ~Db.dead /\ IsDb(Db)
    BY <2>1, DbIsGood DEF Step
  <2>3. PICK row : /\ row = Row(c.tags, RelationGeog(rows, c.members))
                   /\ DOMAIN row.tags \subseteq Keys
    BY <1>1, RowTyped
  <2>4. PICK x : x = Update(Db, "relations", r, row, lucky)
    OBVIOUS
  <2>5. Good(x) /\ IsDb(x) /\ ~x.dead
    BY <1>1, <2>2, <2>3, <2>4, UpdateGood, UpdateIsDb, UpdateDoes
  <2>6. PICK y : y = Delete(x, "roads", r)
    OBVIOUS
  <2>7. Good(y) /\ ~y.dead
    BY <1>1, <2>5, <2>6, DeleteGood, DeleteDoes
  <2>8. Good(SyncRoad(y, r, row)) /\ SetDb(SyncRoad(y, r, row))
    BY <1>1, <1>2, <2>1, <2>3, <2>4, <2>6, <2>7, SyncGood
  <2>9. DOMAIN hist' = HistFields /\ \A h \in HistFields : hist'[h] \subseteq Entities
    BY <2>1, <1>3 DEF HistFields
  <2> QED
    BY <1>1, <1>2, <2>1, <2>8, <2>9, ChangeTyped
<1>6. CASE DeleteRelation(r)
  <2>1. /\ Step(r, NoContent)
        /\ SetDb(Delete(Delete(Db, "relations", r), "roads", r))
        /\ hist' = [hist EXCEPT !.overtaken = @ \cup Overtaken(r)]
        /\ flat' = flat
    BY <1>6 DEF DeleteRelation
  <2>2. Good(Db)
    BY <2>1, DbIsGood DEF Step
  <2>3. PICK d : Good(d) /\ SetDb(d)
    BY <1>1, <2>1, <2>2, DeleteGood
  <2>4. DOMAIN hist' = HistFields /\ \A h \in HistFields : hist'[h] \subseteq Entities
    BY <2>1, <1>3 DEF HistFields
  <2> QED
    BY <1>1, <1>2, <2>1, <2>3, <2>4, ChangeTyped
<1> QED
  BY <1>4, <1>5, <1>6

(* The end of a file flushes all buffers but that of the nodes. *)
LEMMA FlushAllDoes ==
    ASSUME NEW d, Good(d), room \in Rooms, NEW x, x = FlushAll(d)
    PROVE  /\ Good(x) /\ x.dead = d.dead
           /\ \A t \in Tables \ {"nodes"} : x.buf[t] = <<>>
           /\ ~d.dead => \A e \in Entities : Keeps(d, x, e)
<1>1. PICK a : a = Flush(d, "ways")
  OBVIOUS
<1>2. PICK b : b = Flush(a, "areas")
  OBVIOUS
<1>3. PICK c : c = Flush(b, "roads")
  OBVIOUS
<1>4. x = Flush(c, "relations")
  BY <1>1, <1>2, <1>3 DEF FlushAll
<1>5. ASSUME NEW y, Good(y), NEW t \in Tables \ {"nodes"}, NEW z, z = Flush(y, t)
      PROVE  /\ Good(z) /\ z.dead = y.dead /\ z.buf[t] = <<>>
             /\ \A u \in Tables \ {t} : z.buf[u] = y.buf[u]
             /\ ~y.dead => \A e \in Entities : Keeps(y, z, e)
  <2>1. Good(z) /\ IsDb(y)
    BY <1>5, FlushGood DEF Good
  <2>2. /\ z.dead = y.dead /\ z.buf[t] = <<>>
        /\ \A u \in Tables \ {t} : z.buf[u] = y.buf[u]
    BY <1>5, <2>1, FlushDoes
  <2>3. ASSUME ~y.dead, NEW e \in Entities PROVE Keeps(y, z, e)
    BY <1>5, <2>1, <2>2, <2>3, FlushKeeps
  <2> QED
    BY <2>1, <2>2, <2>3
<1>6. {"ways", "areas", "roads", "relations"} = Tables \ {"nodes"}
  BY DEF Tables
<1>7. /\ Good(a) /\ a.dead = d.dead /\ a.buf["ways"] = <<>>
      /\ ~d.dead => \A e \in Entities : Keeps(d, a, e)
  BY <1>1, <1>5, <1>6
<1>8. /\ Good(b) /\ b.dead = d.dead /\ b.buf["ways"] = <<>> /\ b.buf["areas"] = <<>>
      /\ ~d.dead => \A e \in Entities : Keeps(a, b, e)
  BY <1>2, <1>5, <1>6, <1>7
<1>9. /\ Good(c) /\ c.dead = d.dead
      /\ c.buf["ways"] = <<>> /\ c.buf["areas"] = <<>> /\ c.buf["roads"] = <<>>
      /\ ~d.dead => \A e \in Entities : Keeps(b, c, e)
  BY <1>3, <1>5, <1>6, <1>8
<1>10. /\ Good(x) /\ x.dead = d.dead /\ x.buf["ways"] = <<>> /\ x.buf["areas"] = <<>>
       /\ x.buf["roads"] = <<>> /\ x.buf["relations"] = <<>>
       /\ ~d.dead => \A e \in Entities : Keeps(c, x, e)
  BY <1>4, <1>5, <1>6, <1>9
<1>11. ASSUME ~d.dead, NEW e \in Entities PROVE Keeps(d, x, e)
  BY <1>7, <1>8, <1>9, <1>10, <1>11, KeepsThrough
<1> QED
  BY <1>6, <1>10, <1>11

LEMMA EndFileSets ==
    ASSUME TypeInv, EndFile
    PROVE  /\ Good(FlushAll(Db)) /\ Db' = FlushAll(Db)
           /\ \A t \in Tables \ {"nodes"} : buf'[t] = <<>>
           /\ \A e \in Entities : Keeps(Db, FlushAll(Db), e)
<1>1. PICK d : d = FlushAll(Db)
  OBVIOUS
<1>2. /\ rows' = d.rows /\ tagRows' = d.tags /\ buf' = d.buf /\ tagBuf' = d.tagBuf
      /\ status # "dead"
  BY <1>1 DEF EndFile
<1>3. Good(Db) /\ Db.dead = FALSE /\ room \in Rooms
  BY <1>2, DbIsGood DEF TypeInv, RestTyped
<1>4. /\ Good(d) /\ d.dead = FALSE
      /\ \A t \in Tables \ {"nodes"} : d.buf[t] = <<>>
      /\ \A e \in Entities : Keeps(Db, d, e)
  BY <1>1, <1>3, FlushAllDoes
<1>5. PICK y : y = [rows |-> d.rows, tags |-> d.tags, buf |-> d.buf, tagBuf |-> d.tagBuf,
                    dead |-> FALSE]
  OBVIOUS
<1>6. Db' = y
  BY <1>2, <1>5 DEF Db
<1>7. Has5(y, d.rows, d.tags, d.buf, d.tagBuf, FALSE)
  BY <1>5 DEF Has5, Fields
<1>8. y = d
  <2>1. /\ DOMAIN d = Fields /\ d = [x \in Fields |-> d[x]]
        /\ DOMAIN y = Fields /\ y = [x \in Fields |-> y[x]]
    BY <1>4, <1>7 DEF Good, IsDb, Has5
  <2>2. \A x \in Fields : y[x] = d[x]
    BY <1>4, <1>7 DEF Fields, Has5
  <2> QED
    BY <2>1, <2>2
<1> QED
  BY <1>1, <1>2, <1>4, <1>6, <1>8

LEMMA NextTyped == TypeInv /\ [Next]_vars => TypeInv'
<1> SUFFICES ASSUME TypeInv, [Next]_vars PROVE TypeInv'
  OBVIOUS
<1>1. CASE UNCHANGED vars
  BY <1>1 DEF TypeInv, DbTyped, RestTyped, Db, Bounded, MaxLen, vars, dbVars
<1>2. ASSUME EndFile PROVE TypeInv'
  <2>1. /\ flat' = flat /\ map' = map /\ room' = room /\ count' = count /\ hist' = hist
        /\ status' = "flushed"
    BY <1>2 DEF EndFile
  <2>2. PICK d : d = FlushAll(Db)
    OBVIOUS
  <2>3. Good(d) /\ Db' = d
    BY <1>2, <2>2, EndFileSets
  <2>4. Bounded(d)'
    BY <2>1, <2>3 DEF Good, Bounded, MaxLen
  <2>5. Bounded(Db)'
    BY <2>3, <2>4 DEF Bounded, MaxLen
  <2>6. IsDb(Db') /\ RowsTyped(Db') /\ BesideRows(Db')
    BY <2>3 DEF Good
  <2>7. RestTyped'
    BY <2>1 DEF TypeInv, RestTyped
  <2> QED
    BY <2>5, <2>6, <2>7 DEF TypeInv, DbTyped
<1> QED
  BY <1>1, <1>2, NodeChangeTyped, WayChangeTyped, RelationChangeTyped DEF Next

(* The state of the delta applier is well typed: rows and tags belong to    *)
(* entities of the instance, and no buffer outgrows its room (insertNode,   *)
(* insertWay, insertArea, insertRoad, insertRelation).                      *)
THEOREM TypeCorrect == Spec => []TypeOK
<1>1. Spec => []TypeInv
  BY InitTyped, NextTyped, PTL DEF Spec
<1> QED
  BY <1>1, TypeInvIsTypeOK, PTL

------------------------------------------------------------------------------
(* The map and the flat file: who refers to whom, and what the file still   *)
(* knows.  A way refers to nodes that are on the map, or that the import    *)
(* did not have; the file has the imported nodes that no change touched.    *)

Refs == \A w \in Ways : Alive(w) => \A n \in Range(map[w].refs) : Alive(n) \/ ~InImport(n)
Flat == \A n \in Nodes : flat[n] = IF Alive(n) /\ n \notin hist.born THEN ImportedPlaces[n] ELSE 0
MapInv == Refs /\ Flat

(* The effect of a change on the map and on what history knows of others    *)
LEMMA StepChanges ==
    ASSUME TypeInv, NEW e \in Entities, NEW c, Step(e, c)
    PROVE  /\ map'[e] = c /\ \A f \in Entities \ {e} : map'[f] = map[f]
           /\ status # "dead" /\ room' = room
BY DEF Step, TypeInv, RestTyped

LEMMA ContentIs == \A e \in Entities : NoContent \notin Contents[e]
BY EntityAssumption

LEMMA RefsAreNodes ==
    ASSUME TypeInv, NEW w \in Ways, Alive(w)
    PROVE  map[w] \in Contents[w] /\ Range(map[w].refs) \subseteq Nodes
BY EntityAssumption DEF TypeInv, RestTyped, Alive, Entities

LEMMA InitMap == Init => MapInv
<1> SUFFICES ASSUME Init PROVE MapInv
  OBVIOUS
<1>1. map = Imported /\ flat = ImportedPlaces /\ hist.born = {}
  BY DEF Init
<1>2. Refs
  BY <1>1 DEF Refs, Alive, InImport
<1>3. Flat
  BY <1>1 DEF Flat, Alive, InImport, ImportedPlaces
<1> QED
  BY <1>2, <1>3 DEF MapInv

LEMMA NodeChangeMap ==
    ASSUME TypeInv, MapInv, NEW n \in Nodes, CreateNode(n) \/ ModifyNode(n) \/ DeleteNode(n)
    PROVE  MapInv'
<1>1. n \in Entities /\ Nodes \subseteq Entities /\ Ways \subseteq Entities /\ n \notin Ways
  BY EntityAssumption DEF Entities
<1>2. DOMAIN hist = HistFields /\ flat \in [Nodes -> Nat]
  BY DEF TypeInv, RestTyped
<1>3. ASSUME NEW c, Step(n, c),
             c = NoContent => NodeFree(n)
      PROVE  Refs'
  <2> SUFFICES ASSUME NEW w \in Ways, Alive(w)', NEW m \in Range(map'[w].refs)
               PROVE  Alive(m)' \/ ~InImport(m)
    BY DEF Refs, InImport
  <2>1. map'[w] = map[w] /\ Alive(w)
    BY <1>1, <1>3, StepChanges DEF Alive
  <2>2. m \in Nodes /\ (Alive(m) \/ ~InImport(m))
    BY <2>1, RefsAreNodes DEF MapInv, Refs
  <2>3. CASE m # n
    <3>1. map'[m] = map[m]
      BY <1>1, <1>3, <2>2, <2>3, StepChanges
    <3> QED
      BY <2>2, <3>1 DEF Alive
  <2>4. CASE m = n
    <3>1. c # NoContent
      BY <1>3, <2>1, <2>4 DEF NodeFree
    <3> QED
      BY <1>1, <1>3, <2>4, <3>1, StepChanges DEF Alive
  <2> QED
    BY <2>3, <2>4
<1>4. CASE CreateNode(n)
  <2>1. PICK c \in Contents[n] :
           /\ map[n] = NoContent /\ Step(n, c) /\ flat' = flat
           /\ hist' = [hist EXCEPT !.moved = @ \cup {n}, !.born = @ \cup {n},
                                   !.overtaken = @ \cup Overtaken(n)]
    BY <1>4 DEF CreateNode, Creates
  <2>2. hist'.born = hist.born \cup {n}
    BY <1>2, <2>1 DEF HistFields
  <2>3. c # NoContent
    BY <1>1, ContentIs
  <2>4. Flat'
    <3> SUFFICES ASSUME NEW m \in Nodes
                 PROVE  flat'[m] = IF Alive(m)' /\ m \notin hist'.born THEN ImportedPlaces[m] ELSE 0
      BY DEF Flat, ImportedPlaces, InImport
    <3>1. flat[m] = IF Alive(m) /\ m \notin hist.born THEN ImportedPlaces[m] ELSE 0
      BY DEF MapInv, Flat
    <3>2. m # n => map'[m] = map[m]
      BY <1>1, <2>1, StepChanges
    <3> QED
      BY <2>1, <2>2, <3>1, <3>2 DEF Alive
  <2> QED
    BY <1>3, <2>1, <2>3, <2>4 DEF MapInv
<1>5. CASE ModifyNode(n)
  <2>1. PICK c \in Contents[n] :
           /\ map[n] # NoContent /\ Step(n, c) /\ flat' = flat
           /\ hist' = [hist EXCEPT !.moved = @ \cup {n}, !.overtaken = @ \cup Overtaken(n)]
    BY <1>5 DEF ModifyNode, Modifies
  <2>2. hist'.born = hist.born
    BY <1>2, <2>1 DEF HistFields
  <2>3. c # NoContent
    BY <1>1, ContentIs
  <2>4. Flat'
    <3> SUFFICES ASSUME NEW m \in Nodes
                 PROVE  flat'[m] = IF Alive(m)' /\ m \notin hist'.born THEN ImportedPlaces[m] ELSE 0
      BY DEF Flat, ImportedPlaces, InImport
    <3>1. flat[m] = IF Alive(m) /\ m \notin hist.born THEN ImportedPlaces[m] ELSE 0
      BY DEF MapInv, Flat
    <3>2. (m # n => map'[m] = map[m]) /\ map'[n] = c
      BY <1>1, <2>1, StepChanges
    <3> QED
      BY <2>1, <2>2, <2>3, <3>1, <3>2 DEF Alive
  <2> QED
    BY <1>3, <2>1, <2>3, <2>4 DEF MapInv
<1>6. CASE DeleteNode(n)
  <2>1. /\ Step(n, NoContent) /\ NodeFree(n)
        /\ hist' = [hist EXCEPT !.overtaken = @ \cup Overtaken(n)]
        /\ flat' = [flat EXCEPT ![n] = 0]
    BY <1>6 DEF DeleteNode
  <2>2. hist'.born = hist.born
    BY <1>2, <2>1 DEF HistFields
  <2>4. Flat'
    <3> SUFFICES ASSUME NEW m \in Nodes
                 PROVE  flat'[m] = IF Alive(m)' /\ m \notin hist'.born THEN ImportedPlaces[m] ELSE 0
      BY DEF Flat, ImportedPlaces, InImport
    <3>1. flat[m] = IF Alive(m) /\ m \notin hist.born THEN ImportedPlaces[m] ELSE 0
      BY DEF MapInv, Flat
    <3>2. (m # n => map'[m] = map[m]) /\ map'[n] = NoContent
      BY <1>1, <2>1, StepChanges
    <3>3. flat'[m] = IF m = n THEN 0 ELSE flat[m]
      BY <1>2, <2>1
    <3> QED
      BY <2>2, <3>1, <3>2, <3>3 DEF Alive
  <2> QED
    BY <1>3, <2>1, <2>4 DEF MapInv
<1> QED
  BY <1>4, <1>5, <1>6

(* A change of a way or a relation leaves the nodes as they are. *)
LEMMA OtherChangeMap ==
    ASSUME TypeInv, MapInv, NEW e \in Ways \cup Relations, NEW c, Step(e, c), flat' = flat,
           \A n \in Nodes : n \in hist'.born <=> n \in hist.born,
           (e \in Ways /\ c # NoContent) => RefsAlive(e, c) /\ Range(c.refs) \subseteq Nodes
    PROVE  MapInv'
<1>1. e \in Entities /\ Nodes \subseteq Entities /\ Ways \subseteq Entities /\ e \notin Nodes
  BY EntityAssumption DEF Entities
<1>2. map'[e] = c /\ \A f \in Entities \ {e} : map'[f] = map[f]
  BY <1>1, StepChanges
<1>3. \A n \in Nodes : map'[n] = map[n]
  BY <1>1, <1>2
<1>4. Flat'
  BY <1>3 DEF MapInv, Flat, Alive, ImportedPlaces, InImport
<1>5. Refs'
  <2> SUFFICES ASSUME NEW w \in Ways, Alive(w)', NEW m \in Range(map'[w].refs)
               PROVE  Alive(m)' \/ ~InImport(m)
    BY DEF Refs, InImport
  <2>1. CASE w # e
    <3>1. map'[w] = map[w] /\ Alive(w)
      BY <1>1, <1>2, <2>1 DEF Alive
    <3>2. m \in Nodes /\ (Alive(m) \/ ~InImport(m))
      BY <3>1, RefsAreNodes DEF MapInv, Refs
    <3> QED
      BY <1>3, <3>2 DEF Alive
  <2>2. CASE w = e
    <3>1. c # NoContent /\ m \in Range(c.refs)
      BY <1>2, <2>2 DEF Alive
    <3>2. m \in Nodes /\ Alive(m)
      BY <2>2, <3>1 DEF RefsAlive
    <3> QED
      BY <1>3, <3>2 DEF Alive
  <2> QED
    BY <2>1, <2>2
<1> QED
  BY <1>4, <1>5 DEF MapInv

LEMMA WayChangeMap ==
    ASSUME TypeInv, MapInv, NEW w \in Ways, CreateWay(w) \/ ModifyWay(w) \/ DeleteWay(w)
    PROVE  MapInv'
<1>1. w \notin Nodes /\ w \in Entities
  BY EntityAssumption DEF Entities
<1>2. DOMAIN hist = HistFields
  BY DEF TypeInv, RestTyped
<1>3. \A c \in Contents[w] : Range(c.refs) \subseteq Nodes
  BY EntityAssumption
<1>4. CASE CreateWay(w)
  <2>1. PICK c \in Contents[w] : /\ RefsAlive(w, c) /\ Step(w, c) /\ flat' = flat
                                 /\ hist'.born = hist.born \cup {w}
    BY <1>2, <1>4 DEF CreateWay, HistFields
  <2> QED
    BY <1>1, <1>3, <2>1, OtherChangeMap
<1>5. CASE ModifyWay(w)
  <2>1. PICK c \in Contents[w] : /\ RefsAlive(w, c) /\ Step(w, c) /\ flat' = flat
                                 /\ hist'.born = hist.born
    BY <1>2, <1>5 DEF ModifyWay, HistFields
  <2> QED
    BY <1>1, <1>3, <2>1, OtherChangeMap
<1>6. CASE DeleteWay(w)
  <2>1. Step(w, NoContent) /\ flat' = flat /\ hist'.born = hist.born
    BY <1>2, <1>6 DEF DeleteWay, HistFields
  <2> QED
    BY <1>1, <2>1, OtherChangeMap
<1> QED
  BY <1>4, <1>5, <1>6

LEMMA RelationChangeMap ==
    ASSUME TypeInv, MapInv, NEW r \in Relations,
           CreateRelation(r) \/ ModifyRelation(r) \/ DeleteRelation(r)
    PROVE  MapInv'
<1>1. r \notin Nodes /\ r \notin Ways /\ r \in Entities
  BY EntityAssumption DEF Entities
<1>2. DOMAIN hist = HistFields
  BY DEF TypeInv, RestTyped
<1>3. PICK c : /\ Step(r, c) /\ flat' = flat
               /\ hist'.born = hist.born \cup {r} \/ hist'.born = hist.born
  <2>1. CASE CreateRelation(r)
    BY <1>2, <2>1 DEF CreateRelation, HistFields
  <2>2. CASE ModifyRelation(r)
    BY <1>2, <2>2 DEF ModifyRelation, HistFields
  <2>3. CASE DeleteRelation(r)
    BY <1>2, <2>3 DEF DeleteRelation, HistFields
  <2> QED
    BY <2>1, <2>2, <2>3
<1> QED
  BY <1>1, <1>3, OtherChangeMap

LEMMA NextMap == TypeInv /\ MapInv /\ [Next]_vars => MapInv'
<1> SUFFICES ASSUME TypeInv, MapInv, [Next]_vars PROVE MapInv'
  OBVIOUS
<1>1. CASE UNCHANGED <<map, flat, hist>>
  BY <1>1 DEF MapInv, Refs, Flat, Alive, InImport, ImportedPlaces
<1>2. CASE EndFile
  BY <1>1, <1>2 DEF EndFile
<1>3. CASE UNCHANGED vars
  BY <1>1, <1>3 DEF vars
<1> QED
  BY <1>2, <1>3, NodeChangeMap, WayChangeMap, RelationChangeMap DEF Next

------------------------------------------------------------------------------
(* What the tables and buffers owe to an entity                             *)

(* Nothing in its own tables and nothing on the way there *)
Gone(d, e) == \A t \in OwnTables(e) : Holds(d, t, e, NoRow) /\ TagsDue(d, t, e, <<>>)

(* A row of a relation, and the same row in roads if it is a road *)
RelationDue(d, r, tags) ==
    \E row : /\ row # NoRow /\ row.tags = tags
             /\ Holds(d, "relations", r, row)
             /\ Holds(d, "roads", r, IF IsRoad(row.tags) /\ row.geog # <<>> THEN row ELSE NoRow)

(* The tags an entity is to have: after an insert only those that it keeps *)
Due(h, e, tags) ==
    IF e \in (IF e \in Nodes THEN h.moved ELSE h.lost) THEN tags ELSE Kept(tags)

(* A row of a way in one of its tables, through the nodes that are known *)
WayDue(d, w, tags, known, h, t, u, row) ==
    /\ Holds(d, t, w, row) /\ Holds(d, u, w, NoRow)
    /\ (w \notin h.undrawn /\ row # NoRow) => row = Row(tags, known)
    /\ (w \notin h.lost /\ Drawn(known)) => row # NoRow
    /\ w \in h.lost => row = NoRow
    /\ w \notin h.undrawn => TagsDue(d, t, w, Due(h, w, tags)) /\ TagsDue(d, u, w, <<>>)
WayPlaced(d, w, tags, known, h) ==
    \E t \in {"ways", "areas"}, u \in {"ways", "areas"} :
        t # u /\ \E row : WayDue(d, w, tags, known, h, t, u, row)

OwnDue(d, e, c, places, h) ==
    /\ c = NoContent => Gone(d, e)
    /\ c # NoContent /\ e \in Relations => RelationDue(d, e, c.tags)
    /\ c # NoContent /\ e \in Ways => WayPlaced(d, e, c.tags, Points(c.refs, places), h)
    /\ c # NoContent /\ e \in Nodes /\ e \notin h.born => TagsDue(d, "nodes", e, Due(h, e, c.tags))

EntityDue(e) == Followed(e) => OwnDue(Db, e, map[e], KnownPlaces, hist)
EntitiesDue == status # "dead" => \A e \in Entities : EntityDue(e)
BuffersFlushed == status = "flushed" => \A t \in Tables \ {"nodes"} : buf[t] = <<>>
DueInv == TypeInv /\ MapInv /\ BuffersFlushed /\ EntitiesDue

LEMMA TablesOf == \A e \in Entities : OwnTables(e) \subseteq Tables
BY DEF OwnTables, Tables, Entities

LEMMA PointsAgree ==
    ASSUME NEW refs, NEW p, NEW q, \A n \in Range(refs) : p[n] = q[n]
    PROVE  Points(refs, p) = Points(refs, q)
<1>1. \A i \in DOMAIN refs : p[refs[i]] = q[refs[i]]
  BY DEF Range
<1>2. [i \in DOMAIN refs |-> <<refs[i], p[refs[i]]>>] = [i \in DOMAIN refs |-> <<refs[i], q[refs[i]]>>]
  BY <1>1
<1> QED
  BY <1>2 DEF Points

(* What keeps the rows and tags of an entity keeps what it is owed. *)
LEMMA KeepsDue ==
    ASSUME NEW d, NEW x, NEW e \in Entities, Keeps(d, x, e), NEW c, NEW p, NEW q, NEW h, NEW g,
           OwnDue(d, e, c, p, h),
           e \in h.undrawn <=> e \in g.undrawn, e \in h.lost <=> e \in g.lost,
           e \in h.born <=> e \in g.born, e \in h.moved <=> e \in g.moved,
           (e \in Ways /\ c # NoContent) => \A n \in Range(c.refs) : p[n] = q[n]
    PROVE  OwnDue(x, e, c, q, g)
<1>1. \A t \in Tables : /\ \A row : Holds(d, t, e, row) => Holds(x, t, e, row)
                        /\ \A tags : TagsDue(d, t, e, tags) => TagsDue(x, t, e, tags)
  BY DEF Keeps, KeepsRow, KeepsTags
<1>a. \A tags : Due(h, e, tags) = Due(g, e, tags)
  BY DEF Due
<1>2. c = NoContent => Gone(x, e)
  BY <1>1, TablesOf DEF OwnDue, Gone
<1>3. c # NoContent /\ e \in Relations => RelationDue(x, e, c.tags)
  <2> SUFFICES ASSUME c # NoContent, e \in Relations PROVE RelationDue(x, e, c.tags)
    OBVIOUS
  <2>1. PICK row : /\ row # NoRow /\ row.tags = c.tags
                   /\ Holds(d, "relations", e, row)
                   /\ Holds(d, "roads", e, IF IsRoad(row.tags) /\ row.geog # <<>> THEN row ELSE NoRow)
    BY DEF OwnDue, RelationDue
  <2>2. Holds(x, "relations", e, row)
        /\ Holds(x, "roads", e, IF IsRoad(row.tags) /\ row.geog # <<>> THEN row ELSE NoRow)
    BY <1>1, <2>1, Sorts
  <2> QED
    BY <2>1, <2>2 DEF RelationDue
<1>4. c # NoContent /\ e \in Ways => WayPlaced(x, e, c.tags, Points(c.refs, q), g)
  <2> SUFFICES ASSUME c # NoContent, e \in Ways
               PROVE  WayPlaced(x, e, c.tags, Points(c.refs, q), g)
    OBVIOUS
  <2>1. Points(c.refs, p) = Points(c.refs, q)
    BY PointsAgree
  <2>2. PICK known : known = Points(c.refs, p)
    OBVIOUS
  <2>3. PICK t \in {"ways", "areas"}, u \in {"ways", "areas"} :
           t # u /\ \E row : WayDue(d, e, c.tags, known, h, t, u, row)
    BY <2>2 DEF OwnDue, WayPlaced
  <2>6. PICK row : WayDue(d, e, c.tags, known, h, t, u, row)
    BY <2>3
  <2>4. t \in Tables /\ u \in Tables
    BY Sorts
  <2>5. WayDue(x, e, c.tags, known, g, t, u, row)
    BY <1>1, <1>a, <2>4, <2>6 DEF WayDue
  <2> QED
    BY <2>1, <2>2, <2>3, <2>5 DEF WayPlaced
<1>5. c # NoContent /\ e \in Nodes /\ e \notin g.born => TagsDue(x, "nodes", e, Due(g, e, c.tags))
  BY <1>1, <1>a, Sorts DEF OwnDue
<1> QED
  BY <1>2, <1>3, <1>4, <1>5 DEF OwnDue

(* An entity without a row in a buffer has no tags in one either, and is    *)
(* owed what it has.                                                        *)
Clear(d, e) == (\A t \in Tables : ~In(d, t, e)) /\ \A b \in BufferNames : ~Pending(d, b, e)

LEMMA ClearFrom ==
    ASSUME TypeInv, NEW e, ~Buffered(e)
    PROVE  Clear(Db, e)
<1>1. \A t \in Tables : ~In(Db, t, e)
  BY DEF Buffered, In, Db
<1>2. BesideRows(Db)
  BY DEF TypeInv, DbTyped
<1>3. \A b \in BufferNames : ~Pending(Db, b, e)
  BY <1>1, <1>2 DEF BesideRows, Pending
<1> QED
  BY <1>1, <1>3 DEF Clear

LEMMA ClearHolds ==
    ASSUME NEW d, NEW e, Clear(d, e), NEW t \in Tables
    PROVE  /\ \A row : Holds(d, t, e, row) <=> d.rows[t][e] = row
           /\ \A tags : TagsDue(d, t, e, tags) <=> d.tags[t][e] = Once(tags)
<1>1. ~In(d, t, e) /\ ~Pending(d, BufferOf(t), e)
  BY BufferNamed DEF Clear
<1>2. \A row : ~Waits(d, t, e, row)
  BY <1>1 DEF In, Waits
<1>3. \A tags : ~TagsWait(d, BufferOf(t), e, tags)
  BY <1>1 DEF Pending, TagsWait
<1> QED
  BY <1>1, <1>2, <1>3 DEF Holds, TagsDue

LEMMA ClearStays ==
    ASSUME NEW d, NEW x, NEW e, x.buf = d.buf, x.tagBuf = d.tagBuf, Clear(d, e)
    PROVE  Clear(x, e)
BY DEF Clear, In, Pending

LEMMA DeleteTwo ==
    ASSUME NEW d, Good(d), NEW t \in Tables, NEW u \in Tables, t # u, NEW e \in Entities,
           NEW y, y = Delete(Delete(d, t, e), u, e)
    PROVE  /\ Good(y) /\ y.dead = d.dead /\ (Clear(d, e) => Clear(y, e))
           /\ y.rows[t][e] = NoRow /\ y.tags[t][e] = NoTags
           /\ y.rows[u][e] = NoRow /\ y.tags[u][e] = NoTags
           /\ \A f \in Entities \ {e} : Keeps(d, y, f)
<1>1. PICK x : x = Delete(d, t, e)
  OBVIOUS
<1>2. Good(x) /\ IsDb(d) /\ IsDb(x)
  BY <1>1, DeleteGood DEF Good
<1>3. /\ x.buf = d.buf /\ x.tagBuf = d.tagBuf /\ x.dead = d.dead
      /\ x.rows[t][e] = NoRow /\ x.tags[t][e] = NoTags
      /\ \A v \in Tables, f \in Entities : (f # e \/ v # t) =>
            x.rows[v][f] = d.rows[v][f] /\ x.tags[v][f] = d.tags[v][f]
  BY <1>1, <1>2, DeleteDoes
<1>4. y = Delete(x, u, e)
  BY <1>1
<1>5. /\ y.buf = x.buf /\ y.tagBuf = x.tagBuf /\ y.dead = x.dead
      /\ y.rows[u][e] = NoRow /\ y.tags[u][e] = NoTags
      /\ \A v \in Tables, f \in Entities : (f # e \/ v # u) =>
            y.rows[v][f] = x.rows[v][f] /\ y.tags[v][f] = x.tags[v][f]
  BY <1>2, <1>4, DeleteDoes
<1>6. Good(y)
  BY <1>2, <1>4, DeleteGood
<1>7. Clear(d, e) => Clear(y, e)
  BY <1>3, <1>5, ClearStays
<1>8. ASSUME NEW f \in Entities \ {e} PROVE Keeps(d, y, f)
  <2>1. \A v \in Tables : /\ y.rows[v][f] = d.rows[v][f] /\ y.tags[v][f] = d.tags[v][f]
                          /\ y.buf[v] = d.buf[v] /\ y.tagBuf[BufferOf(v)] = d.tagBuf[BufferOf(v)]
    BY <1>3, <1>5
  <2> QED
    BY <2>1, SameKeeps DEF Keeps
<1> QED
  BY <1>3, <1>5, <1>6, <1>7, <1>8

(* What is known of a place changes for no node that a way refers to. *)
LEMMA KnownSame ==
    ASSUME TypeInv, MapInv, NEW w \in Ways, Alive(w),
           NEW e \in Entities, \A f \in Entities \ {e} : f \in hist'.born <=> f \in hist.born,
           \/ e \notin Nodes
           \/ ~Alive(e)
           \/ e \in hist'.born <=> e \in hist.born
    PROVE  \A n \in Range(map[w].refs) : KnownPlaces[n] = KnownPlaces'[n]
<1> SUFFICES ASSUME NEW n \in Range(map[w].refs) PROVE KnownPlaces[n] = KnownPlaces'[n]
  OBVIOUS
<1>1. n \in Nodes /\ n \in Entities /\ (Alive(n) \/ ~InImport(n))
  BY RefsAreNodes, Sorts DEF MapInv, Refs
<1>2. /\ KnownPlaces[n] = IF n \in hist.born THEN 0 ELSE ImportedPlaces[n]
      /\ KnownPlaces'[n] = IF n \in hist'.born THEN 0 ELSE ImportedPlaces[n]
  BY <1>1 DEF KnownPlaces, ImportedPlaces, InImport
<1>3. CASE n \in hist'.born <=> n \in hist.born
  BY <1>2, <1>3
<1>4. CASE ~(n \in hist'.born <=> n \in hist.born)
  <2>1. n = e /\ ~Alive(n)
    BY <1>1, <1>4
  <2>2. ImportedPlaces[n] = 0
    BY <1>1, <2>1 DEF ImportedPlaces
  <2> QED
    BY <1>2, <2>2
<1> QED
  BY <1>3, <1>4

(* The file places the nodes of a way that is created or modified where     *)
(* they are known to be.                                                    *)
LEMMA FlatIsKnown ==
    ASSUME MapInv, NEW w \in Ways, NEW c \in Contents[w], RefsAlive(w, c)
    PROVE  \A n \in Range(c.refs) : flat[n] = KnownPlaces[n]
BY EntityAssumption DEF MapInv, Flat, RefsAlive, KnownPlaces

(* Of a change it is left to show what the entity it is about is owed.      *)
HistSame(f) == \A h \in HistFields : f \in hist'[h] <=> f \in hist[h]

LEMMA HistSameFields ==
    ASSUME NEW f, HistSame(f)
    PROVE  /\ f \in hist'.overtaken <=> f \in hist.overtaken
           /\ f \in hist'.lost <=> f \in hist.lost
           /\ f \in hist'.undrawn <=> f \in hist.undrawn
           /\ f \in hist'.born <=> f \in hist.born
           /\ f \in hist'.moved <=> f \in hist.moved
BY DEF HistSame, HistFields

LEMMA ChangeDue ==
    ASSUME DueInv, NEW e \in Entities, NEW c, Step(e, c), NEW d, Good(d), SetDb(d),
           status' # "dead" => \A f \in Entities \ {e} : Keeps(Db, d, f),
           \A f \in Entities \ {e} : HistSame(f),
           \/ e \notin Nodes
           \/ ~Alive(e)
           \/ e \in hist'.born <=> e \in hist.born,
           (status' # "dead" /\ Followed(e)') => OwnDue(d, e, c, KnownPlaces', hist')
    PROVE  EntitiesDue' /\ BuffersFlushed'
<1>1. TypeInv /\ MapInv
  BY DEF DueInv
<1>2. /\ map'[e] = c /\ \A f \in Entities \ {e} : map'[f] = map[f]
      /\ status # "dead" /\ room' = room
  BY <1>1, StepChanges
<1>3. status' \in {"applying", "dead"} /\ (status' # "dead" => Db' = d)
  BY <1>2, SetDbTyped
<1>4. BuffersFlushed'
  BY <1>3 DEF BuffersFlushed
<1>5. ASSUME status' # "dead", NEW f \in Entities PROVE EntityDue(f)'
  <2>1. Db' = d
    BY <1>3, <1>5
  <2>2. CASE f = e
    <3>1. (Followed(e))' => OwnDue(Db', e, map'[e], KnownPlaces', hist')
      BY <1>2, <1>5, <2>1
    <3> QED
      BY <2>2, <3>1 DEF EntityDue
  <2>3. CASE f # e
    <3>1. map'[f] = map[f] /\ Keeps(Db, d, f) /\ HistSame(f)
      BY <1>2, <1>5, <2>3
    <3>2. SUFFICES ASSUME (Followed(f))' PROVE OwnDue(d, f, map[f], KnownPlaces', hist')
      BY <2>1, <3>1 DEF EntityDue
    <3>3. Followed(f)
      BY <3>1, <3>2, HistSameFields DEF Followed, ImportedMultipolygon, InImport
    <3>4. OwnDue(Db, f, map[f], KnownPlaces, hist)
      BY <1>2, <3>3 DEF DueInv, EntitiesDue, EntityDue
    <3>5. ASSUME f \in Ways, map[f] # NoContent
          PROVE  \A n \in Range(map[f].refs) : KnownPlaces[n] = KnownPlaces'[n]
      <4>1. \A g \in Entities \ {e} : g \in hist'.born <=> g \in hist.born
        BY HistSameFields
      <4>2. Alive(f)
        BY <3>5 DEF Alive
      <4> QED
        BY <1>1, <3>5, <4>1, <4>2, KnownSame
    <3>6. PICK p, q, h, g : p = KnownPlaces /\ q = KnownPlaces' /\ h = hist /\ g = hist'
      OBVIOUS
    <3>7. f \in g.undrawn <=> f \in h.undrawn
      BY <3>1, <3>6, HistSameFields
    <3>8. f \in g.lost <=> f \in h.lost
      BY <3>1, <3>6, HistSameFields
    <3>9. f \in g.born <=> f \in h.born
      BY <3>1, <3>6, HistSameFields
    <3>a. f \in g.moved <=> f \in h.moved
      BY <3>1, <3>6, HistSameFields
    <3>10. OwnDue(Db, f, map[f], p, h)
      BY <3>4, <3>6
    <3>11. (f \in Ways /\ map[f] # NoContent) => \A n \in Range(map[f].refs) : p[n] = q[n]
      BY <3>5, <3>6
    <3>12. PICK b, m : b = Db /\ m = map[f]
      OBVIOUS
    <3>13. OwnDue(d, f, m, q, g)
      BY <3>1, <3>7, <3>8, <3>9, <3>a, <3>10, <3>11, <3>12, KeepsDue
    <3> QED
      BY <3>6, <3>12, <3>13
  <2> QED
    BY <2>2, <2>3
<1> QED
  BY <1>4, <1>5 DEF EntitiesDue

(* Before the change the entity had what it was owed, if it is still        *)
(* followed afterwards.                                                     *)
LEMMA WasDue ==
    ASSUME DueInv, status # "dead", NEW e \in Entities, Followed(e)',
           Overtaken(e) \subseteq hist'.overtaken, hist.overtaken \subseteq hist'.overtaken
    PROVE  Clear(Db, e) /\ Followed(e) /\ OwnDue(Db, e, map[e], KnownPlaces, hist)
<1>1. e \notin hist'.overtaken /\ ~ImportedMultipolygon(e)
  BY DEF Followed, ImportedMultipolygon, InImport
<1>2. ~Buffered(e) /\ Followed(e)
  BY <1>1 DEF Overtaken, Followed
<1>3. Clear(Db, e)
  BY <1>2, ClearFrom DEF DueInv
<1> QED
  BY <1>2, <1>3 DEF DueInv, EntitiesDue, EntityDue

------------------------------------------------------------------------------
(* Nodes                                                                    *)

LEMMA SortsApart ==
    /\ \A n \in Nodes : n \in Entities /\ n \notin Ways /\ n \notin Relations /\ OwnTables(n) = {"nodes"}
    /\ \A w \in Ways : w \in Entities /\ w \notin Nodes /\ w \notin Relations /\ OwnTables(w) = {"ways", "areas"}
    /\ \A r \in Relations : r \in Entities /\ r \notin Nodes /\ r \notin Ways
                            /\ OwnTables(r) = {"relations", "roads"}
<1>1. Nodes \cap Ways = {} /\ Ways \cap Relations = {} /\ Nodes \cap Relations = {}
  BY EntityAssumption
<1>2. ASSUME NEW n \in Nodes PROVE OwnTables(n) = {"nodes"}
  <2>1. n \in Nodes /\ n \notin Ways /\ n \notin Relations
    BY <1>1
  <2> QED
    BY <2>1, Zenon DEF OwnTables
<1>3. ASSUME NEW w \in Ways PROVE OwnTables(w) = {"ways", "areas"}
  <2>1. w \in Ways /\ w \notin Nodes /\ w \notin Relations
    BY <1>1
  <2> QED
    BY <2>1, Zenon DEF OwnTables
<1>4. ASSUME NEW r \in Relations PROVE OwnTables(r) = {"relations", "roads"}
  <2>1. r \in Relations /\ r \notin Nodes /\ r \notin Ways
    BY <1>1
  <2> QED
    BY <2>1, Zenon DEF OwnTables
<1> QED
  BY <1>1, <1>2, <1>3, <1>4 DEF Entities

LEMMA HistRest ==
    ASSUME TypeInv, NEW e,
           NEW h \in {[hist EXCEPT !.moved = @ \cup {e}, !.born = @ \cup {e}, !.overtaken = @ \cup Overtaken(e)],
                      [hist EXCEPT !.moved = @ \cup {e}, !.overtaken = @ \cup Overtaken(e)],
                      [hist EXCEPT !.overtaken = @ \cup Overtaken(e)],
                      [hist EXCEPT !.born = @ \cup {e}, !.overtaken = @ \cup Overtaken(e)]},
           hist' = h
    PROVE  /\ \A f \in Entities \ {e} : HistSame(f)
           /\ Overtaken(e) \subseteq hist'.overtaken /\ hist.overtaken \subseteq hist'.overtaken
           /\ hist'.lost = hist.lost /\ hist'.undrawn = hist.undrawn
<1>1. DOMAIN hist = HistFields
  BY DEF TypeInv, RestTyped
<1>2. Overtaken(e) \subseteq {e}
  BY DEF Overtaken
<1>3. /\ hist'.lost = hist.lost /\ hist'.undrawn = hist.undrawn
      /\ hist'.moved \in {hist.moved, hist.moved \cup {e}}
      /\ hist'.born \in {hist.born, hist.born \cup {e}}
      /\ hist'.overtaken = hist.overtaken \cup Overtaken(e)
  BY <1>1 DEF HistFields
<1>4. ASSUME NEW f \in Entities \ {e} PROVE HistSame(f)
  BY <1>2, <1>3 DEF HistSame, HistFields
<1> QED
  BY <1>3, <1>4

LEMMA CreateNodeDue ==
    ASSUME DueInv, NEW n \in Nodes, CreateNode(n)
    PROVE  EntitiesDue' /\ BuffersFlushed'
<1>0. TypeInv
  BY DEF DueInv
<1>1. PICK c \in Contents[n] :
         /\ Creates(n, c) /\ Step(n, c)
         /\ IF c.tags = <<>> THEN SetDb(Db) ELSE SetDb(Insert(Db, "nodes", n, Row(c.tags, Unprojected(c.at))))
         /\ hist' = [hist EXCEPT !.moved = @ \cup {n}, !.born = @ \cup {n},
                                 !.overtaken = @ \cup Overtaken(n)]
  BY DEF CreateNode
<1>2. n \in Entities /\ n \notin Ways /\ n \notin Relations /\ "nodes" \in Tables
  BY SortsApart, Sorts
<1>3. room \in Rooms /\ status # "dead" /\ Good(Db) /\ Db.dead = FALSE /\ IsDb(Db)
  BY <1>0, <1>1, DbIsGood DEF Step, TypeInv, RestTyped
<1>4. PICK row : row = Row(c.tags, Unprojected(c.at))
  OBVIOUS
<1>5. DOMAIN row.tags \subseteq Keys
  BY <1>2, <1>4, RowTyped
<1>6. PICK d : /\ SetDb(d)
               /\ d = Db \/ d = Insert(Db, "nodes", n, row)
  BY <1>1, <1>4
<1>7. Good(d)
  BY <1>2, <1>3, <1>5, <1>6, InsertGood
<1>8. ASSUME status' # "dead", NEW f \in Entities \ {n} PROVE Keeps(Db, d, f)
  <2>1. CASE d = Db
    BY <2>1, KeepsThrough
  <2>2. CASE d = Insert(Db, "nodes", n, row)
    <3>1. ~Insert(Db, "nodes", n, row).dead
      BY <1>6, <1>8, <2>2 DEF SetDb
    <3> QED
      BY <1>2, <1>3, <1>8, <2>2, <3>1, InsertKeeps DEF Keeps
  <2> QED
    BY <1>6, <2>1, <2>2
<1>9. \A f \in Entities \ {n} : HistSame(f)
  BY <1>0, <1>1, HistRest
<1>10. c # NoContent /\ ~Alive(n)
  BY <1>1, <1>2, ContentIs DEF Creates, Alive
<1>11. n \in hist'.born
  BY <1>0, <1>1 DEF TypeInv, RestTyped, HistFields
<1>12. OwnDue(d, n, c, KnownPlaces', hist')
  BY <1>2, <1>10, <1>11 DEF OwnDue
<1> QED
  BY <1>1, <1>2, <1>6, <1>7, <1>8, <1>9, <1>10, <1>12, ChangeDue

LEMMA ModifyNodeDue ==
    ASSUME DueInv, NEW n \in Nodes, ModifyNode(n)
    PROVE  EntitiesDue' /\ BuffersFlushed'
<1>0. TypeInv
  BY DEF DueInv
<1>1. PICK c \in Contents[n], lucky \in BOOLEAN :
         /\ Modifies(n, c) /\ Step(n, c)
         /\ SetDb(Update(Db, "nodes", n, Row(c.tags, Unprojected(c.at)), lucky))
         /\ hist' = [hist EXCEPT !.moved = @ \cup {n}, !.overtaken = @ \cup Overtaken(n)]
  BY DEF ModifyNode
<1>2. n \in Entities /\ n \notin Ways /\ n \notin Relations /\ "nodes" \in Tables
  BY SortsApart, Sorts
<1>3. status # "dead" /\ Good(Db) /\ IsDb(Db)
  BY <1>0, <1>1, DbIsGood DEF Step
<1>4. PICK row : row = Row(c.tags, Unprojected(c.at))
  OBVIOUS
<1>5. DOMAIN row.tags \subseteq Keys /\ row.tags = c.tags
  BY <1>2, <1>4, RowTyped
<1>6. PICK d : SetDb(d) /\ d = Update(Db, "nodes", n, row, lucky)
  BY <1>1, <1>4
<1>7. Good(d)
  BY <1>2, <1>3, <1>5, <1>6, UpdateGood
<1>8. /\ d.buf = Db.buf /\ d.tagBuf = Db.tagBuf /\ d.dead = Db.dead
      /\ d.rows["nodes"][n] = (IF Db.rows["nodes"][n] = NoRow THEN NoRow ELSE row)
      /\ \A old : Db.tags["nodes"][n] = Once(old) => d.tags["nodes"][n] = Once(row.tags)
      /\ \A u \in Tables, f \in Entities : (f # n \/ u # "nodes") =>
            d.rows[u][f] = Db.rows[u][f] /\ d.tags[u][f] = Db.tags[u][f]
  BY <1>2, <1>3, <1>6, UpdateDoes
<1>9. ASSUME NEW f \in Entities \ {n} PROVE Keeps(Db, d, f)
  <2>1. \A v \in Tables : /\ d.rows[v][f] = Db.rows[v][f] /\ d.tags[v][f] = Db.tags[v][f]
                          /\ d.buf[v] = Db.buf[v] /\ d.tagBuf[BufferOf(v)] = Db.tagBuf[BufferOf(v)]
    BY <1>8
  <2> QED
    BY <2>1, SameKeeps DEF Keeps
<1>10. /\ \A f \in Entities \ {n} : HistSame(f)
       /\ Overtaken(n) \subseteq hist'.overtaken /\ hist.overtaken \subseteq hist'.overtaken
  BY <1>0, <1>1, HistRest
<1>11. hist'.born = hist.born /\ n \in hist'.moved
  BY <1>0, <1>1 DEF TypeInv, RestTyped, HistFields
<1>12. c # NoContent /\ map[n] # NoContent
  BY <1>1, <1>2, ContentIs DEF Modifies
<1>13. ASSUME Followed(n)', n \notin hist'.born PROVE TagsDue(d, "nodes", n, c.tags)
  <2>1. Clear(Db, n) /\ OwnDue(Db, n, map[n], KnownPlaces, hist)
    BY <1>2, <1>3, <1>10, <1>13, WasDue
  <2>2. PICK had : TagsDue(Db, "nodes", n, had)
    BY <1>11, <1>12, <1>13, <2>1 DEF OwnDue
  <2>3. Db.tags["nodes"][n] = Once(had)
    BY <1>2, <2>1, <2>2, ClearHolds
  <2>4. d.tags["nodes"][n] = Once(c.tags)
    BY <1>5, <1>8, <2>3
  <2>5. Clear(d, n)
    BY <1>8, <2>1, ClearStays
  <2> QED
    BY <1>2, <2>4, <2>5, ClearHolds
<1>a. Due(hist', n, c.tags) = c.tags
  BY <1>11 DEF Due
<1>14. Followed(n)' => OwnDue(d, n, c, KnownPlaces', hist')
  BY <1>2, <1>12, <1>13, <1>a DEF OwnDue
<1> QED
  BY <1>1, <1>2, <1>6, <1>7, <1>9, <1>10, <1>11, <1>14, ChangeDue

(* Whatever was deleted from its tables, if nothing of it was buffered, is gone. *)
LEMMA NowGone ==
    ASSUME NEW e \in Entities, NEW d, Clear(d, e),
           \A t \in OwnTables(e) : d.rows[t][e] = NoRow /\ d.tags[t][e] = NoTags,
           NEW p, NEW h
    PROVE  OwnDue(d, e, NoContent, p, h)
<1>1. \A t \in OwnTables(e) : Holds(d, t, e, NoRow) /\ TagsDue(d, t, e, <<>>)
  BY TablesOf, OnceNone, ClearHolds
<1> QED
  BY <1>1 DEF OwnDue, Gone

LEMMA DeleteNodeDue ==
    ASSUME DueInv, NEW n \in Nodes, DeleteNode(n)
    PROVE  EntitiesDue' /\ BuffersFlushed'
<1>0. TypeInv
  BY DEF DueInv
<1>1. /\ Step(n, NoContent)
      /\ SetDb(Delete(Db, "nodes", n))
      /\ hist' = [hist EXCEPT !.overtaken = @ \cup Overtaken(n)]
  BY DEF DeleteNode
<1>2. n \in Entities /\ "nodes" \in Tables /\ OwnTables(n) = {"nodes"}
  BY SortsApart, Sorts
<1>3. status # "dead" /\ Good(Db) /\ IsDb(Db)
  BY <1>0, <1>1, DbIsGood DEF Step
<1>4. PICK d : SetDb(d) /\ d = Delete(Db, "nodes", n)
  BY <1>1
<1>5. Good(d)
  BY <1>2, <1>3, <1>4, DeleteGood
<1>6. /\ d.buf = Db.buf /\ d.tagBuf = Db.tagBuf /\ d.dead = Db.dead
      /\ d.rows["nodes"][n] = NoRow /\ d.tags["nodes"][n] = NoTags
      /\ \A u \in Tables, f \in Entities : (f # n \/ u # "nodes") =>
            d.rows[u][f] = Db.rows[u][f] /\ d.tags[u][f] = Db.tags[u][f]
  BY <1>2, <1>3, <1>4, DeleteDoes
<1>a. ASSUME NEW u \in Tables, NEW f \in Entities, f # n \/ u # "nodes"
      PROVE  KeepsRow(Db, d, u, f) /\ KeepsTags(Db, d, u, f)
  <2>1. d.rows[u][f] = Db.rows[u][f] /\ d.tags[u][f] = Db.tags[u][f]
    BY <1>6, <1>a
  <2> QED
    BY <1>6, <2>1, SameKeeps
<1>7. \A f \in Entities \ {n} : Keeps(Db, d, f)
  BY <1>a DEF Keeps
<1>8. /\ \A f \in Entities \ {n} : HistSame(f)
      /\ Overtaken(n) \subseteq hist'.overtaken /\ hist.overtaken \subseteq hist'.overtaken
  BY <1>0, <1>1, HistRest
<1>9. hist'.born = hist.born
  BY <1>0, <1>1 DEF TypeInv, RestTyped, HistFields
<1>10. ASSUME Followed(n)' PROVE OwnDue(d, n, NoContent, KnownPlaces', hist')
  <2>1. Clear(d, n)
    BY <1>2, <1>3, <1>6, <1>8, <1>10, WasDue, ClearStays
  <2> QED
    BY <1>2, <1>6, <2>1, NowGone
<1> QED
  BY <1>1, <1>2, <1>4, <1>5, <1>7, <1>8, <1>9, <1>10, ChangeDue

------------------------------------------------------------------------------
(* Ways                                                                     *)

(* A way that is created or modified is drawn through what is known.        *)
LEMMA DrawnAsKnown ==
    ASSUME TypeInv, MapInv, NEW w \in Ways, NEW c \in Contents[w], RefsAlive(w, c),
           \A n \in Entities \ {w} : n \in hist'.born <=> n \in hist.born
    PROVE  Points(c.refs, flat) = Points(c.refs, KnownPlaces')
<1> SUFFICES ASSUME NEW n \in Range(c.refs) PROVE flat[n] = KnownPlaces'[n]
  BY PointsAgree
<1>1. n \in Nodes /\ n \in Entities /\ n # w
  BY EntityAssumption DEF Entities
<1>2. flat[n] = KnownPlaces[n]
  BY FlatIsKnown
<1>3. /\ KnownPlaces[n] = IF n \in hist.born THEN 0 ELSE ImportedPlaces[n]
      /\ KnownPlaces'[n] = IF n \in hist'.born THEN 0 ELSE ImportedPlaces[n]
  BY <1>1 DEF KnownPlaces, ImportedPlaces, InImport
<1> QED
  BY <1>1, <1>2, <1>3

LEMMA WayTables ==
    \A t, u \in {"ways", "areas"} : t # u =>
        t \in Tables \ {"nodes"} /\ u \in Tables \ {"nodes"} /\ BufferOf(t) # BufferOf(u)
BY DEF Tables, BufferOf

LEMMA CreateWayDue ==
    ASSUME DueInv, NEW w \in Ways, CreateWay(w)
    PROVE  EntitiesDue' /\ BuffersFlushed'
<1>0. TypeInv /\ MapInv
  BY DEF DueInv
<1>11. PICK c \in Contents[w] :
         \E geog :
         /\ geog = Points(c.refs, flat)
         /\ Creates(w, c) /\ RefsAlive(w, c) /\ Step(w, c)
         /\ IF Drawn(geog) THEN SetDb(Insert(Db, TableFor(geog), w, Row(c.tags, geog))) ELSE SetDb(Db)
         /\ hist' = [hist EXCEPT !.born = @ \cup {w}, !.lost = @ \ {w},
                                 !.undrawn = IF Drawn(geog) THEN @ \ {w} ELSE @ \cup {w},
                                 !.overtaken = @ \cup Overtaken(w)]
  BY DEF CreateWay
<1>1. PICK geog :
         /\ geog = Points(c.refs, flat)
         /\ Creates(w, c) /\ RefsAlive(w, c) /\ Step(w, c)
         /\ IF Drawn(geog) THEN SetDb(Insert(Db, TableFor(geog), w, Row(c.tags, geog))) ELSE SetDb(Db)
         /\ hist' = [hist EXCEPT !.born = @ \cup {w}, !.lost = @ \ {w},
                                 !.undrawn = IF Drawn(geog) THEN @ \ {w} ELSE @ \cup {w},
                                 !.overtaken = @ \cup Overtaken(w)]
  BY <1>11
<1>2. w \in Entities /\ w \notin Nodes /\ w \notin Relations /\ OwnTables(w) = {"ways", "areas"}
  BY SortsApart
<1>3. room \in Rooms /\ status # "dead" /\ Good(Db) /\ Db.dead = FALSE /\ IsDb(Db)
  BY <1>0, <1>1, DbIsGood DEF Step, TypeInv, RestTyped
<1>4. /\ hist'.born = hist.born \cup {w} /\ hist'.lost = hist.lost \ {w} /\ hist'.moved = hist.moved
      /\ hist'.undrawn = (IF Drawn(geog) THEN hist.undrawn \ {w} ELSE hist.undrawn \cup {w})
      /\ hist'.overtaken = hist.overtaken \cup Overtaken(w)
  BY <1>0, <1>1 DEF TypeInv, RestTyped, HistFields
<1>5. \A f \in Entities \ {w} : HistSame(f)
  BY <1>4 DEF HistSame, HistFields, Overtaken
<1>6. geog = Points(c.refs, KnownPlaces')
  BY <1>0, <1>1, <1>5, HistSameFields, DrawnAsKnown
<1>7. c # NoContent /\ map[w] = NoContent
  BY <1>1, <1>2, ContentIs DEF Creates
<1>8. Followed(w)' => /\ Clear(Db, w)
                      /\ \A t \in {"ways", "areas"} : /\ Holds(Db, t, w, NoRow) /\ TagsDue(Db, t, w, <<>>)
                                                      /\ Db.tags[t][w] = NoTags
                                                      /\ ~Pending(Db, BufferOf(t), w)
  <2> SUFFICES ASSUME Followed(w)'
               PROVE  /\ Clear(Db, w)
                      /\ \A t \in {"ways", "areas"} : /\ Holds(Db, t, w, NoRow) /\ TagsDue(Db, t, w, <<>>)
                                                      /\ Db.tags[t][w] = NoTags
                                                      /\ ~Pending(Db, BufferOf(t), w)
    OBVIOUS
  <2>1. Clear(Db, w) /\ OwnDue(Db, w, map[w], KnownPlaces, hist)
    BY <1>2, <1>3, <1>4, WasDue
  <2>2. \A t \in {"ways", "areas"} : Holds(Db, t, w, NoRow) /\ TagsDue(Db, t, w, <<>>)
    BY <1>2, <1>7, <2>1 DEF OwnDue, Gone
  <2>3. \A t \in {"ways", "areas"} : t \in Tables /\ BufferOf(t) \in BufferNames
    BY Sorts, BufferNamed
  <2>4. \A t \in {"ways", "areas"} : Db.tags[t][w] = NoTags
    BY <2>1, <2>2, <2>3, ClearHolds, OnceNone
  <2> QED
    BY <2>1, <2>2, <2>3, <2>4 DEF Clear
<1>9. CASE Drawn(geog)
  <2>1. PICK t \in {"ways", "areas"}, u \in {"ways", "areas"} : t = TableFor(geog) /\ u # t
    BY TableForTyped
  <2>2. PICK row : row = Row(c.tags, geog)
    OBVIOUS
  <2>3. row # NoRow /\ row.tags = c.tags /\ DOMAIN row.tags \subseteq Keys
    BY <1>2, <2>2, RowTyped, NoRowIsNone
  <2>4. t \in Tables \ {"nodes"} /\ u \in Tables /\ BufferOf(u) # BufferOf(t)
    BY <2>1, WayTables
  <2>5. PICK d : SetDb(d) /\ d = Insert(Db, t, w, row)
    BY <1>1, <1>9, <2>1, <2>2
  <2>6. Good(d) /\ ~Insert(Db, t, w, row).dead
    BY <1>2, <1>3, <2>3, <2>4, <2>5, InsertGood, InsertAlive
  <2>7. \A f \in Entities \ {w} : Keeps(Db, d, f)
    BY <1>2, <1>3, <2>4, <2>5, <2>6, InsertKeeps DEF Keeps
  <2>8. KeepsRow(Db, d, u, w) /\ KeepsTags(Db, d, u, w)
    BY <1>2, <1>3, <2>1, <2>4, <2>5, <2>6, InsertKeeps
  <2>9. ASSUME Followed(w)' PROVE OwnDue(d, w, c, KnownPlaces', hist')
    <3>1. Holds(d, t, w, row) /\ TagsDue(d, t, w, Kept(row.tags))
      BY <1>2, <1>3, <1>8, <2>3, <2>4, <2>5, <2>6, <2>9, InsertGives
    <3>2. Holds(d, u, w, NoRow) /\ TagsDue(d, u, w, <<>>)
      BY <1>8, <2>8, <2>9 DEF KeepsRow, KeepsTags
    <3>a. w \notin hist'.lost /\ Due(hist', w, c.tags) = Kept(c.tags)
      BY <1>2, <1>4 DEF Due
    <3>3. WayDue(d, w, c.tags, geog, hist', t, u, row)
      BY <2>2, <2>3, <3>1, <3>2, <3>a DEF WayDue
    <3>4. WayPlaced(d, w, c.tags, geog, hist')
      BY <2>1, <3>3 DEF WayPlaced
    <3> QED
      BY <1>2, <1>6, <1>7, <3>4 DEF OwnDue
  <2> QED
    BY <1>1, <1>2, <1>5, <2>5, <2>6, <2>7, <2>9, ChangeDue
<1>10. CASE ~Drawn(geog)
  <2>1. PICK d : SetDb(d) /\ d = Db
    BY <1>1, <1>10
  <2>2. Good(d) /\ \A f \in Entities \ {w} : Keeps(Db, d, f)
    BY <1>3, <2>1, KeepsThrough
  <2>3. ASSUME Followed(w)' PROVE OwnDue(d, w, c, KnownPlaces', hist')
    <3>1. w \in hist'.undrawn
      BY <1>4, <1>10
    <3>2. WayDue(d, w, c.tags, geog, hist', "ways", "areas", NoRow)
      BY <1>8, <1>10, <2>1, <2>3, <3>1 DEF WayDue
    <3>3. WayPlaced(d, w, c.tags, geog, hist')
      BY <3>2 DEF WayPlaced
    <3> QED
      BY <1>2, <1>6, <1>7, <3>3 DEF OwnDue
  <2> QED
    BY <1>1, <1>2, <1>5, <2>1, <2>2, <2>3, ChangeDue
<1> QED
  BY <1>9, <1>10

LEMMA ModifyWayDue ==
    ASSUME DueInv, NEW w \in Ways, ModifyWay(w)
    PROVE  EntitiesDue' /\ BuffersFlushed'
<1>0. TypeInv /\ MapInv
  BY DEF DueInv
<1>1. PICK c \in Contents[w], lucky \in BOOLEAN :
         /\ Modifies(w, c) /\ RefsAlive(w, c) /\ Step(w, c)
         /\ IF Drawn(Points(c.refs, flat))
            THEN SetDb(Update(Delete(Delete(Db, "ways", w), "areas", w),
                              TableFor(Points(c.refs, flat)), w,
                              Row(c.tags, Points(c.refs, flat)), lucky))
            ELSE SetDb(Db)
         /\ hist' = [hist EXCEPT !.lost = IF Drawn(Points(c.refs, flat)) THEN @ \cup {w} ELSE @,
                                 !.undrawn = IF Drawn(Points(c.refs, flat)) THEN @ \ {w} ELSE @ \cup {w},
                                 !.overtaken = @ \cup Overtaken(w)]
  BY DEF ModifyWay
<1>2. w \in Entities /\ w \notin Nodes /\ w \notin Relations /\ OwnTables(w) = {"ways", "areas"}
  BY SortsApart
<1>3. room \in Rooms /\ status # "dead" /\ Good(Db) /\ Db.dead = FALSE /\ IsDb(Db)
  BY <1>0, <1>1, DbIsGood DEF Step, TypeInv, RestTyped
<1>4. PICK geog : geog = Points(c.refs, flat)
  OBVIOUS
<1>5. /\ hist'.born = hist.born /\ hist'.moved = hist.moved
      /\ hist'.lost = (IF Drawn(geog) THEN hist.lost \cup {w} ELSE hist.lost)
      /\ hist'.undrawn = (IF Drawn(geog) THEN hist.undrawn \ {w} ELSE hist.undrawn \cup {w})
      /\ hist'.overtaken = hist.overtaken \cup Overtaken(w)
  BY <1>0, <1>1, <1>4 DEF TypeInv, RestTyped, HistFields
<1>6. \A f \in Entities \ {w} : HistSame(f)
  BY <1>5 DEF HistSame, HistFields, Overtaken
<1>7. geog = Points(c.refs, KnownPlaces')
  BY <1>0, <1>1, <1>4, <1>5, DrawnAsKnown
<1>8. c # NoContent /\ map[w] # NoContent
  BY <1>1, <1>2, ContentIs DEF Modifies
<1>9. Followed(w)' => Clear(Db, w) /\ OwnDue(Db, w, map[w], KnownPlaces, hist)
  BY <1>2, <1>3, <1>5, WasDue
<1>10. CASE Drawn(geog)
  <2>1. PICK t \in {"ways", "areas"}, u \in {"ways", "areas"} : t = TableFor(geog) /\ u # t
    BY TableForTyped
  <2>2. PICK row : row = Row(c.tags, geog)
    OBVIOUS
  <2>3. row.tags = c.tags /\ DOMAIN row.tags \subseteq Keys
    BY <1>2, <2>2, RowTyped
  <2>4. t \in Tables /\ u \in Tables /\ "ways" \in Tables /\ "areas" \in Tables
    BY Sorts
  <2>5. PICK gone : gone = Delete(Delete(Db, "ways", w), "areas", w)
    OBVIOUS
  <2>6. /\ Good(gone) /\ (Clear(Db, w) => Clear(gone, w))
        /\ gone.rows["ways"][w] = NoRow /\ gone.tags["ways"][w] = NoTags
        /\ gone.rows["areas"][w] = NoRow /\ gone.tags["areas"][w] = NoTags
        /\ \A f \in Entities \ {w} : Keeps(Db, gone, f)
    BY <1>2, <1>3, <2>4, <2>5, DeleteTwo
  <2>7. PICK d : SetDb(d) /\ d = Update(gone, t, w, row, lucky)
    BY <1>1, <1>4, <1>10, <2>1, <2>2, <2>5
  <2>8. Good(d) /\ IsDb(gone)
    BY <1>2, <2>3, <2>4, <2>6, <2>7, UpdateGood DEF Good
  <2>9. /\ d.buf = gone.buf /\ d.tagBuf = gone.tagBuf
        /\ d.rows[t][w] = (IF gone.rows[t][w] = NoRow THEN NoRow ELSE row)
        /\ \A old : gone.tags[t][w] = Once(old) => d.tags[t][w] = Once(row.tags)
        /\ \A v \in Tables, f \in Entities : (f # w \/ v # t) =>
              d.rows[v][f] = gone.rows[v][f] /\ d.tags[v][f] = gone.tags[v][f]
    BY <1>2, <2>4, <2>7, <2>8, UpdateDoes
  <2>10. ASSUME NEW f \in Entities \ {w} PROVE Keeps(Db, d, f)
    <3>1. \A v \in Tables : /\ d.rows[v][f] = gone.rows[v][f] /\ d.tags[v][f] = gone.tags[v][f]
                            /\ d.buf[v] = gone.buf[v] /\ d.tagBuf[BufferOf(v)] = gone.tagBuf[BufferOf(v)]
      BY <2>9
    <3>2. Keeps(gone, d, f)
      BY <3>1, SameKeeps DEF Keeps
    <3> QED
      BY <2>6, <3>2, KeepsThrough
  <2>11. ASSUME Followed(w)' PROVE OwnDue(d, w, c, KnownPlaces', hist')
    <3>1. Clear(d, w)
      BY <1>9, <2>6, <2>9, <2>11, ClearStays
    <3>2. gone.rows[t][w] = NoRow /\ gone.rows[u][w] = NoRow
          /\ gone.tags[t][w] = Once(<<>>) /\ gone.tags[u][w] = Once(<<>>)
      BY <2>6, OnceNone
    <3>3. d.rows[t][w] = NoRow /\ d.tags[t][w] = Once(c.tags)
      BY <2>3, <2>9, <3>2
    <3>4. d.rows[u][w] = NoRow /\ d.tags[u][w] = Once(<<>>)
      BY <1>2, <2>1, <2>4, <2>9, <3>2
    <3>5. /\ Holds(d, t, w, NoRow) /\ TagsDue(d, t, w, c.tags)
          /\ Holds(d, u, w, NoRow) /\ TagsDue(d, u, w, <<>>)
      BY <2>4, <3>1, <3>3, <3>4, ClearHolds
    <3>6. w \in hist'.lost /\ Due(hist', w, c.tags) = c.tags
      BY <1>2, <1>5, <1>10 DEF Due
    <3>7. WayDue(d, w, c.tags, geog, hist', t, u, NoRow)
      BY <3>5, <3>6 DEF WayDue
    <3>8. WayPlaced(d, w, c.tags, geog, hist')
      BY <2>1, <3>7 DEF WayPlaced
    <3> QED
      BY <1>2, <1>7, <1>8, <3>8 DEF OwnDue
  <2> QED
    BY <1>1, <1>2, <1>6, <2>7, <2>8, <2>10, <2>11, ChangeDue
<1>11. CASE ~Drawn(geog)
  <2>1. PICK d : SetDb(d) /\ d = Db
    BY <1>1, <1>4, <1>11
  <2>2. Good(d) /\ \A f \in Entities \ {w} : Keeps(Db, d, f)
    BY <1>3, <2>1, KeepsThrough
  <2>3. ASSUME Followed(w)' PROVE OwnDue(d, w, c, KnownPlaces', hist')
    <3>1. w \in hist'.undrawn
      BY <1>5, <1>11
    <3>2. WayPlaced(Db, w, map[w].tags, Points(map[w].refs, KnownPlaces), hist)
      BY <1>8, <1>9, <2>3 DEF OwnDue
    <3>3. PICK t \in {"ways", "areas"}, u \in {"ways", "areas"} :
             t # u /\ \E row : WayDue(Db, w, map[w].tags, Points(map[w].refs, KnownPlaces), hist, t, u, row)
      BY <3>2 DEF WayPlaced
    <3>4. PICK row : Holds(d, t, w, row) /\ Holds(d, u, w, NoRow) /\ (w \in hist'.lost => row = NoRow)
      BY <1>5, <1>11, <2>1, <3>3 DEF WayDue
    <3>5. WayDue(d, w, c.tags, geog, hist', t, u, row)
      BY <1>11, <3>1, <3>4 DEF WayDue
    <3>6. WayPlaced(d, w, c.tags, geog, hist')
      BY <3>3, <3>5 DEF WayPlaced
    <3> QED
      BY <1>2, <1>7, <1>8, <3>6 DEF OwnDue
  <2> QED
    BY <1>1, <1>2, <1>6, <2>1, <2>2, <2>3, ChangeDue
<1> QED
  BY <1>10, <1>11

LEMMA DeleteWayDue ==
    ASSUME DueInv, NEW w \in Ways, DeleteWay(w)
    PROVE  EntitiesDue' /\ BuffersFlushed'
<1>0. TypeInv
  BY DEF DueInv
<1>1. /\ Step(w, NoContent)
      /\ SetDb(Delete(Delete(Db, "ways", w), "areas", w))
      /\ hist' = [hist EXCEPT !.overtaken = @ \cup Overtaken(w)]
  BY DEF DeleteWay
<1>2. w \in Entities /\ w \notin Nodes /\ OwnTables(w) = {"ways", "areas"} /\ "ways" \in Tables
      /\ "areas" \in Tables
  BY SortsApart, Sorts
<1>3. status # "dead" /\ Good(Db)
  BY <1>0, <1>1, DbIsGood DEF Step
<1>4. PICK d : SetDb(d) /\ d = Delete(Delete(Db, "ways", w), "areas", w)
  BY <1>1
<1>5. /\ Good(d) /\ (Clear(Db, w) => Clear(d, w))
      /\ d.rows["ways"][w] = NoRow /\ d.tags["ways"][w] = NoTags
      /\ d.rows["areas"][w] = NoRow /\ d.tags["areas"][w] = NoTags
      /\ \A f \in Entities \ {w} : Keeps(Db, d, f)
  BY <1>2, <1>3, <1>4, DeleteTwo
<1>6. /\ \A f \in Entities \ {w} : HistSame(f)
      /\ Overtaken(w) \subseteq hist'.overtaken /\ hist.overtaken \subseteq hist'.overtaken
  BY <1>0, <1>1, HistRest
<1>7. ASSUME Followed(w)' PROVE OwnDue(d, w, NoContent, KnownPlaces', hist')
  <2>1. Clear(d, w)
    BY <1>2, <1>3, <1>5, <1>6, <1>7, WasDue
  <2> QED
    BY <1>2, <1>5, <2>1, NowGone
<1> QED
  BY <1>1, <1>2, <1>4, <1>5, <1>6, <1>7, ChangeDue

------------------------------------------------------------------------------
(* Relations                                                                *)

(* A relation with its row and no road becomes a road if its row is one.    *)
LEMMA SyncDue ==
    ASSUME NEW d, Good(d), ~d.dead, room \in Rooms, NEW r \in Entities, NEW row, row # NoRow,
           DOMAIN row.tags \subseteq Keys, NEW x, x = SyncRoad(d, r, row)
    PROVE  /\ Good(x) /\ ~x.dead
           /\ \A f \in Entities \ {r} : Keeps(d, x, f)
           /\ (Holds(d, "relations", r, row) /\ Holds(d, "roads", r, NoRow))
                => RelationDue(x, r, row.tags)
<1>1. IsDb(d) /\ "roads" \in Tables \ {"nodes"} /\ "relations" \in Tables
  BY Sorts DEF Good
<1>2. Good(x)
  BY SyncGood
<1>3. CASE IsRoad(row.tags) /\ row.geog # <<>>
  <2>1. x = Insert(d, "roads", r, row)
    BY <1>3 DEF SyncRoad
  <2>2. ~x.dead /\ ~Insert(d, "roads", r, row).dead
    BY <1>1, <2>1, InsertAlive
  <2>3. \A f \in Entities \ {r} : Keeps(d, x, f)
    BY <1>1, <2>1, <2>2, InsertKeeps DEF Keeps
  <2>4. ASSUME Holds(d, "relations", r, row), Holds(d, "roads", r, NoRow)
        PROVE  RelationDue(x, r, row.tags)
    <3>1. KeepsRow(d, x, "relations", r)
      BY <1>1, <2>1, <2>2, InsertKeeps
    <3>2. Holds(x, "relations", r, row)
      BY <2>4, <3>1 DEF KeepsRow
    <3>3. Holds(x, "roads", r, row)
      BY <1>1, <2>1, <2>2, <2>4, InsertGives
    <3> QED
      BY <1>3, <3>2, <3>3 DEF RelationDue
  <2> QED
    BY <1>2, <2>2, <2>3, <2>4
<1>4. CASE ~(IsRoad(row.tags) /\ row.geog # <<>>)
  <2>1. x = d
    BY <1>4 DEF SyncRoad
  <2> QED
    BY <1>2, <1>4, <2>1, KeepsThrough DEF RelationDue
<1> QED
  BY <1>3, <1>4

LEMMA CreateRelationDue ==
    ASSUME DueInv, NEW r \in Relations, CreateRelation(r)
    PROVE  EntitiesDue' /\ BuffersFlushed'
<1>0. TypeInv
  BY DEF DueInv
<1>1. PICK c \in Contents[r] :
         /\ Creates(r, c) /\ Step(r, c)
         /\ SetDb(SyncRoad(Insert(Db, "relations", r, Row(c.tags, RelationGeog(rows, c.members))), r,
                           Row(c.tags, RelationGeog(rows, c.members))))
         /\ hist' = [hist EXCEPT !.born = @ \cup {r}, !.overtaken = @ \cup Overtaken(r)]
  BY DEF CreateRelation
<1>2. r \in Entities /\ r \notin Nodes /\ r \notin Ways /\ OwnTables(r) = {"relations", "roads"}
      /\ "relations" \in Tables \ {"nodes"} /\ "roads" \in Tables
  BY SortsApart, Sorts
<1>3. room \in Rooms /\ status # "dead" /\ Good(Db) /\ Db.dead = FALSE /\ IsDb(Db)
  BY <1>0, <1>1, DbIsGood DEF Step, TypeInv, RestTyped
<1>4. PICK row : row = Row(c.tags, RelationGeog(rows, c.members))
  OBVIOUS
<1>5. row # NoRow /\ row.tags = c.tags /\ DOMAIN row.tags \subseteq Keys
  BY <1>2, <1>4, RowTyped, NoRowIsNone
<1>6. PICK i : i = Insert(Db, "relations", r, row)
  OBVIOUS
<1>7. Good(i) /\ ~i.dead /\ ~Insert(Db, "relations", r, row).dead
  BY <1>2, <1>3, <1>5, <1>6, InsertGood, InsertAlive
<1>8. PICK d : SetDb(d) /\ d = SyncRoad(i, r, row)
  BY <1>1, <1>4, <1>6
<1>9. /\ Good(d) /\ \A f \in Entities \ {r} : Keeps(i, d, f)
      /\ (Holds(i, "relations", r, row) /\ Holds(i, "roads", r, NoRow))
           => RelationDue(d, r, row.tags)
  BY <1>2, <1>3, <1>5, <1>7, <1>8, SyncDue
<1>10. \A f \in Entities \ {r} : Keeps(Db, i, f)
  BY <1>2, <1>3, <1>6, <1>7, InsertKeeps DEF Keeps
<1>11. \A f \in Entities \ {r} : Keeps(Db, d, f)
  BY <1>9, <1>10, KeepsThrough
<1>12. /\ \A f \in Entities \ {r} : HistSame(f)
       /\ Overtaken(r) \subseteq hist'.overtaken /\ hist.overtaken \subseteq hist'.overtaken
  BY <1>0, <1>1, HistRest
<1>13. c # NoContent /\ map[r] = NoContent
  BY <1>1, <1>2, ContentIs DEF Creates
<1>14. ASSUME Followed(r)' PROVE OwnDue(d, r, c, KnownPlaces', hist')
  <2>1. OwnDue(Db, r, map[r], KnownPlaces, hist)
    BY <1>2, <1>3, <1>12, <1>14, WasDue
  <2>2. Holds(Db, "relations", r, NoRow) /\ Holds(Db, "roads", r, NoRow)
    BY <1>2, <1>13, <2>1 DEF OwnDue, Gone
  <2>3. Holds(i, "relations", r, row)
    BY <1>2, <1>3, <1>5, <1>6, <1>7, <2>2, InsertGives
  <2>4. KeepsRow(Db, i, "roads", r)
    BY <1>2, <1>3, <1>6, <1>7, InsertKeeps
  <2>5. Holds(i, "roads", r, NoRow)
    BY <2>2, <2>4 DEF KeepsRow
  <2> QED
    BY <1>2, <1>5, <1>9, <1>13, <2>3, <2>5 DEF OwnDue
<1> QED
  BY <1>1, <1>2, <1>8, <1>9, <1>11, <1>12, <1>14, ChangeDue

LEMMA ModifyRelationDue ==
    ASSUME DueInv, NEW r \in Relations, ModifyRelation(r)
    PROVE  EntitiesDue' /\ BuffersFlushed'
<1>0. TypeInv
  BY DEF DueInv
<1>1. PICK c \in Contents[r], lucky \in BOOLEAN :
         /\ Modifies(r, c) /\ Step(r, c)
         /\ SetDb(SyncRoad(Delete(Update(Db, "relations", r,
                                         Row(c.tags, RelationGeog(rows, c.members)), lucky),
                                  "roads", r),
                           r, Row(c.tags, RelationGeog(rows, c.members))))
         /\ hist' = [hist EXCEPT !.overtaken = @ \cup Overtaken(r)]
  BY DEF ModifyRelation
<1>2. r \in Entities /\ r \notin Nodes /\ r \notin Ways
      /\ "relations" \in Tables /\ "roads" \in Tables
  BY SortsApart, Sorts
<1>3. room \in Rooms /\ status # "dead" /\ Good(Db) /\ Db.dead = FALSE /\ IsDb(Db)
  BY <1>0, <1>1, DbIsGood DEF Step, TypeInv, RestTyped
<1>4. PICK row : row = Row(c.tags, RelationGeog(rows, c.members))
  OBVIOUS
<1>5. row # NoRow /\ row.tags = c.tags /\ DOMAIN row.tags \subseteq Keys
  BY <1>2, <1>4, RowTyped, NoRowIsNone
<1>6. PICK x : x = Update(Db, "relations", r, row, lucky)
  OBVIOUS
<1>7. Good(x) /\ IsDb(x)
  BY <1>2, <1>3, <1>5, <1>6, UpdateGood DEF Good
<1>8. /\ x.buf = Db.buf /\ x.tagBuf = Db.tagBuf /\ x.dead = Db.dead
      /\ x.rows["relations"][r] = (IF Db.rows["relations"][r] = NoRow THEN NoRow ELSE row)
      /\ \A u \in Tables, f \in Entities : (f # r \/ u # "relations") =>
            x.rows[u][f] = Db.rows[u][f] /\ x.tags[u][f] = Db.tags[u][f]
  BY <1>2, <1>3, <1>6, UpdateDoes
<1>9. PICK y : y = Delete(x, "roads", r)
  OBVIOUS
<1>10. Good(y)
  BY <1>2, <1>7, <1>9, DeleteGood
<1>11. /\ y.buf = x.buf /\ y.tagBuf = x.tagBuf /\ y.dead = x.dead
       /\ y.rows["roads"][r] = NoRow
       /\ \A u \in Tables, f \in Entities : (f # r \/ u # "roads") =>
             y.rows[u][f] = x.rows[u][f] /\ y.tags[u][f] = x.tags[u][f]
  BY <1>2, <1>7, <1>9, DeleteDoes
<1>12. PICK d : SetDb(d) /\ d = SyncRoad(y, r, row)
  BY <1>1, <1>4, <1>6, <1>9
<1>13. /\ Good(d) /\ \A f \in Entities \ {r} : Keeps(y, d, f)
       /\ (Holds(y, "relations", r, row) /\ Holds(y, "roads", r, NoRow))
            => RelationDue(d, r, row.tags)
  BY <1>2, <1>3, <1>5, <1>8, <1>10, <1>11, <1>12, SyncDue
<1>14. ASSUME NEW f \in Entities \ {r} PROVE Keeps(Db, d, f)
  <2>1. \A v \in Tables : /\ y.rows[v][f] = Db.rows[v][f] /\ y.tags[v][f] = Db.tags[v][f]
                          /\ y.buf[v] = Db.buf[v] /\ y.tagBuf[BufferOf(v)] = Db.tagBuf[BufferOf(v)]
    BY <1>8, <1>11
  <2>2. Keeps(Db, y, f)
    BY <2>1, SameKeeps DEF Keeps
  <2> QED
    BY <1>13, <2>2, KeepsThrough
<1>15. /\ \A f \in Entities \ {r} : HistSame(f)
       /\ Overtaken(r) \subseteq hist'.overtaken /\ hist.overtaken \subseteq hist'.overtaken
  BY <1>0, <1>1, HistRest
<1>16. c # NoContent /\ map[r] # NoContent
  BY <1>1, <1>2, ContentIs DEF Modifies
<1>17. ASSUME Followed(r)' PROVE OwnDue(d, r, c, KnownPlaces', hist')
  <2>1. Clear(Db, r) /\ OwnDue(Db, r, map[r], KnownPlaces, hist)
    BY <1>2, <1>3, <1>15, <1>17, WasDue
  <2>2. RelationDue(Db, r, map[r].tags)
    BY <1>16, <2>1 DEF OwnDue
  <2>3. PICK old : old # NoRow /\ Holds(Db, "relations", r, old)
    BY <2>2 DEF RelationDue
  <2>4. Db.rows["relations"][r] # NoRow
    BY <1>2, <2>1, <2>3, ClearHolds
  <2>5. x.rows["relations"][r] = row
    BY <1>8, <2>4
  <2>6. y.rows["relations"][r] = row
    BY <1>2, <1>11, <2>5
  <2>7. Clear(x, r)
    BY <1>8, <2>1, ClearStays
  <2>8. Clear(y, r)
    BY <1>11, <2>7, ClearStays
  <2>9. Holds(y, "relations", r, row) /\ Holds(y, "roads", r, NoRow)
    BY <1>2, <1>11, <2>6, <2>8, ClearHolds
  <2> QED
    BY <1>2, <1>5, <1>13, <1>16, <2>9 DEF OwnDue
<1> QED
  BY <1>1, <1>2, <1>12, <1>13, <1>14, <1>15, <1>17, ChangeDue

LEMMA DeleteRelationDue ==
    ASSUME DueInv, NEW r \in Relations, DeleteRelation(r)
    PROVE  EntitiesDue' /\ BuffersFlushed'
<1>0. TypeInv
  BY DEF DueInv
<1>1. /\ Step(r, NoContent)
      /\ SetDb(Delete(Delete(Db, "relations", r), "roads", r))
      /\ hist' = [hist EXCEPT !.overtaken = @ \cup Overtaken(r)]
  BY DEF DeleteRelation
<1>2. r \in Entities /\ r \notin Nodes /\ OwnTables(r) = {"relations", "roads"}
      /\ "relations" \in Tables /\ "roads" \in Tables
  BY SortsApart, Sorts
<1>3. status # "dead" /\ Good(Db)
  BY <1>0, <1>1, DbIsGood DEF Step
<1>4. PICK d : SetDb(d) /\ d = Delete(Delete(Db, "relations", r), "roads", r)
  BY <1>1
<1>5. /\ Good(d) /\ (Clear(Db, r) => Clear(d, r))
      /\ d.rows["relations"][r] = NoRow /\ d.tags["relations"][r] = NoTags
      /\ d.rows["roads"][r] = NoRow /\ d.tags["roads"][r] = NoTags
      /\ \A f \in Entities \ {r} : Keeps(Db, d, f)
  BY <1>2, <1>3, <1>4, DeleteTwo
<1>6. /\ \A f \in Entities \ {r} : HistSame(f)
      /\ Overtaken(r) \subseteq hist'.overtaken /\ hist.overtaken \subseteq hist'.overtaken
  BY <1>0, <1>1, HistRest
<1>7. ASSUME Followed(r)' PROVE OwnDue(d, r, NoContent, KnownPlaces', hist')
  <2>1. Clear(d, r)
    BY <1>2, <1>3, <1>5, <1>6, <1>7, WasDue
  <2> QED
    BY <1>2, <1>5, <2>1, NowGone
<1> QED
  BY <1>1, <1>2, <1>4, <1>5, <1>6, <1>7, ChangeDue

------------------------------------------------------------------------------
(* What the import left, and the end of a file                              *)

LEMMA ImportedNode ==
    ASSUME NEW n \in Nodes
    PROVE  ImportedRows["nodes"][n] =
              IF InImport(n) /\ Imported[n].tags # <<>>
              THEN Row(Imported[n].tags, Projected(Imported[n].at)) ELSE NoRow
<1>1. n \in Nodes /\ n \notin Ways /\ n \notin Relations /\ n \in Entities
  BY SortsApart
<1>2. ImportedTable(n) = "nodes"
  BY <1>1, Zenon DEF ImportedTable
<1>3. PICK r : r = ImportedWays
  OBVIOUS
<1>4. ImportedRow(n, r) = Row(Imported[n].tags, Projected(Imported[n].at))
  BY <1>1, Zenon DEF ImportedRow
<1>5. ImportedRows["nodes"][n] = Stored(r, "nodes", n)
  BY <1>1, <1>3, Sorts DEF ImportedRows
<1> QED
  BY <1>1, <1>2, <1>4, <1>5 DEF Stored, Stores

LEMMA ImportedWay ==
    ASSUME NEW w \in Ways, Stores(w)
    PROVE  \E t \in {"ways", "areas"}, u \in {"ways", "areas"} :
              /\ t # u /\ ImportedRows[u][w] = NoRow
              /\ ImportedRows[t][w] = Row(Imported[w].tags, Points(Imported[w].refs, ImportedPlaces))
<1>1. w \in Ways /\ w \notin Nodes /\ w \notin Relations /\ w \in Entities
  BY SortsApart
<1>2. ImportedTable(w) = IF w \in AreasByTags THEN "areas" ELSE "ways"
  BY <1>1, Zenon DEF ImportedTable
<1>3. PICK r : r = ImportedWays
  OBVIOUS
<1>4. ImportedRow(w, r) = Row(Imported[w].tags, Points(Imported[w].refs, ImportedPlaces))
  BY <1>1, Zenon DEF ImportedRow
<1>5. \A t \in {"ways", "areas"} : ImportedRows[t][w] = Stored(r, t, w)
  BY <1>1, <1>3, Sorts DEF ImportedRows
<1>6. PICK t \in {"ways", "areas"}, u \in {"ways", "areas"} : t # u /\ t = ImportedTable(w)
  BY <1>2
<1>7. /\ Stored(r, t, w) = Row(Imported[w].tags, Points(Imported[w].refs, ImportedPlaces))
      /\ Stored(r, u, w) = NoRow
  BY <1>1, <1>4, <1>6 DEF Stored
<1> QED
  BY <1>5, <1>6, <1>7

(* The import writes nothing of a way that it cannot draw. *)
LEMMA ShortWay ==
    ASSUME NEW w \in Ways, InImport(w), ~Stores(w)
    PROVE  /\ ImportedRows["ways"][w] = NoRow /\ ImportedRows["areas"][w] = NoRow
           /\ ~Drawn(Points(Imported[w].refs, ImportedPlaces))
<1>1. w \notin Nodes /\ w \notin Relations /\ w \in Entities
  BY SortsApart
<1>2. \A r, t : Stored(r, t, w) = NoRow
  BY Zenon DEF Stored
<1>3. \A t \in {"ways", "areas"} : ImportedRows[t][w] = Stored(ImportedWays, t, w)
  BY <1>1, Sorts DEF ImportedRows
<1> QED
  BY <1>1, <1>2, <1>3 DEF Stores

LEMMA ImportedRelation ==
    ASSUME NEW r \in Relations, InImport(r), ~ImportedMultipolygon(r)
    PROVE  \E row : /\ row # NoRow /\ row.tags = Imported[r].tags
                    /\ ImportedRows["relations"][r] = row
                    /\ ImportedRows["roads"][r] =
                          IF IsRoad(row.tags) /\ row.geog # <<>> THEN row ELSE NoRow
<1>1. r \in Relations /\ r \notin Nodes /\ r \notin Ways /\ r \in Entities
  BY SortsApart
<1>2. ImportedTable(r) = "relations"
  <2>1. ~IsMultipolygon(Imported[r].tags)
    BY DEF ImportedMultipolygon
  <2>2. ImportedTable(r) = IF IsMultipolygon(Imported[r].tags) THEN "areas" ELSE "relations"
    BY <1>1, Zenon DEF ImportedTable
  <2> QED
    BY <2>1, <2>2
<1>3. PICK w, row : w = ImportedWays /\ row = ImportedRow(r, w)
  OBVIOUS
<1>4. row = Row(Imported[r].tags, RelationGeog(w, Imported[r].members))
  <2>1. row = Row(Imported[r].tags, IF ImportedTable(r) = "areas"
                                     THEN RingsGeog(w, Imported[r].members)
                                     ELSE RelationGeog(w, Imported[r].members))
    BY <1>1, <1>3, Zenon DEF ImportedRow
  <2> QED
    BY <1>2, <2>1
<1>5. row # NoRow /\ row.tags = Imported[r].tags
  BY <1>4, NoRowIsNone, RowFields
<1>6. ImportedRows["relations"][r] = row
  <2>1. ImportedRows["relations"][r] = Stored(w, "relations", r)
    BY <1>1, <1>3, Sorts DEF ImportedRows
  <2> QED
    BY <1>1, <1>2, <1>3, <2>1 DEF Stored, Stores
<1>7. ImportedRows["roads"][r] = IF IsRoad(row.tags) /\ row.geog # <<>> THEN row ELSE NoRow
  <2>1. ImportedRows["roads"][r] = IF IsRoad(Imported[r].tags) /\ row.geog # <<>> THEN row ELSE NoRow
    BY <1>1, <1>2, <1>3, Sorts DEF ImportedRows
  <2> QED
    BY <1>5, <2>1
<1> QED
  BY <1>5, <1>6, <1>7

LEMMA InitDue == Init => BuffersFlushed /\ EntitiesDue
<1> SUFFICES ASSUME Init PROVE BuffersFlushed /\ EntitiesDue
  OBVIOUS
<1>1. /\ map = Imported /\ rows = ImportedRows /\ status = "applying"
      /\ buf = [t \in Tables |-> <<>>] /\ tagBuf = [b \in {"tag", "way", "area"} |-> <<>>]
      /\ hist.born = {} /\ hist.lost = {} /\ hist.moved = {}
      /\ hist.undrawn = {w \in Ways : InImport(w) /\ ~Stores(w)}
      /\ tagRows = [t \in Tables |-> [e \in Entities |->
                       IF rows[t][e] = NoRow THEN NoTags ELSE Once(Kept(rows[t][e].tags))]]
  BY DEF Init
<1>2. Db.rows = rows /\ Db.tags = tagRows /\ Db.buf = buf /\ Db.tagBuf = tagBuf
  BY DEF Db
<1>3. ASSUME NEW e \in Entities PROVE Clear(Db, e)
  BY <1>1, <1>2 DEF Clear, In, Pending, BufferNames
<1>4. KnownPlaces = ImportedPlaces
  BY <1>1 DEF KnownPlaces, ImportedPlaces
<1>5. ASSUME NEW e \in Entities, Followed(e) PROVE OwnDue(Db, e, map[e], KnownPlaces, hist)
  <2>1. \A t \in Tables : Db.rows[t][e] = ImportedRows[t][e]
    BY <1>1, <1>2
  <2>2. \A t \in Tables : Db.tags[t][e] = IF ImportedRows[t][e] = NoRow THEN NoTags
                                          ELSE Once(Kept(ImportedRows[t][e].tags))
    BY <1>1, <1>2
  <2>3. \A t \in Tables : /\ \A row : Holds(Db, t, e, row) <=> Db.rows[t][e] = row
                          /\ \A tags : TagsDue(Db, t, e, tags) <=> Db.tags[t][e] = Once(tags)
    BY <1>3, ClearHolds
  <2>4. ASSUME map[e] = NoContent PROVE Gone(Db, e)
    <3>1. ~InImport(e)
      BY <1>1, <2>4 DEF InImport
    <3>2. \A t \in Tables : ImportedRows[t][e] = NoRow
      BY <3>1, ImportedRowIs
    <3> QED
      BY <2>1, <2>2, <2>3, <3>2, TablesOf, OnceNone DEF Gone
  <2>5. ASSUME map[e] # NoContent, e \in Relations PROVE RelationDue(Db, e, map[e].tags)
    <3>1. InImport(e) /\ ~ImportedMultipolygon(e)
      BY <1>1, <1>5, <2>5 DEF InImport, Followed
    <3>2. PICK row : /\ row # NoRow /\ row.tags = Imported[e].tags
                     /\ ImportedRows["relations"][e] = row
                     /\ ImportedRows["roads"][e] =
                           IF IsRoad(row.tags) /\ row.geog # <<>> THEN row ELSE NoRow
      BY <2>5, <3>1, ImportedRelation
    <3>3. /\ Holds(Db, "relations", e, row)
          /\ Holds(Db, "roads", e, IF IsRoad(row.tags) /\ row.geog # <<>> THEN row ELSE NoRow)
      BY <2>1, <2>3, <3>2, Sorts
    <3> QED
      BY <1>1, <3>2, <3>3 DEF RelationDue
  <2>6. ASSUME map[e] # NoContent, e \in Ways
        PROVE  WayPlaced(Db, e, map[e].tags, Points(map[e].refs, KnownPlaces), hist)
    <3>1. PICK known : known = Points(Imported[e].refs, ImportedPlaces)
      OBVIOUS
    <3>2. InImport(e)
      BY <1>1, <2>6 DEF InImport
    <3>3. CASE Stores(e)
      <4>1. PICK t \in {"ways", "areas"}, u \in {"ways", "areas"} :
               /\ t # u /\ ImportedRows[u][e] = NoRow
               /\ ImportedRows[t][e] = Row(Imported[e].tags, known)
        BY <2>6, <3>1, <3>3, ImportedWay
      <4>2. t \in Tables /\ u \in Tables
        BY Sorts
      <4>3. PICK row : row = Row(Imported[e].tags, known) /\ row # NoRow /\ row.tags = Imported[e].tags
        BY NoRowIsNone, RowFields
      <4>4. Holds(Db, t, e, row) /\ Holds(Db, u, e, NoRow)
        BY <2>1, <2>3, <4>1, <4>2, <4>3
      <4>5. TagsDue(Db, t, e, Kept(Imported[e].tags)) /\ TagsDue(Db, u, e, <<>>)
        BY <2>2, <2>3, <4>1, <4>2, <4>3, OnceNone
      <4>6. e \notin hist.lost /\ Due(hist, e, Imported[e].tags) = Kept(Imported[e].tags)
        BY <1>1 DEF Due
      <4>7. WayDue(Db, e, Imported[e].tags, known, hist, t, u, row)
        BY <4>3, <4>4, <4>5, <4>6 DEF WayDue
      <4>8. WayPlaced(Db, e, Imported[e].tags, known, hist)
        BY <4>1, <4>7 DEF WayPlaced
      <4> QED
        BY <1>1, <1>4, <3>1, <4>8
    <3>4. CASE ~Stores(e)
      <4>1. ImportedRows["ways"][e] = NoRow /\ ImportedRows["areas"][e] = NoRow /\ ~Drawn(known)
        BY <2>6, <3>1, <3>2, <3>4, ShortWay
      <4>2. Holds(Db, "ways", e, NoRow) /\ Holds(Db, "areas", e, NoRow)
        BY <2>1, <2>3, <4>1, Sorts
      <4>3. e \in hist.undrawn
        BY <1>1, <2>6, <3>2, <3>4
      <4>4. WayDue(Db, e, Imported[e].tags, known, hist, "ways", "areas", NoRow)
        BY <4>1, <4>2, <4>3 DEF WayDue
      <4>5. WayPlaced(Db, e, Imported[e].tags, known, hist)
        BY <4>4 DEF WayPlaced
      <4> QED
        BY <1>1, <1>4, <3>1, <4>5
    <3> QED
      BY <3>3, <3>4
  <2>7. ASSUME map[e] # NoContent, e \in Nodes PROVE TagsDue(Db, "nodes", e, Due(hist, e, map[e].tags))
    <3>1. InImport(e)
      BY <1>1, <2>7 DEF InImport
    <3>2. ImportedRows["nodes"][e] =
              IF Imported[e].tags # <<>> THEN Row(Imported[e].tags, Projected(Imported[e].at)) ELSE NoRow
      BY <2>7, <3>1, ImportedNode
    <3>3. Db.tags["nodes"][e] = Once(Kept(Imported[e].tags))
      BY <2>2, <3>2, Sorts, NoRowIsNone, RowFields, KeptNone, OnceNone
    <3>4. Due(hist, e, Imported[e].tags) = Kept(Imported[e].tags)
      BY <1>1 DEF Due
    <3> QED
      BY <1>1, <2>3, <3>3, <3>4, Sorts
  <2> QED
    BY <2>4, <2>5, <2>6, <2>7 DEF OwnDue
<1> QED
  BY <1>1, <1>5 DEF BuffersFlushed, EntitiesDue, EntityDue

LEMMA EndFileDue ==
    ASSUME DueInv, EndFile
    PROVE  EntitiesDue' /\ BuffersFlushed'
<1>1. /\ TypeInv /\ status # "dead" /\ map' = map /\ hist' = hist
  BY DEF DueInv, EndFile
<1>2. PICK d : d = FlushAll(Db)
  OBVIOUS
<1>3. Db' = d /\ \A e \in Entities : Keeps(Db, d, e)
  BY <1>1, <1>2, EndFileSets
<1>4. BuffersFlushed'
  BY <1>1, EndFileSets DEF BuffersFlushed
<1>5. ASSUME NEW e \in Entities, Followed(e)' PROVE OwnDue(d, e, map[e], KnownPlaces', hist')
  <2>1. Followed(e)
    BY <1>1, <1>5 DEF Followed, ImportedMultipolygon, InImport
  <2>2. KnownPlaces' = KnownPlaces
    BY <1>1 DEF KnownPlaces, ImportedPlaces, InImport
  <2>3. PICK p, h, b, m : p = KnownPlaces /\ h = hist /\ b = Db /\ m = map[e]
    OBVIOUS
  <2>4. OwnDue(b, e, m, p, h) /\ Keeps(b, d, e)
    BY <1>1, <1>3, <2>1, <2>3 DEF DueInv, EntitiesDue, EntityDue
  <2>5. OwnDue(d, e, m, p, h)
    BY <2>4, KeepsDue
  <2> QED
    BY <1>1, <2>2, <2>3, <2>5
<1>6. ASSUME NEW e \in Entities PROVE EntityDue(e)'
  <2>1. (Followed(e))' => OwnDue(Db', e, map'[e], KnownPlaces', hist')
    BY <1>1, <1>3, <1>5
  <2> QED
    BY <2>1 DEF EntityDue
<1> QED
  BY <1>4, <1>6 DEF EntitiesDue

LEMMA NextDue == DueInv /\ [Next]_vars => DueInv'
<1> SUFFICES ASSUME DueInv, [Next]_vars PROVE DueInv'
  OBVIOUS
<1>1. TypeInv' /\ MapInv'
  BY NextTyped, NextMap DEF DueInv
<1>2. BuffersFlushed' /\ EntitiesDue'
  <2>1. ASSUME NEW n \in Nodes, CreateNode(n) \/ ModifyNode(n) \/ DeleteNode(n)
        PROVE  EntitiesDue' /\ BuffersFlushed'
    BY <2>1, CreateNodeDue, ModifyNodeDue, DeleteNodeDue
  <2>2. ASSUME NEW w \in Ways, CreateWay(w) \/ ModifyWay(w) \/ DeleteWay(w)
        PROVE  EntitiesDue' /\ BuffersFlushed'
    BY <2>2, CreateWayDue, ModifyWayDue, DeleteWayDue
  <2>3. ASSUME NEW r \in Relations, CreateRelation(r) \/ ModifyRelation(r) \/ DeleteRelation(r)
        PROVE  EntitiesDue' /\ BuffersFlushed'
    BY <2>3, CreateRelationDue, ModifyRelationDue, DeleteRelationDue
  <2>4. CASE EndFile
    BY <2>4, EndFileDue
  <2>5. CASE UNCHANGED vars
    <3>1. /\ map' = map /\ hist' = hist /\ status' = status /\ buf' = buf
          /\ rows' = rows /\ tagRows' = tagRows /\ tagBuf' = tagBuf
      BY <2>5 DEF vars, dbVars
    <3>2. Db' = Db /\ KnownPlaces' = KnownPlaces
      BY <3>1 DEF Db, KnownPlaces, ImportedPlaces, InImport
    <3>3. \A e \in Entities : EntityDue(e) => EntityDue(e)'
      <4> SUFFICES ASSUME NEW e \in Entities, EntityDue(e), Followed(e)'
                   PROVE  OwnDue(Db, e, map[e], KnownPlaces, hist)
        BY <3>1, <3>2 DEF EntityDue
      <4>1. Followed(e)
        BY <3>1 DEF Followed, ImportedMultipolygon, InImport
      <4> QED
        BY <4>1 DEF EntityDue
    <3> QED
      BY <3>1, <3>3 DEF DueInv, EntitiesDue, BuffersFlushed
  <2> QED
    BY <2>1, <2>2, <2>3, <2>4, <2>5 DEF Next
<1> QED
  BY <1>1, <1>2 DEF DueInv

(* Between any two changes, whatever is buffered and however the changes    *)
(* are cut into files, what the last change of an entity calls for is in    *)
(* the tables or alone in a buffer, and nothing of its earlier versions is  *)
(* in either (the handlers of DeltaApplier, flush).                         *)
THEOREM EverythingDue == Spec => []DueInv
<1>1. Init => DueInv
  BY InitTyped, InitMap, InitDue DEF DueInv
<1> QED
  BY <1>1, NextDue, PTL DEF Spec

------------------------------------------------------------------------------
(* Once a file is flushed, what was due is there.                           *)

LEMMA FlushedRows ==
    ASSUME DueInv, status = "flushed", NEW t \in Tables, NEW e \in Entities, NEW row,
           Holds(Db, t, e, row), t # "nodes" \/ row = NoRow
    PROVE  rows[t][e] = row
<1>1. t # "nodes" => ~Waits(Db, t, e, row)
  BY DEF DueInv, BuffersFlushed, Waits, Db
<1> QED
  BY <1>1 DEF Holds, Db

LEMMA FlushedTags ==
    ASSUME DueInv, status = "flushed", NEW t \in Tables, NEW e \in Entities, NEW tags,
           TagsDue(Db, t, e, tags)
    PROVE  tagRows[t][e] = Once(tags)
<1>1. ASSUME t \in {"ways", "areas"} PROVE ~TagsWait(Db, BufferOf(t), e, tags)
  <2>1. SUFFICES ASSUME NEW i \in DOMAIN Db.tagBuf[BufferOf(t)] PROVE FALSE
    BY DEF TagsWait
  <2>2. BesideRows(Db) /\ BufferOf(t) \in BufferNames
    BY BufferNamed DEF DueInv, TypeInv, DbTyped
  <2>3. PICK u \in Tables : BufferOf(u) = BufferOf(t) /\ In(Db, u, Db.tagBuf[BufferOf(t)][i].id)
    BY <2>2 DEF BesideRows
  <2>4. u # "nodes"
    BY <1>1, <2>3 DEF BufferOf
  <2>5. buf[u] = <<>>
    BY <2>4 DEF DueInv, BuffersFlushed
  <2> QED
    BY <2>3, <2>5 DEF In, Db
<1> QED
  BY <1>1 DEF TagsDue, Db

LEMMA FlushedDue ==
    ASSUME DueInv, status = "flushed", NEW e \in Entities, Followed(e)
    PROVE  OwnDue(Db, e, map[e], KnownPlaces, hist)
BY DEF DueInv, EntitiesDue, EntityDue

LEMMA FlushedGone ==
    ASSUME DueInv, status = "flushed", NEW e \in Entities, Followed(e), ~Alive(e)
    PROVE  \A t \in OwnTables(e) : rows[t][e] = NoRow /\ tagRows[t][e] = NoTags
<1>1. Gone(Db, e)
  BY FlushedDue DEF OwnDue, Alive
<1>2. \A t \in OwnTables(e) : t \in Tables /\ Holds(Db, t, e, NoRow) /\ TagsDue(Db, t, e, <<>>)
  BY <1>1, TablesOf DEF Gone
<1> QED
  BY <1>2, FlushedRows, FlushedTags, OnceNone

LEMMA FlushedRelation ==
    ASSUME DueInv, status = "flushed", NEW r \in Relations, Followed(r), Alive(r)
    PROVE  /\ rows["relations"][r] # NoRow /\ rows["relations"][r].tags = map[r].tags
           /\ rows["roads"][r] = LET row == rows["relations"][r] IN
                                 IF IsRoad(row.tags) /\ row.geog # <<>> THEN row ELSE NoRow
<1>1. r \in Entities /\ "relations" \in Tables /\ "roads" \in Tables
  BY SortsApart, Sorts
<1>2. RelationDue(Db, r, map[r].tags)
  BY <1>1, FlushedDue DEF OwnDue, Alive
<1>3. PICK row : /\ row # NoRow /\ row.tags = map[r].tags
                 /\ Holds(Db, "relations", r, row)
                 /\ Holds(Db, "roads", r, IF IsRoad(row.tags) /\ row.geog # <<>> THEN row ELSE NoRow)
  BY <1>2 DEF RelationDue
<1>4. rows["relations"][r] = row
      /\ rows["roads"][r] = IF IsRoad(row.tags) /\ row.geog # <<>> THEN row ELSE NoRow
  BY <1>1, <1>3, FlushedRows
<1> QED
  BY <1>3, <1>4

LEMMA FlushedWay ==
    ASSUME DueInv, status = "flushed", NEW w \in Ways, Followed(w), Alive(w)
    PROVE  \E t \in {"ways", "areas"}, u \in {"ways", "areas"} :
              /\ t # u /\ rows[u][w] = NoRow
              /\ (w \notin hist.undrawn /\ rows[t][w] # NoRow)
                    => rows[t][w] = Row(map[w].tags, Known(map[w].refs))
              /\ (w \notin hist.lost /\ Drawn(Known(map[w].refs))) => rows[t][w] # NoRow
              /\ w \in hist.lost => rows[t][w] = NoRow
              /\ w \notin hist.undrawn => tagRows[t][w] = Once(DueTags(w)) /\ tagRows[u][w] = NoTags
<1>1. w \in Entities /\ \A t \in {"ways", "areas"} : t \in Tables /\ t # "nodes"
  BY SortsApart, Sorts
<1>2. PICK known : known = Known(map[w].refs)
  OBVIOUS
<1>3. WayPlaced(Db, w, map[w].tags, known, hist)
  BY <1>1, <1>2, FlushedDue DEF OwnDue, Alive, Known
<1>4. PICK t \in {"ways", "areas"}, u \in {"ways", "areas"} :
         t # u /\ \E row : WayDue(Db, w, map[w].tags, known, hist, t, u, row)
  BY <1>3 DEF WayPlaced
<1>5. PICK row : WayDue(Db, w, map[w].tags, known, hist, t, u, row)
  BY <1>4
<1>6. rows[t][w] = row /\ rows[u][w] = NoRow
  BY <1>1, <1>5, FlushedRows DEF WayDue
<1>a. Due(hist, w, map[w].tags) = DueTags(w)
  BY DEF Due, DueTags
<1>7. w \notin hist.undrawn => tagRows[t][w] = Once(DueTags(w)) /\ tagRows[u][w] = NoTags
  BY <1>1, <1>5, <1>a, FlushedTags, OnceNone DEF WayDue
<1> QED
  BY <1>2, <1>4, <1>5, <1>6, <1>7 DEF WayDue

(* A relation stands in roads exactly when it is a road with a geometry,    *)
(* with the same row as in relations, after any changes (the "Sync roads    *)
(* table" of modifyRelation).                                               *)
THEOREM RoadsFollow == Spec => []RoadsFollowRelations
<1>1. DueInv => RoadsFollowRelations
  <2> SUFFICES ASSUME DueInv, status = "flushed", NEW r \in Relations, Followed(r)
               PROVE  LET row == rows["relations"][r] IN
                      rows["roads"][r] = IF row # NoRow /\ IsRoad(row.tags) /\ row.geog # <<>>
                                         THEN row ELSE NoRow
    BY DEF RoadsFollowRelations
  <2>1. CASE Alive(r)
    BY <2>1, FlushedRelation
  <2>2. CASE ~Alive(r)
    BY <2>2, FlushedGone, SortsApart
  <2> QED
    BY <2>1, <2>2
<1> QED
  BY <1>1, EverythingDue, PTL

(* Relations have their row with their tags, ways are in at most one of two *)
(* tables, in one if the last import or creation could draw them and in     *)
(* none after a modification, and nothing of what is deleted is left (the   *)
(* handlers of DeltaApplier), but for what a later change has overtaken in  *)
(* a buffer.                                                                *)
THEOREM RowsFollow == Spec => []RowsMirror
<1>1. ASSUME DueInv PROVE RelationsMirror
  <2> SUFFICES ASSUME status = "flushed", NEW r \in Relations, Followed(r)
               PROVE  /\ rows["relations"][r] # NoRow <=> Alive(r)
                      /\ Alive(r) => rows["relations"][r].tags = map[r].tags
    BY DEF RelationsMirror
  <2>1. CASE Alive(r)
    BY <1>1, <2>1, FlushedRelation
  <2>2. CASE ~Alive(r)
    BY <1>1, <2>2, FlushedGone, SortsApart
  <2> QED
    BY <2>1, <2>2
<1>2. ASSUME DueInv PROVE WaysMirror
  <2> SUFFICES ASSUME status = "flushed", NEW w \in Ways, Followed(w)
               PROVE  LET stored == {t \in OwnTables(w) : rows[t][w] # NoRow} IN
                      /\ Cardinality(stored) <= 1
                      /\ Alive(w) /\ w \notin hist.lost /\ Drawn(Known(map[w].refs)) => stored # {}
                      /\ Alive(w) /\ w \in hist.lost => stored = {}
    BY DEF WaysMirror
  <2> DEFINE stored == {t \in OwnTables(w) : rows[t][w] # NoRow}
  <2>1. OwnTables(w) = {"ways", "areas"} /\ w \in Entities
    BY SortsApart
  <2>2. stored = {} \/ \E t : stored = {t}
    <3>1. CASE Alive(w)
      <4>1. PICK t \in {"ways", "areas"}, u \in {"ways", "areas"} : t # u /\ rows[u][w] = NoRow
        BY <1>2, <3>1, FlushedWay
      <4>2. stored \subseteq {t}
        BY <2>1, <4>1
      <4> QED
        BY <4>2
    <3>2. CASE ~Alive(w)
      BY <1>2, <2>1, <3>2, FlushedGone
    <3> QED
      BY <3>1, <3>2
  <2>3. Cardinality(stored) <= 1
    <3> HIDE DEF stored
    <3>1. CASE stored = {}
      <4>1. Cardinality(stored) = 0
        BY <3>1, FS_EmptySet
      <4> QED
        BY <4>1
    <3>2. CASE \E t : stored = {t}
      <4>1. Cardinality(stored) = 1
        BY <3>2, FS_Singleton
      <4> QED
        BY <4>1
    <3> QED
      BY <2>2, <3>1, <3>2
  <2>4. ASSUME Alive(w), w \notin hist.lost, Drawn(Known(map[w].refs)) PROVE stored # {}
    <3>1. PICK t \in {"ways", "areas"} : rows[t][w] # NoRow
      BY <1>2, <2>4, FlushedWay
    <3> QED
      BY <2>1, <3>1
  <2>5. ASSUME Alive(w), w \in hist.lost PROVE stored = {}
    <3>1. PICK t \in {"ways", "areas"}, u \in {"ways", "areas"} :
             t # u /\ rows[u][w] = NoRow /\ rows[t][w] = NoRow
      BY <1>2, <2>5, FlushedWay
    <3> QED
      BY <2>1, <3>1
  <2> QED
    BY <2>3, <2>4, <2>5
<1>3. ASSUME DueInv PROVE DeletedGone
  BY <1>3, FlushedGone DEF DeletedGone
<1>4. DueInv => RowsMirror
  BY <1>1, <1>2, <1>3 DEF RowsMirror
<1> QED
  BY <1>4, EverythingDue, PTL

(* Every tag due to a way is stored once and no other, in one of its        *)
(* tables, and so it is for the nodes of the import: all its tags if its    *)
(* last change was a modification, else those that are alphanumeric         *)
(* (addTags, addWayTags, addAreaTags, diffTags, deleteEntity).              *)
THEOREM TagsFollow == Spec => []TagsMirror
<1>1. DueInv => TagsMirror
  <2> SUFFICES ASSUME DueInv, status = "flushed", NEW e \in Nodes \cup Ways,
                      Alive(e), Followed(e), e \notin hist.undrawn, e \in Nodes => e \notin hist.born
               PROVE  \E t \in OwnTables(e) : /\ tagRows[t][e] = Once(DueTags(e))
                                              /\ \A u \in OwnTables(e) \ {t} : tagRows[u][e] = NoTags
    BY DEF TagsMirror
  <2>1. CASE e \in Nodes
    <3>1. e \in Entities /\ OwnTables(e) = {"nodes"} /\ "nodes" \in Tables
      BY <2>1, SortsApart, Sorts
    <3>2. TagsDue(Db, "nodes", e, DueTags(e))
      BY <2>1, <3>1, FlushedDue DEF OwnDue, Alive, Due, DueTags
    <3>3. tagRows["nodes"][e] = Once(DueTags(e))
      BY <3>1, <3>2, FlushedTags
    <3> QED
      BY <3>1, <3>3
  <2>2. CASE e \in Ways
    <3>1. OwnTables(e) = {"ways", "areas"}
      BY <2>2, SortsApart
    <3>2. PICK t \in {"ways", "areas"}, u \in {"ways", "areas"} :
             t # u /\ tagRows[t][e] = Once(DueTags(e)) /\ tagRows[u][e] = NoTags
      BY <2>2, FlushedWay
    <3>3. t \in OwnTables(e) /\ OwnTables(e) \ {t} = {u}
      BY <3>1, <3>2
    <3>4. \A v \in OwnTables(e) \ {t} : tagRows[v][e] = NoTags
      BY <3>2, <3>3
    <3> QED
      BY <3>2, <3>3, <3>4
  <2> QED
    BY <2>1, <2>2
<1> QED
  BY <1>1, EverythingDue, PTL

(* A way is drawn through the nodes of its last version, in their order,    *)
(* where the import put them, and through no node that a change created     *)
(* (buildWayGeom, OSMMMap::insert, OSMMMap::remove).                        *)
THEOREM WaysDrawn == Spec => []WaysDrawnFromImport
<1>1. DueInv => WaysDrawnFromImport
  <2> SUFFICES ASSUME DueInv, status = "flushed", NEW w \in Ways, Alive(w), Followed(w),
                      w \notin hist.undrawn, NEW v \in OwnTables(w), rows[v][w] # NoRow
               PROVE  rows[v][w] = Row(map[w].tags, Known(map[w].refs))
    BY DEF WaysDrawnFromImport
  <2>1. v \in {"ways", "areas"}
    BY SortsApart
  <2>2. PICK known : known = Known(map[w].refs)
    OBVIOUS
  <2>3. PICK t \in {"ways", "areas"}, u \in {"ways", "areas"} :
           /\ t # u /\ rows[u][w] = NoRow
           /\ rows[t][w] # NoRow => rows[t][w] = Row(map[w].tags, known)
    BY <2>2, FlushedWay
  <2>4. v = t
    BY <2>1, <2>3
  <2> QED
    BY <2>2, <2>3, <2>4
<1> QED
  BY <1>1, EverythingDue, PTL

==============================================================================
