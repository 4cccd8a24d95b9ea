---------------------------- MODULE AlgorithmProofs ----------------------------
(***************************************************************************)
(* The sequential algorithms are right for inputs of any size: what        *)
(* Algorithms checks on bounded inputs holds for every set of them.  Each  *)
(* property is a statement about one call, so that the invariant is only   *)
(* that the input is one of its part; the work is in lemmas about what the *)
(* recursive functions compute, proved by induction.                       *)
(***************************************************************************)
EXTENDS Algorithms, FiniteSetTheorems, SequenceTheorems, WellFoundedInduction, TLAPS

------------------------------------------------------------------------------
(* Induction.  The theorems of the library take a predicate as parameter;  *)
(* these take a set, the numbers for which the predicate holds.            *)

(* A set of naturals has a least element. *)
LEMMA LeastNatural ==
    ASSUME NEW T \in SUBSET Nat, T # {}
    PROVE  \E n \in T : \A m \in T : n <= m
  <1> DEFINE R == OpToRel(<, Nat)
  <1>1. IsWellFoundedOn(R, Nat)
    BY NatLessThanWellFounded
  <1>2. R = {ss \in Nat \X Nat : ss[1] < ss[2]}
    BY Zenon DEF OpToRel
  <1> HIDE DEF R
  <1>3. PICK n \in T : \A m \in T : ~(<<m, n>> \in R)
    BY <1>1, WFMin
  <1>4. ASSUME NEW m \in T
        PROVE  n <= m
    <2>1. <<m, n>> \in Nat \X Nat
      OBVIOUS
    <2>2. ~(m < n)
      BY <1>2, <1>3, <2>1
    <2>3. QED
      BY <2>2
  <1>5. QED
    BY <1>4

(* Induction up to a bound. *)
LEMMA UpTo ==
    ASSUME NEW N \in Nat, NEW S, 0 \in S,
           \A n \in 0 .. N - 1 : n \in S => n + 1 \in S
    PROVE  \A n \in 0 .. N : n \in S
  <1> DEFINE T == {n \in 0 .. N : n \notin S}
  <1>1. SUFFICES ASSUME T # {} PROVE FALSE
    OBVIOUS
  <1>2. T \in SUBSET Nat
    OBVIOUS
  <1>3. PICK n \in T : \A m \in T : n <= m
    BY <1>1, <1>2, LeastNatural
  <1>4. n # 0 /\ n - 1 \in 0 .. N - 1 /\ n - 1 \notin T /\ n - 1 + 1 = n
    BY <1>3
  <1>5. n - 1 \in S
    BY <1>4
  <1>6. QED
    BY <1>4, <1>5

(* A recursive function that makes each value of the one before exists.    *)
Recurs(g, N, x, F) == g[0] = x /\ \A i \in 1 .. N : g[i] = F[i][g[i - 1]]

(* Such a function exists for any steps on a set. *)
LEMMA Recursion ==
    ASSUME NEW N \in Nat, NEW D, NEW x \in D, NEW F \in [1 .. N -> [D -> D]]
    PROVE  \E g \in [0 .. N -> D] : Recurs(g, N, x, F)
  <1> DEFINE Is(g, n) == /\ g \in [0 .. n -> D]
                         /\ g[0] = x
                         /\ \A i \in 1 .. n : g[i] = F[i][g[i - 1]]
             S == {n \in 0 .. N : \E g : Is(g, n)}
  <1>1. 0 \in S
    <2>1. Is([i \in 0 .. 0 |-> x], 0)
      OBVIOUS
    <2> HIDE DEF Is
    <2>2. QED
      BY <2>1
  <1>2. ASSUME NEW n \in 0 .. N - 1, n \in S
        PROVE  n + 1 \in S
    <2>1. PICK g : Is(g, n)
      BY <1>2
    <2> DEFINE h == [i \in 0 .. n + 1 |-> IF i \in 0 .. n THEN g[i] ELSE F[n + 1][g[n]]]
    <2>2. n + 1 \in 1 .. N /\ n + 1 \in 0 .. N /\ g[n] \in D
      BY <2>1
    <2>3. F[n + 1][g[n]] \in D
      BY <2>2
    <2>4. h \in [0 .. n + 1 -> D]
      BY <2>1, <2>3
    <2>5. h[0] = x
      BY <2>1
    <2>6. ASSUME NEW i \in 1 .. n + 1
          PROVE  h[i] = F[i][h[i - 1]]
      <3>1. CASE i \in 1 .. n
        <4>1. i \in 0 .. n /\ i - 1 \in 0 .. n
          BY <3>1
        <4>2. QED
          BY <2>1, <3>1, <4>1
      <3>2. CASE i = n + 1
        BY <3>2
      <3>3. QED
        BY <3>1, <3>2
    <2>7. Is(h, n + 1)
      BY <2>4, <2>5, <2>6
    <2> HIDE DEF Is
    <2>8. QED
      BY <2>2, <2>7
  <1>3. N \in S
    <2>1. N \in 0 .. N
      OBVIOUS
    <2> HIDE DEF S
    <2>2. QED
      BY <1>1, <1>2, <2>1, UpTo
  <1>4. QED
    BY <1>3 DEF Recurs

------------------------------------------------------------------------------
(* Flattened sequences. *)

(* What FlattenSeq gives of the first elements of a function, one more at  *)
(* a time: the function it is defined by.                                  *)
Flattens(f, N, seqs) ==
    /\ f[0] = <<>>
    /\ \A i \in 0 .. N - 1 : f[i + 1] = f[i] \o seqs[i + 1]
    /\ \A i \in 0 .. N : FlattenSeq([j \in 1 .. i |-> seqs[j]]) = f[i]

(* FlattenSeq is that function. *)
LEMMA Flattened ==
    ASSUME NEW S, NEW N \in Nat, NEW seqs \in [1 .. N -> Seq(S)]
    PROVE  \E f \in [0 .. N -> Seq(S)] : Flattens(f, N, seqs)
  <1> DEFINE F == [i \in 1 .. N |-> [s \in Seq(S) |-> s \o seqs[i]]]
  <1>1. <<>> \in Seq(S) /\ F \in [1 .. N -> [Seq(S) -> Seq(S)]]
    OBVIOUS
  <1> HIDE DEF F
  <1>2. PICK f \in [0 .. N -> Seq(S)] : Recurs(f, N, <<>>, F)
    BY <1>1, Recursion
  <1>3. /\ f[0] = <<>>
        /\ \A i \in 0 .. N - 1 : f[i + 1] = f[i] \o seqs[i + 1]
    <2>1. f[0] = <<>> /\ \A i \in 1 .. N : f[i] = F[i][f[i - 1]]
      BY <1>2 DEF Recurs
    <2>2. ASSUME NEW i \in 0 .. N - 1
          PROVE  f[i + 1] = f[i] \o seqs[i + 1]
      <3>1. i + 1 \in 1 .. N /\ i + 1 - 1 = i /\ f[i] \in Seq(S)
        OBVIOUS
      <3>2. f[i + 1] = F[i + 1][f[i]]
        BY <2>1, <3>1
      <3>3. QED
        BY <3>1, <3>2 DEF F
    <2>3. QED
      BY <2>1, <2>2
  <1>4. ASSUME NEW n \in 0 .. N
        PROVE  FlattenSeq([j \in 1 .. n |-> seqs[j]]) = f[n]
    <2> DEFINE these == [j \in 1 .. n |-> seqs[j]]
               Is(g) == g = [i \in 1 .. n |-> IF i = 1 THEN these[i] ELSE g[i - 1] \o these[i]]
               flat == CHOOSE g : Is(g)
    <2>1. these \in Seq(Seq(S)) /\ Len(these) = n /\ \A j \in 1 .. n : these[j] = seqs[j]
      OBVIOUS
    <2>2. CASE n = 0
      <3>1. these = <<>>
        BY <2>2
      <3>2. FlattenSeq(these) = these
        BY <2>1, <2>2 DEF FlattenSeq
      <3>3. QED
        BY <1>3, <2>2, <3>1, <3>2
    <2>3. CASE n # 0
      <3>1. FlattenSeq(these) = flat[n]
        BY <2>1, <2>3, Zenon DEF FlattenSeq
      <3> DEFINE g == [i \in 1 .. n |-> f[i]]
                 h == [i \in 1 .. n |-> IF i = 1 THEN these[i] ELSE g[i - 1] \o these[i]]
      <3>2. ASSUME NEW i \in 1 .. n
            PROVE  g[i] = h[i]
        <4>1. i \in 1 .. N /\ seqs[i] \in Seq(S) /\ these[i] = seqs[i] /\ g[i] = f[i]
          BY <2>1
        <4>2. CASE i = 1
          <5>1. 0 \in 0 .. N - 1 /\ 0 + 1 = 1
            BY <4>1, <4>2
          <5>2. f[1] = f[0] \o seqs[1]
            BY <1>3, <5>1
          <5>3. QED
            BY <1>3, <4>1, <4>2, <5>2
        <4>3. CASE i # 1
          <5>1. i - 1 \in 1 .. n
            BY <4>3
          <5>2. g[i - 1] = f[i - 1] /\ h[i] = g[i - 1] \o these[i]
            BY <4>3, <5>1
          <5> HIDE DEF g, h, these
          <5>3. i - 1 \in 0 .. N - 1 /\ i - 1 + 1 = i
            BY <4>1, <4>3
          <5>4. f[i - 1 + 1] = f[i - 1] \o seqs[i - 1 + 1]
            BY <1>3, <5>3
          <5>5. QED
            BY <4>1, <5>2, <5>3, <5>4
        <4>4. QED
          BY <4>2, <4>3
      <3>3. g = h
        <4>1. g = [i \in 1 .. n |-> g[i]] /\ h = [i \in 1 .. n |-> h[i]]
          OBVIOUS
        <4> HIDE DEF g, h
        <4>2. QED
          BY <3>2, <4>1
      <3>4. Is(g)
        BY Zenon, <3>3
      <3>5. Is(flat)
        <4> HIDE DEF Is, g
        <4>1. QED
          BY <3>4
      <3> DEFINE T == {i \in 0 .. n : i # 0 => flat[i] = f[i]}
      <3>6. 0 \in T
        OBVIOUS
      <3>7. ASSUME NEW i \in 0 .. n - 1, i \in T
            PROVE  i + 1 \in T
        <4>1. i + 1 \in 1 .. n /\ i \in 0 .. N - 1 /\ i + 1 - 1 = i /\ i + 1 \in 1 .. N
          OBVIOUS
        <4> DEFINE r == [j \in 1 .. n |-> IF j = 1 THEN these[j] ELSE flat[j - 1] \o these[j]]
        <4>2. flat = r
          BY Zenon, <3>5
        <4>3. r[i + 1] = IF i + 1 = 1 THEN these[i + 1] ELSE flat[i] \o these[i + 1]
          BY <4>1
        <4>4. f[i + 1] = f[i] \o seqs[i + 1]
          BY <1>3, <4>1
        <4>8. these[i + 1] = seqs[i + 1] /\ seqs[i + 1] \in Seq(S)
          BY <2>1, <4>1
        <4> HIDE DEF r, flat, these
        <4>5. flat[i + 1] = r[i + 1]
          BY <4>2
        <4>6. r[i + 1] = f[i + 1]
          <5> HIDE DEF r, flat, these
          <5>1. CASE i = 0
            <6>1. <<>> \o seqs[i + 1] = seqs[i + 1]
              BY <4>8
            <6>2. f[i + 1] = seqs[i + 1]
              BY <1>3, <4>4, <5>1, <6>1
            <6>3. QED
              BY <4>3, <4>8, <5>1, <6>2
          <5>2. CASE i # 0
            <6>1. i + 1 # 1
              BY <5>2
            <6>2. flat[i] = f[i]
              BY <3>7, <5>2
            <6>3. QED
              BY <4>3, <4>4, <4>8, <6>1, <6>2
          <5>3. QED
            BY <5>1, <5>2
        <4> HIDE DEF r, flat, these
        <4>7. QED
          BY <4>1, <4>5, <4>6
      <3>8. n \in T
        <4>1. n \in Nat /\ n \in 0 .. n
          OBVIOUS
        <4> HIDE DEF T
        <4>2. QED
          BY <3>6, <3>7, <4>1, UpTo
      <3>9. QED
        BY <2>3, <3>1, <3>8
    <2>4. QED
      BY <2>2, <2>3
  <1>5. QED
    BY <1>3, <1>4 DEF Flattens

(* Each part has an input of its own. *)
Inputs(p) ==
    CASE p = "rings" -> RingInputs
      [] p = "relation" -> RelationInputs
      [] p = "way" -> WayInputs
      [] p = "block" -> BlockInputs
      [] p = "file" -> FileInputs
      [] p = "document" -> DocumentInputs
      [] OTHER -> {<<>>}
HasInput == input \in Inputs(part)

(* The input is one of those of its part. *)
LEMMA InputGiven == Spec => []HasInput
  <1>1. Init => HasInput
    BY DEF Init, HasInput, Inputs
  <1>2. HasInput /\ [Next]_vars => HasInput'
    BY DEF HasInput, Inputs, Next, vars, Given, Stitch, Assemble, Classify, DecodeBlock,
           ReadFile, Parse, Idle
  <1>3. QED
    BY <1>1, <1>2, PTL DEF Spec

------------------------------------------------------------------------------
(* Ways *)

(* isArea against the comment above it, for any tags. *)
LEMMA AreaDifference ==
    ASSUME NEW closed \in BOOLEAN, NEW tags
    PROVE  isArea(closed, tags) # Documented(closed, tags)
             <=> /\ closed /\ ~Has(tags, "area", "yes") /\ ~Has(tags, "area", "no")
                 /\ Linear(tags) /\ AreaLike(tags)
  <1> DEFINE yes == Has(tags, "area", "yes")
             no == Has(tags, "area", "no")
  <1>1. yes \in BOOLEAN /\ no \in BOOLEAN /\ ~(yes /\ no)
    BY DEF Has
  <1>2. Linear(tags) \in BOOLEAN /\ AreaLike(tags) \in BOOLEAN
    BY DEF Linear, AreaLike
  <1>3. isArea(closed, tags) = (closed /\ (yes \/ (~no /\ ~Linear(tags) /\ AreaLike(tags))))
    BY DEF isArea
  <1>4. Documented(closed, tags) = (closed /\ (yes \/ (~no /\ AreaLike(tags))))
    BY DEF Documented
  <1> HIDE DEF yes, no
  <1>5. QED
    BY <1>1, <1>2, <1>3, <1>4 DEF yes, no

(* isArea decides as the comment above it says, for ways with any tags,    *)
(* but for a closed way that is not tagged explicitly and has tags both    *)
(* for lines and for areas (isArea).                                       *)
THEOREM AreasDecided == Spec => []AreasAsDocumented
  <1>1. HasInput => AreasAsDocumented
    <2>1. SUFFICES ASSUME input \in WayInputs
                   PROVE  isArea(input.closed, input.tags) # Documented(input.closed, input.tags)
                            <=> /\ input.closed /\ ~Has(input.tags, "area", "yes")
                                /\ ~Has(input.tags, "area", "no")
                                /\ Linear(input.tags) /\ AreaLike(input.tags)
      BY DEF HasInput, Inputs, AreasAsDocumented
    <2>2. input.closed \in BOOLEAN
      BY <2>1, InputsAssumption
    <2>3. QED
      BY <2>2, AreaDifference
  <1>2. QED
    BY <1>1, InputGiven, PTL

------------------------------------------------------------------------------
(* Blocks: deltas, tags, groups *)

(* Sequences that flatten give a sequence. *)
LEMMA FlattenType ==
    ASSUME NEW S, NEW seqs \in Seq(Seq(S))
    PROVE  FlattenSeq(seqs) \in Seq(S)
  <1> DEFINE N == Len(seqs)
  <1>1. N \in Nat /\ seqs \in [1 .. N -> Seq(S)] /\ N \in 0 .. N
    OBVIOUS
  <1>2. seqs = [j \in 1 .. N |-> seqs[j]]
    BY <1>1
  <1> HIDE DEF N
  <1>3. PICK f \in [0 .. N -> Seq(S)] : Flattens(f, N, seqs)
    BY <1>1, Flattened
  <1>4. FlattenSeq([j \in 1 .. N |-> seqs[j]]) = f[N]
    BY <1>1, <1>3 DEF Flattens
  <1>5. QED
    BY <1>1, <1>2, <1>3, <1>4

(* Each partial sum is the one before and one more. *)
LEMMA SumsStep ==
    ASSUME NEW d \in Seq(Int)
    PROVE  \E g \in [0 .. Len(d) -> Int] :
              /\ g[0] = 0
              /\ \A i \in 0 .. Len(d) - 1 : g[i + 1] = g[i] + d[i + 1]
              /\ Sums(d) = [i \in DOMAIN d |-> g[i]]
  <1> DEFINE N == Len(d)
             F == [i \in 1 .. N |-> [x \in Int |-> x + d[i]]]
             Is(g) == g = [i \in 0 .. N |-> IF i = 0 THEN 0 ELSE g[i - 1] + d[i]]
             sum == CHOOSE g : Is(g)
  <1>1. N \in Nat /\ 0 \in Int /\ F \in [1 .. N -> [Int -> Int]]
    OBVIOUS
  <1>2. PICK g \in [0 .. N -> Int] : Recurs(g, N, 0, F)
    <2> HIDE DEF N, F
    <2>1. QED
      BY <1>1, Recursion
  <1>3. Is(g)
    <2> DEFINE h == [i \in 0 .. N |-> IF i = 0 THEN 0 ELSE g[i - 1] + d[i]]
    <2>1. ASSUME NEW i \in 0 .. N
          PROVE  g[i] = h[i]
      <3>1. CASE i = 0
        BY <1>2, <3>1 DEF Recurs
      <3>2. CASE i # 0
        <4>1. i \in 1 .. N /\ i - 1 \in 0 .. N
          BY <3>2
        <4>2. g[i] = F[i][g[i - 1]]
          BY <1>2, <4>1 DEF Recurs
        <4>3. QED
          BY <3>2, <4>1, <4>2
      <3>3. QED
        BY <3>1, <3>2
    <2>2. g = [i \in 0 .. N |-> g[i]] /\ h = [i \in 0 .. N |-> h[i]]
      OBVIOUS
    <2> HIDE DEF h
    <2>3. g = h
      BY <2>1, <2>2
    <2>4. QED
      BY <2>3 DEF h
  <1>4. Is(sum)
    <2> HIDE DEF Is
    <2>1. QED
      BY <1>3
  <1>5. Sums(d) = [i \in DOMAIN d |-> sum[i]]
    BY Zenon DEF Sums
  <1> HIDE DEF sum
  <1>6. sum[0] = 0 /\ \A i \in 0 .. N - 1 : sum[i + 1] = sum[i] + d[i + 1]
    <2>1. sum[0] = 0
      BY <1>4
    <2>2. ASSUME NEW i \in 0 .. N - 1
          PROVE  sum[i + 1] = sum[i] + d[i + 1]
      <3>1. i + 1 \in 0 .. N /\ i + 1 # 0 /\ i + 1 - 1 = i
        OBVIOUS
      <3>2. QED
        BY <1>4, <3>1
    <2>3. QED
      BY <2>1, <2>2
  <1>7. sum \in [0 .. N -> Int]
    <2> DEFINE T == {i \in 0 .. N : sum[i] \in Int}
    <2>1. 0 \in T
      BY <1>6
    <2>2. ASSUME NEW i \in 0 .. N - 1, i \in T
          PROVE  i + 1 \in T
      BY <1>6, <2>2
    <2>3. \A i \in 0 .. N : i \in T
      <3> HIDE DEF T, N
      <3>1. QED
        BY <1>1, <2>1, <2>2, UpTo
    <2>4. sum = [i \in 0 .. N |-> sum[i]]
      <3> DEFINE h == [i \in 0 .. N |-> IF i = 0 THEN 0 ELSE sum[i - 1] + d[i]]
      <3>1. sum = h /\ h = [i \in 0 .. N |-> h[i]]
        BY <1>4
      <3> HIDE DEF h
      <3>2. QED
        BY <3>1
    <2>5. QED
      BY <2>3, <2>4
  <1>8. QED
    BY <1>5, <1>6, <1>7

(* The sums of the deltas are the values. *)
LEMMA SumsOfDeltas ==
    ASSUME NEW values \in Seq(Int)
    PROVE  Sums(Deltas(values)) = values
  <1> DEFINE d == Deltas(values)
             N == Len(values)
  <1>1. /\ d \in Seq(Int) /\ Len(d) = N /\ N \in Nat /\ DOMAIN d = 1 .. N
        /\ N > 0 => d[1] = values[1]
        /\ \A i \in 1 .. N - 1 : d[i + 1] = values[i + 1] - values[i]
    <2>1. N \in Nat /\ DOMAIN values = 1 .. N /\ \A i \in 1 .. N : values[i] \in Int
      OBVIOUS
    <2> HIDE DEF N
    <2>2. /\ d = [i \in 1 .. N |-> IF i = 1 THEN values[1] ELSE values[i] - values[i - 1]]
          /\ DOMAIN d = 1 .. N
      BY <2>1 DEF Deltas
    <2>3. ASSUME NEW i \in 1 .. N
          PROVE  /\ d[i] = IF i = 1 THEN values[1] ELSE values[i] - values[i - 1]
                 /\ d[i] \in Int
      <3>1. i = 1 \/ i - 1 \in 1 .. N
        BY <2>1
      <3>2. QED
        BY <2>1, <2>2, <3>1
    <2>4. d \in Seq(Int) /\ Len(d) = N
      <3>1. d \in [1 .. N -> Int]
        BY <2>2, <2>3
      <3> HIDE DEF d
      <3>2. QED
        BY <2>1, <3>1
    <2>5. ASSUME NEW i \in 1 .. N - 1
          PROVE  d[i + 1] = values[i + 1] - values[i]
      <3>1. i + 1 \in 1 .. N /\ i + 1 # 1 /\ i + 1 - 1 = i
        BY <2>1
      <3> HIDE DEF d
      <3>2. QED
        BY <2>3, <3>1
    <2>6. N > 0 => d[1] = values[1]
      BY <2>1, <2>3
    <2> HIDE DEF d
    <2>7. QED
      BY <2>1, <2>2, <2>4, <2>5, <2>6
  <1> HIDE DEF d
  <1>2. PICK g \in [0 .. N -> Int] :
              /\ g[0] = 0
              /\ \A i \in 0 .. N - 1 : g[i + 1] = g[i] + d[i + 1]
              /\ Sums(d) = [i \in 1 .. N |-> g[i]]
    <2>1. d \in Seq(Int) /\ N = Len(d) /\ DOMAIN d = 1 .. N
      BY <1>1
    <2> HIDE DEF d, N
    <2>2. \E g \in [0 .. Len(d) -> Int] :
             /\ g[0] = 0
             /\ \A i \in 0 .. Len(d) - 1 : g[i + 1] = g[i] + d[i + 1]
             /\ Sums(d) = [i \in DOMAIN d |-> g[i]]
      BY <2>1, SumsStep
    <2>3. QED
      BY <2>1, <2>2
  <1> DEFINE T == {i \in 0 .. N : i > 0 => g[i] = values[i]}
  <1>3. 0 \in T
    BY <1>1
  <1>4. ASSUME NEW i \in 0 .. N - 1, i \in T
        PROVE  i + 1 \in T
    <2>1. CASE i = 0
      BY <1>1, <1>2, <2>1
    <2>2. CASE i > 0
      <3>1. i \in 1 .. N - 1 /\ g[i] = values[i] /\ i + 1 \in 1 .. N
        BY <1>4, <2>2
      <3>2. QED
        BY <1>1, <1>2, <3>1
    <2>3. QED
      BY <2>1, <2>2
  <1>5. \A i \in 0 .. N : i \in T
    <2> HIDE DEF T, N
    <2>1. QED
      BY <1>1, <1>3, <1>4, UpTo
  <1>6. values = [i \in 1 .. N |-> values[i]]
    OBVIOUS
  <1>7. \A i \in 1 .. N : g[i] = values[i]
    BY <1>5
  <1>8. QED
    BY <1>2, <1>6, <1>7 DEF d

(* The least of a set of naturals. *)
LEMMA MinNatural ==
    ASSUME NEW T \in SUBSET Nat, T # {}
    PROVE  Min(T) \in T /\ \A m \in T : Min(T) <= m
  BY LeastNatural DEF Min

(* Two sequences one behind the other. *)
Joins(r, s, t) ==
    /\ Len(r) = Len(s) + Len(t)
    /\ \A k \in 1 .. Len(s) : r[k] = s[k]
    /\ \A k \in 1 .. Len(t) : r[Len(s) + k] = t[k]

(* Concatenation joins. *)
LEMMA Concatenated ==
    ASSUME NEW S, NEW s \in Seq(S), NEW t \in Seq(S)
    PROVE  s \o t \in Seq(S) /\ Joins(s \o t, s, t)
  BY DEF Joins

(* What is flattened first stays in front. *)
Leads(s, t) == Len(s) <= Len(t) /\ \A k \in 1 .. Len(s) : t[k] = s[k]

(* What is flattened up to an element is a first part of the whole. *)
LEMMA FlattenedPrefix ==
    ASSUME NEW S, NEW N \in Nat, NEW seqs \in [1 .. N -> Seq(S)],
           NEW f \in [0 .. N -> Seq(S)], Flattens(f, N, seqs), NEW i \in 0 .. N
    PROVE  Leads(f[i], f[N])
  <1> DEFINE In(n) == Len(f[i]) <= Len(f[n]) /\ \A k \in 1 .. Len(f[i]) : f[n][k] = f[i][k]
             T == {n \in 0 .. N : i <= n => In(n)}
  <1>1. 0 \in T
    OBVIOUS
  <1>2. ASSUME NEW n \in 0 .. N - 1, n \in T
        PROVE  n + 1 \in T
    <2>1. n + 1 \in 0 .. N /\ n + 1 \in 1 .. N
      OBVIOUS
    <2>2. f[n + 1] = f[n] \o seqs[n + 1]
      BY DEF Flattens
    <2>3. f[n] \in Seq(S) /\ seqs[n + 1] \in Seq(S) /\ f[i] \in Seq(S)
      BY <2>1
    <2>4. CASE i <= n
      <3> DEFINE a == f[n]
                 b == f[n + 1]
                 c == f[i]
                 t == seqs[n + 1]
      <3>1. Len(c) <= Len(a) /\ \A k \in 1 .. Len(c) : a[k] = c[k]
        BY <1>2, <2>4
      <3>2. b = a \o t /\ a \in Seq(S) /\ t \in Seq(S) /\ c \in Seq(S)
        BY <2>2, <2>3
      <3> HIDE DEF a, b, c, t
      <3>3. Len(b) = Len(a) + Len(t) /\ \A k \in 1 .. Len(a) : b[k] = a[k]
        BY <3>2, Concatenated DEF Joins
      <3>4. Len(c) \in Nat /\ Len(a) \in Nat /\ Len(t) \in Nat
        BY <3>2
      <3>5. Len(c) <= Len(b) /\ \A k \in 1 .. Len(c) : b[k] = c[k]
        BY <3>1, <3>3, <3>4
      <3>6. QED
        BY <2>1, <3>5 DEF b, c
    <2>5. CASE i = n + 1
      BY <2>1, <2>5
    <2>6. CASE i > n + 1
      BY <2>1, <2>6
    <2>7. QED
      BY <2>4, <2>5, <2>6
  <1>3. \A n \in 0 .. N : n \in T
    <2> HIDE DEF T
    <2>1. QED
      BY <1>1, <1>2, UpTo
  <1>4. QED
    BY <1>3 DEF Leads

(* Keys and values take turns. *)
LEMMA KeysAndValues ==
    ASSUME NEW tags \in TagLists
    PROVE  /\ KeysVals(tags) \in Seq(Strings)
           /\ Len(KeysVals(tags)) = 2 * Len(tags)
           /\ \A m \in 0 .. Len(tags) - 1 : /\ KeysVals(tags)[2 * m + 1] = tags[m + 1][1]
                                            /\ KeysVals(tags)[2 * m + 2] = tags[m + 1][2]
  <1> DEFINE N == Len(tags)
             seqs == [j \in 1 .. N |-> <<tags[j][1], tags[j][2]>>]
  <1>1. /\ N \in Nat /\ DOMAIN tags = 1 .. N
        /\ \A j \in 1 .. N : tags[j][1] \in Strings /\ tags[j][2] \in Strings
    BY DEF TagLists
  <1>2. seqs \in [1 .. N -> Seq(Strings)] /\ seqs = [j \in 1 .. N |-> seqs[j]]
    <2>1. ASSUME NEW j \in 1 .. N
          PROVE  <<tags[j][1], tags[j][2]>> \in Seq(Strings)
      BY <1>1
    <2>2. QED
      BY <2>1
  <1>3. \A j \in 1 .. N : seqs[j] = <<tags[j][1], tags[j][2]>>
    OBVIOUS
  <1>4. KeysVals(tags) = FlattenSeq(seqs)
    BY <1>1 DEF KeysVals
  <1> HIDE DEF N, seqs
  <1>5. PICK f \in [0 .. N -> Seq(Strings)] : Flattens(f, N, seqs)
    BY <1>1, <1>2, Flattened
  <1>6. KeysVals(tags) = f[N]
    BY <1>1, <1>2, <1>4, <1>5 DEF Flattens
  <1> DEFINE T == {i \in 0 .. N : /\ Len(f[i]) = 2 * i
                                  /\ \A m \in 0 .. i - 1 : /\ f[i][2 * m + 1] = tags[m + 1][1]
                                                           /\ f[i][2 * m + 2] = tags[m + 1][2]}
  <1>7. 0 \in T
    BY <1>1, <1>5 DEF Flattens
  <1>8. ASSUME NEW i \in 0 .. N - 1, i \in T
        PROVE  i + 1 \in T
    <2>1. i + 1 \in 1 .. N /\ i + 1 \in 0 .. N
      BY <1>1
    <2>2. f[i + 1] = f[i] \o <<tags[i + 1][1], tags[i + 1][2]>>
      BY <1>3, <1>5, <2>1 DEF Flattens
    <2>3. f[i] \in Seq(Strings) /\ Len(f[i]) = 2 * i /\ <<tags[i + 1][1], tags[i + 1][2]>> \in Seq(Strings)
      BY <1>1, <1>8, <2>1
    <2> DEFINE c == <<tags[i + 1][1], tags[i + 1][2]>>
    <2>7. Len(c) = 2 /\ c[1] = tags[i + 1][1] /\ c[2] = tags[i + 1][2] /\ c \in Seq(Strings)
      BY <2>3
    <2> HIDE DEF c
    <2>8. /\ Len(f[i + 1]) = 2 * i + 2
          /\ \A k \in 1 .. 2 * i : f[i + 1][k] = f[i][k]
          /\ \A k \in 1 .. 2 : f[i + 1][2 * i + k] = c[k]
      <3> DEFINE a == f[i]
                 b == f[i + 1]
      <3>1. b = a \o c /\ a \in Seq(Strings) /\ Len(a) = 2 * i
        BY <2>2, <2>3 DEF c
      <3> HIDE DEF a, b
      <3>2. /\ Len(b) = 2 * i + 2
            /\ \A k \in 1 .. 2 * i : b[k] = a[k]
            /\ \A k \in 1 .. 2 : b[2 * i + k] = c[k]
        <4>1. Joins(b, a, c)
          BY <2>7, <3>1, Concatenated
        <4>2. QED
          BY <2>7, <3>1, <4>1 DEF Joins
      <3>3. QED
        BY <3>2 DEF a, b
    <2>4. Len(f[i + 1]) = 2 * (i + 1)
      BY <2>8
    <2>5. ASSUME NEW m \in 0 .. i
          PROVE  f[i + 1][2 * m + 1] = tags[m + 1][1] /\ f[i + 1][2 * m + 2] = tags[m + 1][2]
      <3>1. CASE m = i
        BY <2>7, <2>8, <3>1
      <3>2. CASE m # i
        <4>1. m \in 0 .. i - 1 /\ 2 * m + 1 \in 1 .. 2 * i /\ 2 * m + 2 \in 1 .. 2 * i
          BY <3>2
        <4>2. f[i][2 * m + 1] = tags[m + 1][1] /\ f[i][2 * m + 2] = tags[m + 1][2]
          BY <1>8, <4>1
        <4>3. QED
          BY <2>8, <4>1, <4>2
      <3>3. QED
        BY <3>1, <3>2
    <2>6. QED
      BY <2>1, <2>4, <2>5
  <1>9. N \in T
    <2> HIDE DEF T
    <2>1. N \in 0 .. N
      BY <1>1
    <2>2. QED
      BY <1>1, <1>7, <1>8, <2>1, UpTo
  <1>10. QED
    BY <1>1, <1>6, <1>9 DEF N

(* The end of the tags that begin at a position is their delimiter. *)
LEMMA TagsEndAt ==
    ASSUME NEW kv \in Seq(Nat), NEW at \in Nat \ {0}, NEW L \in Nat,
           at + 2 * L <= Len(kv), kv[at + 2 * L] = 0,
           \A m \in 0 .. L - 1 : kv[at + 2 * m] # 0
    PROVE  TagsEnd(kv, at) = at + 2 * L
  <1> DEFINE T == {m \in 0 .. Len(kv) : at + 2 * m > Len(kv) \/ kv[at + 2 * m] = 0}
  <1>1. L \in T /\ T \in SUBSET Nat
    OBVIOUS
  <1>2. \A m \in T : L <= m
    OBVIOUS
  <1> HIDE DEF T
  <1>3. Min(T) = L
    <2>1. Min(T) \in T /\ \A m \in T : Min(T) <= m
      BY <1>1, MinNatural
    <2>2. Min(T) <= L /\ L <= Min(T) /\ Min(T) \in Nat
      BY <1>1, <1>2, <2>1
    <2> DEFINE min == Min(T)
    <2> HIDE DEF min
    <2>3. min \in Nat /\ min <= L /\ L <= min
      BY <2>2 DEF min
    <2>4. QED
      BY <2>3 DEF min
  <1>4. QED
    BY <1>3 DEF TagsEnd, T

(* The positions at which tags begin. *)
LEMMA TagsEndType ==
    ASSUME NEW kv \in Seq(Nat), NEW at \in Nat \ {0}
    PROVE  Passed(TagsEnd(kv, at)) \in Nat \ {0}
  <1> DEFINE T == {m \in 0 .. Len(kv) : at + 2 * m > Len(kv) \/ kv[at + 2 * m] = 0}
  <1>1. Len(kv) \in T /\ T \in SUBSET Nat
    OBVIOUS
  <1> HIDE DEF T
  <1>2. Min(T) \in Nat
    BY <1>1, MinNatural
  <1>3. TagsEnd(kv, at) = at + 2 * Min(T)
    BY DEF TagsEnd, T
  <1>4. QED
    BY <1>2, <1>3 DEF Passed

(* The tags of a node begin behind the delimiter of the one before. *)
LEMMA TagsBeginStep ==
    ASSUME NEW kv \in Seq(Nat), NEW n \in Nat \ {0}
    PROVE  \E g \in [0 .. n - 1 -> Nat \ {0}] :
              /\ g[0] = 1
              /\ \A i \in 0 .. n - 2 : g[i + 1] = Passed(TagsEnd(kv, g[i]))
              /\ TagsBegin(kv, n) = g[n - 1]
  <1> DEFINE N == n - 1
             D == Nat \ {0}
             F == [i \in 1 .. N |-> [x \in D |-> Passed(TagsEnd(kv, x))]]
             Is(g) == g = [i \in 0 .. N |-> IF i = 0 THEN 1 ELSE Passed(TagsEnd(kv, g[i - 1]))]
             begin == CHOOSE g : Is(g)
  <1>1. N \in Nat /\ 1 \in D /\ F \in [1 .. N -> [D -> D]]
    BY TagsEndType
  <1>2. PICK g \in [0 .. N -> D] : Recurs(g, N, 1, F)
    <2> HIDE DEF N, F, D
    <2>1. QED
      BY <1>1, Recursion
  <1>3. Is(g)
    <2> DEFINE h == [i \in 0 .. N |-> IF i = 0 THEN 1 ELSE Passed(TagsEnd(kv, g[i - 1]))]
    <2>1. ASSUME NEW i \in 0 .. N
          PROVE  g[i] = h[i]
      <3>1. CASE i = 0
        BY <1>2, <3>1 DEF Recurs
      <3>2. CASE i # 0
        <4>1. i \in 1 .. N /\ i - 1 \in 0 .. N
          BY <3>2
        <4>2. g[i] = F[i][g[i - 1]]
          BY <1>2, <4>1 DEF Recurs
        <4>3. QED
          BY <3>2, <4>1, <4>2
      <3>3. QED
        BY <3>1, <3>2
    <2>2. g = [i \in 0 .. N |-> g[i]] /\ h = [i \in 0 .. N |-> h[i]]
      OBVIOUS
    <2> HIDE DEF h
    <2>3. g = h
      BY <2>1, <2>2
    <2>4. QED
      BY <2>3 DEF h
  <1>4. Is(begin)
    <2> HIDE DEF Is
    <2>1. QED
      BY <1>3
  <1>5. TagsBegin(kv, n) = begin[n - 1]
    BY Zenon DEF TagsBegin
  <1> HIDE DEF begin
  <1>6. begin[0] = 1 /\ \A i \in 0 .. N - 1 : begin[i + 1] = Passed(TagsEnd(kv, begin[i]))
    <2>1. begin[0] = 1
      BY <1>4
    <2>2. ASSUME NEW i \in 0 .. N - 1
          PROVE  begin[i + 1] = Passed(TagsEnd(kv, begin[i]))
      <3>1. i + 1 \in 0 .. N /\ i + 1 # 0 /\ i + 1 - 1 = i
        OBVIOUS
      <3>2. QED
        BY <1>4, <3>1
    <2>3. QED
      BY <2>1, <2>2
  <1>7. begin \in [0 .. N -> D]
    <2> DEFINE T == {i \in 0 .. N : begin[i] \in D}
    <2>1. 0 \in T
      BY <1>6
    <2>2. ASSUME NEW i \in 0 .. N - 1, i \in T
          PROVE  i + 1 \in T
      BY <1>6, <2>2, TagsEndType
    <2>3. \A i \in 0 .. N : i \in T
      <3> HIDE DEF T, N
      <3>1. QED
        BY <1>1, <2>1, <2>2, UpTo
    <2>4. begin = [i \in 0 .. N |-> begin[i]]
      <3> DEFINE h == [i \in 0 .. N |-> IF i = 0 THEN 1 ELSE Passed(TagsEnd(kv, begin[i - 1]))]
      <3>1. begin = h /\ h = [i \in 0 .. N |-> h[i]]
        BY <1>4
      <3> HIDE DEF h
      <3>2. QED
        BY <3>1
    <2>5. QED
      BY <2>3, <2>4
  <1>8. /\ begin \in [0 .. n - 1 -> Nat \ {0}]
        /\ begin[0] = 1
        /\ \A i \in 0 .. n - 2 : begin[i + 1] = Passed(TagsEnd(kv, begin[i]))
        /\ TagsBegin(kv, n) = begin[n - 1]
    BY <1>5, <1>6, <1>7
  <1>9. QED
    BY <1>8, Zenon

(* The tags of a node stand behind a position: keys and values, none of    *)
(* them 0, and the delimiter.                                              *)
Stand(kv, o, tags) ==
    /\ o + 2 * Len(tags) + 1 <= Len(kv)
    /\ kv[o + 2 * Len(tags) + 1] = 0
    /\ \A m \in 0 .. Len(tags) - 1 : /\ kv[o + 2 * m + 1] = tags[m + 1][1]
                                     /\ kv[o + 2 * m + 2] = tags[m + 1][2]

(* Tags that stand behind a position, the first of them and the others. *)
LEMMA StandFirst ==
    ASSUME NEW tags \in TagLists
    PROVE  LET c == Append(KeysVals(tags), 0)
           IN c \in Seq(Nat) /\ Len(c) = 2 * Len(tags) + 1 /\ Stand(c, 0, tags)
  <1> DEFINE s == KeysVals(tags)
             c == Append(s, 0)
             L == Len(tags)
  <1>1. /\ s \in Seq(Strings) /\ Len(s) = 2 * L
        /\ \A m \in 0 .. L - 1 : s[2 * m + 1] = tags[m + 1][1] /\ s[2 * m + 2] = tags[m + 1][2]
    BY KeysAndValues
  <1>2. L \in Nat
    BY DEF TagLists
  <1>3. s \in Seq(Nat)
    BY <1>1 DEF Strings
  <1> HIDE DEF s, L
  <1>4. c \in Seq(Nat) /\ Len(c) = 2 * L + 1 /\ c[2 * L + 1] = 0
    BY <1>1, <1>2, <1>3
  <1>5. \A k \in 1 .. 2 * L : c[k] = s[k]
    BY <1>1, <1>2, <1>3
  <1>6. ASSUME NEW m \in 0 .. L - 1
        PROVE  c[2 * m + 1] = tags[m + 1][1] /\ c[2 * m + 2] = tags[m + 1][2]
    <2>1. 2 * m + 1 \in 1 .. 2 * L /\ 2 * m + 2 \in 1 .. 2 * L
      BY <1>2
    <2> HIDE DEF c
    <2>2. QED
      BY <1>1, <1>5, <2>1
  <1> HIDE DEF c
  <1>7. Stand(c, 0, tags)
    BY <1>2, <1>4, <1>6 DEF Stand, L
  <1>8. QED
    BY <1>4, <1>7 DEF c, s, L

(* The tags that stand behind a position are read. *)
LEMMA StandRead ==
    ASSUME NEW kv \in Seq(Nat), NEW o \in Nat, NEW tags \in TagLists, Stand(kv, o, tags),
           NEW pb
    PROVE  /\ TagsEnd(kv, o + 1) = o + 1 + 2 * Len(tags)
           /\ {<<Text(pb, kv[o + 1 + 2 * m]), Text(pb, kv[o + 1 + 2 * m + 1])>> :
                  m \in {k \in 0 .. Len(kv) : o + 1 + 2 * k < TagsEnd(kv, o + 1)}}
                = Tags(pb, tags)
  <1> DEFINE L == Len(tags)
             at == o + 1
  <1>1. /\ L \in Nat /\ DOMAIN tags = 1 .. L
        /\ \A j \in 1 .. L : tags[j][1] \in Nat \ {0} /\ tags[j][2] \in Nat \ {0}
    BY DEF TagLists, Strings
  <1>2. /\ at \in Nat \ {0} /\ at + 2 * L <= Len(kv) /\ kv[at + 2 * L] = 0
        /\ \A m \in 0 .. L - 1 : kv[at + 2 * m] = tags[m + 1][1] /\ kv[at + 2 * m + 1] = tags[m + 1][2]
    <2>1. at + 2 * L = o + 2 * L + 1 /\ at \in Nat \ {0}
      <3>1. L \in Nat /\ at = o + 1
        BY <1>1
      <3> HIDE DEF at, L
      <3>2. QED
        BY <3>1
    <2>2. ASSUME NEW m \in 0 .. L - 1
          PROVE  kv[at + 2 * m] = tags[m + 1][1] /\ kv[at + 2 * m + 1] = tags[m + 1][2]
      <3>1. at + 2 * m = o + 2 * m + 1 /\ at + 2 * m + 1 = o + 2 * m + 2
        BY <1>1
      <3>2. kv[o + 2 * m + 1] = tags[m + 1][1] /\ kv[o + 2 * m + 2] = tags[m + 1][2]
        BY DEF Stand
      <3> HIDE DEF at, L
      <3>3. QED
        BY <3>1, <3>2
    <2>3. at + 2 * L <= Len(kv) /\ kv[at + 2 * L] = 0
      <3>1. o + 2 * L + 1 <= Len(kv) /\ kv[o + 2 * L + 1] = 0
        BY DEF Stand
      <3> HIDE DEF at, L
      <3>2. QED
        BY <2>1, <3>1
    <2> HIDE DEF at, L
    <2>4. QED
      BY <2>1, <2>2, <2>3
  <1> HIDE DEF at, L
  <1>3. TagsEnd(kv, at) = at + 2 * L
    <2>1. \A m \in 0 .. L - 1 : kv[at + 2 * m] # 0
      <3>1. \A m \in 0 .. L - 1 : m + 1 \in 1 .. L
        BY <1>1
      <3>2. QED
        BY <1>1, <1>2, <3>1
    <2>2. QED
      BY <1>1, <1>2, <2>1, TagsEndAt
  <1>4. {k \in 0 .. Len(kv) : at + 2 * k < TagsEnd(kv, at)} = 0 .. L - 1
    <2>1. Len(kv) \in Nat /\ L <= Len(kv)
      BY <1>1, <1>2
    <2>2. \A k \in Int : at + 2 * k < at + 2 * L <=> k < L
      BY <1>1, <1>2
    <2>3. QED
      BY <1>1, <1>3, <2>1, <2>2
  <1>5. {<<Text(pb, kv[at + 2 * m]), Text(pb, kv[at + 2 * m + 1])>> : m \in 0 .. L - 1}
          = {<<Text(pb, tags[j][1]), Text(pb, tags[j][2])>> : j \in 1 .. L}
    <2> DEFINE G(m) == <<Text(pb, kv[at + 2 * m]), Text(pb, kv[at + 2 * m + 1])>>
               H(j) == <<Text(pb, tags[j][1]), Text(pb, tags[j][2])>>
    <2>1. \A m \in 0 .. L - 1 : G(m) = H(m + 1)
      BY <1>2
    <2>2. \A m \in 0 .. L - 1 : m + 1 \in 1 .. L
      BY <1>1
    <2>3. \A j \in 1 .. L : j - 1 \in 0 .. L - 1 /\ j - 1 + 1 = j
      BY <1>1
    <2> HIDE DEF G, H
    <2>4. {G(m) : m \in 0 .. L - 1} = {H(j) : j \in 1 .. L}
      BY <2>1, <2>2, <2>3
    <2>5. QED
      BY <2>4 DEF G, H
  <1>6. {<<Text(pb, tags[j][1]), Text(pb, tags[j][2])>> : j \in 1 .. L} = Tags(pb, tags)
    BY <1>1 DEF Tags, ToSet
  <1>7. QED
    BY <1>3, <1>4, <1>5, <1>6 DEF at, L

(* The tags of a node are keys and values of strings. *)
LEMMA TagsOfNodes ==
    ASSUME NEW nodes \in Seq(Nodes), NEW i \in 1 .. Len(nodes)
    PROVE  nodes[i].tags \in TagLists /\ Len(nodes[i].tags) \in Nat
  <1>1. nodes[i] \in Nodes
    OBVIOUS
  <1>2. nodes[i].tags \in TagLists
    BY <1>1 DEF Nodes
  <1>3. QED
    BY <1>2 DEF TagLists

(* The tags of all dense nodes, one behind the other. *)
LEMMA DenseStand ==
    ASSUME NEW nodes \in Seq(Nodes), \E i \in DOMAIN nodes : nodes[i].tags # <<>>
    PROVE  \E f \in [0 .. Len(nodes) -> Seq(Nat)] :
              /\ DenseKeysVals(nodes) \in Seq(Nat)
              /\ Len(f[0]) = 0
              /\ \A i \in 0 .. Len(nodes) - 1 :
                    /\ Len(f[i + 1]) = Len(f[i]) + 2 * Len(nodes[i + 1].tags) + 1
                    /\ Stand(DenseKeysVals(nodes), Len(f[i]), nodes[i + 1].tags)
  <1> DEFINE N == Len(nodes)
             seqs == [i \in 1 .. N |-> Append(KeysVals(nodes[i].tags), 0)]
  <1>1. N \in Nat /\ DOMAIN nodes = 1 .. N /\ \A i \in 1 .. N : nodes[i].tags \in TagLists
    BY TagsOfNodes
  <1>2. ASSUME NEW i \in 1 .. N
        PROVE  /\ seqs[i] \in Seq(Nat) /\ Len(seqs[i]) = 2 * Len(nodes[i].tags) + 1
               /\ Stand(seqs[i], 0, nodes[i].tags)
    BY <1>1, StandFirst
  <1>3. DenseKeysVals(nodes) = FlattenSeq(seqs)
    BY <1>1 DEF DenseKeysVals
  <1>4. seqs \in [1 .. N -> Seq(Nat)] /\ seqs = [i \in 1 .. N |-> seqs[i]]
    BY <1>2
  <1> HIDE DEF N, seqs
  <1>5. PICK f \in [0 .. N -> Seq(Nat)] : Flattens(f, N, seqs)
    BY <1>1, <1>4, Flattened
  <1>6. DenseKeysVals(nodes) = f[N]
    BY <1>1, <1>3, <1>4, <1>5 DEF Flattens
  <1>7. ASSUME NEW i \in 0 .. N - 1
        PROVE  /\ Len(f[i + 1]) = Len(f[i]) + 2 * Len(nodes[i + 1].tags) + 1
               /\ Stand(f[N], Len(f[i]), nodes[i + 1].tags)
    <2> DEFINE a == f[i]
               b == f[i + 1]
               c == seqs[i + 1]
               kv == f[N]
               tags == nodes[i + 1].tags
               L == Len(tags)
    <2>1. i + 1 \in 1 .. N /\ i + 1 \in 0 .. N /\ i \in 0 .. N
      BY <1>1
    <2>2. a \in Seq(Nat) /\ b \in Seq(Nat) /\ kv \in Seq(Nat) /\ tags \in TagLists /\ L \in Nat
      BY <1>1, <2>1 DEF TagLists
    <2>3. c \in Seq(Nat) /\ Len(c) = 2 * L + 1 /\ Stand(c, 0, tags)
      BY <1>2, <2>1
    <2>4. b = a \o c
      BY <1>5 DEF Flattens
    <2>5. Len(b) <= Len(kv) /\ \A k \in 1 .. Len(b) : kv[k] = b[k]
      <3>1. Leads(f[i + 1], f[N])
        BY <1>1, <1>4, <1>5, <2>1, FlattenedPrefix
      <3>2. QED
        BY <3>1 DEF Leads
    <2> HIDE DEF a, b, c, kv, tags, L
    <2>6. Joins(b, a, c)
      BY <2>2, <2>3, <2>4, Concatenated
    <2>7. Len(a) \in Nat /\ Len(b) = Len(a) + 2 * L + 1
      BY <2>2, <2>3, <2>6 DEF Joins
    <2>8. \A k \in 1 .. 2 * L + 1 : kv[Len(a) + k] = c[k]
      <3>1. ASSUME NEW k \in 1 .. 2 * L + 1
            PROVE  kv[Len(a) + k] = c[k]
        <4>1. b[Len(a) + k] = c[k]
          BY <2>3, <2>6 DEF Joins
        <4>2. Len(a) + k \in 1 .. Len(b)
          BY <2>2, <2>7
        <4>3. QED
          BY <2>5, <4>1, <4>2
      <3>2. QED
        BY <3>1
    <2>9. /\ c[2 * L + 1] = 0
          /\ \A m \in 0 .. L - 1 : /\ c[2 * m + 1] = tags[m + 1][1]
                                   /\ c[2 * m + 2] = tags[m + 1][2]
      BY <2>2, <2>3 DEF Stand, L
    <2>10. /\ kv[Len(a) + (2 * L + 1)] = 0
           /\ \A m \in 0 .. L - 1 : /\ kv[Len(a) + (2 * m + 1)] = tags[m + 1][1]
                                    /\ kv[Len(a) + (2 * m + 2)] = tags[m + 1][2]
      <3>1. 2 * L + 1 \in 1 .. 2 * L + 1
        BY <2>2
      <3>2. \A m \in 0 .. L - 1 : 2 * m + 1 \in 1 .. 2 * L + 1 /\ 2 * m + 2 \in 1 .. 2 * L + 1
        BY <2>2
      <3>3. QED
        BY <2>8, <2>9, <3>1, <3>2
    <2>11. Stand(kv, Len(a), tags)
      <3>1. Len(a) + (2 * L + 1) = Len(a) + 2 * L + 1
        BY <2>2, <2>7
      <3>2. \A m \in 0 .. L - 1 : /\ Len(a) + (2 * m + 1) = Len(a) + 2 * m + 1
                                  /\ Len(a) + (2 * m + 2) = Len(a) + 2 * m + 2
        BY <2>2, <2>7
      <3>3. QED
        BY <2>5, <2>7, <2>10, <3>1, <3>2 DEF Stand, L
    <2>12. QED
      BY <2>7, <2>11 DEF a, b, kv, tags, L
  <1>8. f[0] = <<>> /\ f[N] \in Seq(Nat)
    BY <1>1, <1>5 DEF Flattens
  <1>9. QED
    BY <1>6, <1>7, <1>8 DEF N

(* Each dense node gets the tags that were its own. *)
LEMMA DenseTagsRead ==
    ASSUME NEW nodes \in Seq(Nodes), NEW n \in 1 .. Len(nodes), NEW pb
    PROVE  DenseTags(pb, DenseKeysVals(nodes), n) = Tags(pb, nodes[n].tags)
  <1> DEFINE kv == DenseKeysVals(nodes)
             at == TagsBegin(kv, n)
  <1>1. n \in Nat \ {0} /\ n \in DOMAIN nodes /\ n - 1 \in 0 .. n - 1
    OBVIOUS
  <1>2. DenseTags(pb, kv, n)
          = {<<Text(pb, kv[at + 2 * m]), Text(pb, kv[at + 2 * m + 1])>> :
                m \in {k \in 0 .. Len(kv) : at + 2 * k < TagsEnd(kv, at)}}
    BY DEF DenseTags
  <1>3. CASE \A i \in DOMAIN nodes : nodes[i].tags = <<>>
    <2>1. kv = <<>> /\ kv \in Seq(Nat)
      BY <1>3 DEF DenseKeysVals
    <2>2. at \in Nat \ {0}
      <3> HIDE DEF kv
      <3>1. PICK g \in [0 .. n - 1 -> Nat \ {0}] : at = g[n - 1]
        BY <1>1, <2>1, TagsBeginStep
      <3>2. QED
        BY <1>1, <3>1
    <2> HIDE DEF at
    <2>3. TagsEnd(<<>>, at) = at
      <3> DEFINE T == {m \in 0 .. 0 : at + 2 * m > 0 \/ <<>>[at + 2 * m] = 0}
      <3>1. 0 \in T /\ T \in SUBSET Nat /\ \A m \in T : m = 0
        BY <2>2
      <3>2. TagsEnd(<<>>, at) = at + 2 * Min(T)
        BY DEF TagsEnd
      <3> HIDE DEF T
      <3>3. Min(T) = 0
        BY <3>1, MinNatural
      <3>4. QED
        BY <2>2, <3>2, <3>3
    <2>4. {k \in 0 .. 0 : at + 2 * k < at} = {}
      BY <2>2
    <2>5. DenseTags(pb, kv, n) = {}
      BY <1>2, <2>1, <2>3, <2>4
    <2>6. Tags(pb, <<>>) = {}
      BY DEF Tags, ToSet
    <2>7. QED
      BY <1>1, <1>3, <2>5, <2>6
  <1>4. CASE \E i \in DOMAIN nodes : nodes[i].tags # <<>>
    <2>1. PICK f \in [0 .. Len(nodes) -> Seq(Nat)] :
              /\ kv \in Seq(Nat)
              /\ Len(f[0]) = 0
              /\ \A i \in 0 .. Len(nodes) - 1 :
                    /\ Len(f[i + 1]) = Len(f[i]) + 2 * Len(nodes[i + 1].tags) + 1
                    /\ Stand(kv, Len(f[i]), nodes[i + 1].tags)
      BY <1>4, DenseStand
    <2> HIDE DEF kv
    <2>2. PICK g \in [0 .. n - 1 -> Nat \ {0}] :
              /\ g[0] = 1
              /\ \A i \in 0 .. n - 2 : g[i + 1] = Passed(TagsEnd(kv, g[i]))
              /\ at = g[n - 1]
      BY <1>1, <2>1, TagsBeginStep
    <2> HIDE DEF at
    <2> DEFINE T == {i \in 0 .. n - 1 : g[i] = Len(f[i]) + 1}
    <2>3. 0 \in T
      BY <1>1, <2>1, <2>2
    <2>4. ASSUME NEW i \in 0 .. Len(nodes) - 1
          PROVE  /\ Len(f[i]) \in Nat /\ nodes[i + 1].tags \in TagLists
                 /\ Len(nodes[i + 1].tags) \in Nat
      <3>1. i \in 0 .. Len(nodes) /\ i + 1 \in 1 .. Len(nodes)
        BY <1>1
      <3>2. QED
        BY <3>1, TagsOfNodes
    <2>5. ASSUME NEW i \in 0 .. n - 1 - 1, i \in T
          PROVE  i + 1 \in T
      <3>1. i \in 0 .. Len(nodes) - 1 /\ i \in 0 .. n - 2 /\ i + 1 \in 0 .. n - 1
        BY <1>1
      <3>2. TagsEnd(kv, Len(f[i]) + 1) = Len(f[i]) + 1 + 2 * Len(nodes[i + 1].tags)
        BY <2>1, <2>4, <3>1, StandRead
      <3>3. g[i + 1] = Passed(TagsEnd(kv, g[i])) /\ g[i] = Len(f[i]) + 1
        BY <2>2, <2>5, <3>1
      <3>4. Len(f[i + 1]) = Len(f[i]) + 2 * Len(nodes[i + 1].tags) + 1
        BY <2>1, <3>1
      <3> DEFINE a == Len(f[i])
                 b == Len(f[i + 1])
                 l == Len(nodes[i + 1].tags)
      <3>5. a \in Nat /\ l \in Nat
        BY <2>4, <3>1
      <3> HIDE DEF a, b, l
      <3>6. b = a + 2 * l + 1 /\ g[i + 1] = a + 1 + 2 * l + 1
        BY <3>2, <3>3, <3>4 DEF a, b, l, Passed
      <3>7. g[i + 1] = b + 1
        BY <3>5, <3>6
      <3>8. QED
        BY <3>1, <3>7 DEF b
    <2>6. n - 1 \in T
      <3> HIDE DEF T
      <3>1. n - 1 \in Nat
        BY <1>1
      <3>2. QED
        BY <1>1, <2>3, <2>5, <3>1, UpTo
    <2>7. n - 1 \in 0 .. Len(nodes) - 1 /\ n - 1 + 1 = n
      BY <1>1
    <2>8. at = Len(f[n - 1]) + 1 /\ Len(f[n - 1]) \in Nat
      BY <2>2, <2>4, <2>6, <2>7
    <2>9. Stand(kv, Len(f[n - 1]), nodes[n].tags) /\ nodes[n].tags \in TagLists
      BY <2>1, <2>4, <2>7
    <2> DEFINE o == Len(f[n - 1])
               tags == nodes[n].tags
    <2>10. {<<Text(pb, kv[o + 1 + 2 * m]), Text(pb, kv[o + 1 + 2 * m + 1])>> :
               m \in {k \in 0 .. Len(kv) : o + 1 + 2 * k < TagsEnd(kv, o + 1)}} = Tags(pb, tags)
      <3> HIDE DEF o, tags
      <3>1. kv \in Seq(Nat) /\ o \in Nat /\ tags \in TagLists /\ Stand(kv, o, tags)
        BY <2>1, <2>8, <2>9 DEF o, tags
      <3>2. QED
        BY <3>1, StandRead
    <2> HIDE DEF o
    <2>11. at = o + 1
      BY <2>8 DEF o
    <2>12. QED
      BY <1>2, <2>10, <2>11 DEF kv
  <1>5. QED
    BY <1>3, <1>4

(* Of a block, encoding changes its groups only. *)
LEMMA SameBut ==
    ASSUME NEW pb \in PrimitiveBlocks
    PROVE  /\ EncodeBlock(pb).groups = [i \in DOMAIN pb.groups |-> EncodeGroup(pb.groups[i])]
           /\ \A i : Text(EncodeBlock(pb), i) = Text(pb, i)
           /\ \A pairs : Tags(EncodeBlock(pb), pairs) = Tags(pb, pairs)
           /\ \A units : /\ Coordinate(EncodeBlock(pb), EncodeBlock(pb).lat_offset, units)
                              = Coordinate(pb, pb.lat_offset, units)
                         /\ Coordinate(EncodeBlock(pb), EncodeBlock(pb).lon_offset, units)
                              = Coordinate(pb, pb.lon_offset, units)
  <1> DEFINE eb == EncodeBlock(pb)
  <1>1. /\ eb.groups = [i \in DOMAIN pb.groups |-> EncodeGroup(pb.groups[i])]
        /\ eb.strings = pb.strings /\ eb.granularity = pb.granularity
        /\ eb.lat_offset = pb.lat_offset /\ eb.lon_offset = pb.lon_offset
    BY DEF EncodeBlock, PrimitiveBlocks
  <1> HIDE DEF eb
  <1>2. \A i : Text(eb, i) = Text(pb, i)
    BY <1>1 DEF Text
  <1>3. \A pairs : Tags(eb, pairs) = Tags(pb, pairs)
    BY <1>2 DEF Tags
  <1>4. \A units : /\ Coordinate(eb, eb.lat_offset, units) = Coordinate(pb, pb.lat_offset, units)
                   /\ Coordinate(eb, eb.lon_offset, units) = Coordinate(pb, pb.lon_offset, units)
    BY <1>1 DEF Coordinate
  <1>5. QED
    BY <1>1, <1>2, <1>3, <1>4 DEF eb

(* Dense nodes: ids, coordinates and tags. *)
LEMMA DenseNodesRead ==
    ASSUME NEW pb \in PrimitiveBlocks, NEW nodes \in Seq(Nodes)
    PROVE  DenseNodes(EncodeBlock(pb), EncodeDense(nodes))
             = [i \in DOMAIN nodes |-> Node(pb, nodes[i])]
  <1> DEFINE eb == EncodeBlock(pb)
             ids == [i \in DOMAIN nodes |-> nodes[i].id]
             lats == [i \in DOMAIN nodes |-> nodes[i].lat]
             lons == [i \in DOMAIN nodes |-> nodes[i].lon]
             kv == DenseKeysVals(nodes)
  <1>1. ASSUME NEW i \in DOMAIN nodes
        PROVE  nodes[i].id \in Int /\ nodes[i].lat \in Int /\ nodes[i].lon \in Int
    <2>1. nodes[i] \in Nodes
      OBVIOUS
    <2>2. QED
      BY <2>1 DEF Nodes
  <1>2. ids \in Seq(Int) /\ lats \in Seq(Int) /\ lons \in Seq(Int)
    <2> DEFINE N == Len(nodes)
    <2>1. N \in Nat /\ DOMAIN nodes = 1 .. N
      OBVIOUS
    <2> HIDE DEF N
    <2>2. ids \in [1 .. N -> Int] /\ lats \in [1 .. N -> Int] /\ lons \in [1 .. N -> Int]
      BY <1>1, <2>1
    <2> HIDE DEF ids, lats, lons
    <2>3. QED
      BY <2>1, <2>2
  <1>3. Sums(Deltas(ids)) = ids /\ Sums(Deltas(lats)) = lats /\ Sums(Deltas(lons)) = lons
    <2> HIDE DEF ids, lats, lons
    <2>1. QED
      BY <1>2, SumsOfDeltas
  <1>4. /\ EncodeDense(nodes).id = Deltas(ids) /\ EncodeDense(nodes).lat = Deltas(lats)
        /\ EncodeDense(nodes).lon = Deltas(lons) /\ EncodeDense(nodes).kv = kv
    BY DEF EncodeDense
  <1>5. DenseNodes(eb, EncodeDense(nodes))
          = [i \in DOMAIN ids |-> [id |-> ids[i], tags |-> DenseTags(eb, kv, i),
                                   lat |-> Coordinate(eb, eb.lat_offset, lats[i]),
                                   lon |-> Coordinate(eb, eb.lon_offset, lons[i])]]
    <2> HIDE DEF ids, lats, lons, eb, kv
    <2>1. QED
      BY <1>3, <1>4 DEF DenseNodes
  <1>6. DOMAIN ids = DOMAIN nodes
    OBVIOUS
  <1>7. ASSUME NEW i \in DOMAIN nodes
        PROVE  [id |-> ids[i], tags |-> DenseTags(eb, kv, i),
                lat |-> Coordinate(eb, eb.lat_offset, lats[i]),
                lon |-> Coordinate(eb, eb.lon_offset, lons[i])] = Node(pb, nodes[i])
    <2>1. i \in 1 .. Len(nodes)
      OBVIOUS
    <2>2. DenseTags(eb, kv, i) = Tags(eb, nodes[i].tags)
      BY <2>1, DenseTagsRead
    <2>3. ids[i] = nodes[i].id /\ lats[i] = nodes[i].lat /\ lons[i] = nodes[i].lon
      OBVIOUS
    <2>4. /\ Tags(eb, nodes[i].tags) = Tags(pb, nodes[i].tags)
          /\ Coordinate(eb, eb.lat_offset, nodes[i].lat) = Coordinate(pb, pb.lat_offset, nodes[i].lat)
          /\ Coordinate(eb, eb.lon_offset, nodes[i].lon) = Coordinate(pb, pb.lon_offset, nodes[i].lon)
      BY SameBut
    <2> HIDE DEF ids, lats, lons, eb, kv
    <2>5. QED
      BY <2>2, <2>3, <2>4 DEF Node
  <1> HIDE DEF ids, lats, lons, eb, kv
  <1>8. QED
    BY <1>5, <1>6, <1>7 DEF eb

(* Plain nodes. *)
LEMMA NodesRead ==
    ASSUME NEW pb \in PrimitiveBlocks, NEW n
    PROVE  Node(EncodeBlock(pb), n) = Node(pb, n)
  <1> DEFINE eb == EncodeBlock(pb)
  <1>1. /\ Tags(eb, n.tags) = Tags(pb, n.tags)
        /\ Coordinate(eb, eb.lat_offset, n.lat) = Coordinate(pb, pb.lat_offset, n.lat)
        /\ Coordinate(eb, eb.lon_offset, n.lon) = Coordinate(pb, pb.lon_offset, n.lon)
    BY SameBut
  <1> HIDE DEF eb
  <1>2. Node(eb, n) = Node(pb, n)
    BY <1>1 DEF Node
  <1>3. QED
    BY <1>2 DEF eb

(* A way: its tags and its references. *)
LEMMA WayRead ==
    ASSUME NEW pb \in PrimitiveBlocks, NEW w \in Ways
    PROVE  Way(EncodeBlock(pb), EncodeWay(w))
             = [id |-> w.id, tags |-> Tags(pb, w.tags), refs |-> w.refs]
  <1>1. w.refs \in Seq(Int)
    BY DEF Ways
  <1>2. Sums(Deltas(w.refs)) = w.refs
    BY <1>1, SumsOfDeltas
  <1>3. Tags(EncodeBlock(pb), w.tags) = Tags(pb, w.tags)
    BY SameBut
  <1>4. /\ EncodeWay(w).id = w.id /\ EncodeWay(w).tags = w.tags
        /\ EncodeWay(w).refs = Deltas(w.refs)
    BY DEF EncodeWay
  <1>5. QED
    BY <1>2, <1>3, <1>4 DEF Way

(* A relation: its tags and those members that are ways. *)
LEMMA RelationRead ==
    ASSUME NEW pb \in PrimitiveBlocks, NEW r \in Relations
    PROVE  Relation(EncodeBlock(pb), EncodeRelation(r))
             = [id |-> r.id, tags |-> Tags(pb, r.tags), members |-> WaysOnly(pb, r.members)]
  <1> DEFINE eb == EncodeBlock(pb)
             er == EncodeRelation(r)
             m == r.members
             ids == [i \in DOMAIN m |-> m[i].id]
  <1>1. \A i \in DOMAIN m : m[i].id \in Int
    <2> DEFINE M == [id : Int, type : {"node", "way", "relation"}, role : Nat]
    <2>1. m \in Seq(M) /\ \A x \in M : x.id \in Int
      BY DEF Relations
    <2> HIDE DEF m, M
    <2>2. \A i \in DOMAIN m : m[i] \in M
      BY <2>1
    <2>3. QED
      BY <2>1, <2>2
  <1>2. ids \in Seq(Int)
    <2>1. m \in Seq([id : Int, type : {"node", "way", "relation"}, role : Nat])
      BY DEF Relations
    <2> HIDE DEF m
    <2>2. DOMAIN m = 1 .. Len(m) /\ Len(m) \in Nat
      BY <2>1
    <2>3. QED
      BY <1>1, <2>2
  <1>3. Sums(Deltas(ids)) = ids
    <2> HIDE DEF ids
    <2>1. QED
      BY <1>2, SumsOfDeltas
  <1>4. /\ er.id = r.id /\ er.tags = r.tags /\ er.memids = Deltas(ids)
        /\ er.types = [i \in DOMAIN m |-> m[i].type] /\ er.roles = [i \in DOMAIN m |-> m[i].role]
    BY DEF EncodeRelation
  <1> DEFINE sums == Sums(er.memids)
             A(i) == IF er.types[i] = "way" THEN <<<<sums[i], Text(eb, er.roles[i])>>>> ELSE <<>>
             B(i) == IF m[i].type = "way" THEN <<<<m[i].id, Text(pb, m[i].role)>>>> ELSE <<>>
  <1>5. WayMembers(eb, er) = FlattenSeq([i \in DOMAIN sums |-> A(i)])
    BY DEF WayMembers
  <1>6. WaysOnly(pb, m) = FlattenSeq([i \in DOMAIN m |-> B(i)])
    BY DEF WaysOnly
  <1>7. DOMAIN sums = DOMAIN m
    <2> HIDE DEF m, er
    <2>1. QED
      BY <1>3, <1>4
  <1>8. ASSUME NEW i \in DOMAIN m
        PROVE  A(i) = B(i)
    <2>1. sums[i] = m[i].id /\ er.types[i] = m[i].type /\ er.roles[i] = m[i].role
      <3> HIDE DEF m, er
      <3>1. QED
        BY <1>3, <1>4
    <2>2. Text(eb, m[i].role) = Text(pb, m[i].role)
      BY SameBut
    <2> HIDE DEF m, er, eb
    <2>3. QED
      BY <2>1, <2>2
  <1>9. WayMembers(eb, er) = WaysOnly(pb, m)
    <2> HIDE DEF m, er, eb, A, B, sums
    <2>1. QED
      BY <1>5, <1>6, <1>7, <1>8
  <1>10. Tags(eb, r.tags) = Tags(pb, r.tags)
    BY SameBut
  <1> HIDE DEF eb, er
  <1>11. QED
    BY <1>4, <1>9, <1>10 DEF Relation, eb, er

(* A group: dense nodes, nodes, ways and relations, in this order. *)
LEMMA GroupRead ==
    ASSUME NEW pb \in PrimitiveBlocks, NEW g \in Groups
    PROVE  Group(EncodeBlock(pb), EncodeGroup(g)) = MeantGroup(pb, g)
  <1> DEFINE eb == EncodeBlock(pb)
             eg == EncodeGroup(g)
             W(w) == [id |-> w.id, tags |-> Tags(pb, w.tags), refs |-> w.refs]
             R(r) == [id |-> r.id, tags |-> Tags(pb, r.tags), members |-> WaysOnly(pb, r.members)]
  <1>1. /\ eg.dense = EncodeDense(g.dense) /\ eg.nodes = g.nodes
        /\ eg.ways = [i \in DOMAIN g.ways |-> EncodeWay(g.ways[i])]
        /\ eg.relations = [i \in DOMAIN g.relations |-> EncodeRelation(g.relations[i])]
    BY DEF EncodeGroup
  <1>2. /\ g.dense \in Seq(Nodes) /\ g.nodes \in Seq(Nodes)
        /\ g.ways \in Seq(Ways) /\ g.relations \in Seq(Relations)
    BY DEF Groups
  <1>3. DenseNodes(eb, eg.dense) = [i \in DOMAIN g.dense |-> Node(pb, g.dense[i])]
    BY <1>1, <1>2, DenseNodesRead
  <1>4. [i \in DOMAIN eg.nodes |-> Node(eb, eg.nodes[i])]
          = [i \in DOMAIN g.nodes |-> Node(pb, g.nodes[i])]
    BY <1>1, NodesRead
  <1>5. [i \in DOMAIN eg.ways |-> Way(eb, eg.ways[i])] = [i \in DOMAIN g.ways |-> W(g.ways[i])]
    <2>1. ASSUME NEW i \in DOMAIN g.ways
          PROVE  Way(eb, EncodeWay(g.ways[i])) = W(g.ways[i])
      <3>1. g.ways[i] \in Ways
        BY <1>2
      <3>2. QED
        BY <3>1, WayRead
    <2> HIDE DEF W, eb, eg
    <2>2. DOMAIN eg.ways = DOMAIN g.ways /\ \A i \in DOMAIN g.ways : eg.ways[i] = EncodeWay(g.ways[i])
      BY <1>1
    <2>3. QED
      BY <2>1, <2>2
  <1>6. [i \in DOMAIN eg.relations |-> Relation(eb, eg.relations[i])]
          = [i \in DOMAIN g.relations |-> R(g.relations[i])]
    <2>1. ASSUME NEW i \in DOMAIN g.relations
          PROVE  Relation(eb, EncodeRelation(g.relations[i])) = R(g.relations[i])
      <3>1. g.relations[i] \in Relations
        BY <1>2
      <3>2. QED
        BY <3>1, RelationRead
    <2> HIDE DEF R, eb, eg
    <2>2. /\ DOMAIN eg.relations = DOMAIN g.relations
          /\ \A i \in DOMAIN g.relations : eg.relations[i] = EncodeRelation(g.relations[i])
      BY <1>1
    <2>3. QED
      BY <2>1, <2>2
  <1>7. MeantGroup(pb, g) = [i \in DOMAIN g.dense |-> Node(pb, g.dense[i])]
                            \o [i \in DOMAIN g.nodes |-> Node(pb, g.nodes[i])]
                            \o [i \in DOMAIN g.ways |-> W(g.ways[i])]
                            \o [i \in DOMAIN g.relations |-> R(g.relations[i])]
    BY DEF MeantGroup
  <1> HIDE DEF eb, eg, W, R
  <1>8. QED
    BY <1>3, <1>4, <1>5, <1>6, <1>7 DEF Group, eb, eg

(* A block is read as it was meant. *)
LEMMA BlockRead ==
    ASSUME NEW pb \in PrimitiveBlocks
    PROVE  Decode(EncodeBlock(pb)) = Meant(pb)
  <1> DEFINE eb == EncodeBlock(pb)
  <1>1. eb.groups = [i \in DOMAIN pb.groups |-> EncodeGroup(pb.groups[i])]
    BY SameBut
  <1>2. ASSUME NEW i \in DOMAIN pb.groups
        PROVE  Group(eb, EncodeGroup(pb.groups[i])) = MeantGroup(pb, pb.groups[i])
    <2>1. pb.groups \in Seq(Groups)
      BY DEF PrimitiveBlocks
    <2>2. pb.groups[i] \in Groups
      BY <2>1
    <2>3. QED
      BY <2>2, GroupRead
  <1> HIDE DEF eb
  <1>3. /\ DOMAIN eb.groups = DOMAIN pb.groups
        /\ \A i \in DOMAIN pb.groups : eb.groups[i] = EncodeGroup(pb.groups[i])
    BY <1>1
  <1>4. [i \in DOMAIN eb.groups |-> Group(eb, eb.groups[i])]
          = [i \in DOMAIN pb.groups |-> MeantGroup(pb, pb.groups[i])]
    BY <1>2, <1>3
  <1>5. QED
    BY <1>4 DEF Decode, Meant, eb

(* A sequence is one of its own elements. *)
IsSeq(s) == s \in Seq(ToSet(s))

(* A sequence over any set is one of its own elements. *)
LEMMA SeqOfSet ==
    ASSUME NEW S, NEW s \in Seq(S)
    PROVE  IsSeq(s)
  <1>1. ToSet(s) = {s[i] : i \in 1 .. Len(s)} /\ Len(s) \in Nat /\ s = [i \in 1 .. Len(s) |-> s[i]]
    BY DEF ToSet
  <1>2. s \in [1 .. Len(s) -> ToSet(s)]
    BY <1>1
  <1>3. QED
    BY <1>1, <1>2 DEF IsSeq

(* A function on the first numbers is a sequence. *)
LEMMA SeqMade ==
    ASSUME NEW N \in Nat, NEW s, s = [i \in 1 .. N |-> s[i]]
    PROVE  IsSeq(s)
  <1>1. ToSet(s) = {s[i] : i \in 1 .. N}
    BY DEF ToSet
  <1>2. s \in [1 .. N -> ToSet(s)]
    BY <1>1
  <1>3. QED
    BY <1>2 DEF IsSeq

(* Sequences joined are a sequence. *)
LEMMA SeqJoined ==
    ASSUME NEW s, NEW t, IsSeq(s), IsSeq(t)
    PROVE  IsSeq(s \o t)
  <1> DEFINE S == ToSet(s) \cup ToSet(t)
  <1>1. s \in Seq(S) /\ t \in Seq(S)
    BY DEF IsSeq
  <1>2. s \o t \in Seq(S)
    BY <1>1
  <1> HIDE DEF S
  <1>3. QED
    BY <1>2, SeqOfSet

(* Sequences have a common set of elements. *)
LEMMA SeqCommon ==
    ASSUME NEW N \in Nat, NEW seqs, \A i \in 1 .. N : IsSeq(seqs[i])
    PROVE  \E S : \A i \in 1 .. N : seqs[i] \in Seq(S)
  <1> DEFINE S == UNION {ToSet(seqs[i]) : i \in 1 .. N}
  <1>1. ASSUME NEW i \in 1 .. N
        PROVE  seqs[i] \in Seq(S)
    <2>1. ToSet(seqs[i]) \subseteq S /\ seqs[i] \in Seq(ToSet(seqs[i]))
      BY DEF IsSeq
    <2> DEFINE s == seqs[i]
               T == ToSet(seqs[i])
    <2>2. s \in Seq(T) /\ T \subseteq S
      BY <2>1
    <2> HIDE DEF s, T, S
    <2>3. s \in Seq(S)
      BY <2>2
    <2>4. QED
      BY <2>3 DEF s
  <1>2. QED
    BY <1>1

(* What is meant of a block is a sequence. *)
LEMMA MeantType ==
    ASSUME NEW pb \in PrimitiveBlocks
    PROVE  IsSeq(Meant(pb))
  <1> DEFINE N == Len(pb.groups)
             seqs == [i \in 1 .. N |-> MeantGroup(pb, pb.groups[i])]
  <1>1. pb.groups \in Seq(Groups) /\ N \in Nat /\ DOMAIN pb.groups = 1 .. N
    BY DEF PrimitiveBlocks
  <1>2. ASSUME NEW i \in 1 .. N
        PROVE  IsSeq(seqs[i])
    <2> DEFINE g == pb.groups[i]
               W(w) == [id |-> w.id, tags |-> Tags(pb, w.tags), refs |-> w.refs]
               R(r) == [id |-> r.id, tags |-> Tags(pb, r.tags), members |-> WaysOnly(pb, r.members)]
               a == [j \in DOMAIN g.dense |-> Node(pb, g.dense[j])]
               b == [j \in DOMAIN g.nodes |-> Node(pb, g.nodes[j])]
               c == [j \in DOMAIN g.ways |-> W(g.ways[j])]
               d == [j \in DOMAIN g.relations |-> R(g.relations[j])]
    <2>1. g \in Groups
      BY <1>1
    <2>2. /\ g.dense \in Seq(Nodes) /\ g.nodes \in Seq(Nodes)
          /\ g.ways \in Seq(Ways) /\ g.relations \in Seq(Relations)
      BY <2>1 DEF Groups
    <2> HIDE DEF g, W, R
    <2>3. IsSeq(a)
      <3>1. Len(g.dense) \in Nat /\ DOMAIN g.dense = 1 .. Len(g.dense)
        BY <2>2
      <3>2. QED
        BY <3>1, SeqMade
    <2>4. IsSeq(b)
      <3>1. Len(g.nodes) \in Nat /\ DOMAIN g.nodes = 1 .. Len(g.nodes)
        BY <2>2
      <3>2. QED
        BY <3>1, SeqMade
    <2>5. IsSeq(c)
      <3>1. Len(g.ways) \in Nat /\ DOMAIN g.ways = 1 .. Len(g.ways)
        BY <2>2
      <3>2. QED
        BY <3>1, SeqMade
    <2>6. IsSeq(d)
      <3>1. Len(g.relations) \in Nat /\ DOMAIN g.relations = 1 .. Len(g.relations)
        BY <2>2
      <3>2. QED
        BY <3>1, SeqMade
    <2> HIDE DEF a, b, c, d
    <2>7. IsSeq(a \o b \o c \o d)
      <3>1. IsSeq(a \o b)
        BY <2>3, <2>4, SeqJoined
      <3>2. IsSeq(a \o b \o c)
        BY <2>5, <3>1, SeqJoined
      <3>3. QED
        BY <2>6, <3>2, SeqJoined
    <2>8. MeantGroup(pb, g) = a \o b \o c \o d
      BY DEF MeantGroup, a, b, c, d, W, R
    <2>9. QED
      BY <2>7, <2>8 DEF g
  <1>3. Meant(pb) = FlattenSeq(seqs)
    BY <1>1 DEF Meant
  <1> HIDE DEF N
  <1>4. PICK S : \A i \in 1 .. N : seqs[i] \in Seq(S)
    <2> HIDE DEF seqs
    <2>1. QED
      BY <1>1, <1>2, SeqCommon
  <1>5. seqs \in Seq(Seq(S))
    BY <1>1, <1>4
  <1> HIDE DEF seqs
  <1>6. FlattenSeq(seqs) \in Seq(S)
    BY <1>5, FlattenType
  <1>7. QED
    BY <1>3, <1>6, SeqOfSet

------------------------------------------------------------------------------
(* Files of blobs *)

(* The greatest number up to a bound. *)
LEMMA MaxNatural ==
    ASSUME NEW N \in Nat, NEW T \in SUBSET (0 .. N), T # {}
    PROVE  Max(T) \in T /\ \A m \in T : m <= Max(T)
  <1> DEFINE U == {k \in 0 .. N : N - k \in T}
  <1>1. U \in SUBSET Nat /\ U # {}
    <2>1. PICK m \in T : TRUE
      OBVIOUS
    <2>2. N - m \in 0 .. N /\ N - (N - m) = m
      OBVIOUS
    <2>3. N - m \in U
      <3> DEFINE l == N - m
      <3>1. l \in 0 .. N /\ N - l = m
        BY <2>2
      <3> HIDE DEF l
      <3>2. QED
        BY <3>1
    <2>4. U \in SUBSET Nat
      OBVIOUS
    <2> HIDE DEF U
    <2>5. QED
      BY <2>3, <2>4
  <1>2. PICK k \in U : \A l \in U : k <= l
    BY <1>1, LeastNatural
  <1>3. ASSUME NEW m \in T
        PROVE  N - k >= m
    <2>1. N - m \in 0 .. N /\ N - (N - m) = m
      OBVIOUS
    <2>2. k <= N - m
      BY <1>2, <2>1
    <2>3. QED
      BY <2>2
  <1>4. \E x \in T : \A y \in T : x >= y
    BY <1>2, <1>3
  <1> DEFINE max == CHOOSE x \in T : \A y \in T : x >= y
  <1>5. max \in T /\ \A y \in T : max >= y
    <2> HIDE DEF U
    <2>1. QED
      BY <1>4
  <1>6. Max(T) = max
    BY DEF Max
  <1> HIDE DEF max
  <1>7. QED
    BY <1>5, <1>6

(* Nothing is added where there is nothing. *)
Nothing(seqs, a, b) == \A i \in a + 1 .. b : seqs[i] = <<>>
Still(f, a, b) == f[a] = f[b]

(* Where nothing is flattened the result stays. *)
LEMMA FlattenedStill ==
    ASSUME NEW S, NEW N \in Nat, NEW seqs \in [1 .. N -> Seq(S)],
           NEW f \in [0 .. N -> Seq(S)], Flattens(f, N, seqs),
           NEW a \in 0 .. N, NEW b \in a .. N, Nothing(seqs, a, b)
    PROVE  Still(f, a, b)
  <1> DEFINE T == {i \in 0 .. N : i \in a .. b => f[i] = f[a]}
  <1>1. 0 \in T
    OBVIOUS
  <1>2. ASSUME NEW i \in 0 .. N - 1, i \in T
        PROVE  i + 1 \in T
    <2>1. CASE i + 1 \in a + 1 .. b
      <3>1. f[i] = f[a] /\ seqs[i + 1] = <<>>
        BY <1>2, <2>1 DEF Nothing
      <3>2. f[i + 1] = f[i] \o seqs[i + 1] /\ f[i] \in Seq(S)
        <4>1. i \in 0 .. N
          OBVIOUS
        <4>2. QED
          BY <4>1 DEF Flattens
      <3>3. f[i + 1] = f[a]
        <4> DEFINE x == f[i]
        <4>1. x \in Seq(S) /\ f[i + 1] = x \o <<>>
          BY <3>1, <3>2
        <4> HIDE DEF x
        <4>2. f[i + 1] = x
          BY <4>1
        <4>3. QED
          BY <3>1, <4>2 DEF x
      <3>4. QED
        BY <3>3
    <2>2. CASE i + 1 \notin a + 1 .. b
      <3>1. i + 1 \in a .. b => i + 1 = a
        BY <2>2
      <3>2. QED
        BY <3>1
    <2>3. QED
      BY <2>1, <2>2
  <1>3. \A i \in 0 .. N : i \in T
    <2> HIDE DEF T
    <2>1. QED
      BY <1>1, <1>2, UpTo
  <1>4. QED
    BY <1>3 DEF Still

------------------------------------------------------------------------------
(* What next() does on an encoded file from a position on: the blobs it    *)
(* passes over have no data, and it fails if one of them is cut off or     *)
(* there is no other.                                                      *)
NextIs(file, pos, n) ==
    \E first \in Nat :
       /\ \A i \in pos .. first - 1 : i \in DOMAIN file => ~Readable(file[i])
       /\ \/ /\ n.ok = TRUE
             /\ first \in DOMAIN file /\ pos <= first /\ Readable(file[first])
             /\ \A i \in pos .. first : ~file[i].cut
             /\ n.batch = Meant(file[first].block) /\ n.pos = first + 1
          \/ /\ n.ok = FALSE /\ n.batch = <<>> /\ n.pos = first + 1
             /\ \/ first = Len(file) + 1
                \/ first \in DOMAIN file /\ \E i \in pos .. first : file[i].cut

(* The blobs of an encoded file. *)
LEMMA EncodedBlobs ==
    ASSUME NEW file \in Seq(Blobs)
    PROVE  /\ DOMAIN EncodeFile(file) = DOMAIN file /\ Len(EncodeFile(file)) = Len(file)
           /\ \A i \in DOMAIN file : /\ EncodeFile(file)[i].kind = file[i].kind
                                     /\ EncodeFile(file)[i].cut = file[i].cut
                                     /\ EncodeFile(file)[i].block = EncodeBlock(file[i].block)
                                     /\ file[i].cut \in BOOLEAN
                                     /\ file[i].block \in PrimitiveBlocks
  <1> DEFINE e == EncodeFile(file)
  <1>1. DOMAIN file = 1 .. Len(file) /\ Len(file) \in Nat
    OBVIOUS
  <1>2. e = [i \in 1 .. Len(file) |-> [file[i] EXCEPT !.block = EncodeBlock(file[i].block)]]
    BY <1>1 DEF EncodeFile
  <1>3. DOMAIN e = 1 .. Len(file) /\ Len(e) = Len(file)
    BY <1>1, <1>2
  <1>4. ASSUME NEW i \in DOMAIN file
        PROVE  /\ e[i].kind = file[i].kind /\ e[i].cut = file[i].cut
               /\ e[i].block = EncodeBlock(file[i].block)
               /\ file[i].cut \in BOOLEAN /\ file[i].block \in PrimitiveBlocks
    <2>1. file[i] \in Blobs
      OBVIOUS
    <2>2. e[i] = [file[i] EXCEPT !.block = EncodeBlock(file[i].block)]
      BY <1>1, <1>2
    <2> DEFINE b == file[i]
    <2>3. b \in [kind : {"header", "zlib", "raw", "other"}, cut : BOOLEAN, block : PrimitiveBlocks]
      BY <2>1 DEF Blobs
    <2> HIDE DEF b, e
    <2>4. e[i] = [b EXCEPT !.block = EncodeBlock(b.block)]
      BY <2>2 DEF b
    <2>5. /\ e[i].kind = b.kind /\ e[i].cut = b.cut /\ e[i].block = EncodeBlock(b.block)
          /\ b.cut \in BOOLEAN /\ b.block \in PrimitiveBlocks
      BY <2>3, <2>4
    <2>6. QED
      BY <2>5 DEF b
  <1> HIDE DEF e
  <1>5. QED
    BY <1>1, <1>3, <1>4 DEF e

(* next: the batch of the first blob that is read, or none. *)
LEMMA NextRead ==
    ASSUME NEW file \in Seq(Blobs), NEW pos \in Nat \ {0}
    PROVE  NextIs(file, pos, next(EncodeFile(file), pos))
  <1> DEFINE e == EncodeFile(file)
             N == Len(file)
             data == {i \in DOMAIN e : i >= pos /\ Readable(e[i])}
             first == First(e, pos)
             n == next(e, pos)
             ok == first \in DOMAIN e /\ \A i \in pos .. first : ~e[i].cut
  <1>1. N \in Nat /\ DOMAIN file = 1 .. N /\ DOMAIN e = 1 .. N /\ Len(e) = N
    BY EncodedBlobs
  <1>2. \A i \in 1 .. N : /\ e[i].cut = file[i].cut /\ e[i].block = EncodeBlock(file[i].block)
                          /\ file[i].cut \in BOOLEAN /\ file[i].block \in PrimitiveBlocks
    BY <1>1, EncodedBlobs
  <1>3. \A i \in 1 .. N : Readable(e[i]) = Readable(file[i])
    <2>1. \A i \in 1 .. N : e[i].kind = file[i].kind
      BY <1>1, EncodedBlobs
    <2> HIDE DEF e
    <2>2. QED
      BY <2>1 DEF Readable
  <1>4. n.ok = ok /\ n.batch = (IF ok THEN Decode(e[first].block) ELSE <<>>) /\ n.pos = first + 1
    BY DEF next
  <1>5. first = IF data = {} THEN Len(e) + 1 ELSE Min(data)
    BY DEF First
  <1>6. data = {i \in 1 .. N : i >= pos /\ Readable(file[i])}
    <2> HIDE DEF e
    <2>1. QED
      BY <1>1, <1>3
  <1> HIDE DEF e, N, n, first
  <1>7. CASE data = {}
    <2>1. first = N + 1 /\ ok = FALSE /\ first \in Nat
      BY <1>1, <1>5, <1>7
    <2>2. \A i \in pos .. first - 1 : i \in DOMAIN file => ~Readable(file[i])
      BY <1>1, <1>6, <1>7, <2>1
    <2> HIDE DEF data, ok
    <2>3. n.ok = FALSE /\ n.batch = <<>>
      BY <1>4, <2>1
    <2>4. NextIs(file, pos, n)
      BY <1>4, <2>1, <2>2, <2>3 DEF NextIs, N
    <2>5. QED
      BY <2>4 DEF n, e
  <1>8. CASE data # {}
    <2>1. data \in SUBSET Nat
      BY <1>1
    <2>2. first \in data /\ \A i \in data : first <= i
      <3> HIDE DEF data
      <3>1. QED
        BY <1>5, <1>8, <2>1, MinNatural
    <2>3. first \in 1 .. N /\ pos <= first /\ Readable(file[first]) /\ first \in Nat
      BY <1>1, <1>6, <2>2
    <2>4. \A i \in pos .. first - 1 : i \in DOMAIN file => ~Readable(file[i])
      <3>1. ASSUME NEW i \in pos .. first - 1, i \in DOMAIN file, Readable(file[i])
            PROVE  FALSE
        <4>1. i \in data
          BY <1>1, <1>6, <3>1
        <4> HIDE DEF data
        <4>2. QED
          BY <2>2, <2>3, <4>1
      <3>2. QED
        BY <3>1
    <2>5. \A i \in pos .. first : i \in 1 .. N
      BY <1>1, <2>3
    <2>6. ok = (\A i \in pos .. first : ~file[i].cut)
      BY <1>1, <1>2, <2>3, <2>5
    <2> HIDE DEF data, ok
    <2>7. CASE ok
      <3>1. n.ok = TRUE /\ n.batch = Decode(e[first].block)
        BY <1>4, <2>6, <2>7
      <3>2. n.batch = Meant(file[first].block)
        BY <1>2, <2>3, <3>1, BlockRead
      <3>3. NextIs(file, pos, n)
        BY <1>1, <1>4, <2>3, <2>4, <2>6, <2>7, <3>1, <3>2 DEF NextIs
      <3>4. QED
        BY <3>3 DEF n, e
    <2>8. CASE ~ok
      <3>1. n.ok = FALSE /\ n.batch = <<>>
        BY <1>4, <2>6, <2>8
      <3>2. \E i \in pos .. first : file[i].cut
        BY <1>2, <2>5, <2>6, <2>8
      <3>3. NextIs(file, pos, n)
        BY <1>1, <1>4, <2>3, <2>4, <3>1, <3>2 DEF NextIs
      <3>4. QED
        BY <3>3 DEF n, e
    <2>9. QED
      BY <2>7, <2>8
  <1>9. QED
    BY <1>7, <1>8

(* The turns of the reading loop, from its definition. *)
LEMMA ReadingTurns ==
    ASSUME NEW file \in Seq(Blobs), NEW pos \in Nat \ {0}, NEW S,
           \A i \in DOMAIN file : Meant(file[i].block) \in Seq(S)
    PROVE  \E g \in [0 .. Len(file) + 1 -> [ok : BOOLEAN, pos : Nat \ {0}, out : Seq(S)]] :
              /\ g[0] = [ok |-> TRUE, pos |-> pos, out |-> <<>>]
              /\ \A n \in 0 .. Len(file) : g[n + 1] = Turned(EncodeFile(file), g[n])
              /\ ReadFrom(EncodeFile(file), pos) = g[Len(file) + 1].out
  <1> DEFINE e == EncodeFile(file)
             N == Len(file) + 1
             D == [ok : BOOLEAN, pos : Nat \ {0}, out : Seq(S)]
             x == [ok |-> TRUE, pos |-> pos, out |-> <<>>]
             F == [i \in 1 .. N |-> [s \in D |-> Turned(e, s)]]
             Is(g) == g = [n \in 0 .. N |-> IF n = 0 THEN x ELSE Turned(e, g[n - 1])]
             turn == CHOOSE g : Is(g)
  <1>1. N \in Nat /\ Len(e) + 1 = N
    BY EncodedBlobs
  <1>2. ASSUME NEW s \in D
        PROVE  Turned(e, s) \in D
    <2> DEFINE n == next(e, s.pos)
    <2>1. s.pos \in Nat \ {0} /\ s.out \in Seq(S) /\ s.ok \in BOOLEAN
      OBVIOUS
    <2>2. NextIs(file, s.pos, n)
      BY <2>1, NextRead
    <2>3. n.ok \in BOOLEAN /\ n.batch \in Seq(S) /\ n.pos \in Nat \ {0}
      <3> HIDE DEF n
      <3>1. PICK first \in Nat : /\ n.pos = first + 1
                                 /\ \/ n.ok = FALSE /\ n.batch = <<>>
                                    \/ /\ n.ok = TRUE /\ n.batch = Meant(file[first].block)
                                       /\ first \in DOMAIN file
        BY <2>2 DEF NextIs
      <3>5. n.pos \in Nat \ {0}
        BY <3>1
      <3>2. CASE n.ok = FALSE /\ n.batch = <<>>
        <4>1. <<>> \in Seq(S)
          OBVIOUS
        <4>2. QED
          BY <3>5, <3>2, <4>1
      <3>3. CASE n.ok = TRUE /\ n.batch = Meant(file[first].block) /\ first \in DOMAIN file
        <4>1. n.batch \in Seq(S)
          BY <3>3
        <4>2. QED
          BY <3>5, <3>3, <4>1
      <3>4. QED
        BY <3>1, <3>2, <3>3
    <2>4. Turned(e, s) = IF s.ok THEN [ok |-> n.ok, pos |-> n.pos, out |-> s.out \o n.batch] ELSE s
      BY DEF Turned
    <2> HIDE DEF n
    <2>5. s.out \o n.batch \in Seq(S)
      BY <2>1, <2>3
    <2>6. QED
      BY <2>3, <2>4, <2>5
  <1>3. x \in D /\ F \in [1 .. N -> [D -> D]]
    <2>1. x \in D
      OBVIOUS
    <2> HIDE DEF D
    <2>2. QED
      BY <1>2, <2>1
  <1>4. PICK g \in [0 .. N -> D] : Recurs(g, N, x, F)
    <2> HIDE DEF N, F, D, x
    <2>1. QED
      BY <1>1, <1>3, Recursion
  <1> HIDE DEF D, x, e, N
  <1>5. Is(g)
    <2> DEFINE h == [n \in 0 .. N |-> IF n = 0 THEN x ELSE Turned(e, g[n - 1])]
    <2>1. ASSUME NEW i \in 0 .. N
          PROVE  g[i] = h[i]
      <3>1. CASE i = 0
        BY <1>4, <3>1 DEF Recurs
      <3>2. CASE i # 0
        <4>1. i \in 1 .. N /\ i - 1 \in 0 .. N
          BY <1>1, <3>2
        <4>2. g[i] = F[i][g[i - 1]]
          BY <1>4, <4>1 DEF Recurs
        <4>3. QED
          BY <3>2, <4>1, <4>2
      <3>3. QED
        BY <3>1, <3>2
    <2>2. g = [i \in 0 .. N |-> g[i]] /\ h = [i \in 0 .. N |-> h[i]]
      OBVIOUS
    <2> HIDE DEF h
    <2>3. g = h
      BY <2>1, <2>2
    <2>4. QED
      BY <2>3 DEF h
  <1>6. Is(turn)
    <2> HIDE DEF Is
    <2>1. QED
      BY <1>5
  <1>7. ReadFrom(e, pos) = turn[N].out
    <2>1. ReadFrom(e, pos) = (CHOOSE t : t = [n \in 0 .. Len(e) + 1 |->
                                IF n = 0 THEN x ELSE Turned(e, t[n - 1])])[Len(e) + 1].out
      BY Zenon DEF ReadFrom, x
    <2>2. QED
      BY <1>1, <2>1, Zenon
  <1> HIDE DEF turn
  <1>8. turn[0] = x /\ \A n \in 0 .. N - 1 : turn[n + 1] = Turned(e, turn[n])
    <2>1. turn[0] = x
      BY <1>1, <1>6
    <2>2. ASSUME NEW i \in 0 .. N - 1
          PROVE  turn[i + 1] = Turned(e, turn[i])
      <3>1. i + 1 \in 0 .. N /\ i + 1 # 0 /\ i + 1 - 1 = i
        BY <1>1
      <3> DEFINE h == [n \in 0 .. N |-> IF n = 0 THEN x ELSE Turned(e, turn[n - 1])]
      <3>2. turn = h
        BY <1>6, Zenon
      <3>3. h[i + 1] = Turned(e, turn[i])
        BY <3>1
      <3> HIDE DEF h
      <3>4. QED
        BY <3>2, <3>3
    <2>3. QED
      BY <2>1, <2>2
  <1>9. turn \in [0 .. N -> D]
    <2> DEFINE T == {i \in 0 .. N : turn[i] \in D}
    <2>1. 0 \in T
      BY <1>1, <1>3, <1>8
    <2>2. ASSUME NEW i \in 0 .. N - 1, i \in T
          PROVE  i + 1 \in T
      BY <1>1, <1>2, <1>8, <2>2
    <2>3. \A i \in 0 .. N : i \in T
      <3> HIDE DEF T
      <3>1. QED
        BY <1>1, <2>1, <2>2, UpTo
    <2>4. turn = [i \in 0 .. N |-> turn[i]]
      <3> DEFINE h == [n \in 0 .. N |-> IF n = 0 THEN x ELSE Turned(e, turn[n - 1])]
      <3>1. turn = h /\ h = [i \in 0 .. N |-> h[i]]
        BY <1>6
      <3> HIDE DEF h
      <3>2. QED
        BY <3>1
    <2>5. QED
      BY <2>3, <2>4
  <1>10. \A n \in 0 .. Len(file) : n \in 0 .. N - 1
    BY DEF N
  <1>11. /\ turn[0] = x
         /\ \A n \in 0 .. Len(file) : turn[n + 1] = Turned(e, turn[n])
         /\ ReadFrom(e, pos) = turn[N].out
    BY <1>7, <1>8, <1>10
  <1>12. QED
    BY <1>9, <1>11, Zenon DEF D, N, x, e

(* What is meant of a file, blob by blob. *)
Meaning(blob) == IF Readable(blob) THEN Meant(blob.block) ELSE <<>>
MeantAt(file, pos) == [i \in 1 .. Len(file) |-> IF i < pos THEN <<>> ELSE Meaning(file[i])]
Whole(file, pos) == {n \in 0 .. Len(file) : \A i \in pos .. n : ~file[i].cut}

(* What is meant of a file, flattened up to the last blob that is whole. *)
LEMMA MeantFromIs ==
    ASSUME NEW file \in Seq(Blobs), NEW pos \in Nat \ {0}
    PROVE  /\ Max(Whole(file, pos)) \in Whole(file, pos)
           /\ \A n \in Whole(file, pos) : n <= Max(Whole(file, pos))
           /\ MeantFrom(file, pos)
                = FlattenSeq([i \in 1 .. Max(Whole(file, pos)) |-> MeantAt(file, pos)[i]])
  <1> DEFINE W == Whole(file, pos)
             m == Max(W)
  <1>1. W \in SUBSET (0 .. Len(file)) /\ Len(file) \in Nat /\ 0 \in W
    BY DEF Whole
  <1> HIDE DEF W
  <1>2. m \in W /\ \A n \in W : n <= m
    BY <1>1, MaxNatural
  <1>3. MeantFrom(file, pos)
          = FlattenSeq([i \in 1 .. m |-> IF i < pos THEN <<>> ELSE Meaning(file[i])])
    BY Zenon DEF MeantFrom, Meaning, W, Whole
  <1> HIDE DEF m
  <1>4. \A i \in 1 .. m : MeantAt(file, pos)[i] = IF i < pos THEN <<>> ELSE Meaning(file[i])
    <2>1. \A i \in 1 .. m : i \in 1 .. Len(file)
      BY <1>1, <1>2
    <2>2. QED
      BY <2>1 DEF MeantAt
  <1>5. [i \in 1 .. m |-> MeantAt(file, pos)[i]]
          = [i \in 1 .. m |-> IF i < pos THEN <<>> ELSE Meaning(file[i])]
    BY <1>4
  <1>6. QED
    BY <1>2, <1>3, <1>5 DEF W, m

(* A state of the reading loop after n turns, f being what the blobs up to *)
(* each mean and whole the last before one that is cut off.                *)
Before(file, s) == IF s.pos <= Len(file) THEN s.pos - 1 ELSE Len(file)
ReadTo(file, pos, f, whole, s, n) ==
    IF s.ok THEN /\ s.pos >= pos + n /\ (n > 0 => s.pos <= Len(file) + 1)
                 /\ \A i \in pos .. Before(file, s) : ~file[i].cut
                 /\ s.out = f[Before(file, s)]
            ELSE s.out = f[whole]

(* A turn of the reading loop. *)
LEMMA ReadStep ==
    ASSUME NEW file \in Seq(Blobs), NEW pos \in Nat \ {0}, NEW S,
           \A i \in DOMAIN file : Meant(file[i].block) \in Seq(S),
           NEW f \in [0 .. Len(file) -> Seq(S)], Flattens(f, Len(file), MeantAt(file, pos)),
           NEW s \in [ok : BOOLEAN, pos : Nat \ {0}, out : Seq(S)], NEW n \in Nat,
           ReadTo(file, pos, f, Max(Whole(file, pos)), s, n)
    PROVE  ReadTo(file, pos, f, Max(Whole(file, pos)), Turned(EncodeFile(file), s), n + 1)
  <1> DEFINE N == Len(file)
             W == Max(Whole(file, pos))
             seqs == MeantAt(file, pos)
             x == next(EncodeFile(file), s.pos)
             t == Turned(EncodeFile(file), s)
             q == Before(file, s)
  <1>1. /\ s.ok \in BOOLEAN /\ s.pos \in Nat \ {0} /\ s.out \in Seq(S)
        /\ N \in Nat /\ DOMAIN file = 1 .. N
    OBVIOUS
  <1>2. W \in Whole(file, pos) /\ \A m \in Whole(file, pos) : m <= W
    BY MeantFromIs
  <1>3. W \in 0 .. N /\ \A i \in pos .. W : ~file[i].cut
    BY <1>2 DEF Whole
  <1>4. seqs \in [1 .. N -> Seq(S)] /\ \A i \in 1 .. N : seqs[i] = IF i < pos THEN <<>> ELSE Meaning(file[i])
    <2>1. ASSUME NEW i \in 1 .. N
          PROVE  Meaning(file[i]) \in Seq(S) /\ <<>> \in Seq(S)
      BY <1>1 DEF Meaning
    <2>2. QED
      BY <2>1 DEF MeantAt
  <1>10. f \in [0 .. N -> Seq(S)] /\ Flattens(f, N, seqs)
    OBVIOUS
  <1>5. NextIs(file, s.pos, x)
    BY <1>1, NextRead
  <1>6. t = IF s.ok THEN [ok |-> x.ok, pos |-> x.pos, out |-> s.out \o x.batch] ELSE s
    BY DEF Turned
  <1> HIDE DEF W, seqs, x, t
  <1>7. CASE ~s.ok
    <2>1. t.ok = FALSE /\ t.out = f[W]
      BY <1>1, <1>6, <1>7 DEF ReadTo, W
    <2>2. QED
      BY <2>1 DEF ReadTo, t, W
  <1>8. CASE s.ok
    <2>1. /\ s.pos >= pos + n
          /\ \A i \in pos .. q : ~file[i].cut
          /\ s.out = f[q]
      BY <1>8 DEF ReadTo
    <2>2. q \in 0 .. N /\ (s.pos <= N => q = s.pos - 1) /\ (s.pos > N => q = N)
      BY <1>1 DEF Before
    <2>3. q \in Whole(file, pos) /\ q <= W
      BY <1>2, <2>1, <2>2 DEF Whole
    <2> HIDE DEF q, N
    <2>4. t.ok = x.ok /\ t.pos = x.pos /\ t.out = f[q] \o x.batch /\ f[q] \in Seq(S)
      BY <1>1, <1>6, <1>8, <2>1, <2>2 DEF N
    <2>5. PICK first \in Nat :
             /\ \A i \in s.pos .. first - 1 : i \in DOMAIN file => ~Readable(file[i])
             /\ \/ /\ x.ok = TRUE
                   /\ first \in DOMAIN file /\ s.pos <= first /\ Readable(file[first])
                   /\ \A i \in s.pos .. first : ~file[i].cut
                   /\ x.batch = Meant(file[first].block) /\ x.pos = first + 1
                \/ /\ x.ok = FALSE /\ x.batch = <<>> /\ x.pos = first + 1
                   /\ \/ first = N + 1
                      \/ first \in DOMAIN file /\ \E i \in s.pos .. first : file[i].cut
      BY <1>5 DEF NextIs, N
    <2>6. ASSUME NEW i \in q + 1 .. N, i < first
          PROVE  seqs[i] = <<>>
      <3>1. i \in 1 .. N /\ s.pos <= i /\ i \in s.pos .. first - 1 /\ i \in DOMAIN file
        BY <1>1, <2>2, <2>6
      <3>2. ~Readable(file[i])
        BY <2>5, <3>1
      <3>3. QED
        BY <1>4, <3>1, <3>2 DEF Meaning
    <2>7. CASE x.ok
      <3>1. /\ first \in 1 .. N /\ s.pos <= first /\ Readable(file[first])
            /\ \A i \in s.pos .. first : ~file[i].cut
            /\ x.batch = Meant(file[first].block) /\ x.pos = first + 1
        BY <1>1, <2>5, <2>7
      <3>2. q = s.pos - 1 /\ q \in 0 .. N /\ first - 1 \in q .. N
        BY <1>1, <2>2, <3>1
      <3>3. f[q] = f[first - 1]
        <4>1. \A i \in q + 1 .. first - 1 : i \in q + 1 .. N /\ i < first
          BY <1>1, <3>1, <3>2
        <4>2. \A i \in q + 1 .. first - 1 : seqs[i] = <<>>
          BY <2>6, <4>1
        <4>3. Nothing(seqs, q, first - 1)
          BY <4>2 DEF Nothing
        <4>4. Still(f, q, first - 1)
          BY <1>1, <1>4, <1>10, <3>2, <4>3, FlattenedStill
        <4>5. QED
          BY <4>4 DEF Still
      <3>4. seqs[first] = x.batch
        <4>1. ~(first < pos)
          BY <1>1, <2>1, <3>1
        <4>2. QED
          BY <1>4, <3>1, <4>1 DEF Meaning
      <3>5. f[first] = f[first - 1] \o seqs[first]
        <4>1. first - 1 \in 0 .. N - 1 /\ first - 1 + 1 = first
          BY <1>1, <3>1
        <4>2. f[first - 1 + 1] = f[first - 1] \o seqs[first - 1 + 1]
          BY <4>1 DEF Flattens, N, seqs
        <4>3. QED
          BY <4>1, <4>2
      <3>6. t.out = f[first] /\ t.ok /\ t.pos = first + 1
        BY <2>4, <2>7, <3>1, <3>3, <3>4, <3>5
      <3>7. Before(file, t) = first
        <4>1. Before(file, t) = IF first + 1 <= N THEN first + 1 - 1 ELSE N
          BY <3>6 DEF Before, N
        <4>2. QED
          BY <1>1, <3>1, <4>1
      <3>8. \A i \in pos .. first : ~file[i].cut
        <4>1. \A i \in pos .. first : i \in pos .. q \/ i \in s.pos .. first
          BY <1>1, <3>1, <3>2
        <4>2. QED
          BY <2>1, <3>1, <4>1
      <3>9. first + 1 >= pos + (n + 1) /\ first + 1 <= N + 1
        BY <1>1, <2>1, <3>1
      <3>10. QED
        BY <3>6, <3>7, <3>8, <3>9 DEF ReadTo, t, N
    <2>8. CASE ~x.ok
      <3>1. x.batch = <<>>
        BY <2>5, <2>8
      <3>2. W < first
        <4>1. CASE first = N + 1
          BY <1>1, <1>3, <4>1
        <4>2. CASE first # N + 1
          <5>1. first \in DOMAIN file /\ \E i \in s.pos .. first : file[i].cut
            BY <2>5, <2>8, <4>2
          <5>2. PICK i \in s.pos .. first : file[i].cut
            BY <5>1
          <5>3. ~(i \in pos .. W)
            BY <1>3, <5>2
          <5>4. i >= pos /\ i <= first /\ i \in Nat
            BY <1>1, <2>1, <5>2
          <5>5. QED
            BY <1>3, <5>3, <5>4
        <4>3. QED
          BY <4>1, <4>2
      <3>3. f[q] = f[W]
        <4>1. \A i \in q + 1 .. W : i \in q + 1 .. N /\ i < first
          BY <1>1, <1>3, <2>2, <3>2
        <4>2. \A i \in q + 1 .. W : seqs[i] = <<>>
          BY <2>6, <4>1
        <4>3. W \in q .. N
          BY <1>3, <2>2, <2>3
        <4>4. Nothing(seqs, q, W)
          BY <4>2 DEF Nothing
        <4>5. Still(f, q, W)
          BY <1>1, <1>4, <1>10, <2>2, <4>3, <4>4, FlattenedStill
        <4>6. QED
          BY <4>5 DEF Still
      <3>4. t.out = f[W] /\ t.ok = FALSE
        <4> DEFINE a == f[q]
        <4>1. a \in Seq(S) /\ t.out = a \o <<>>
          BY <2>4, <3>1
        <4> HIDE DEF a
        <4>2. t.out = a
          BY <4>1
        <4>3. x.ok = FALSE
          BY <2>5, <2>8
        <4>4. QED
          BY <2>4, <3>3, <4>2, <4>3 DEF a
      <3>5. QED
        BY <3>4 DEF ReadTo, t, W
    <2>9. QED
      BY <2>7, <2>8
  <1>9. QED
    BY <1>7, <1>8

(* From wherever a file is read, all that is meant is delivered. *)
LEMMA FileRead ==
    ASSUME NEW file \in Seq(Blobs), NEW pos \in Nat \ {0}
    PROVE  ReadFrom(EncodeFile(file), pos) = MeantFrom(file, pos)
  <1> DEFINE N == Len(file)
             W == Max(Whole(file, pos))
             seqs == MeantAt(file, pos)
  <1>1. N \in Nat /\ DOMAIN file = 1 .. N
    OBVIOUS
  <1>2. PICK S : \A i \in 1 .. N : Meant(file[i].block) \in Seq(S)
    <2> DEFINE m == [i \in 1 .. N |-> Meant(file[i].block)]
    <2>1. \A i \in 1 .. N : IsSeq(m[i])
      BY <1>1, EncodedBlobs, MeantType
    <2>2. PICK S : \A i \in 1 .. N : m[i] \in Seq(S)
      <3> HIDE DEF m, N
      <3>1. QED
        BY <1>1, <2>1, SeqCommon
    <2>3. QED
      BY <2>2
  <1>3. W \in 0 .. N /\ MeantFrom(file, pos) = FlattenSeq([i \in 1 .. W |-> seqs[i]])
    BY MeantFromIs DEF Whole
  <1>4. seqs \in [1 .. N -> Seq(S)]
    <2>1. ASSUME NEW i \in 1 .. N
          PROVE  Meaning(file[i]) \in Seq(S) /\ <<>> \in Seq(S)
      BY <1>2 DEF Meaning
    <2>2. QED
      BY <2>1 DEF MeantAt
  <1>5. PICK f \in [0 .. N -> Seq(S)] : Flattens(f, N, seqs)
    <2> HIDE DEF N, seqs
    <2>1. QED
      BY <1>1, <1>4, Flattened
  <1>6. MeantFrom(file, pos) = f[W]
    BY <1>3, <1>5 DEF Flattens
  <1> DEFINE D == [ok : BOOLEAN, pos : Nat \ {0}, out : Seq(S)]
  <1>7. PICK g \in [0 .. N + 1 -> D] :
              /\ g[0] = [ok |-> TRUE, pos |-> pos, out |-> <<>>]
              /\ \A n \in 0 .. N : g[n + 1] = Turned(EncodeFile(file), g[n])
              /\ ReadFrom(EncodeFile(file), pos) = g[N + 1].out
    BY <1>1, <1>2, ReadingTurns
  <1> DEFINE T == {n \in 0 .. N + 1 : ReadTo(file, pos, f, W, g[n], n)}
  <1>8. 0 \in T
    <2>1. g[0].ok = TRUE /\ g[0].pos = pos /\ g[0].out = <<>>
      BY <1>7
    <2> DEFINE q == Before(file, g[0])
    <2>2. q \in 0 .. N /\ (pos <= N => q = pos - 1)
      BY <1>1, <2>1 DEF Before
    <2>3. \A i \in pos .. q : pos > N /\ i <= N
      BY <1>1, <2>2
    <2>4. \A i \in pos .. q : FALSE
      BY <1>1, <2>3
    <2>5. f[q] = <<>>
      <3>1. \A i \in 1 .. q : i < pos
        BY <1>1, <2>2
      <3>2. \A i \in 0 + 1 .. q : seqs[i] = <<>>
        BY <1>1, <2>2, <3>1 DEF MeantAt
      <3>3. 0 \in 0 .. N /\ q \in 0 .. N
        BY <1>1, <2>2
      <3> HIDE DEF q, seqs, N
      <3>6. Nothing(seqs, 0, q) /\ q \in 0 .. N
        BY <3>2, <3>3 DEF Nothing
      <3>4. Still(f, 0, q)
        BY <1>1, <1>4, <1>5, <3>3, <3>6, FlattenedStill
      <3>5. QED
        BY <1>5, <3>4 DEF Flattens, Still
    <2>6. ReadTo(file, pos, f, W, g[0], 0)
      BY <2>1, <2>4, <2>5 DEF ReadTo
    <2>7. QED
      BY <1>1, <2>6
  <1>9. ASSUME NEW n \in 0 .. N + 1 - 1, n \in T
        PROVE  n + 1 \in T
    <2>1. n \in 0 .. N /\ n \in Nat /\ n \in 0 .. N + 1 /\ n + 1 \in 0 .. N + 1
      BY <1>1
    <2>2. g[n] \in D /\ g[n + 1] = Turned(EncodeFile(file), g[n])
      BY <1>7, <2>1
    <2>3. ReadTo(file, pos, f, W, g[n], n)
      BY <1>9
    <2>4. ReadTo(file, pos, f, W, Turned(EncodeFile(file), g[n]), n + 1)
      BY <1>1, <1>2, <1>5, <2>1, <2>2, <2>3, ReadStep
    <2>5. QED
      BY <2>1, <2>2, <2>4
  <1>10. N + 1 \in T
    <2> DEFINE M == N + 1
    <2>1. M \in Nat /\ M \in 0 .. M
      BY <1>1
    <2>2. 0 \in T /\ \A n \in 0 .. M - 1 : n \in T => n + 1 \in T
      BY <1>8, <1>9
    <2> HIDE DEF T, M
    <2>3. M \in T
      BY <2>1, <2>2, UpTo
    <2>4. QED
      BY <2>3 DEF M
  <1>11. g[N + 1].out = f[W]
    <2>1. g[N + 1] \in D
      BY <1>1, <1>7
    <2> DEFINE s == g[N + 1]
    <2>2. ReadTo(file, pos, f, W, s, N + 1)
      BY <1>10
    <2>3. s.pos \in Nat /\ s.ok \in BOOLEAN
      BY <2>1
    <2> HIDE DEF s, W
    <2>4. ~s.ok
      BY <1>1, <2>2, <2>3 DEF ReadTo
    <2>5. s.out = f[W]
      BY <2>2, <2>4 DEF ReadTo
    <2>6. QED
      BY <2>5 DEF s
  <1>12. QED
    BY <1>6, <1>7, <1>11

(* Any block is read as it was meant, and of any file, from wherever it is *)
(* read, what is behind that position is delivered once and in order up to *)
(* a blob that is cut off (parsePrimitiveBlock, next, readBlob, seekTo).   *)
THEOREM BlocksAndFilesRead == Spec => []PbfIsRead
  <1>1. HasInput => PbfIsRead
    <2>1. ASSUME HasInput, part = "block"
          PROVE  Decode(EncodeBlock(input)) = Meant(input)
      <3>1. input \in PrimitiveBlocks
        BY <2>1, InputsAssumption DEF HasInput, Inputs
      <3>2. QED
        BY <3>1, BlockRead
    <2>2. ASSUME HasInput, part = "file"
          PROVE  ReadFrom(EncodeFile(input.file), input.pos) = MeantFrom(input.file, input.pos)
      <3>1. input \in [file : Seq(Blobs), pos : Nat \ {0}]
        BY <2>2, InputsAssumption DEF HasInput, Inputs
      <3>2. input.file \in Seq(Blobs) /\ input.pos \in Nat \ {0}
        BY <3>1
      <3>3. QED
        BY <3>2, FileRead
    <2>3. QED
      BY <2>1, <2>2 DEF PbfIsRead
  <1>2. QED
    BY <1>1, InputGiven, PTL

------------------------------------------------------------------------------
(* Change files *)

(* The states of the parser, from the definition of Parsed. *)
Parses(g, from, events) ==
    /\ g[0] = from
    /\ \A i \in 0 .. Len(events) - 1 : g[i + 1] = Handle(g[i], events[i + 1])
    /\ Parsed(from, events) = g[Len(events)]

(* The parser takes one event after the other. *)
LEMMA ParsedSteps ==
    ASSUME NEW from, NEW events, IsSeq(events)
    PROVE  \E g : Parses(g, from, events)
  <1> DEFINE N == Len(events)
             Is(g, n) == g = [i \in 0 .. n |-> IF i = 0 THEN from ELSE Handle(g[i - 1], events[i])]
             S == {n \in 0 .. N : \E g : Is(g, n)}
             state == CHOOSE g : Is(g, N)
  <1>1. N \in Nat
    BY DEF IsSeq
  <1>2. 0 \in S
    <2>1. Is([i \in 0 .. 0 |-> from], 0)
      OBVIOUS
    <2> HIDE DEF Is
    <2>2. QED
      BY <1>1, <2>1
  <1>3. ASSUME NEW n \in 0 .. N - 1, n \in S
        PROVE  n + 1 \in S
    <2>1. PICK g : Is(g, n)
      BY <1>3
    <2> DEFINE h == [i \in 0 .. n + 1 |-> IF i \in 0 .. n THEN g[i]
                                          ELSE Handle(g[n], events[n + 1])]
               k == [i \in 0 .. n + 1 |-> IF i = 0 THEN from ELSE Handle(h[i - 1], events[i])]
    <2>2. ASSUME NEW i \in 0 .. n + 1
          PROVE  h[i] = k[i]
      <3>1. CASE i = 0
        <4>1. g[0] = from
          BY <1>1, <2>1
        <4>2. h[0] = g[0]
          BY <1>1
        <4>3. QED
          BY <3>1, <4>1, <4>2
      <3>2. CASE i \in 1 .. n
        <4>1. i \in 0 .. n /\ i - 1 \in 0 .. n /\ i # 0
          BY <1>1, <3>2
        <4>2. g[i] = Handle(g[i - 1], events[i])
          BY <2>1, <4>1
        <4>3. h[i] = g[i] /\ h[i - 1] = g[i - 1]
          BY <1>1, <4>1
        <4>4. k[i] = Handle(h[i - 1], events[i])
          BY <4>1
        <4> HIDE DEF h, k
        <4>5. QED
          BY <4>2, <4>3, <4>4
      <3>3. CASE i = n + 1
        <4>1. n + 1 \notin 0 .. n /\ n + 1 - 1 = n /\ n \in 0 .. n /\ n \in 0 .. n + 1 /\ n + 1 # 0
          BY <1>1
        <4>2. h[n + 1] = Handle(g[n], events[n + 1]) /\ h[n] = g[n]
          BY <1>1, <4>1
        <4>3. k[n + 1] = Handle(h[n], events[n + 1])
          BY <4>1
        <4> HIDE DEF h, k
        <4>4. QED
          BY <3>3, <4>2, <4>3
      <3>4. QED
        BY <1>1, <3>1, <3>2, <3>3
    <2>3. h = [i \in 0 .. n + 1 |-> h[i]] /\ k = [i \in 0 .. n + 1 |-> k[i]]
      OBVIOUS
    <2>4. h = k
      <3> HIDE DEF h, k
      <3>1. QED
        BY <2>2, <2>3
    <2>5. Is(h, n + 1)
      BY <2>4, Zenon
    <2>6. n + 1 \in 0 .. N
      BY <1>1
    <2> HIDE DEF Is
    <2>7. QED
      BY <2>5, <2>6
  <1>4. N \in S
    <2> HIDE DEF S, N
    <2>1. N \in 0 .. N
      BY <1>1
    <2>2. QED
      BY <1>1, <1>2, <1>3, <2>1, UpTo
  <1>5. Is(state, N)
    <2> HIDE DEF Is
    <2>1. QED
      BY <1>4
  <1>6. Parsed(from, events) = state[N]
    BY Zenon DEF Parsed
  <1> HIDE DEF state
  <1>7. state[0] = from
    BY <1>1, <1>5
  <1>8. ASSUME NEW i \in 0 .. N - 1
        PROVE  state[i + 1] = Handle(state[i], events[i + 1])
    <2>1. i + 1 \in 0 .. N /\ i + 1 # 0 /\ i + 1 - 1 = i
      BY <1>1
    <2> DEFINE h == [j \in 0 .. N |-> IF j = 0 THEN from ELSE Handle(state[j - 1], events[j])]
    <2>2. state = h
      BY <1>5, Zenon
    <2>3. h[i + 1] = Handle(state[i], events[i + 1])
      BY <2>1
    <2> HIDE DEF h
    <2>4. QED
      BY <2>2, <2>3
  <1>9. QED
    BY <1>6, <1>7, <1>8 DEF Parses

(* What is parsed first is parsed first. *)
Agree(g, h, n) == g[n] = h[n]

(* Two parsers that get the same events first agree on them. *)
LEMMA ParsedFirst ==
    ASSUME NEW from, NEW r, NEW s, NEW g, NEW h, IsSeq(r), IsSeq(s),
           Parses(g, from, r), Parses(h, from, s), Leads(s, r), NEW n \in 0 .. Len(s)
    PROVE  Agree(g, h, n)
  <1> DEFINE N == Len(s)
             T == {i \in 0 .. N : g[i] = h[i]}
  <1>1. N \in Nat /\ Len(r) \in Nat /\ N <= Len(r)
    BY DEF IsSeq, Leads
  <1>2. 0 \in T
    BY <1>1 DEF Parses
  <1>3. ASSUME NEW i \in 0 .. N - 1, i \in T
        PROVE  i + 1 \in T
    <2>1. i \in 0 .. Len(r) - 1 /\ i + 1 \in 1 .. N /\ i + 1 \in 0 .. N
      BY <1>1
    <2>2. r[i + 1] = s[i + 1]
      BY <2>1 DEF Leads
    <2>3. g[i + 1] = Handle(g[i], r[i + 1]) /\ h[i + 1] = Handle(h[i], s[i + 1]) /\ g[i] = h[i]
      BY <1>3, <2>1 DEF Parses
    <2>4. QED
      BY <2>1, <2>2, <2>3
  <1>4. n \in T
    <2> HIDE DEF T, N
    <2>1. \A i \in 0 .. N : i \in T
      BY <1>1, <1>2, <1>3, UpTo
    <2>2. QED
      BY <2>1 DEF N
  <1>5. QED
    BY <1>4 DEF Agree

(* One event. *)
LEMMA ParsedOne ==
    ASSUME NEW s, NEW event
    PROVE  Parsed(s, <<event>>) = Handle(s, event)
  <1>1. IsSeq(<<event>>) /\ Len(<<event>>) = 1 /\ <<event>>[1] = event
    BY DEF IsSeq, ToSet
  <1>2. PICK g : Parses(g, s, <<event>>)
    BY <1>1, ParsedSteps
  <1>3. 0 \in 0 .. 1 - 1 /\ 0 + 1 = 1
    OBVIOUS
  <1>4. g[0 + 1] = Handle(g[0], <<event>>[0 + 1]) /\ g[0] = s /\ Parsed(s, <<event>>) = g[1]
    BY <1>1, <1>2, <1>3 DEF Parses
  <1>5. QED
    BY <1>1, <1>3, <1>4

(* No event. *)
LEMMA ParsedNone ==
    ASSUME NEW s
    PROVE  Parsed(s, <<>>) = s
  <1>1. IsSeq(<<>>) /\ Len(<<>>) = 0
    BY DEF IsSeq
  <1>2. PICK g : Parses(g, s, <<>>)
    BY <1>1, ParsedSteps
  <1>3. QED
    BY <1>1, <1>2 DEF Parses

(* Concatenated sequences of any elements. *)
LEMMA SeqJoins ==
    ASSUME NEW a, NEW b, IsSeq(a), IsSeq(b)
    PROVE  /\ IsSeq(a \o b) /\ Joins(a \o b, a, b)
           /\ Len(a) \in Nat /\ Len(b) \in Nat
  <1> DEFINE S == ToSet(a) \cup ToSet(b)
  <1>1. a \in Seq(S) /\ b \in Seq(S)
    BY DEF IsSeq
  <1> HIDE DEF S
  <1>2. Joins(a \o b, a, b)
    BY <1>1, Concatenated
  <1>3. QED
    BY <1>1, <1>2, SeqJoined

(* What is behind something is parsed from the state that leaves. *)
LEMMA ParsedJoined ==
    ASSUME NEW s, NEW a, NEW b, IsSeq(a), IsSeq(b)
    PROVE  Parsed(s, a \o b) = Parsed(Parsed(s, a), b)
  <1> DEFINE c == a \o b
             M == Len(a)
             N == Len(b)
  <1>1. IsSeq(c) /\ Joins(c, a, b) /\ M \in Nat /\ N \in Nat
    BY SeqJoins
  <1>2. PICK g : Parses(g, s, c)
    BY <1>1, ParsedSteps
  <1>3. PICK h : Parses(h, s, a)
    BY ParsedSteps
  <1>4. PICK k : Parses(k, Parsed(s, a), b)
    BY ParsedSteps
  <1> HIDE DEF c
  <1>5. g[M] = Parsed(s, a)
    <2>1. Leads(a, c)
      BY <1>1 DEF Joins, Leads
    <2>2. M \in 0 .. Len(a)
      BY <1>1
    <2>3. Agree(g, h, M)
      BY <1>1, <1>2, <1>3, <2>1, <2>2, ParsedFirst
    <2>4. QED
      BY <1>3, <2>3 DEF Parses, Agree
  <1> DEFINE T == {i \in 0 .. N : g[M + i] = k[i]}
  <1>6. 0 \in T
    BY <1>1, <1>4, <1>5 DEF Parses
  <1>7. ASSUME NEW i \in 0 .. N - 1, i \in T
        PROVE  i + 1 \in T
    <2>1. M + i \in 0 .. Len(c) - 1 /\ M + i + 1 = M + (i + 1) /\ i + 1 \in 1 .. N /\ i + 1 \in 0 .. N
      BY <1>1 DEF Joins
    <2>2. g[M + i + 1] = Handle(g[M + i], c[M + i + 1])
      BY <1>2, <2>1 DEF Parses
    <2>3. c[M + (i + 1)] = b[i + 1]
      BY <1>1, <2>1 DEF Joins
    <2>4. k[i + 1] = Handle(k[i], b[i + 1]) /\ g[M + i] = k[i]
      BY <1>4, <1>7 DEF Parses
    <2>5. g[M + (i + 1)] = k[i + 1]
      BY <2>1, <2>2, <2>3, <2>4
    <2>6. QED
      BY <2>1, <2>5
  <1>8. N \in T
    <2> HIDE DEF T, N
    <2>1. N \in 0 .. N
      BY <1>1
    <2>2. QED
      BY <1>1, <1>6, <1>7, <2>1, UpTo
  <1>9. Len(c) = M + N
    BY <1>1 DEF Joins
  <1>10. QED
    BY <1>2, <1>4, <1>8, <1>9 DEF Parses, c

(* An element: its start, what is in it, its end. *)
LEMMA ElementParsed ==
    ASSUME NEW s, NEW e, NEW inner, IsSeq(inner)
    PROVE  /\ IsSeq(Element(e, inner))
           /\ Parsed(s, Element(e, inner)) = endElement(Parsed(startElement(s, e), inner), e)
  <1> DEFINE start == [start |-> TRUE, e |-> e]
             end == [start |-> FALSE, e |-> e]
             t == Parsed(startElement(s, e), inner)
  <1>1. Handle(s, start) = startElement(s, e) /\ Handle(t, end) = endElement(t, e)
    BY DEF Handle
  <1>2. Element(e, inner) = <<start>> \o inner \o <<end>>
    BY DEF Element
  <1> HIDE DEF start, end, t
  <1>3. IsSeq(<<start>>) /\ IsSeq(<<end>>)
    BY DEF IsSeq, ToSet
  <1>4. IsSeq(<<start>> \o inner) /\ IsSeq(<<start>> \o inner \o <<end>>)
    BY <1>3, SeqJoined
  <1>5. Parsed(s, <<start>> \o inner) = t
    <2>1. Parsed(s, <<start>>) = startElement(s, e)
      BY <1>1, ParsedOne
    <2>2. QED
      BY <1>3, <2>1, ParsedJoined DEF t
  <1>6. Parsed(s, <<start>> \o inner \o <<end>>) = Parsed(t, <<end>>)
    BY <1>3, <1>4, <1>5, ParsedJoined
  <1>7. Parsed(t, <<end>>) = endElement(t, e)
    BY <1>1, ParsedOne
  <1>8. QED
    BY <1>2, <1>4, <1>6, <1>7 DEF t

(* Changes that were delivered stay delivered. *)
HasOut(s) == "out" \in DOMAIN s /\ IsSeq(s.out)

(* What is appended to leaves the sequence in front. *)
LEMMA SeqAppended ==
    ASSUME NEW s, NEW x, IsSeq(s)
    PROVE  IsSeq(Append(s, x)) /\ Leads(s, Append(s, x))
  <1> DEFINE S == ToSet(s) \cup {x}
  <1>1. s \in Seq(S) /\ x \in S
    BY DEF IsSeq
  <1> HIDE DEF S
  <1>2. Append(s, x) \in Seq(S) /\ Len(Append(s, x)) = Len(s) + 1 /\ Len(s) \in Nat
        /\ \A i \in 1 .. Len(s) : Append(s, x)[i] = s[i]
    BY <1>1
  <1>3. IsSeq(Append(s, x))
    BY <1>2, SeqOfSet
  <1>4. Leads(s, Append(s, x))
    BY <1>2 DEF Leads
  <1>5. QED
    BY <1>3, <1>4

(* No event takes back a change. *)
LEMMA OutGrows ==
    ASSUME NEW s, NEW event, HasOut(s)
    PROVE  HasOut(Handle(s, event)) /\ Leads(s.out, Handle(s, event).out)
  <1>1. Leads(s.out, s.out)
    BY DEF Leads, HasOut, IsSeq
  <1>2. ASSUME NEW e
        PROVE  HasOut(startElement(s, e)) /\ startElement(s, e).out = s.out
    <2>1. \A t : \/ t = s
                 \/ \E x : t = [s EXCEPT !.change = x]
                 \/ \E x : t = [s EXCEPT !.made = x]
                 \/ \E x, y : t = [s EXCEPT !.in = x, !.made = y]
                 => HasOut(t) /\ t.out = s.out
      BY DEF HasOut
    <2>2. CASE e.name \in Blocks
      <3>1. startElement(s, e) = [s EXCEPT !.change = e.name]
        BY <2>2 DEF startElement, Blocks, Sorts
      <3>2. QED
        BY <2>1, <3>1
    <2>3. CASE e.name \in Sorts
      <3>1. startElement(s, e) = StartEntity(s, e)
        BY <2>3 DEF startElement, Blocks, Sorts
      <3> DEFINE x == s.in \cup {e.name}
                 y == [s.made EXCEPT ![e.name] = [NoEntity EXCEPT !.id = e.id]]
      <3>2. StartEntity(s, e) = [s EXCEPT !.in = x, !.made = y]
        BY DEF StartEntity
      <3> HIDE DEF x, y
      <3>3. HasOut([s EXCEPT !.in = x, !.made = y]) /\ [s EXCEPT !.in = x, !.made = y].out = s.out
        BY DEF HasOut
      <3>4. QED
        BY <3>1, <3>2, <3>3
    <2>4. CASE e.name = "tag"
      <3>1. startElement(s, e) = AddTag(s, e)
        BY <2>4 DEF startElement, Blocks, Sorts
      <3> DEFINE m == [x \in Sorts |-> IF x \in s.in
                                      THEN [s.made[x] EXCEPT !.tags = @ \cup {<<e.k, e.v>>}]
                                      ELSE s.made[x]]
      <3>2. AddTag(s, e) = s \/ AddTag(s, e) = [s EXCEPT !.made = m]
        BY DEF AddTag
      <3> HIDE DEF m
      <3>3. CASE AddTag(s, e) = s
        BY <2>1, <3>1, <3>3
      <3>4. CASE AddTag(s, e) = [s EXCEPT !.made = m]
        <4>1. HasOut([s EXCEPT !.made = m]) /\ [s EXCEPT !.made = m].out = s.out
          BY DEF HasOut
        <4>2. QED
          BY <3>1, <3>4, <4>1
      <3>5. QED
        BY <3>2, <3>3, <3>4
    <2>5. CASE e.name = "nd"
      <3>1. startElement(s, e) = AddRef(s, e)
        BY <2>5 DEF startElement, Blocks, Sorts
      <3>2. \/ AddRef(s, e) = s
            \/ AddRef(s, e) = [s EXCEPT !.made =
                 [s.made EXCEPT !["way"].refs = Append(s.made["way"].refs, e.ref)]]
        BY DEF AddRef
      <3>3. QED
        BY <2>1, <3>1, <3>2
    <2>6. CASE e.name = "member"
      <3>1. startElement(s, e) = AddMember(s, e)
        BY <2>6 DEF startElement, Blocks, Sorts
      <3>2. \/ AddMember(s, e) = s
            \/ AddMember(s, e) = [s EXCEPT !.made =
                 [s.made EXCEPT !["relation"].members =
                    Append(s.made["relation"].members, <<e.ref, e.role>>)]]
        BY DEF AddMember
      <3>3. QED
        BY <2>1, <3>1, <3>2
    <2>7. CASE e.name \notin Blocks \cup Sorts \cup {"tag", "nd", "member"}
      <3>1. startElement(s, e) = s
        BY <2>7 DEF startElement
      <3>2. QED
        BY <2>1, <3>1
    <2>8. QED
      BY <2>2, <2>3, <2>4, <2>5, <2>6, <2>7
  <1>3. ASSUME NEW e
        PROVE  HasOut(endElement(s, e)) /\ Leads(s.out, endElement(s, e).out)
    <2> DEFINE x == <<s.change, e.name, s.made[e.name]>>
               t == endElement(s, e)
    <2>1. CASE e.name \in s.in
      <3>1. t = [s EXCEPT !.in = s.in \ {e.name}, !.out = Append(s.out, x)]
        BY <2>1 DEF endElement
      <3> HIDE DEF x, t
      <3>2. "out" \in DOMAIN t /\ t.out = Append(s.out, x)
        BY <3>1 DEF HasOut
      <3>3. IsSeq(Append(s.out, x)) /\ Leads(s.out, Append(s.out, x))
        BY SeqAppended DEF HasOut
      <3>4. QED
        BY <3>2, <3>3 DEF HasOut, t
    <2>2. CASE e.name \notin s.in
      BY <1>1, <2>2 DEF endElement
    <2>3. QED
      BY <2>1, <2>2
  <1>4. QED
    BY <1>1, <1>2, <1>3 DEF Handle

(* Of events that break off, a first part of the changes arrives. *)
LEMMA ChangesFirst ==
    ASSUME NEW events, IsSeq(events), NEW n \in DOMAIN events
    PROVE  IsPrefix(parse(SubSeq(events, 1, n)), parse(events))
  <1> DEFINE N == Len(events)
             some == SubSeq(events, 1, n)
  <1>1. N \in Nat /\ n \in 1 .. N
    BY DEF IsSeq
  <1>2. IsSeq(some) /\ Leads(some, events) /\ Len(some) = n
    <2> DEFINE S == ToSet(events)
    <2>1. events \in Seq(S)
      BY DEF IsSeq
    <2> HIDE DEF S
    <2>2. some \in Seq(S) /\ Len(some) = n /\ \A i \in 1 .. n : some[i] = events[i]
      BY <1>1, <2>1
    <2> HIDE DEF some
    <2>3. QED
      BY <1>1, <2>2, SeqOfSet DEF Leads
  <1> HIDE DEF some
  <1>3. PICK g : Parses(g, Fresh, events)
    BY ParsedSteps
  <1>4. PICK h : Parses(h, Fresh, some)
    BY <1>2, ParsedSteps
  <1>5. g[n] = Parsed(Fresh, some)
    <2>1. n \in 0 .. Len(some)
      BY <1>1, <1>2
    <2>2. Agree(g, h, n)
      BY <1>2, <1>3, <1>4, <2>1, ParsedFirst
    <2>3. QED
      BY <1>2, <1>4, <2>2 DEF Agree, Parses
  <1> DEFINE T == {i \in 0 .. N : /\ HasOut(g[i])
                                  /\ i >= n => Leads(g[n].out, g[i].out)}
  <1>6. 0 \in T
    <2>1. g[0] = Fresh
      BY <1>3 DEF Parses
    <2>2. HasOut(Fresh)
      BY DEF HasOut, Fresh, IsSeq
    <2>3. QED
      BY <1>1, <2>1, <2>2
  <1>7. ASSUME NEW i \in 0 .. N - 1, i \in T
        PROVE  i + 1 \in T
    <2>1. g[i + 1] = Handle(g[i], events[i + 1]) /\ i + 1 \in 0 .. N
      BY <1>1, <1>3 DEF Parses
    <2>2. HasOut(g[i])
      BY <1>7
    <2>3. HasOut(g[i + 1]) /\ Leads(g[i].out, g[i + 1].out)
      BY <2>1, <2>2, OutGrows
    <2>4. ASSUME i + 1 >= n
          PROVE  Leads(g[n].out, g[i + 1].out)
      <3>1. CASE i >= n
        <4>1. Leads(g[n].out, g[i].out) /\ HasOut(g[i])
          BY <1>7, <3>1
        <4> DEFINE a == g[n].out
                   b == g[i].out
                   c == g[i + 1].out
        <4>2. Leads(a, b) /\ Leads(b, c) /\ Len(b) \in Nat
          BY <2>3, <4>1 DEF HasOut, IsSeq
        <4> HIDE DEF a, b, c
        <4>3. Len(a) <= Len(c) /\ \A j \in 1 .. Len(a) : c[j] = a[j]
          BY <4>2 DEF Leads
        <4>4. Leads(a, c)
          BY <4>3 DEF Leads
        <4>5. QED
          BY <4>4 DEF a, c
      <3>2. CASE i + 1 = n
        BY <2>3, <3>2 DEF Leads, HasOut, IsSeq
      <3>3. QED
        BY <1>1, <2>4, <3>1, <3>2
    <2>5. QED
      BY <2>1, <2>3, <2>4
  <1>8. n \in T /\ N \in T
    <2> HIDE DEF T, N
    <2>1. n \in 0 .. N /\ N \in 0 .. N
      BY <1>1
    <2>2. \A i \in 0 .. N : i \in T
      BY <1>1, <1>6, <1>7, UpTo
    <2>3. QED
      BY <2>1, <2>2
  <1> DEFINE a == g[n].out
             b == g[N].out
  <1>9. IsSeq(a) /\ IsSeq(b) /\ Leads(a, b)
    BY <1>1, <1>8 DEF HasOut
  <1>10. parse(some) = a /\ parse(events) = b
    BY <1>3, <1>5 DEF parse, Parses
  <1> HIDE DEF a, b
  <1>11. IsPrefix(a, b)
    <2>1. a \in Seq(ToSet(a)) /\ b \in Seq(ToSet(b))
      BY <1>9 DEF IsSeq
    <2>2. Len(a) \in Nat /\ Len(b) \in Nat /\ Len(a) <= Len(b) /\ \A i \in 1 .. Len(a) : b[i] = a[i]
      BY <1>9, <2>1 DEF Leads
    <2>3. SubSeq(a, 1, Len(a)) = SubSeq(b, 1, Len(a))
      <3> DEFINE p == SubSeq(a, 1, Len(a))
                 q == SubSeq(b, 1, Len(a))
      <3>1. p = [i \in 1 .. Len(a) |-> a[i]] /\ q = [i \in 1 .. Len(a) |-> b[i]]
        BY <2>1, <2>2
      <3>2. [i \in 1 .. Len(a) |-> a[i]] = [i \in 1 .. Len(a) |-> b[i]]
        BY <2>2
      <3>3. QED
        BY <3>1, <3>2
    <2>4. QED
      BY <2>2, <2>3 DEF IsPrefix
  <1>12. QED
    BY <1>10, <1>11 DEF some

EntityType == [id : Int, tags : SUBSET (STRING \X STRING), refs : Seq(Int),
               members : Seq(Int \X STRING)]
StateType == [change : Blocks, in : SUBSET Sorts, made : [Sorts -> EntityType],
              out : Seq(Blocks \X Sorts \X EntityType)]

(* What a child adds to the entity it is in. *)
TagsOf(c) == IF c.name = "tag" THEN {<<c.k, c.v>>} ELSE {}
RefsOf(sort, c) == IF sort = "way" /\ c.name = "nd" THEN <<c.ref>> ELSE <<>>
MembersOf(sort, c) ==
    IF sort = "relation" /\ c.name = "member" /\ c.type = "way" THEN <<<<c.ref, c.role>>>> ELSE <<>>

Made(id, tags, refs, members) == [id |-> id, tags |-> tags, refs |-> refs, members |-> members]

(* An entity by its fields. *)
LEMMA EntityFields ==
    ASSUME NEW m \in EntityType
    PROVE  /\ m.id \in Int /\ m.tags \in SUBSET (STRING \X STRING)
           /\ m.refs \in Seq(Int) /\ m.members \in Seq(Int \X STRING)
           /\ m = Made(m.id, m.tags, m.refs, m.members)
           /\ \A y : /\ [m EXCEPT !.tags = y] = Made(m.id, y, m.refs, m.members)
                    /\ [m EXCEPT !.refs = y] = Made(m.id, m.tags, y, m.members)
                    /\ [m EXCEPT !.members = y] = Made(m.id, m.tags, m.refs, y)
  <1>1. /\ m.id \in Int /\ m.tags \in SUBSET (STRING \X STRING)
        /\ m.refs \in Seq(Int) /\ m.members \in Seq(Int \X STRING)
        /\ m = [id |-> m.id, tags |-> m.tags, refs |-> m.refs, members |-> m.members]
    BY DEF EntityType
  <1>2. ASSUME NEW y
        PROVE  /\ [m EXCEPT !.tags = y] = Made(m.id, y, m.refs, m.members)
               /\ [m EXCEPT !.refs = y] = Made(m.id, m.tags, y, m.members)
               /\ [m EXCEPT !.members = y] = Made(m.id, m.tags, m.refs, y)
    <2>1. [m EXCEPT !.tags = y] = Made(m.id, y, m.refs, m.members)
      BY DEF EntityType, Made
    <2>2. [m EXCEPT !.refs = y] = Made(m.id, m.tags, y, m.members)
      <3> DEFINE a == [m EXCEPT !.refs = y]
                 b == [id |-> m.id, tags |-> m.tags, refs |-> y, members |-> m.members]
                 D == {"id", "tags", "refs", "members"}
      <3>1. DOMAIN m = D
        BY DEF EntityType
      <3>2. a = [k \in D |-> a[k]] /\ b = [k \in D |-> b[k]]
        BY <3>1
      <3>3. a["id"] = b["id"] /\ a["tags"] = b["tags"] /\ a["refs"] = b["refs"]
            /\ a["members"] = b["members"]
        BY <3>1
      <3> HIDE DEF a, b
      <3>4. a = b
        BY <3>2, <3>3
      <3>5. QED
        BY <3>4 DEF Made, a, b
    <2>3. [m EXCEPT !.members = y] = Made(m.id, m.tags, m.refs, y)
      BY DEF EntityType, Made
    <2>4. QED
      BY <2>1, <2>2, <2>3
  <1>3. QED
    BY <1>1, <1>2 DEF Made

(* What is made of fields is an entity. *)
LEMMA MadeType ==
    ASSUME NEW i \in Int, NEW t \in SUBSET (STRING \X STRING), NEW r \in Seq(Int),
           NEW m \in Seq(Int \X STRING)
    PROVE  Made(i, t, r, m) \in EntityType
  BY DEF EntityType, Made

Keeps(s, t) == t \in StateType /\ t.change = s.change /\ t.in = s.in /\ t.out = s.out
Adds(s, t, sort, c) ==
    t.made[sort] = Made(s.made[sort].id,
                        s.made[sort].tags \cup TagsOf(c),
                        s.made[sort].refs \o RefsOf(sort, c),
                        s.made[sort].members \o MembersOf(sort, c))

(* A child adds to the entity it is in, and to nothing else. *)
LEMMA ChildStarted ==
    ASSUME NEW s \in StateType, NEW c, LegalChild(c)
    PROVE  /\ Keeps(s, startElement(s, c))
           /\ \A sort \in Sorts : s.in = {sort} => Adds(s, startElement(s, c), sort, c)
  <1> DEFINE t == startElement(s, c)
  <1>1. /\ s.change \in Blocks /\ s.in \subseteq Sorts /\ s.made \in [Sorts -> EntityType]
        /\ s.out \in Seq(Blocks \X Sorts \X EntityType)
    BY DEF StateType
  <1>2. ASSUME NEW sort \in Sorts
        PROVE  /\ s.made[sort] \in EntityType
               /\ s.made[sort].id \in Int /\ s.made[sort].tags \in SUBSET (STRING \X STRING)
               /\ s.made[sort].refs \in Seq(Int) /\ s.made[sort].members \in Seq(Int \X STRING)
               /\ s.made[sort] = Made(s.made[sort].id, s.made[sort].tags, s.made[sort].refs,
                                      s.made[sort].members)
    <2>1. s.made[sort] \in EntityType
      BY <1>1
    <2>2. QED
      BY <2>1, EntityFields
  <1>3. \A sort \in Sorts : /\ s.made[sort].refs \o <<>> = s.made[sort].refs
                            /\ s.made[sort].members \o <<>> = s.made[sort].members
                            /\ s.made[sort].tags \cup {} = s.made[sort].tags
    BY <1>2
  <1>4. ASSUME t = s, \A sort \in Sorts : s.in = {sort} =>
                        TagsOf(c) = {} /\ RefsOf(sort, c) = <<>> /\ MembersOf(sort, c) = <<>>
        PROVE  /\ Keeps(s, t)
               /\ \A sort \in Sorts : s.in = {sort} => Adds(s, t, sort, c)
    <2>1. Keeps(s, t)
      BY <1>4 DEF Keeps
    <2>2. ASSUME NEW sort \in Sorts, s.in = {sort}
          PROVE  Adds(s, t, sort, c)
      <3>1. TagsOf(c) = {} /\ RefsOf(sort, c) = <<>> /\ MembersOf(sort, c) = <<>>
        BY <1>4, <2>2
      <3> HIDE DEF t
      <3>2. Adds(s, s, sort, c)
        BY <1>2, <1>3, <3>1 DEF Adds
      <3>3. QED
        BY <1>4, <3>2
    <2>3. QED
      BY <2>1, <2>2
  <1>5. CASE c.name = "tag"
    <2> DEFINE r(x) == [s.made[x] EXCEPT !.tags = @ \cup {<<c.k, c.v>>}]
               m == [x \in Sorts |-> IF x \in s.in THEN r(x) ELSE s.made[x]]
    <2>1. {"k", "v"} \subseteq DOMAIN c /\ <<c.k, c.v>> \in STRING \X STRING
      BY <1>5 DEF LegalChild
    <2>2. t = [s EXCEPT !.made = m]
      BY <1>5, <2>1 DEF startElement, AddTag, Blocks, Sorts
    <2>3. ASSUME NEW x \in Sorts
          PROVE  /\ r(x) = Made(s.made[x].id, s.made[x].tags \cup {<<c.k, c.v>>},
                                s.made[x].refs, s.made[x].members)
                 /\ s.made[x].tags \cup {<<c.k, c.v>>} \in SUBSET (STRING \X STRING)
      BY <1>2, <2>1, EntityFields
    <2> HIDE DEF r
    <2>4. m \in [Sorts -> EntityType]
      <3>1. ASSUME NEW x \in Sorts
            PROVE  r(x) \in EntityType
        <4>1. Made(s.made[x].id, s.made[x].tags \cup {<<c.k, c.v>>},
                   s.made[x].refs, s.made[x].members) \in EntityType
          BY <1>2, <2>3, MadeType
        <4>2. QED
          BY <2>3, <4>1
      <3>2. QED
        BY <1>2, <3>1
    <2>5. ASSUME NEW sort \in Sorts, s.in = {sort}
          PROVE  m[sort] = Made(s.made[sort].id,
                                s.made[sort].tags \cup TagsOf(c),
                                s.made[sort].refs \o RefsOf(sort, c),
                                s.made[sort].members \o MembersOf(sort, c))
      <3>1. m[sort] = r(sort)
        BY <2>5
      <3>2. TagsOf(c) = {<<c.k, c.v>>} /\ RefsOf(sort, c) = <<>> /\ MembersOf(sort, c) = <<>>
        BY <1>5 DEF TagsOf, RefsOf, MembersOf
      <3> HIDE DEF m
      <3>3. /\ s.made[sort].refs \o RefsOf(sort, c) = s.made[sort].refs
            /\ s.made[sort].members \o MembersOf(sort, c) = s.made[sort].members
        BY <1>3, <3>2
      <3>4. QED
        BY <2>3, <3>1, <3>2, <3>3
    <2> HIDE DEF m
    <2>6. Keeps(s, t) /\ t.made = m
      BY <1>1, <2>2, <2>4 DEF Keeps, StateType
    <2> HIDE DEF t
    <2>7. QED
      BY <2>5, <2>6 DEF Adds, t
  <1>6. CASE c.name = "nd"
    <2>1. t = AddRef(s, c) /\ c.ref \in Int /\ c.ref # 0
      BY <1>6 DEF startElement, Blocks, Sorts, LegalChild
    <2>2. CASE "way" \in s.in
      <3> DEFINE r == [s.made["way"] EXCEPT !.refs = Append(@, c.ref)]
                 m == [s.made EXCEPT !["way"] = r]
      <3>1. t = [s EXCEPT !.made = m]
        BY <2>1, <2>2 DEF AddRef
      <3>2. "way" \in Sorts
        BY DEF Sorts
      <3>3. r = Made(s.made["way"].id, s.made["way"].tags,
                     Append(s.made["way"].refs, c.ref), s.made["way"].members)
        BY <1>2, <3>2, EntityFields
      <3>9. /\ Append(s.made["way"].refs, c.ref) \in Seq(Int)
            /\ s.made["way"].refs \o <<c.ref>> = Append(s.made["way"].refs, c.ref)
        <4> DEFINE l == s.made["way"].refs
        <4>1. l \in Seq(Int)
          BY <1>2, <3>2
        <4> HIDE DEF l
        <4>2. Append(l, c.ref) \in Seq(Int) /\ l \o <<c.ref>> = Append(l, c.ref)
          BY <2>1, <4>1
        <4>3. QED
          BY <4>2 DEF l
      <3>4. r \in EntityType
        <4> HIDE DEF r
        <4>1. QED
          BY <1>2, <3>2, <3>3, <3>9, MadeType
      <3> HIDE DEF r
      <3>5. m \in [Sorts -> EntityType] /\ m["way"] = r
        BY <1>1, <3>2, <3>4
      <3> HIDE DEF m
      <3>6. Keeps(s, t) /\ t.made = m
        BY <1>1, <3>1, <3>5 DEF Keeps, StateType
      <3>7. ASSUME NEW sort \in Sorts, s.in = {sort}
            PROVE  Adds(s, t, sort, c)
        <4>1. sort = "way"
          BY <2>2, <3>7
        <4>2. TagsOf(c) = {} /\ RefsOf("way", c) = <<c.ref>> /\ MembersOf("way", c) = <<>>
          BY <1>6 DEF TagsOf, RefsOf, MembersOf
        <4> HIDE DEF t
        <4>3. QED
          BY <1>3, <3>2, <3>3, <3>5, <3>6, <3>9, <4>1, <4>2 DEF Adds
      <3>8. QED
        BY <3>6, <3>7
    <2>3. CASE "way" \notin s.in
      <3>1. t = s
        BY <2>1, <2>3 DEF AddRef
      <3>2. \A sort \in Sorts : s.in = {sort} =>
              TagsOf(c) = {} /\ RefsOf(sort, c) = <<>> /\ MembersOf(sort, c) = <<>>
        BY <1>6, <2>3 DEF TagsOf, RefsOf, MembersOf
      <3>3. QED
        BY <1>4, <3>1, <3>2
    <2>4. QED
      BY <2>2, <2>3
  <1>7. CASE c.name = "member"
    <2>1. t = AddMember(s, c) /\ c.ref \in Int /\ c.ref # 0 /\ c.role \in STRING
      BY <1>7 DEF startElement, Blocks, Sorts, LegalChild
    <2>2. CASE "relation" \in s.in /\ c.type = "way"
      <3> DEFINE x == <<c.ref, c.role>>
                 r == [s.made["relation"] EXCEPT !.members = Append(@, x)]
                 m == [s.made EXCEPT !["relation"] = r]
      <3>1. t = [s EXCEPT !.made = m]
        BY <2>1, <2>2 DEF AddMember
      <3>2. "relation" \in Sorts /\ x \in Int \X STRING
        BY <2>1 DEF Sorts
      <3> HIDE DEF x
      <3>3. r = Made(s.made["relation"].id, s.made["relation"].tags,
                     s.made["relation"].refs, Append(s.made["relation"].members, x))
        <4> DEFINE e == s.made["relation"]
                   l == Append(s.made["relation"].members, x)
        <4>1. e \in EntityType
          BY <1>2, <3>2
        <4>2. r = [e EXCEPT !.members = l]
          OBVIOUS
        <4> HIDE DEF e, l, r
        <4>3. r = Made(e.id, e.tags, e.refs, l)
          BY <4>1, <4>2, EntityFields
        <4>4. QED
          BY <4>3 DEF e, l
      <3>9. /\ Append(s.made["relation"].members, x) \in Seq(Int \X STRING)
            /\ s.made["relation"].members \o <<x>> = Append(s.made["relation"].members, x)
        <4> DEFINE M == Int \X STRING
                   l == s.made["relation"].members
        <4>1. l \in Seq(M) /\ x \in M
          BY <1>2, <3>2
        <4> HIDE DEF M, l
        <4>2. Append(l, x) \in Seq(M) /\ l \o <<x>> = Append(l, x)
          BY <4>1
        <4>3. QED
          BY <4>2 DEF l, M
      <3>4. r \in EntityType
        <4> HIDE DEF r
        <4>1. QED
          BY <1>2, <3>2, <3>3, <3>9, MadeType
      <3> HIDE DEF r
      <3>5. m \in [Sorts -> EntityType] /\ m["relation"] = r
        BY <1>1, <3>2, <3>4
      <3> HIDE DEF m
      <3>6. Keeps(s, t) /\ t.made = m
        BY <1>1, <3>1, <3>5 DEF Keeps, StateType
      <3>7. ASSUME NEW sort \in Sorts, s.in = {sort}
            PROVE  Adds(s, t, sort, c)
        <4>1. sort = "relation"
          BY <2>2, <3>7
        <4>2. TagsOf(c) = {} /\ RefsOf("relation", c) = <<>> /\ MembersOf("relation", c) = <<x>>
          BY <1>7, <2>2 DEF TagsOf, RefsOf, MembersOf, x
        <4> HIDE DEF t
        <4>3. QED
          BY <1>3, <3>2, <3>3, <3>5, <3>6, <3>9, <4>1, <4>2 DEF Adds
      <3>8. QED
        BY <3>6, <3>7
    <2>3. CASE ~("relation" \in s.in /\ c.type = "way")
      <3>1. t = s
        BY <2>1, <2>3 DEF AddMember
      <3>2. \A sort \in Sorts : s.in = {sort} =>
              TagsOf(c) = {} /\ RefsOf(sort, c) = <<>> /\ MembersOf(sort, c) = <<>>
        BY <1>7, <2>3 DEF TagsOf, RefsOf, MembersOf
      <3>3. QED
        BY <1>4, <3>1, <3>2
    <2>4. QED
      BY <2>2, <2>3
  <1>8. CASE c.name \notin {"tag", "nd", "member"}
    <2>1. t = s
      BY <1>8 DEF startElement, LegalChild
    <2>2. \A sort \in Sorts : s.in = {sort} =>
            TagsOf(c) = {} /\ RefsOf(sort, c) = <<>> /\ MembersOf(sort, c) = <<>>
      BY <1>8 DEF TagsOf, RefsOf, MembersOf
    <2>3. QED
      BY <1>4, <2>1, <2>2
  <1>9. QED
    BY <1>5, <1>6, <1>7, <1>8

(* What is flattened is parsed piece by piece. *)
ParsesAll(g, s, seqs, N) ==
    /\ g[0] = s
    /\ \A i \in 0 .. N - 1 : g[i + 1] = Parsed(g[i], seqs[i + 1])
    /\ Parsed(s, FlattenSeq(seqs)) = g[N]

(* Parsing what is flattened, one state for each piece. *)
LEMMA ParsedFlat ==
    ASSUME NEW s, NEW N \in Nat, NEW seqs, seqs = [i \in 1 .. N |-> seqs[i]],
           \A i \in 1 .. N : IsSeq(seqs[i])
    PROVE  IsSeq(FlattenSeq(seqs)) /\ \E g : ParsesAll(g, s, seqs, N)
  <1>1. PICK S : \A i \in 1 .. N : seqs[i] \in Seq(S)
    BY SeqCommon
  <1>2. seqs \in [1 .. N -> Seq(S)]
    BY <1>1
  <1>3. PICK f \in [0 .. N -> Seq(S)] : Flattens(f, N, seqs)
    BY <1>2, Flattened
  <1>4. \A i \in 0 .. N : IsSeq(f[i])
    <2>1. ASSUME NEW i \in 0 .. N
          PROVE  IsSeq(f[i])
      <3>1. f[i] \in Seq(S)
        OBVIOUS
      <3>2. QED
        BY <3>1, SeqOfSet
    <2>2. QED
      BY <2>1
  <1>5. FlattenSeq(seqs) = f[N]
    BY <1>3 DEF Flattens
  <1> DEFINE g == [i \in 0 .. N |-> Parsed(s, f[i])]
  <1>6. g[0] = s
    BY <1>3, ParsedNone DEF Flattens
  <1>7. ASSUME NEW i \in 0 .. N - 1
        PROVE  g[i + 1] = Parsed(g[i], seqs[i + 1])
    <2>1. i \in 0 .. N /\ i + 1 \in 0 .. N /\ i + 1 \in 1 .. N
      OBVIOUS
    <2>2. f[i + 1] = f[i] \o seqs[i + 1]
      BY <1>3 DEF Flattens
    <2>3. IsSeq(f[i]) /\ IsSeq(seqs[i + 1])
      BY <1>4, <2>1
    <2>4. Parsed(s, f[i] \o seqs[i + 1]) = Parsed(Parsed(s, f[i]), seqs[i + 1])
      BY <2>3, ParsedJoined
    <2>5. QED
      BY <2>1, <2>2, <2>4
  <1>8. g[N] = Parsed(s, FlattenSeq(seqs))
    BY <1>5
  <1> HIDE DEF g
  <1>9. ParsesAll(g, s, seqs, N)
    BY <1>6, <1>7, <1>8 DEF ParsesAll
  <1>10. IsSeq(FlattenSeq(seqs))
    BY <1>4, <1>5
  <1>11. QED
    BY <1>9, <1>10

(* The start and the end of a child. *)
LEMMA ChildParsed ==
    ASSUME NEW s \in StateType, NEW c, LegalChild(c)
    PROVE  /\ IsSeq(ChildEvents(c))
           /\ Keeps(s, Parsed(s, ChildEvents(c)))
           /\ \A sort \in Sorts : s.in = {sort} => Adds(s, Parsed(s, ChildEvents(c)), sort, c)
  <1> DEFINE t == startElement(s, c)
  <1>1. IsSeq(<<>>)
    BY DEF IsSeq
  <1>2. IsSeq(ChildEvents(c)) /\ Parsed(s, ChildEvents(c)) = endElement(Parsed(t, <<>>), c)
    BY <1>1, ElementParsed DEF ChildEvents
  <1>3. Parsed(t, <<>>) = t
    BY ParsedNone
  <1>4. Keeps(s, t) /\ \A sort \in Sorts : s.in = {sort} => Adds(s, t, sort, c)
    BY ChildStarted
  <1>5. c.name \notin t.in
    BY <1>4 DEF Keeps, StateType, LegalChild
  <1>6. endElement(t, c) = t
    BY <1>5 DEF endElement
  <1>7. QED
    BY <1>2, <1>3, <1>4, <1>6

------------------------------------------------------------------------------
(* Entities *)

(* The events of the children of an entity. *)
Inner(x) == [i \in 1 .. Len(x.children) |-> ChildEvents(x.children[i])]

(* The events of an entity: its start, its children, its end. *)
LEMMA ChildrenEvents ==
    ASSUME NEW x, LegalEntity(x), NEW s
    PROVE  /\ Len(x.children) \in Nat /\ DOMAIN x.children = 1 .. Len(x.children)
           /\ \A i \in 1 .. Len(x.children) : LegalChild(x.children[i])
           /\ IsSeq(EntityEvents(x))
           /\ Parsed(s, EntityEvents(x))
                = endElement(Parsed(startElement(s, x.e), FlattenSeq(Inner(x))), x.e)
           /\ \A u : \E g : ParsesAll(g, u, Inner(x), Len(x.children))
  <1> DEFINE N == Len(x.children)
  <1>1. N \in Nat /\ DOMAIN x.children = 1 .. N /\ \A i \in 1 .. N : LegalChild(x.children[i])
    BY DEF LegalEntity, ToSet
  <1>2. ASSUME NEW i \in 1 .. N
        PROVE  IsSeq(Inner(x)[i])
    <2>1. IsSeq(ChildEvents(x.children[i]))
      <3>1. IsSeq(<<>>)
        BY DEF IsSeq
      <3>2. QED
        BY <3>1, ElementParsed DEF ChildEvents
    <2>2. QED
      BY <2>1 DEF Inner
  <1>3. Inner(x) = [i \in 1 .. N |-> Inner(x)[i]]
    BY DEF Inner
  <1>4. IsSeq(FlattenSeq(Inner(x))) /\ \A u : \E g : ParsesAll(g, u, Inner(x), N)
    <2> HIDE DEF N
    <2>1. QED
      BY <1>1, <1>2, <1>3, ParsedFlat
  <1>5. EntityEvents(x) = Element(x.e, FlattenSeq(Inner(x)))
    BY <1>1 DEF EntityEvents, Inner
  <1>6. QED
    BY <1>1, <1>4, <1>5, ElementParsed

(* From outside any entity, an entity gives its change and leaves nothing  *)
(* open.                                                                   *)
LEMMA EntityParsed ==
    ASSUME NEW s \in StateType, s.in = {}, NEW x, LegalEntity(x)
    PROVE  LET t == Parsed(s, EntityEvents(x))
           IN /\ t \in StateType /\ t.in = {} /\ t.change = s.change
              /\ t.out = s.out \o EntityChanges(s.change, x)
              /\ EntityChanges(s.change, x) \in Seq(Blocks \X Sorts \X EntityType)
  <1> DEFINE N == Len(x.children)
             u == startElement(s, x.e)
             t == Parsed(s, EntityEvents(x))
             sort == x.e.name
  <1>1. /\ N \in Nat /\ DOMAIN x.children = 1 .. N
        /\ \A i \in 1 .. N : LegalChild(x.children[i])
        /\ t = endElement(Parsed(u, FlattenSeq(Inner(x))), x.e)
    BY ChildrenEvents
  <1>2. PICK g : ParsesAll(g, u, Inner(x), N)
    BY ChildrenEvents
  <1>3. /\ g[0] = u /\ t = endElement(g[N], x.e)
        /\ \A i \in 0 .. N - 1 : g[i + 1] = Parsed(g[i], ChildEvents(x.children[i + 1]))
    <2>1. \A i \in 0 .. N - 1 : Inner(x)[i + 1] = ChildEvents(x.children[i + 1])
      BY <1>1 DEF Inner
    <2>2. QED
      BY <1>1, <1>2, <2>1 DEF ParsesAll
  <1>4. s.change \in Blocks /\ s.made \in [Sorts -> EntityType] /\ s.out \in Seq(Blocks \X Sorts \X EntityType)
    BY DEF StateType
  <1>5. ASSUME u \in StateType
        PROVE  \A i \in 0 .. N : Keeps(u, g[i])
    <2> DEFINE T == {i \in 0 .. N : Keeps(u, g[i])}
    <2>1. 0 \in T
      BY <1>1, <1>3, <1>5 DEF Keeps
    <2>2. ASSUME NEW i \in 0 .. N - 1, i \in T
          PROVE  i + 1 \in T
      <3>1. i + 1 \in 1 .. N /\ i + 1 \in 0 .. N /\ LegalChild(x.children[i + 1])
        BY <1>1
      <3>2. g[i] \in StateType /\ Keeps(u, g[i])
        BY <2>2 DEF Keeps
      <3>3. Keeps(g[i], g[i + 1])
        BY <1>3, <3>1, <3>2, ChildParsed
      <3>4. QED
        BY <3>1, <3>2, <3>3 DEF Keeps
    <2>3. \A i \in 0 .. N : i \in T
      <3> HIDE DEF T, N
      <3>1. QED
        BY <1>1, <2>1, <2>2, UpTo
    <2>4. QED
      BY <2>3
  <1>6. N \in 0 .. N
    BY <1>1
  <1>7. CASE sort \notin Sorts
    <2>1. u = s
      BY <1>7 DEF startElement, LegalEntity
    <2>2. Keeps(s, g[N])
      BY <1>5, <1>6, <2>1
    <2>3. t = g[N]
      BY <1>3, <2>2 DEF Keeps, endElement
    <2>4. EntityChanges(s.change, x) = <<>>
      BY <1>7 DEF EntityChanges
    <2>5. s.out \o <<>> = s.out /\ <<>> \in Seq(Blocks \X Sorts \X EntityType)
      BY <1>4
    <2> HIDE DEF t
    <2>6. QED
      BY <2>2, <2>3, <2>4, <2>5 DEF Keeps, t
  <1>8. CASE sort \in Sorts
    <2> DEFINE refs == [i \in 1 .. N |-> RefsOf(sort, x.children[i])]
               members == [i \in 1 .. N |-> MembersOf(sort, x.children[i])]
    <2>1. ASSUME NEW i \in 1 .. N
          PROVE  RefsOf(sort, x.children[i]) \in Seq(Int) /\ MembersOf(sort, x.children[i]) \in Seq(Int \X STRING)
      <3>1. LegalChild(x.children[i])
        BY <1>1
      <3> DEFINE c == x.children[i]
                 M == Int \X STRING
      <3>2. /\ c.name = "nd" => c.ref \in Int
            /\ c.name = "member" => <<c.ref, c.role>> \in M
        BY <3>1 DEF LegalChild
      <3> HIDE DEF c, M
      <3>3. RefsOf(sort, c) \in Seq(Int)
        BY <3>2 DEF RefsOf
      <3>4. MembersOf(sort, c) \in Seq(M)
        BY <3>2 DEF MembersOf
      <3>5. QED
        BY <3>3, <3>4 DEF c, M
    <2>2. refs \in [1 .. N -> Seq(Int)] /\ members \in [1 .. N -> Seq(Int \X STRING)]
      BY <2>1
    <2>3. PICK fr \in [0 .. N -> Seq(Int)] : Flattens(fr, N, refs)
      <3> HIDE DEF N, refs
      <3>1. QED
        BY <1>1, <2>2, Flattened
    <2>4. PICK fm \in [0 .. N -> Seq(Int \X STRING)] : Flattens(fm, N, members)
      <3> DEFINE M == Int \X STRING
      <3>1. members \in [1 .. N -> Seq(M)]
        BY <2>2
      <3> HIDE DEF N, members, M
      <3>2. PICK f \in [0 .. N -> Seq(M)] : Flattens(f, N, members)
        BY <1>1, <3>1, Flattened
      <3>3. QED
        BY <3>2 DEF M
    <2>5. /\ u \in StateType /\ u.in = {sort} /\ u.change = s.change /\ u.out = s.out
          /\ u.made[sort] = Made(x.e.id, {}, <<>>, <<>>)
      <3> DEFINE e == [NoEntity EXCEPT !.id = x.e.id]
                 m == [s.made EXCEPT ![sort] = e]
      <3>1. u = [s EXCEPT !.in = {sort}, !.made = m]
        BY <1>8 DEF startElement, StartEntity, Blocks, Sorts
      <3>2. e = Made(x.e.id, {}, <<>>, <<>>)
        <4> DEFINE r == [id |-> x.e.id, tags |-> {}, refs |-> <<>>, members |-> <<>>]
                   D == {"id", "tags", "refs", "members"}
        <4>1. e = [k \in D |-> e[k]] /\ r = [k \in D |-> r[k]]
          BY DEF NoEntity
        <4>2. e["id"] = r["id"] /\ e["tags"] = r["tags"] /\ e["refs"] = r["refs"]
              /\ e["members"] = r["members"]
          BY DEF NoEntity
        <4> HIDE DEF e, r
        <4>3. e = r
          BY <4>1, <4>2
        <4>4. QED
          BY <4>3 DEF Made, r
      <3>3. e \in EntityType
        <4>1. <<>> \in Seq(Int) /\ <<>> \in Seq(Int \X STRING) /\ {} \in SUBSET (STRING \X STRING)
          OBVIOUS
        <4>2. x.e.id \in Int
          BY <1>8 DEF LegalEntity
        <4> HIDE DEF e
        <4>3. QED
          BY <3>2, <4>1, <4>2, MadeType
      <3> HIDE DEF e, u
      <3>4. m \in [Sorts -> EntityType] /\ m[sort] = e
        BY <1>4, <1>8, <3>3
      <3> HIDE DEF m
      <3>5. u \in StateType /\ u.in = {sort} /\ u.change = s.change /\ u.out = s.out /\ u.made = m
        BY <1>4, <1>8, <3>1, <3>4 DEF StateType
      <3>6. QED
        BY <3>2, <3>4, <3>5
    <2> DEFINE tags(i) == {<<x.children[j].k, x.children[j].v>> :
                              j \in {k \in 1 .. i : x.children[k].name = "tag"}}
               T == {i \in 0 .. N : g[i].made[sort] = Made(x.e.id, tags(i), fr[i], fm[i])}
    <2>6. 0 \in T
      <3>1. tags(0) = {} /\ fr[0] = <<>> /\ fm[0] = <<>>
        BY <2>3, <2>4 DEF Flattens
      <3> HIDE DEF tags
      <3>2. QED
        <4>1. g[0].made[sort] = Made(x.e.id, tags(0), fr[0], fm[0])
          <5> HIDE DEF u
          <5>1. QED
            BY <1>3, <2>5, <3>1
        <4>2. QED
          BY <1>1, <4>1
    <2>7. ASSUME NEW i \in 0 .. N - 1, i \in T
          PROVE  i + 1 \in T
      <3> DEFINE c == x.children[i + 1]
      <3>1. i + 1 \in 1 .. N /\ i + 1 \in 0 .. N /\ i \in 0 .. N /\ LegalChild(c)
        BY <1>1
      <3>2. g[i] \in StateType /\ g[i].in = {sort}
        BY <1>5, <2>5, <3>1 DEF Keeps
      <3>3. Adds(g[i], g[i + 1], sort, c)
        BY <1>3, <1>8, <3>1, <3>2, ChildParsed
      <3>4. fr[i + 1] = fr[i] \o RefsOf(sort, c)
        BY <2>3, <3>1 DEF Flattens
      <3>5. fm[i + 1] = fm[i] \o MembersOf(sort, c)
        BY <2>4, <3>1 DEF Flattens
      <3>6. tags(i + 1) = tags(i) \cup TagsOf(c)
        <4> DEFINE P(n) == {k \in 1 .. n : x.children[k].name = "tag"}
        <4>1. P(i + 1) = P(i) \cup (IF c.name = "tag" THEN {i + 1} ELSE {})
          <5>1. 1 .. i + 1 = (1 .. i) \cup {i + 1}
            BY <1>1
          <5>2. P(i + 1) = P(i) \cup {k \in {i + 1} : x.children[k].name = "tag"}
            BY <5>1
          <5>3. {k \in {i + 1} : x.children[k].name = "tag"} = IF c.name = "tag" THEN {i + 1} ELSE {}
            OBVIOUS
          <5> HIDE DEF P, c
          <5>4. QED
            BY <5>2, <5>3
        <4> HIDE DEF P
        <4>2. {<<x.children[j].k, x.children[j].v>> : j \in P(i + 1)}
                = {<<x.children[j].k, x.children[j].v>> : j \in P(i)} \cup TagsOf(c)
          BY <4>1 DEF TagsOf
        <4>3. QED
          BY <4>2 DEF P
      <3>7. g[i].made[sort] = Made(x.e.id, tags(i), fr[i], fm[i])
        BY <2>7
      <3> HIDE DEF tags, c
      <3>8. /\ g[i].made[sort].id = x.e.id /\ g[i].made[sort].tags = tags(i)
            /\ g[i].made[sort].refs = fr[i] /\ g[i].made[sort].members = fm[i]
        BY <3>7 DEF Made
      <3>9. g[i + 1].made[sort] = Made(x.e.id, tags(i + 1), fr[i + 1], fm[i + 1])
        BY <3>3, <3>4, <3>5, <3>6, <3>8 DEF Adds
      <3>10. QED
        BY <3>1, <3>9
    <2>8. N \in T
      <3> HIDE DEF T, N
      <3>1. QED
        BY <1>1, <1>6, <2>6, <2>7, UpTo
    <2>9. Made(x.e.id, tags(N), fr[N], fm[N]) = Described(x)
      <3>1. FlattenSeq(refs) = fr[N] /\ FlattenSeq(members) = fm[N]
        BY <1>6, <2>3, <2>4 DEF Flattens
      <3>2. refs = [i \in DOMAIN x.children |->
                      IF sort = "way" /\ x.children[i].name = "nd"
                      THEN <<x.children[i].ref>> ELSE <<>>]
        BY <1>1 DEF RefsOf
      <3>3. members = [i \in DOMAIN x.children |->
                      IF sort = "relation" /\ x.children[i].name = "member"
                         /\ x.children[i].type = "way"
                      THEN <<<<x.children[i].ref, x.children[i].role>>>> ELSE <<>>]
        BY <1>1 DEF MembersOf
      <3>4. tags(N) = {<<c.k, c.v>> : c \in {d \in ToSet(x.children) : d.name = "tag"}}
        BY <1>1 DEF ToSet
      <3> HIDE DEF refs, members, tags
      <3>5. QED
        BY <3>1, <3>2, <3>3, <3>4 DEF Described, Made
    <2> DEFINE change == <<s.change, sort, g[N].made[sort]>>
    <2>10. Keeps(u, g[N]) /\ g[N].made[sort] = Described(x)
      BY <1>5, <1>6, <2>5, <2>8, <2>9
    <2>11. t = [g[N] EXCEPT !.in = {}, !.out = Append(s.out, change)]
      BY <1>3, <2>5, <2>10 DEF Keeps, endElement
    <2>12. change \in Blocks \X Sorts \X EntityType
      BY <1>4, <1>8, <2>10 DEF Keeps, StateType
    <2>13. EntityChanges(s.change, x) = <<change>>
      BY <1>8, <2>10 DEF EntityChanges
    <2> HIDE DEF change, t
    <2>14. /\ Append(s.out, change) \in Seq(Blocks \X Sorts \X EntityType)
           /\ s.out \o <<change>> = Append(s.out, change)
           /\ <<change>> \in Seq(Blocks \X Sorts \X EntityType)
      <3> DEFINE C == Blocks \X Sorts \X EntityType
                 l == s.out
      <3>1. l \in Seq(C) /\ change \in C
        BY <1>4, <2>12
      <3> HIDE DEF C, l
      <3>2. Append(l, change) \in Seq(C) /\ l \o <<change>> = Append(l, change) /\ <<change>> \in Seq(C)
        BY <3>1
      <3>3. QED
        BY <3>2 DEF C, l
    <2>15. t \in StateType /\ t.in = {} /\ t.change = s.change /\ t.out = Append(s.out, change)
      BY <2>5, <2>10, <2>11, <2>14 DEF Keeps, StateType
    <2>16. QED
      BY <2>13, <2>14, <2>15 DEF t
  <1>9. QED
    BY <1>7, <1>8

------------------------------------------------------------------------------
(* Blocks and documents *)

(* A block gives the changes of its entities. *)
LEMMA BlockParsed ==
    ASSUME NEW s \in StateType, s.in = {}, NEW b, LegalBlock(b)
    PROVE  /\ IsSeq(BlockEvents(b))
           /\ Parsed(s, BlockEvents(b)) \in StateType
           /\ Parsed(s, BlockEvents(b)).in = {}
           /\ Parsed(s, BlockEvents(b)).out = s.out \o BlockChanges(b)
           /\ BlockChanges(b) \in Seq(Blocks \X Sorts \X EntityType)
  <1> DEFINE N == Len(b.entities)
             C == Blocks \X Sorts \X EntityType
             e == [name |-> b.change]
             u == startElement(s, e)
             seqs == [i \in 1 .. N |-> EntityEvents(b.entities[i])]
             changes == [i \in 1 .. N |-> EntityChanges(b.change, b.entities[i])]
             t == Parsed(s, BlockEvents(b))
  <1>1. /\ N \in Nat /\ DOMAIN b.entities = 1 .. N /\ b.change \in Blocks
        /\ \A i \in 1 .. N : LegalEntity(b.entities[i])
    BY DEF LegalBlock, ToSet
  <1>2. u \in StateType /\ u.in = {} /\ u.change = b.change /\ u.out = s.out
    <2>1. u = [s EXCEPT !.change = b.change]
      BY <1>1 DEF startElement, Blocks, Sorts
    <2> HIDE DEF u
    <2>2. QED
      BY <1>1, <2>1 DEF StateType
  <1>3. IsSeq(FlattenSeq(seqs)) /\ \E g : ParsesAll(g, u, seqs, N)
    <2>1. ASSUME NEW i \in 1 .. N
          PROVE  IsSeq(seqs[i])
      BY <1>1, ChildrenEvents
    <2>2. seqs = [i \in 1 .. N |-> seqs[i]]
      OBVIOUS
    <2> HIDE DEF seqs, N
    <2>3. QED
      BY <1>1, <2>1, <2>2, ParsedFlat
  <1>4. PICK g : ParsesAll(g, u, seqs, N)
    BY <1>3
  <1>5. IsSeq(BlockEvents(b)) /\ t = endElement(g[N], e)
    <2>1. BlockEvents(b) = Element(e, FlattenSeq(seqs))
      BY <1>1 DEF BlockEvents
    <2>2. Parsed(u, FlattenSeq(seqs)) = g[N]
      BY <1>4 DEF ParsesAll
    <2> HIDE DEF seqs, e
    <2>3. QED
      BY <1>3, <2>1, <2>2, ElementParsed
  <1>6. ASSUME NEW i \in 1 .. N, NEW v \in StateType, v.in = {}, v.change = b.change
        PROVE  LET w == Parsed(v, seqs[i])
               IN /\ w \in StateType /\ w.in = {} /\ w.change = b.change
                  /\ w.out = v.out \o changes[i]
                  /\ changes[i] \in Seq(C)
    <2>1. LegalEntity(b.entities[i]) /\ seqs[i] = EntityEvents(b.entities[i])
          /\ changes[i] = EntityChanges(v.change, b.entities[i])
      BY <1>1, <1>6
    <2> DEFINE x == b.entities[i]
    <2>2. /\ Parsed(v, EntityEvents(x)) \in StateType /\ Parsed(v, EntityEvents(x)).in = {}
          /\ Parsed(v, EntityEvents(x)).change = v.change
          /\ Parsed(v, EntityEvents(x)).out = v.out \o EntityChanges(v.change, x)
          /\ EntityChanges(v.change, x) \in Seq(C)
      <3>1. LegalEntity(x)
        BY <2>1
      <3> HIDE DEF x
      <3>2. QED
        BY <1>6, <3>1, EntityParsed
    <2> HIDE DEF seqs, changes, C
    <2>3. QED
      BY <1>6, <2>1, <2>2
  <1>7. changes \in [1 .. N -> Seq(C)]
    <2>1. ASSUME NEW i \in 1 .. N
          PROVE  changes[i] \in Seq(C)
      BY <1>2, <1>6
    <2>2. changes = [i \in 1 .. N |-> changes[i]]
      OBVIOUS
    <2> HIDE DEF changes, C
    <2>3. QED
      BY <2>1, <2>2
  <1>8. PICK f \in [0 .. N -> Seq(C)] : Flattens(f, N, changes)
    <2> HIDE DEF N, changes, C
    <2>1. QED
      BY <1>1, <1>7, Flattened
  <1> DEFINE T == {i \in 0 .. N : /\ g[i] \in StateType /\ g[i].in = {} /\ g[i].change = b.change
                                  /\ g[i].out = s.out \o f[i]}
  <1>9. s.out \in Seq(C)
    BY DEF StateType
  <1>10. 0 \in T
    <2>1. g[0] = u /\ f[0] = <<>>
      BY <1>4, <1>8 DEF ParsesAll, Flattens
    <2>2. s.out \o <<>> = s.out
      BY <1>9
    <2> HIDE DEF u
    <2>3. QED
      BY <1>1, <1>2, <2>1, <2>2
  <1>11. ASSUME NEW i \in 0 .. N - 1, i \in T
         PROVE  i + 1 \in T
    <2>1. i \in 0 .. N /\ i + 1 \in 0 .. N /\ i + 1 \in 1 .. N
      BY <1>1
    <2>2. g[i + 1] = Parsed(g[i], seqs[i + 1]) /\ f[i + 1] = f[i] \o changes[i + 1]
      BY <1>4, <1>8, <2>1 DEF ParsesAll, Flattens
    <2>3. g[i] \in StateType /\ g[i].in = {} /\ g[i].change = b.change /\ g[i].out = s.out \o f[i]
      BY <1>11
    <2> HIDE DEF C, seqs, changes, N
    <2> DEFINE j == i + 1
               v == g[i]
    <2>4. /\ g[i + 1] \in StateType /\ g[i + 1].in = {} /\ g[i + 1].change = b.change
          /\ g[i + 1].out = g[i].out \o changes[i + 1]
          /\ changes[i + 1] \in Seq(C)
      <3>1. j \in 1 .. N /\ v \in StateType /\ v.in = {} /\ v.change = b.change
        BY <2>1, <2>3
      <3> HIDE DEF j, v
      <3>2. /\ Parsed(v, seqs[j]) \in StateType /\ Parsed(v, seqs[j]).in = {}
            /\ Parsed(v, seqs[j]).change = b.change
            /\ Parsed(v, seqs[j]).out = v.out \o changes[j] /\ changes[j] \in Seq(C)
        BY <1>6, <3>1
      <3>3. QED
        BY <2>2, <3>2 DEF j, v
    <2>5. f[i] \in Seq(C)
      BY <2>1
    <2>6. (s.out \o f[i]) \o changes[i + 1] = s.out \o (f[i] \o changes[i + 1])
      <3> DEFINE l == s.out
                 m == f[i]
                 n == changes[i + 1]
      <3>1. l \in Seq(C) /\ m \in Seq(C) /\ n \in Seq(C)
        BY <1>9, <2>4, <2>5
      <3> HIDE DEF l, m, n
      <3>2. (l \o m) \o n = l \o (m \o n)
        BY <3>1
      <3>3. QED
        BY <3>2 DEF l, m, n
    <2>7. QED
      BY <2>1, <2>2, <2>3, <2>4, <2>6
  <1>12. N \in T
    <2> HIDE DEF T, N
    <2>1. N \in 0 .. N
      BY <1>1
    <2>2. QED
      BY <1>1, <1>10, <1>11, <2>1, UpTo
  <1>13. t = g[N]
    <2>1. e.name \notin g[N].in
      BY <1>12
    <2>2. QED
      BY <1>5, <2>1 DEF endElement
  <1>14. BlockChanges(b) = f[N]
    <2>1. N \in 0 .. N
      BY <1>1
    <2>2. FlattenSeq([i \in 1 .. N |-> changes[i]]) = f[N]
      <3> HIDE DEF changes, N, C
      <3>1. QED
        BY <1>8, <2>1 DEF Flattens
    <2>3. QED
      BY <1>1, <2>2 DEF BlockChanges
  <1>15. f[N] \in Seq(C)
    BY <1>1
  <1> HIDE DEF t, N
  <1>16. QED
    BY <1>5, <1>12, <1>13, <1>14, <1>15 DEF t

(* A document gives the changes of its blocks. *)
LEMMA DocumentParsed ==
    ASSUME NEW d, LegalDocument(d)
    PROVE  IsSeq(Events(d)) /\ parse(Events(d)) = Changes(d)
  <1> DEFINE N == Len(d)
             C == Blocks \X Sorts \X EntityType
             e == [name |-> "osmChange"]
             seqs == [i \in 1 .. N |-> BlockEvents(d[i])]
             changes == [i \in 1 .. N |-> BlockChanges(d[i])]
  <1>1. N \in Nat /\ DOMAIN d = 1 .. N /\ \A i \in 1 .. N : LegalBlock(d[i])
    BY DEF LegalDocument, ToSet
  <1>2. Fresh \in StateType /\ Fresh.in = {} /\ Fresh.out = <<>>
    <2>1. NoEntity \in EntityType
      BY DEF NoEntity, EntityType
    <2>2. [s \in Sorts |-> NoEntity] \in [Sorts -> EntityType]
      BY <2>1
    <2>3. "create" \in Blocks
      BY DEF Blocks
    <2> DEFINE m == [s \in Sorts |-> NoEntity]
    <2>4. Fresh = [change |-> "create", in |-> {}, made |-> m, out |-> <<>>]
      BY DEF Fresh
    <2> HIDE DEF m
    <2>5. m \in [Sorts -> EntityType]
      BY <2>2 DEF m
    <2>6. QED
      BY <2>3, <2>4, <2>5 DEF StateType
  <1>3. startElement(Fresh, e) = Fresh
    BY DEF startElement, Blocks, Sorts
  <1>4. ASSUME NEW i \in 1 .. N, NEW v \in StateType, v.in = {}
        PROVE  LET w == Parsed(v, seqs[i])
               IN /\ w \in StateType /\ w.in = {} /\ w.out = v.out \o changes[i]
                  /\ IsSeq(seqs[i]) /\ changes[i] \in Seq(C)
    <2>1. LegalBlock(d[i]) /\ seqs[i] = BlockEvents(d[i]) /\ changes[i] = BlockChanges(d[i])
      BY <1>1
    <2> DEFINE b == d[i]
    <2>2. /\ Parsed(v, BlockEvents(b)) \in StateType /\ Parsed(v, BlockEvents(b)).in = {}
          /\ Parsed(v, BlockEvents(b)).out = v.out \o BlockChanges(b)
          /\ IsSeq(BlockEvents(b)) /\ BlockChanges(b) \in Seq(C)
      <3>1. LegalBlock(b)
        BY <2>1
      <3> HIDE DEF b
      <3>2. QED
        BY <1>4, <3>1, BlockParsed
    <2> HIDE DEF seqs, changes, C
    <2>3. QED
      BY <2>1, <2>2
  <1>5. IsSeq(FlattenSeq(seqs)) /\ \E g : ParsesAll(g, Fresh, seqs, N)
    <2>1. ASSUME NEW i \in 1 .. N
          PROVE  IsSeq(seqs[i])
      BY <1>2, <1>4
    <2>2. seqs = [i \in 1 .. N |-> seqs[i]]
      OBVIOUS
    <2> HIDE DEF seqs, N
    <2>3. QED
      BY <1>1, <2>1, <2>2, ParsedFlat
  <1>6. PICK g : ParsesAll(g, Fresh, seqs, N)
    BY <1>5
  <1>7. IsSeq(Events(d)) /\ Parsed(Fresh, Events(d)) = endElement(g[N], e)
    <2>1. Events(d) = Element(e, FlattenSeq(seqs))
      BY <1>1 DEF Events
    <2>2. Parsed(Fresh, FlattenSeq(seqs)) = g[N]
      BY <1>6 DEF ParsesAll
    <2> HIDE DEF seqs, e
    <2>3. QED
      BY <1>3, <1>5, <2>1, <2>2, ElementParsed
  <1>8. changes \in [1 .. N -> Seq(C)]
    <2>1. ASSUME NEW i \in 1 .. N
          PROVE  changes[i] \in Seq(C)
      BY <1>2, <1>4
    <2>2. changes = [i \in 1 .. N |-> changes[i]]
      OBVIOUS
    <2> HIDE DEF changes, C
    <2>3. QED
      BY <2>1, <2>2
  <1>9. PICK f \in [0 .. N -> Seq(C)] : Flattens(f, N, changes)
    <2> HIDE DEF N, changes, C
    <2>1. QED
      BY <1>1, <1>8, Flattened
  <1> DEFINE T == {i \in 0 .. N : g[i] \in StateType /\ g[i].in = {} /\ g[i].out = f[i]}
  <1>10. 0 \in T
    <2>1. g[0] = Fresh /\ f[0] = <<>>
      BY <1>6, <1>9 DEF ParsesAll, Flattens
    <2>2. QED
      BY <1>1, <1>2, <2>1
  <1>11. ASSUME NEW i \in 0 .. N - 1, i \in T
         PROVE  i + 1 \in T
    <2>1. i \in 0 .. N /\ i + 1 \in 0 .. N /\ i + 1 \in 1 .. N
      BY <1>1
    <2>2. g[i + 1] = Parsed(g[i], seqs[i + 1]) /\ f[i + 1] = f[i] \o changes[i + 1]
      BY <1>6, <1>9, <2>1 DEF ParsesAll, Flattens
    <2>3. g[i] \in StateType /\ g[i].in = {} /\ g[i].out = f[i]
      BY <1>11
    <2> HIDE DEF C, seqs, changes, N
    <2>4. /\ g[i + 1] \in StateType /\ g[i + 1].in = {}
          /\ g[i + 1].out = g[i].out \o changes[i + 1]
      BY <1>4, <2>1, <2>2, <2>3
    <2>5. QED
      BY <2>1, <2>2, <2>3, <2>4
  <1>12. N \in T
    <2> HIDE DEF T, N
    <2>1. N \in 0 .. N
      BY <1>1
    <2>2. QED
      BY <1>1, <1>10, <1>11, <2>1, UpTo
  <1>13. endElement(g[N], e) = g[N]
    <2>1. e.name \notin g[N].in
      BY <1>12
    <2>2. QED
      BY <2>1 DEF endElement
  <1>14. Changes(d) = f[N]
    <2>1. FlattenSeq([i \in 1 .. N |-> changes[i]]) = f[N]
      BY <1>1, <1>9 DEF Flattens
    <2>2. QED
      BY <1>1, <2>1 DEF Changes
  <1>15. QED
    BY <1>7, <1>12, <1>13, <1>14 DEF parse

(* The changes of any document arrive in its order, each as described, and *)
(* a document that breaks off gives a first part of them (startElement,    *)
(* endElement).                                                            *)
THEOREM ChangesDelivered == Spec => []ChangesArrive
  <1>1. HasInput => ChangesArrive
    <2>1. SUFFICES ASSUME input \in DocumentInputs
                   PROVE  /\ parse(Events(input)) = Changes(input)
                          /\ \A n \in DOMAIN Events(input) :
                                IsPrefix(parse(SubSeq(Events(input), 1, n)), Changes(input))
      BY DEF HasInput, Inputs, ChangesArrive
    <2>2. LegalDocument(input)
      BY <2>1, InputsAssumption
    <2>3. IsSeq(Events(input)) /\ parse(Events(input)) = Changes(input)
      BY <2>2, DocumentParsed
    <2> DEFINE events == Events(input)
    <2> HIDE DEF events
    <2>4. ASSUME NEW n \in DOMAIN events
          PROVE  IsPrefix(parse(SubSeq(events, 1, n)), parse(events))
      BY <2>3, ChangesFirst DEF events
    <2>5. QED
      BY <2>3, <2>4 DEF events
  <1>2. QED
    BY <1>1, InputGiven, PTL

------------------------------------------------------------------------------
(* Rings *)

(* A segment taken backwards has the same edges. *)
LEMMA Reversed ==
    ASSUME NEW P, NEW s \in Seq(P), s # <<>>
    PROVE  /\ Reverse(s) \in Seq(P) /\ Reverse(s) # <<>> /\ Len(Reverse(s)) = Len(s)
           /\ Reverse(s)[1] = Last(s) /\ Last(Reverse(s)) = s[1]
           /\ EdgesOf(Reverse(s)) = EdgesOf(s)
  <1> DEFINE N == Len(s)
             r == Reverse(s)
  <1>1. N \in Nat /\ N >= 1 /\ \A i \in 1 .. N : s[i] \in P
    OBVIOUS
  <1>2. r = [i \in 1 .. N |-> s[(N - i) + 1]]
    BY DEF Reverse
  <1>3. \A i \in 1 .. N : (N - i) + 1 \in 1 .. N
    BY <1>1
  <1> HIDE DEF N, r
  <1>4. r \in Seq(P) /\ Len(r) = N
    BY <1>1, <1>2, <1>3
  <1>5. \A i \in 1 .. N : r[i] = s[(N - i) + 1]
    BY <1>2
  <1>6. r[1] = s[N] /\ r[N] = s[1] /\ r # <<>>
    BY <1>1, <1>4, <1>5
  <1>7. EdgesOf(r) = EdgesOf(s)
    <2>1. ASSUME NEW i \in 1 .. N - 1
          PROVE  /\ N - i \in 1 .. N - 1
                 /\ {r[i], r[i + 1]} = {s[N - i], s[(N - i) + 1]}
                 /\ {s[i], s[i + 1]} = {r[N - i], r[(N - i) + 1]}
      <3>1. i \in 1 .. N /\ i + 1 \in 1 .. N /\ N - i \in 1 .. N /\ (N - i) + 1 \in 1 .. N
            /\ N - i \in 1 .. N - 1 /\ (N - (i + 1)) + 1 = N - i
            /\ (N - (N - i)) + 1 = i + 1 /\ (N - ((N - i) + 1)) + 1 = i
        BY <1>1
      <3>2. r[i] = s[(N - i) + 1] /\ r[i + 1] = s[N - i]
        BY <1>5, <3>1
      <3>3. r[N - i] = s[i + 1] /\ r[(N - i) + 1] = s[i]
        BY <1>5, <3>1
      <3>4. QED
        BY <3>1, <3>2, <3>3
    <2>2. /\ EdgesOf(r) = {{r[i], r[i + 1]} : i \in 1 .. N - 1}
          /\ EdgesOf(s) = {{s[i], s[i + 1]} : i \in 1 .. N - 1}
      BY <1>4 DEF EdgesOf, N
    <2>3. EdgesOf(r) \subseteq EdgesOf(s)
      BY <2>1, <2>2
    <2>4. EdgesOf(s) \subseteq EdgesOf(r)
      BY <2>1, <2>2
    <2>5. QED
      BY <2>3, <2>4
  <1>8. QED
    BY <1>4, <1>6, <1>7 DEF N, r, Last

(* Something that begins where the ring ends goes on from there. *)
Continued(r, ring, s) ==
    /\ r # <<>> /\ Len(r) = Len(ring) + Len(s) - 1
    /\ r[1] = ring[1] /\ Last(r) = Last(s)
    /\ EdgesOf(r) = EdgesOf(ring) \cup EdgesOf(s)

(* A ring goes on with what begins where it ends. *)
LEMMA RingContinued ==
    ASSUME NEW P, NEW ring \in Seq(P), NEW s \in Seq(P), ring # <<>>, s # <<>>,
           s[1] = Last(ring)
    PROVE  ring \o Tail(s) \in Seq(P) /\ Continued(ring \o Tail(s), ring, s)
  <1> DEFINE M == Len(ring)
             N == Len(s)
             r == ring \o Tail(s)
  <1>1. M \in Nat /\ N \in Nat /\ M >= 1 /\ N >= 1
    OBVIOUS
  <1>2. Tail(s) \in Seq(P) /\ Len(Tail(s)) = N - 1 /\ \A i \in 1 .. N - 1 : Tail(s)[i] = s[i + 1]
    OBVIOUS
  <1>3. r \in Seq(P) /\ Joins(r, ring, Tail(s))
    BY <1>2, Concatenated
  <1> HIDE DEF r, N, M
  <1>4. Len(r) = M + N - 1 /\ (\A i \in 1 .. M : r[i] = ring[i])
    BY <1>1, <1>2, <1>3 DEF Joins, M
  <1>5. ASSUME NEW i \in 1 .. N
        PROVE  r[M + i - 1] = s[i]
    <2>1. CASE i = 1
      <3>1. M \in 1 .. M /\ M + i - 1 = M
        BY <1>1, <2>1
      <3>2. r[M] = ring[M]
        BY <1>4, <3>1
      <3>3. QED
        BY <2>1, <3>1, <3>2 DEF Last, M
    <2>2. CASE i # 1
      <3> DEFINE j == i - 1
      <3>1. j \in 1 .. N - 1 /\ M + i - 1 = M + j /\ j + 1 = i
        BY <1>1, <2>2
      <3> HIDE DEF j
      <3>2. r[M + j] = Tail(s)[j]
        BY <1>2, <1>3, <3>1 DEF Joins, M
      <3>3. QED
        BY <1>2, <3>1, <3>2
    <2>3. QED
      BY <2>1, <2>2
  <1>6. r[1] = ring[1] /\ r # <<>> /\ r[Len(r)] = s[N]
    <2>1. 1 \in 1 .. M /\ N \in 1 .. N
      BY <1>1
    <2>2. r[M + N - 1] = s[N]
      BY <1>5, <2>1
    <2>3. QED
      BY <1>1, <1>3, <1>4, <2>1, <2>2
  <1>7. EdgesOf(r) = EdgesOf(ring) \cup EdgesOf(s)
    <2>1. /\ EdgesOf(r) = {{r[i], r[i + 1]} : i \in 1 .. M + N - 1 - 1}
          /\ EdgesOf(s) = {{s[i], s[i + 1]} : i \in 1 .. N - 1}
          /\ EdgesOf(ring) = {{ring[i], ring[i + 1]} : i \in 1 .. M - 1}
      BY <1>4 DEF EdgesOf, N, M
    <2>2. ASSUME NEW i \in 1 .. M - 1
          PROVE  i \in 1 .. M + N - 1 - 1 /\ {r[i], r[i + 1]} = {ring[i], ring[i + 1]}
      <3>1. i \in 1 .. M + N - 1 - 1 /\ i \in 1 .. M /\ i + 1 \in 1 .. M
        BY <1>1
      <3>2. QED
        BY <1>4, <3>1
    <2>3. ASSUME NEW i \in 1 .. N - 1
          PROVE  /\ M + i - 1 \in 1 .. M + N - 1 - 1
                 /\ {r[M + i - 1], r[M + i - 1 + 1]} = {s[i], s[i + 1]}
      <3>1. /\ M + i - 1 \in 1 .. M + N - 1 - 1 /\ i \in 1 .. N /\ i + 1 \in 1 .. N
            /\ M + i - 1 + 1 = M + (i + 1) - 1
        BY <1>1
      <3>2. r[M + i - 1] = s[i] /\ r[M + (i + 1) - 1] = s[i + 1]
        BY <1>5, <3>1
      <3>3. QED
        BY <3>1, <3>2
    <2>4. ASSUME NEW i \in 1 .. M + N - 1 - 1
          PROVE  \/ i \in 1 .. M - 1
                 \/ \E j \in 1 .. N - 1 : i = M + j - 1
      <3>1. CASE i >= M
        <4>1. i - M + 1 \in 1 .. N - 1 /\ i = M + (i - M + 1) - 1
          BY <1>1, <3>1
        <4>2. QED
          BY <4>1
      <3>2. CASE i < M
        BY <1>1, <3>2
      <3>3. QED
        BY <1>1, <3>1, <3>2
    <2>5. EdgesOf(ring) \subseteq EdgesOf(r)
      BY <2>1, <2>2
    <2>6. EdgesOf(s) \subseteq EdgesOf(r)
      BY <2>1, <2>3
    <2>7. ASSUME NEW e \in EdgesOf(r)
          PROVE  e \in EdgesOf(ring) \cup EdgesOf(s)
      <3>1. PICK i \in 1 .. M + N - 1 - 1 : e = {r[i], r[i + 1]}
        BY <2>1
      <3>2. CASE i \in 1 .. M - 1
        BY <2>1, <2>2, <3>1, <3>2
      <3>3. ASSUME NEW j \in 1 .. N - 1, i = M + j - 1
            PROVE  e \in EdgesOf(s)
        BY <2>1, <2>3, <3>1, <3>3
      <3>4. QED
        BY <2>4, <3>2, <3>3
    <2>8. QED
      BY <2>5, <2>6, <2>7
  <1>8. QED
    BY <1>3, <1>4, <1>6, <1>7 DEF Continued, Last, r, M, N

(* A ring goes on with a segment in the direction that fits. *)
Goes(r, ring, seg) ==
    /\ r # <<>> /\ Len(r) = Len(ring) + Len(seg) - 1 /\ r[1] = ring[1]
    /\ \/ Last(ring) = seg[1] /\ Last(r) = Last(seg)
       \/ Last(ring) = Last(seg) /\ Last(r) = seg[1]
    /\ EdgesOf(r) = EdgesOf(ring) \cup EdgesOf(seg)

(* A ring joined with a segment has the edges of both. *)
LEMMA RingGoesOn ==
    ASSUME NEW P, NEW ring \in Seq(P), NEW seg \in Seq(P), ring # <<>>, seg # <<>>,
           Continues(ring, seg)
    PROVE  Joined(ring, seg) \in Seq(P) /\ Goes(Joined(ring, seg), ring, seg)
  <1>1. CASE seg[1] = Last(ring)
    <2>1. Joined(ring, seg) = ring \o Tail(seg)
      BY <1>1 DEF Joined
    <2>2. QED
      BY <1>1, <2>1, RingContinued DEF Continued, Goes
  <1>2. CASE seg[1] # Last(ring)
    <2> DEFINE s == Reverse(seg)
    <2>1. Joined(ring, seg) = ring \o Tail(s) /\ Last(seg) = Last(ring)
      BY <1>2 DEF Joined, Continues
    <2>2. /\ s \in Seq(P) /\ s # <<>> /\ Len(s) = Len(seg) /\ s[1] = Last(seg)
          /\ Last(s) = seg[1] /\ EdgesOf(s) = EdgesOf(seg)
      BY Reversed
    <2> HIDE DEF s
    <2>3. ring \o Tail(s) \in Seq(P) /\ Continued(ring \o Tail(s), ring, s)
      BY <2>1, <2>2, RingContinued
    <2>4. QED
      BY <2>1, <2>2, <2>3 DEF Continued, Goes
  <1>3. QED
    BY <1>1, <1>2

(* A ring that is closed by force has one more edge, the last. *)
LEMMA RingForced ==
    ASSUME NEW P, NEW ring \in Seq(P), ring # <<>>
    PROVE  /\ Forced(ring) \in Seq(P) /\ Closed(Forced(ring)) /\ Len(Forced(ring)) >= Len(ring)
           /\ Closed(ring) => Forced(ring) = ring
           /\ EdgesOf(SubSeq(Forced(ring), 1, Len(Forced(ring)) - 1)) \subseteq EdgesOf(ring)
  <1> DEFINE N == Len(ring)
  <1>1. N \in Nat /\ N >= 1 /\ ring[1] \in P
    OBVIOUS
  <1>2. CASE Closed(ring)
    <2> DEFINE r == SubSeq(ring, 1, N - 1)
    <2>1. Forced(ring) = ring
      BY <1>2 DEF Forced
    <2>2. Len(r) = N - 1 /\ \A i \in 1 .. N - 1 : r[i] = ring[i]
      <3> DEFINE k == N - 1
      <3>1. k \in Nat /\ 1 .. k \subseteq DOMAIN ring
        BY <1>1
      <3> HIDE DEF k
      <3>2. SubSeq(ring, 1, k) = [i \in 1 .. k |-> ring[i]]
        BY <3>1
      <3>3. Len(SubSeq(ring, 1, k)) = k /\ \A i \in 1 .. k : SubSeq(ring, 1, k)[i] = ring[i]
        BY <3>1, <3>2
      <3>4. QED
        BY <3>3 DEF k
    <2> HIDE DEF r, N
    <2>3. ASSUME NEW i \in 1 .. N - 1 - 1
          PROVE  i \in 1 .. N - 1 /\ {r[i], r[i + 1]} = {ring[i], ring[i + 1]}
      <3>1. i \in 1 .. N - 1 /\ i + 1 \in 1 .. N - 1
        BY <1>1
      <3>2. QED
        BY <2>2, <3>1
    <2>4. /\ EdgesOf(r) = {{r[i], r[i + 1]} : i \in 1 .. N - 1 - 1}
          /\ EdgesOf(ring) = {{ring[i], ring[i + 1]} : i \in 1 .. N - 1}
      BY <2>2 DEF EdgesOf, N
    <2>5. EdgesOf(r) \subseteq EdgesOf(ring)
      BY <2>3, <2>4
    <2>6. QED
      BY <1>1, <1>2, <2>1, <2>5 DEF r, N
  <1>3. CASE ~Closed(ring)
    <2> DEFINE f == Append(ring, ring[1])
               r == SubSeq(f, 1, N)
    <2>1. Forced(ring) = f
      BY <1>3 DEF Forced
    <2>2. f \in Seq(P) /\ Len(f) = N + 1 /\ f[N + 1] = ring[1] /\ \A i \in 1 .. N : f[i] = ring[i]
      BY <1>1
    <2> HIDE DEF f
    <2>3. r \in Seq(P) /\ Len(r) = N /\ \A i \in 1 .. N : r[i] = ring[i]
      BY <1>1, <2>2
    <2> HIDE DEF r
    <2>4. r = ring
      BY <2>3
    <2>5. f[1] = ring[1]
      BY <1>1, <2>2
    <2>6. Closed(f)
      BY <2>2, <2>5 DEF Closed, Last
    <2>7. Len(f) - 1 = N
      BY <1>1, <2>2
    <2>8. EdgesOf(SubSeq(f, 1, Len(f) - 1)) = EdgesOf(ring)
      BY <2>4, <2>7 DEF r
    <2>9. QED
      BY <1>1, <1>3, <2>1, <2>2, <2>6, <2>8
  <1>4. QED
    BY <1>2, <1>3

(* The segments that are stitched are some of those there are, and none is *)
(* empty.                                                                  *)
Stitchable(segs, own, P) ==
    /\ own \subseteq Nat /\ IsFiniteSet(own)
    /\ \A i \in own : segs[i] \in Seq(P) /\ segs[i] # <<>>

(* The first of some of them. *)
LEMMA FirstOf ==
    ASSUME NEW segs, NEW own, NEW P, Stitchable(segs, own, P), NEW L \in SUBSET own, L # {}
    PROVE  Min(L) \in L
  BY MinNatural DEF Stitchable

------------------------------------------------------------------------------
(* Ends that meet *)

One(b) == IF b THEN 1 ELSE 0

(* One segment less has two ends less, at one point or at two. *)
LEMMA EndsCounted ==
    ASSUME NEW segs, NEW own, IsFiniteSet(own), NEW L \in SUBSET own, NEW p
    PROVE  /\ Ends(segs, L, p) \in Nat
           /\ Ends(segs, L, p) = 0 => \A i \in L : segs[i][1] # p /\ Last(segs[i]) # p
           /\ (\A i \in L : segs[i][1] # p /\ Last(segs[i]) # p) => Ends(segs, L, p) = 0
           /\ \A i \in L : Ends(segs, L, p) = Ends(segs, L \ {i}, p) + One(segs[i][1] = p)
                                            + One(Last(segs[i]) = p)
  <1> DEFINE A(M) == {i \in M : segs[i][1] = p}
             B(M) == {i \in M : Last(segs[i]) = p}
  <1>1. A(L) \in SUBSET own /\ B(L) \in SUBSET own
    OBVIOUS
  <1>2. IsFiniteSet(A(L)) /\ IsFiniteSet(B(L))
    <2> HIDE DEF A, B
    <2>1. QED
      BY <1>1, FS_Subset
  <1>3. Cardinality(A(L)) \in Nat /\ Cardinality(B(L)) \in Nat
        /\ (Cardinality(A(L)) = 0 <=> A(L) = {}) /\ (Cardinality(B(L)) = 0 <=> B(L) = {})
    <2> HIDE DEF A, B
    <2>1. QED
      BY <1>2, FS_CardinalityType, FS_EmptySet
  <1>4. Ends(segs, L, p) = Cardinality(A(L)) + Cardinality(B(L))
    BY DEF Ends
  <1>5. ASSUME NEW i \in L
        PROVE  Ends(segs, L, p) = Ends(segs, L \ {i}, p) + One(segs[i][1] = p)
                                            + One(Last(segs[i]) = p)
    <2>1. A(L \ {i}) = A(L) \ {i} /\ B(L \ {i}) = B(L) \ {i}
          /\ (i \in A(L) <=> segs[i][1] = p) /\ (i \in B(L) <=> Last(segs[i]) = p)
      OBVIOUS
    <2>2. Ends(segs, L \ {i}, p) = Cardinality(A(L \ {i})) + Cardinality(B(L \ {i}))
      BY DEF Ends
    <2> HIDE DEF A, B
    <2>3. /\ Cardinality(A(L) \ {i}) = IF i \in A(L) THEN Cardinality(A(L)) - 1 ELSE Cardinality(A(L))
          /\ Cardinality(B(L) \ {i}) = IF i \in B(L) THEN Cardinality(B(L)) - 1 ELSE Cardinality(B(L))
      BY <1>2, FS_RemoveElement
    <2> DEFINE a == Cardinality(A(L))
               b == Cardinality(B(L))
    <2>4. a \in Nat /\ b \in Nat /\ Ends(segs, L, p) = a + b
      BY <1>3, <1>4
    <2>5. Ends(segs, L \ {i}, p) = (IF segs[i][1] = p THEN a - 1 ELSE a)
                                 + (IF Last(segs[i]) = p THEN b - 1 ELSE b)
      BY <2>1, <2>2, <2>3
    <2> HIDE DEF a, b
    <2>6. CASE segs[i][1] = p /\ Last(segs[i]) = p
      BY <2>4, <2>5, <2>6 DEF One
    <2>7. CASE segs[i][1] # p /\ Last(segs[i]) = p
      BY <2>4, <2>5, <2>7 DEF One
    <2>8. CASE segs[i][1] = p /\ Last(segs[i]) # p
      BY <2>4, <2>5, <2>8 DEF One
    <2>9. CASE segs[i][1] # p /\ Last(segs[i]) # p
      BY <2>4, <2>5, <2>9 DEF One
    <2>10. QED
      BY <2>6, <2>7, <2>8, <2>9
  <1>6. A(L) = {} /\ B(L) = {} <=> \A i \in L : segs[i][1] # p /\ Last(segs[i]) # p
    OBVIOUS
  <1> HIDE DEF A, B
  <1>7. QED
    BY <1>3, <1>4, <1>5, <1>6

------------------------------------------------------------------------------
(* Turns *)

Ended(segs, s) == Complete(s.ring) \/ \A j \in s.left : ~Continues(s.ring, segs[j])

Grows(segs, s, t, i) ==
    /\ i \in s.left /\ Continues(s.ring, segs[i])
    /\ t.ring = Joined(s.ring, segs[i]) /\ t.left = s.left \ {i} /\ t.rings = s.rings
Starts(segs, s, t, i) ==
    /\ i \in s.left /\ Ended(segs, s)
    /\ t.ring = segs[i] /\ t.left = s.left \ {i} /\ t.rings = Finished(s)

Typed(own, P, s) ==
    /\ "ring" \in DOMAIN s /\ "left" \in DOMAIN s
    /\ s.ring \in Seq(P) /\ s.ring # <<>> /\ s.left \subseteq own /\ s.rings \in Seq(Seq(P))

(* What is finished is a ring if it has four points. *)
LEMMA Finishes ==
    ASSUME NEW own, NEW P, NEW s, Typed(own, P, s)
    PROVE  /\ Finished(s) \in Seq(Seq(P))
           /\ Finished(s) = IF Len(Forced(s.ring)) >= 4 THEN Append(s.rings, Forced(s.ring))
                                                        ELSE s.rings
  <1>1. Forced(s.ring) \in Seq(P)
    BY RingForced DEF Typed
  <1>2. Finished(s) = IF Len(Forced(s.ring)) >= 4 THEN Append(s.rings, Forced(s.ring)) ELSE s.rings
    BY DEF Finished
  <1>3. s.rings \in Seq(Seq(P))
    BY DEF Typed
  <1> DEFINE Q == Seq(P)
  <1> HIDE DEF Q
  <1>4. ASSUME NEW r \in Q, NEW l \in Seq(Q)
        PROVE  Append(l, r) \in Seq(Q)
    BY <1>4
  <1>5. QED
    BY <1>1, <1>2, <1>3, <1>4 DEF Q

(* A turn lets the ring grow or starts the next one. *)
LEMMA TurnTaken ==
    ASSUME NEW segs, NEW own, NEW P, Stitchable(segs, own, P), NEW s, Typed(own, P, s), s.left # {}
    PROVE  /\ Typed(own, P, Turn(segs, s))
           /\ \E i : Grows(segs, s, Turn(segs, s), i) \/ Starts(segs, s, Turn(segs, s), i)
  <1> DEFINE t == Turn(segs, s)
  <1>1. CASE Ended(segs, s)
    <2> DEFINE i == Min(s.left)
    <2>1. t = [ring |-> segs[i], left |-> s.left \ {i}, rings |-> Finished(s)]
      BY <1>1 DEF Ended, Turn, StartRing
    <2>2. i \in s.left
      BY FirstOf DEF Typed
    <2> HIDE DEF i, t
    <2>3. Starts(segs, s, t, i)
      BY <1>1, <2>1, <2>2 DEF Starts
    <2>4. Finished(s) \in Seq(Seq(P)) /\ segs[i] \in Seq(P) /\ segs[i] # <<>>
          /\ s.left \ {i} \subseteq own
      BY <2>2, Finishes DEF Typed, Stitchable
    <2>5. Typed(own, P, t)
      BY <2>1, <2>4 DEF Typed
    <2>6. QED
      BY <2>3, <2>5 DEF t
  <1>2. CASE ~Ended(segs, s)
    <2> DEFINE J == {j \in s.left : Continues(s.ring, segs[j])}
               i == Min(J)
    <2>1. J # {} /\ ~Complete(s.ring) /\ J \in SUBSET own
      BY <1>2 DEF Ended, Typed
    <2>2. t = [s EXCEPT !.ring = Joined(s.ring, segs[i]), !.left = s.left \ {i}]
      BY <2>1 DEF Turn, Grow
    <2>3. i \in J
      <3> HIDE DEF J
      <3>1. QED
        BY <2>1, FirstOf
    <2>4. i \in s.left /\ Continues(s.ring, segs[i])
      BY <2>3
    <2> HIDE DEF i, J, t
    <2> DEFINE r == Joined(s.ring, segs[i])
               l == s.left \ {i}
    <2>5. r \in Seq(P) /\ r # <<>>
      <3>1. segs[i] \in Seq(P) /\ segs[i] # <<>>
        BY <2>4 DEF Typed, Stitchable
      <3>2. QED
        BY <2>4, <3>1, RingGoesOn DEF Typed, Goes
    <2>6. l \subseteq own
      BY DEF Typed
    <2>7. t = [s EXCEPT !.ring = r, !.left = l]
      BY <2>2
    <2> HIDE DEF r, l
    <2>8. /\ t.ring = r /\ t.left = l /\ t.rings = s.rings
          /\ "ring" \in DOMAIN t /\ "left" \in DOMAIN t
      BY <2>7 DEF Typed
    <2>9. Typed(own, P, t)
      BY <2>5, <2>6, <2>8 DEF Typed
    <2>10. Grows(segs, s, t, i)
      BY <2>4, <2>8 DEF Grows, r, l
    <2>11. QED
      BY <2>9, <2>10 DEF t
  <1>3. QED
    BY <1>1, <1>2

(* The turns from the definition of Turns. *)
TurnsOf(g, segs, own) ==
    /\ g[0] = StartRing(segs, own, <<>>)
    /\ \A n \in 0 .. Cardinality(own) - 1 - 1 : g[n + 1] = Turn(segs, g[n])
    /\ stitchRings(segs, own) = Finished(g[Cardinality(own) - 1])

(* The recursive function of Turns exists, and stitchRings ends with its   *)
(* last turn.                                                              *)
LEMMA TurnsMade ==
    ASSUME NEW segs, NEW own, IsFiniteSet(own), own # {}
    PROVE  Cardinality(own) - 1 \in Nat /\ \E g : TurnsOf(g, segs, own)
  <1> DEFINE N == Cardinality(own) - 1
             x == StartRing(segs, own, <<>>)
             Is(g, n) == g = [i \in 0 .. n |-> IF i = 0 THEN x ELSE Turn(segs, g[i - 1])]
             S == {n \in 0 .. N : \E g : Is(g, n)}
             turn == CHOOSE g : Is(g, N)
  <1>1. N \in Nat
    BY FS_CardinalityType, FS_EmptySet
  <1>2. 0 \in S
    <2>1. Is([i \in 0 .. 0 |-> x], 0)
      <3> HIDE DEF x
      <3>1. QED
        OBVIOUS
    <2> HIDE DEF Is
    <2>2. QED
      BY <1>1, <2>1
  <1>3. ASSUME NEW n \in 0 .. N - 1, n \in S
        PROVE  n + 1 \in S
    <2>1. PICK g : Is(g, n)
      BY <1>3
    <2> HIDE DEF x, N
    <2> DEFINE h == [i \in 0 .. n + 1 |-> IF i \in 0 .. n THEN g[i] ELSE Turn(segs, g[n])]
               k == [i \in 0 .. n + 1 |-> IF i = 0 THEN x ELSE Turn(segs, h[i - 1])]
    <2>2. ASSUME NEW i \in 0 .. n + 1
          PROVE  h[i] = k[i]
      <3>1. CASE i = 0
        <4>1. g[0] = x
          BY <1>1, <2>1
        <4>2. h[0] = g[0]
          BY <1>1
        <4>3. k[0] = x
          BY <1>1
        <4>4. QED
          BY <3>1, <4>1, <4>2, <4>3
      <3>2. CASE i \in 1 .. n
        <4>1. i \in 0 .. n /\ i - 1 \in 0 .. n /\ i # 0
          BY <1>1, <3>2
        <4>2. g[i] = Turn(segs, g[i - 1])
          BY <2>1, <4>1
        <4>3. h[i] = g[i] /\ h[i - 1] = g[i - 1]
          BY <1>1, <4>1
        <4>4. k[i] = Turn(segs, h[i - 1])
          BY <4>1
        <4> HIDE DEF h, k
        <4>5. QED
          BY <4>2, <4>3, <4>4
      <3>3. CASE i = n + 1
        <4>1. n + 1 \notin 0 .. n /\ n + 1 - 1 = n /\ n \in 0 .. n /\ n \in 0 .. n + 1 /\ n + 1 # 0
          BY <1>1
        <4>2. h[n + 1] = Turn(segs, g[n]) /\ h[n] = g[n]
          BY <1>1, <4>1
        <4>3. k[n + 1] = Turn(segs, h[n])
          BY <4>1
        <4> HIDE DEF h, k
        <4>4. QED
          BY <3>3, <4>2, <4>3
      <3>4. QED
        BY <1>1, <3>1, <3>2, <3>3
    <2>3. h = [i \in 0 .. n + 1 |-> h[i]] /\ k = [i \in 0 .. n + 1 |-> k[i]]
      OBVIOUS
    <2>4. h = k
      <3> HIDE DEF h, k
      <3>1. QED
        BY <2>2, <2>3
    <2>5. Is(h, n + 1)
      BY <2>4, Zenon
    <2>6. n + 1 \in 0 .. N
      BY <1>1
    <2> HIDE DEF Is
    <2>7. QED
      BY <2>5, <2>6
  <1>4. N \in S
    <2> HIDE DEF S, N
    <2>1. N \in 0 .. N
      BY <1>1
    <2>2. QED
      BY <1>1, <1>2, <1>3, <2>1, UpTo
  <1>5. Is(turn, N)
    <2> HIDE DEF Is
    <2>1. QED
      BY <1>4
  <1>6. stitchRings(segs, own) = Finished(turn[N])
    <2>1. stitchRings(segs, own) = Finished(Turns(segs, own)[N])
      BY DEF stitchRings
    <2>2. Turns(segs, own) = turn
      BY Zenon DEF Turns
    <2>3. QED
      BY <2>1, <2>2
  <1> HIDE DEF turn, x
  <1>7. turn[0] = x
    BY <1>1, <1>5
  <1>8. ASSUME NEW i \in 0 .. N - 1
        PROVE  turn[i + 1] = Turn(segs, turn[i])
    <2>1. i + 1 \in 0 .. N /\ i + 1 # 0 /\ i + 1 - 1 = i
      BY <1>1
    <2> DEFINE h == [j \in 0 .. N |-> IF j = 0 THEN x ELSE Turn(segs, turn[j - 1])]
    <2>2. turn = h
      BY <1>5, Zenon
    <2>3. h[i + 1] = Turn(segs, turn[i])
      BY <2>1
    <2> HIDE DEF h
    <2>4. QED
      BY <2>2, <2>3
  <1>9. TurnsOf(turn, segs, own)
    BY <1>6, <1>7, <1>8 DEF TurnsOf, x
  <1>10. QED
    BY <1>1, <1>9

(* Each turn takes one segment, so that the last of them leaves none. *)
LEMMA TurnsTyped ==
    ASSUME NEW segs, NEW own, NEW P, Stitchable(segs, own, P), own # {},
           NEW g, TurnsOf(g, segs, own), NEW n \in 0 .. Cardinality(own) - 1
    PROVE  Typed(own, P, g[n]) /\ Cardinality(g[n].left) = Cardinality(own) - 1 - n
  <1> DEFINE N == Cardinality(own) - 1
             T == {k \in 0 .. N : Typed(own, P, g[k]) /\ Cardinality(g[k].left) = N - k}
  <1>1. N \in Nat /\ IsFiniteSet(own)
    BY FS_CardinalityType, FS_EmptySet DEF Stitchable
  <1>2. 0 \in T
    <2> DEFINE i == Min(own)
    <2>1. i \in own
      BY FirstOf
    <2>2. g[0] = [ring |-> segs[i], left |-> own \ {i}, rings |-> <<>>]
      BY DEF TurnsOf, StartRing
    <2> HIDE DEF i
    <2>3. Cardinality(own \ {i}) = N - 0
      BY <1>1, <2>1, FS_RemoveElement
    <2>4. Typed(own, P, g[0])
      BY <2>1, <2>2 DEF Typed, Stitchable
    <2>5. g[0].left = own \ {i} /\ 0 \in 0 .. N
      BY <1>1, <2>2
    <2>6. QED
      BY <2>3, <2>4, <2>5
  <1>3. ASSUME NEW k \in 0 .. N - 1, k \in T
        PROVE  k + 1 \in T
    <2> DEFINE s == g[k]
               t == g[k + 1]
    <2>1. t = Turn(segs, s) /\ Typed(own, P, s) /\ Cardinality(s.left) = N - k
      BY <1>3 DEF TurnsOf
    <2> HIDE DEF s, t
    <2>2. IsFiniteSet(s.left) /\ s.left # {}
      <3>1. s.left \in SUBSET own
        BY <2>1 DEF Typed
      <3>2. N - k # 0
        BY <1>1
      <3>3. QED
        BY <1>1, <2>1, <3>1, <3>2, FS_Subset, FS_EmptySet
    <2>3. Typed(own, P, t) /\ \E i : Grows(segs, s, t, i) \/ Starts(segs, s, t, i)
      BY <2>1, <2>2, TurnTaken
    <2>4. PICK i \in s.left : t.left = s.left \ {i}
      BY <2>3 DEF Grows, Starts
    <2>5. Cardinality(t.left) = N - (k + 1)
      <3> HIDE DEF N
      <3>1. Cardinality(s.left \ {i}) = Cardinality(s.left) - 1
        BY <2>2, <2>4, FS_RemoveElement
      <3>2. QED
        BY <1>1, <2>1, <2>4, <3>1
    <2>6. k + 1 \in 0 .. N
      BY <1>1
    <2>7. QED
      BY <2>3, <2>5, <2>6 DEF t
  <1>4. n \in T
    <2> HIDE DEF T, N
    <2>1. \A k \in 0 .. N : k \in T
      BY <1>1, <1>2, <1>3, UpTo
    <2>2. QED
      BY <2>1 DEF N
  <1>5. QED
    BY <1>4

(* Each turn takes a segment; in the end none is left. *)
LEMMA TurnsTaken ==
    ASSUME NEW segs, NEW own, NEW P, Stitchable(segs, own, P), own # {},
           NEW g, TurnsOf(g, segs, own)
    PROVE  /\ \A n \in 0 .. Cardinality(own) - 1 - 1 :
                 \E i : Grows(segs, g[n], g[n + 1], i) \/ Starts(segs, g[n], g[n + 1], i)
           /\ g[Cardinality(own) - 1].left = {} /\ Ended(segs, g[Cardinality(own) - 1])
  <1> DEFINE N == Cardinality(own) - 1
  <1>1. N \in Nat /\ IsFiniteSet(own)
    BY FS_CardinalityType, FS_EmptySet DEF Stitchable
  <1>2. ASSUME NEW n \in 0 .. N
        PROVE  /\ Typed(own, P, g[n]) /\ IsFiniteSet(g[n].left)
               /\ (n = N <=> g[n].left = {})
    <2>1. Typed(own, P, g[n]) /\ Cardinality(g[n].left) = N - n
      BY TurnsTyped
    <2>2. g[n].left \in SUBSET own
      BY <2>1 DEF Typed
    <2>3. QED
      BY <1>1, <2>1, <2>2, FS_Subset, FS_EmptySet
  <1>3. ASSUME NEW n \in 0 .. N - 1
        PROVE  \E i : Grows(segs, g[n], g[n + 1], i) \/ Starts(segs, g[n], g[n + 1], i)
    <2>1. n \in 0 .. N /\ n # N
      BY <1>1
    <2>2. Typed(own, P, g[n]) /\ g[n].left # {} /\ g[n + 1] = Turn(segs, g[n])
      BY <1>2, <2>1 DEF TurnsOf
    <2>3. QED
      BY <2>2, TurnTaken
  <1>4. g[N].left = {} /\ Ended(segs, g[N])
    BY <1>1, <1>2 DEF Ended
  <1>5. QED
    BY <1>3, <1>4

(* The ends at a point that are still to be met, those of the ring too.    *)
Open(segs, s, p) == Ends(segs, s.left, p) + One(s.ring[1] = p) + One(Last(s.ring) = p)

(* Open ends before and after a turn. *)
LEMMA OpenTaken ==
    ASSUME NEW segs, NEW own, NEW P, Stitchable(segs, own, P), NEW s, Typed(own, P, s),
           NEW t, NEW i, NEW p
    PROVE  /\ Ends(segs, s.left, p) \in Nat /\ Open(segs, s, p) \in Nat
           /\ Grows(segs, s, t, i) =>
                Open(segs, t, p) = Open(segs, s, p) - 2 * One(Last(s.ring) = p)
           /\ Starts(segs, s, t, i) => Open(segs, t, p) = Ends(segs, s.left, p)
           /\ Closed(s.ring) => Open(segs, s, p) = Ends(segs, s.left, p) + 2 * One(Last(s.ring) = p)
  <1>1. s.left \in SUBSET own /\ IsFiniteSet(own)
    BY DEF Typed, Stitchable
  <1>2. \A b : One(b) \in {0, 1}
    BY DEF One
  <1>3. Ends(segs, s.left, p) \in Nat
    BY <1>1, EndsCounted
  <1>4. Open(segs, s, p) \in Nat
    BY <1>2, <1>3 DEF Open
  <1>5. ASSUME i \in s.left
        PROVE  /\ Ends(segs, s.left \ {i}, p) \in Nat
               /\ Ends(segs, s.left, p) = Ends(segs, s.left \ {i}, p) + One(segs[i][1] = p)
                                        + One(Last(segs[i]) = p)
    <2>1. s.left \ {i} \in SUBSET own
      BY <1>1
    <2>2. Ends(segs, s.left \ {i}, p) \in Nat
      BY <1>1, <2>1, EndsCounted
    <2>3. \A j \in s.left : Ends(segs, s.left, p) = Ends(segs, s.left \ {j}, p)
                             + One(segs[j][1] = p) + One(Last(segs[j]) = p)
      BY <1>1, EndsCounted
    <2>4. QED
      BY <1>5, <2>2, <2>3
  <1>6. ASSUME Grows(segs, s, t, i)
        PROVE  Open(segs, t, p) = Open(segs, s, p) - 2 * One(Last(s.ring) = p)
    <2>1. segs[i] \in Seq(P) /\ segs[i] # <<>> /\ s.ring \in Seq(P) /\ s.ring # <<>>
      BY <1>1, <1>6 DEF Grows, Stitchable, Typed
    <2>2. Goes(t.ring, s.ring, segs[i])
      BY <1>6, <2>1, RingGoesOn DEF Grows
    <2>3. t.ring[1] = s.ring[1] /\ t.left = s.left \ {i} /\ i \in s.left
      BY <1>6, <2>2 DEF Grows, Goes
    <2> DEFINE a == One(s.ring[1] = p)
               b == One(Last(s.ring) = p)
               c == One(Last(t.ring) = p)
               m == Ends(segs, s.left \ {i}, p)
               n == Ends(segs, s.left, p)
    <2>4. n = m + b + c
      <3>1. CASE Last(s.ring) = segs[i][1] /\ Last(t.ring) = Last(segs[i])
        BY <1>5, <2>3, <3>1
      <3>2. CASE Last(s.ring) = Last(segs[i]) /\ Last(t.ring) = segs[i][1]
        <4>1. n = m + c + b
          BY <1>5, <2>3, <3>2
        <4>2. m \in Nat /\ b \in {0, 1} /\ c \in {0, 1}
          BY <1>2, <1>5, <2>3
        <4> HIDE DEF m, n, b, c
        <4>3. QED
          BY <4>1, <4>2
      <3>3. QED
        BY <2>2, <3>1, <3>2 DEF Goes
    <2>5. Open(segs, s, p) = n + a + b /\ Open(segs, t, p) = m + a + c
      BY <2>3 DEF Open
    <2>6. m \in Nat /\ n \in Nat /\ a \in {0, 1} /\ b \in {0, 1} /\ c \in {0, 1}
      BY <1>2, <1>3, <1>5, <2>3
    <2>7. Open(segs, t, p) = Open(segs, s, p) - 2 * b
      <3> HIDE DEF a, b, c, m, n
      <3>1. QED
        BY <2>4, <2>5, <2>6
    <2>8. QED
      BY <2>7
  <1>7. ASSUME Starts(segs, s, t, i)
        PROVE  Open(segs, t, p) = Ends(segs, s.left, p)
    BY <1>5, <1>7 DEF Starts, Open
  <1>8. ASSUME Closed(s.ring)
        PROVE  Open(segs, s, p) = Ends(segs, s.left, p) + 2 * One(Last(s.ring) = p)
    <2> DEFINE b == One(Last(s.ring) = p)
               n == Ends(segs, s.left, p)
    <2>1. Open(segs, s, p) = n + b + b
      BY <1>8 DEF Open, Closed
    <2>2. n \in Nat /\ b \in {0, 1}
      BY <1>2, <1>3
    <2>3. Open(segs, s, p) = n + 2 * b
      <3> HIDE DEF b, n
      <3>1. QED
        BY <2>1, <2>2
    <2>4. QED
      BY <2>3
  <1>9. QED
    BY <1>3, <1>4, <1>6, <1>7, <1>8

(* If all ends pair up, a ring that nothing continues is closed.           *)
Paired(segs, s) == \A p : Open(segs, s, p) % 2 = 0

(* Then the ring has come back to where it began. *)
LEMMA PairedClosed ==
    ASSUME NEW segs, NEW own, NEW P, Stitchable(segs, own, P), NEW s, Typed(own, P, s),
           Paired(segs, s), Ended(segs, s)
    PROVE  Closed(s.ring)
  <1>1. CASE Complete(s.ring)
    BY <1>1 DEF Complete
  <1>2. CASE \A j \in s.left : ~Continues(s.ring, segs[j])
    <2> DEFINE p == Last(s.ring)
    <2>1. s.left \in SUBSET own /\ IsFiniteSet(own)
      BY DEF Typed, Stitchable
    <2>2. \A j \in s.left : segs[j][1] # p /\ Last(segs[j]) # p
      BY <1>2 DEF Continues
    <2> HIDE DEF p
    <2>3. Ends(segs, s.left, p) = 0
      BY <2>1, <2>2, EndsCounted
    <2>4. (0 + One(s.ring[1] = p) + 1) % 2 = 0
      <3>1. Open(segs, s, p) % 2 = 0
        BY DEF Paired
      <3>2. Open(segs, s, p) = 0 + One(s.ring[1] = p) + 1
        BY <2>3 DEF Open, One, p
      <3>3. QED
        BY <3>1, <3>2
    <2>5. s.ring[1] = p
      BY <2>4 DEF One
    <2>6. QED
      BY <2>5 DEF Closed, p
  <1>3. QED
    BY <1>1, <1>2 DEF Ended

(* Ends that pair up do so after each turn. *)
LEMMA PairedTaken ==
    ASSUME NEW segs, NEW own, NEW P, Stitchable(segs, own, P), NEW s, Typed(own, P, s),
           Paired(segs, s), NEW t, NEW i, Grows(segs, s, t, i) \/ Starts(segs, s, t, i)
    PROVE  Paired(segs, t)
  <1>1. SUFFICES ASSUME NEW p PROVE Open(segs, t, p) % 2 = 0
    BY DEF Paired
  <1> DEFINE a == Open(segs, s, p)
             b == One(Last(s.ring) = p)
             c == Open(segs, t, p)
  <1>2. a \in Nat /\ b \in {0, 1} /\ a % 2 = 0 /\ Ends(segs, s.left, p) \in Nat
    BY OpenTaken DEF One, Paired
  <1>3. c = a - 2 * b
    <2>1. CASE Grows(segs, s, t, i)
      BY <2>1, OpenTaken
    <2>2. CASE Starts(segs, s, t, i)
      <3>1. Closed(s.ring)
        BY <2>2, PairedClosed DEF Starts
      <3>2. c = Ends(segs, s.left, p) /\ a = Ends(segs, s.left, p) + 2 * b
        BY <2>2, <3>1, OpenTaken
      <3> HIDE DEF a, b, c
      <3>3. QED
        BY <1>2, <3>2
    <2>3. QED
      BY <2>1, <2>2
  <1> HIDE DEF a, b, c
  <1>4. c % 2 = 0
    BY <1>2, <1>3
  <1>5. QED
    BY <1>4 DEF c

(* Ends that pair up do so when the first ring starts. *)
LEMMA PairedFirst ==
    ASSUME NEW segs, NEW own, NEW P, Stitchable(segs, own, P), own # {}, EvenEnds(segs, own),
           NEW g, TurnsOf(g, segs, own)
    PROVE  Paired(segs, g[0])
  <1> DEFINE i == Min(own)
             s == g[0]
  <1>1. i \in own /\ IsFiniteSet(own)
    BY FirstOf DEF Stitchable
  <1>2. s = [ring |-> segs[i], left |-> own \ {i}, rings |-> <<>>]
    BY DEF TurnsOf, StartRing
  <1> HIDE DEF i, s
  <1>3. ASSUME NEW p
        PROVE  Open(segs, s, p) = Ends(segs, own, p)
    BY <1>1, <1>2, EndsCounted DEF Open
  <1>4. ASSUME NEW p
        PROVE  Ends(segs, own, p) % 2 = 0
    <2>1. CASE p \in EndPoints(segs, own)
      BY <2>1 DEF EvenEnds
    <2>2. CASE p \notin EndPoints(segs, own)
      <3>1. \A j \in own : segs[j][1] # p /\ Last(segs[j]) # p
        BY <2>2 DEF EndPoints
      <3>2. Ends(segs, own, p) = 0
        BY <1>1, <3>1, EndsCounted
      <3>3. QED
        BY <3>2
    <2>3. QED
      BY <2>1, <2>2
  <1>5. QED
    BY <1>3, <1>4 DEF Paired, s

------------------------------------------------------------------------------
(* Rings along members *)

(* The edges of a segment are among those of its set. *)
LEMMA EdgesAre ==
    ASSUME NEW segs, NEW C, NEW i \in C
    PROVE  EdgesOf(segs[i]) \subseteq EdgesIn(segs, C)
  BY DEF EdgesIn

(* What is appended is one more. *)
LEMMA SetAppended ==
    ASSUME NEW l, IsSeq(l), NEW r
    PROVE  /\ Len(Append(l, r)) = Len(l) + 1
           /\ ToSet(Append(l, r)) = ToSet(l) \cup {r}
  <1> DEFINE S == ToSet(l) \cup {r}
             a == Append(l, r)
  <1>1. l \in Seq(S) /\ r \in S
    BY DEF IsSeq
  <1> HIDE DEF S
  <1>2. /\ Len(l) \in Nat /\ DOMAIN l = 1 .. Len(l) /\ DOMAIN a = 1 .. Len(l) + 1
        /\ a[Len(l) + 1] = r /\ \A k \in 1 .. Len(l) : a[k] = l[k]
        /\ Len(a) = Len(l) + 1
    BY <1>1
  <1> HIDE DEF a
  <1>3. 1 .. Len(l) + 1 = (1 .. Len(l)) \cup {Len(l) + 1}
    BY <1>2
  <1>4. ToSet(a) = {a[k] : k \in 1 .. Len(l) + 1} /\ ToSet(l) = {l[k] : k \in 1 .. Len(l)}
    BY <1>2 DEF ToSet
  <1>5. ToSet(a) = ToSet(l) \cup {r}
    BY <1>2, <1>3, <1>4
  <1>6. QED
    BY <1>2, <1>5 DEF a

(* A ring that is finished runs along the segments. *)
LEMMA AlongFinished ==
    ASSUME NEW segs, NEW own, NEW P, Stitchable(segs, own, P), NEW s, Typed(own, P, s),
           EdgesOf(s.ring) \subseteq EdgesIn(segs, own), AlongMembers(segs, own, s.rings),
           EvenEnds(segs, own) => Closed(s.ring)
    PROVE  AlongMembers(segs, own, Finished(s))
  <1> DEFINE r == Forced(s.ring)
  <1>1. /\ r \in Seq(P) /\ Closed(r)
        /\ Closed(s.ring) => r = s.ring
        /\ EdgesOf(SubSeq(r, 1, Len(r) - 1)) \subseteq EdgesOf(s.ring)
    BY RingForced DEF Typed
  <1>2. Finished(s) = IF Len(r) >= 4 THEN Append(s.rings, r) ELSE s.rings
    BY Finishes
  <1>3. CASE Len(r) >= 4
    <2> HIDE DEF r
    <2>1. IsSeq(s.rings)
      <3> DEFINE Q == Seq(P)
      <3>1. s.rings \in Seq(Q)
        BY DEF Typed
      <3> HIDE DEF Q
      <3>2. QED
        BY <3>1, SeqOfSet
    <2>2. ToSet(Finished(s)) = ToSet(s.rings) \cup {r}
      BY <1>2, <1>3, <2>1, SetAppended
    <2>3. /\ Complete(r)
          /\ EdgesOf(SubSeq(r, 1, Len(r) - 1)) \subseteq EdgesIn(segs, own)
          /\ EvenEnds(segs, own) => EdgesOf(r) \subseteq EdgesIn(segs, own)
      <3>1. Complete(r)
        BY <1>1, <1>3 DEF Complete
      <3> DEFINE e == EdgesOf(SubSeq(r, 1, Len(r) - 1))
      <3>2. e \subseteq EdgesOf(s.ring)
        BY <1>1
      <3> HIDE DEF e
      <3>3. e \subseteq EdgesIn(segs, own)
        BY <3>2
      <3>4. EvenEnds(segs, own) => r = s.ring
        BY <1>1
      <3>5. EvenEnds(segs, own) => EdgesOf(r) \subseteq EdgesIn(segs, own)
        BY <3>4
      <3>6. QED
        BY <3>1, <3>3, <3>5 DEF e
    <2>4. QED
      BY <2>2, <2>3 DEF AlongMembers
  <1>4. CASE ~(Len(r) >= 4)
    BY <1>2, <1>4
  <1>5. QED
    BY <1>3, <1>4

Along(segs, own, s) ==
    /\ EdgesOf(s.ring) \subseteq EdgesIn(segs, own)
    /\ AlongMembers(segs, own, s.rings)
    /\ EvenEnds(segs, own) => Paired(segs, s)

(* Rings run along the segments after each turn. *)
LEMMA AlongTaken ==
    ASSUME NEW segs, NEW own, NEW P, Stitchable(segs, own, P), NEW s, Typed(own, P, s),
           Along(segs, own, s), NEW t, NEW i, Grows(segs, s, t, i) \/ Starts(segs, s, t, i)
    PROVE  Along(segs, own, t)
  <1>1. i \in own /\ segs[i] \in Seq(P) /\ segs[i] # <<>>
    BY DEF Grows, Starts, Typed, Stitchable
  <1>2. EdgesOf(segs[i]) \subseteq EdgesIn(segs, own)
    BY <1>1, EdgesAre
  <1>3. EvenEnds(segs, own) => Paired(segs, t)
    BY PairedTaken DEF Along
  <1>4. CASE Grows(segs, s, t, i)
    <2>1. Goes(t.ring, s.ring, segs[i]) /\ t.rings = s.rings
      BY <1>1, <1>4, RingGoesOn DEF Grows, Typed
    <2>2. QED
      BY <1>2, <1>3, <2>1 DEF Along, Goes
  <1>5. CASE Starts(segs, s, t, i)
    <2>1. EvenEnds(segs, own) => Closed(s.ring)
      BY <1>5, PairedClosed DEF Starts, Along
    <2>2. AlongMembers(segs, own, Finished(s))
      BY <2>1, AlongFinished DEF Along
    <2>3. QED
      BY <1>2, <1>3, <1>5, <2>2 DEF Along, Starts
  <1>6. QED
    BY <1>4, <1>5

(* stitchRings gives rings along its segments, whatever they are. *)
LEMMA AlongStitched ==
    ASSUME NEW segs, NEW own, NEW P, Stitchable(segs, own, P)
    PROVE  stitchRings(segs, own) \in Seq(Seq(P)) /\ AlongMembers(segs, own, stitchRings(segs, own))
  <1>1. CASE own = {}
    <2>1. stitchRings(segs, own) = <<>>
      BY <1>1 DEF stitchRings
    <2>2. QED
      BY <2>1 DEF AlongMembers, ToSet
  <1>2. CASE own # {}
    <2> DEFINE N == Cardinality(own) - 1
    <2>1. N \in Nat
      BY <1>2, TurnsMade DEF Stitchable
    <2>2. PICK g : TurnsOf(g, segs, own)
      BY <1>2, TurnsMade DEF Stitchable
    <2>3. \A n \in 0 .. N : Typed(own, P, g[n])
      BY <1>2, <2>2, TurnsTyped
    <2> DEFINE T == {n \in 0 .. N : Along(segs, own, g[n])}
    <2>4. 0 \in T
      <3> DEFINE i == Min(own)
      <3>1. i \in own
        BY <1>2, FirstOf
      <3>2. g[0] = [ring |-> segs[i], left |-> own \ {i}, rings |-> <<>>]
        BY <2>2 DEF TurnsOf, StartRing
      <3> HIDE DEF i
      <3>3. EvenEnds(segs, own) => Paired(segs, g[0])
        BY <1>2, <2>2, PairedFirst
      <3>4. AlongMembers(segs, own, <<>>)
        BY DEF AlongMembers, ToSet
      <3>5. Along(segs, own, g[0])
        BY <3>1, <3>2, <3>3, <3>4, EdgesAre DEF Along
      <3>6. QED
        BY <2>1, <3>5
    <2>5. ASSUME NEW n \in 0 .. N - 1, n \in T
          PROVE  n + 1 \in T
      <3>1. n \in 0 .. N /\ n + 1 \in 0 .. N
        BY <2>1
      <3>2. PICK i : Grows(segs, g[n], g[n + 1], i) \/ Starts(segs, g[n], g[n + 1], i)
        BY <1>2, <2>2, TurnsTaken
      <3>3. Along(segs, own, g[n + 1])
        BY <2>3, <2>5, <3>1, <3>2, AlongTaken
      <3>4. QED
        BY <3>1, <3>3
    <2>6. N \in T
      <3> HIDE DEF T, N
      <3>1. N \in 0 .. N
        BY <2>1
      <3>2. QED
        BY <2>1, <2>4, <2>5, <3>1, UpTo
    <2> DEFINE s == g[N]
    <2>7. Typed(own, P, s) /\ Along(segs, own, s) /\ Ended(segs, s)
      BY <1>2, <2>1, <2>2, <2>3, <2>6, TurnsTaken
    <2>8. stitchRings(segs, own) = Finished(s)
      BY <2>2 DEF TurnsOf
    <2> HIDE DEF s
    <2>9. EvenEnds(segs, own) => Closed(s.ring)
      BY <2>7, PairedClosed DEF Along
    <2>10. AlongMembers(segs, own, Finished(s)) /\ Finished(s) \in Seq(Seq(P))
      BY <2>7, <2>9, AlongFinished, Finishes DEF Along
    <2>11. QED
      BY <2>8, <2>10
  <1>3. QED
    BY <1>1, <1>2

(* How many points a chain has. *)
Spots(segs, C) == UNION {{i} \X (2 .. Len(segs[i])) : i \in C}
Covers(segs, ring, C) ==
    /\ EdgesOf(ring) = EdgesIn(segs, C)
    /\ IsFiniteSet(Spots(segs, C)) /\ Len(ring) = PointsIn(segs, C)

(* The points a segment adds. *)
LEMMA SpotsOfOne ==
    ASSUME NEW s, Len(s) \in Nat, s # <<>>, Len(s) >= 1, NEW i
    PROVE  /\ IsFiniteSet({i} \X (2 .. Len(s)))
           /\ Cardinality({i} \X (2 .. Len(s))) = Len(s) - 1
  <1> DEFINE I == 2 .. Len(s)
             S == {i}
  <1>1. IsFiniteSet(I) /\ Cardinality(I) = Len(s) - 1
    BY FS_Interval
  <1>2. IsFiniteSet(S) /\ Cardinality(S) = 1
    BY FS_Singleton
  <1> HIDE DEF I, S
  <1>3. IsFiniteSet(S \X I) /\ Cardinality(S \X I) = Cardinality(S) * Cardinality(I)
    BY <1>1, <1>2, FS_Product
  <1>4. Cardinality(S \X I) = Len(s) - 1
    BY <1>1, <1>2, <1>3
  <1>5. QED
    BY <1>3, <1>4 DEF S, I

(* A ring of one segment. *)
LEMMA CoversOne ==
    ASSUME NEW P, NEW segs, NEW i, segs[i] \in Seq(P), segs[i] # <<>>
    PROVE  Covers(segs, segs[i], {i})
  <1>1. Len(segs[i]) \in Nat /\ Len(segs[i]) >= 1
    OBVIOUS
  <1>2. Spots(segs, {i}) = {i} \X (2 .. Len(segs[i]))
    BY DEF Spots
  <1>3. IsFiniteSet(Spots(segs, {i})) /\ Cardinality(Spots(segs, {i})) = Len(segs[i]) - 1
    BY <1>1, <1>2, SpotsOfOne
  <1>4. PointsIn(segs, {i}) = 1 + Cardinality(Spots(segs, {i}))
    BY DEF PointsIn, Spots
  <1>5. EdgesIn(segs, {i}) = EdgesOf(segs[i])
    BY DEF EdgesIn
  <1>6. Len(segs[i]) = PointsIn(segs, {i})
    BY <1>1, <1>3, <1>4
  <1>7. QED
    BY <1>3, <1>5, <1>6 DEF Covers

(* A ring with one segment more. *)
LEMMA CoversMore ==
    ASSUME NEW P, NEW segs, NEW i, segs[i] \in Seq(P), segs[i] # <<>>, NEW C, i \notin C,
           NEW ring, Covers(segs, ring, C), NEW r, Goes(r, ring, segs[i])
    PROVE  Covers(segs, r, C \cup {i})
  <1> DEFINE A == Spots(segs, C)
             B == {i} \X (2 .. Len(segs[i]))
  <1>1. Len(segs[i]) \in Nat /\ Len(segs[i]) >= 1
    OBVIOUS
  <1>2. IsFiniteSet(B) /\ Cardinality(B) = Len(segs[i]) - 1
    BY <1>1, SpotsOfOne
  <1>3. IsFiniteSet(A) /\ Len(ring) = 1 + Cardinality(A)
    BY DEF Covers, PointsIn, Spots
  <1>4. Spots(segs, C \cup {i}) = A \cup B
    BY DEF Spots
  <1>5. A \cap B = {}
    BY DEF Spots
  <1> HIDE DEF A, B
  <1>6. IsFiniteSet(A \cup B) /\ Cardinality(A \cup B) = Cardinality(A) + Cardinality(B)
    <2>1. Cardinality(A \cap B) = 0
      BY <1>5, FS_EmptySet
    <2>2. Cardinality(A) \in Nat /\ Cardinality(B) \in Nat
      BY <1>2, <1>3, FS_CardinalityType
    <2>3. /\ IsFiniteSet(A \cup B)
          /\ Cardinality(A \cup B) = Cardinality(A) + Cardinality(B) - Cardinality(A \cap B)
      BY <1>2, <1>3, FS_Union
    <2>4. QED
      BY <2>1, <2>2, <2>3
  <1>7. PointsIn(segs, C \cup {i}) = 1 + Cardinality(Spots(segs, C \cup {i}))
    BY DEF PointsIn, Spots
  <1>8. Cardinality(A) \in Nat
    BY <1>3, FS_CardinalityType
  <1>9. Len(r) = PointsIn(segs, C \cup {i})
    <2>1. Len(r) = Len(ring) + Len(segs[i]) - 1
      BY DEF Goes
    <2> DEFINE k == Len(segs[i])
               l == Len(ring)
               m == Cardinality(A)
               n == PointsIn(segs, C \cup {i})
    <2>2. l = 1 + m /\ n = 1 + (m + (k - 1)) /\ k \in Nat /\ m \in Nat /\ Len(r) = l + k - 1
      BY <1>1, <1>2, <1>3, <1>4, <1>6, <1>7, <1>8, <2>1
    <2> HIDE DEF k, l, m, n
    <2>3. Len(r) = n
      BY <2>2
    <2>4. QED
      BY <2>3 DEF n
  <1>10. EdgesIn(segs, C \cup {i}) = EdgesIn(segs, C) \cup EdgesOf(segs[i])
    BY DEF EdgesIn
  <1>11. EdgesOf(r) = EdgesIn(segs, C \cup {i})
    BY <1>10 DEF Goes, Covers
  <1>12. QED
    BY <1>4, <1>6, <1>9, <1>11 DEF Covers

------------------------------------------------------------------------------
(* Chains *)

(* No segment touches one of these from outside. *)
Apart(segs, own, F) == \A i \in F, j \in own : Touch(segs[i], segs[j]) => j \in F
(* What belongs together with one of these does with all of them. *)
Linked(segs, own, C) == \A D \in Together(segs, own) : D \cap C # {} => C \subseteq D
(* The segments of the ring meet others at its ends only. *)
Loose(segs, s, C) ==
    \A i \in C, j \in s.left :
       {segs[i][1], Last(segs[i])} \cap {segs[j][1], Last(segs[j])} \subseteq {s.ring[1], Last(s.ring)}
(* Just two ends meet at each point. *)
Two(segs, s) == \A p : Open(segs, s, p) \in {0, 2}
LongIn(segs, own, F) == {C \in Chains(segs, own) : PointsIn(segs, C) >= 4 /\ C \subseteq F}
Delivered(segs, own, rings, F) ==
    /\ Len(rings) = Cardinality(LongIn(segs, own, F))
    /\ {EdgesOf(r) : r \in ToSet(rings)} = {EdgesIn(segs, C) : C \in LongIn(segs, own, F)}

(* The segments F of rings that are finished and the segments C of the one *)
(* that is growing.                                                        *)
Chained(segs, own, s, F, C) ==
    /\ F \subseteq own /\ C \subseteq own /\ F \cap C = {} /\ s.left = own \ (F \cup C)
    /\ \E i \in C : Last(s.ring) \in {segs[i][1], Last(segs[i])}
    /\ Apart(segs, own, F) /\ Linked(segs, own, C) /\ Loose(segs, s, C) /\ Two(segs, s)
    /\ Covers(segs, s.ring, C) /\ Delivered(segs, own, s.rings, F)

(* Two ends at each point pair up. *)
LEMMA TwoPaired ==
    ASSUME NEW segs, NEW s, Two(segs, s)
    PROVE  Paired(segs, s)
  <1>1. ASSUME NEW p PROVE Open(segs, s, p) % 2 = 0
    <2>1. Open(segs, s, p) \in {0, 2}
      BY DEF Two
    <2>2. QED
      BY <2>1
  <1>2. QED
    BY <1>1 DEF Paired

(* Where the ring ends, at most one segment goes on. *)
LEMMA OneGoesOn ==
    ASSUME NEW segs, NEW own, NEW P, Stitchable(segs, own, P), NEW s, Typed(own, P, s),
           Two(segs, s), NEW i \in s.left, NEW j \in s.left, i # j,
           Continues(s.ring, segs[i])
    PROVE  ~Continues(s.ring, segs[j])
  <1> DEFINE p == Last(s.ring)
             L == s.left \ {i}
  <1>1. s.left \in SUBSET own /\ L \in SUBSET own /\ L \ {j} \in SUBSET own /\ IsFiniteSet(own)
        /\ j \in L
    BY DEF Typed, Stitchable
  <1>2. SUFFICES ASSUME Continues(s.ring, segs[j]) PROVE FALSE
    OBVIOUS
  <1>3. One(segs[i][1] = p) + One(Last(segs[i]) = p) >= 1
        /\ One(segs[j][1] = p) + One(Last(segs[j]) = p) >= 1
    BY <1>2 DEF Continues, One
  <1> HIDE DEF L
  <1>4. Ends(segs, s.left, p) = Ends(segs, L, p) + One(segs[i][1] = p) + One(Last(segs[i]) = p)
    BY <1>1, EndsCounted DEF L
  <1>5. Ends(segs, L, p) = Ends(segs, L \ {j}, p) + One(segs[j][1] = p) + One(Last(segs[j]) = p)
    BY <1>1, EndsCounted
  <1>6. Ends(segs, L \ {j}, p) \in Nat
    BY <1>1, EndsCounted
  <1>7. Open(segs, s, p) = Ends(segs, s.left, p) + One(s.ring[1] = p) + 1
    BY DEF Open, One
  <1>8. \A b : One(b) \in {0, 1}
    BY DEF One
  <1> DEFINE a == One(segs[i][1] = p)
             b == One(Last(segs[i]) = p)
             c == One(segs[j][1] = p)
             d == One(Last(segs[j]) = p)
             e == One(s.ring[1] = p)
             k == Ends(segs, s.left, p)
             l == Ends(segs, L, p)
             m == Ends(segs, L \ {j}, p)
             n == Open(segs, s, p)
  <1>9. /\ a \in {0, 1} /\ b \in {0, 1} /\ c \in {0, 1} /\ d \in {0, 1} /\ e \in {0, 1}
        /\ m \in Nat /\ a + b >= 1 /\ c + d >= 1 /\ k = l + a + b /\ l = m + c + d /\ n = k + e + 1
    BY <1>3, <1>4, <1>5, <1>6, <1>7, <1>8
  <1>10. n \in {0, 2}
    BY DEF Two
  <1> HIDE DEF a, b, c, d, e, k, l, m, n
  <1>11. QED
    BY <1>9, <1>10

(* A turn that lets the ring grow stays in its chain. *)
LEMMA ChainGrows ==
    ASSUME NEW segs, NEW own, NEW P, Stitchable(segs, own, P), NEW s, Typed(own, P, s),
           NEW F, NEW C, Chained(segs, own, s, F, C), NEW t, NEW i, Grows(segs, s, t, i)
    PROVE  Chained(segs, own, t, F, C \cup {i})
  <1> DEFINE D == C \cup {i}
  <1>1. /\ i \in s.left /\ i \in own /\ i \notin F /\ i \notin C
        /\ segs[i] \in Seq(P) /\ segs[i] # <<>> /\ Continues(s.ring, segs[i])
        /\ t.left = s.left \ {i} /\ t.rings = s.rings
    BY DEF Grows, Chained, Stitchable
  <1>2. Goes(t.ring, s.ring, segs[i])
    BY <1>1, RingGoesOn DEF Grows, Typed
  <1>3. F \subseteq own /\ D \subseteq own /\ F \cap D = {} /\ t.left = own \ (F \cup D)
    BY <1>1 DEF Chained
  <1>4. \E j \in D : Last(t.ring) \in {segs[j][1], Last(segs[j])}
    BY <1>2 DEF Goes
  <1>5. Linked(segs, own, D)
    <2>1. PICK j \in C : Last(s.ring) \in {segs[j][1], Last(segs[j])}
      BY DEF Chained
    <2>2. Touch(segs[i], segs[j]) /\ Touch(segs[j], segs[i]) /\ j \in own
      BY <1>1, <2>1 DEF Touch, Continues, Chained
    <2>3. ASSUME NEW E \in Together(segs, own), E \cap D # {}
          PROVE  D \subseteq E
      <3>1. \A k \in E, l \in own : Touch(segs[k], segs[l]) => l \in E
        BY DEF Together
      <3>2. E \cap C # {} => C \subseteq E
        BY DEF Chained, Linked
      <3>3. i \in E => j \in E
        BY <2>2, <3>1
      <3>4. C \subseteq E
        BY <2>1, <2>3, <3>2, <3>3
      <3>5. i \in E
        BY <1>1, <2>1, <2>2, <3>1, <3>4
      <3>6. QED
        BY <3>4, <3>5
    <2> HIDE DEF D
    <2>4. QED
      BY <2>3 DEF Linked
  <1>6. Loose(segs, t, D)
    <2>1. ASSUME NEW j \in D, NEW k \in t.left, NEW p,
                 p \in {segs[j][1], Last(segs[j])}, p \in {segs[k][1], Last(segs[k])}
          PROVE  p \in {t.ring[1], Last(t.ring)}
      <3>1. k \in s.left /\ k # i
        BY <1>1
      <3>2. ~Continues(s.ring, segs[k])
        BY <1>1, <3>1, OneGoesOn DEF Chained
      <3>3. p # Last(s.ring)
        BY <2>1, <3>2 DEF Continues
      <3>4. CASE j \in C
        <4>1. p \in {s.ring[1], Last(s.ring)}
          BY <2>1, <3>1, <3>4 DEF Chained, Loose
        <4>2. QED
          BY <1>2, <3>3, <4>1 DEF Goes
      <3>5. CASE j = i
        BY <1>2, <2>1, <3>3, <3>5 DEF Goes
      <3>6. QED
        BY <3>4, <3>5
    <2> HIDE DEF D
    <2>2. QED
      BY <2>1 DEF Loose
  <1>7. Two(segs, t)
    <2>1. ASSUME NEW p PROVE Open(segs, t, p) \in {0, 2}
      <3> DEFINE a == Open(segs, s, p)
                 b == Open(segs, t, p)
                 c == One(Last(s.ring) = p)
      <3>1. a \in {0, 2} /\ c \in {0, 1}
        BY DEF Chained, Two, One
      <3>2. b = a - 2 * c
        BY OpenTaken
      <3>3. c = 1 => a # 0
        <4>1. One(s.ring[1] = p) \in {0, 1} /\ Ends(segs, s.left, p) \in Nat
              /\ a = Ends(segs, s.left, p) + One(s.ring[1] = p) + c
          BY OpenTaken DEF One, Open
        <4> HIDE DEF a, c
        <4>2. QED
          BY <4>1
      <3> HIDE DEF a, b, c
      <3>4. b \in {0, 2}
        BY <3>1, <3>2, <3>3
      <3>5. QED
        BY <3>4 DEF b
    <2>2. QED
      BY <2>1 DEF Two
  <1>8. Covers(segs, t.ring, D)
    BY <1>1, <1>2, CoversMore DEF Chained
  <1>9. Apart(segs, own, F) /\ Delivered(segs, own, t.rings, F)
    BY <1>1 DEF Chained
  <1> HIDE DEF D
  <1>10. Chained(segs, own, t, F, D)
    BY <1>3, <1>4, <1>5, <1>6, <1>7, <1>8, <1>9 DEF Chained
  <1>11. QED
    BY <1>10 DEF D

(* A ring that has ended is all of a chain. *)
LEMMA ChainEnds ==
    ASSUME NEW segs, NEW own, NEW P, Stitchable(segs, own, P), NEW s, Typed(own, P, s),
           NEW F, NEW C, Chained(segs, own, s, F, C), Ended(segs, s)
    PROVE  /\ Closed(s.ring) /\ C \in Chains(segs, own) /\ Apart(segs, own, F \cup C)
           /\ \A p : Ends(segs, s.left, p) \in {0, 2}
  <1>1. Paired(segs, s)
    BY TwoPaired DEF Chained
  <1>2. Closed(s.ring)
    BY <1>1, PairedClosed
  <1>3. ASSUME NEW p
        PROVE  /\ Ends(segs, s.left, p) \in {0, 2}
               /\ Last(s.ring) = p => Ends(segs, s.left, p) = 0
    <2> DEFINE a == Open(segs, s, p)
               b == One(Last(s.ring) = p)
               n == Ends(segs, s.left, p)
    <2>1. a \in {0, 2} /\ b \in {0, 1}
      BY DEF Chained, Two, One
    <2>2. n \in Nat /\ a = n + 2 * b
      BY <1>2, OpenTaken
    <2>3. Last(s.ring) = p => b = 1
      BY DEF One
    <2> HIDE DEF a, b, n
    <2>4. n \in {0, 2} /\ (b = 1 => n = 0)
      BY <2>1, <2>2
    <2>5. QED
      BY <2>3, <2>4 DEF n
  <1>4. s.left \in SUBSET own /\ IsFiniteSet(own) /\ s.ring[1] = Last(s.ring)
    BY <1>2 DEF Typed, Stitchable, Closed
  <1>5. ASSUME NEW i \in C, NEW j \in s.left
        PROVE  ~Touch(segs[i], segs[j]) /\ ~Touch(segs[j], segs[i])
    <2> DEFINE p == Last(s.ring)
    <2>1. {segs[i][1], Last(segs[i])} \cap {segs[j][1], Last(segs[j])} \subseteq {p}
      BY <1>4 DEF Chained, Loose
    <2>2. Ends(segs, s.left, p) = 0
      BY <1>3
    <2> HIDE DEF p
    <2>3. segs[j][1] # p /\ Last(segs[j]) # p
      BY <1>4, <2>2, EndsCounted
    <2>4. {segs[i][1], Last(segs[i])} \cap {segs[j][1], Last(segs[j])} = {}
      BY <2>1, <2>3
    <2>5. QED
      BY <2>4 DEF Touch
  <1>6. ASSUME NEW i \in C, NEW j \in own, Touch(segs[i], segs[j])
        PROVE  j \in C
    <2>1. Touch(segs[j], segs[i]) /\ i \in own /\ i \notin F
      BY <1>6 DEF Touch, Chained
    <2>2. j \notin F
      BY <2>1 DEF Chained, Apart
    <2>3. j \notin s.left
      BY <1>5, <1>6
    <2>4. QED
      BY <2>2, <2>3 DEF Chained
  <1>7. C \in Together(segs, own)
    BY <1>6 DEF Together, Chained
  <1>8. ASSUME NEW D \in Together(segs, own), D \subseteq C
        PROVE  D = C
    <2>1. D # {}
      BY DEF Together
    <2>2. C \subseteq D
      BY <1>8, <2>1 DEF Chained, Linked
    <2>3. QED
      BY <1>8, <2>2
  <1>9. C \in Chains(segs, own)
    BY <1>7, <1>8 DEF Chains
  <1>10. Apart(segs, own, F \cup C)
    BY <1>6 DEF Apart, Chained
  <1>11. QED
    BY <1>2, <1>3, <1>9, <1>10

(* There are finitely many chains. *)
LEMMA LongFinite ==
    ASSUME NEW segs, NEW own, IsFiniteSet(own), NEW F
    PROVE  IsFiniteSet(LongIn(segs, own, F))
  <1>1. LongIn(segs, own, F) \in SUBSET (SUBSET own)
    BY DEF LongIn, Chains, Together
  <1>2. IsFiniteSet(SUBSET own)
    BY FS_SUBSET
  <1> HIDE DEF LongIn
  <1>3. QED
    BY <1>1, <1>2, FS_Subset

(* A chain that is finished is delivered if it is long enough. *)
LEMMA ChainFinished ==
    ASSUME NEW segs, NEW own, NEW P, Stitchable(segs, own, P), NEW s, Typed(own, P, s),
           NEW F, NEW C, Chained(segs, own, s, F, C), Ended(segs, s)
    PROVE  Delivered(segs, own, Finished(s), F \cup C)
  <1> DEFINE A == LongIn(segs, own, F)
             B == LongIn(segs, own, F \cup C)
  <1>1. Closed(s.ring) /\ C \in Chains(segs, own)
    BY ChainEnds
  <1>2. F \cap C = {} /\ C # {} /\ Linked(segs, own, C) /\ C \in Together(segs, own)
    BY <1>1 DEF Chained, Chains
  <1>3. ASSUME NEW D \in Chains(segs, own), D \subseteq F \cup C, D # C
        PROVE  D \subseteq F
    <2>1. CASE D \cap C = {}
      BY <1>3, <2>1
    <2>2. CASE D \cap C # {}
      <3>1. D \in Together(segs, own) /\ \A E \in Together(segs, own) : E \subseteq D => E = D
        BY DEF Chains
      <3>2. C \subseteq D
        BY <1>2, <2>2, <3>1 DEF Linked
      <3>3. C = D
        BY <1>2, <3>1, <3>2
      <3>4. QED
        BY <1>3, <3>3
    <2>3. QED
      BY <2>1, <2>2
  <1>4. ~(C \subseteq F)
    BY <1>2
  <1>5. B = IF PointsIn(segs, C) >= 4 THEN A \cup {C} ELSE A
    BY <1>1, <1>3 DEF LongIn
  <1>6. C \notin A
    BY <1>4 DEF LongIn
  <1>7. IsFiniteSet(A)
    BY LongFinite DEF Stitchable
  <1>8. Forced(s.ring) = s.ring
    BY <1>1, RingForced DEF Typed
  <1>9. /\ EdgesOf(s.ring) = EdgesIn(segs, C) /\ Len(s.ring) = PointsIn(segs, C)
        /\ Len(s.rings) = Cardinality(A)
        /\ {EdgesOf(r) : r \in ToSet(s.rings)} = {EdgesIn(segs, D) : D \in A}
    BY DEF Chained, Covers, Delivered
  <1>10. Finished(s) = IF Len(s.ring) >= 4 THEN Append(s.rings, s.ring) ELSE s.rings
    BY <1>8, Finishes
  <1> HIDE DEF A, B
  <1>11. CASE Len(s.ring) >= 4
    <2>1. IsSeq(s.rings)
      <3> DEFINE Q == Seq(P)
      <3>1. s.rings \in Seq(Q)
        BY DEF Typed
      <3> HIDE DEF Q
      <3>2. QED
        BY <3>1, SeqOfSet
    <2>2. /\ Finished(s) = Append(s.rings, s.ring) /\ Len(Finished(s)) = Len(s.rings) + 1
          /\ ToSet(Finished(s)) = ToSet(s.rings) \cup {s.ring}
      BY <1>10, <1>11, <2>1, SetAppended
    <2>3. B = A \cup {C}
      BY <1>5, <1>9, <1>11
    <2>4. Cardinality(B) = Cardinality(A) + 1
      BY <1>6, <1>7, <2>3, FS_AddElement
    <2>5. {EdgesOf(r) : r \in ToSet(Finished(s))} = {EdgesIn(segs, D) : D \in B}
      BY <1>9, <2>2, <2>3
    <2>6. Len(Finished(s)) = Cardinality(B)
      BY <1>9, <2>2, <2>4
    <2>7. QED
      BY <2>5, <2>6 DEF Delivered, B
  <1>12. CASE ~(Len(s.ring) >= 4)
    <2>1. B = A /\ Finished(s) = s.rings
      BY <1>5, <1>9, <1>10, <1>12
    <2>2. QED
      BY <1>9, <2>1 DEF Delivered, B
  <1>13. QED
    BY <1>11, <1>12

(* A turn that starts a ring starts a chain. *)
LEMMA ChainStarts ==
    ASSUME NEW segs, NEW own, NEW P, Stitchable(segs, own, P), NEW s, Typed(own, P, s),
           NEW F, NEW C, Chained(segs, own, s, F, C), NEW t, NEW i, Starts(segs, s, t, i)
    PROVE  Chained(segs, own, t, F \cup C, {i})
  <1>1. /\ i \in s.left /\ i \in own /\ i \notin F /\ i \notin C /\ Ended(segs, s)
        /\ segs[i] \in Seq(P) /\ segs[i] # <<>> /\ t.ring = segs[i]
        /\ t.left = s.left \ {i} /\ t.rings = Finished(s)
    BY DEF Starts, Chained, Stitchable
  <1>2. Apart(segs, own, F \cup C) /\ \A p : Ends(segs, s.left, p) \in {0, 2}
    BY <1>1, ChainEnds
  <1>3. Delivered(segs, own, t.rings, F \cup C)
    BY <1>1, ChainFinished
  <1>4. F \cup C \subseteq own /\ (F \cup C) \cap {i} = {} /\ t.left = own \ ((F \cup C) \cup {i})
    BY <1>1 DEF Chained
  <1>5. Linked(segs, own, {i})
    BY DEF Linked
  <1>6. Loose(segs, t, {i})
    BY <1>1 DEF Loose
  <1>7. Two(segs, t)
    <2>1. ASSUME NEW p PROVE Open(segs, t, p) \in {0, 2}
      BY <1>2, OpenTaken
    <2>2. QED
      BY <2>1 DEF Two
  <1>8. Covers(segs, t.ring, {i})
    BY <1>1, CoversOne
  <1>9. \E j \in {i} : Last(t.ring) \in {segs[j][1], Last(segs[j])}
    BY <1>1
  <1>10. QED
    BY <1>1, <1>2, <1>3, <1>4, <1>5, <1>6, <1>7, <1>8, <1>9 DEF Chained

(* The first ring starts a chain. *)
LEMMA ChainFirst ==
    ASSUME NEW segs, NEW own, NEW P, Stitchable(segs, own, P), own # {}, TwoEnds(segs, own),
           NEW g, TurnsOf(g, segs, own)
    PROVE  Chained(segs, own, g[0], {}, {Min(own)})
  <1> DEFINE i == Min(own)
             s == g[0]
  <1>1. i \in own /\ IsFiniteSet(own)
    BY FirstOf DEF Stitchable
  <1>2. s = [ring |-> segs[i], left |-> own \ {i}, rings |-> <<>>]
    BY DEF TurnsOf, StartRing
  <1> HIDE DEF i, s
  <1>3. s.ring = segs[i] /\ s.left = own \ {i} /\ s.rings = <<>>
        /\ segs[i] \in Seq(P) /\ segs[i] # <<>>
    BY <1>1, <1>2 DEF Stitchable
  <1>4. Two(segs, s)
    <2>1. ASSUME NEW p PROVE Open(segs, s, p) \in {0, 2}
      <3>1. Open(segs, s, p) = Ends(segs, own, p)
        BY <1>1, <1>3, EndsCounted DEF Open
      <3>2. CASE p \in EndPoints(segs, own)
        BY <3>1, <3>2 DEF TwoEnds
      <3>3. CASE p \notin EndPoints(segs, own)
        <4>1. \A j \in own : segs[j][1] # p /\ Last(segs[j]) # p
          BY <3>3 DEF EndPoints
        <4>2. Ends(segs, own, p) = 0
          BY <1>1, <4>1, EndsCounted
        <4>3. QED
          BY <3>1, <4>2
      <3>4. QED
        BY <3>2, <3>3
    <2>2. QED
      BY <2>1 DEF Two
  <1>5. Apart(segs, own, {}) /\ Linked(segs, own, {i}) /\ Loose(segs, s, {i})
    BY <1>3 DEF Apart, Linked, Loose
  <1>6. Covers(segs, s.ring, {i})
    BY <1>3, CoversOne
  <1>7. Delivered(segs, own, s.rings, {})
    <2>1. LongIn(segs, own, {}) = {}
      BY DEF LongIn, Chains, Together
    <2>2. ToSet(<<>>) = {} /\ Len(<<>>) = 0 /\ Cardinality({}) = 0
      BY FS_EmptySet DEF ToSet
    <2>3. QED
      BY <1>3, <2>1, <2>2 DEF Delivered
  <1>8. \E j \in {i} : Last(s.ring) \in {segs[j][1], Last(segs[j])}
    BY <1>3
  <1>9. Chained(segs, own, s, {}, {i})
    BY <1>1, <1>3, <1>4, <1>5, <1>6, <1>7, <1>8 DEF Chained
  <1>10. QED
    BY <1>9 DEF s, i

(* stitchRings gives one ring for each chain. *)
LEMMA ChainsStitched ==
    ASSUME NEW segs, NEW own, NEW P, Stitchable(segs, own, P), TwoEnds(segs, own)
    PROVE  OnePerChain(segs, own, stitchRings(segs, own))
  <1>1. SUFFICES Delivered(segs, own, stitchRings(segs, own), own)
    <2>1. LongIn(segs, own, own) = {C \in Chains(segs, own) : PointsIn(segs, C) >= 4}
      BY DEF LongIn, Chains, Together
    <2>2. QED
      BY <2>1 DEF OnePerChain, Delivered
  <1>2. CASE own = {}
    <2>1. LongIn(segs, own, own) = {}
      BY <1>2 DEF LongIn, Chains, Together
    <2>2. ToSet(<<>>) = {} /\ Len(<<>>) = 0 /\ Cardinality({}) = 0
      BY FS_EmptySet DEF ToSet
    <2>3. stitchRings(segs, own) = <<>>
      BY <1>2 DEF stitchRings
    <2>4. QED
      BY <2>1, <2>2, <2>3 DEF Delivered
  <1>3. CASE own # {}
    <2> DEFINE N == Cardinality(own) - 1
    <2>1. N \in Nat
      BY <1>3, TurnsMade DEF Stitchable
    <2>2. PICK g : TurnsOf(g, segs, own)
      BY <1>3, TurnsMade DEF Stitchable
    <2>3. \A n \in 0 .. N : Typed(own, P, g[n])
      BY <1>3, <2>2, TurnsTyped
    <2> DEFINE T == {n \in 0 .. N : \E F, C : Chained(segs, own, g[n], F, C)}
    <2>4. 0 \in T
      <3>1. Chained(segs, own, g[0], {}, {Min(own)})
        BY <1>3, <2>2, ChainFirst
      <3>2. QED
        BY <2>1, <3>1
    <2>5. ASSUME NEW n \in 0 .. N - 1, n \in T
          PROVE  n + 1 \in T
      <3>1. n \in 0 .. N /\ n + 1 \in 0 .. N
        BY <2>1
      <3>2. PICK i : Grows(segs, g[n], g[n + 1], i) \/ Starts(segs, g[n], g[n + 1], i)
        BY <1>3, <2>2, TurnsTaken
      <3>3. PICK F, C : Chained(segs, own, g[n], F, C)
        BY <2>5
      <3>4. Typed(own, P, g[n])
        BY <2>3, <3>1
      <3>5. CASE Grows(segs, g[n], g[n + 1], i)
        <4>1. Chained(segs, own, g[n + 1], F, C \cup {i})
          BY <3>3, <3>4, <3>5, ChainGrows
        <4>2. QED
          BY <3>1, <4>1
      <3>6. CASE Starts(segs, g[n], g[n + 1], i)
        <4>1. Chained(segs, own, g[n + 1], F \cup C, {i})
          BY <3>3, <3>4, <3>6, ChainStarts
        <4>2. QED
          BY <3>1, <4>1
      <3>7. QED
        BY <3>2, <3>5, <3>6
    <2>6. N \in T
      <3> HIDE DEF T, N
      <3>1. N \in 0 .. N
        BY <2>1
      <3>2. QED
        BY <2>1, <2>4, <2>5, <3>1, UpTo
    <2> DEFINE s == g[N]
    <2>7. Typed(own, P, s) /\ Ended(segs, s) /\ s.left = {}
      BY <1>3, <2>1, <2>2, <2>3, TurnsTaken
    <2>8. stitchRings(segs, own) = Finished(s)
      BY <2>2 DEF TurnsOf
    <2>9. PICK F, C : Chained(segs, own, s, F, C)
      BY <2>6
    <2> HIDE DEF s
    <2>10. F \cup C = own
      BY <2>7, <2>9 DEF Chained
    <2>11. Delivered(segs, own, Finished(s), F \cup C)
      BY <2>7, <2>9, ChainFinished
    <2>12. QED
      BY <2>8, <2>10, <2>11
  <1>4. QED
    BY <1>2, <1>3

(* For any segments, however many they are and however they are ordered    *)
(* and directed: every ring is closed, has four points and runs along      *)
(* edges of the segments, with an invented last edge only if the ends do   *)
(* not pair up; where two ends meet at each point, there is one ring for   *)
(* each chain that is long enough, with all of its edges (stitchRings).    *)
THEOREM RingsStitched == Spec => []RingsRunAlongMembers
  <1>1. HasInput => RingsRunAlongMembers
    <2>1. SUFFICES ASSUME input \in RingInputs
                   PROVE  /\ AlongMembers(input, DOMAIN input, stitchRings(input, DOMAIN input))
                          /\ TwoEnds(input, DOMAIN input)
                               => OnePerChain(input, DOMAIN input,
                                              stitchRings(input, DOMAIN input))
      BY DEF HasInput, Inputs, RingsRunAlongMembers
    <2> DEFINE Q == Paths \ {<<>>}
               P == Int \X Int
               N == Len(input)
    <2>2. input \in Seq(Q)
      BY <2>1, InputsAssumption
    <2>3. DOMAIN input = 1 .. N /\ N \in Nat /\ \A i \in 1 .. N : input[i] \in Q
      <3> HIDE DEF Q
      <3>1. QED
        BY <2>2
    <2>4. IsFiniteSet(1 .. N)
      BY <2>3, FS_Interval
    <2>5. \A i \in 1 .. N : input[i] \in Seq(P) /\ input[i] # <<>>
      BY <2>3 DEF Paths
    <2> HIDE DEF P, N, Q
    <2>6. Stitchable(input, DOMAIN input, P)
      BY <2>3, <2>4, <2>5 DEF Stitchable
    <2>7. QED
      BY <2>6, AlongStitched, ChainsStitched
  <1>2. QED
    BY <1>1, InputGiven, PTL

------------------------------------------------------------------------------
(* Holes *)

(* The least and the greatest coordinate of a ring. *)
Coordinates(ring, c) == {ring[i][c] : i \in DOMAIN ring}

(* Coordinates lie between their bounds. *)
LEMMA Bounds ==
    ASSUME NEW ring \in Paths, ring # <<>>, NEW c \in {1, 2}
    PROVE  LET S == Coordinates(ring, c)
           IN Min(S) \in S /\ Max(S) \in S /\ \A x \in S : Min(S) <= x /\ x <= Max(S)
  <1> DEFINE N == Len(ring)
             f == [i \in 1 .. N |-> ring[i][c]]
             S == Coordinates(ring, c)
             Low(n) == \E m \in 1 .. n : \A i \in 1 .. n : f[m] <= f[i]
             High(n) == \E m \in 1 .. n : \A i \in 1 .. n : f[m] >= f[i]
             T == {n \in 0 .. N - 1 : Low(n + 1) /\ High(n + 1)}
  <1>1. N \in Nat /\ N >= 1 /\ DOMAIN ring = 1 .. N
    BY DEF Paths
  <1>2. f \in [1 .. N -> Int]
    <2>1. \A i \in 1 .. N : ring[i] \in Int \X Int
      BY <1>1 DEF Paths
    <2>2. \A i \in 1 .. N : ring[i][c] \in Int
      BY <2>1
    <2>3. QED
      BY <2>2
  <1>3. S = {f[i] : i \in 1 .. N}
    BY <1>1 DEF Coordinates
  <1> HIDE DEF f, S, N
  <1>4. 0 \in T
    BY <1>1, <1>2
  <1>5. ASSUME NEW n \in 0 .. N - 1 - 1, n \in T
        PROVE  n + 1 \in T
    <2>1. n + 1 \in 1 .. N /\ n + 1 \in 0 .. N - 1 /\ n + 2 \in 1 .. N /\ n + 1 + 1 = n + 2
          /\ \A i \in 1 .. n + 2 : i \in 1 .. N /\ (i \in 1 .. n + 1 \/ i = n + 2)
      BY <1>1
    <2>2. PICK m \in 1 .. n + 1 : \A i \in 1 .. n + 1 : f[m] <= f[i]
      BY <1>5
    <2>3. PICK k \in 1 .. n + 1 : \A i \in 1 .. n + 1 : f[k] >= f[i]
      BY <1>5
    <2>4. \A i \in 1 .. n + 2 : f[i] \in Int
      BY <1>2, <2>1
    <2>5. m \in 1 .. n + 2 /\ k \in 1 .. n + 2 /\ n + 2 \in 1 .. n + 2
      BY <2>1
    <2>6. Low(n + 2)
      <3>1. CASE f[m] <= f[n + 2]
        BY <2>1, <2>2, <2>5, <3>1
      <3>2. CASE ~(f[m] <= f[n + 2])
        <4>1. \A i \in 1 .. n + 2 : f[n + 2] <= f[i]
          <5>1. ASSUME NEW i \in 1 .. n + 2
                PROVE  f[n + 2] <= f[i]
            <6>1. f[i] \in Int /\ f[m] \in Int /\ f[n + 2] \in Int
              BY <2>4, <2>5
            <6>2. i = n + 2 \/ f[m] <= f[i]
              BY <2>1, <2>2
            <6>3. QED
              BY <3>2, <6>1, <6>2
          <5>2. QED
            BY <5>1
        <4>2. QED
          BY <2>5, <4>1
      <3>3. QED
        BY <3>1, <3>2
    <2>7. High(n + 2)
      <3>1. CASE f[k] >= f[n + 2]
        BY <2>1, <2>3, <2>5, <3>1
      <3>2. CASE ~(f[k] >= f[n + 2])
        <4>1. \A i \in 1 .. n + 2 : f[n + 2] >= f[i]
          <5>1. ASSUME NEW i \in 1 .. n + 2
                PROVE  f[n + 2] >= f[i]
            <6>1. f[i] \in Int /\ f[k] \in Int /\ f[n + 2] \in Int
              BY <2>4, <2>5
            <6>2. i = n + 2 \/ f[k] >= f[i]
              BY <2>1, <2>3
            <6>3. QED
              BY <3>2, <6>1, <6>2
          <5>2. QED
            BY <5>1
        <4>2. QED
          BY <2>5, <4>1
      <3>3. QED
        BY <3>1, <3>2
    <2> HIDE DEF Low, High
    <2>8. QED
      BY <2>1, <2>6, <2>7
  <1>6. Low(N) /\ High(N)
    <2> DEFINE M == N - 1
    <2>1. M \in Nat /\ M \in 0 .. M /\ M + 1 = N
      BY <1>1
    <2>2. 0 \in T /\ \A n \in 0 .. M - 1 : n \in T => n + 1 \in T
      BY <1>4, <1>5
    <2> HIDE DEF T, M
    <2>3. M \in T
      BY <2>1, <2>2, UpTo
    <2> HIDE DEF Low, High
    <2>4. QED
      BY <2>1, <2>3 DEF T
  <1>7. PICK x \in S : \A y \in S : x <= y
    BY <1>3, <1>6
  <1>8. PICK z \in S : \A y \in S : z >= y
    BY <1>3, <1>6
  <1>9. S \subseteq Int
    BY <1>2, <1>3
  <1>10. Min(S) \in S /\ \A y \in S : Min(S) <= y
    BY <1>7 DEF Min
  <1>11. Max(S) \in S /\ \A y \in S : Max(S) >= y
    BY <1>8 DEF Max
  <1>12. \A y \in S : Min(S) <= y /\ y <= Max(S)
    BY <1>9, <1>10, <1>11
  <1>13. QED
    BY <1>10, <1>11, <1>12 DEF S

(* What a ring goes around is in its box. *)
LEMMA AroundInBox ==
    ASSUME NEW ring \in Paths, ring # <<>>, NEW p \in Int \X Int, GoesAround(ring, p)
    PROVE  InBox(p, ring)
  <1> DEFINE N == Len(ring)
             S(c) == Coordinates(ring, c)
  <1>1. Meets(p, ring, 1, 2, 1) /\ Meets(p, ring, 2, 1, 1)
    BY DEF GoesAround
  <1>2. N \in Nat /\ DOMAIN ring = 1 .. N /\ \A i \in 1 .. N : ring[i] \in Int \X Int
    BY DEF Paths
  <1>3. ASSUME NEW c \in {1, 2}, NEW d \in {1, 2}, Meets(p, ring, c, d, 1)
        PROVE  Min(S(d)) <= p[d] /\ p[d] <= Max(S(d))
    <2>1. PICK i \in 1 .. N - 1 : \/ Ahead(p, ring[i], ring[i + 1], c, d, 1)
                                  \/ Ahead(p, ring[i + 1], ring[i], c, d, 1)
      BY <1>3 DEF Meets
    <2> DEFINE a == ring[i][d]
               b == ring[i + 1][d]
               x == p[d]
    <2>2. (a <= x /\ x <= b) \/ (b <= x /\ x <= a)
      BY <2>1 DEF Ahead
    <2>3. i \in 1 .. N /\ i + 1 \in 1 .. N
      BY <1>2
    <2>4. a \in S(d) /\ b \in S(d) /\ a \in Int /\ b \in Int /\ x \in Int /\ S(d) \subseteq Int
      <3>1. ring[i] \in Int \X Int /\ ring[i + 1] \in Int \X Int
        BY <1>2, <2>3
      <3>2. S(d) = {ring[j][d] : j \in 1 .. N}
        BY <1>2 DEF Coordinates
      <3>3. \A j \in 1 .. N : ring[j][d] \in Int
        BY <1>2
      <3>4. QED
        BY <2>3, <3>1, <3>2, <3>3
    <2>5. \A y \in S(d) : Min(S(d)) <= y /\ y <= Max(S(d))
      BY Bounds
    <2>6. Min(S(d)) \in S(d) /\ Max(S(d)) \in S(d)
      BY Bounds
    <2>7. QED
      BY <2>2, <2>4, <2>5, <2>6
  <1>4. \A c \in {1, 2} : Min(S(c)) <= p[c] /\ p[c] <= Max(S(c))
    BY <1>1, <1>3
  <1>5. QED
    BY <1>4 DEF InBox, Coordinates
(* buildMultipolygon, whatever the members are. *)
LEMMA PolygonsBuilt ==
    ASSUME NEW members \in Seq(Members)
    PROVE  LET polygons == buildMultipolygon(members)
               points == Points(members)
               holes == RingsOf(members, TRUE)
           IN /\ AlongMembers(points, Having(members, FALSE),
                              [i \in DOMAIN polygons |-> polygons[i].shell])
              /\ AlongMembers(points, Having(members, TRUE), holes)
              /\ \A i \in DOMAIN polygons :
                    /\ polygons[i].holes \subseteq ToSet(holes)
                    /\ \A hole \in ToSet(holes) :
                          Len(polygons) = 1 \/ GoesAround(polygons[i].shell, hole[1])
                             => hole \in polygons[i].holes
  <1> DEFINE N == Len(members)
             P == Int \X Int
             points == Points(members)
             polygons == buildMultipolygon(members)
             outers == RingsOf(members, FALSE)
             holes == RingsOf(members, TRUE)
             Holes(outer) == {inner \in ToSet(holes) : Len(outers) = 1 \/ InBox(inner[1], outer)}
  <1>1. N \in Nat /\ DOMAIN members = 1 .. N /\ \A i \in 1 .. N : members[i].points \in Seq(P)
    <2>1. N \in Nat /\ DOMAIN members = 1 .. N /\ \A i \in 1 .. N : members[i] \in Members
      OBVIOUS
    <2>2. \A i \in 1 .. N : members[i].points \in Paths
      BY <2>1 DEF Members
    <2>3. QED
      BY <2>1, <2>2 DEF Paths
  <1>2. ASSUME NEW inner \in BOOLEAN
        PROVE  Stitchable(points, Having(members, inner), P)
    <2> DEFINE own == Having(members, inner)
    <2>1. own \in SUBSET (1 .. N) /\ \A i \in own : members[i].points # <<>>
      BY <1>1 DEF Having
    <2>2. \A i \in 1 .. N : points[i] = members[i].points
      BY <1>1 DEF Points
    <2> HIDE DEF own, points, P
    <2>3. IsFiniteSet(own)
      <3> DEFINE I == 1 .. N
      <3>1. IsFiniteSet(I) /\ own \in SUBSET I
        BY <1>1, <2>1, FS_Interval
      <3> HIDE DEF I
      <3>2. QED
        BY <3>1, FS_Subset
    <2>4. QED
      BY <1>1, <2>1, <2>2, <2>3 DEF Stitchable, own
  <1>3. /\ outers \in Seq(Seq(P)) /\ AlongMembers(points, Having(members, FALSE), outers)
        /\ holes \in Seq(Seq(P)) /\ AlongMembers(points, Having(members, TRUE), holes)
    <2> HIDE DEF P, points
    <2>1. QED
      BY <1>2, AlongStitched DEF RingsOf, points
  <1> HIDE DEF outers, holes
  <1>4. polygons = [i \in DOMAIN outers |-> [shell |-> outers[i], holes |-> Holes(outers[i])]]
    BY DEF buildMultipolygon, outers, holes
  <1> HIDE DEF polygons
  <1>5. ASSUME NEW rings \in Seq(Seq(P)), NEW own, AlongMembers(points, own, rings), NEW r \in ToSet(rings)
        PROVE  r \in Paths /\ r # <<>> /\ r[1] \in P
    <2>1. r \in Seq(P)
      <3> DEFINE Q == Seq(P)
      <3>1. rings \in Seq(Q)
        OBVIOUS
      <3> HIDE DEF Q
      <3>2. r \in Q
        BY <3>1 DEF ToSet
      <3>3. QED
        BY <3>2 DEF Q
    <2>2. Len(r) >= 4
      BY <1>5 DEF AlongMembers, Complete
    <2> HIDE DEF P
    <2>3. r # <<>> /\ r[1] \in P
      BY <2>1, <2>2
    <2>4. QED
      BY <2>1, <2>3 DEF Paths, P
  <1>6. DOMAIN polygons = DOMAIN outers /\ Len(polygons) = Len(outers)
    <2> DEFINE Q == Seq(P)
    <2>1. outers \in Seq(Q)
      BY <1>3
    <2> HIDE DEF Q
    <2>2. DOMAIN outers = 1 .. Len(outers) /\ Len(outers) \in Nat
      BY <2>1
    <2>3. DOMAIN polygons = 1 .. Len(outers)
      BY <1>4, <2>2
    <2>4. QED
      BY <2>2, <2>3
  <1>7. AlongMembers(points, Having(members, FALSE), [i \in DOMAIN polygons |-> polygons[i].shell])
    <2> DEFINE shells == [i \in DOMAIN polygons |-> polygons[i].shell]
    <2>1. ToSet(shells) = ToSet(outers)
      BY <1>4, <1>6 DEF ToSet
    <2> HIDE DEF shells
    <2>2. QED
      BY <1>3, <2>1 DEF AlongMembers, shells
  <1>8. ASSUME NEW i \in DOMAIN polygons
        PROVE  /\ polygons[i].holes \subseteq ToSet(holes)
               /\ \A hole \in ToSet(holes) :
                     Len(polygons) = 1 \/ GoesAround(polygons[i].shell, hole[1])
                        => hole \in polygons[i].holes
    <2> DEFINE outer == outers[i]
    <2>1. polygons[i].shell = outer /\ polygons[i].holes = Holes(outer) /\ outer \in ToSet(outers)
      BY <1>4, <1>6 DEF ToSet
    <2> HIDE DEF outer
    <2>2. ASSUME NEW hole \in ToSet(holes), GoesAround(outer, hole[1])
          PROVE  InBox(hole[1], outer)
      <3>1. outer \in Paths /\ outer # <<>> /\ hole[1] \in Int \X Int
        BY <1>3, <1>5, <2>1
      <3>2. QED
        BY <2>2, <3>1, AroundInBox
    <2>3. QED
      BY <1>6, <2>1, <2>2
  <1> HIDE DEF points
  <1>9. QED
    BY <1>3, <1>7, <1>8 DEF points, polygons, holes

(* For any members: shells run along outer members, holes along inner      *)
(* ones, and each hole is cut out of every shell that goes around its      *)
(* first point, of a single shell in any case (buildMultipolygon).         *)
THEOREM HolesCut == Spec => []HolesAreCut
  <1>1. HasInput => HolesAreCut
    <2>1. ASSUME HasInput, part = "relation"
          PROVE  input \in Seq(Members)
      BY <2>1, InputsAssumption DEF HasInput, Inputs
    <2>2. QED
      BY <2>1, PolygonsBuilt DEF HolesAreCut
  <1>2. QED
    BY <1>1, InputGiven, PTL
==============================================================================
