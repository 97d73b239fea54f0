-------------------------- MODULE RateOperatorProofs --------------------------
(***************************************************************************)
(* Proofs about RateOperator, for any number of threads, bins and rows:    *)
(* type correctness, that each series is in one place, that a GridStream   *)
(* is fed one series in order, and that the operator implements            *)
(* SeriesAnswers.                                                          *)
(***************************************************************************)
EXTENDS RateOperator, InductionLemmas, SequenceTheorems

(* The n-th number of a set, and the list of bins *)

\* A set of k numbers has exactly one n-th for each n up to k.
LEMMA NthFacts ==
  ASSUME NEW S \in SUBSET Int, IsFiniteSet(S)
  PROVE  /\ Cardinality(S) \in Nat
         /\ \A k \in 1 .. Cardinality(S) :
              Nth(S, k) \in S /\ Cardinality({a \in S : a <= Nth(S, k)}) = k
         /\ \A b \in S : \E k \in 1 .. Cardinality(S) : Nth(S, k) = b
  <1> DEFINE n == Cardinality(S)
             key == [b \in S |-> b]
  <1>1. key \in [S -> Int] /\ \A x, y \in S : key[x] = key[y] => x = y
    OBVIOUS
  <1>0. n \in Nat
    BY FS_CardinalityType
  <1>2. PICK rank \in [S -> 1 .. n] :
          /\ \A x \in S, U \in SUBSET S :
               (\A z \in S : z \in U <=> key[z] <= key[x]) => rank[x] = Cardinality(U)
          /\ \A k \in 1 .. n : \E x \in S : rank[x] = k
          /\ \A x, y \in S : key[x] < key[y] <=> rank[x] < rank[y]
    <2> HIDE DEF key
    <2> QED
      BY <1>1, Ranks, ZenonT(60)
  <1>3. ASSUME NEW x \in S PROVE rank[x] = Cardinality({a \in S : a <= x})
    <2> DEFINE U == {a \in S : a <= x}
    <2>1. U \in SUBSET S /\ \A z \in S : z \in U <=> key[z] <= key[x]
      OBVIOUS
    <2> HIDE DEF key, U
    <2>2. rank[x] = Cardinality(U)
      BY <2>1, <1>2
    <2> QED
      BY <2>2 DEF U
  <1>4. ASSUME NEW k \in 1 .. n
        PROVE  Nth(S, k) \in S /\ Cardinality({a \in S : a <= Nth(S, k)}) = k
    <2>1. \E b \in S : Cardinality({a \in S : a <= b}) = k
      BY <1>2, <1>3
    <2> HIDE DEF n
    <2> QED
      BY <2>1 DEF Nth
  <1>5. ASSUME NEW b \in S PROVE \E k \in 1 .. n : Nth(S, k) = b
    <2>1. rank[b] \in 1 .. n
      BY <1>2
    <2>2. Nth(S, rank[b]) \in S /\ rank[Nth(S, rank[b])] = rank[b]
      BY <2>1, <1>3, <1>4
    <2>3. Nth(S, rank[b]) = b
      <3>1. /\ key[b] = b /\ key[Nth(S, rank[b])] = Nth(S, rank[b])
            /\ b \in Int /\ Nth(S, rank[b]) \in Int
        BY <2>2
      <3>2. ~(key[b] < key[Nth(S, rank[b])]) /\ ~(key[Nth(S, rank[b])] < key[b])
        <4>1. rank[b] \in Int
          BY <2>1, <1>2
        <4>2. \A x, y \in S : key[x] < key[y] <=> rank[x] < rank[y]
          BY <1>2
        <4> DEFINE a == Nth(S, rank[b])
        <4> HIDE DEF key, a
        <4>3. a \in S /\ rank[a] = rank[b]
          BY <2>2 DEF a
        <4>4. ~(key[b] < key[a]) /\ ~(key[a] < key[b])
          BY <4>1, <4>2, <4>3
        <4> QED
          BY <4>4 DEF a
      <3> QED
        BY <3>1, <3>2
    <2> QED
      BY <2>1, <2>3
  <1> QED
    BY <1>0, <1>4, <1>5

\* The list of bins names each bin that has a row once, and no other.
LEMMA BinsFacts ==
  /\ Len(non_empty_bins) \in Nat
  /\ DOMAIN non_empty_bins = 1 .. Len(non_empty_bins)
  /\ \A k \in DOMAIN non_empty_bins : non_empty_bins[k] \in full_bins
  /\ \A j, k \in DOMAIN non_empty_bins : non_empty_bins[j] = non_empty_bins[k] => j = k
  /\ \A b \in full_bins : \E k \in DOMAIN non_empty_bins : non_empty_bins[k] = b
  <1> DEFINE n == Cardinality(full_bins)
             bins == [k \in 1 .. n |-> Nth(full_bins, k)]
  <1>1. full_bins \in SUBSET Int /\ IsFiniteSet(full_bins)
    <2>1. full_bins \in SUBSET (1 .. NumBins) /\ NumBins \in Int
      BY OperatorAssumption DEF full_bins
    <2>2. IsFiniteSet(1 .. NumBins)
      BY <2>1, FS_Interval
    <2>3. IsFiniteSet(full_bins)
      <3> HIDE DEF n, bins
      <3> QED
        BY <2>1, <2>2, FS_Subset
    <2>4. full_bins \subseteq Int
      BY <2>1
    <2> QED
      BY <2>3, <2>4
  <1>2. /\ n \in Nat
        /\ \A k \in 1 .. n : Nth(full_bins, k) \in full_bins
                             /\ Cardinality({a \in full_bins : a <= Nth(full_bins, k)}) = k
        /\ \A b \in full_bins : \E k \in 1 .. n : Nth(full_bins, k) = b
    BY <1>1, NthFacts
  <1> HIDE DEF n
  <1>3. bins \in Seq(full_bins) /\ Len(bins) = n /\ DOMAIN bins = 1 .. n
    <2>1. bins \in [1 .. n -> full_bins]
      BY <1>2
    <2> QED
      BY <1>2, <2>1, SeqDef
  <1>4. \A k \in 1 .. n : bins[k] = Nth(full_bins, k)
    OBVIOUS
  <1>5. non_empty_bins = bins
    BY DEF non_empty_bins, n
  <1> HIDE DEF bins
  <1>6. \A j, k \in 1 .. n : bins[j] = bins[k] => j = k
    <2> SUFFICES ASSUME NEW j \in 1 .. n, NEW k \in 1 .. n, bins[j] = bins[k]
                 PROVE  j = k
        OBVIOUS
    <2> DEFINE Rank(b) == Cardinality({a \in full_bins : a <= b})
    <2>1. Rank(bins[j]) = j /\ Rank(bins[k]) = k
      BY <1>2, <1>4
    <2> HIDE DEF Rank
    <2> QED
      BY <2>1
  <1> QED
    BY <1>2, <1>3, <1>4, <1>5, <1>6

-----------------------------------------------------------------------------
(* Rows and samples *)

LEMMA KeptFields ==
  ASSUME table \in Tables, NEW r \in Kept(table)
  PROVE  /\ r.id \in SeriesId /\ r.id \in Int /\ r.t \in Time /\ r.t \in Int
         /\ SampleOf(r) \in CounterSample /\ SampleOf(r).t = r.t
         /\ SampleOf(r) \in SamplesOf(table, r.id)
  <1>1. /\ r \in [id : SeriesId, t : Time \union {Null},
                   v : FedValue \union {Null}, st : StartTs]
        /\ r.t # Null /\ r.v # Null
    BY TableAssumption DEF Kept, Tables
  <1>2. r.id \in SeriesId /\ r.t \in Time /\ r.v \in FedValue /\ r.st \in StartTs
    BY <1>1
  <1>3. r.id \in Int /\ r.t \in Int
    BY <1>2, TableAssumption, SeriesAssumption
  <1>4. SampleOf(r) \in CounterSample /\ SampleOf(r).t = r.t
    BY <1>2 DEF SampleOf, CounterSample
  <1>5. SampleOf(r) \in SamplesOf(table, r.id)
    BY DEF SamplesOf
  <1> QED
    BY <1>2, <1>3, <1>4, <1>5

\* A usable series is one of the kept rows'.
LEMMA UsableFacts ==
  ASSUME table \in Tables, NEW id, NEW s \in SamplesOf(table, id)
  PROVE  s \in CounterSample /\ \E r \in Kept(table) : r.id = id /\ s = SampleOf(r)
  <1>1. PICK r \in Kept(table) : r.id = id /\ s = SampleOf(r)
    BY DEF SamplesOf
  <1> QED
    BY <1>1, KeptFields

RowBefore(p, q) == p.id < q.id \/ (p.id = q.id /\ p.t <= q.t)

\* Whatever order SortStrategy chose, a sorted bin has each of its rows.
LEMMA SortedFacts ==
  ASSUME table \in Tables, NEW bin, NEW s \in SortedRows(bin)
  PROVE  /\ s \in Seq(Kept(table))
         /\ \A k \in DOMAIN s : s[k] \in RowsOf(bin)
         /\ \A j, k \in DOMAIN s : j < k => RowBefore(s[j], s[k])
         /\ \A r \in RowsOf(bin) : \E k \in DOMAIN s : s[k] = r
  <1> DEFINE n == Cardinality(RowsOf(bin))
             All == 1 .. n
  <1>1. IsFiniteSet(RowsOf(bin)) /\ RowsOf(bin) \subseteq Kept(table)
    <2>1. IsFiniteSet(table)
      BY DEF Tables
    <2>2. RowsOf(bin) \in SUBSET table /\ RowsOf(bin) \subseteq Kept(table)
      BY DEF RowsOf, Kept
    <2>3. IsFiniteSet(RowsOf(bin))
      BY <2>1, <2>2, FS_Subset
    <2> QED
      BY <2>2, <2>3
  <1>2. n \in Nat /\ IsFiniteSet(All) /\ Cardinality(All) = n
    <2>1. n \in Nat
      BY <1>1, FS_CardinalityType
    <2> HIDE DEF n
    <2> QED
      BY <2>1, FS_Interval
  <1>3. /\ s \in [All -> RowsOf(bin)]
        /\ \A j, k \in All : j < k => s[j] # s[k] /\ RowBefore(s[j], s[k])
    BY DEF SortedRows, RowBefore
  <1> HIDE DEF n
  <1>4. \A j, k \in All : s[j] = s[k] => j = k
    <2> SUFFICES ASSUME NEW j \in All, NEW k \in All, j # k PROVE s[j] # s[k]
        OBVIOUS
    <2>1. j < k \/ k < j
      BY <1>2
    <2> QED
      BY <2>1, <1>3
  <1>5. s \in Surjection(All, RowsOf(bin))
    <2>1. s \in Injection(All, RowsOf(bin))
      BY <1>3, <1>4 DEF Injection, IsInjective
    <2>2. Cardinality(All) = Cardinality(RowsOf(bin))
      BY <1>2 DEF n
    <2> HIDE DEF All
    <2> QED
      BY <2>1, <2>2, <1>1, FS_Injection
  <1>6. \A r \in RowsOf(bin) : \E k \in All : s[k] = r
    BY <1>5 DEF Surjection
  <1>7. s \in Seq(Kept(table))
    <2>1. s \in [1 .. n -> Kept(table)]
      BY <1>1, <1>3
    <2> QED
      BY <2>1, <1>2, SeqDef
  <1>8. DOMAIN s = All
    BY <1>3
  <1> QED
    BY <1>3, <1>6, <1>7, <1>8

-----------------------------------------------------------------------------
(* Queues and chunks *)

Points == [1 .. Count -> SUBSET CounterSample]
OutputRow == [id : SeriesId, points : Points]

Absent(c, id) == PositionsOf(c, id) = {}
Once(c, id) == \E k \in DOMAIN c : PositionsOf(c, id) = {k}

LEMMA AppendPositions ==
  ASSUME NEW c \in Seq(OutputRow), NEW row \in OutputRow, NEW id
  PROVE  /\ row.id # id => PositionsOf(Append(c, row), id) = PositionsOf(c, id)
         /\ row.id = id => PositionsOf(Append(c, row), id) = PositionsOf(c, id) \union {Len(c) + 1}
  <1>1. /\ DOMAIN c = 1 .. Len(c) /\ Len(c) \in Nat
        /\ DOMAIN Append(c, row) = 1 .. Len(c) + 1
        /\ \A k \in 1 .. Len(c) : Append(c, row)[k] = c[k]
        /\ Append(c, row)[Len(c) + 1] = row
    OBVIOUS
  <1>2. 1 .. Len(c) + 1 = (1 .. Len(c)) \union {Len(c) + 1} /\ Len(c) + 1 \notin 1 .. Len(c)
    BY <1>1
  <1> DEFINE d == Append(c, row)
             m == Len(c) + 1
  <1>3. DOMAIN d = DOMAIN c \union {m} /\ (\A k \in DOMAIN c : d[k] = c[k]) /\ d[m] = row
        /\ m \notin DOMAIN c
    BY <1>1, <1>2
  <1> HIDE DEF d, m
  <1>4. /\ row.id # id => PositionsOf(d, id) = PositionsOf(c, id)
        /\ row.id = id => PositionsOf(d, id) = PositionsOf(c, id) \union {m}
    BY <1>3 DEF PositionsOf
  <1> QED
    BY <1>4 DEF d, m

\* A queue that is given a row for a series has that row for it and no other.
LEMMA AppendRow ==
  ASSUME NEW c \in Seq(OutputRow), NEW row \in OutputRow, NEW id
  PROVE  /\ row.id # id /\ Absent(c, id) => Absent(Append(c, row), id)
         /\ row.id # id /\ Once(c, id) => Once(Append(c, row), id)
         /\ row.id = id /\ Absent(c, id) => Once(Append(c, row), id)
  <1>1. /\ row.id # id => PositionsOf(Append(c, row), id) = PositionsOf(c, id)
        /\ row.id = id => PositionsOf(Append(c, row), id) = PositionsOf(c, id) \union {Len(c) + 1}
    BY AppendPositions
  <1>2. DOMAIN c \subseteq DOMAIN Append(c, row) /\ Len(c) + 1 \in DOMAIN Append(c, row)
    OBVIOUS
  <1> QED
    BY <1>1, <1>2 DEF Absent, Once

\* A queue that loses its first row.
LEMMA TailRow ==
  ASSUME NEW c \in Seq(OutputRow), c # <<>>, NEW id
  PROVE  /\ Head(c) \in OutputRow /\ Tail(c) \in Seq(OutputRow)
         /\ Absent(c, id) => Head(c).id # id /\ Absent(Tail(c), id)
         /\ Head(c).id # id /\ Once(c, id) => Once(Tail(c), id)
         /\ Head(c).id = id /\ Once(c, id) => Absent(Tail(c), id)
  <1>1. /\ Len(c) \in Nat /\ Len(c) > 0 /\ DOMAIN c = 1 .. Len(c)
        /\ Head(c) = c[1] /\ c[1] \in OutputRow
        /\ Tail(c) \in Seq(OutputRow) /\ DOMAIN Tail(c) = 1 .. Len(c) - 1
        /\ \A k \in 1 .. Len(c) - 1 : Tail(c)[k] = c[k + 1]
    OBVIOUS
  <1> DEFINE d == Tail(c)
             n == Len(c)
  <1>2. \A k \in DOMAIN d : k + 1 \in DOMAIN c /\ k + 1 # 1 /\ d[k] = c[k + 1] /\ k \in Int
    BY <1>1
  <1>3. \A k \in DOMAIN c : k # 1 => k - 1 \in DOMAIN d /\ d[k - 1] = c[k] /\ k \in Int
    BY <1>1
  <1>3a. \A k \in DOMAIN d : (k + 1) - 1 = k
    BY <1>2
  <1>4. 1 \in DOMAIN c
    BY <1>1
  <1> HIDE DEF d
  <1>5. ASSUME Absent(c, id) PROVE Head(c).id # id /\ Absent(d, id)
    BY <1>1, <1>2, <1>4, <1>5 DEF Absent, PositionsOf
  <1>6. ASSUME Head(c).id # id, Once(c, id) PROVE Once(d, id)
    <2>1. PICK k \in DOMAIN c : PositionsOf(c, id) = {k}
      BY <1>6 DEF Once
    <2>2. k # 1 /\ k - 1 \in DOMAIN d /\ d[k - 1].id = id
      <3>1. c[k].id = id
        BY <2>1 DEF PositionsOf
      <3> QED
        BY <3>1, <1>1, <1>3, <1>6
    <2>3. ASSUME NEW j \in DOMAIN d, d[j].id = id PROVE j = k - 1
      <3>1. j + 1 \in PositionsOf(c, id)
        BY <1>2, <2>3 DEF PositionsOf
      <3>2. j + 1 = k
        BY <2>1, <3>1
      <3> QED
        BY <3>2, <1>3a
    <2>4. PositionsOf(d, id) = {k - 1}
      BY <2>2, <2>3 DEF PositionsOf
    <2> QED
      BY <2>2, <2>4 DEF Once
  <1>7. ASSUME Head(c).id = id, Once(c, id) PROVE Absent(d, id)
    <2>1. PICK k \in DOMAIN c : PositionsOf(c, id) = {k}
      BY <1>7 DEF Once
    <2>2. 1 \in PositionsOf(c, id)
      BY <1>1, <1>4, <1>7 DEF PositionsOf
    <2>3. ASSUME NEW j \in DOMAIN d, d[j].id = id PROVE FALSE
      <3>1. j + 1 \in PositionsOf(c, id) /\ j + 1 # 1
        BY <1>2, <2>3 DEF PositionsOf
      <3> QED
        BY <3>1, <2>1, <2>2
    <2> QED
      BY <2>3 DEF Absent, PositionsOf
  <1> QED
    BY <1>1, <1>5, <1>6, <1>7 DEF d

\* What a chunk answers for a series that has a row in it at most once.
LEMMA AnswersFacts ==
  ASSUME NEW c \in Seq(OutputRow), NEW id
  PROVE  /\ Absent(c, id) => AnswersIn(c, id) = <<>>
         /\ Once(c, id) => \E k \in DOMAIN c :
              PositionsOf(c, id) = {k} /\ AnswersIn(c, id) = <<c[k].points>>
  <1>1. ASSUME Absent(c, id) PROVE AnswersIn(c, id) = <<>>
    <2>1. Cardinality(PositionsOf(c, id)) = 0
      BY <1>1, FS_EmptySet DEF Absent
    <2> QED
      BY <2>1 DEF AnswersIn
  <1>2. ASSUME Once(c, id)
        PROVE  \E k \in DOMAIN c : PositionsOf(c, id) = {k} /\ AnswersIn(c, id) = <<c[k].points>>
    <2>1. PICK k \in DOMAIN c : PositionsOf(c, id) = {k}
      BY <1>2 DEF Once
    <2>2. k \in Int /\ IsFiniteSet({k}) /\ Cardinality({k}) = 1
      <3>1. k \in Int
        OBVIOUS
      <3>2. IsFiniteSet({k}) /\ Cardinality({k}) = 1
        BY FS_Singleton
      <3> QED
        BY <3>1, <3>2
    <2>3. Nth({k}, 1) = k
      <3> DEFINE S == {k}
      <3>1. S \in SUBSET Int /\ IsFiniteSet(S) /\ Cardinality(S) = 1 /\ 1 \in 1 .. 1
        BY <2>2
      <3>2. Nth(S, 1) \in S
        <4> HIDE DEF S
        <4>1. \A j \in 1 .. Cardinality(S) : Nth(S, j) \in S
          BY <3>1, NthFacts
        <4> QED
          BY <3>1, <4>1
      <3> QED
        BY <3>2
    <2>4. AnswersIn(c, id) = [n \in 1 .. 1 |-> c[Nth({k}, n)].points]
      BY <2>1, <2>2 DEF AnswersIn
    <2>5. AnswersIn(c, id) = <<c[k].points>>
      <3>1. \A n \in 1 .. 1 : c[Nth({k}, n)].points = c[k].points
        BY <2>3
      <3> QED
        BY <2>4, <3>1
    <2> QED
      BY <2>1, <2>5
  <1> QED
    BY <1>1, <1>2

-----------------------------------------------------------------------------
(* What a GridStream fed a whole series answers *)

LEMMA SampleFields ==
  \A s \in CounterSample : s.t \in Int /\ s.v \in Value
  BY SeriesAssumption DEF CounterSample

\* The rank of a value as one number.
Score(v) ==
  IF is_stale(v) THEN TotalOrderKey(v)
  ELSE IF IsNaN(v) THEN 2 * SignBit + TotalOrderKey(v)
  ELSE 4 * SignBit + TotalOrderKey(v)

LEMMA ScoreFacts ==
  /\ \A v \in Value : Score(v) \in 0 .. 6 * SignBit
  /\ \A v, w \in Value : dedup_policy(v, w) <=> Score(w) < Score(v)
  /\ \A v, w \in Value : Score(v) = Score(w) => v = w
  <1>1. SignBit \in Nat
    BY DoubleAssumption
  <1>2. \A v \in Value : v \in Int /\ TotalOrderKey(v) \in 0 .. 2 * SignBit - 1
    BY <1>1 DEF Value, TotalOrderKey
  <1>3. \A v, w \in Value : TotalOrderKey(v) = TotalOrderKey(w) => v = w
    BY <1>1 DEF Value, TotalOrderKey
  <1>4. \A v \in Value : Score(v) \in 0 .. 6 * SignBit
    BY <1>1, <1>2 DEF Score
  <1>5. \A v, w \in Value : dedup_policy(v, w) <=> Score(w) < Score(v)
    BY <1>1, <1>2 DEF Score, dedup_policy, RankLess, RankOf
  <1>6. \A v, w \in Value : Score(v) = Score(w) => v = w
    <2>1. \A v, w \in Value : Score(v) = Score(w) => TotalOrderKey(v) = TotalOrderKey(w)
      BY <1>1, <1>2 DEF Score
    <2> QED
      BY <2>1, <1>3
  <1> QED
    BY <1>4, <1>5, <1>6

\* Each timestamp has a winner,
LEMMA Winner ==
  ASSUME NEW f \in Seq(CounterSample), NEW j \in DOMAIN f
  PROVE  \E k \in DOMAIN f : f[k].t = f[j].t /\ Wins(f, k)
  <1> DEFINE Group == {k \in DOMAIN f : f[k].t = f[j].t}
             Scores == {Score(f[k].v) : k \in Group}
             n == Len(f)
  <1>1. n \in Nat /\ DOMAIN f = 1 .. n /\ \A k \in DOMAIN f : f[k].v \in Value
    <2>1. n \in Nat /\ DOMAIN f = 1 .. n /\ \A k \in DOMAIN f : f[k] \in CounterSample
      OBVIOUS
    <2> QED
      BY <2>1, SampleFields
  <1>2. PICK m \in Scores : \A x \in Scores : x <= m
    <2>1. 6 * SignBit \in Nat
      BY DoubleAssumption
    <2>2. Scores \in SUBSET (0 .. 6 * SignBit) /\ Scores # {}
      BY <1>1, ScoreFacts
    <2> HIDE DEF Scores
    <2> QED
      BY <2>1, <2>2, GreatestExists
  <1> DEFINE Best == {n - k : k \in {i \in Group : Score(f[i].v) = m}}
  <1>3. PICK b \in Best : \A x \in Best : x <= b
    <2>1. Best \in SUBSET (0 .. n) /\ Best # {}
      BY <1>1
    <2> HIDE DEF Best, n
    <2> QED
      BY <1>1, <2>1, GreatestExists
  <1>4. PICK k \in Group : Score(f[k].v) = m /\ b = n - k
    OBVIOUS
  <1>5. ASSUME NEW i \in Group
        PROVE  ~dedup_policy(f[i].v, f[k].v) /\ (f[i].v = f[k].v => k <= i)
    <2>1. Score(f[i].v) <= Score(f[k].v)
      BY <1>2, <1>4
    <2>2. ~dedup_policy(f[i].v, f[k].v)
      <3>1. Score(f[i].v) \in Int /\ Score(f[k].v) \in Int
        BY <1>1, ScoreFacts
      <3>2. ~(Score(f[k].v) < Score(f[i].v))
        BY <2>1, <3>1
      <3> QED
        BY <3>2, <1>1, ScoreFacts
    <2>3. ASSUME f[i].v = f[k].v PROVE k <= i
      <3>1. n - i \in Best
        BY <1>4, <2>3
      <3>2. n - i <= n - k /\ i \in Int /\ k \in Int
        <4>1. i \in Int /\ k \in Int
          BY <1>1
        <4> HIDE DEF Best, n, Group
        <4> QED
          BY <3>1, <4>1, <1>3, <1>4
      <3> QED
        BY <3>2, <1>1
    <2> QED
      BY <2>2, <2>3
  <1>6. Wins(f, k)
    BY <1>4, <1>5 DEF Wins
  <1> QED
    BY <1>4, <1>6

\* and only one.
LEMMA WinnerUnique ==
  ASSUME NEW f \in Seq(CounterSample), NEW p \in DOMAIN f, NEW q \in DOMAIN f,
         Wins(f, p), Wins(f, q), f[p].t = f[q].t
  PROVE  p = q
  <1>1. f[p] \in CounterSample /\ f[q] \in CounterSample /\ p \in Nat /\ q \in Nat
    OBVIOUS
  <1>2. f[p].v \in Value /\ f[q].v \in Value
    BY <1>1, SampleFields
  <1>3. ~dedup_policy(f[p].v, f[q].v) /\ ~dedup_policy(f[q].v, f[p].v)
    BY DEF Wins
  <1>4. Score(f[p].v) \in Int /\ Score(f[q].v) \in Int
    BY <1>2, ScoreFacts
  <1>5. ~(Score(f[q].v) < Score(f[p].v)) /\ ~(Score(f[p].v) < Score(f[q].v))
    BY <1>2, <1>3, ScoreFacts
  <1>6. Score(f[p].v) = Score(f[q].v)
    BY <1>4, <1>5
  <1>7. f[p].v = f[q].v
    BY <1>2, <1>6, ScoreFacts
  <1> QED
    BY <1>1, <1>7 DEF Wins

FedOf(f) == {f[k] : k \in DOMAIN f}

AnswerOf(f) == [i \in 1 .. Count |-> WindowOf(f, i - 1)]

LEMMA CountNat == Count \in Nat
  BY GridAssumption DEF Count

\* SeriesAnswers' operators are this module's.
LEMMA SameOperators ==
  /\ \A T, id : Answers!SamplesOf(T, id) = SamplesOf(T, id)
  /\ \A anchor, t : Answers!Contains(anchor, t) <=> Contains(anchor, t)
  /\ \A i : Answers!At(i) = At(i)
  /\ \A v, w : Answers!dedup_policy(v, w) <=> dedup_policy(v, w)
  /\ Answers!Count = Count /\ Answers!Tables = Tables
  <1>1. \A T, id : Answers!SamplesOf(T, id) = SamplesOf(T, id)
    BY DEF Answers!SamplesOf, SamplesOf, Answers!SampleOf, SampleOf, Answers!Kept, Kept
  <1>2. \A anchor, t : Answers!Contains(anchor, t) <=> Contains(anchor, t)
    BY DEF Answers!Contains, Contains
  <1>3. \A i : Answers!At(i) = At(i)
    BY DEF Answers!At, At
  <1>4. \A v, w : Answers!dedup_policy(v, w) <=> dedup_policy(v, w)
    BY DEF Answers!dedup_policy, dedup_policy, Answers!RankLess, RankLess, Answers!RankOf, RankOf,
           Answers!is_stale, is_stale, Answers!IsNaN, IsNaN, Answers!Magnitude, Magnitude,
           Answers!TotalOrderKey, TotalOrderKey
  <1>5. Answers!Count = Count
    BY DEF Answers!Count, Count
  <1>6. Answers!Tables = Tables
    <2>1. \A S : Answers!IsFiniteSet(S) <=> IsFiniteSet(S)
      BY Zenon DEF Answers!IsFiniteSet, IsFiniteSet
    <2>2. \A S : Answers!Cardinality(S) = Cardinality(S)
      BY Zenon DEF Answers!Cardinality, Cardinality
    <2> QED
      BY <2>1, <2>2 DEF Answers!Tables, Tables
  <1> QED
    BY <1>1, <1>2, <1>3, <1>4, <1>5, <1>6

\* So the windows of a series fed whole, in any order, are its answer.
LEMMA WholeSeriesAnswered ==
  ASSUME NEW f \in Seq(CounterSample), NEW id, FedOf(f) = SamplesOf(table, id)
  PROVE  AnswerOf(f) \in Points /\ Answers!IsAnswer(id, AnswerOf(f))
  <1> DEFINE points == AnswerOf(f)
  <1>1. DOMAIN points = 1 .. Count /\ \A i \in 1 .. Count : points[i] = WindowOf(f, i - 1)
    BY DEF AnswerOf
  <1>2. \A s \in FedOf(f) : s \in CounterSample
    BY DEF FedOf
  <1>3. points \in Points
    <2>1. \A i \in 1 .. Count : WindowOf(f, i - 1) \in SUBSET CounterSample
      BY DEF WindowOf, Survivors
    <2> QED
      BY <2>1 DEF Points, AnswerOf
  <1>4. ASSUME NEW i \in 1 .. Count
        PROVE  LET window == {s \in SamplesOf(table, id) : Contains(At(i - 1), s.t)}
               IN  /\ points[i] \subseteq window
                   /\ {s.t : s \in points[i]} = {s.t : s \in window}
                   /\ \A s \in points[i], u \in window : s.t = u.t =>
                        ~dedup_policy(u.v, s.v) /\ (u \in points[i] => u = s)
    <2> DEFINE window == {s \in FedOf(f) : Contains(At(i - 1), s.t)}
               own == WindowOf(f, i - 1)
    <2>1. ASSUME NEW s \in own
          PROVE  \E k \in DOMAIN f : Wins(f, k) /\ s = f[k] /\ s \in window
      BY DEF WindowOf, Survivors, FedOf
    <2>2. ASSUME NEW u \in window PROVE \E s \in own : s.t = u.t
      <3>1. PICK j \in DOMAIN f : u = f[j]
        BY DEF FedOf
      <3>2. PICK k \in DOMAIN f : f[k].t = f[j].t /\ Wins(f, k)
        BY Winner
      <3>3. f[k] \in own
        BY <3>1, <3>2 DEF WindowOf, Survivors
      <3> QED
        BY <3>1, <3>2, <3>3
    <2>3. ASSUME NEW s \in own, NEW u \in window, s.t = u.t
          PROVE  ~dedup_policy(u.v, s.v) /\ (u \in own => u = s)
      <3>1. PICK k \in DOMAIN f : Wins(f, k) /\ s = f[k]
        BY <2>1
      <3>2. PICK j \in DOMAIN f : u = f[j]
        BY DEF FedOf
      <3>3. ~dedup_policy(u.v, s.v)
        BY <2>3, <3>1, <3>2 DEF Wins
      <3>4. ASSUME u \in own PROVE u = s
        <4>1. PICK l \in DOMAIN f : Wins(f, l) /\ u = f[l]
          BY <2>1, <3>4
        <4>2. l = k
          BY <2>3, <3>1, <4>1, WinnerUnique
        <4> QED
          BY <3>1, <4>1, <4>2
      <3> QED
        BY <3>3, <3>4
    <2>4. points[i] = own /\ SamplesOf(table, id) = FedOf(f)
      BY <1>1
    <2>5. own \subseteq window
      BY <2>1
    <2> HIDE DEF own, points
    <2>6. {s.t : s \in own} = {s.t : s \in window}
      BY <2>2, <2>5
    <2> QED
      BY <2>3, <2>4, <2>5, <2>6
  <1> HIDE DEF points
  <1>5. Answers!IsAnswer(id, points)
    <2> SUFFICES ASSUME NEW i \in 1 .. Count
                 PROVE  LET window == {s \in Answers!SamplesOf(table, id) :
                                         Answers!Contains(Answers!At(i - 1), s.t)}
                        IN  /\ points[i] \subseteq window
                            /\ {s.t : s \in points[i]} = {s.t : s \in window}
                            /\ \A s \in points[i], u \in window : s.t = u.t =>
                                 ~Answers!dedup_policy(u.v, s.v) /\ (u \in points[i] => u = s)
        BY <1>1, SameOperators, Zenon DEF Answers!IsAnswer
    <2> DEFINE window == {s \in SamplesOf(table, id) : Contains(At(i - 1), s.t)}
    <2>1. {s \in Answers!SamplesOf(table, id) : Answers!Contains(Answers!At(i - 1), s.t)} = window
      BY SameOperators
    <2>2. /\ points[i] \subseteq window
          /\ {s.t : s \in points[i]} = {s.t : s \in window}
          /\ \A s \in points[i], u \in window : s.t = u.t =>
               ~dedup_policy(u.v, s.v) /\ (u \in points[i] => u = s)
      BY <1>4
    <2> HIDE DEF window
    <2> QED
      BY <2>1, <2>2, SameOperators
  <1> QED
    BY <1>3, <1>5 DEF points

-----------------------------------------------------------------------------
(* The inductive invariant *)

TypeInv ==
  /\ table \in Tables
  /\ delivered \in [SeriesId -> Seq(Points)]
  /\ bin_of \in [SeriesId -> 1 .. NumBins]
  /\ next_bin \in Nat
  /\ pc \in [Thread -> {"call", "scan", "return", "done"}]
  /\ rest \in [Thread -> Seq(Kept(table))]
  /\ active \in [Thread -> {<<>>} \union {<<id>> : id \in SeriesId}]
  /\ streamed \in [Thread -> Seq(CounterSample)]
  /\ pending \in [Thread -> Seq(OutputRow)]
  /\ chunk \in [Thread -> Seq(OutputRow)]
  /\ \A th \in Thread : Len(chunk[th]) <= STANDARD_VECTOR_SIZE

\* A bin is scanned in its order: what is left of it comes after the open run,
\* and after each sample the run was fed.
OrderOf(r, a, f) ==
  /\ \A j, k \in DOMAIN r : j < k => RowBefore(r[j], r[k])
  /\ \A j, k \in DOMAIN f : j < k => f[j].t <= f[k].t
  /\ a = <<>> => f = <<>>
  /\ a # <<>> => \A k \in DOMAIN r :
       /\ a[1] <= r[k].id
       /\ r[k].id = a[1] => \A j \in DOMAIN f : f[j].t <= r[k].t

OrderInv ==
  \A th \in Thread :
    /\ pc[th] # "scan" => active[th] = <<>> /\ rest[th] = <<>>
    /\ OrderOf(rest[th], active[th], streamed[th])

\* A series is due from a thread that has its run open or rows of it to scan,
\* and those together are the whole series.
DueIn(r, a, id) == a = <<id>> \/ \E k \in DOMAIN r : r[k].id = id

RowSamples(r, id) == {SampleOf(r[k]) : k \in {j \in DOMAIN r : r[j].id = id}}

WholeIn(r, a, f, id) ==
  SamplesOf(table, id) =
    (IF a = <<id>> THEN FedOf(f) ELSE {})
      \union RowSamples(r, id)

WholeInv ==
  \A th \in Thread, id \in SeriesId :
    DueIn(rest[th], active[th], id) => WholeIn(rest[th], active[th], streamed[th], id)

\* Every row made is its series' answer.
AnswerRow(row) == Answers!IsAnswer(row.id, row.points)

AnswerInv ==
  \A th \in Thread :
    /\ \A k \in DOMAIN pending[th] : AnswerRow(pending[th][k])
    /\ \A k \in DOMAIN chunk[th] : AnswerRow(chunk[th][k])

\* Where a series is, a thread's hands as one place: nowhere in them, due,
\* queued or written, the last three once.
Nowhere(r, a, p, c, id) == ~DueIn(r, a, id) /\ Absent(p, id) /\ Absent(c, id)
Held(r, a, p, c, id) ==
  \/ DueIn(r, a, id) /\ Absent(p, id) /\ Absent(c, id)
  \/ ~DueIn(r, a, id) /\ Once(p, id) /\ Absent(c, id)
  \/ ~DueIn(r, a, id) /\ Absent(p, id) /\ Once(c, id)

NowhereIn(th, id) == Nowhere(rest[th], active[th], pending[th], chunk[th], id)
HeldBy(th, id) == Held(rest[th], active[th], pending[th], chunk[th], id)

Usable(id) == SamplesOf(table, id) # {}
Unclaimed(id) ==
  \E k \in next_bin + 1 .. Len(non_empty_bins) : non_empty_bins[k] = bin_of[id]

PlaceOf(id) ==
  /\ ~Usable(id) => delivered[id] = <<>> /\ \A th \in Thread : NowhereIn(th, id)
  /\ Usable(id) =>
       \/ /\ Unclaimed(id) /\ delivered[id] = <<>>
          /\ \A th \in Thread : NowhereIn(th, id)
       \/ /\ ~Unclaimed(id) /\ delivered[id] = <<>>
          /\ \E th \in Thread :
               HeldBy(th, id) /\ \A u \in Thread \ {th} : NowhereIn(u, id)
       \/ /\ ~Unclaimed(id) /\ Len(delivered[id]) = 1
          /\ \A th \in Thread : NowhereIn(th, id)

PlaceInv == \A id \in SeriesId : PlaceOf(id)

IInv == TypeInv /\ OrderInv /\ WholeInv /\ AnswerInv /\ PlaceInv

-----------------------------------------------------------------------------
(* A step is one thread's: what it must keep of its own *)

Others(th) ==
  \A u \in Thread \ {th} :
    /\ pc'[u] = pc[u] /\ rest'[u] = rest[u] /\ active'[u] = active[u]
    /\ streamed'[u] = streamed[u] /\ pending'[u] = pending[u] /\ chunk'[u] = chunk[u]

\* The variables of the threads are functions of the threads.
Shaped ==
  /\ pc = [u \in Thread |-> pc[u]] /\ rest = [u \in Thread |-> rest[u]]
  /\ active = [u \in Thread |-> active[u]] /\ streamed = [u \in Thread |-> streamed[u]]
  /\ pending = [u \in Thread |-> pending[u]] /\ chunk = [u \in Thread |-> chunk[u]]

LEMMA ShapedNow == ASSUME TypeInv PROVE Shaped
  BY DEF TypeInv, Shaped

LEMMA TypeStep ==
  ASSUME TypeInv, NEW th \in Thread, Others(th), Shaped', UNCHANGED <<table, bin_of>>,
         delivered' \in [SeriesId -> Seq(Points)], next_bin' \in Nat,
         pc'[th] \in {"call", "scan", "return", "done"},
         rest'[th] \in Seq(Kept(table)),
         active'[th] \in {<<>>} \union {<<id>> : id \in SeriesId},
         streamed'[th] \in Seq(CounterSample),
         pending'[th] \in Seq(OutputRow), chunk'[th] \in Seq(OutputRow),
         Len(chunk'[th]) <= STANDARD_VECTOR_SIZE
  PROVE  TypeInv'
  <1>1. pc' \in [Thread -> {"call", "scan", "return", "done"}]
    <2>1. \A u \in Thread : pc'[u] \in {"call", "scan", "return", "done"}
      BY DEF Others, TypeInv
    <2>2. pc' = [u \in Thread |-> pc'[u]]
      BY DEF Shaped
    <2> QED
      BY <2>1, <2>2
  <1>2. rest' \in [Thread -> Seq(Kept(table))]
    <2>1. \A u \in Thread : rest'[u] \in Seq(Kept(table))
      BY DEF Others, TypeInv
    <2>2. rest' = [u \in Thread |-> rest'[u]]
      BY DEF Shaped
    <2> QED
      BY <2>1, <2>2
  <1>3. active' \in [Thread -> {<<>>} \union {<<id>> : id \in SeriesId}]
    <2> DEFINE A == {<<>>} \union {<<id>> : id \in SeriesId}
    <2>1. \A u \in Thread : active'[u] \in A
      <3>1. active \in [Thread -> A] /\ active'[th] \in A
        BY DEF TypeInv
      <3> HIDE DEF A
      <3> QED
        BY <3>1 DEF Others
    <2>2. active' = [u \in Thread |-> active'[u]]
      BY DEF Shaped
    <2> HIDE DEF A
    <2>3. active' \in [Thread -> A]
      BY <2>1, <2>2
    <2> QED
      BY <2>3 DEF A
  <1>4. streamed' \in [Thread -> Seq(CounterSample)]
    <2>1. \A u \in Thread : streamed'[u] \in Seq(CounterSample)
      BY DEF Others, TypeInv
    <2>2. streamed' = [u \in Thread |-> streamed'[u]]
      BY DEF Shaped
    <2> QED
      BY <2>1, <2>2
  <1>5. pending' \in [Thread -> Seq(OutputRow)] /\ chunk' \in [Thread -> Seq(OutputRow)]
    <2>1. \A u \in Thread : pending'[u] \in Seq(OutputRow) /\ chunk'[u] \in Seq(OutputRow)
      BY DEF Others, TypeInv
    <2>2. pending' = [u \in Thread |-> pending'[u]] /\ chunk' = [u \in Thread |-> chunk'[u]]
      BY DEF Shaped
    <2> QED
      BY <2>1, <2>2
  <1>6. \A u \in Thread : Len(chunk'[u]) <= STANDARD_VECTOR_SIZE
    BY DEF Others, TypeInv
  <1>7. Kept(table)' = Kept(table)
    BY DEF Kept
  <1>8. table' \in Tables /\ bin_of' \in [SeriesId -> 1 .. NumBins]
    BY DEF TypeInv
  <1> QED
    BY <1>1, <1>2, <1>3, <1>4, <1>5, <1>6, <1>7, <1>8 DEF TypeInv

LEMMA OrderStep ==
  ASSUME OrderInv, NEW th \in Thread, Others(th),
         pc'[th] # "scan" => active'[th] = <<>> /\ rest'[th] = <<>>,
         OrderOf(rest'[th], active'[th], streamed'[th])
  PROVE  OrderInv'
  BY DEF OrderInv, Others

LEMMA WholeStep ==
  ASSUME WholeInv, NEW th \in Thread, Others(th), UNCHANGED table,
         \A id \in SeriesId :
           DueIn(rest'[th], active'[th], id) =>
             SamplesOf(table, id) =
               (IF active'[th] = <<id>> THEN FedOf(streamed'[th]) ELSE {})
                 \union RowSamples(rest'[th], id)
  PROVE  WholeInv'
  BY DEF WholeInv, Others, WholeIn

LEMMA AnswerStep ==
  ASSUME AnswerInv, NEW th \in Thread, Others(th), UNCHANGED table,
         \A k \in DOMAIN pending'[th] : AnswerRow(pending'[th][k]),
         \A k \in DOMAIN chunk'[th] : AnswerRow(chunk'[th][k])
  PROVE  AnswerInv'
  <1>1. \A row : AnswerRow(row)' <=> AnswerRow(row)
    BY DEF AnswerRow, Answers!IsAnswer
  <1> QED
    BY <1>1 DEF AnswerInv, Others

\* A series stays where it is, is claimed with its bin, or is delivered.
Stays(th, id) ==
  /\ delivered'[id] = delivered[id]
  /\ Usable(id) => (Unclaimed(id)' <=> Unclaimed(id))
  /\ NowhereIn(th, id) => NowhereIn(th, id)'
  /\ HeldBy(th, id) => HeldBy(th, id)'

IsClaimed(th, id) ==
  /\ Usable(id) /\ Unclaimed(id) /\ ~Unclaimed(id)'
  /\ delivered'[id] = delivered[id]
  /\ NowhereIn(th, id) => HeldBy(th, id)'

IsDelivered(th, id) ==
  /\ HeldBy(th, id)
  /\ Usable(id) => (Unclaimed(id)' <=> Unclaimed(id))
  /\ delivered[id] = <<>> => Len(delivered'[id]) = 1
  /\ NowhereIn(th, id)'

LEMMA HeldSomewhere ==
  ASSUME NEW r, NEW a, NEW p, NEW c, NEW id, Held(r, a, p, c, id)
  PROVE  ~Nowhere(r, a, p, c, id)
  BY DEF Held, Nowhere, Once, Absent

LEMMA PlaceStep ==
  ASSUME PlaceInv, NEW th \in Thread, Others(th), UNCHANGED table,
         \A id \in SeriesId : Stays(th, id) \/ IsClaimed(th, id) \/ IsDelivered(th, id)
  PROVE  PlaceInv'
  <1> SUFFICES ASSUME NEW id \in SeriesId PROVE PlaceOf(id)'
      BY DEF PlaceInv
  <1>1. PlaceOf(id)
    BY DEF PlaceInv
  <1>2. Usable(id)' <=> Usable(id)
    BY DEF Usable
  <1>3. ASSUME NEW u \in Thread \ {th}
        PROVE  (NowhereIn(u, id)' <=> NowhereIn(u, id)) /\ (HeldBy(u, id)' <=> HeldBy(u, id))
    BY DEF Others, NowhereIn, HeldBy
  <1>4. \A u \in Thread : HeldBy(u, id) => ~NowhereIn(u, id)
    BY HeldSomewhere DEF HeldBy, NowhereIn
  <1>5. CASE Stays(th, id)
    <2>1. (\A u \in Thread : NowhereIn(u, id)) => \A u \in Thread : NowhereIn(u, id)'
      BY <1>3, <1>5 DEF Stays
    <2>2. ASSUME NEW w \in Thread, HeldBy(w, id), \A u \in Thread \ {w} : NowhereIn(u, id)
          PROVE  HeldBy(w, id)' /\ \A u \in Thread \ {w} : NowhereIn(u, id)'
      BY <1>3, <1>5, <2>2 DEF Stays
    <2> QED
      BY <1>1, <1>2, <1>5, <2>1, <2>2 DEF PlaceOf, Stays
  <1>6. CASE IsClaimed(th, id)
    <2>1. delivered[id] = <<>> /\ \A u \in Thread : NowhereIn(u, id)
      BY <1>1, <1>6 DEF PlaceOf, IsClaimed
    <2>2. HeldBy(th, id)' /\ \A u \in Thread \ {th} : NowhereIn(u, id)'
      BY <1>3, <1>6, <2>1 DEF IsClaimed
    <2> QED
      BY <1>2, <1>6, <2>1, <2>2 DEF PlaceOf, IsClaimed
  <1>7. CASE IsDelivered(th, id)
    <2>1. ~NowhereIn(th, id)
      BY <1>4, <1>7 DEF IsDelivered
    <2>2. /\ Usable(id) /\ ~Unclaimed(id) /\ delivered[id] = <<>>
          /\ \A u \in Thread \ {th} : NowhereIn(u, id)
      BY <1>1, <2>1 DEF PlaceOf
    <2>3. \A u \in Thread : NowhereIn(u, id)'
      BY <1>3, <1>7, <2>2 DEF IsDelivered
    <2>4. Len(delivered'[id]) = 1 /\ ~Unclaimed(id)'
      BY <1>7, <2>2 DEF IsDelivered
    <2> QED
      BY <1>2, <2>2, <2>3, <2>4 DEF PlaceOf
  <1> QED
    BY <1>5, <1>6, <1>7

\* Nothing but a claim changes which bins are unclaimed.
LEMMA BinsUnchanged ==
  ASSUME UNCHANGED <<table, bin_of>>
  PROVE  non_empty_bins' = non_empty_bins
  BY DEF non_empty_bins, full_bins, RowsOf

LEMMA UnclaimedSame ==
  ASSUME UNCHANGED <<table, bin_of, next_bin>>, NEW id
  PROVE  Unclaimed(id)' <=> Unclaimed(id)
  BY BinsUnchanged DEF Unclaimed

-----------------------------------------------------------------------------
(* The steps *)

\* What the head of a sequence and its tail are.
LEMMA HeadTail ==
  ASSUME NEW S, NEW s \in Seq(S), s # <<>>
  PROVE  /\ Head(s) = s[1] /\ 1 \in DOMAIN s /\ Head(s) \in S /\ Tail(s) \in Seq(S)
         /\ \A k \in DOMAIN Tail(s) : k \in Int /\ k >= 1 /\ k + 1 \in DOMAIN s /\ Tail(s)[k] = s[k + 1]
         /\ \A k \in DOMAIN s : k \in Int /\ k >= 1
         /\ \A k \in DOMAIN s : k # 1 => k - 1 \in DOMAIN Tail(s) /\ Tail(s)[k - 1] = s[k]
  OBVIOUS

\* The open run's row, as flush_active queues it, is the series' answer once
\* nothing of it is left to scan.
LEMMA FlushedFacts ==
  ASSUME TypeInv, OrderInv, WholeInv, NEW th \in Thread, active[th] # <<>>,
         \A k \in DOMAIN rest[th] : rest[th][k].id # active[th][1]
  PROVE  /\ active[th][1] \in SeriesId /\ active[th] = <<active[th][1]>>
         /\ LET row == [id |-> active[th][1], points |-> AnswerOf(streamed[th])]
            IN  /\ Flushed(th) = Append(pending[th], row)
                /\ row \in OutputRow /\ AnswerRow(row)
  <1> DEFINE a == active[th][1]
             row == [id |-> a, points |-> AnswerOf(streamed[th])]
  <1>1. a \in SeriesId /\ active[th] = <<a>>
    BY DEF TypeInv
  <1>2. Flushed(th) = Append(pending[th], row)
    BY DEF Flushed, AnswerOf
  <1>3. SamplesOf(table, a) = FedOf(streamed[th])
    <2>1. WholeIn(rest[th], active[th], streamed[th], a)
      BY <1>1 DEF WholeInv, DueIn
    <2>2. RowSamples(rest[th], a) = {}
      BY DEF RowSamples
    <2> HIDE DEF a
    <2> QED
      BY <1>1, <2>1, <2>2 DEF WholeIn
  <1>4. AnswerOf(streamed[th]) \in Points /\ Answers!IsAnswer(a, AnswerOf(streamed[th]))
    <2>1. streamed[th] \in Seq(CounterSample)
      BY DEF TypeInv
    <2> QED
      BY <1>3, <2>1, WholeSeriesAnswered
  <1>5. row \in OutputRow /\ AnswerRow(row)
    BY <1>1, <1>4 DEF OutputRow, AnswerRow
  <1> QED
    BY <1>1, <1>2, <1>5

\* The open run's series is not one of the rows left if the next row is
\* another's.
LEMMA RunOver ==
  ASSUME TypeInv, OrderInv, NEW th \in Thread, rest[th] # <<>>, active[th] # <<>>,
         active[th] # <<Head(rest[th]).id>>
  PROVE  \A k \in DOMAIN rest[th] : rest[th][k].id # active[th][1]
  <1> DEFINE a == active[th][1]
             s == rest[th]
  <1>1. a \in Int /\ active[th] = <<a>>
    BY TableAssumption DEF TypeInv
  <1>2. s \in Seq(Kept(table)) /\ table \in Tables
    BY DEF TypeInv
  <1>3. /\ \A k \in DOMAIN s : s[k].id \in Int /\ a <= s[k].id
        /\ \A j, k \in DOMAIN s : j < k => RowBefore(s[j], s[k])
    <2>1. \A k \in DOMAIN s : s[k].id \in Int
      BY <1>2, KeptFields
    <2> QED
      BY <2>1 DEF OrderInv, OrderOf
  <1>4. Head(s) = s[1] /\ 1 \in DOMAIN s /\ \A k \in DOMAIN s : k \in Int /\ k >= 1
    BY <1>2, HeadTail
  <1>5. a < s[1].id
    <2>1. a # s[1].id
      BY <1>1, <1>4
    <2> QED
      BY <2>1, <1>1, <1>3, <1>4
  <1>6. ASSUME NEW k \in DOMAIN s PROVE s[1].id <= s[k].id
    <2>1. CASE k = 1
      BY <1>3, <1>4, <2>1
    <2>2. CASE k > 1
      BY <1>3, <1>4, <2>2 DEF RowBefore
    <2> QED
      BY <1>4, <2>1, <2>2
  <1> HIDE DEF a, s
  <1>7. \A k \in DOMAIN s : s[k].id # a
    BY <1>1, <1>3, <1>4, <1>5, <1>6
  <1> QED
    BY <1>7 DEF a, s

\* What is left of a bin after its head is in order too, and after the head.
LEMMA OrderTail ==
  ASSUME table \in Tables, NEW s \in Seq(Kept(table)), s # <<>>,
         \A j, k \in DOMAIN s : j < k => RowBefore(s[j], s[k])
  PROVE  /\ \A j, k \in DOMAIN Tail(s) : j < k => RowBefore(Tail(s)[j], Tail(s)[k])
         /\ \A k \in DOMAIN Tail(s) : RowBefore(Head(s), Tail(s)[k])
  <1>1. /\ Head(s) = s[1] /\ 1 \in DOMAIN s
        /\ \A k \in DOMAIN Tail(s) :
             k \in Int /\ k >= 1 /\ k + 1 \in DOMAIN s /\ Tail(s)[k] = s[k + 1]
    BY HeadTail
  <1>2. \A j, k \in DOMAIN Tail(s) : j < k => j + 1 < k + 1
    BY <1>1
  <1>3. \A k \in DOMAIN Tail(s) : 1 < k + 1
    BY <1>1
  <1> QED
    BY <1>1, <1>2, <1>3

LEMMA RowSamplesTail ==
  ASSUME NEW S, NEW s \in Seq(S), s # <<>>, NEW id
  PROVE  RowSamples(s, id) =
           RowSamples(Tail(s), id) \union (IF Head(s).id = id THEN {SampleOf(Head(s))} ELSE {})
  <1> DEFINE t == Tail(s)
             h == Head(s)
  <1>1. /\ h = s[1] /\ 1 \in DOMAIN s
        /\ \A k \in DOMAIN t : k + 1 \in DOMAIN s /\ t[k] = s[k + 1]
        /\ \A k \in DOMAIN s : k # 1 => k - 1 \in DOMAIN t /\ t[k - 1] = s[k]
    BY HeadTail
  <1> HIDE DEF t, h
  <1>2. RowSamples(s, id) \subseteq RowSamples(t, id) \union (IF h.id = id THEN {SampleOf(h)} ELSE {})
    <2> SUFFICES ASSUME NEW k \in DOMAIN s, s[k].id = id
                 PROVE  SampleOf(s[k]) \in
                          RowSamples(t, id) \union (IF h.id = id THEN {SampleOf(h)} ELSE {})
        BY DEF RowSamples
    <2>1. CASE k = 1
      BY <1>1, <2>1
    <2>2. CASE k # 1
      BY <1>1, <2>2 DEF RowSamples
    <2> QED
      BY <2>1, <2>2
  <1>3. RowSamples(t, id) \subseteq RowSamples(s, id)
    BY <1>1 DEF RowSamples
  <1>4. h.id = id => SampleOf(h) \in RowSamples(s, id)
    BY <1>1 DEF RowSamples
  <1>5. RowSamples(s, id) = RowSamples(t, id) \union (IF h.id = id THEN {SampleOf(h)} ELSE {})
    BY <1>2, <1>3, <1>4
  <1> QED
    BY <1>5 DEF t, h

LEMMA FedAppend ==
  ASSUME NEW f \in Seq(CounterSample), NEW s \in CounterSample
  PROVE  FedOf(Append(f, s)) = FedOf(f) \union {s}
  <1> DEFINE g == Append(f, s)
             n == Len(f) + 1
  <1>1. DOMAIN g = DOMAIN f \union {n} /\ (\A k \in DOMAIN f : g[k] = f[k]) /\ g[n] = s
    <2>1. /\ DOMAIN f = 1 .. Len(f) /\ Len(f) \in Nat /\ DOMAIN g = 1 .. Len(f) + 1
          /\ \A k \in 1 .. Len(f) : g[k] = f[k]
          /\ g[Len(f) + 1] = s
      OBVIOUS
    <2>2. 1 .. Len(f) + 1 = (1 .. Len(f)) \union {Len(f) + 1}
      BY <2>1
    <2> QED
      BY <2>1, <2>2
  <1> HIDE DEF g, n
  <1>2. FedOf(g) = FedOf(f) \union {s}
    BY <1>1 DEF FedOf
  <1> QED
    BY <1>2 DEF g

LEMMA AnswerAppend ==
  ASSUME NEW c \in Seq(OutputRow), NEW row \in OutputRow, AnswerRow(row),
         \A k \in DOMAIN c : AnswerRow(c[k])
  PROVE  \A k \in DOMAIN Append(c, row) : AnswerRow(Append(c, row)[k])
  <1> SUFFICES ASSUME NEW k \in DOMAIN Append(c, row) PROVE AnswerRow(Append(c, row)[k])
      OBVIOUS
  <1>1. k \in 1 .. Len(c) + 1 /\ Len(c) \in Nat /\ DOMAIN c = 1 .. Len(c)
    OBVIOUS
  <1>2. CASE k = Len(c) + 1
    <2>1. Append(c, row)[k] = row
      BY <1>2
    <2> QED
      BY <2>1
  <1>3. CASE k \in 1 .. Len(c)
    <2>1. Append(c, row)[k] = c[k] /\ k \in DOMAIN c
      BY <1>3
    <2> QED
      BY <2>1
  <1> QED
    BY <1>1, <1>2, <1>3

\* ScanRow: the row's series is the open run now.
LEMMA ScanEffect ==
  ASSUME TypeInv, NEW th \in Thread, ScanRow(th)
  PROVE  LET r == Head(rest[th])
         IN  /\ rest[th] # <<>> /\ pc[th] = "scan" /\ pc' = pc
             /\ rest'[th] = Tail(rest[th])
             /\ active'[th] = <<r.id>>
             /\ active[th] = <<r.id>> =>
                  /\ streamed'[th] = Append(streamed[th], SampleOf(r))
                  /\ pending'[th] = pending[th]
             /\ active[th] # <<r.id>> =>
                  /\ streamed'[th] = <<SampleOf(r)>>
                  /\ pending'[th] = Flushed(th)
             /\ Others(th) /\ Shaped'
             /\ UNCHANGED <<table, delivered, bin_of, next_bin, chunk>>
  <1> DEFINE r == Head(rest[th])
  <1>0. Shaped
    BY ShapedNow
  <1>1. /\ rest \in [Thread -> Seq(Kept(table))]
        /\ active \in [Thread -> {<<>>} \union {<<id>> : id \in SeriesId}]
        /\ streamed \in [Thread -> Seq(CounterSample)]
        /\ pending \in [Thread -> Seq(OutputRow)]
    BY DEF TypeInv
  <1>2. CASE active[th] # <<r.id>>
    <2>1. Shaped'
      BY <1>0, <1>2 DEF ScanRow, Shaped
    <2> QED
      BY <1>1, <1>2, <2>1 DEF ScanRow, Others
  <1>3. CASE active[th] = <<r.id>>
    <2>1. Shaped'
      BY <1>0, <1>3 DEF ScanRow, Shaped
    <2> QED
      BY <1>1, <1>3, <2>1 DEF ScanRow, Others
  <1> QED
    BY <1>2, <1>3

LEMMA ScanStep ==
  ASSUME IInv, NEW th \in Thread, ScanRow(th)
  PROVE  IInv'
  <1> DEFINE r == Head(rest[th])
             s == rest[th]
             f == streamed[th]
  <1>1. TypeInv /\ OrderInv /\ WholeInv /\ AnswerInv /\ PlaceInv
    BY DEF IInv
  <1>2. /\ s # <<>> /\ pc[th] = "scan" /\ pc' = pc /\ rest'[th] = Tail(s) /\ active'[th] = <<r.id>>
        /\ active[th] = <<r.id>> =>
             streamed'[th] = Append(f, SampleOf(r)) /\ pending'[th] = pending[th]
        /\ active[th] # <<r.id>> =>
             streamed'[th] = <<SampleOf(r)>> /\ pending'[th] = Flushed(th)
        /\ Others(th)
        /\ UNCHANGED <<table, delivered, bin_of, next_bin, chunk>>
    BY <1>1, ScanEffect
  <1>3. /\ s \in Seq(Kept(table)) /\ f \in Seq(CounterSample) /\ pending[th] \in Seq(OutputRow)
        /\ table \in Tables /\ chunk[th] \in Seq(OutputRow)
        /\ active[th] \in {<<>>} \union {<<id>> : id \in SeriesId}
    BY <1>1 DEF TypeInv
  <1>4. /\ r = s[1] /\ 1 \in DOMAIN s /\ r \in Kept(table) /\ Tail(s) \in Seq(Kept(table))
        /\ \A k \in DOMAIN Tail(s) : k \in Int /\ k >= 1 /\ k + 1 \in DOMAIN s /\ Tail(s)[k] = s[k + 1]
        /\ \A k \in DOMAIN s : k \in Int /\ k >= 1
        /\ \A k \in DOMAIN s : k # 1 => k - 1 \in DOMAIN Tail(s) /\ Tail(s)[k - 1] = s[k]
    BY <1>2, <1>3, HeadTail
  <1>5. /\ r.id \in SeriesId /\ r.id \in Int /\ r.t \in Int
        /\ SampleOf(r) \in CounterSample /\ SampleOf(r).t = r.t
    BY <1>3, <1>4, KeptFields
  <1>6. active[th] # <<>> /\ active[th] # <<r.id>> =>
          \A k \in DOMAIN s : s[k].id # active[th][1]
    BY <1>1, <1>2, RunOver
  <1>7. ASSUME active[th] # <<>>, active[th] # <<r.id>>
        PROVE  /\ active[th] = <<active[th][1]>> /\ active[th][1] # r.id
               /\ pending'[th] = Append(pending[th], [id |-> active[th][1], points |-> AnswerOf(f)])
               /\ [id |-> active[th][1], points |-> AnswerOf(f)] \in OutputRow
               /\ AnswerRow([id |-> active[th][1], points |-> AnswerOf(f)])
    <2>1. \A k \in DOMAIN rest[th] : rest[th][k].id # active[th][1]
      BY <1>6, <1>7
    <2>2. /\ active[th][1] \in SeriesId /\ active[th] = <<active[th][1]>>
          /\ LET row == [id |-> active[th][1], points |-> AnswerOf(streamed[th])]
             IN  /\ Flushed(th) = Append(pending[th], row)
                 /\ row \in OutputRow /\ AnswerRow(row)
      BY <1>1, <1>7, <2>1, FlushedFacts
    <2> QED
      BY <1>2, <1>7, <2>2
  <1>8. active[th] = <<>> => pending'[th] = pending[th]
    <2>1. ASSUME active[th] = <<>> PROVE active[th] # <<r.id>>
      BY <2>1
    <2> QED
      BY <1>2, <2>1 DEF Flushed
  <1>9. pending'[th] \in Seq(OutputRow) /\ streamed'[th] \in Seq(CounterSample)
    <2>1. pending'[th] \in Seq(OutputRow)
      <3>1. CASE active[th] = <<>>
        BY <1>3, <1>8, <3>1
      <3>2. CASE active[th] = <<r.id>>
        BY <1>2, <1>3, <3>2
      <3>3. CASE active[th] # <<>> /\ active[th] # <<r.id>>
        <4> DEFINE row == [id |-> active[th][1], points |-> AnswerOf(f)]
        <4>1. row \in OutputRow /\ pending'[th] = Append(pending[th], row)
          BY <1>7, <3>3
        <4> HIDE DEF row
        <4> QED
          BY <1>3, <4>1
      <3> QED
        BY <3>1, <3>2, <3>3
    <2>2. Append(f, SampleOf(r)) \in Seq(CounterSample) /\ <<SampleOf(r)>> \in Seq(CounterSample)
      <3> HIDE DEF f, r
      <3> QED
        BY <1>3, <1>5
    <2> QED
      BY <1>2, <2>1, <2>2
  <1>10. TypeInv'
    <2>1. /\ delivered \in [SeriesId -> Seq(Points)] /\ next_bin \in Nat
          /\ pc[th] \in {"call", "scan", "return", "done"}
          /\ Len(chunk[th]) <= STANDARD_VECTOR_SIZE
      BY <1>1 DEF TypeInv
    <2>2. Shaped'
      BY <1>1, ScanEffect
    <2>3. active'[th] \in {<<>>} \union {<<id>> : id \in SeriesId}
      BY <1>2, <1>5
    <2> HIDE DEF s, r, f
    <2> QED
      BY <1>1, <1>2, <1>3, <1>4, <1>9, <2>1, <2>2, <2>3, TypeStep
  <1>11. /\ \A j, k \in DOMAIN Tail(s) : j < k => RowBefore(Tail(s)[j], Tail(s)[k])
         /\ \A k \in DOMAIN Tail(s) : RowBefore(r, Tail(s)[k])
    <2>1. \A j, k \in DOMAIN s : j < k => RowBefore(s[j], s[k])
      BY <1>1 DEF OrderInv, OrderOf
    <2> HIDE DEF s
    <2> QED
      BY <2>1, <1>2, <1>3, OrderTail DEF s
  <1>12. \A k \in DOMAIN Tail(s) : Tail(s)[k].id \in Int /\ Tail(s)[k].t \in Int
    <2>1. \A k \in DOMAIN Tail(s) : Tail(s)[k] \in Kept(table)
      BY <1>4
    <2> QED
      BY <1>3, <2>1, KeptFields
  <1>13. OrderOf(Tail(s), <<r.id>>, streamed'[th])
    <2>1. CASE active[th] # <<r.id>>
      <3> DEFINE g == <<SampleOf(r)>>
      <3>1. streamed'[th] = g /\ \A j \in DOMAIN g : j = 1 /\ g[j] = SampleOf(r)
        BY <1>2, <2>1
      <3>2. \A k \in DOMAIN Tail(s) : r.id <= Tail(s)[k].id
        BY <1>5, <1>11, <1>12 DEF RowBefore
      <3>3. \A k \in DOMAIN Tail(s) : Tail(s)[k].id = r.id => r.t <= Tail(s)[k].t
        BY <1>5, <1>11, <1>12 DEF RowBefore
      <3> HIDE DEF g, s, r
      <3>4. <<r.id>>[1] = r.id /\ <<r.id>> # <<>>
        OBVIOUS
      <3>5. \A j, k \in DOMAIN g : ~(j < k)
        BY <3>1
      <3> QED
        BY <1>5, <1>11, <3>1, <3>2, <3>3, <3>4, <3>5 DEF OrderOf
    <2>2. CASE active[th] = <<r.id>>
      <3> DEFINE g == Append(f, SampleOf(r))
      <3>1. /\ \A j \in DOMAIN f : j \in Int /\ j < Len(f) + 1 /\ f[j] \in CounterSample /\ g[j] = f[j]
            /\ DOMAIN g = DOMAIN f \union {Len(f) + 1} /\ g[Len(f) + 1] = SampleOf(r)
            /\ Len(f) + 1 \in Int
        <4>1. DOMAIN f = 1 .. Len(f) /\ Len(f) \in Nat /\ DOMAIN g = 1 .. Len(f) + 1
              /\ (\A j \in DOMAIN f : g[j] = f[j] /\ f[j] \in CounterSample)
              /\ g[Len(f) + 1] = SampleOf(r)
          BY <1>3, <1>5
        <4>2. 1 .. Len(f) + 1 = (1 .. Len(f)) \union {Len(f) + 1}
          BY <4>1
        <4> QED
          BY <4>1, <4>2
      <3>2. /\ \A j, k \in DOMAIN f : j < k => f[j].t <= f[k].t
            /\ \A j \in DOMAIN f : f[j].t <= r.t
            /\ \A k \in DOMAIN Tail(s) : Tail(s)[k].id = r.id =>
                 \A j \in DOMAIN f : f[j].t <= Tail(s)[k].t
        <4>1. OrderOf(s, <<r.id>>, f)
          BY <1>1, <2>2 DEF OrderInv
        <4>2. <<r.id>>[1] = r.id /\ <<r.id>> # <<>>
          OBVIOUS
        <4> HIDE DEF r, s, f
        <4> QED
          BY <1>4, <4>1, <4>2 DEF OrderOf
      <3>3. \A k \in DOMAIN Tail(s) : r.id <= Tail(s)[k].id
        BY <1>5, <1>11, <1>12 DEF RowBefore
      <3>4. \A k \in DOMAIN Tail(s) : Tail(s)[k].id = r.id => r.t <= Tail(s)[k].t
        BY <1>5, <1>11, <1>12 DEF RowBefore
      <3>5. streamed'[th] = g
        BY <1>2, <2>2
      <3>6. \A j, k \in DOMAIN g : j < k => g[j].t <= g[k].t
        <4> HIDE DEF g, s, r, f
        <4>1. ASSUME NEW j \in DOMAIN g, NEW k \in DOMAIN g, j < k PROVE g[j].t <= g[k].t
          <5>1. j \in DOMAIN f
            BY <3>1, <4>1
          <5>2. CASE k \in DOMAIN f
            BY <3>1, <3>2, <4>1, <5>1, <5>2
          <5>3. CASE k = Len(f) + 1
            BY <1>5, <3>1, <3>2, <4>1, <5>1, <5>3
          <5> QED
            BY <3>1, <5>2, <5>3
        <4> QED
          BY <4>1
      <3>7. \A k \in DOMAIN Tail(s) : Tail(s)[k].id = r.id =>
              \A j \in DOMAIN g : g[j].t <= Tail(s)[k].t
        <4> HIDE DEF g, s, r, f
        <4> QED
          BY <1>5, <3>1, <3>2, <3>4
      <3>8. <<r.id>>[1] = r.id /\ <<r.id>> # <<>>
        OBVIOUS
      <3> HIDE DEF g, s, r, f
      <3> QED
        BY <1>11, <3>3, <3>5, <3>6, <3>7, <3>8 DEF OrderOf
    <2> QED
      BY <2>1, <2>2
  <1>14. OrderInv'
    <2> HIDE DEF s, r, f
    <2> QED
      BY <1>1, <1>2, <1>13, OrderStep
  <1>15. WholeInv'
    <2> SUFFICES ASSUME NEW id \in SeriesId, DueIn(Tail(s), <<r.id>>, id)
                 PROVE  SamplesOf(table, id) =
                          (IF <<r.id>> = <<id>> THEN FedOf(streamed'[th]) ELSE {})
                            \union RowSamples(Tail(s), id)
      <3>1. \A id \in SeriesId : DueIn(Tail(s), <<r.id>>, id) =>
              SamplesOf(table, id) =
                (IF <<r.id>> = <<id>> THEN FedOf(streamed'[th]) ELSE {})
                  \union RowSamples(Tail(s), id)
        OBVIOUS
      <3> HIDE DEF s, r, f
      <3> QED
        BY <3>1, <1>1, <1>2, WholeStep
    <2>1. RowSamples(s, id) =
            RowSamples(Tail(s), id) \union (IF r.id = id THEN {SampleOf(r)} ELSE {})
      <3> HIDE DEF s
      <3> QED
        BY <1>2, <1>3, RowSamplesTail DEF s
    <2>2. DueIn(s, active[th], id)
      <3> HIDE DEF s
      <3>1. CASE id = r.id
        BY <1>4, <3>1 DEF DueIn
      <3>2. CASE id # r.id
        <4>1. <<r.id>> # <<id>>
          BY <3>2
        <4>2. PICK k \in DOMAIN Tail(s) : Tail(s)[k].id = id
          BY <4>1 DEF DueIn
        <4> QED
          BY <4>2, <1>4 DEF DueIn
      <3> QED
        BY <3>1, <3>2
    <2>3. SamplesOf(table, id) =
            (IF active[th] = <<id>> THEN FedOf(f) ELSE {}) \union RowSamples(s, id)
      BY <1>1, <2>2 DEF WholeInv, WholeIn
    <2>4. CASE id = r.id /\ active[th] = <<r.id>>
      <3>1. FedOf(streamed'[th]) = FedOf(f) \union {SampleOf(r)}
        <4> HIDE DEF f, r
        <4> QED
          BY <1>2, <1>3, <1>5, <2>4, FedAppend
      <3> QED
        BY <2>1, <2>3, <2>4, <3>1
    <2>5. CASE id = r.id /\ active[th] # <<r.id>>
      <3>1. FedOf(streamed'[th]) = {SampleOf(r)}
        BY <1>2, <2>5 DEF FedOf
      <3> QED
        BY <2>1, <2>3, <2>5, <3>1
    <2>6. CASE id # r.id
      <3>1. <<r.id>> # <<id>>
        BY <2>6
      <3>2. PICK k \in DOMAIN Tail(s) : Tail(s)[k].id = id
        BY <3>1 DEF DueIn
      <3>3. active[th] # <<id>>
        <4> SUFFICES ASSUME active[th] = <<id>> PROVE FALSE
            OBVIOUS
        <4>1. active[th] # <<>> /\ active[th] # <<r.id>> /\ active[th][1] = id
          BY <3>1
        <4>2. s[k + 1].id # id /\ Tail(s)[k] = s[k + 1]
          <5> HIDE DEF s, r
          <5> QED
            BY <1>4, <1>6, <3>2, <4>1
        <4> QED
          BY <3>2, <4>2
      <3> QED
        BY <2>1, <2>3, <2>6, <3>1, <3>3
    <2> QED
      BY <2>4, <2>5, <2>6
  <1>16. AnswerInv'
    <2>1. \A k \in DOMAIN chunk'[th] : AnswerRow(chunk'[th][k])
      BY <1>1, <1>2 DEF AnswerInv
    <2>2. \A k \in DOMAIN pending[th] : AnswerRow(pending[th][k])
      BY <1>1 DEF AnswerInv
    <2>3. \A k \in DOMAIN pending'[th] : AnswerRow(pending'[th][k])
      <3>1. CASE active[th] = <<>>
        BY <1>8, <2>2, <3>1
      <3>2. CASE active[th] = <<r.id>>
        BY <1>2, <2>2, <3>2
      <3>3. CASE active[th] # <<>> /\ active[th] # <<r.id>>
        <4> DEFINE row == [id |-> active[th][1], points |-> AnswerOf(f)]
        <4>1. row \in OutputRow /\ AnswerRow(row) /\ pending'[th] = Append(pending[th], row)
          BY <1>7, <3>3
        <4> HIDE DEF row, r, s, f
        <4> QED
          BY <1>3, <2>2, <4>1, AnswerAppend
      <3> QED
        BY <3>1, <3>2, <3>3
    <2> HIDE DEF r, s, f
    <2> QED
      BY <1>1, <1>2, <2>1, <2>3, AnswerStep
  <1>17. PlaceInv'
    <2> SUFFICES ASSUME NEW id \in SeriesId PROVE Stays(th, id)
      <3>1. \A id \in SeriesId : Stays(th, id)
        OBVIOUS
      <3> HIDE DEF r, s, f
      <3> QED
        BY <1>1, <1>2, <3>1, PlaceStep
    <2> DEFINE p == pending[th]
               q == pending'[th]
    <2>1. delivered'[id] = delivered[id] /\ (Unclaimed(id)' <=> Unclaimed(id))
      <3> HIDE DEF r, s, f
      <3> QED
        BY <1>2, UnclaimedSame
    <2>2. DueIn(Tail(s), <<r.id>>, id) => DueIn(s, active[th], id)
      <3> HIDE DEF s
      <3>1. CASE id = r.id
        BY <1>4, <3>1 DEF DueIn
      <3>2. CASE id # r.id
        <4>1. <<r.id>> # <<id>>
          BY <3>2
        <4> QED
          BY <1>4, <4>1 DEF DueIn
      <3> QED
        BY <3>1, <3>2
    <2>3. DueIn(s, active[th], id) =>
            DueIn(Tail(s), <<r.id>>, id) \/ (active[th] = <<id>> /\ active[th] # <<r.id>>)
      <3> HIDE DEF s
      <3>1. CASE id = r.id
        BY <3>1 DEF DueIn
      <3>2. CASE active[th] = <<id>>
        BY <3>1, <3>2 DEF DueIn
      <3>3. CASE active[th] # <<id>> /\ id # r.id
        <4> SUFFICES ASSUME NEW k \in DOMAIN s, s[k].id = id PROVE DueIn(Tail(s), <<r.id>>, id)
            BY <3>3 DEF DueIn
        <4>1. k # 1
          BY <3>3, <1>4
        <4> QED
          BY <1>4, <4>1 DEF DueIn
      <3> QED
        BY <3>1, <3>2, <3>3
    <2>4. CASE active[th] = <<id>> /\ active[th] # <<r.id>>
      <3> DEFINE row == [id |-> id, points |-> AnswerOf(f)]
      <3>1. active[th] # <<>> /\ active[th][1] = id
        BY <2>4
      <3>2. id # r.id /\ row \in OutputRow /\ q = Append(p, row) /\ row.id = id
        BY <1>7, <2>4, <3>1
      <3>3. DueIn(s, active[th], id)
        BY <2>4 DEF DueIn
      <3>4. ~DueIn(Tail(s), <<r.id>>, id)
        <4>1. <<r.id>> # <<id>>
          BY <3>2
        <4>2. \A k \in DOMAIN Tail(s) : Tail(s)[k].id # id
          <5> HIDE DEF s, r
          <5> QED
            BY <1>4, <1>6, <2>4, <3>1
        <4> QED
          BY <4>1, <4>2 DEF DueIn
      <3>5. Absent(p, id) => Once(q, id)
        <4> HIDE DEF row, p, q
        <4> QED
          BY <1>3, <3>2, AppendRow DEF p, q
      <3> HIDE DEF p, q, row, r, s, f
      <3>6. Held(s, active[th], p, chunk[th], id) => Held(Tail(s), <<r.id>>, q, chunk[th], id)
        BY <3>3, <3>4, <3>5 DEF Held
      <3>7. ~Nowhere(s, active[th], p, chunk[th], id)
        BY <3>3 DEF Nowhere
      <3> QED
        BY <1>2, <2>1, <3>6, <3>7 DEF Stays, HeldBy, NowhereIn, p, q, s
    <2>5. CASE ~(active[th] = <<id>> /\ active[th] # <<r.id>>)
      <3>1. (Absent(p, id) => Absent(q, id)) /\ (Once(p, id) => Once(q, id))
        <4>1. CASE active[th] = <<>>
          BY <1>8, <4>1
        <4>2. CASE active[th] = <<r.id>>
          BY <1>2, <4>2
        <4>3. CASE active[th] # <<>> /\ active[th] # <<r.id>>
          <5> DEFINE row == [id |-> active[th][1], points |-> AnswerOf(f)]
          <5>1. row \in OutputRow /\ q = Append(p, row) /\ row.id # id
            BY <1>7, <2>5, <4>3
          <5> HIDE DEF row, q, p
          <5> QED
            BY <1>3, <5>1, AppendRow DEF p
        <4> QED
          BY <4>1, <4>2, <4>3
      <3>2. DueIn(Tail(s), <<r.id>>, id) <=> DueIn(s, active[th], id)
        BY <2>2, <2>3, <2>5
      <3> HIDE DEF p, q, r, s, f
      <3>3. Held(s, active[th], p, chunk[th], id) => Held(Tail(s), <<r.id>>, q, chunk[th], id)
        BY <3>1, <3>2 DEF Held
      <3>4. Nowhere(s, active[th], p, chunk[th], id) => Nowhere(Tail(s), <<r.id>>, q, chunk[th], id)
        BY <3>1, <3>2 DEF Nowhere
      <3> QED
        BY <1>2, <2>1, <3>3, <3>4 DEF Stays, HeldBy, NowhereIn, p, q, s
    <2> QED
      BY <2>4, <2>5
  <1> QED
    BY <1>10, <1>14, <1>15, <1>16, <1>17 DEF IInv

\* BinScanned: the last run of the bin is flushed.
LEMMA BinScannedStep ==
  ASSUME IInv, NEW th \in Thread, BinScanned(th)
  PROVE  IInv'
  <1> DEFINE a == active[th]
             p == pending[th]
             q == pending'[th]
  <1>1. TypeInv /\ OrderInv /\ WholeInv /\ AnswerInv /\ PlaceInv
    BY DEF IInv
  <1>2. /\ pc \in [Thread -> {"call", "scan", "return", "done"}]
        /\ active \in [Thread -> {<<>>} \union {<<id>> : id \in SeriesId}]
        /\ streamed \in [Thread -> Seq(CounterSample)]
        /\ pending \in [Thread -> Seq(OutputRow)]
        /\ rest \in [Thread -> Seq(Kept(table))]
        /\ chunk \in [Thread -> Seq(OutputRow)]
        /\ delivered \in [SeriesId -> Seq(Points)] /\ next_bin \in Nat
        /\ Len(chunk[th]) <= STANDARD_VECTOR_SIZE
    BY <1>1 DEF TypeInv
  <1>3. /\ rest[th] = <<>> /\ pc'[th] = "call" /\ active'[th] = <<>> /\ streamed'[th] = <<>>
        /\ q = Flushed(th)
        /\ UNCHANGED <<table, delivered, bin_of, next_bin, rest, chunk>>
    BY <1>2 DEF BinScanned
  <1>4. Others(th)
    BY <1>2 DEF BinScanned, Others
  <1>5. Shaped'
    BY <1>1, ShapedNow DEF BinScanned, Shaped
  <1>6. a = <<>> => q = p
    BY <1>3 DEF Flushed
  <1> DEFINE row == [id |-> a[1], points |-> AnswerOf(streamed[th])]
  <1>7. a # <<>> => /\ a = <<a[1]>> /\ q = Append(p, row) /\ row \in OutputRow /\ AnswerRow(row)
                    /\ row.id = a[1]
    <2> SUFFICES ASSUME a # <<>>
                 PROVE  a = <<a[1]>> /\ q = Append(p, row) /\ row \in OutputRow /\ AnswerRow(row)
        OBVIOUS
    <2>1. \A k \in DOMAIN rest[th] : rest[th][k].id # active[th][1]
      BY <1>3
    <2> QED
      BY <1>1, <1>3, <2>1, FlushedFacts
  <1> HIDE DEF row, a
  <1>8. q \in Seq(OutputRow) /\ p \in Seq(OutputRow)
    <2>1. p \in Seq(OutputRow)
      BY <1>2
    <2> HIDE DEF p, q
    <2>2. a # <<>> => Append(p, row) \in Seq(OutputRow)
      BY <1>7, <2>1
    <2> QED
      BY <1>6, <1>7, <2>1, <2>2
  <1>9. TypeInv'
    <2>1. <<>> \in Seq(CounterSample)
      OBVIOUS
    <2> HIDE DEF p, q
    <2> QED
      BY <1>1, <1>2, <1>3, <1>4, <1>5, <1>8, <2>1, TypeStep DEF q
  <1>10. OrderInv'
    <2>1. OrderOf(<<>>, <<>>, <<>>)
      BY DEF OrderOf
    <2> QED
      BY <1>1, <1>3, <1>4, <2>1, OrderStep
  <1>11. \A id : ~DueIn(<<>>, <<>>, id) /\ (DueIn(<<>>, a, id) <=> a = <<id>>)
    BY DEF DueIn
  <1>12. WholeInv'
    BY <1>1, <1>3, <1>4, <1>11, WholeStep
  <1>13. AnswerInv'
    <2>1. (\A k \in DOMAIN p : AnswerRow(p[k])) /\ \A k \in DOMAIN chunk'[th] : AnswerRow(chunk'[th][k])
      BY <1>1, <1>3 DEF AnswerInv
    <2>2. \A k \in DOMAIN q : AnswerRow(q[k])
      <3>1. CASE a = <<>>
        BY <1>6, <2>1, <3>1
      <3>2. CASE a # <<>>
        <4> HIDE DEF p, q
        <4> QED
          BY <1>7, <1>8, <2>1, <3>2, AnswerAppend
      <3> QED
        BY <3>1, <3>2
    <2> QED
      BY <1>1, <1>3, <1>4, <2>1, <2>2, AnswerStep
  <1>14. PlaceInv'
    <2> SUFFICES ASSUME NEW id \in SeriesId PROVE Stays(th, id)
        BY <1>1, <1>3, <1>4, PlaceStep
    <2>1. delivered'[id] = delivered[id] /\ (Unclaimed(id)' <=> Unclaimed(id))
      BY <1>3, UnclaimedSame
    <2> DEFINE c == chunk[th]
    <2> HIDE DEF p, q, c
    <2>2. CASE a = <<id>>
      <3>1. a # <<>> /\ a[1] = id
        BY <2>2
      <3>2. Absent(p, id) => Once(q, id)
        BY <1>7, <1>8, <3>1, AppendRow
      <3>3. Held(<<>>, a, p, c, id) => Held(<<>>, <<>>, q, c, id)
        BY <1>11, <2>2, <3>2 DEF Held
      <3>4. ~Nowhere(<<>>, a, p, c, id)
        BY <1>11, <2>2 DEF Nowhere
      <3> QED
        BY <1>3, <2>1, <3>3, <3>4 DEF Stays, HeldBy, NowhereIn, p, q, a, c
    <2>3. CASE a # <<id>>
      <3>1. (Absent(p, id) => Absent(q, id)) /\ (Once(p, id) => Once(q, id))
        <4>1. CASE a = <<>>
          BY <1>6, <4>1
        <4>2. CASE a # <<>>
          <5>1. row.id # id
            BY <1>7, <2>3, <4>2
          <5> QED
            BY <1>7, <1>8, <4>2, <5>1, AppendRow
        <4> QED
          BY <4>1, <4>2
      <3>2. Held(<<>>, a, p, c, id) => Held(<<>>, <<>>, q, c, id)
        BY <1>11, <2>3, <3>1 DEF Held
      <3>3. Nowhere(<<>>, a, p, c, id) => Nowhere(<<>>, <<>>, q, c, id)
        BY <1>11, <2>3, <3>1 DEF Nowhere
      <3> QED
        BY <1>3, <2>1, <3>2, <3>3 DEF Stays, HeldBy, NowhereIn, p, q, a, c
    <2> QED
      BY <2>2, <2>3
  <1> QED
    BY <1>9, <1>10, <1>12, <1>13, <1>14 DEF IInv

\* WriteOutputRow: a queued row goes into the chunk.
LEMMA WriteStep ==
  ASSUME IInv, NEW th \in Thread, WriteOutputRow(th)
  PROVE  IInv'
  <1> DEFINE p == pending[th]
             c == chunk[th]
             d == Append(c, Head(p))
  <1>1. TypeInv /\ OrderInv /\ WholeInv /\ AnswerInv /\ PlaceInv
    BY DEF IInv
  <1>2. /\ pc \in [Thread -> {"call", "scan", "return", "done"}]
        /\ active \in [Thread -> {<<>>} \union {<<id>> : id \in SeriesId}]
        /\ streamed \in [Thread -> Seq(CounterSample)]
        /\ pending \in [Thread -> Seq(OutputRow)]
        /\ rest \in [Thread -> Seq(Kept(table))]
        /\ chunk \in [Thread -> Seq(OutputRow)]
        /\ delivered \in [SeriesId -> Seq(Points)] /\ next_bin \in Nat
    BY <1>1 DEF TypeInv
  <1>3. /\ pc[th] = "call" /\ p # <<>> /\ Len(c) < STANDARD_VECTOR_SIZE
        /\ pending'[th] = Tail(p) /\ chunk'[th] = d
        /\ UNCHANGED <<table, delivered, bin_of, next_bin, pc, rest, active, streamed>>
    BY <1>2 DEF WriteOutputRow
  <1>4. Others(th)
    BY <1>2 DEF WriteOutputRow, Others
  <1>5. Shaped'
    BY <1>1, ShapedNow DEF WriteOutputRow, Shaped
  <1>6. p \in Seq(OutputRow) /\ c \in Seq(OutputRow) /\ active[th] = <<>> /\ rest[th] = <<>>
    BY <1>1, <1>2, <1>3 DEF OrderInv
  <1>7. /\ Head(p) = p[1] /\ 1 \in DOMAIN p /\ Head(p) \in OutputRow /\ Tail(p) \in Seq(OutputRow)
        /\ \A k \in DOMAIN Tail(p) : k + 1 \in DOMAIN p /\ Tail(p)[k] = p[k + 1]
    BY <1>3, <1>6, HeadTail
  <1> HIDE DEF p, c
  <1>8. d \in Seq(OutputRow) /\ Len(d) = Len(c) + 1 /\ Len(d) <= STANDARD_VECTOR_SIZE
    <2>1. d \in Seq(OutputRow) /\ Len(d) = Len(c) + 1 /\ Len(c) \in Nat
      BY <1>6, <1>7
    <2> QED
      BY <1>3, <2>1, OperatorAssumption
  <1> HIDE DEF d
  <1>9. TypeInv'
    <2>1. /\ pc'[th] \in {"call", "scan", "return", "done"}
          /\ active'[th] \in {<<>>} \union {<<id>> : id \in SeriesId}
          /\ streamed'[th] \in Seq(CounterSample) /\ rest'[th] \in Seq(Kept(table))
      BY <1>2, <1>3
    <2> QED
      BY <1>1, <1>2, <1>3, <1>4, <1>5, <1>7, <1>8, <2>1, TypeStep
  <1>10. OrderInv'
    BY <1>1, <1>3, <1>4, OrderStep DEF OrderInv
  <1>11. WholeInv'
    <2>1. \A id \in SeriesId : ~DueIn(rest'[th], active'[th], id)
      BY <1>3, <1>6 DEF DueIn
    <2> QED
      BY <1>1, <1>3, <1>4, <2>1, WholeStep
  <1>12. AnswerInv'
    <2>1. (\A k \in DOMAIN p : AnswerRow(p[k])) /\ \A k \in DOMAIN c : AnswerRow(c[k])
      BY <1>1 DEF AnswerInv, p, c
    <2>2. \A k \in DOMAIN Tail(p) : AnswerRow(Tail(p)[k])
      BY <1>7, <2>1
    <2>3. \A k \in DOMAIN d : AnswerRow(d[k])
      <3>1. AnswerRow(Head(p))
        BY <1>7, <2>1
      <3> QED
        BY <1>6, <1>7, <2>1, <3>1, AnswerAppend DEF d
    <2> QED
      BY <1>1, <1>3, <1>4, <2>2, <2>3, AnswerStep
  <1>13. PlaceInv'
    <2> SUFFICES ASSUME NEW id \in SeriesId PROVE Stays(th, id)
        BY <1>1, <1>3, <1>4, PlaceStep
    <2>1. delivered'[id] = delivered[id] /\ (Unclaimed(id)' <=> Unclaimed(id))
      BY <1>3, UnclaimedSame
    <2>2. ~DueIn(<<>>, <<>>, id)
      BY DEF DueIn
    <2>3. /\ Absent(p, id) => Head(p).id # id /\ Absent(Tail(p), id)
          /\ Head(p).id # id /\ Once(p, id) => Once(Tail(p), id)
          /\ Head(p).id = id /\ Once(p, id) => Absent(Tail(p), id)
      BY <1>3, <1>6, TailRow
    <2>4. /\ Head(p).id # id /\ Absent(c, id) => Absent(d, id)
          /\ Head(p).id # id /\ Once(c, id) => Once(d, id)
          /\ Head(p).id = id /\ Absent(c, id) => Once(d, id)
      BY <1>6, <1>7, AppendRow DEF d
    <2>5. Held(<<>>, <<>>, p, c, id) => Held(<<>>, <<>>, Tail(p), d, id)
      BY <2>2, <2>3, <2>4 DEF Held
    <2>6. Nowhere(<<>>, <<>>, p, c, id) => Nowhere(<<>>, <<>>, Tail(p), d, id)
      BY <2>2, <2>3, <2>4 DEF Nowhere
    <2> QED
      BY <1>3, <1>6, <2>1, <2>5, <2>6 DEF Stays, HeldBy, NowhereIn, p, c
  <1> QED
    BY <1>9, <1>10, <1>11, <1>12, <1>13 DEF IInv

\* A chunk has a row of a series at most once, and then that is where it is.
LEMMA ChunkPlace ==
  ASSUME PlaceInv, NEW th \in Thread, NEW id \in SeriesId, ~Absent(chunk[th], id)
  PROVE  Once(chunk[th], id) /\ HeldBy(th, id) /\ Usable(id) /\ delivered[id] = <<>>
  <1>1. PlaceOf(id) /\ ~NowhereIn(th, id)
    BY DEF PlaceInv, NowhereIn, Nowhere
  <1>2. HeldBy(th, id) /\ Usable(id) /\ delivered[id] = <<>>
    BY <1>1 DEF PlaceOf
  <1>3. Once(chunk[th], id)
    BY <1>2 DEF HeldBy, Held
  <1> QED
    BY <1>2, <1>3

\* What a chunk hands over for a series.
LEMMA ChunkAnswers ==
  ASSUME TypeInv, PlaceInv, AnswerInv, NEW th \in Thread, NEW id \in SeriesId
  PROVE  LET c == chunk[th]
         IN  /\ Absent(c, id) => AnswersIn(c, id) = <<>>
             /\ ~Absent(c, id) => \E points \in Points :
                  AnswersIn(c, id) = <<points>> /\ Answers!IsAnswer(id, points)
  <1> DEFINE c == chunk[th]
  <1>1. c \in Seq(OutputRow)
    BY DEF TypeInv
  <1>2. \A k \in DOMAIN c : c[k] \in OutputRow /\ AnswerRow(c[k])
    BY <1>1 DEF AnswerInv
  <1>3. ASSUME ~Absent(c, id)
        PROVE  \E points \in Points : AnswersIn(c, id) = <<points>> /\ Answers!IsAnswer(id, points)
    <2>1. Once(c, id)
      BY <1>3, ChunkPlace
    <2> HIDE DEF c
    <2>2. PICK k \in DOMAIN c : PositionsOf(c, id) = {k} /\ AnswersIn(c, id) = <<c[k].points>>
      BY <1>1, <2>1, AnswersFacts
    <2>3. c[k].id = id
      BY <2>2 DEF PositionsOf
    <2>4. c[k].points \in Points /\ Answers!IsAnswer(id, c[k].points)
      BY <1>2, <2>3 DEF OutputRow, AnswerRow
    <2> QED
      BY <2>2, <2>4
  <1> HIDE DEF c
  <1>4. Absent(c, id) => AnswersIn(c, id) = <<>>
    BY <1>1, AnswersFacts
  <1> QED
    BY <1>3, <1>4 DEF c

\* ReturnChunk: the chunk's rows are the query's.
LEMMA ReturnEffect ==
  ASSUME IInv, NEW th \in Thread, ReturnChunk(th)
  PROVE  /\ pc[th] # "scan" /\ active[th] = <<>> /\ rest[th] = <<>>
         /\ pc'[th] \in {"call", "done"} /\ chunk'[th] = <<>>
         /\ DOMAIN delivered' = SeriesId /\ delivered' \in [SeriesId -> Seq(Points)]
         /\ \A id \in SeriesId :
              IF Absent(chunk[th], id) THEN delivered'[id] = delivered[id]
              ELSE /\ Usable(id) /\ delivered[id] = <<>>
                   /\ Len(delivered'[id]) = 1 /\ Answers!IsAnswer(id, delivered'[id][1])
         /\ chunk[th] = <<>> => delivered' = delivered
         /\ Others(th) /\ Shaped'
         /\ UNCHANGED <<table, bin_of, next_bin, rest, active, streamed, pending>>
  <1> DEFINE c == chunk[th]
  <1>1. TypeInv /\ OrderInv /\ AnswerInv /\ PlaceInv
    BY DEF IInv
  <1>2. /\ pc \in [Thread -> {"call", "scan", "return", "done"}]
        /\ chunk \in [Thread -> Seq(OutputRow)]
        /\ delivered \in [SeriesId -> Seq(Points)]
    BY <1>1 DEF TypeInv
  <1>3. pc[th] # "scan" /\ active[th] = <<>> /\ rest[th] = <<>>
    BY <1>1 DEF ReturnChunk, OrderInv
  <1>4. UNCHANGED <<table, bin_of, next_bin, rest, active, streamed, pending>>
    BY DEF ReturnChunk
  <1>5. Shaped /\ Shaped'
    BY <1>1, ShapedNow DEF ReturnChunk, Shaped
  <1>6. CASE c # <<>>
    <2>1. /\ pc' = [pc EXCEPT ![th] = "call"] /\ chunk' = [chunk EXCEPT ![th] = <<>>]
          /\ delivered' = [id \in SeriesId |-> delivered[id] \o AnswersIn(c, id)]
      BY <1>6 DEF ReturnChunk
    <2>2. pc'[th] = "call" /\ chunk'[th] = <<>> /\ Others(th)
      BY <1>2, <1>4, <2>1 DEF Others
    <2>3. ASSUME NEW id \in SeriesId
          PROVE  /\ delivered'[id] \in Seq(Points)
                 /\ Absent(c, id) => delivered'[id] = delivered[id]
                 /\ ~Absent(c, id) =>
                      /\ Usable(id) /\ delivered[id] = <<>>
                      /\ Len(delivered'[id]) = 1 /\ Answers!IsAnswer(id, delivered'[id][1])
      <3>1. delivered'[id] = delivered[id] \o AnswersIn(c, id) /\ delivered[id] \in Seq(Points)
        BY <1>2, <2>1
      <3>2. CASE Absent(c, id)
        <4>1. AnswersIn(c, id) = <<>>
          BY <1>1, <3>2, ChunkAnswers
        <4>2. delivered'[id] = delivered[id]
          BY <3>1, <4>1
        <4> QED
          BY <3>1, <3>2, <4>2
      <3>3. CASE ~Absent(c, id)
        <4>1. PICK points \in Points : AnswersIn(c, id) = <<points>> /\ Answers!IsAnswer(id, points)
          BY <1>1, <3>3, ChunkAnswers
        <4>2. Usable(id) /\ delivered[id] = <<>>
          BY <1>1, <3>3, ChunkPlace
        <4>3. delivered'[id] = <<points>>
          BY <3>1, <4>1, <4>2
        <4>4. <<points>> \in Seq(Points) /\ Len(<<points>>) = 1 /\ <<points>>[1] = points
          OBVIOUS
        <4> QED
          BY <3>3, <4>1, <4>2, <4>3, <4>4
      <3> QED
        BY <3>2, <3>3
    <2>4. delivered' \in [SeriesId -> Seq(Points)] /\ DOMAIN delivered' = SeriesId
      <3>1. delivered' = [id \in SeriesId |-> delivered'[id]]
        BY <2>1
      <3> QED
        BY <2>3, <3>1
    <2> QED
      BY <1>3, <1>4, <1>5, <1>6, <2>2, <2>3, <2>4
  <1>7. CASE c = <<>>
    <2>1. pc' = [pc EXCEPT ![th] = "done"] /\ UNCHANGED <<delivered, chunk>>
      BY <1>7 DEF ReturnChunk
    <2>2. pc'[th] = "done" /\ chunk'[th] = <<>> /\ Others(th)
      BY <1>2, <1>4, <1>7, <2>1 DEF Others
    <2>3. \A id : Absent(c, id)
      BY <1>7 DEF Absent, PositionsOf
    <2>4. DOMAIN delivered' = SeriesId /\ delivered' \in [SeriesId -> Seq(Points)]
      BY <1>2, <2>1
    <2> QED
      BY <1>3, <1>4, <1>5, <2>1, <2>2, <2>3, <2>4
  <1> QED
    BY <1>6, <1>7

LEMMA ReturnStep ==
  ASSUME IInv, NEW th \in Thread, ReturnChunk(th)
  PROVE  IInv'
  <1>1. TypeInv /\ OrderInv /\ WholeInv /\ AnswerInv /\ PlaceInv
    BY DEF IInv
  <1>2. /\ pc[th] # "scan" /\ active[th] = <<>> /\ rest[th] = <<>>
        /\ pc'[th] \in {"call", "done"} /\ chunk'[th] = <<>>
        /\ delivered' \in [SeriesId -> Seq(Points)]
        /\ Others(th) /\ Shaped'
        /\ UNCHANGED <<table, bin_of, next_bin, rest, active, streamed, pending>>
    BY ReturnEffect
  <1>3. \A id \in SeriesId :
          IF Absent(chunk[th], id) THEN delivered'[id] = delivered[id]
          ELSE delivered[id] = <<>> /\ Len(delivered'[id]) = 1
    BY ReturnEffect
  <1>4. TypeInv'
    <2>1. <<>> \in Seq(OutputRow) /\ Len(<<>>) <= STANDARD_VECTOR_SIZE
      BY OperatorAssumption
    <2>2. /\ next_bin' \in Nat
          /\ pc'[th] \in {"call", "scan", "return", "done"}
          /\ rest'[th] \in Seq(Kept(table))
          /\ active'[th] \in {<<>>} \union {<<id>> : id \in SeriesId}
          /\ streamed'[th] \in Seq(CounterSample) /\ pending'[th] \in Seq(OutputRow)
      BY <1>1, <1>2 DEF TypeInv
    <2> QED
      BY <1>1, <1>2, <2>1, <2>2, TypeStep
  <1>5. OrderInv'
    BY <1>1, <1>2, OrderStep DEF OrderInv
  <1>6. WholeInv'
    <2>1. \A id \in SeriesId : ~DueIn(rest'[th], active'[th], id)
      <3>1. rest'[th] = <<>> /\ active'[th] = <<>>
        BY <1>2
      <3> QED
        BY <3>1 DEF DueIn
    <2> QED
      BY <1>1, <1>2, <2>1, WholeStep
  <1>7. AnswerInv'
    <2>1. \A k \in DOMAIN pending'[th] : AnswerRow(pending'[th][k])
      BY <1>1, <1>2 DEF AnswerInv
    <2>2. \A k \in DOMAIN chunk'[th] : AnswerRow(chunk'[th][k])
      BY <1>2
    <2> QED
      BY <1>1, <1>2, <2>1, <2>2, AnswerStep
  <1>8. PlaceInv'
    <2> SUFFICES ASSUME NEW id \in SeriesId PROVE Stays(th, id) \/ IsDelivered(th, id)
        BY <1>1, <1>2, PlaceStep
    <2>1. Unclaimed(id)' <=> Unclaimed(id)
      BY <1>2, UnclaimedSame
    <2>2. ~DueIn(<<>>, <<>>, id) /\ Absent(<<>>, id)
      BY DEF DueIn, Absent, PositionsOf
    <2> DEFINE p == pending[th]
               c == chunk[th]
    <2> HIDE DEF p, c
    <2>3. CASE Absent(c, id)
      <3>1. delivered'[id] = delivered[id]
        BY <1>3, <2>3 DEF c
      <3>2. Held(<<>>, <<>>, p, c, id) => Held(<<>>, <<>>, p, <<>>, id)
        BY <2>2, <2>3 DEF Held, Once, Absent
      <3>3. Nowhere(<<>>, <<>>, p, c, id) => Nowhere(<<>>, <<>>, p, <<>>, id)
        BY <2>2 DEF Nowhere
      <3> QED
        BY <1>2, <2>1, <3>1, <3>2, <3>3 DEF Stays, HeldBy, NowhereIn, p, c
    <2>4. CASE ~Absent(c, id)
      <3>1. HeldBy(th, id) /\ delivered[id] = <<>> /\ Len(delivered'[id]) = 1
        BY <1>1, <1>3, <2>4, ChunkPlace DEF c
      <3>2. Absent(p, id)
        BY <1>2, <2>2, <2>4, <3>1 DEF HeldBy, Held, p, c
      <3>3. Nowhere(<<>>, <<>>, p, <<>>, id)
        BY <2>2, <3>2 DEF Nowhere
      <3> QED
        BY <1>2, <2>1, <3>1, <3>3 DEF IsDelivered, NowhereIn, p
    <2> QED
      BY <2>3, <2>4
  <1> QED
    BY <1>4, <1>5, <1>6, <1>7, <1>8 DEF IInv

\* ClaimBin: what a claimed bin holds is the whole of each of its series.
LEMMA ClaimedWhole ==
  ASSUME TypeInv, NEW bin, NEW s \in SortedRows(bin), NEW id \in SeriesId
  PROVE  /\ DueIn(s, <<>>, id) => Usable(id) /\ bin_of[id] = bin
         /\ bin_of[id] = bin => /\ RowSamples(s, id) = SamplesOf(table, id)
                                /\ Usable(id) => DueIn(s, <<>>, id)
  <1>1. table \in Tables
    BY DEF TypeInv
  <1>2. /\ \A k \in DOMAIN s : s[k] \in RowsOf(bin)
        /\ \A r \in RowsOf(bin) : \E k \in DOMAIN s : s[k] = r
    BY <1>1, SortedFacts
  <1>3. \A k \in DOMAIN s : s[k] \in Kept(table) /\ bin_of[s[k].id] = bin
    BY <1>2 DEF RowsOf
  <1>4. ASSUME DueIn(s, <<>>, id) PROVE Usable(id) /\ bin_of[id] = bin
    <2>1. PICK k \in DOMAIN s : s[k].id = id
      BY <1>4 DEF DueIn
    <2>2. SampleOf(s[k]) \in SamplesOf(table, id)
      BY <1>1, <1>3, <2>1, KeptFields
    <2> QED
      BY <1>3, <2>1, <2>2 DEF Usable
  <1>5. ASSUME bin_of[id] = bin PROVE RowSamples(s, id) = SamplesOf(table, id)
    <2>1. \A r \in Kept(table) : r.id = id => r \in RowsOf(bin)
      BY <1>5 DEF RowsOf
    <2>2. \A r \in Kept(table) : r.id = id => \E k \in DOMAIN s : s[k] = r
      BY <1>2, <2>1
    <2>3. SamplesOf(table, id) \subseteq RowSamples(s, id)
      BY <2>2 DEF SamplesOf, RowSamples
    <2>4. RowSamples(s, id) \subseteq SamplesOf(table, id)
      BY <1>3 DEF SamplesOf, RowSamples
    <2> QED
      BY <2>3, <2>4
  <1>6. ASSUME bin_of[id] = bin, Usable(id) PROVE DueIn(s, <<>>, id)
    <2>1. PICK x : x \in RowSamples(s, id)
      BY <1>5, <1>6 DEF Usable
    <2> QED
      BY <2>1 DEF RowSamples, DueIn
  <1> QED
    BY <1>4, <1>5, <1>6

LEMMA ClaimStep ==
  ASSUME IInv, NEW th \in Thread, ClaimBin(th)
  PROVE  IInv'
  <1> DEFINE bins == non_empty_bins
             n == Len(bins)
             p == pending[th]
             c == chunk[th]
  <1>1. TypeInv /\ OrderInv /\ WholeInv /\ AnswerInv /\ PlaceInv
    BY DEF IInv
  <1>2. /\ pc \in [Thread -> {"call", "scan", "return", "done"}]
        /\ active \in [Thread -> {<<>>} \union {<<id>> : id \in SeriesId}]
        /\ streamed \in [Thread -> Seq(CounterSample)]
        /\ pending \in [Thread -> Seq(OutputRow)]
        /\ rest \in [Thread -> Seq(Kept(table))]
        /\ chunk \in [Thread -> Seq(OutputRow)]
        /\ delivered \in [SeriesId -> Seq(Points)] /\ next_bin \in Nat
        /\ table \in Tables
        /\ Len(chunk[th]) <= STANDARD_VECTOR_SIZE
    BY <1>1 DEF TypeInv
  <1>3. /\ pc[th] = "call" /\ next_bin' = next_bin + 1
        /\ UNCHANGED <<table, delivered, bin_of, active, streamed, pending, chunk>>
    BY DEF ClaimBin
  <1>4. active[th] = <<>> /\ rest[th] = <<>> /\ streamed[th] = <<>>
    BY <1>1, <1>3 DEF OrderInv, OrderOf
  <1>5. /\ n \in Nat /\ DOMAIN bins = 1 .. n
        /\ \A j, k \in 1 .. n : bins[j] = bins[k] => j = k
    BY BinsFacts
  <1>6. non_empty_bins' = bins
    BY <1>3, BinsUnchanged
  <1> HIDE DEF bins, n
  <1>7. \A id : Unclaimed(id) <=> \E k \in next_bin + 1 .. n : bins[k] = bin_of[id]
    BY DEF Unclaimed, bins, n
  <1>8. \A id : Unclaimed(id)' <=> \E k \in next_bin + 2 .. n : bins[k] = bin_of[id]
    <2>1. \A id : Unclaimed(id)' <=> \E k \in next_bin' + 1 .. n : bins[k] = bin_of[id]
      BY <1>3, <1>6 DEF Unclaimed, n
    <2>2. next_bin' + 1 = next_bin + 2
      BY <1>2, <1>3
    <2> QED
      BY <2>1, <2>2
  <1>9. Shaped'
    BY <1>1, ShapedNow DEF ClaimBin, Shaped
  <1>10. /\ active'[th] = <<>> /\ streamed'[th] = <<>> /\ pending'[th] = p /\ chunk'[th] = c
         /\ p \in Seq(OutputRow) /\ c \in Seq(OutputRow)
    BY <1>2, <1>3, <1>4
  <1>11. AnswerInv'
    <2>1. \A row : AnswerRow(row)' <=> AnswerRow(row)
      BY <1>3 DEF AnswerRow, Answers!IsAnswer
    <2> QED
      BY <1>1, <1>3, <2>1 DEF AnswerInv
  <1>12. CASE next_bin < n
    <2> DEFINE bin == bins[next_bin + 1]
    <2>1. PICK s \in SortedRows(bin) : rest' = [rest EXCEPT ![th] = s]
      BY <1>12 DEF ClaimBin, bins, n
    <2>2. pc' = [pc EXCEPT ![th] = "scan"]
      BY <1>12 DEF ClaimBin, bins, n
    <2>3. rest'[th] = s /\ pc'[th] = "scan" /\ Others(th)
      BY <1>2, <1>3, <2>1, <2>2 DEF Others
    <2>4. /\ s \in Seq(Kept(table))
          /\ \A j, k \in DOMAIN s : j < k => RowBefore(s[j], s[k])
      BY <1>2, SortedFacts
    <2>5. \A id \in SeriesId :
            /\ DueIn(s, <<>>, id) => Usable(id) /\ bin_of[id] = bin
            /\ bin_of[id] = bin => /\ RowSamples(s, id) = SamplesOf(table, id)
                                   /\ Usable(id) => DueIn(s, <<>>, id)
      BY <1>1, ClaimedWhole
    <2>6. next_bin + 1 \in 1 .. n
      BY <1>2, <1>5, <1>12
    <2> HIDE DEF bin
    <2>7. TypeInv'
      <3>1. next_bin' \in Nat /\ <<>> \in Seq(CounterSample) /\ delivered' = delivered
        BY <1>2, <1>3
      <3> HIDE DEF p, c
      <3> QED
        BY <1>1, <1>2, <1>3, <1>9, <1>10, <2>3, <2>4, <3>1, TypeStep
    <2>8. OrderInv'
      <3>1. OrderOf(s, <<>>, <<>>)
        BY <2>4 DEF OrderOf
      <3> QED
        BY <1>1, <1>10, <2>3, <3>1, OrderStep
    <2>9. WholeInv'
      <3>1. ASSUME NEW id \in SeriesId, DueIn(s, <<>>, id)
            PROVE  SamplesOf(table, id) =
                     (IF <<>> = <<id>> THEN FedOf(<<>>) ELSE {}) \union RowSamples(s, id)
        <4>1. RowSamples(s, id) = SamplesOf(table, id) /\ <<>> # <<id>>
          BY <2>5, <3>1
        <4> QED
          BY <4>1
      <3> QED
        BY <1>1, <1>3, <1>10, <2>3, <3>1, WholeStep
    <2>10. PlaceInv'
      <3> SUFFICES ASSUME NEW id \in SeriesId PROVE Stays(th, id) \/ IsClaimed(th, id)
          BY <1>1, <1>3, <2>3, PlaceStep
      <3>1. ~DueIn(<<>>, <<>>, id)
        BY DEF DueIn
      <3> HIDE DEF p, c
      <3>2. CASE DueIn(s, <<>>, id)
        <4>1. Usable(id) /\ bin_of[id] = bin
          BY <2>5, <3>2
        <4>2. Unclaimed(id)
          <5>1. next_bin + 1 \in next_bin + 1 .. n
            BY <1>2, <1>5, <2>6
          <5> QED
            BY <1>7, <4>1, <5>1 DEF bin
        <4>3. ~Unclaimed(id)'
          <5>1. ASSUME NEW k \in next_bin + 2 .. n, bins[k] = bin_of[id] PROVE FALSE
            <6>1. k \in 1 .. n /\ k # next_bin + 1
              BY <1>2, <1>5
            <6> QED
              BY <1>5, <2>6, <4>1, <5>1, <6>1 DEF bin
          <5> QED
            BY <1>8, <5>1
        <4>4. Nowhere(<<>>, <<>>, p, c, id) => Held(s, <<>>, p, c, id)
          BY <3>2 DEF Nowhere, Held
        <4> QED
          BY <1>3, <1>4, <1>10, <2>3, <4>1, <4>2, <4>3, <4>4 DEF IsClaimed, NowhereIn, HeldBy, p, c
      <3>3. CASE ~DueIn(s, <<>>, id)
        <4>1. Usable(id) => (Unclaimed(id)' <=> Unclaimed(id))
          <5> SUFFICES ASSUME Usable(id) PROVE Unclaimed(id)' <=> Unclaimed(id)
              OBVIOUS
          <5>1. bins[next_bin + 1] # bin_of[id]
            BY <2>5, <3>3 DEF bin
          <5>2. \A k \in next_bin + 1 .. n : k = next_bin + 1 \/ k \in next_bin + 2 .. n
            BY <1>2, <1>5
          <5>3. \A k \in next_bin + 2 .. n : k \in next_bin + 1 .. n
            BY <1>2, <1>5
          <5> QED
            BY <1>7, <1>8, <5>1, <5>2, <5>3
        <4>2. Nowhere(<<>>, <<>>, p, c, id) => Nowhere(s, <<>>, p, c, id)
          BY <3>1, <3>3 DEF Nowhere
        <4>3. Held(<<>>, <<>>, p, c, id) => Held(s, <<>>, p, c, id)
          BY <3>1, <3>3 DEF Held
        <4> QED
          BY <1>3, <1>4, <1>10, <2>3, <4>1, <4>2, <4>3 DEF Stays, NowhereIn, HeldBy, p, c
      <3> QED
        BY <3>2, <3>3
    <2> QED
      BY <1>11, <2>7, <2>8, <2>9, <2>10 DEF IInv
  <1>13. CASE ~(next_bin < n)
    <2>1. pc' = [pc EXCEPT ![th] = "return"] /\ rest' = rest
      BY <1>13 DEF ClaimBin, bins, n
    <2>2. pc'[th] = "return" /\ rest'[th] = <<>> /\ Others(th)
      BY <1>2, <1>3, <1>4, <2>1 DEF Others
    <2>3. TypeInv'
      <3>1. /\ next_bin' \in Nat /\ <<>> \in Seq(CounterSample) /\ <<>> \in Seq(Kept(table))
            /\ delivered' = delivered
        BY <1>2, <1>3
      <3> HIDE DEF p, c
      <3> QED
        BY <1>1, <1>2, <1>3, <1>9, <1>10, <2>2, <3>1, TypeStep
    <2>4. OrderInv'
      <3>1. OrderOf(<<>>, <<>>, <<>>)
        BY DEF OrderOf
      <3> QED
        BY <1>1, <1>10, <2>2, <3>1, OrderStep
    <2>5. WholeInv'
      <3>1. \A id \in SeriesId : ~DueIn(<<>>, <<>>, id)
        BY DEF DueIn
      <3> QED
        BY <1>1, <1>3, <1>10, <2>2, <3>1, WholeStep
    <2>6. PlaceInv'
      <3> SUFFICES ASSUME NEW id \in SeriesId PROVE Stays(th, id)
          BY <1>1, <1>3, <2>2, PlaceStep
      <3>1. ~Unclaimed(id) /\ ~Unclaimed(id)'
        BY <1>2, <1>5, <1>7, <1>8, <1>13
      <3> QED
        BY <1>3, <2>1, <3>1 DEF Stays, NowhereIn, HeldBy
    <2> QED
      BY <1>11, <2>3, <2>4, <2>5, <2>6 DEF IInv
  <1> QED
    BY <1>12, <1>13

LEMMA IInvInit == Init => IInv
  <1> SUFFICES ASSUME Init PROVE IInv
      OBVIOUS
  <1>1. /\ table \in Tables /\ bin_of \in [SeriesId -> 1 .. NumBins] /\ next_bin = 0
        /\ \A id \in SeriesId : delivered[id] = <<>>
        /\ \A th \in Thread :
             /\ pc[th] = "call" /\ rest[th] = <<>> /\ active[th] = <<>>
             /\ streamed[th] = <<>> /\ pending[th] = <<>> /\ chunk[th] = <<>>
    BY DEF Init
  <1>2. TypeInv
    <2>1. /\ <<>> \in Seq(Points) /\ <<>> \in Seq(CounterSample) /\ <<>> \in Seq(OutputRow)
          /\ <<>> \in Seq(Kept(table)) /\ Len(<<>>) <= STANDARD_VECTOR_SIZE
      BY OperatorAssumption
    <2>2. /\ delivered \in [SeriesId -> Seq(Points)]
          /\ pc \in [Thread -> {"call", "scan", "return", "done"}]
          /\ rest \in [Thread -> Seq(Kept(table))]
          /\ active \in [Thread -> {<<>>} \union {<<id>> : id \in SeriesId}]
          /\ streamed \in [Thread -> Seq(CounterSample)]
          /\ pending \in [Thread -> Seq(OutputRow)]
          /\ chunk \in [Thread -> Seq(OutputRow)]
      BY <2>1 DEF Init
    <2> QED
      BY <1>1, <2>1, <2>2 DEF TypeInv
  <1>3. OrderInv
    BY <1>1 DEF OrderInv, OrderOf
  <1>4. \A id : ~DueIn(<<>>, <<>>, id) /\ Absent(<<>>, id)
    BY DEF DueIn, Absent, PositionsOf
  <1>5. WholeInv
    BY <1>1, <1>4 DEF WholeInv
  <1>6. AnswerInv
    BY <1>1 DEF AnswerInv
  <1>7. PlaceInv
    <2> SUFFICES ASSUME NEW id \in SeriesId PROVE PlaceOf(id)
        BY DEF PlaceInv
    <2>1. \A th \in Thread : NowhereIn(th, id)
      BY <1>1, <1>4 DEF NowhereIn, Nowhere
    <2>2. ASSUME Usable(id) PROVE Unclaimed(id)
      <3>1. PICK r \in Kept(table) : r.id = id
        <4>1. PICK s : s \in SamplesOf(table, id)
          BY <2>2 DEF Usable
        <4> QED
          BY <1>1, <4>1, UsableFacts
      <3>2. bin_of[id] \in full_bins
        <4>1. bin_of[id] \in 1 .. NumBins /\ r \in RowsOf(bin_of[id])
          BY <1>1, <3>1 DEF RowsOf
        <4> QED
          BY <4>1 DEF full_bins
      <3>3. PICK k \in DOMAIN non_empty_bins : non_empty_bins[k] = bin_of[id]
        BY <3>2, BinsFacts
      <3>4. k \in next_bin + 1 .. Len(non_empty_bins)
        BY <1>1, BinsFacts
      <3> QED
        BY <3>3, <3>4 DEF Unclaimed
    <2> QED
      BY <1>1, <2>1, <2>2 DEF PlaceOf
  <1> QED
    BY <1>2, <1>3, <1>5, <1>6, <1>7 DEF IInv

LEMMA IInvStutter == IInv /\ UNCHANGED vars => IInv'
  <1> SUFFICES ASSUME IInv, UNCHANGED vars PROVE IInv'
      OBVIOUS
  <1>1. UNCHANGED <<table, delivered, bin_of, next_bin, pc, rest, active, streamed, pending, chunk>>
    BY DEF vars, threads
  <1>2. TypeInv /\ OrderInv /\ WholeInv /\ AnswerInv /\ PlaceInv
    BY DEF IInv
  <1>3. TypeInv'
    BY <1>1, <1>2 DEF TypeInv, Kept
  <1>4. OrderInv'
    BY <1>1, <1>2 DEF OrderInv
  <1>5. WholeInv'
    BY <1>1, <1>2 DEF WholeInv, WholeIn
  <1>6. AnswerInv'
    <2>1. \A row : AnswerRow(row)' <=> AnswerRow(row)
      BY <1>1 DEF AnswerRow, Answers!IsAnswer
    <2> QED
      BY <1>1, <1>2, <2>1 DEF AnswerInv
  <1>7. PlaceInv'
    <2> SUFFICES ASSUME NEW id \in SeriesId PROVE PlaceOf(id)'
        BY DEF PlaceInv
    <2>1. Unclaimed(id)' <=> Unclaimed(id)
      BY <1>1, UnclaimedSame
    <2>2. \A th \in Thread : (NowhereIn(th, id)' <=> NowhereIn(th, id))
                             /\ (HeldBy(th, id)' <=> HeldBy(th, id))
      BY <1>1 DEF NowhereIn, HeldBy
    <2>3. (Usable(id)' <=> Usable(id)) /\ delivered'[id] = delivered[id]
      BY <1>1 DEF Usable
    <2>4. PlaceOf(id)
      BY <1>2 DEF PlaceInv
    <2> QED
      BY <2>1, <2>2, <2>3, <2>4 DEF PlaceOf
  <1> QED
    BY <1>3, <1>4, <1>5, <1>6, <1>7 DEF IInv

LEMMA IInvStep == IInv /\ [Next]_vars => IInv'
  <1> SUFFICES ASSUME IInv, [Next]_vars PROVE IInv'
      OBVIOUS
  <1>1. CASE UNCHANGED vars
    BY <1>1, IInvStutter
  <1>2. ASSUME NEW th \in Thread, GetData(th) PROVE IInv'
    <2>1. CASE ClaimBin(th)
      BY <2>1, ClaimStep
    <2>2. CASE ScanRow(th)
      BY <2>2, ScanStep
    <2>3. CASE BinScanned(th)
      BY <2>3, BinScannedStep
    <2>4. CASE WriteOutputRow(th)
      BY <2>4, WriteStep
    <2>5. CASE ReturnChunk(th)
      BY <2>5, ReturnStep
    <2> QED
      BY <1>2, <2>1, <2>2, <2>3, <2>4, <2>5 DEF GetData
  <1> QED
    BY <1>1, <1>2 DEF Next

LEMMA IInvHolds == Spec => []IInv
  <1>1. IInv /\ [Next]_vars => IInv'
    BY IInvStep
  <1> QED
    BY IInvInit, <1>1, PTL DEF Spec

-----------------------------------------------------------------------------
(* The theorems *)

LEMMA TypeHolds == IInv => TypeOK
  <1> SUFFICES ASSUME IInv PROVE TypeOK
      OBVIOUS
  <1>1. TypeInv
    BY DEF IInv
  <1>2. table \subseteq Row /\ next_bin \in Nat /\ pc \in [Thread -> {"call", "scan", "return", "done"}]
    BY <1>1 DEF TypeInv, Tables
  <1>3. ASSUME NEW th \in Thread
        PROVE  /\ \A k \in DOMAIN rest[th] : rest[th][k] \in Kept(table)
               /\ Len(active[th]) <= 1
               /\ \A k \in DOMAIN streamed[th] : streamed[th][k] \in CounterSample
               /\ Len(chunk[th]) <= STANDARD_VECTOR_SIZE
    <2>1. /\ rest[th] \in Seq(Kept(table)) /\ streamed[th] \in Seq(CounterSample)
          /\ active[th] \in {<<>>} \union {<<id>> : id \in SeriesId}
          /\ Len(chunk[th]) <= STANDARD_VECTOR_SIZE
      BY <1>1 DEF TypeInv
    <2>2. Len(active[th]) <= 1
      <3>1. CASE active[th] = <<>>
        BY <3>1
      <3>2. CASE \E id \in SeriesId : active[th] = <<id>>
        BY <3>2
      <3> QED
        BY <2>1, <3>1, <3>2
    <2> QED
      BY <2>1, <2>2
  <1> QED
    BY <1>2, <1>3 DEF TypeOK

\* The variables keep their types and no chunk is written past its capacity,
\* for any number of threads, bins, series and rows.
THEOREM TypeCorrect == Spec => []TypeOK
  BY IInvHolds, TypeHolds, PTL

LEMMA OrderHolds == IInv => StreamsInOrder
  <1> SUFFICES ASSUME IInv, NEW th \in Thread
               PROVE  /\ active[th] = <<>> => streamed[th] = <<>>
                      /\ \A j, k \in DOMAIN streamed[th] :
                           /\ j < k => streamed[th][j].t <= streamed[th][k].t
                           /\ streamed[th][k] \in SamplesOf(table, active[th][1])
      BY DEF StreamsInOrder
  <1>1. OrderOf(rest[th], active[th], streamed[th])
    BY DEF IInv, OrderInv
  <1>2. ASSUME NEW k \in DOMAIN streamed[th]
        PROVE  streamed[th][k] \in SamplesOf(table, active[th][1])
    <2>1. active[th] # <<>>
      BY <1>1 DEF OrderOf
    <2>2. PICK id \in SeriesId : active[th] = <<id>>
      BY <2>1 DEF IInv, TypeInv
    <2>3. WholeIn(rest[th], active[th], streamed[th], id)
      BY <2>2 DEF IInv, WholeInv, DueIn
    <2>4. streamed[th][k] \in FedOf(streamed[th])
      BY DEF FedOf
    <2>5. active[th][1] = id
      BY <2>2
    <2> QED
      BY <2>2, <2>3, <2>4, <2>5 DEF WholeIn
  <1> QED
    BY <1>1, <1>2 DEF OrderOf

\* A GridStream is fed one series' samples only, by ascending timestamp: the
\* precondition its own theorems assume.
THEOREM FedInOrder == Spec => []StreamsInOrder
  BY IInvHolds, OrderHolds, PTL

\* The number of places of a thread's that hold a series.
LEMMA HandsFacts ==
  ASSUME TypeInv, NEW th \in Thread, NEW id \in SeriesId
  PROVE  LET Queued == Cardinality(PositionsOf(pending[th], id))
             Written == Cardinality(PositionsOf(chunk[th], id))
             Due == active[th] = <<id>> \/ \E k \in DOMAIN rest[th] : rest[th][k].id = id
         IN  /\ NowhereIn(th, id) =>
                  ~(Queued + Written > 0 \/ Due)
                  /\ ~(Queued + Written + (IF Due THEN 1 ELSE 0) > 1)
             /\ HeldBy(th, id) =>
                  (Queued + Written > 0 \/ Due)
                  /\ ~(Queued + Written + (IF Due THEN 1 ELSE 0) > 1)
  <1> DEFINE Queued == Cardinality(PositionsOf(pending[th], id))
             Written == Cardinality(PositionsOf(chunk[th], id))
  <1>1. \A c : (Absent(c, id) => Cardinality(PositionsOf(c, id)) = 0)
               /\ (Once(c, id) => Cardinality(PositionsOf(c, id)) = 1)
    BY FS_EmptySet, FS_Singleton DEF Absent, Once
  <1>2. /\ Absent(pending[th], id) => Queued = 0
        /\ Once(pending[th], id) => Queued = 1
        /\ Absent(chunk[th], id) => Written = 0
        /\ Once(chunk[th], id) => Written = 1
    BY <1>1
  <1> HIDE DEF Queued, Written
  <1>3. NowhereIn(th, id) => Queued = 0 /\ Written = 0 /\ ~DueIn(rest[th], active[th], id)
    BY <1>2 DEF NowhereIn, Nowhere
  <1>4. HeldBy(th, id) =>
          \/ Queued = 0 /\ Written = 0 /\ DueIn(rest[th], active[th], id)
          \/ Queued = 1 /\ Written = 0 /\ ~DueIn(rest[th], active[th], id)
          \/ Queued = 0 /\ Written = 1 /\ ~DueIn(rest[th], active[th], id)
    BY <1>2 DEF HeldBy, Held
  <1> QED
    BY <1>3, <1>4 DEF DueIn, Queued, Written

LEMMA PlaceHolds == IInv => EachSeriesInOnePlace
  <1> SUFFICES ASSUME IInv, NEW id \in SeriesId
               PROVE  LET p == Places(id)
                      IN  /\ ~p.twice
                          /\ p.given + Cardinality(p.held) + (IF p.bin THEN 1 ELSE 0)
                               = IF SamplesOf(table, id) # {} THEN 1 ELSE 0
      BY DEF EachSeriesInOnePlace
  <1> DEFINE Queued(th) == Cardinality(PositionsOf(pending[th], id))
             Written(th) == Cardinality(PositionsOf(chunk[th], id))
             Due(th) == active[th] = <<id>> \/ \E k \in DOMAIN rest[th] : rest[th][k].id = id
             held == {th \in Thread : Queued(th) + Written(th) > 0 \/ Due(th)}
             twice == \E th \in Thread :
                        Queued(th) + Written(th) + (IF Due(th) THEN 1 ELSE 0) > 1
             bin == \E k \in next_bin + 1 .. Len(non_empty_bins) :
                      \E r \in RowsOf(non_empty_bins[k]) : r.id = id
             given == Len(delivered[id])
  <1>1. TypeInv /\ PlaceOf(id)
    BY DEF IInv, PlaceInv
  <1>2. \A th \in Thread :
          /\ NowhereIn(th, id) => th \notin held
                /\ ~(Queued(th) + Written(th) + (IF Due(th) THEN 1 ELSE 0) > 1)
          /\ HeldBy(th, id) => th \in held
                /\ ~(Queued(th) + Written(th) + (IF Due(th) THEN 1 ELSE 0) > 1)
    BY <1>1, HandsFacts
  <1>3. bin <=> Usable(id) /\ Unclaimed(id)
    <2>1. \A k : \A r \in RowsOf(non_empty_bins[k]) :
            r.id = id => r \in Kept(table) /\ non_empty_bins[k] = bin_of[id]
      BY DEF RowsOf
    <2>2. ASSUME bin PROVE Usable(id) /\ Unclaimed(id)
      <3>0. PICK k \in next_bin + 1 .. Len(non_empty_bins) :
              \E r \in RowsOf(non_empty_bins[k]) : r.id = id
        BY <2>2
      <3>1. PICK r \in RowsOf(non_empty_bins[k]) : r.id = id
        BY <3>0
      <3>2. SampleOf(r) \in SamplesOf(table, id)
        BY <1>1, <2>1, <3>1, KeptFields DEF TypeInv
      <3> QED
        BY <2>1, <3>1, <3>2 DEF Usable, Unclaimed
    <2>3. ASSUME Usable(id), Unclaimed(id) PROVE bin
      <3>1. PICK k \in next_bin + 1 .. Len(non_empty_bins) : non_empty_bins[k] = bin_of[id]
        BY <2>3 DEF Unclaimed
      <3>2. PICK r \in Kept(table) : r.id = id
        <4>1. PICK s : s \in SamplesOf(table, id)
          BY <2>3 DEF Usable
        <4> QED
          BY <1>1, <4>1, UsableFacts DEF TypeInv
      <3>3. r \in RowsOf(non_empty_bins[k])
        BY <3>1, <3>2 DEF RowsOf
      <3> QED
        BY <3>1, <3>2, <3>3
    <2> QED
      BY <2>2, <2>3
  <1>4. /\ Places(id).given = given /\ Places(id).held = held
        /\ Places(id).twice = twice /\ Places(id).bin = bin
    BY DEF Places
  <1> HIDE DEF bin
  <1>5. ASSUME \A th \in Thread : NowhereIn(th, id)
        PROVE  held = {} /\ Cardinality(held) = 0 /\ ~twice
    <2>1. held = {} /\ ~twice
      BY <1>2, <1>5
    <2> HIDE DEF held, twice
    <2> QED
      BY <2>1, FS_EmptySet
  <1>6. ASSUME NEW th \in Thread, HeldBy(th, id), \A u \in Thread \ {th} : NowhereIn(u, id)
        PROVE  Cardinality(held) = 1 /\ ~twice
    <2>1. held = {th} /\ ~twice
      <3>1. \A u \in held : u = th
        BY <1>2, <1>6
      <3>2. th \in held
        BY <1>2, <1>6
      <3>3. ~twice
        BY <1>2, <1>6
      <3> HIDE DEF held, twice
      <3> QED
        BY <3>1, <3>2, <3>3
    <2> HIDE DEF held, twice
    <2> QED
      BY <2>1, FS_Singleton
  <1>7. delivered[id] = <<>> => given = 0
    OBVIOUS
  <1> HIDE DEF held, twice
  <1>8. ~twice /\ given + Cardinality(held) + (IF bin THEN 1 ELSE 0) = IF Usable(id) THEN 1 ELSE 0
    <2>1. CASE ~Usable(id)
      BY <1>1, <1>3, <1>5, <1>7, <2>1 DEF PlaceOf
    <2>2. CASE /\ Usable(id) /\ Unclaimed(id) /\ delivered[id] = <<>>
               /\ \A th \in Thread : NowhereIn(th, id)
      BY <1>3, <1>5, <1>7, <2>2
    <2>3. CASE /\ Usable(id) /\ ~Unclaimed(id) /\ delivered[id] = <<>>
               /\ \E th \in Thread : HeldBy(th, id) /\ \A u \in Thread \ {th} : NowhereIn(u, id)
      BY <1>3, <1>6, <1>7, <2>3
    <2>4. CASE /\ Usable(id) /\ ~Unclaimed(id) /\ Len(delivered[id]) = 1
               /\ \A th \in Thread : NowhereIn(th, id)
      BY <1>3, <1>5, <2>4
    <2> QED
      BY <1>1, <2>1, <2>2, <2>3, <2>4 DEF PlaceOf
  <1> QED
    BY <1>4, <1>8 DEF Usable

\* At every moment each series with a usable row is in exactly one place, and a
\* series without one is nowhere: whatever the threads' interleaving, the hash
\* and the sort, no series is streamed twice, dropped or answered twice.
THEOREM InOnePlace == Spec => []EachSeriesInOnePlace
  BY IInvHolds, PlaceHolds, PTL

LEMMA RefinesInit == Init => Answers!Init
  BY SameOperators DEF Init, Answers!Init

LEMMA RefinesStep == IInv /\ [Next]_vars => [Answers!Next]_(Answers!vars)
  <1> SUFFICES ASSUME IInv, [Next]_vars PROVE Answers!Next \/ UNCHANGED <<table, delivered>>
      BY DEF Answers!vars
  <1>1. CASE UNCHANGED vars
    BY <1>1 DEF vars
  <1>2. ASSUME NEW th \in Thread, GetData(th)
        PROVE  Answers!Next \/ UNCHANGED <<table, delivered>>
    <2>1. CASE ClaimBin(th) \/ ScanRow(th) \/ BinScanned(th) \/ WriteOutputRow(th)
      BY <2>1 DEF ClaimBin, ScanRow, BinScanned, WriteOutputRow
    <2>2. CASE ReturnChunk(th)
      <3> DEFINE c == chunk[th]
                 ids == {id \in SeriesId : ~Absent(c, id)}
      <3>1. /\ DOMAIN delivered' = SeriesId /\ table' = table
            /\ \A id \in SeriesId :
                 IF Absent(c, id) THEN delivered'[id] = delivered[id]
                 ELSE /\ Usable(id) /\ delivered[id] = <<>>
                      /\ Len(delivered'[id]) = 1 /\ Answers!IsAnswer(id, delivered'[id][1])
            /\ c = <<>> => delivered' = delivered
        BY <2>2, ReturnEffect
      <3>2. CASE c = <<>>
        BY <3>1, <3>2
      <3>3. CASE c # <<>>
        <4>1. ids # {}
          <5>1. c \in Seq(OutputRow)
            BY DEF IInv, TypeInv
          <5>2. 1 \in DOMAIN c /\ c[1] \in OutputRow
            BY <3>3, <5>1
          <5>3. c[1].id \in SeriesId /\ ~Absent(c, c[1].id)
            BY <5>2 DEF OutputRow, Absent, PositionsOf
          <5> QED
            BY <5>3
        <4>2. \A id \in ids : Answers!SamplesOf(table, id) # {} /\ delivered[id] = <<>>
          BY <3>1, SameOperators DEF Usable
        <4>3. \A id \in SeriesId :
                IF id \in ids
                THEN Len(delivered'[id]) = 1 /\ Answers!IsAnswer(id, delivered'[id][1])
                ELSE delivered'[id] = delivered[id]
          BY <3>1
        <4> HIDE DEF ids
        <4>4. Answers!Deliver(ids)
          BY <3>1, <4>1, <4>2, <4>3 DEF Answers!Deliver
        <4>5. ids \in SUBSET SeriesId
          BY DEF ids
        <4> QED
          BY <4>4, <4>5 DEF Answers!Next
      <3> QED
        BY <3>2, <3>3
    <2> QED
      BY <1>2, <2>1, <2>2 DEF GetData
  <1> QED
    BY <1>1, <1>2 DEF Next, vars

\* The operator implements SeriesAnswers: every series with a usable row is
\* answered once, in batches of any make-up, with the windows its own samples
\* have under the duplicate-timestamp rule.
THEOREM Refines == Spec => ImplementsAnswers
  <1>1. Init => Answers!Init
    BY RefinesInit
  <1>2. IInv /\ [Next]_vars => [Answers!Next]_(Answers!vars)
    BY RefinesStep
  <1> QED
    BY <1>1, <1>2, IInvHolds, PTL DEF Spec, ImplementsAnswers, Answers!Spec
=============================================================================
