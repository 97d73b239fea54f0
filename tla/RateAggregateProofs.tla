------------------------- MODULE RateAggregateProofs -------------------------
(***************************************************************************)
(* Theorems about RateAggregate and the SampleBuffer under it, for every   *)
(* grid, width, value format, set of slots and bound.                      *)
(***************************************************************************)
EXTENDS RateAggregate, InductionLemmas, SequenceTheorems

\* What a buffer may hold.
Sample == [t : RowTs \ {Null}, v : RowValue \ {Null}]

\* A page of the arena.
PageType == [capacity : Nat \ {0}, data : Seq(Sample)]

\* A buffer between two operations: no page is empty or written past its
\* capacity, and the byte counter is what the pages take.
Buffer ==
  {b \in [pages : Seq(PageType), bytes : Int] :
     /\ \A k \in DOMAIN b.pages : Len(b.pages[k].data) \in 1 .. b.pages[k].capacity
     /\ b.bytes = Capacities(b)}

Elements(s) == {s[k] : k \in DOMAIN s}

\* The samples of a buffer, wherever they are.
Content(b) == UNION {Elements(b.pages[k].data) : k \in DOMAIN b.pages}

LEMMA SampleFields ==
  \A x \in Sample : x.t \in Int /\ x.t \in RowTs \ {Null} /\ x.v \in Value
  BY AggregateAssumption DEF Sample

-----------------------------------------------------------------------------
(* Folds over the pages *)

\* The function Capacities ends in.
CapacityUpto(pages) ==
  CHOOSE f : f = [k \in 0 .. Len(pages) |->
                    IF k = 0 THEN 0 ELSE f[k - 1] + pages[k].capacity]

LEMMA PageFields ==
  \A p \in PageType : p.capacity \in Nat /\ p.capacity > 0 /\ p.data \in Seq(Sample)
  BY DEF PageType

LEMMA CapacityUptoFacts ==
  ASSUME NEW pages \in Seq(PageType)
  PROVE  LET f == CapacityUpto(pages)
         IN  /\ f \in [0 .. Len(pages) -> Nat] /\ f[0] = 0
             /\ \A k \in 1 .. Len(pages) : f[k] = f[k - 1] + pages[k].capacity
  <1> DEFINE n == Len(pages)
             f == CapacityUpto(pages)
             base == 0
             step == [p \in Nat \X (1 .. n) |-> p[1] + pages[p[2]].capacity]
  <1>1. n \in Nat /\ base \in Nat
    OBVIOUS
  <1>2. \A k \in 1 .. n : pages[k].capacity \in Nat
    BY PageFields
  <1>3. step \in Steps(n, Nat)
    BY <1>2 DEF Steps
  <1>4. PICK g : Recursive(g, n, Nat, base, step)
    <2> HIDE DEF step, n, base
    <2> QED
      BY <1>1, <1>3, Recursion
  <1>5. g = [k \in 0 .. n |-> IF k = 0 THEN 0 ELSE g[k - 1] + pages[k].capacity]
    <2>1. ASSUME NEW k \in 1 .. n PROVE g[k] = g[k - 1] + pages[k].capacity
      <3>1. k - 1 \in 0 .. n
        BY <1>1
      <3>2. <<g[k - 1], k>> \in Nat \X (1 .. n)
        <4> HIDE DEF n
        <4> QED
          BY <1>4, <3>1 DEF Recursive
      <3>3. g[k] = step[<<g[k - 1], k>>]
        <4> HIDE DEF n, step
        <4> QED
          BY <1>4 DEF Recursive
      <3> QED
        BY <3>2, <3>3
    <2> HIDE DEF n
    <2>2. ASSUME NEW k \in 0 .. n
          PROVE  g[k] = IF k = 0 THEN 0 ELSE g[k - 1] + pages[k].capacity
      <3>1. k = 0 \/ k \in 1 .. n
        BY <1>1
      <3> QED
        BY <1>4, <2>1, <3>1 DEF Recursive
    <2> QED
      BY <1>4, <2>2 DEF Recursive
  <1>6. f = [k \in 0 .. n |-> IF k = 0 THEN 0 ELSE f[k - 1] + pages[k].capacity]
    BY <1>5 DEF CapacityUpto
  <1> HIDE DEF f, n
  <1>7. f[0] = 0
    BY <1>1, <1>6
  <1>8. ASSUME NEW k \in 1 .. n PROVE f[k] = f[k - 1] + pages[k].capacity
    <2>1. k \in 0 .. n /\ k # 0
      BY <1>1
    <2> QED
      BY <1>6, <2>1
  <1>9. f \in [0 .. n -> Nat]
    <2> DEFINE S == {k \in 0 .. n : f[k] \in Nat}
    <2>1. 0 \in S
      BY <1>1, <1>7
    <2>2. ASSUME NEW k \in 1 .. n, k - 1 \in S PROVE k \in S
      <3>1. f[k - 1] \in Nat /\ k \in 0 .. n
        BY <1>1, <2>2
      <3>2. pages[k].capacity \in Nat
        BY <1>2
      <3>3. f[k] \in Nat
        BY <1>8, <3>1, <3>2
      <3> QED
        BY <3>1, <3>3
    <2>3. \A k \in 0 .. n : k \in S
      <3> HIDE DEF S
      <3> QED
        BY <1>1, <2>1, <2>2, UptoInduction
    <2> QED
      BY <1>6, <2>3
  <1> QED
    BY <1>7, <1>8, <1>9 DEF f, n

LEMMA CapacitiesIs == \A b : Capacities(b) = CapacityUpto(b.pages)[Len(b.pages)]
  BY DEF Capacities, CapacityUpto

\* The sum over the first n pages is theirs alone.
LEMMA CapacityPrefix ==
  ASSUME NEW pages \in Seq(PageType), NEW other \in Seq(PageType), NEW n \in Nat,
         n <= Len(pages), n <= Len(other),
         \A k \in 1 .. n : pages[k].capacity = other[k].capacity
  PROVE  CapacityUpto(pages)[n] = CapacityUpto(other)[n]
  <1> DEFINE f == CapacityUpto(pages)
             g == CapacityUpto(other)
             S == {k \in 0 .. n : f[k] = g[k]}
  <1>1. f[0] = 0 /\ \A k \in 1 .. Len(pages) : f[k] = f[k - 1] + pages[k].capacity
    BY CapacityUptoFacts
  <1>2. g[0] = 0 /\ \A k \in 1 .. Len(other) : g[k] = g[k - 1] + other[k].capacity
    BY CapacityUptoFacts
  <1> HIDE DEF f, g
  <1>3. 0 \in S
    BY <1>1, <1>2
  <1>4. ASSUME NEW k \in 1 .. n, k - 1 \in S PROVE k \in S
    <2>1. k \in 1 .. Len(pages) /\ k \in 1 .. Len(other) /\ k \in 0 .. n
      OBVIOUS
    <2>2. f[k - 1] = g[k - 1]
      BY <1>4
    <2> QED
      BY <1>1, <1>2, <2>1, <2>2
  <1>5. \A k \in 0 .. n : k \in S
    <2> HIDE DEF S
    <2> QED
      BY <1>3, <1>4, UptoInduction
  <1> QED
    BY <1>5 DEF f, g

LEMMA CapacityNat ==
  ASSUME NEW b, b.pages \in Seq(PageType)
  PROVE  Capacities(b) \in Nat
  <1>1. Len(b.pages) \in 0 .. Len(b.pages)
    OBVIOUS
  <1> QED
    BY <1>1, CapacityUptoFacts, CapacitiesIs

LEMMA CapacityEmpty == ASSUME NEW b, b.pages = <<>> PROVE Capacities(b) = 0
  <1>1. b.pages \in Seq(PageType) /\ Len(b.pages) = 0
    OBVIOUS
  <1> QED
    BY <1>1, CapacityUptoFacts, CapacitiesIs

LEMMA CapacitySame ==
  ASSUME NEW b, NEW c, b.pages \in Seq(PageType), c.pages \in Seq(PageType),
         Len(b.pages) = Len(c.pages),
         \A k \in 1 .. Len(b.pages) : b.pages[k].capacity = c.pages[k].capacity
  PROVE  Capacities(b) = Capacities(c)
  <1>1. Len(b.pages) \in Nat
    OBVIOUS
  <1>2. CapacityUpto(b.pages)[Len(b.pages)] = CapacityUpto(c.pages)[Len(b.pages)]
    BY <1>1, CapacityPrefix, SMTT(30)
  <1> QED
    BY <1>2, CapacitiesIs

LEMMA CapacityAppend ==
  ASSUME NEW b, NEW c, b.pages \in Seq(PageType), c.pages \in Seq(PageType),
         Len(c.pages) = Len(b.pages) + 1,
         \A k \in 1 .. Len(b.pages) : c.pages[k].capacity = b.pages[k].capacity
  PROVE  Capacities(c) = Capacities(b) + c.pages[Len(c.pages)].capacity
  <1> DEFINE n == Len(b.pages)
  <1>1. n \in Nat /\ n + 1 \in 1 .. Len(c.pages) /\ (n + 1) - 1 = n
    OBVIOUS
  <1>2. CapacityUpto(c.pages)[n] = CapacityUpto(b.pages)[n]
    <2>1. n <= Len(c.pages) /\ n <= Len(b.pages)
      BY <1>1
    <2>2. \A k \in 1 .. n : c.pages[k].capacity = b.pages[k].capacity
      OBVIOUS
    <2> HIDE DEF n
    <2> QED
      BY <1>1, <2>1, <2>2, CapacityPrefix, Zenon
  <1>3. CapacityUpto(c.pages)[n + 1] = CapacityUpto(c.pages)[n] + c.pages[n + 1].capacity
    BY <1>1, CapacityUptoFacts
  <1> QED
    BY <1>2, <1>3, CapacitiesIs

-----------------------------------------------------------------------------
(* The samples of a buffer *)

LEMMA BufferFields ==
  ASSUME NEW b \in Buffer
  PROVE  /\ b.pages \in Seq(PageType)
         /\ b.bytes = Capacities(b) /\ b.bytes \in Nat
         /\ \A k \in 1 .. Len(b.pages) :
              /\ b.pages[k] \in PageType
              /\ Len(b.pages[k].data) \in 1 .. b.pages[k].capacity
  <1>1. b.pages \in Seq(PageType) /\ b.bytes = Capacities(b)
    BY DEF Buffer
  <1>2. \A k \in DOMAIN b.pages : Len(b.pages[k].data) \in 1 .. b.pages[k].capacity
    BY DEF Buffer
  <1> QED
    BY <1>1, <1>2, CapacityNat

LEMMA EmptyBufferIsBuffer == EmptyBuffer \in Buffer /\ Content(EmptyBuffer) = {}
  <1>1. EmptyBuffer.pages = <<>> /\ EmptyBuffer.bytes = 0
    BY DEF EmptyBuffer
  <1>2. Capacities(EmptyBuffer) = 0
    BY <1>1, CapacityEmpty
  <1>3. EmptyBuffer \in [pages : Seq(PageType), bytes : Int]
    BY DEF EmptyBuffer
  <1> QED
    BY <1>1, <1>2, <1>3 DEF Buffer, Content

\* The function Samples ends in.
SamplesUpto(pages) ==
  CHOOSE f : f = [k \in 0 .. Len(pages) |->
                    IF k = 0 THEN <<>> ELSE f[k - 1] \o pages[k].data]

LEMMA SamplesUptoFacts ==
  ASSUME NEW pages \in Seq(PageType)
  PROVE  LET f == SamplesUpto(pages)
         IN  /\ f \in [0 .. Len(pages) -> Seq(Sample)] /\ f[0] = <<>>
             /\ \A k \in 1 .. Len(pages) : f[k] = f[k - 1] \o pages[k].data
  <1> DEFINE n == Len(pages)
             V == Seq(Sample)
             f == SamplesUpto(pages)
             base == <<>>
             step == [p \in V \X (1 .. n) |-> p[1] \o pages[p[2]].data]
  <1>1. n \in Nat /\ base \in V
    OBVIOUS
  <1>2. \A k \in 1 .. n : pages[k].data \in V
    BY PageFields
  <1>3. step \in Steps(n, V)
    BY <1>2, ConcatProperties DEF Steps
  <1>4. PICK g : Recursive(g, n, V, base, step)
    <2> HIDE DEF step, n, base, V
    <2> QED
      BY <1>1, <1>3, Recursion
  <1>5. g = [k \in 0 .. n |-> IF k = 0 THEN <<>> ELSE g[k - 1] \o pages[k].data]
    <2>1. ASSUME NEW k \in 1 .. n PROVE g[k] = g[k - 1] \o pages[k].data
      <3>1. k - 1 \in 0 .. n
        BY <1>1
      <3>2. <<g[k - 1], k>> \in V \X (1 .. n)
        <4> HIDE DEF n, V
        <4> QED
          BY <1>4, <3>1 DEF Recursive
      <3>3. g[k] = step[<<g[k - 1], k>>]
        <4> HIDE DEF n, step, V
        <4> QED
          BY <1>4 DEF Recursive
      <3> QED
        BY <3>2, <3>3
    <2> HIDE DEF n, V
    <2>2. ASSUME NEW k \in 0 .. n
          PROVE  g[k] = IF k = 0 THEN <<>> ELSE g[k - 1] \o pages[k].data
      <3>1. k = 0 \/ k \in 1 .. n
        BY <1>1
      <3> QED
        BY <1>4, <2>1, <3>1 DEF Recursive
    <2> QED
      BY <1>4, <2>2 DEF Recursive
  <1>6. f = [k \in 0 .. n |-> IF k = 0 THEN <<>> ELSE f[k - 1] \o pages[k].data]
    BY <1>5 DEF SamplesUpto
  <1> HIDE DEF f, n, V
  <1>7. f[0] = <<>>
    BY <1>1, <1>6
  <1>8. ASSUME NEW k \in 1 .. n PROVE f[k] = f[k - 1] \o pages[k].data
    <2>1. k \in 0 .. n /\ k # 0
      BY <1>1
    <2> QED
      BY <1>6, <2>1
  <1>9. f \in [0 .. n -> V]
    <2> DEFINE S == {k \in 0 .. n : f[k] \in V}
    <2>1. 0 \in S
      BY <1>1, <1>7
    <2>2. ASSUME NEW k \in 1 .. n, k - 1 \in S PROVE k \in S
      <3>1. f[k - 1] \in V /\ k \in 0 .. n
        BY <1>1, <2>2
      <3>2. f[k] \in V
        BY <1>2, <1>8, <3>1, ConcatProperties DEF V
      <3> QED
        BY <3>1, <3>2
    <2>3. \A k \in 0 .. n : k \in S
      <3> HIDE DEF S
      <3> QED
        BY <1>1, <2>1, <2>2, UptoInduction
    <2> QED
      BY <1>6, <2>3
  <1> QED
    BY <1>7, <1>8, <1>9 DEF f, n, V

LEMMA SamplesIs == \A b : Samples(b) = SamplesUpto(b.pages)[Len(b.pages)]
  BY DEF Samples, SamplesUpto

LEMMA ElementsConcat ==
  ASSUME NEW s \in Seq(Sample), NEW u \in Seq(Sample)
  PROVE  Elements(s \o u) = Elements(s) \union Elements(u)
  <1>1. s \o u \in Seq(Sample) /\ Len(s \o u) = Len(s) + Len(u)
    OBVIOUS
  <1>2. ASSUME NEW x \in Elements(s \o u) PROVE x \in Elements(s) \union Elements(u)
    <2>1. PICK k \in 1 .. Len(s) + Len(u) : x = (s \o u)[k]
      BY <1>1, <1>2 DEF Elements
    <2>2. CASE k <= Len(s)
      BY <2>1, <2>2 DEF Elements
    <2>3. CASE k > Len(s)
      <3>1. k - Len(s) \in 1 .. Len(u) /\ x = u[k - Len(s)]
        BY <2>1, <2>3
      <3> QED
        BY <3>1 DEF Elements
    <2> QED
      BY <2>2, <2>3
  <1>3. ASSUME NEW x \in Elements(s) PROVE x \in Elements(s \o u)
    <2>1. PICK k \in 1 .. Len(s) : x = s[k]
      BY <1>3 DEF Elements
    <2>2. k \in 1 .. Len(s \o u) /\ (s \o u)[k] = x
      BY <1>1, <2>1
    <2> QED
      BY <1>1, <2>2 DEF Elements
  <1>4. ASSUME NEW x \in Elements(u) PROVE x \in Elements(s \o u)
    <2>1. PICK k \in 1 .. Len(u) : x = u[k]
      BY <1>4 DEF Elements
    <2>2. Len(s) + k \in 1 .. Len(s \o u) /\ (s \o u)[Len(s) + k] = x
      BY <1>1, <2>1
    <2> QED
      BY <1>1, <2>2 DEF Elements
  <1> QED
    BY <1>2, <1>3, <1>4

\* for_each reaches every sample, and nothing else.
LEMMA SamplesContent ==
  ASSUME NEW b \in Buffer
  PROVE  Samples(b) \in Seq(Sample) /\ Elements(Samples(b)) = Content(b)
  <1> DEFINE n == Len(b.pages)
             f == SamplesUpto(b.pages)
             Upto(m) == UNION {Elements(b.pages[k].data) : k \in 1 .. m}
             S == {m \in 0 .. n : Elements(f[m]) = Upto(m)}
  <1>1. b.pages \in Seq(PageType) /\ n \in Nat
    BY BufferFields
  <1>2. /\ f \in [0 .. n -> Seq(Sample)] /\ f[0] = <<>>
        /\ \A k \in 1 .. n : f[k] = f[k - 1] \o b.pages[k].data
    BY <1>1, SamplesUptoFacts
  <1>3. \A k \in 1 .. n : b.pages[k].data \in Seq(Sample)
    BY <1>1, PageFields
  <1> HIDE DEF f, n
  <1>4. 0 \in S
    BY <1>1, <1>2 DEF Elements
  <1>5. ASSUME NEW m \in 1 .. n, m - 1 \in S PROVE m \in S
    <2>1. m - 1 \in 0 .. n /\ m \in 0 .. n
      BY <1>1
    <2>2. Elements(f[m]) = Elements(f[m - 1]) \union Elements(b.pages[m].data)
      BY <1>2, <1>3, <2>1, ElementsConcat, ZenonT(60)
    <2>3. \A k : k \in 1 .. m <=> k \in 1 .. m - 1 \/ k = m
      BY <1>1
    <2>4. Upto(m) = Upto(m - 1) \union Elements(b.pages[m].data)
      BY <2>3
    <2> QED
      BY <1>5, <2>1, <2>2, <2>4
  <1>6. \A m \in 0 .. n : m \in S
    <2> HIDE DEF S
    <2> QED
      BY <1>1, <1>4, <1>5, UptoInduction
  <1>7. n \in 0 .. n
    BY <1>1
  <1>8. Elements(f[n]) = Upto(n) /\ f[n] \in Seq(Sample)
    BY <1>2, <1>6, <1>7
  <1>9. DOMAIN b.pages = 1 .. n
    BY <1>1 DEF n
  <1>10. Content(b) = Upto(n)
    BY <1>9 DEF Content
  <1> QED
    BY <1>8, <1>10, SamplesIs DEF f, n
-----------------------------------------------------------------------------
(* Operations of the buffer *)

\* What push writes once the last page has room.
Appended(b, s) == [b EXCEPT !.pages[Len(b.pages)].data = Append(@, s)]

LEMMA LastPageTakes ==
  ASSUME NEW b, NEW s \in Sample,
         b.pages \in Seq(PageType), b.pages # <<>>, b.bytes = Capacities(b),
         b \in [pages : Seq(PageType), bytes : Int],
         Len(Last(b.pages).data) < Last(b.pages).capacity,
         \A k \in 1 .. Len(b.pages) - 1 :
           Len(b.pages[k].data) \in 1 .. b.pages[k].capacity
  PROVE  /\ Appended(b, s) \in Buffer
         /\ Content(Appended(b, s)) = Content(b) \union {s}
  <1> DEFINE n == Len(b.pages)
             page == [b.pages[n] EXCEPT !.data = Append(@, s)]
             q == [b.pages EXCEPT ![n] = page]
             c == [b EXCEPT !.pages[n].data = Append(@, s)]
  <1>1. n \in Nat /\ n >= 1 /\ DOMAIN b.pages = 1 .. n
    BY EmptySeq
  <1>2. b.pages[n] \in PageType /\ Last(b.pages) = b.pages[n]
    BY <1>1 DEF Last
  <1>3. b.pages[n].data \in Seq(Sample) /\ b.pages[n].capacity \in Nat
    BY <1>2, PageFields
  <1>4. /\ Append(b.pages[n].data, s) \in Seq(Sample)
        /\ Len(Append(b.pages[n].data, s)) = Len(b.pages[n].data) + 1
    BY <1>3
  <1>5. /\ page \in PageType /\ page.capacity = b.pages[n].capacity
        /\ page.data = Append(b.pages[n].data, s)
    BY <1>2, <1>4 DEF PageType
  <1> HIDE DEF page
  <1>6. /\ q \in Seq(PageType) /\ Len(q) = n /\ q[n] = page
        /\ \A k \in 1 .. n - 1 : q[k] = b.pages[k]
    BY <1>1, <1>5, ExceptSeq
  <1>7. c = [b EXCEPT !.pages = q]
    BY DEF page
  <1> HIDE DEF q
  <1>8. /\ c \in [pages : Seq(PageType), bytes : Int]
        /\ c.pages = q /\ c.bytes = b.bytes
    BY <1>6, <1>7
  <1> HIDE DEF c
  <1>9. \A k \in 1 .. n : k \in 1 .. n - 1 \/ k = n
    BY <1>1
  <1>10. Capacities(c) = Capacities(b)
    <2>1. \A k \in 1 .. n : b.pages[k].capacity = q[k].capacity
      BY <1>5, <1>6, <1>9
    <2> QED
      BY <1>6, <1>8, <2>1, CapacitySame
  <1>11. c \in Buffer
    <2>1. ASSUME NEW k \in DOMAIN q PROVE Len(q[k].data) \in 1 .. q[k].capacity
      <3>1. k \in 1 .. n
        BY <1>6
      <3>2. CASE k = n
        <4>1. Len(b.pages[n].data) \in Nat
          BY <1>3
        <4> QED
          BY <1>2, <1>3, <1>4, <1>5, <1>6, <3>2, <4>1
      <3>3. CASE k \in 1 .. n - 1
        BY <1>6, <3>3
      <3> QED
        BY <1>9, <3>1, <3>2, <3>3
    <2> QED
      BY <1>8, <1>10, <2>1 DEF Buffer
  <1>12. Elements(q[n].data) = Elements(b.pages[n].data) \union {s}
    <2> DEFINE d == b.pages[n].data
               e == Append(d, s)
    <2>1. /\ d \in Seq(Sample) /\ DOMAIN d = 1 .. Len(d) /\ Len(d) \in Nat
          /\ DOMAIN e = 1 .. Len(d) + 1 /\ e[Len(d) + 1] = s
          /\ \A k \in 1 .. Len(d) : e[k] = d[k]
      BY <1>3
    <2>2. q[n].data = e
      BY <1>5, <1>6
    <2> HIDE DEF d, e
    <2>3. \A k : k \in 1 .. Len(d) + 1 <=> k \in 1 .. Len(d) \/ k = Len(d) + 1
      BY <2>1
    <2>4. Elements(e) = Elements(d) \union {s}
      BY <2>1, <2>3 DEF Elements
    <2> QED
      BY <2>2, <2>4 DEF d
  <1>13. Content(c) = Content(b) \union {s}
    <2>1. DOMAIN c.pages = 1 .. n
      BY <1>6, <1>8
    <2>2. Content(c) = UNION {Elements(q[k].data) : k \in 1 .. n}
      BY <1>8, <2>1 DEF Content
    <2>3. Content(b) = UNION {Elements(b.pages[k].data) : k \in 1 .. n}
      BY <1>1 DEF Content
    <2>4. \A k \in 1 .. n - 1 : q[k].data = b.pages[k].data /\ k \in 1 .. n
      BY <1>1, <1>6
    <2>5. n \in 1 .. n
      BY <1>1
    <2> HIDE DEF n
    <2>6. ASSUME NEW x PROVE x \in Content(c) <=> x \in Content(b) \union {s}
      <3>1. x \in Content(c) <=> \E k \in 1 .. n : x \in Elements(q[k].data)
        BY <2>2
      <3>2. x \in Content(b) <=> \E k \in 1 .. n : x \in Elements(b.pages[k].data)
        BY <2>3
      <3>3. ASSUME x \in Content(c) PROVE x \in Content(b) \union {s}
        <4>1. PICK k \in 1 .. n : x \in Elements(q[k].data)
          BY <3>1, <3>3
        <4> QED
          BY <1>9, <1>12, <2>4, <2>5, <3>2, <4>1
      <3>4. ASSUME x \in Content(b) PROVE x \in Content(c)
        <4>1. PICK k \in 1 .. n : x \in Elements(b.pages[k].data)
          BY <3>2, <3>4
        <4> QED
          BY <1>9, <1>12, <2>4, <2>5, <3>1, <4>1
      <3>5. x = s => x \in Content(c)
        BY <1>12, <2>5, <3>1
      <3> QED
        BY <3>3, <3>4, <3>5
    <2> QED
      BY <2>6
  <1> QED
    BY <1>11, <1>13 DEF c, n, Appended

LEMMA AddPageFields ==
  ASSUME NEW b \in [pages : Seq(PageType), bytes : Int], b.bytes = Capacities(b),
         NEW capacity \in Nat \ {0}
  PROVE  LET c == add_page(b, capacity)
         IN  /\ c \in [pages : Seq(PageType), bytes : Int]
             /\ c.bytes = Capacities(c) /\ Len(c.pages) = Len(b.pages) + 1
             /\ c.pages[Len(c.pages)].capacity = capacity
             /\ c.pages[Len(c.pages)].data = <<>>
             /\ \A k \in 1 .. Len(b.pages) : c.pages[k] = b.pages[k]
             /\ Content(c) = Content(b)
  <1> DEFINE c == add_page(b, capacity)
             n == Len(b.pages)
             page == Page(capacity, <<>>)
  <1>1. page \in PageType /\ page.capacity = capacity /\ page.data = <<>>
    BY DEF Page, PageType
  <1>2. c.pages = Append(b.pages, page) /\ c.bytes = b.bytes + capacity
    BY DEF add_page
  <1>3. c = [pages |-> c.pages, bytes |-> c.bytes]
    BY DEF add_page
  <1> HIDE DEF page
  <1>4. /\ b.pages \in Seq(PageType) /\ n \in Nat
        /\ c.pages \in Seq(PageType) /\ Len(c.pages) = n + 1
        /\ c.pages[n + 1] = page
        /\ \A k \in 1 .. n : c.pages[k] = b.pages[k]
    BY <1>1, <1>2
  <1>5. c \in [pages : Seq(PageType), bytes : Int]
    BY <1>2, <1>3, <1>4
  <1> HIDE DEF c
  <1>6. Capacities(c) = Capacities(b) + capacity
    BY <1>1, <1>4, CapacityAppend, SMTT(30)
  <1>7. Elements(page.data) = {}
    BY <1>1 DEF Elements
  <1>8. Content(c) = Content(b)
    <2>1. DOMAIN b.pages = 1 .. n /\ DOMAIN c.pages = 1 .. n + 1
      BY <1>4
    <2> HIDE DEF n
    <2>2. \A k : k \in 1 .. n + 1 <=> k \in 1 .. n \/ k = n + 1
      BY <1>4
    <2> QED
      BY <1>4, <1>7, <2>1, <2>2 DEF Content
  <1> QED
    BY <1>1, <1>2, <1>4, <1>5, <1>6, <1>8 DEF c, n

\* push adds the sample and keeps the arena well formed.
LEMMA PushBuffer ==
  ASSUME NEW b \in Buffer, NEW s \in Sample
  PROVE  push(b, s) \in Buffer /\ Content(push(b, s)) = Content(b) \union {s}
  <1>1. /\ b \in [pages : Seq(PageType), bytes : Int] /\ b.bytes = Capacities(b)
        /\ b.pages \in Seq(PageType)
        /\ \A k \in 1 .. Len(b.pages) :
             /\ b.pages[k] \in PageType
             /\ Len(b.pages[k].data) \in 1 .. b.pages[k].capacity
    BY BufferFields DEF Buffer
  <1> DEFINE grown == IF b.pages = <<>> THEN add_page(b, kInitialPageCapacity)
                      ELSE IF Len(Last(b.pages).data) = Last(b.pages).capacity
                      THEN add_page(b, Last(b.pages).capacity * 2)
                      ELSE b
  <1>2. push(b, s) = Appended(grown, s)
    BY DEF push, Appended
  <1> DEFINE Ready(g) ==
        /\ g \in [pages : Seq(PageType), bytes : Int]
        /\ g.pages \in Seq(PageType) /\ g.pages # <<>> /\ g.bytes = Capacities(g)
        /\ Len(Last(g.pages).data) < Last(g.pages).capacity
        /\ \A k \in 1 .. Len(g.pages) - 1 :
             Len(g.pages[k].data) \in 1 .. g.pages[k].capacity
        /\ Content(g) = Content(b)
  <1>3. ASSUME NEW capacity \in Nat \ {0} PROVE Ready(add_page(b, capacity))
    <2> DEFINE c == add_page(b, capacity)
    <2>1. /\ c \in [pages : Seq(PageType), bytes : Int]
          /\ c.bytes = Capacities(c) /\ Len(c.pages) = Len(b.pages) + 1
          /\ c.pages[Len(c.pages)].capacity = capacity
          /\ c.pages[Len(c.pages)].data = <<>>
          /\ \A k \in 1 .. Len(b.pages) : c.pages[k] = b.pages[k]
          /\ Content(c) = Content(b)
      BY <1>1, AddPageFields
    <2> HIDE DEF c
    <2>2. c.pages \in Seq(PageType) /\ c.pages # <<>>
      BY <1>1, <2>1
    <2>3. Len(Last(c.pages).data) < Last(c.pages).capacity
      BY <2>1 DEF Last
    <2>4. \A k \in 1 .. Len(c.pages) - 1 :
            Len(c.pages[k].data) \in 1 .. c.pages[k].capacity
      <3>1. Len(c.pages) - 1 = Len(b.pages)
        BY <1>1, <2>1
      <3> QED
        BY <1>1, <2>1, <3>1
    <2> QED
      BY <2>1, <2>2, <2>3, <2>4 DEF c
  <1>4. Ready(grown)
    <2>1. CASE b.pages = <<>>
      BY <1>3, <2>1, PageAssumption
    <2>2. CASE b.pages # <<>>
      <3>1. Len(b.pages) \in 1 .. Len(b.pages)
        BY <1>1, <2>2, EmptySeq
      <3>2. /\ Last(b.pages) \in PageType
            /\ Len(Last(b.pages).data) \in 1 .. Last(b.pages).capacity
        BY <1>1, <3>1 DEF Last
      <3>3. Last(b.pages).capacity \in Nat /\ Last(b.pages).capacity > 0
        BY <3>2, PageFields
      <3>4. CASE Len(Last(b.pages).data) = Last(b.pages).capacity
        <4>1. Last(b.pages).capacity * 2 \in Nat \ {0}
          BY <3>3
        <4>2. grown = add_page(b, Last(b.pages).capacity * 2)
          BY <2>2, <3>4
        <4> HIDE DEF grown, Ready
        <4> QED
          BY <1>3, <4>1, <4>2
      <3>5. CASE Len(Last(b.pages).data) # Last(b.pages).capacity
        <4>1. Len(Last(b.pages).data) < Last(b.pages).capacity
          BY <3>2, <3>3, <3>5
        <4>2. grown = b
          BY <2>2, <3>5
        <4>3. \A k \in 1 .. Len(b.pages) - 1 : k \in 1 .. Len(b.pages)
          BY <1>1
        <4> QED
          BY <1>1, <2>2, <4>1, <4>2, <4>3
      <3> QED
        BY <3>4, <3>5
    <2> QED
      BY <2>1, <2>2
  <1> HIDE DEF grown
  <1> QED
    BY <1>2, <1>4, LastPageTakes
\* The function PushAll ends in.
PushUpto(b, s) ==
  CHOOSE f : f = [k \in 0 .. Len(s) |-> IF k = 0 THEN b ELSE push(f[k - 1], s[k])]

LEMMA PushUptoFacts ==
  ASSUME NEW b \in Buffer, NEW s \in Seq(Sample)
  PROVE  LET f == PushUpto(b, s)
         IN  /\ f \in [0 .. Len(s) -> Buffer] /\ f[0] = b
             /\ \A k \in 1 .. Len(s) : f[k] = push(f[k - 1], s[k])
  <1> DEFINE n == Len(s)
             f == PushUpto(b, s)
             step == [p \in Buffer \X (1 .. n) |-> push(p[1], s[p[2]])]
  <1>1. n \in Nat
    OBVIOUS
  <1>2. \A k \in 1 .. n : s[k] \in Sample
    OBVIOUS
  <1>3. step \in Steps(n, Buffer)
    BY <1>2, PushBuffer DEF Steps
  <1>4. PICK g : Recursive(g, n, Buffer, b, step)
    <2> HIDE DEF step, n
    <2> QED
      BY <1>1, <1>3, Recursion
  <1>5. g = [k \in 0 .. n |-> IF k = 0 THEN b ELSE push(g[k - 1], s[k])]
    <2>1. ASSUME NEW k \in 1 .. n PROVE g[k] = push(g[k - 1], s[k])
      <3>1. k - 1 \in 0 .. n
        BY <1>1
      <3>2. <<g[k - 1], k>> \in Buffer \X (1 .. n)
        <4> HIDE DEF n
        <4> QED
          BY <1>4, <3>1 DEF Recursive
      <3>3. g[k] = step[<<g[k - 1], k>>]
        <4> HIDE DEF n, step
        <4> QED
          BY <1>4 DEF Recursive
      <3> QED
        BY <3>2, <3>3
    <2> HIDE DEF n
    <2>2. ASSUME NEW k \in 0 .. n
          PROVE  g[k] = IF k = 0 THEN b ELSE push(g[k - 1], s[k])
      <3>1. k = 0 \/ k \in 1 .. n
        BY <1>1
      <3> QED
        BY <1>4, <2>1, <3>1 DEF Recursive
    <2> QED
      BY <1>4, <2>2 DEF Recursive
  <1>6. f = [k \in 0 .. n |-> IF k = 0 THEN b ELSE push(f[k - 1], s[k])]
    BY <1>5 DEF PushUpto
  <1> HIDE DEF f, n
  <1>7. f[0] = b
    BY <1>1, <1>6
  <1>8. ASSUME NEW k \in 1 .. n PROVE f[k] = push(f[k - 1], s[k])
    <2>1. k \in 0 .. n /\ k # 0
      BY <1>1
    <2> QED
      BY <1>6, <2>1
  <1>9. f \in [0 .. n -> Buffer]
    <2> DEFINE S == {k \in 0 .. n : f[k] \in Buffer}
    <2>1. 0 \in S
      BY <1>1, <1>7
    <2>2. ASSUME NEW k \in 1 .. n, k - 1 \in S PROVE k \in S
      <3>1. f[k - 1] \in Buffer /\ k \in 0 .. n
        BY <1>1, <2>2
      <3>2. f[k] \in Buffer
        BY <1>2, <1>8, <3>1, PushBuffer
      <3> QED
        BY <3>1, <3>2
    <2>3. \A k \in 0 .. n : k \in S
      <3> HIDE DEF S
      <3> QED
        BY <1>1, <2>1, <2>2, UptoInduction
    <2> QED
      BY <1>6, <2>3
  <1> QED
    BY <1>7, <1>8, <1>9 DEF f, n

LEMMA PushAllIs == \A b, s : PushAll(b, s) = PushUpto(b, s)[Len(s)]
  BY DEF PushAll, PushUpto

LEMMA PushAllBuffer ==
  ASSUME NEW b \in Buffer, NEW s \in Seq(Sample)
  PROVE  /\ PushAll(b, s) \in Buffer
         /\ Content(PushAll(b, s)) = Content(b) \union Elements(s)
  <1> DEFINE n == Len(s)
             f == PushUpto(b, s)
             Upto(m) == {s[k] : k \in 1 .. m}
             S == {m \in 0 .. n : Content(f[m]) = Content(b) \union Upto(m)}
  <1>1. n \in Nat /\ DOMAIN s = 1 .. n /\ \A k \in 1 .. n : s[k] \in Sample
    OBVIOUS
  <1>2. /\ f \in [0 .. n -> Buffer] /\ f[0] = b
        /\ \A k \in 1 .. n : f[k] = push(f[k - 1], s[k])
    BY PushUptoFacts
  <1> HIDE DEF f, n
  <1>3. 0 \in S
    BY <1>1, <1>2
  <1>4. ASSUME NEW m \in 1 .. n, m - 1 \in S PROVE m \in S
    <2>1. m - 1 \in 0 .. n /\ m \in 0 .. n
      BY <1>1
    <2>2. Content(f[m]) = Content(f[m - 1]) \union {s[m]}
      BY <1>1, <1>2, <2>1, PushBuffer
    <2>3. \A k : k \in 1 .. m <=> k \in 1 .. m - 1 \/ k = m
      BY <1>1
    <2>4. Upto(m) = Upto(m - 1) \union {s[m]}
      BY <2>3
    <2> QED
      BY <1>4, <2>1, <2>2, <2>4
  <1>5. \A m \in 0 .. n : m \in S
    <2> HIDE DEF S
    <2> QED
      BY <1>1, <1>3, <1>4, UptoInduction
  <1>6. n \in 0 .. n
    BY <1>1
  <1>7. Content(f[n]) = Content(b) \union Upto(n) /\ f[n] \in Buffer
    BY <1>2, <1>5, <1>6
  <1>8. Upto(n) = Elements(s)
    BY <1>1 DEF Elements
  <1> QED
    BY <1>7, <1>8, PushAllIs DEF f, n

\* merge adds every sample of the other buffer.
LEMMA MergeBuffer ==
  ASSUME NEW b \in Buffer, NEW other \in Buffer
  PROVE  /\ merge(b, other) \in Buffer
         /\ Content(merge(b, other)) = Content(b) \union Content(other)
  BY SamplesContent, PushAllBuffer DEF merge

\* Nothing is left, neither sample nor byte.
LEMMA ReleaseBuffer ==
  ASSUME NEW b \in Buffer
  PROVE  LET c == release_all(b)
         IN  /\ c \in Buffer /\ c \in [pages : Seq(PageType), bytes : Int]
             /\ c.pages = <<>> /\ c.bytes = 0 /\ Content(c) = {}
  <1> DEFINE c == release_all(b)
  <1>1. b.bytes = Capacities(b) /\ b.bytes \in Nat
    BY BufferFields
  <1>2. c.pages = <<>> /\ c.bytes = 0 /\ c = [pages |-> <<>>, bytes |-> 0]
    BY <1>1 DEF release_all
  <1>3. c = EmptyBuffer
    BY <1>2 DEF EmptyBuffer
  <1>4. c \in [pages : Seq(PageType), bytes : Int]
    BY <1>2
  <1> QED
    BY <1>2, <1>3, <1>4, EmptyBufferIsBuffer

\* A compaction leaves one page that holds what it was given, and no page when
\* it was given nothing.
LEMMA CompactBuffer ==
  ASSUME NEW b \in Buffer, NEW samples \in Seq(Sample)
  PROVE  LET c == compact_to(b, samples)
         IN  /\ c \in Buffer /\ Content(c) = Elements(samples)
             /\ IF samples = <<>> THEN c.pages = <<>>
                ELSE Len(c.pages) = 1 /\ c.pages[1].data = samples
  <1> DEFINE r == release_all(b)
             c == compact_to(b, samples)
             n == Len(samples)
             g == add_page(r, n)
             page == [g.pages[1] EXCEPT !.data = samples]
  <1>1. /\ r \in Buffer /\ r \in [pages : Seq(PageType), bytes : Int]
        /\ r.pages = <<>> /\ r.bytes = 0 /\ r.bytes = Capacities(r)
        /\ Content(r) = {}
    BY ReleaseBuffer, BufferFields
  <1> HIDE DEF r
  <1>2. CASE samples = <<>>
    BY <1>1, <1>2 DEF compact_to, r, Elements
  <1>3. CASE samples # <<>>
    <2>1. n \in Nat \ {0}
      BY <1>3, EmptySeq
    <2>2. /\ g \in [pages : Seq(PageType), bytes : Int] /\ g.bytes = Capacities(g)
          /\ Len(g.pages) = 1 /\ g.pages[1].capacity = n
      <3>1. Len(r.pages) = 0
        BY <1>1
      <3>2. Len(g.pages) = Len(r.pages) + 1 /\ g.pages[Len(g.pages)].capacity = n
        <4> HIDE DEF n
        <4> QED
          BY <1>1, <2>1, AddPageFields
      <3>3. g \in [pages : Seq(PageType), bytes : Int] /\ g.bytes = Capacities(g)
        <4> HIDE DEF n
        <4> QED
          BY <1>1, <2>1, AddPageFields
      <3> QED
        BY <3>1, <3>2, <3>3
    <2>3. c = [g EXCEPT !.pages[1].data = samples]
      BY <1>3 DEF compact_to, r
    <2> HIDE DEF c, g
    <2>4. g.pages \in Seq(PageType) /\ g.pages[1] \in PageType
      BY <2>2
    <2>5. page \in PageType /\ page.capacity = n /\ page.data = samples
      BY <2>2, <2>4 DEF PageType
    <2>6. c = [g EXCEPT !.pages = [g.pages EXCEPT ![1] = page]]
      BY <2>3
    <2> HIDE DEF page
    <2> DEFINE q == [g.pages EXCEPT ![1] = page]
    <2>7. q \in Seq(PageType) /\ Len(q) = 1 /\ q[1] = page /\ DOMAIN q = 1 .. 1
      BY <2>2, <2>4, <2>5, ExceptSeq
    <2> HIDE DEF q
    <2>8. c \in [pages : Seq(PageType), bytes : Int] /\ c.pages = q /\ c.bytes = g.bytes
      BY <2>2, <2>6, <2>7 DEF q
    <2>9. \A k \in 1 .. 1 : k = 1
      OBVIOUS
    <2>10. Capacities(c) = Capacities(g)
      BY <2>2, <2>4, <2>5, <2>7, <2>8, <2>9, CapacitySame
    <2>11. c \in Buffer
      BY <2>1, <2>2, <2>5, <2>7, <2>8, <2>9, <2>10 DEF Buffer
    <2>12. Content(c) = Elements(samples)
      BY <2>5, <2>7, <2>8, <2>9 DEF Content
    <2> QED
      BY <1>3, <2>5, <2>7, <2>8, <2>11, <2>12 DEF c
  <1> QED
    BY <1>2, <1>3
-----------------------------------------------------------------------------
(* Sorting *)

Before(s, i, j) == s[i].t < s[j].t \/ (s[i].t = s[j].t /\ i < j)

Preceding(s, j) == {i \in 1 .. Len(s) : Before(s, i, j)}

\* The index of the sample sorted to place k.
SortedTo(s, k) == CHOOSE j \in 1 .. Len(s) : Cardinality(Preceding(s, j)) = k - 1

LEMMA SortIs == \A s : stable_sort(s) = [k \in 1 .. Len(s) |-> s[SortedTo(s, k)]]
  BY DEF stable_sort, SortedTo, Preceding, Before

LEMMA BeforeOrder ==
  ASSUME NEW s \in Seq(Sample), NEW i \in 1 .. Len(s), NEW j \in 1 .. Len(s)
  PROVE  /\ ~Before(s, i, i)
         /\ i # j => Before(s, i, j) \/ Before(s, j, i)
         /\ Before(s, i, j) => ~Before(s, j, i)
         /\ \A k \in 1 .. Len(s) : Before(s, k, i) /\ Before(s, i, j) => Before(s, k, j)
  <1>1. \A k \in 1 .. Len(s) : s[k].t \in Int
    BY SampleFields
  <1> QED
    BY <1>1 DEF Before

\* The number of samples before one is its place, and no two share a place.
LEMMA PlaceFacts ==
  ASSUME NEW s \in Seq(Sample), NEW j \in 1 .. Len(s)
  PROVE  /\ Cardinality(Preceding(s, j)) \in 0 .. Len(s) - 1
         /\ \A i \in 1 .. Len(s) :
              Before(s, i, j) => Cardinality(Preceding(s, i)) < Cardinality(Preceding(s, j))
  <1> DEFINE n == Len(s)
             All == 1 .. n
  <1>1. n \in Nat /\ IsFiniteSet(All) /\ Cardinality(All) = n
    <2>1. n \in Nat
      OBVIOUS
    <2> HIDE DEF n
    <2> QED
      BY <2>1, FS_Interval
  <1>2. ASSUME NEW i \in All
        PROVE  /\ Preceding(s, i) \subseteq All \ {i} /\ IsFiniteSet(Preceding(s, i))
               /\ Cardinality(Preceding(s, i)) \in Nat
               /\ Cardinality(Preceding(s, i)) <= n - 1
    <2>1. Preceding(s, i) \subseteq All \ {i}
      BY BeforeOrder DEF Preceding
    <2>2. IsFiniteSet(All \ {i}) /\ Cardinality(All \ {i}) = n - 1
      <3> HIDE DEF All
      <3> QED
        BY <1>1, FS_RemoveElement
    <2> HIDE DEF All
    <2> QED
      BY <2>1, <2>2, FS_Subset, FS_CardinalityType
  <1>3. ASSUME NEW i \in All, Before(s, i, j)
        PROVE  Cardinality(Preceding(s, i)) < Cardinality(Preceding(s, j))
    <2>1. Preceding(s, i) \subseteq Preceding(s, j)
      BY <1>3, BeforeOrder DEF Preceding
    <2>2. i \in Preceding(s, j) /\ i \notin Preceding(s, i)
      BY <1>3, BeforeOrder DEF Preceding
    <2>3. /\ Cardinality(Preceding(s, i)) <= Cardinality(Preceding(s, j))
          /\ Cardinality(Preceding(s, j)) # Cardinality(Preceding(s, i))
      <3>1. IsFiniteSet(Preceding(s, j))
        BY <1>2
      <3> QED
        BY <2>1, <2>2, <3>1, FS_Subset
    <2>4. Cardinality(Preceding(s, i)) \in Nat /\ Cardinality(Preceding(s, j)) \in Nat
      BY <1>2
    <2> QED
      BY <2>3, <2>4
  <1> QED
    BY <1>1, <1>2, <1>3

\* Every place is taken.
LEMMA PlaceTaken ==
  ASSUME NEW s \in Seq(Sample), NEW k \in 1 .. Len(s)
  PROVE  /\ SortedTo(s, k) \in 1 .. Len(s)
         /\ Cardinality(Preceding(s, SortedTo(s, k))) = k - 1
  <1> DEFINE n == Len(s)
             All == 1 .. n
             Places == 0 .. n - 1
             f == [j \in All |-> Cardinality(Preceding(s, j))]
  <1>1. n \in Nat /\ IsFiniteSet(All) /\ Cardinality(All) = n
        /\ IsFiniteSet(Places) /\ Cardinality(Places) = n
    <2>1. n \in Nat
      OBVIOUS
    <2> HIDE DEF n
    <2> QED
      BY <2>1, FS_Interval
  <1>2. f \in [All -> Places]
    BY PlaceFacts
  <1>3. ASSUME NEW i \in All, NEW j \in All, f[i] = f[j] PROVE i = j
    <2> SUFFICES ASSUME i # j PROVE FALSE
        OBVIOUS
    <2>1. f[i] \in Int /\ f[j] \in Int
      BY <1>2
    <2>2. Before(s, i, j) \/ Before(s, j, i)
      BY BeforeOrder
    <2>3. f[i] < f[j] \/ f[j] < f[i]
      BY <2>2, PlaceFacts
    <2> QED
      BY <1>3, <2>1, <2>3
  <1> HIDE DEF f, All, Places
  <1>4. f \in Injection(All, Places)
    BY <1>2, <1>3 DEF Injection, IsInjective
  <1>5. f \in Surjection(All, Places)
    BY <1>1, <1>4, FS_Injection
  <1>6. k - 1 \in Places
    BY <1>1 DEF Places
  <1>7. PICK j \in All : f[j] = k - 1
    BY <1>5, <1>6 DEF Surjection
  <1> QED
    BY <1>7 DEF SortedTo, f, All

\* stable_sort permutes the samples into ascending order.
LEMMA SortFacts ==
  ASSUME NEW s \in Seq(Sample)
  PROVE  LET u == stable_sort(s)
         IN  /\ u \in Seq(Sample) /\ Len(u) = Len(s) /\ Elements(u) = Elements(s)
             /\ \A i, k \in 1 .. Len(u) : i < k => u[i].t <= u[k].t
  <1> DEFINE n == Len(s)
             u == stable_sort(s)
  <1>1. n \in Nat /\ \A k \in 1 .. n : s[k] \in Sample /\ s[k].t \in Int
    BY SampleFields
  <1>2. u = [k \in 1 .. n |-> s[SortedTo(s, k)]]
    BY SortIs
  <1>3. \A k \in 1 .. n : SortedTo(s, k) \in 1 .. n
    BY PlaceTaken
  <1>4. \A k \in 1 .. n : u[k] = s[SortedTo(s, k)] /\ u[k] \in Sample
    <2> HIDE DEF u, n
    <2> QED
      BY <1>1, <1>2, <1>3
  <1>5. u \in Seq(Sample) /\ Len(u) = n /\ DOMAIN u = 1 .. n
    <2> HIDE DEF u, n
    <2>1. u \in [1 .. n -> Sample]
      BY <1>2, <1>4
    <2> QED
      BY <1>1, <2>1, SeqDef
  <1> HIDE DEF u
  <1>6. ASSUME NEW i \in 1 .. n, NEW k \in 1 .. n, i < k PROVE u[i].t <= u[k].t
    <2> SUFFICES ASSUME ~(u[i].t <= u[k].t) PROVE FALSE
        OBVIOUS
    <2> DEFINE a == SortedTo(s, i)
               b == SortedTo(s, k)
    <2>1. a \in 1 .. n /\ b \in 1 .. n /\ s[b].t < s[a].t
      <3>1. u[i] = s[a] /\ u[k] = s[b] /\ s[a].t \in Int /\ s[b].t \in Int
        BY <1>1, <1>3, <1>4
      <3> QED
        BY <1>3, <3>1
    <2>2. Before(s, b, a)
      BY <2>1 DEF Before
    <2>3. Cardinality(Preceding(s, b)) < Cardinality(Preceding(s, a))
      <3> HIDE DEF a, b
      <3> QED
        BY <2>1, <2>2, PlaceFacts
    <2>4. Cardinality(Preceding(s, a)) = i - 1 /\ Cardinality(Preceding(s, b)) = k - 1
      BY PlaceTaken
    <2> QED
      BY <1>6, <2>3, <2>4
  <1>7. Elements(u) = Elements(s)
    <2>1. DOMAIN s = 1 .. n
      OBVIOUS
    <2>2. ASSUME NEW x \in Elements(u) PROVE x \in Elements(s)
      BY <1>3, <1>4, <1>5, <2>1, <2>2 DEF Elements
    <2>3. ASSUME NEW j \in 1 .. n PROVE s[j] \in Elements(u)
      <3> DEFINE k == Cardinality(Preceding(s, j)) + 1
      <3>1. k \in 1 .. n /\ k - 1 = Cardinality(Preceding(s, j))
        <4>1. Cardinality(Preceding(s, j)) \in 0 .. n - 1
          BY PlaceFacts
        <4> QED
          BY <1>1, <4>1
      <3> DEFINE i == SortedTo(s, k)
      <3>2. i \in 1 .. n /\ Cardinality(Preceding(s, i)) = k - 1
        <4> HIDE DEF k
        <4> QED
          BY <3>1, PlaceTaken
      <3> HIDE DEF k, i
      <3>3. i = j
        <4> SUFFICES ASSUME i # j PROVE FALSE
            OBVIOUS
        <4>1. Before(s, i, j) \/ Before(s, j, i)
          BY <3>2, BeforeOrder
        <4>2. /\ Cardinality(Preceding(s, i)) = Cardinality(Preceding(s, j))
              /\ Cardinality(Preceding(s, i)) \in Int
          BY <3>1, <3>2
        <4> QED
          BY <3>2, <4>1, <4>2, PlaceFacts
      <3>4. u[k] = s[j]
        BY <1>4, <3>1, <3>3 DEF i
      <3> QED
        BY <1>5, <3>1, <3>4 DEF Elements
    <2> QED
      BY <2>1, <2>2, <2>3 DEF Elements
  <1> QED
    BY <1>5, <1>6, <1>7 DEF u, n
-----------------------------------------------------------------------------
(* One sample for each timestamp *)

\* RankLess on the ranks of values is a strict total order.
LEMMA DedupOrder ==
  /\ \A a \in Value : ~dedup_policy(a, a)
  /\ \A a, b, c \in Value :
       dedup_policy(a, b) /\ dedup_policy(b, c) => dedup_policy(a, c)
  /\ \A a, b \in Value : a = b \/ dedup_policy(a, b) \/ dedup_policy(b, a)
  BY DoubleAssumption, SMTT(30)
  DEF Value, dedup_policy, RankLess, RankOf, TotalOrderKey, is_stale, IsNaN,
      Magnitude

LEMMA NotBeatenTransitive ==
  ASSUME NEW a \in Value, NEW b \in Value, NEW c \in Value,
         ~dedup_policy(a, b), ~dedup_policy(b, c)
  PROVE  ~dedup_policy(a, c)
  BY DedupOrder

\* The samples of kept stand for the rows (or samples) of given: each is one of
\* them, and each of them has one of its timestamp that it does not beat.
Stands(kept, given) ==
  /\ \A x \in kept : \E r \in given : x.t = r.t /\ x.v = r.v
  /\ \A r \in given : \E x \in kept : x.t = r.t /\ ~dedup_policy(r.v, x.v)

Valued(X) == \A x \in X : x.v \in Value

LEMMA StandsSelf ==
  ASSUME NEW X, Valued(X)
  PROVE  Stands(X, X)
  BY DedupOrder DEF Stands, Valued

LEMMA StandsTransitive ==
  ASSUME NEW X, NEW Y, NEW Z, Valued(X), Valued(Y), Valued(Z),
         Stands(X, Y), Stands(Y, Z)
  PROVE  Stands(X, Z)
  <1>1. ASSUME NEW x \in X PROVE \E r \in Z : x.t = r.t /\ x.v = r.v
    <2>1. PICK y \in Y : x.t = y.t /\ x.v = y.v
      BY DEF Stands
    <2>2. PICK r \in Z : y.t = r.t /\ y.v = r.v
      BY DEF Stands
    <2> QED
      BY <2>1, <2>2
  <1>2. ASSUME NEW r \in Z PROVE \E x \in X : x.t = r.t /\ ~dedup_policy(r.v, x.v)
    <2>1. PICK y \in Y : y.t = r.t /\ ~dedup_policy(r.v, y.v)
      BY DEF Stands
    <2>2. PICK x \in X : x.t = y.t /\ ~dedup_policy(y.v, x.v)
      BY DEF Stands
    <2>3. ~dedup_policy(r.v, x.v)
      BY <2>1, <2>2, NotBeatenTransitive DEF Valued
    <2> QED
      BY <2>1, <2>2, <2>3
  <1> QED
    BY <1>1, <1>2 DEF Stands

LEMMA StandsUnion ==
  ASSUME NEW X, NEW Y, NEW R, NEW Q, Stands(X, R), Stands(Y, Q)
  PROVE  Stands(X \union Y, R \union Q)
  BY DEF Stands

LEMMA SamplesValued == ASSUME NEW s \in Seq(Sample) PROVE Valued(Elements(s))
  <1>1. \A k \in DOMAIN s : s[k] \in Sample
    OBVIOUS
  <1> QED
    BY <1>1, SampleFields DEF Valued, Elements

Ascending(s) == \A i, k \in 1 .. Len(s) : i < k => s[i].t < s[k].t

\* One step of the collapse: kept stays ascending and ends at the new sample's
\* timestamp.
LEMMA CollapseFacts ==
  ASSUME NEW kept \in Seq(Sample), NEW s \in Sample, Ascending(kept),
         \A k \in 1 .. Len(kept) : kept[k].t <= s.t
  PROVE  LET r == Collapse(kept, s)
         IN  /\ r \in Seq(Sample) /\ Ascending(r)
             /\ \A k \in 1 .. Len(r) : r[k].t <= s.t
             /\ Stands(Elements(r), Elements(kept) \union {s})
  <1> DEFINE n == Len(kept)
             r == Collapse(kept, s)
  <1>1. /\ n \in Nat /\ DOMAIN kept = 1 .. n
        /\ \A k \in 1 .. n : kept[k] \in Sample /\ kept[k].t \in Int /\ kept[k].v \in Value
    BY SampleFields
  <1>2. s.t \in Int /\ s.v \in Value
    BY SampleFields
  <1>3. CASE kept # <<>> /\ Last(kept).t = s.t
    <2>1. n \in 1 .. n /\ Last(kept) = kept[n] /\ kept[n].t = s.t
      BY <1>1, <1>3, EmptySeq DEF Last
    <2>2. CASE dedup_policy(s.v, kept[n].v)
      <3>1. [kept[n] EXCEPT !.v = s.v] = s
        BY <1>1, <2>1 DEF Sample
      <3>2. r = [kept EXCEPT ![n] = s]
        <4>1. r = [kept EXCEPT ![n].v = s.v]
          BY <1>3, <2>1, <2>2 DEF Collapse
        <4> QED
          BY <3>1, <4>1
      <3> HIDE DEF r
      <3>3. /\ r \in Seq(Sample) /\ Len(r) = n /\ r[n] = s /\ DOMAIN r = 1 .. n
            /\ \A k \in 1 .. n : k # n => r[k] = kept[k]
        BY <1>1, <2>1, <3>2, ExceptSeq
      <3> HIDE DEF n
      <3>4. \A k \in 1 .. n : r[k].t = kept[k].t
        BY <2>1, <3>3
      <3>5. Ascending(r)
        BY <3>3, <3>4 DEF Ascending, n
      <3>6. Stands(Elements(r), Elements(kept) \union {s})
        <4>1. ASSUME NEW x \in Elements(r)
              PROVE  \E y \in Elements(kept) \union {s} : x.t = y.t /\ x.v = y.v
          BY <1>1, <3>3 DEF Elements
        <4>2. ASSUME NEW k \in 1 .. n
              PROVE  \E x \in Elements(r) : x.t = kept[k].t /\ ~dedup_policy(kept[k].v, x.v)
          <5>1. r[k] \in Elements(r)
            BY <3>3 DEF Elements
          <5>2. CASE k = n
            BY <1>1, <1>2, <2>2, <3>3, <3>4, <5>1, <5>2, DedupOrder
          <5>3. CASE k # n
            BY <1>1, <3>3, <5>1, <5>3, DedupOrder
          <5> QED
            BY <5>2, <5>3
        <4>3. s \in Elements(r) /\ ~dedup_policy(s.v, s.v)
          BY <1>2, <2>1, <3>3, DedupOrder DEF Elements
        <4> QED
          BY <1>1, <4>1, <4>2, <4>3 DEF Stands, Elements
      <3> QED
        BY <3>3, <3>4, <3>5, <3>6 DEF r, n
    <2>3. CASE ~dedup_policy(s.v, kept[n].v)
      <3>1. r = kept
        BY <1>3, <2>1, <2>3 DEF Collapse
      <3>2. Valued(Elements(kept))
        BY SamplesValued
      <3>3. Stands(Elements(kept), Elements(kept) \union {s})
        <4>1. kept[n] \in Elements(kept)
          BY <1>1, <2>1 DEF Elements
        <4> QED
          BY <2>1, <2>3, <3>2, <4>1, StandsSelf DEF Stands
      <3> QED
        BY <3>1, <3>3
    <2> QED
      BY <2>2, <2>3
  <1>4. CASE ~(kept # <<>> /\ Last(kept).t = s.t)
    <2>1. r = Append(kept, s)
      BY <1>4 DEF Collapse
    <2> HIDE DEF r
    <2>2. /\ r \in Seq(Sample) /\ Len(r) = n + 1 /\ r[n + 1] = s
          /\ DOMAIN r = 1 .. n + 1 /\ \A k \in 1 .. n : r[k] = kept[k]
      BY <1>1, <2>1
    <2>3. \A k \in 1 .. n : kept[k].t < s.t
      <3> SUFFICES ASSUME NEW k \in 1 .. n PROVE kept[k].t < s.t
          OBVIOUS
      <3>1. kept # <<>> /\ n \in 1 .. n /\ Last(kept) = kept[n]
        BY <1>1 DEF Last
      <3>2. kept[n].t < s.t
        BY <1>1, <1>2, <1>4, <3>1
      <3>3. kept[k].t \in Int /\ kept[n].t \in Int
        BY <1>1, <3>1
      <3>4. CASE k = n
        BY <3>2, <3>4
      <3>5. CASE k < n
        <4>1. kept[k].t < kept[n].t
          BY <3>1, <3>5 DEF Ascending
        <4> QED
          BY <1>2, <3>2, <3>3, <4>1
      <3>6. k = n \/ k < n
        <4> HIDE DEF n
        <4> QED
          BY <1>1
      <3> QED
        BY <3>4, <3>5, <3>6
    <2> HIDE DEF n
    <2>4. \A k : k \in 1 .. n + 1 <=> k \in 1 .. n \/ k = n + 1
      BY <1>1
    <2>5. Ascending(r)
      <3> SUFFICES ASSUME NEW i \in 1 .. n + 1, NEW k \in 1 .. n + 1, i < k
                   PROVE  r[i].t < r[k].t
          BY <2>2 DEF Ascending
      <3>1. i \in 1 .. n
        BY <1>1
      <3>2. CASE k = n + 1
        BY <2>2, <2>3, <3>1, <3>2
      <3>3. CASE k \in 1 .. n
        BY <2>2, <3>1, <3>3 DEF Ascending, n
      <3> QED
        BY <2>4, <3>2, <3>3
    <2>6. \A k \in 1 .. n + 1 : r[k].t <= s.t
      BY <1>1, <1>2, <2>2, <2>3, <2>4
    <2>7. Elements(r) = Elements(kept) \union {s}
      BY <1>1, <2>2, <2>4 DEF Elements
    <2>8. Stands(Elements(r), Elements(r))
      BY <2>2, SamplesValued, StandsSelf
    <2> QED
      BY <2>2, <2>5, <2>6, <2>7, <2>8 DEF r, n
  <1> QED
    BY <1>3, <1>4
\* The function Collapsed ends in.
CollapseUpto(s) ==
  CHOOSE f : f = [k \in 0 .. Len(s) |-> IF k = 0 THEN <<>> ELSE Collapse(f[k - 1], s[k])]

LEMMA CollapsedIs == \A s : Collapsed(s) = CollapseUpto(s)[Len(s)]
  BY DEF Collapsed, CollapseUpto

LEMMA CollapseSeq ==
  ASSUME NEW kept \in Seq(Sample), NEW s \in Sample
  PROVE  Collapse(kept, s) \in Seq(Sample)
  <1>1. CASE kept # <<>> /\ Last(kept).t = s.t
    <2>1. Len(kept) \in 1 .. Len(kept) /\ Last(kept) = kept[Len(kept)]
      BY <1>1, EmptySeq DEF Last
    <2>2. kept[Len(kept)] \in Sample
      BY <2>1
    <2>3. [kept[Len(kept)] EXCEPT !.v = s.v] \in Sample
      BY <2>2 DEF Sample
    <2>4. [kept EXCEPT ![Len(kept)].v = s.v] \in Seq(Sample)
      BY <2>1, <2>3, ExceptSeq
    <2> QED
      BY <1>1, <2>4 DEF Collapse
  <1>2. CASE ~(kept # <<>> /\ Last(kept).t = s.t)
    <2>1. Collapse(kept, s) = Append(kept, s)
      BY <1>2 DEF Collapse
    <2> QED
      BY <2>1
  <1> QED
    BY <1>1, <1>2

LEMMA CollapseUptoFacts ==
  ASSUME NEW s \in Seq(Sample)
  PROVE  LET f == CollapseUpto(s)
         IN  f[0] = <<>> /\ \A k \in 1 .. Len(s) : f[k] = Collapse(f[k - 1], s[k])
  <1> DEFINE n == Len(s)
             V == Seq(Sample)
             f == CollapseUpto(s)
             base == <<>>
             step == [p \in V \X (1 .. n) |-> Collapse(p[1], s[p[2]])]
  <1>1. n \in Nat /\ base \in V
    OBVIOUS
  <1>2. \A k \in 1 .. n : s[k] \in Sample
    OBVIOUS
  <1>3. step \in Steps(n, V)
    BY <1>2, CollapseSeq DEF Steps
  <1>4. PICK g : Recursive(g, n, V, base, step)
    <2> HIDE DEF step, n, base, V
    <2> QED
      BY <1>1, <1>3, Recursion
  <1>5. g = [k \in 0 .. n |-> IF k = 0 THEN <<>> ELSE Collapse(g[k - 1], s[k])]
    <2>1. ASSUME NEW k \in 1 .. n PROVE g[k] = Collapse(g[k - 1], s[k])
      <3>1. k - 1 \in 0 .. n
        BY <1>1
      <3>2. <<g[k - 1], k>> \in V \X (1 .. n)
        <4> HIDE DEF n, V
        <4> QED
          BY <1>4, <3>1 DEF Recursive
      <3>3. g[k] = step[<<g[k - 1], k>>]
        <4> HIDE DEF n, step, V
        <4> QED
          BY <1>4 DEF Recursive
      <3> QED
        BY <3>2, <3>3
    <2> HIDE DEF n, V
    <2>2. ASSUME NEW k \in 0 .. n
          PROVE  g[k] = IF k = 0 THEN <<>> ELSE Collapse(g[k - 1], s[k])
      <3>1. k = 0 \/ k \in 1 .. n
        BY <1>1
      <3> QED
        BY <1>4, <2>1, <3>1 DEF Recursive
    <2> QED
      BY <1>4, <2>2 DEF Recursive
  <1>6. f = [k \in 0 .. n |-> IF k = 0 THEN <<>> ELSE Collapse(f[k - 1], s[k])]
    BY <1>5 DEF CollapseUpto
  <1> HIDE DEF f, n, V
  <1>7. f[0] = <<>>
    BY <1>1, <1>6
  <1>8. ASSUME NEW k \in 1 .. n PROVE f[k] = Collapse(f[k - 1], s[k])
    <2>1. k \in 0 .. n /\ k # 0
      BY <1>1
    <2> QED
      BY <1>6, <2>1
  <1> QED
    BY <1>7, <1>8 DEF f, n

\* Of a sorted run, one sample is kept of each timestamp, ascending, and none
\* of the run beats it.
LEMMA CollapsedFacts ==
  ASSUME NEW s \in Seq(Sample), \A i, k \in 1 .. Len(s) : i < k => s[i].t <= s[k].t
  PROVE  /\ Collapsed(s) \in Seq(Sample) /\ Ascending(Collapsed(s))
         /\ Stands(Elements(Collapsed(s)), Elements(s))
  <1> DEFINE n == Len(s)
             f == CollapseUpto(s)
             Upto(m) == {s[k] : k \in 1 .. m}
             Good(m) == /\ f[m] \in Seq(Sample) /\ Ascending(f[m])
                        /\ \A k \in 1 .. Len(f[m]) : m > 0 /\ f[m][k].t <= s[m].t
                        /\ Stands(Elements(f[m]), Upto(m))
             S == {m \in 0 .. n : Good(m)}
  <1>1. /\ n \in Nat /\ DOMAIN s = 1 .. n
        /\ \A k \in 1 .. n : s[k] \in Sample /\ s[k].t \in Int /\ s[k].v \in Value
    BY SampleFields
  <1>2. f[0] = <<>> /\ \A k \in 1 .. n : f[k] = Collapse(f[k - 1], s[k])
    BY CollapseUptoFacts
  <1>3. \A i, k \in 1 .. n : i < k => s[i].t <= s[k].t
    OBVIOUS
  <1> HIDE DEF f, n
  <1>4. 0 \in S
    <2>1. Upto(0) = {} /\ Elements(f[0]) = {}
      BY <1>2 DEF Elements
    <2>2. f[0] \in Seq(Sample) /\ Len(f[0]) = 0
      BY <1>2
    <2>3. Ascending(f[0]) /\ \A k \in 1 .. Len(f[0]) : FALSE
      BY <2>2 DEF Ascending
    <2>4. Stands(Elements(f[0]), Upto(0))
      BY <2>1 DEF Stands
    <2>5. 0 \in 0 .. n
      BY <1>1
    <2> QED
      BY <2>2, <2>3, <2>4, <2>5
  <1>5. ASSUME NEW m \in 1 .. n, m - 1 \in S PROVE m \in S
    <2>1. m - 1 \in 0 .. n /\ m \in 0 .. n /\ m > 0
      BY <1>1
    <2>2. Good(m - 1)
      BY <1>5
    <2> DEFINE kept == f[m - 1]
    <2>3. \A k \in 1 .. Len(kept) : kept[k].t <= s[m].t
      <3> SUFFICES ASSUME NEW k \in 1 .. Len(kept) PROVE kept[k].t <= s[m].t
          OBVIOUS
      <3>1. m - 1 > 0 /\ kept[k].t <= s[m - 1].t
        BY <2>2
      <3>2. m - 1 \in 1 .. n /\ m - 1 < m
        BY <1>1, <3>1
      <3>3. s[m - 1].t <= s[m].t /\ s[m - 1].t \in Int /\ s[m].t \in Int
        BY <1>1, <1>3, <3>2
      <3>4. kept[k].t \in Int
        <4>1. kept[k] \in Sample
          BY <2>2
        <4> QED
          BY <4>1, SampleFields
      <3> HIDE DEF kept
      <3> QED
        BY <3>1, <3>3, <3>4
    <2>4. kept \in Seq(Sample) /\ Ascending(kept) /\ Stands(Elements(kept), Upto(m - 1))
      BY <2>2
    <2> DEFINE r == Collapse(kept, s[m])
    <2> HIDE DEF kept
    <2>5. /\ r \in Seq(Sample) /\ Ascending(r)
          /\ \A k \in 1 .. Len(r) : r[k].t <= s[m].t
          /\ Stands(Elements(r), Elements(kept) \union {s[m]})
      BY <1>1, <2>3, <2>4, CollapseFacts
    <2>6. f[m] = r
      BY <1>2 DEF kept
    <2> HIDE DEF r
    <2>7. Stands(Elements(r), Upto(m))
      <3>1. \A k : k \in 1 .. m <=> k \in 1 .. m - 1 \/ k = m
        BY <1>1
      <3>2. Upto(m) = Upto(m - 1) \union {s[m]}
        BY <3>1
      <3>3. Valued(Upto(m))
        BY <1>1 DEF Valued
      <3>4. Valued(Elements(r)) /\ Valued(Elements(kept)) /\ Valued({s[m]})
        BY <1>1, <2>4, <2>5, SamplesValued DEF Valued
      <3>5. Stands({s[m]}, {s[m]})
        BY <3>4, StandsSelf
      <3> HIDE DEF Upto
      <3>6. Stands(Elements(kept) \union {s[m]}, Upto(m))
        BY <2>4, <3>2, <3>5, StandsUnion
      <3>7. Valued(Elements(kept) \union {s[m]})
        BY <3>4 DEF Valued
      <3> QED
        BY <2>5, <3>3, <3>4, <3>6, <3>7, StandsTransitive
    <2> HIDE DEF Upto
    <2> QED
      BY <2>1, <2>5, <2>6, <2>7
  <1>6. \A m \in 0 .. n : m \in S
    <2> HIDE DEF S
    <2> QED
      BY <1>1, <1>4, <1>5, UptoInduction
  <1>7. n \in 0 .. n
    BY <1>1
  <1>8. Good(n)
    BY <1>6, <1>7
  <1>9. Upto(n) = Elements(s)
    BY <1>1 DEF Elements
  <1> QED
    BY <1>8, <1>9, CollapsedIs DEF f, n

\* What sort_dedup leaves: one ascending page, or none, that stands for what
\* the buffer held.
LEMMA SortDedupFacts ==
  ASSUME NEW b \in Buffer
  PROVE  LET c == sort_dedup(b)
             d == Collapsed(stable_sort(Samples(b)))
         IN  /\ c \in Buffer /\ d \in Seq(Sample) /\ Ascending(d)
             /\ Content(c) = Elements(d) /\ Stands(Content(c), Content(b))
             /\ IF d = <<>> THEN c.pages = <<>>
                ELSE Len(c.pages) = 1 /\ c.pages[1].data = d
  <1> DEFINE s == Samples(b)
             u == stable_sort(s)
             d == Collapsed(u)
  <1>1. s \in Seq(Sample) /\ Elements(s) = Content(b)
    BY SamplesContent
  <1> HIDE DEF s
  <1>2. /\ u \in Seq(Sample) /\ Elements(u) = Elements(s)
        /\ \A i, k \in 1 .. Len(u) : i < k => u[i].t <= u[k].t
    BY <1>1, SortFacts
  <1> HIDE DEF u
  <1>3. d \in Seq(Sample) /\ Ascending(d) /\ Stands(Elements(d), Elements(u))
    BY <1>2, CollapsedFacts
  <1>4. sort_dedup(b) = compact_to(b, d)
    BY DEF sort_dedup, u, s
  <1> HIDE DEF d
  <1>5. LET c == compact_to(b, d)
        IN  /\ c \in Buffer /\ Content(c) = Elements(d)
            /\ IF d = <<>> THEN c.pages = <<>>
               ELSE Len(c.pages) = 1 /\ c.pages[1].data = d
    BY <1>3, CompactBuffer
  <1> QED
    BY <1>1, <1>2, <1>3, <1>4, <1>5 DEF d, u, s
-----------------------------------------------------------------------------
(* The slice of everything, and the walk over it *)

\* The slice from the least to the greatest timestamp is the whole page.
LEMMA SliceWhole ==
  ASSUME NEW c, NEW d \in Seq(Sample),
         IF d = <<>> THEN c.pages = <<>> ELSE Len(c.pages) = 1 /\ c.pages[1].data = d
  PROVE  slice(c, Min(RowTs \ {Null}), Max(RowTs \ {Null})) = d
  <1> DEFINE T == RowTs \ {Null}
             from == Min(T)
             to == Max(T)
             n == Len(d)
  <1>1. CASE d = <<>>
    BY <1>1 DEF slice
  <1>2. CASE d # <<>>
    <2>1. n \in Nat /\ DOMAIN d = 1 .. n /\ \A k \in 1 .. n : d[k].t \in T
      BY SampleFields
    <2>2. T \in SUBSET Int /\ IsFiniteSet(T) /\ T # {}
      <3>1. 1 \in 1 .. n
        BY <1>2, EmptySeq
      <3> QED
        BY <2>1, <3>1, AggregateAssumption, FS_Subset
    <2> HIDE DEF T, n
    <2>3. (\E x \in T : \A y \in T : x >= y) /\ (\E x \in T : \A y \in T : x =< y)
      BY <2>2, FiniteExtremes
    <2>4. /\ to \in T /\ \A y \in T : to >= y
          /\ from \in T /\ \A y \in T : from =< y
      BY <2>3 DEF Min, Max
    <2> HIDE DEF from, to
    <2>5. {k \in 1 .. n : d[k].t < from} = {} /\ {k \in 1 .. n : d[k].t <= to} = 1 .. n
      <3>1. to \in Int /\ from \in Int
        BY <2>2, <2>4
      <3>2. ASSUME NEW k \in 1 .. n
            PROVE  d[k].t \in Int /\ from <= d[k].t /\ d[k].t <= to
        <4>1. d[k].t \in T
          BY <2>1
        <4> QED
          BY <2>2, <2>4, <3>1, <4>1
      <3> QED
        BY <3>1, <3>2
    <2>6. Cardinality({}) = 0 /\ Cardinality(1 .. n) = n
      BY <2>1, FS_EmptySet, FS_Interval
    <2>7. slice(c, from, to) = SubSeq(d, 1, n)
      <3>1. c.pages # <<>> /\ c.pages[1].data = d
        BY <1>2
      <3>2. slice(c, from, to) = SubSeq(d, 0 + 1, n)
        BY <2>1, <2>5, <2>6, <3>1 DEF slice
      <3> QED
        BY <3>2
    <2>8. SubSeq(d, 1, n) = d
      BY SubSeqFull DEF n
    <2>9. slice(c, from, to) = d
      BY <2>7, <2>8
    <2> QED
      BY <2>9 DEF from, to, T
  <1> QED
    BY <1>1, <1>2

\* How many samples of an ascending sequence lie at x or before.
Reach(data, x) ==
  CHOOSE h \in 0 .. Len(data) : \A k \in 1 .. Len(data) : data[k].t <= x <=> k <= h

LEMMA ReachFacts ==
  ASSUME NEW data, Len(data) \in Nat, \A k \in 1 .. Len(data) : data[k].t \in Int,
         Ascending(data), NEW x \in Int
  PROVE  /\ Reach(data, x) \in 0 .. Len(data)
         /\ \A k \in 1 .. Len(data) : data[k].t <= x <=> k <= Reach(data, x)
  <1> DEFINE n == Len(data)
             T == {h \in 0 .. n : \A k \in 1 .. h : data[k].t <= x}
  <1>1. 0 \in T
    OBVIOUS
  <1>2. T \in SUBSET (0 .. n) /\ T # {}
    BY <1>1
  <1>3. PICK h \in T : \A y \in T : y <= h
    <2> HIDE DEF T
    <2> QED
      BY <1>2, GreatestExists
  <1>4. \A k \in 1 .. n : k <= h => data[k].t <= x
    BY <1>3
  <1>5. ASSUME NEW k \in 1 .. n, data[k].t <= x PROVE k <= h
    <2>1. \A j \in 1 .. k : data[j].t <= x
      <3> SUFFICES ASSUME NEW j \in 1 .. k PROVE data[j].t <= x
          OBVIOUS
      <3>1. j = k \/ (j \in 1 .. n /\ data[j].t < data[k].t)
        BY DEF Ascending
      <3>2. j \in 1 .. n
        OBVIOUS
      <3> QED
        BY <1>5, <3>1, <3>2
    <2>2. k \in T
      BY <2>1
    <2> QED
      BY <1>3, <2>2
  <1>6. \E g \in 0 .. n : \A k \in 1 .. n : data[k].t <= x <=> k <= g
    BY <1>3, <1>4, <1>5
  <1> QED
    BY <1>6 DEF Reach

\* A pointer advanced over a prefix stops at its end.
LEMMA AdvanceIs ==
  ASSUME NEW n \in Nat, NEW h \in 0 .. n, NEW from \in 0 .. h, NEW passed,
         \A k \in Nat : k \in passed <=> k \in 1 .. h
  PROVE  Advance(n, from, passed) = h
  <1>1. h \in from .. n /\ from + 1 .. h \subseteq passed /\ h + 1 \notin passed
    OBVIOUS
  <1>2. ASSUME NEW p \in from .. n, from + 1 .. p \subseteq passed, p + 1 \notin passed
        PROVE  p = h
    <2>1. ~(p < h)
      BY <1>2
    <2>2. ~(h < p)
      <3> SUFFICES ASSUME h < p PROVE FALSE
          OBVIOUS
      <3>1. h + 1 \in from + 1 .. p
        OBVIOUS
      <3> QED
        BY <1>1, <1>2, <3>1
    <2> QED
      BY <2>1, <2>2
  <1> DEFINE Stop(p) == from + 1 .. p \subseteq passed /\ p + 1 \notin passed
  <1>3. Stop(h) /\ \A p \in from .. n : Stop(p) => p = h
    BY <1>1, <1>2
  <1>4. Advance(n, from, passed) = CHOOSE p \in from .. n : Stop(p)
    BY DEF Advance
  <1> HIDE DEF Stop
  <1> QED
    BY <1>1, <1>3, <1>4

LEMMA CountNat == Count \in Nat
  BY GridAssumption DEF Count

LEMMA AtInt == \A i \in Int : At(i) \in Int
  BY GridAssumption DEF At

LEMMA AtNext == \A i \in Int : At(i) <= At(i + 1)
  BY GridAssumption DEF At

\* window_walk's range of each grid point is the samples of its window.
LEMMA WalkFacts ==
  ASSUME NEW data, Len(data) \in Nat, \A k \in 1 .. Len(data) : data[k].t \in Int,
         Ascending(data)
  PROVE  window_walk(data)
           = [i \in 1 .. Count |-> [lo |-> Reach(data, At(i - 1) - Width),
                                    hi |-> Reach(data, At(i - 1))]]
  <1> DEFINE n == Len(data)
             lo(i) == Reach(data, At(i - 1) - Width)
             hi(i) == Reach(data, At(i - 1))
             early(i) == {k \in 1 .. n : data[k].t <= At(i - 1)}
             out(i) == {k \in early(i) : ~Contains(At(i - 1), data[k].t)}
             next(i, w) == [lo |-> Advance(n, w.lo, out(i)), hi |-> Advance(n, w.hi, early(i))]
             zero == [lo |-> 0, hi |-> 0]
             W == [i \in 0 .. Count |->
                     IF i = 0 THEN zero ELSE [lo |-> lo(i), hi |-> hi(i)]]
             walk == CHOOSE f : f = [i \in 0 .. Count |->
                                       IF i = 0 THEN zero ELSE next(i, f[i - 1])]
  <1>1. window_walk(data) = [i \in 1 .. Count |-> walk[i]]
    BY DEF window_walk
  <1>2. ASSUME NEW i \in 1 .. Count
        PROVE  /\ At(i - 1) \in Int /\ At(i - 1) - Width \in Int /\ Width \in Int /\ Width >= 0
               /\ lo(i) \in 0 .. n /\ \A k \in 1 .. n : data[k].t <= At(i - 1) - Width <=> k <= lo(i)
               /\ hi(i) \in 0 .. n /\ \A k \in 1 .. n : data[k].t <= At(i - 1) <=> k <= hi(i)
    <2>1. At(i - 1) \in Int /\ At(i - 1) - Width \in Int /\ Width \in Int /\ Width >= 0
      BY AtInt, CountNat, GridAssumption
    <2> QED
      BY <2>1, ReachFacts
  <1> HIDE DEF lo, hi
  <1>3. ASSUME NEW i \in 1 .. Count
        PROVE  /\ \A k \in Nat : k \in early(i) <=> k \in 1 .. hi(i)
               /\ \A k \in Nat : k \in out(i) <=> k \in 1 .. lo(i)
    <2>1. \A k \in Nat : k \in 1 .. hi(i) <=> k \in 1 .. n /\ k <= hi(i)
      BY <1>2
    <2>2. \A k \in Nat : k \in 1 .. lo(i) <=> k \in 1 .. n /\ k <= lo(i)
      BY <1>2
    <2>3. \A k \in 1 .. n : k \in early(i) <=> k <= hi(i)
      BY <1>2
    <2>4. \A k \in 1 .. n : k \in out(i) <=> data[k].t <= At(i - 1) - Width
      BY <1>2 DEF Contains
    <2>5. \A k : (k \in early(i) => k \in 1 .. n) /\ (k \in out(i) => k \in 1 .. n)
      OBVIOUS
    <2> HIDE DEF early, out
    <2> QED
      BY <1>2, <2>1, <2>2, <2>3, <2>4, <2>5
  <1> HIDE DEF early, out
  <1>4. ASSUME NEW i \in 1 .. Count, NEW w, w.lo \in 0 .. lo(i), w.hi \in 0 .. hi(i)
        PROVE  next(i, w) = [lo |-> lo(i), hi |-> hi(i)]
    <2>1. Advance(n, w.lo, out(i)) = lo(i)
      BY <1>2, <1>3, <1>4, AdvanceIs, SMTT(30)
    <2>2. Advance(n, w.hi, early(i)) = hi(i)
      BY <1>2, <1>3, <1>4, AdvanceIs
    <2> QED
      BY <2>1, <2>2
  <1>5. ASSUME NEW i \in 1 .. Count
        PROVE  W[i - 1].lo \in 0 .. lo(i) /\ W[i - 1].hi \in 0 .. hi(i)
    <2>1. CASE i = 1
      BY <1>2, <2>1, CountNat
    <2>2. CASE i # 1
      <3>1. i - 1 \in 1 .. Count /\ i - 1 \in 0 .. Count /\ i - 1 # 0
        BY <2>2, CountNat
      <3>2. W[i - 1] = [lo |-> lo(i - 1), hi |-> hi(i - 1)]
        BY <3>1
      <3>3. At((i - 1) - 1) <= At(i - 1)
        <4>1. (i - 1) - 1 \in Int /\ ((i - 1) - 1) + 1 = i - 1
          BY <3>1
        <4> QED
          BY <4>1, AtNext
      <3> DEFINE a == At((i - 1) - 1)
                 b == At(i - 1)
      <3>4. /\ a \in Int /\ b \in Int /\ a <= b /\ Width \in Int
            /\ lo(i - 1) \in 0 .. n /\ hi(i - 1) \in 0 .. n
            /\ \A k \in 1 .. n : data[k].t <= a - Width <=> k <= lo(i - 1)
            /\ \A k \in 1 .. n : data[k].t <= a <=> k <= hi(i - 1)
        BY <1>2, <3>1, <3>3
      <3>5. /\ lo(i) \in 0 .. n /\ hi(i) \in 0 .. n
            /\ \A k \in 1 .. n : data[k].t <= b - Width <=> k <= lo(i)
            /\ \A k \in 1 .. n : data[k].t <= b <=> k <= hi(i)
        BY <1>2
      <3>6. \A k \in 1 .. n : (data[k].t <= a => data[k].t <= b)
                              /\ (data[k].t <= a - Width => data[k].t <= b - Width)
        BY <3>4
      <3> HIDE DEF a, b
      <3>7. lo(i - 1) <= lo(i)
        <4> SUFFICES ASSUME lo(i) < lo(i - 1) PROVE FALSE
            BY <3>4, <3>5
        <4>1. lo(i - 1) \in 1 .. n
          BY <3>4, <3>5
        <4> QED
          BY <3>4, <3>5, <3>6, <4>1
      <3>8. hi(i - 1) <= hi(i)
        <4> SUFFICES ASSUME hi(i) < hi(i - 1) PROVE FALSE
            BY <3>4, <3>5
        <4>1. hi(i - 1) \in 1 .. n
          BY <3>4, <3>5
        <4> QED
          BY <3>4, <3>5, <3>6, <4>1
      <3> HIDE DEF W
      <3> QED
        BY <3>2, <3>4, <3>5, <3>7, <3>8
    <2> QED
      BY <2>1, <2>2
  <1>6. W = [i \in 0 .. Count |-> IF i = 0 THEN zero ELSE next(i, W[i - 1])]
    <2>1. ASSUME NEW i \in 0 .. Count
          PROVE  (IF i = 0 THEN zero ELSE [lo |-> lo(i), hi |-> hi(i)])
                   = IF i = 0 THEN zero ELSE next(i, W[i - 1])
      <3>1. i = 0 \/ i \in 1 .. Count
        BY CountNat
      <3> HIDE DEF W, next
      <3> QED
        BY <1>4, <1>5, <3>1
    <2> HIDE DEF next, zero
    <2> QED
      BY <2>1
  <1>7. walk = [i \in 0 .. Count |-> IF i = 0 THEN zero ELSE next(i, walk[i - 1])]
    <2> HIDE DEF next, zero, W
    <2> QED
      BY <1>6
  <1> HIDE DEF walk
  <1> DEFINE S == {i \in 0 .. Count : walk[i] = W[i]}
  <1>8. 0 \in S
    BY <1>7, CountNat
  <1>9. ASSUME NEW i \in 1 .. Count, i - 1 \in S PROVE i \in S
    <2>1. i \in 0 .. Count /\ i # 0
      BY CountNat
    <2> HIDE DEF W, next, zero
    <2>2. walk[i] = next(i, walk[i - 1])
      BY <1>7, <2>1
    <2>3. W[i] = next(i, W[i - 1])
      BY <1>6, <2>1
    <2>4. walk[i - 1] = W[i - 1]
      BY <1>9
    <2> QED
      BY <2>1, <2>2, <2>3, <2>4
  <1>10. \A i \in 0 .. Count : i \in S
    <2> HIDE DEF S
    <2> QED
      BY <1>8, <1>9, CountNat, UptoInduction
  <1>11. ASSUME NEW i \in 1 .. Count PROVE walk[i] = [lo |-> lo(i), hi |-> hi(i)]
    <2>1. i \in 0 .. Count /\ i # 0
      BY CountNat
    <2>2. walk[i] = W[i]
      BY <1>10, <2>1
    <2> QED
      BY <2>1, <2>2
  <1>12. window_walk(data) = [i \in 1 .. Count |-> [lo |-> lo(i), hi |-> hi(i)]]
    BY <1>1, <1>11
  <1> QED
    BY <1>12 DEF lo, hi
-----------------------------------------------------------------------------
(* What a finalized state answers *)

LEMMA ValidRows ==
  ASSUME NEW R \in SUBSET Row, \A r \in R : Valid(r)
  PROVE  Valued(R) /\ \A r \in R : r.t \in Int
  BY AggregateAssumption DEF Row, Valid, Valued

\* The greatest value of a timestamp is that of the one sample standing for it.
LEMMA GreatestIs ==
  ASSUME NEW D, NEW R, Stands(D, R), Valued(D), Valued(R), NEW x \in D,
         \A y \in D : y.t = x.t => y = x
  PROVE  Greatest(R, x.t) = x.v
  <1> DEFINE Here == {q \in R : q.t = x.t}
             Values == {r.v : r \in Here}
             Top(v) == \A r \in R : r.t = x.t => ~dedup_policy(r.v, v)
  <1>1. Greatest(R, x.t) = CHOOSE v \in Values : Top(v)
    BY DEF Greatest
  <1>2. x.v \in Values
    BY DEF Stands
  <1>3. Top(x.v)
    BY DEF Stands
  <1>4. ASSUME NEW v \in Values, Top(v) PROVE v = x.v
    <2>1. PICK r \in R : r.t = x.t /\ r.v = v
      OBVIOUS
    <2>2. ~dedup_policy(v, x.v)
      BY <1>3, <2>1
    <2>3. PICK q \in R : q.t = x.t /\ q.v = x.v
      BY DEF Stands
    <2>4. ~dedup_policy(x.v, v)
      BY <1>4, <2>3
    <2>5. v \in Value /\ x.v \in Value
      BY <2>1 DEF Valued
    <2> QED
      BY <2>2, <2>4, <2>5, DedupOrder
  <1> HIDE DEF Values, Top
  <1> QED
    BY <1>1, <1>2, <1>3, <1>4

\* Of an ascending sequence no two samples share a timestamp.
LEMMA AscendingSingle ==
  ASSUME NEW d \in Seq(Sample), Ascending(d), NEW x \in Elements(d), NEW y \in Elements(d),
         x.t = y.t
  PROVE  x = y
  <1>1. PICK i \in 1 .. Len(d) : x = d[i]
    BY DEF Elements
  <1>2. PICK k \in 1 .. Len(d) : y = d[k]
    BY DEF Elements
  <1>3. d[i].t \in Int /\ d[k].t \in Int
    BY SampleFields
  <1>4. ~(i < k) /\ ~(k < i)
    BY <1>1, <1>2, <1>3 DEF Ascending
  <1>5. i = k
    BY <1>4
  <1> QED
    BY <1>1, <1>2, <1>5

\* points holds, for each grid point, the run of d its window admits.
WindowsOf(points, d) ==
  /\ DOMAIN points = 1 .. Count
  /\ \A i \in 1 .. Count :
       \E lo, hi \in 0 .. Len(d) :
         /\ DOMAIN points[i] = 1 .. hi - lo
         /\ \A k \in 1 .. hi - lo :
              /\ lo + k \in 1 .. Len(d)
              /\ points[i][k].t = d[lo + k].t /\ points[i][k].v = d[lo + k].v
         /\ \A k \in 1 .. Len(d) :
              Contains(At(i - 1), d[k].t) <=> lo < k /\ k <= hi

LEMMA PointsFacts ==
  ASSUME NEW c, NEW d \in Seq(Sample), Ascending(d), NEW pairs,
         IF d = <<>> THEN c.pages = <<>> ELSE Len(c.pages) = 1 /\ c.pages[1].data = d
  PROVE  WindowsOf(ComputeRatePoints(c, pairs), d)
  <1> DEFINE n == Len(d)
             joined(x) == [t |-> x.t, v |-> x.v, st |-> st_by_t(pairs, x.t)]
             data == [k \in DOMAIN d |-> joined(d[k])]
             ranges == window_walk(data)
             points == ComputeRatePoints(c, pairs)
             lo(i) == Reach(data, At(i - 1) - Width)
             hi(i) == Reach(data, At(i - 1))
  <1>1. n \in Nat /\ DOMAIN d = 1 .. n /\ \A k \in 1 .. n : d[k].t \in Int
    BY SampleFields
  <1>2. points = [i \in DOMAIN ranges |-> SubSeq(data, ranges[i].lo + 1, ranges[i].hi)]
    <2>1. slice(c, Min(RowTs \ {Null}), Max(RowTs \ {Null})) = d
      BY SliceWhole
    <2> QED
      BY <2>1 DEF ComputeRatePoints
  <1>3. \A k \in 1 .. n : data[k].t = d[k].t /\ data[k].v = d[k].v
    BY <1>1
  <1>4. data \in Seq({data[k] : k \in 1 .. n}) /\ Len(data) = n
    <2>1. data \in [1 .. n -> {data[k] : k \in 1 .. n}]
      <3>1. DOMAIN data = 1 .. n /\ data = [k \in 1 .. n |-> data[k]]
        BY <1>1
      <3> HIDE DEF data
      <3> QED
        BY <3>1
    <2> HIDE DEF data, n
    <2> QED
      BY <1>1, <2>1, SeqDef
  <1> HIDE DEF data, points
  <1>5. Ascending(data) /\ \A k \in 1 .. n : data[k].t \in Int
    BY <1>1, <1>3, <1>4 DEF Ascending
  <1>6. ranges = [i \in 1 .. Count |-> [lo |-> lo(i), hi |-> hi(i)]]
    <2> HIDE DEF n
    <2> QED
      BY <1>1, <1>4, <1>5, WalkFacts
  <1> HIDE DEF ranges
  <1>7. DOMAIN points = 1 .. Count
    BY <1>2, <1>6
  <1>8. ASSUME NEW i \in 1 .. Count
        PROVE  \E a, b \in 0 .. n :
                 /\ DOMAIN points[i] = 1 .. b - a
                 /\ \A k \in 1 .. b - a :
                      /\ a + k \in 1 .. n
                      /\ points[i][k].t = d[a + k].t /\ points[i][k].v = d[a + k].v
                 /\ \A k \in 1 .. n : Contains(At(i - 1), d[k].t) <=> a < k /\ k <= b
    <2> DEFINE a == lo(i)
               b == hi(i)
    <2>1. At(i - 1) \in Int /\ Width \in Int /\ At(i - 1) - Width \in Int
      BY AtInt, CountNat, GridAssumption
    <2>2. /\ a \in 0 .. n /\ \A k \in 1 .. n : data[k].t <= At(i - 1) - Width <=> k <= a
          /\ b \in 0 .. n /\ \A k \in 1 .. n : data[k].t <= At(i - 1) <=> k <= b
      <3> HIDE DEF n
      <3> QED
        BY <1>1, <1>4, <1>5, <2>1, ReachFacts
    <2>3. points[i] = SubSeq(data, a + 1, b)
      BY <1>2, <1>6
    <2> HIDE DEF a, b
    <2>4. a + 1 \in Int /\ b \in Int /\ \A k \in a + 1 .. b : k \in 1 .. n
      BY <1>1, <2>2
    <2>5. /\ \A k \in 1 .. b - (a + 1) + 1 : points[i][k] = data[(a + 1) + k - 1]
          /\ points[i] \in Seq({data[k] : k \in 1 .. n})
          /\ Len(points[i]) = IF a + 1 <= b THEN b - (a + 1) + 1 ELSE 0
      <3> DEFINE V == {data[k] : k \in 1 .. n}
      <3>1. \A k \in a + 1 .. b : data[k] \in V
        BY <2>4
      <3> HIDE DEF V, n
      <3>2. /\ \A k \in 1 .. b - (a + 1) + 1 : SubSeq(data, a + 1, b)[k] = data[(a + 1) + k - 1]
            /\ SubSeq(data, a + 1, b) \in Seq(V)
            /\ Len(SubSeq(data, a + 1, b)) = IF a + 1 <= b THEN b - (a + 1) + 1 ELSE 0
        BY <2>4, <3>1, SubSeqProperties
      <3> QED
        BY <2>3, <3>2 DEF V
    <2>6. b - (a + 1) + 1 = b - a /\ \A k \in 1 .. b - a : (a + 1) + k - 1 = a + k
      BY <2>2
    <2>7. DOMAIN points[i] = 1 .. b - a
      <3>1. DOMAIN points[i] = 1 .. Len(points[i])
        BY <2>5
      <3>2. CASE a + 1 <= b
        BY <2>5, <2>6, <3>1, <3>2
      <3>3. CASE ~(a + 1 <= b)
        <4>1. 1 .. b - a = {} /\ 1 .. 0 = {}
          BY <1>1, <2>2, <3>3
        <4> QED
          BY <2>5, <3>1, <3>3, <4>1
      <3> QED
        BY <3>2, <3>3
    <2>8. ASSUME NEW k \in 1 .. b - a
          PROVE  /\ a + k \in 1 .. n
                 /\ points[i][k].t = d[a + k].t /\ points[i][k].v = d[a + k].v
      <3>1. a + k \in 1 .. n
        BY <1>1, <2>2
      <3>2. points[i][k] = data[a + k]
        BY <2>5, <2>6
      <3> QED
        BY <1>3, <3>1, <3>2
    <2>9. ASSUME NEW k \in 1 .. n PROVE Contains(At(i - 1), d[k].t) <=> a < k /\ k <= b
      <3>1. d[k].t \in Int /\ k \in Int /\ a \in Int
        BY <1>1, <2>2
      <3>2. Contains(At(i - 1), d[k].t) <=> ~(d[k].t <= At(i - 1) - Width) /\ d[k].t <= At(i - 1)
        BY <2>1, <3>1 DEF Contains
      <3>3. (d[k].t <= At(i - 1) - Width <=> k <= a) /\ (d[k].t <= At(i - 1) <=> k <= b)
        BY <1>3, <2>2
      <3> HIDE DEF n
      <3> QED
        BY <3>1, <3>2, <3>3
    <2> QED
      BY <2>2, <2>7, <2>8, <2>9
  <1> QED
    BY <1>7, <1>8 DEF points, n, WindowsOf

\* The windows of a buffer that stands for rows R are what R determines.
LEMMA PointsExact ==
  ASSUME NEW b \in Buffer, NEW R \in SUBSET Row, \A r \in R : Valid(r),
         Stands(Content(b), R), NEW pairs
  PROVE  LET points == ComputeRatePoints(sort_dedup(b), pairs)
         IN  /\ DOMAIN points = 1 .. Count
             /\ \A i \in 1 .. Count :
                  /\ \A j, k \in DOMAIN points[i] :
                       j < k => points[i][j].t < points[i][k].t
                  /\ {<<points[i][k].t, points[i][k].v>> : k \in DOMAIN points[i]}
                       = {<<r.t, Greatest(R, r.t)>> :
                            r \in {q \in R : Contains(At(i - 1), q.t)}}
  <1> DEFINE c == sort_dedup(b)
             d == Collapsed(stable_sort(Samples(b)))
             D == Elements(d)
             points == ComputeRatePoints(c, pairs)
  <1>1. /\ d \in Seq(Sample) /\ Ascending(d) /\ Content(c) = D
        /\ Stands(Content(c), Content(b))
        /\ IF d = <<>> THEN c.pages = <<>> ELSE Len(c.pages) = 1 /\ c.pages[1].data = d
    BY SortDedupFacts
  <1> HIDE DEF c, d
  <1>2. Valued(D) /\ Valued(R) /\ Valued(Content(b))
    <2>1. Valued(Content(b))
      BY SamplesContent, SamplesValued
    <2> QED
      BY <1>1, <2>1, SamplesValued, ValidRows
  <1>3. Stands(D, R)
    <2> HIDE DEF D
    <2> QED
      BY <1>1, <1>2, StandsTransitive
  <1>4. \A x, y \in D : x.t = y.t => x = y
    BY <1>1, AscendingSingle
  <1>5. \A x \in D : Greatest(R, x.t) = x.v
    <2> HIDE DEF D
    <2> QED
      BY <1>2, <1>3, <1>4, GreatestIs
  <1>6. WindowsOf(points, d)
    BY <1>1, PointsFacts
  <1> HIDE DEF points
  <1>7. ASSUME NEW i \in 1 .. Count
        PROVE  /\ \A j, k \in DOMAIN points[i] :
                    j < k => points[i][j].t < points[i][k].t
               /\ {<<points[i][k].t, points[i][k].v>> : k \in DOMAIN points[i]}
                    = {<<r.t, Greatest(R, r.t)>> :
                         r \in {q \in R : Contains(At(i - 1), q.t)}}
    <2> DEFINE n == Len(d)
               p == points[i]
               Answered == {<<p[k].t, p[k].v>> : k \in DOMAIN p}
               Wanted == {<<r.t, Greatest(R, r.t)>> :
                            r \in {q \in R : Contains(At(i - 1), q.t)}}
    <2>1. n \in Nat /\ DOMAIN d = 1 .. n
      BY <1>1
    <2>2. PICK lo \in 0 .. n, hi \in 0 .. n :
            /\ DOMAIN p = 1 .. hi - lo
            /\ \A k \in 1 .. hi - lo :
                 lo + k \in 1 .. n /\ p[k].t = d[lo + k].t /\ p[k].v = d[lo + k].v
            /\ \A k \in 1 .. n : Contains(At(i - 1), d[k].t) <=> lo < k /\ k <= hi
      BY <1>6 DEF WindowsOf
    <2> HIDE DEF p
    <2>3. ASSUME NEW j \in DOMAIN p, NEW k \in DOMAIN p, j < k PROVE p[j].t < p[k].t
      <3>1. j \in 1 .. hi - lo /\ k \in 1 .. hi - lo
        BY <2>2
      <3>2. lo + j \in 1 .. n /\ lo + k \in 1 .. n /\ lo + j < lo + k
        BY <2>2, <2>3, <3>1
      <3>3. d[lo + j].t < d[lo + k].t
        BY <1>1, <3>2 DEF Ascending
      <3> QED
        BY <2>2, <3>1, <3>3
    <2>4. ASSUME NEW k \in DOMAIN p PROVE <<p[k].t, p[k].v>> \in Wanted
      <3>1. k \in 1 .. hi - lo /\ lo + k \in 1 .. n /\ lo < lo + k /\ lo + k <= hi
        BY <2>1, <2>2
      <3> DEFINE x == d[lo + k]
      <3>2. x \in D /\ p[k].t = x.t /\ p[k].v = x.v /\ Contains(At(i - 1), x.t)
        BY <2>1, <2>2, <3>1 DEF Elements
      <3> HIDE DEF x, D
      <3>3. PICK r \in R : x.t = r.t /\ x.v = r.v
        BY <1>3, <3>2 DEF Stands
      <3>4. Greatest(R, r.t) = x.v
        BY <1>5, <3>2, <3>3
      <3> QED
        BY <3>2, <3>3, <3>4
    <2>5. ASSUME NEW r \in R, Contains(At(i - 1), r.t)
          PROVE  <<r.t, Greatest(R, r.t)>> \in Answered
      <3>1. PICK x \in D : x.t = r.t
        BY <1>3 DEF Stands
      <3>2. PICK m \in 1 .. n : x = d[m]
        BY <2>1, <3>1 DEF Elements
      <3>3. lo < m /\ m <= hi
        BY <2>2, <2>5, <3>1, <3>2
      <3>4. m - lo \in 1 .. hi - lo /\ lo + (m - lo) = m
        BY <2>1, <2>2, <3>3
      <3>5. p[m - lo].t = x.t /\ p[m - lo].v = x.v
        BY <2>2, <3>2, <3>4
      <3>6. Greatest(R, r.t) = x.v
        BY <1>5, <3>1
      <3> HIDE DEF D
      <3> QED
        BY <2>2, <3>1, <3>4, <3>5, <3>6
    <2>6. Answered = Wanted
      BY <2>4, <2>5
    <2> QED
      BY <2>3, <2>6 DEF p
  <1> QED
    BY <1>6, <1>7 DEF points, c, WindowsOf
-----------------------------------------------------------------------------
(* The inductive invariant *)

Pairs == Seq((RowTs \ {Null}) \X (RowSt \ {Null}))

PayloadType == [buffer : Buffer, st_pairs : Pairs, freed : BOOLEAN]

TypeInv ==
  /\ payload \in [Slot -> 0 .. Len(heap)]
  /\ heap \in Seq(PayloadType)
  /\ state \in [Slot -> {"live", "spent", "destroyed"}]
  /\ ending \in BOOLEAN
  /\ covered \in [Slot -> SUBSET Row]

\* A payload is somebody's until it is freed, and only one slot's.
OwnInv ==
  /\ \A s \in Slot : state[s] = "destroyed" => payload[s] = 0
  /\ \A s \in Slot : payload[s] # 0 => ~heap[payload[s]].freed
  /\ \A s, u \in Slot : payload[s] # 0 /\ payload[s] = payload[u] => s = u
  /\ \A p \in 1 .. Len(heap) : ~heap[p].freed => \E s \in Slot : payload[s] = p
  /\ \A p \in 1 .. Len(heap) : heap[p].freed => heap[p].buffer.bytes = 0

\* A live slot has a payload once it stands for a row, and what its buffer
\* holds stands for its rows.
CoverInv ==
  \A s \in Slot :
    /\ \A r \in covered[s] : Valid(r)
    /\ state[s] = "live" =>
         /\ payload[s] = 0 <=> covered[s] = {}
         /\ payload[s] # 0 => Stands(Content(heap[payload[s]].buffer), covered[s])

IInv == TypeInv /\ OwnInv /\ CoverInv
LEMMA PayloadFields ==
  \A x \in PayloadType : x.buffer \in Buffer /\ x.st_pairs \in Pairs /\ x.freed \in BOOLEAN
  BY DEF PayloadType

LEMMA HeapFields ==
  ASSUME TypeInv, NEW p \in 1 .. Len(heap)
  PROVE  /\ heap[p] \in PayloadType /\ heap[p].buffer \in Buffer
         /\ heap[p].st_pairs \in Pairs /\ heap[p].freed \in BOOLEAN
  BY PayloadFields DEF TypeInv

LEMMA NewPayload ==
  /\ RatePayload \in PayloadType
  /\ RatePayload.buffer = EmptyBuffer /\ RatePayload.freed = FALSE
  /\ RatePayload.st_pairs = <<>>
  BY EmptyBufferIsBuffer DEF RatePayload, PayloadType, Pairs

\* A heap with the buffer and the pairs of one payload replaced.
Written(h, o, buffer, pairs) == [h EXCEPT ![o].buffer = buffer, ![o].st_pairs = pairs]

LEMMA WrittenFacts ==
  ASSUME NEW h \in Seq(PayloadType), NEW o \in 1 .. Len(h), NEW buffer \in Buffer,
         NEW pairs \in Pairs
  PROVE  LET w == Written(h, o, buffer, pairs)
         IN  /\ w \in Seq(PayloadType) /\ Len(w) = Len(h)
             /\ w[o].buffer = buffer /\ w[o].freed = h[o].freed
             /\ \A q \in 1 .. Len(h) : q # o => w[q] = h[q]
  <1> DEFINE w == Written(h, o, buffer, pairs)
             x == [[h[o] EXCEPT !.buffer = buffer] EXCEPT !.st_pairs = pairs]
  <1>1. h[o] \in PayloadType
    OBVIOUS
  <1>2. x \in PayloadType /\ x.buffer = buffer /\ x.freed = h[o].freed
    BY <1>1 DEF PayloadType
  <1>3. w = [h EXCEPT ![o] = x]
    <2> DEFINE first == [h EXCEPT ![o].buffer = buffer]
    <2>1. w = [first EXCEPT ![o].st_pairs = pairs]
      BY DEF Written
    <2>2. first = [h EXCEPT ![o] = [h[o] EXCEPT !.buffer = buffer]]
      OBVIOUS
    <2>3. DOMAIN h = 1 .. Len(h)
      OBVIOUS
    <2> HIDE DEF w
    <2>4. /\ DOMAIN first = 1 .. Len(h) /\ first[o] = [h[o] EXCEPT !.buffer = buffer]
          /\ \A q \in 1 .. Len(h) : q # o => first[q] = h[q]
          /\ first = [q \in 1 .. Len(h) |-> first[q]]
      BY <2>2, <2>3
    <2> HIDE DEF first
    <2>5. w = [first EXCEPT ![o] = [first[o] EXCEPT !.st_pairs = pairs]]
      BY <2>1
    <2>6. [first[o] EXCEPT !.st_pairs = pairs] = x
      BY <2>4
    <2> HIDE DEF x
    <2>7. \A q \in 1 .. Len(h) : [first EXCEPT ![o] = x][q] = [h EXCEPT ![o] = x][q]
      BY <2>3, <2>4
    <2> QED
      BY <2>3, <2>4, <2>5, <2>6, <2>7
  <1> HIDE DEF w, x
  <1>4. /\ w \in Seq(PayloadType) /\ Len(w) = Len(h) /\ w[o] = x
        /\ \A q \in 1 .. Len(h) : q # o => w[q] = h[q]
    BY <1>2, <1>3, ExceptSeq
  <1> QED
    BY <1>2, <1>4 DEF w

\* The payload a slot writes to is its own: one made now, or the one it had.
LEMMA MadeFacts ==
  ASSUME TypeInv, OwnInv, NEW s \in Slot
  PROVE  /\ Made(s) \in Seq(PayloadType) /\ Owned(s) \in 1 .. Len(Made(s))
         /\ Owned(s) # 0 /\ ~Made(s)[Owned(s)].freed
         /\ Len(heap) <= Len(Made(s))
         /\ \A q \in 1 .. Len(heap) : Made(s)[q] = heap[q]
         /\ \A q \in 1 .. Len(Made(s)) : q \in 1 .. Len(heap) \/ q = Owned(s)
         /\ \A u \in Slot : u # s => payload[u] # Owned(s)
         /\ IF payload[s] = 0 THEN Content(Made(s)[Owned(s)].buffer) = {}
            ELSE Owned(s) = payload[s] /\ Made(s) = heap
  <1>1. heap \in Seq(PayloadType) /\ Len(heap) \in Nat
        /\ \A u \in Slot : payload[u] \in 0 .. Len(heap)
    BY DEF TypeInv
  <1>2. CASE payload[s] = 0
    <2>1. Made(s) = Append(heap, RatePayload) /\ Owned(s) = Len(heap) + 1
      BY <1>2 DEF Made, Owned
    <2> DEFINE h == Append(heap, RatePayload)
    <2>2. /\ h \in Seq(PayloadType) /\ Len(h) = Len(heap) + 1
          /\ h[Len(heap) + 1] = RatePayload
          /\ \A q \in 1 .. Len(heap) : h[q] = heap[q]
      BY <1>1, NewPayload
    <2> HIDE DEF h
    <2>3. \A q \in 1 .. Len(heap) + 1 : q \in 1 .. Len(heap) \/ q = Len(heap) + 1
      BY <1>1
    <2>4. \A u \in Slot : payload[u] # Len(heap) + 1
      BY <1>1
    <2>5. Len(heap) + 1 \in 1 .. Len(heap) + 1 /\ Len(heap) <= Len(heap) + 1
          /\ Len(heap) + 1 # 0
      BY <1>1
    <2> QED
      BY <1>2, <2>1, <2>2, <2>3, <2>4, <2>5, NewPayload, EmptyBufferIsBuffer DEF h
  <1>3. CASE payload[s] # 0
    <2>1. Made(s) = heap /\ Owned(s) = payload[s]
      BY <1>3 DEF Made, Owned
    <2>2. payload[s] \in 1 .. Len(heap)
      BY <1>1, <1>3
    <2>3. ~heap[payload[s]].freed /\ \A u \in Slot : u # s => payload[u] # payload[s]
      BY <1>3 DEF OwnInv
    <2> QED
      BY <1>1, <1>3, <2>1, <2>2, <2>3
  <1> QED
    BY <1>2, <1>3

\* What a slot that writes to its payload leaves.
Filled(s, buffer, h, p) ==
  /\ h \in Seq(PayloadType) /\ Len(heap) <= Len(h) /\ Owned(s) \in 1 .. Len(h)
  /\ h[Owned(s)].buffer = buffer /\ ~h[Owned(s)].freed
  /\ \A q \in 1 .. Len(heap) : q # Owned(s) => h[q] = heap[q]
  /\ \A q \in 1 .. Len(h) : q \in 1 .. Len(heap) \/ q = Owned(s)
  /\ p = [payload EXCEPT ![s] = Owned(s)]

LEMMA FilledFacts ==
  ASSUME TypeInv, OwnInv, NEW s \in Slot, NEW buffer \in Buffer, NEW pairs \in Pairs,
         NEW h, NEW p, h = Written(Made(s), Owned(s), buffer, pairs),
         p = [payload EXCEPT ![s] = Owned(s)]
  PROVE  Filled(s, buffer, h, p)
  <1> DEFINE m == Made(s)
             o == Owned(s)
  <1>1. /\ m \in Seq(PayloadType) /\ o \in 1 .. Len(m) /\ ~m[o].freed
        /\ Len(heap) <= Len(m)
        /\ \A q \in 1 .. Len(heap) : m[q] = heap[q]
        /\ \A q \in 1 .. Len(m) : q \in 1 .. Len(heap) \/ q = o
    BY MadeFacts
  <1> HIDE DEF m, o
  <1>2. h = Written(m, o, buffer, pairs)
    BY DEF m, o
  <1>3. /\ h \in Seq(PayloadType) /\ Len(h) = Len(m)
        /\ h[o].buffer = buffer /\ h[o].freed = m[o].freed
        /\ \A q \in 1 .. Len(m) : q # o => h[q] = m[q]
    BY <1>1, <1>2, WrittenFacts
  <1>4. \A q \in 1 .. Len(heap) : q \in 1 .. Len(m)
    <2>1. Len(heap) \in Nat /\ Len(m) \in Nat
      BY <1>1 DEF TypeInv
    <2> QED
      BY <1>1, <2>1
  <1> QED
    BY <1>1, <1>3, <1>4 DEF Filled, o

LEMMA FilledInv ==
  ASSUME TypeInv, OwnInv, NEW s \in Slot, NEW buffer \in Buffer,
         Filled(s, buffer, heap', payload'), state[s] = "live",
         state' \in [Slot -> {"live", "spent", "destroyed"}],
         \A u \in Slot : state'[u] = "destroyed" => state[u] = "destroyed",
         covered' \in [Slot -> SUBSET Row], UNCHANGED ending
  PROVE  TypeInv' /\ OwnInv'
  <1> DEFINE o == Owned(s)
  <1>1. /\ payload \in [Slot -> 0 .. Len(heap)] /\ Len(heap) \in Nat
        /\ \A u \in Slot : u # s => payload[u] # o
        /\ o # 0
    BY MadeFacts DEF TypeInv
  <1>2. /\ heap' \in Seq(PayloadType) /\ Len(heap') \in Nat /\ Len(heap) <= Len(heap')
        /\ o \in 1 .. Len(heap')
        /\ heap'[o].buffer = buffer /\ ~heap'[o].freed
        /\ \A q \in 1 .. Len(heap) : q # o => heap'[q] = heap[q]
        /\ \A q \in 1 .. Len(heap') : q \in 1 .. Len(heap) \/ q = o
        /\ payload' = [payload EXCEPT ![s] = o]
    BY DEF Filled
  <1>3. payload'[s] = o /\ \A u \in Slot : u # s => payload'[u] = payload[u]
    BY <1>1, <1>2
  <1> HIDE DEF o
  <1>4. ASSUME NEW u \in Slot PROVE payload'[u] \in 0 .. Len(heap')
    <2>1. CASE u = s
      BY <1>2, <1>3, <2>1
    <2>2. CASE u # s
      <3>1. payload[u] \in 0 .. Len(heap)
        BY <1>1
      <3> QED
        BY <1>1, <1>2, <1>3, <2>2, <3>1
    <2> QED
      BY <2>1, <2>2
  <1>5. TypeInv'
    <2>1. payload' \in [Slot -> 0 .. Len(heap')]
      BY <1>1, <1>2, <1>4
    <2> QED
      BY <1>2, <2>1 DEF TypeInv
  <1>6. ASSUME NEW u \in Slot, u # s, payload[u] # 0
        PROVE  payload[u] \in 1 .. Len(heap) /\ heap'[payload[u]] = heap[payload[u]]
    <2>1. payload[u] \in 1 .. Len(heap)
      BY <1>1, <1>6
    <2> QED
      BY <1>1, <1>2, <1>6, <2>1
  <1>7. OwnInv'
    <2>1. ASSUME NEW u \in Slot, state'[u] = "destroyed" PROVE payload'[u] = 0
      <3>1. state[u] = "destroyed" /\ u # s
        BY <2>1
      <3> QED
        BY <1>3, <3>1 DEF OwnInv
    <2>2. ASSUME NEW u \in Slot, payload'[u] # 0 PROVE ~heap'[payload'[u]].freed
      <3>1. CASE u = s
        BY <1>2, <1>3, <3>1
      <3>2. CASE u # s
        BY <1>3, <1>6, <2>2, <3>2 DEF OwnInv
      <3> QED
        BY <3>1, <3>2
    <2>3. ASSUME NEW u \in Slot, NEW w \in Slot, payload'[u] # 0, payload'[u] = payload'[w]
          PROVE  u = w
      <3>1. CASE u = s /\ w # s
        BY <1>1, <1>3, <2>3, <3>1
      <3>2. CASE u # s /\ w = s
        BY <1>1, <1>3, <2>3, <3>2
      <3>3. CASE u # s /\ w # s
        BY <1>3, <2>3, <3>3 DEF OwnInv
      <3> QED
        BY <3>1, <3>2, <3>3
    <2>4. ASSUME NEW q \in 1 .. Len(heap')
          PROVE  /\ ~heap'[q].freed => \E u \in Slot : payload'[u] = q
                 /\ heap'[q].freed => heap'[q].buffer.bytes = 0
      <3>1. CASE q = o
        BY <1>2, <1>3, <3>1
      <3>2. CASE q # o
        <4>1. q \in 1 .. Len(heap) /\ heap'[q] = heap[q]
          BY <1>2, <3>2
        <4>2. ASSUME ~heap[q].freed PROVE \E u \in Slot : payload'[u] = q
          <5>1. PICK u \in Slot : payload[u] = q
            BY <4>1, <4>2 DEF OwnInv
          <5>2. u # s
            <6> SUFFICES ASSUME u = s PROVE FALSE
                OBVIOUS
            <6>1. payload[s] # 0
              BY <4>1, <5>1
            <6>2. o = payload[s]
              BY <6>1 DEF o, Owned
            <6> QED
              BY <3>2, <5>1, <6>2
          <5> QED
            BY <1>3, <5>1, <5>2
        <4> QED
          BY <4>1, <4>2 DEF OwnInv
      <3> QED
        BY <3>1, <3>2
    <2> QED
      BY <2>1, <2>2, <2>3, <2>4 DEF OwnInv
  <1> QED
    BY <1>5, <1>7

\* What the other slots stand for is untouched.
LEMMA FilledOthers ==
  ASSUME TypeInv, OwnInv, CoverInv, NEW s \in Slot, NEW buffer \in Buffer,
         Filled(s, buffer, heap', payload'), NEW u \in Slot, u # s,
         state'[u] = "live" => state[u] = "live", covered'[u] = covered[u]
  PROVE  /\ \A r \in covered'[u] : Valid(r)
         /\ state'[u] = "live" =>
              /\ payload'[u] = 0 <=> covered'[u] = {}
              /\ payload'[u] # 0 =>
                   Stands(Content(heap'[payload'[u]].buffer), covered'[u])
  <1>1. payload'[u] = payload[u]
    BY DEF Filled, TypeInv
  <1>2. ASSUME payload[u] # 0 PROVE heap'[payload[u]] = heap[payload[u]]
    <2>1. payload[u] \in 1 .. Len(heap) /\ payload[u] # Owned(s)
      BY <1>2, MadeFacts DEF TypeInv
    <2> QED
      BY <2>1 DEF Filled
  <1> QED
    BY <1>1, <1>2 DEF CoverInv
-----------------------------------------------------------------------------
(* The steps *)

LEMMA OwnStands ==
  ASSUME TypeInv, OwnInv, CoverInv, NEW s \in Slot, state[s] = "live"
  PROVE  Stands(Content(Made(s)[Owned(s)].buffer), covered[s])
  <1>1. CASE payload[s] = 0
    <2>1. Content(Made(s)[Owned(s)].buffer) = {} /\ covered[s] = {}
      BY <1>1, MadeFacts DEF CoverInv
    <2> QED
      BY <2>1 DEF Stands
  <1>2. CASE payload[s] # 0
    <2>1. Owned(s) = payload[s] /\ Made(s) = heap
      BY <1>2, MadeFacts
    <2> QED
      BY <1>2, <2>1 DEF CoverInv
  <1> QED
    BY <1>1, <1>2

LEMMA OwnBuffer ==
  ASSUME TypeInv, OwnInv, NEW s \in Slot
  PROVE  Made(s)[Owned(s)].buffer \in Buffer /\ Made(s)[Owned(s)].st_pairs \in Pairs
  <1>1. Made(s)[Owned(s)] \in PayloadType
    BY MadeFacts
  <1> QED
    BY <1>1, PayloadFields

\* A slot that fills its payload and comes to stand for more rows.
LEMMA FilledCover ==
  ASSUME IInv, NEW s \in Slot, NEW buffer \in Buffer, NEW rows,
         Filled(s, buffer, heap', payload'), state[s] = "live",
         \A u \in Slot : state'[u] = "live" => state[u] = "live",
         covered' = [covered EXCEPT ![s] = rows],
         rows # {}, \A r \in rows : Valid(r), Stands(Content(buffer), rows)
  PROVE  CoverInv'
  <1> USE DEF IInv
  <1>1. covered'[s] = rows /\ \A u \in Slot : u # s => covered'[u] = covered[u]
    BY DEF TypeInv
  <1>2. payload'[s] = Owned(s) /\ Owned(s) # 0 /\ heap'[Owned(s)].buffer = buffer
    BY MadeFacts DEF Filled, TypeInv
  <1>3. ASSUME NEW u \in Slot
        PROVE  /\ \A r \in covered'[u] : Valid(r)
               /\ state'[u] = "live" =>
                    /\ payload'[u] = 0 <=> covered'[u] = {}
                    /\ payload'[u] # 0 =>
                         Stands(Content(heap'[payload'[u]].buffer), covered'[u])
    <2>1. CASE u = s
      BY <1>1, <1>2, <2>1
    <2>2. CASE u # s
      BY <1>1, <2>2, FilledOthers
    <2> QED
      BY <2>1, <2>2
  <1> QED
    BY <1>3 DEF CoverInv

LEMMA UpdateStep ==
  ASSUME IInv, NEW s \in Slot, NEW r \in Row, Update(s, r)
  PROVE  IInv'
  <1> USE DEF IInv
  <1>1. state[s] = "live" /\ UNCHANGED <<state, ending>>
    BY DEF Update, Usable
  <1>2. CASE ~Valid(r)
    <2>1. UNCHANGED <<payload, heap, covered>>
      BY <1>2 DEF Update
    <2>2. TypeInv'
      BY <1>1, <2>1 DEF TypeInv
    <2>3. OwnInv'
      BY <1>1, <2>1 DEF OwnInv
    <2>4. CoverInv'
      BY <1>1, <2>1 DEF CoverInv
    <2> QED
      BY <2>2, <2>3, <2>4
  <1>3. CASE Valid(r)
    <2> DEFINE m == Made(s)
               o == Owned(s)
               x == [t |-> r.t, v |-> r.v]
               buffer == push(m[o].buffer, x)
               pairs == IF HasSt /\ r.st # Null
                        THEN Append(m[o].st_pairs, <<r.t, r.st>>) ELSE m[o].st_pairs
               rows == covered[s] \union {r}
    <2>1. /\ payload' = [payload EXCEPT ![s] = o]
          /\ heap' = [m EXCEPT ![o].buffer = push(@, [t |-> r.t, v |-> r.v]),
                               ![o].st_pairs =
                                  IF HasSt /\ r.st # Null THEN Append(@, <<r.t, r.st>>) ELSE @]
          /\ covered' = [covered EXCEPT ![s] = rows]
      BY <1>3 DEF Update
    <2>2. x \in Sample
      BY <1>3 DEF Sample, Row, Valid
    <2>3. m[o].buffer \in Buffer /\ m[o].st_pairs \in Pairs
      BY OwnBuffer
    <2>4. m \in Seq(PayloadType) /\ o \in 1 .. Len(m) /\ m[o] \in PayloadType
      BY MadeFacts
    <2> HIDE DEF m, o
    <2>5. buffer \in Buffer /\ Content(buffer) = Content(m[o].buffer) \union {x}
      <3> HIDE DEF x
      <3> QED
        BY <2>2, <2>3, PushBuffer
    <2>6. pairs \in Pairs
      <3>1. ASSUME r.st # Null
            PROVE  <<r.t, r.st>> \in (RowTs \ {Null}) \X (RowSt \ {Null})
        BY <1>3, <3>1 DEF Row, Valid
      <3> QED
        BY <2>3, <3>1 DEF Pairs
    <2>7. heap' = Written(m, o, buffer, pairs)
      <3>1. [m EXCEPT ![o].buffer = buffer][o].st_pairs = m[o].st_pairs
        BY <2>4 DEF PayloadType
      <3> QED
        BY <2>1, <2>4, <3>1 DEF Written
    <2> HIDE DEF buffer, pairs, rows
    <2>8. Filled(s, buffer, heap', payload')
      BY <2>1, <2>5, <2>6, <2>7, FilledFacts DEF m, o
    <2>9. covered' \in [Slot -> SUBSET Row] /\ rows # {} /\ \A q \in rows : Valid(q)
      BY <1>3, <2>1 DEF TypeInv, CoverInv, rows
    <2>10. Stands(Content(buffer), rows)
      <3>1. Stands({x}, {r})
        <4>1. x.t = r.t /\ x.v = r.v /\ x.v \in Value
          BY <2>2, SampleFields
        <4> HIDE DEF x
        <4> QED
          BY <4>1, DedupOrder DEF Stands
      <3>2. Stands(Content(m[o].buffer), covered[s])
        BY <1>1, OwnStands DEF m, o
      <3> QED
        BY <2>5, <3>1, <3>2, StandsUnion DEF rows
    <2>11. TypeInv' /\ OwnInv'
      BY <1>1, <2>5, <2>8, <2>9, FilledInv DEF TypeInv
    <2>12. CoverInv'
      BY <1>1, <2>1, <2>5, <2>8, <2>9, <2>10, FilledCover
    <2> QED
      BY <2>11, <2>12
  <1> QED
    BY <1>2, <1>3

LEMMA CombineStep ==
  ASSUME IInv, NEW source \in Slot, NEW target \in Slot, NEW destructive \in BOOLEAN,
         Combine(source, target, destructive)
  PROVE  IInv'
  <1> USE DEF IInv
  <1>1. /\ source # target /\ state[source] = "live" /\ state[target] = "live"
        /\ UNCHANGED ending
        /\ covered' = [covered EXCEPT ![target] = @ \union covered[source]]
        /\ state' = IF destructive THEN [state EXCEPT ![source] = "spent"] ELSE state
    BY DEF Combine, Usable
  <1>2. /\ state' \in [Slot -> {"live", "spent", "destroyed"}]
        /\ \A u \in Slot : state'[u] = "destroyed" => state[u] = "destroyed"
        /\ \A u \in Slot : state'[u] = "live" => state[u] = "live"
        /\ destructive => state'[source] = "spent"
    BY <1>1 DEF TypeInv
  <1>3. /\ covered' \in [Slot -> SUBSET Row]
        /\ covered'[target] = covered[target] \union covered[source]
        /\ \A u \in Slot : u # target => covered'[u] = covered[u]
        /\ \A r \in covered[target] \union covered[source] : Valid(r)
    BY <1>1 DEF TypeInv, CoverInv
  <1>4. CASE payload[source] = 0
    <2>1. UNCHANGED <<payload, heap>>
      BY <1>4 DEF Combine
    <2>2. covered[source] = {}
      BY <1>1, <1>4 DEF CoverInv
    <2>3. \A u \in Slot : covered'[u] = covered[u]
      BY <1>3, <2>2
    <2>4. TypeInv'
      BY <1>1, <1>2, <1>3, <2>1 DEF TypeInv
    <2>5. OwnInv'
      BY <1>2, <2>1 DEF OwnInv
    <2>6. CoverInv'
      BY <1>2, <2>1, <2>3 DEF CoverInv
    <2> QED
      BY <2>4, <2>5, <2>6
  <1>5. CASE payload[source] # 0 /\ payload[target] = 0 /\ destructive
    <2> DEFINE o == payload[source]
    <2>1. /\ payload' = [payload EXCEPT ![target] = payload[source], ![source] = 0]
          /\ UNCHANGED heap
      BY <1>5 DEF Combine, CombinePayload
    <2>2. /\ payload'[target] = o /\ payload'[source] = 0
          /\ \A u \in Slot : u # target /\ u # source => payload'[u] = payload[u]
          /\ payload' \in [Slot -> 0 .. Len(heap)]
      <3>1. /\ payload \in [Slot -> 0 .. Len(heap)] /\ 0 \in 0 .. Len(heap)
            /\ o \in 0 .. Len(heap)
        BY DEF TypeInv
      <3> HIDE DEF o
      <3>2. payload' = [payload EXCEPT ![target] = o, ![source] = 0]
        BY <2>1 DEF o
      <3> HIDE DEF IInv
      <3> QED
        BY <1>1, <3>1, <3>2
    <2>3. TypeInv'
      BY <1>1, <1>2, <1>3, <2>1, <2>2 DEF TypeInv
    <2>4. OwnInv'
      <3>1. ASSUME NEW u \in Slot, state'[u] = "destroyed" PROVE payload'[u] = 0
        <4>1. state[u] = "destroyed" /\ u # target /\ u # source
          BY <1>1, <1>2, <3>1
        <4> QED
          BY <2>2, <4>1 DEF OwnInv
      <3>2. ASSUME NEW u \in Slot, payload'[u] # 0 PROVE ~heap[payload'[u]].freed
        <4>1. u # source
          BY <2>2, <3>2
        <4>2. CASE u = target
          BY <1>5, <2>2, <4>2 DEF OwnInv
        <4>3. CASE u # target
          BY <2>2, <3>2, <4>1, <4>3 DEF OwnInv
        <4> QED
          BY <4>2, <4>3
      <3>3. ASSUME NEW u \in Slot, NEW w \in Slot, payload'[u] # 0, payload'[u] = payload'[w]
            PROVE  u = w
        <4>1. u # source /\ w # source
          BY <2>2, <3>3
        <4>2. CASE u = target /\ w # target
          <5>1. payload[w] = payload[source] /\ payload[w] # 0
            BY <2>2, <3>3, <4>1, <4>2
          <5> QED
            BY <4>1, <5>1 DEF OwnInv
        <4>3. CASE u # target /\ w = target
          <5>1. payload[u] = payload[source] /\ payload[u] # 0
            BY <2>2, <3>3, <4>1, <4>3
          <5> QED
            BY <4>1, <5>1 DEF OwnInv
        <4>4. CASE u # target /\ w # target
          BY <2>2, <3>3, <4>1, <4>4 DEF OwnInv
        <4> QED
          BY <4>2, <4>3, <4>4
      <3>4. ASSUME NEW p \in 1 .. Len(heap), ~heap[p].freed
            PROVE  \E u \in Slot : payload'[u] = p
        <4>1. PICK u \in Slot : payload[u] = p
          BY <3>4 DEF OwnInv
        <4>2. CASE u = source
          BY <2>2, <4>1, <4>2
        <4>3. CASE u # source
          BY <1>5, <2>2, <4>1, <4>3
        <4> QED
          BY <4>2, <4>3
      <3> QED
        BY <2>1, <3>1, <3>2, <3>3, <3>4 DEF OwnInv
    <2>5. CoverInv'
      <3> SUFFICES ASSUME NEW u \in Slot
                   PROVE  /\ \A r \in covered'[u] : Valid(r)
                          /\ state'[u] = "live" =>
                               /\ payload'[u] = 0 <=> covered'[u] = {}
                               /\ payload'[u] # 0 =>
                                    Stands(Content(heap[payload'[u]].buffer), covered'[u])
          BY <2>1 DEF CoverInv
      <3>1. CASE u = target
        <4>1. covered[target] = {} /\ covered[source] # {}
          BY <1>1, <1>5 DEF CoverInv
        <4>2. covered'[u] = covered[source] /\ payload'[u] = payload[source]
          BY <1>3, <2>2, <3>1, <4>1
        <4> QED
          BY <1>1, <1>5, <4>1, <4>2 DEF CoverInv
      <3>2. CASE u = source
        BY <1>1, <1>2, <1>3, <1>5, <3>2
      <3>3. CASE u # source /\ u # target
        BY <1>2, <1>3, <2>2, <3>3 DEF CoverInv
      <3> QED
        BY <3>1, <3>2, <3>3
    <2> QED
      BY <2>3, <2>4, <2>5
  <1>6. CASE payload[source] # 0 /\ ~(payload[target] = 0 /\ destructive)
    <2> DEFINE m == Made(target)
               o == Owned(target)
               other == heap[payload[source]]
               buffer == merge(m[o].buffer, other.buffer)
               pairs == m[o].st_pairs \o other.st_pairs
               rows == covered[target] \union covered[source]
    <2>1. /\ payload' = [payload EXCEPT ![target] = o]
          /\ heap' = [m EXCEPT ![o].buffer = merge(@, heap[payload[source]].buffer),
                               ![o].st_pairs = @ \o heap[payload[source]].st_pairs]
      BY <1>6 DEF Combine, CombinePayload
    <2>2. m[o].buffer \in Buffer /\ m[o].st_pairs \in Pairs
      BY OwnBuffer
    <2>3. m \in Seq(PayloadType) /\ o \in 1 .. Len(m) /\ m[o] \in PayloadType
      BY MadeFacts
    <2>4. other.buffer \in Buffer /\ other.st_pairs \in Pairs
      <3>1. payload[source] \in 1 .. Len(heap)
        BY <1>6 DEF TypeInv
      <3> QED
        BY <3>1, HeapFields
    <2> HIDE DEF m, o
    <2>5. /\ buffer \in Buffer
          /\ Content(buffer) = Content(m[o].buffer) \union Content(other.buffer)
      BY <2>2, <2>4, MergeBuffer
    <2>6. pairs \in Pairs
      BY <2>2, <2>4, ConcatProperties DEF Pairs
    <2>7. heap' = Written(m, o, buffer, pairs)
      <3>1. [m EXCEPT ![o].buffer = buffer][o].st_pairs = m[o].st_pairs
        BY <2>3 DEF PayloadType
      <3> QED
        BY <2>1, <2>3, <3>1 DEF Written
    <2> HIDE DEF buffer, pairs
    <2>8. Filled(target, buffer, heap', payload')
      BY <2>1, <2>5, <2>6, <2>7, FilledFacts DEF m, o
    <2>9. rows # {}
      BY <1>1, <1>6 DEF CoverInv
    <2>10. Stands(Content(buffer), rows)
      <3>1. Stands(Content(m[o].buffer), covered[target])
        BY <1>1, OwnStands DEF m, o
      <3>2. Stands(Content(other.buffer), covered[source])
        BY <1>1, <1>6 DEF CoverInv
      <3> QED
        BY <2>5, <3>1, <3>2, StandsUnion
    <2>11. TypeInv' /\ OwnInv'
      BY <1>1, <1>2, <1>3, <2>5, <2>8, FilledInv
    <2>12. covered' = [covered EXCEPT ![target] = rows] /\ \A r \in rows : Valid(r)
      BY <1>1, <1>3
    <2> HIDE DEF rows
    <2>13. CoverInv'
      BY <1>1, <1>2, <2>5, <2>8, <2>9, <2>10, <2>12, FilledCover
    <2> QED
      BY <2>11, <2>13
  <1> QED
    BY <1>4, <1>5, <1>6
LEMMA FinalizeStep ==
  ASSUME IInv, NEW s \in Slot, Finalize(s)
  PROVE  IInv' /\ FinalizeExact'
  <1> USE DEF IInv
  <1>1. state[s] = "live" /\ UNCHANGED <<payload, state, ending, covered>>
    BY DEF Finalize, Usable
  <1>2. CASE payload[s] = 0
    <2>1. answer' = [rows |-> covered[s], points |-> Null] /\ UNCHANGED heap
      BY <1>2 DEF Finalize
    <2>2. TypeInv'
      BY <1>1, <2>1 DEF TypeInv
    <2>3. OwnInv'
      BY <1>1, <2>1 DEF OwnInv
    <2>4. CoverInv'
      BY <1>1, <2>1 DEF CoverInv
    <2>5. covered[s] = {}
      BY <1>1, <1>2 DEF CoverInv
    <2>6. answer'.rows = {} /\ answer'.points = Null
      BY <2>1, <2>5
    <2>7. FinalizeExact'
      BY <2>6 DEF FinalizeExact
    <2> QED
      BY <2>2, <2>3, <2>4, <2>7
  <1>3. CASE payload[s] # 0
    <2> DEFINE p == payload[s]
               b == heap[p].buffer
               sorted == sort_dedup(b)
               pairs == heap[p].st_pairs
               points == ComputeRatePoints(sorted, pairs)
               R == covered[s]
    <2>1. /\ heap' = [heap EXCEPT ![p].buffer = sorted]
          /\ answer' = [rows |-> R, points |-> points]
      BY <1>3 DEF Finalize
    <2>2. p \in 1 .. Len(heap) /\ ~heap[p].freed
      BY <1>3 DEF TypeInv, OwnInv
    <2>3. heap[p] \in PayloadType /\ b \in Buffer
      BY <2>2, HeapFields
    <2>4. sorted \in Buffer /\ Stands(Content(sorted), Content(b))
      <3> HIDE DEF b
      <3> QED
        BY <2>3, SortDedupFacts
    <2>5. R \in SUBSET Row /\ R # {} /\ (\A r \in R : Valid(r)) /\ Stands(Content(b), R)
      BY <1>1, <1>3 DEF CoverInv, TypeInv
    <2>6. Stands(Content(sorted), R)
      <3> HIDE DEF sorted, b, R
      <3>1. Valued(Content(sorted)) /\ Valued(Content(b)) /\ Valued(R)
        BY <2>3, <2>4, <2>5, SamplesContent, SamplesValued, ValidRows
      <3> QED
        BY <2>4, <2>5, <3>1, StandsTransitive
    <2>7. Owned(s) = p
      BY <1>3 DEF Owned
    <2>8. Filled(s, sorted, heap', payload')
      <3> DEFINE x == [heap[p] EXCEPT !.buffer = sorted]
      <3> HIDE DEF sorted
      <3>1. x \in PayloadType /\ x.buffer = sorted /\ x.freed = heap[p].freed
        BY <2>3, <2>4 DEF PayloadType
      <3>2. heap' = [heap EXCEPT ![p] = x]
        BY <2>1
      <3> HIDE DEF x, p
      <3>3. /\ heap' \in Seq(PayloadType) /\ Len(heap') = Len(heap) /\ heap'[p] = x
            /\ \A q \in 1 .. Len(heap) : q # p => heap'[q] = heap[q]
            /\ Len(heap) \in Nat
        BY <2>2, <3>1, <3>2, ExceptSeq DEF TypeInv
      <3>4. payload' = [payload EXCEPT ![s] = p]
        BY <1>1 DEF TypeInv, p
      <3> QED
        BY <2>2, <2>7, <3>1, <3>3, <3>4 DEF Filled
    <2>9. TypeInv' /\ OwnInv'
      <3> HIDE DEF sorted
      <3> QED
        BY <1>1, <2>4, <2>8, FilledInv DEF TypeInv
    <2>10. covered' = [covered EXCEPT ![s] = R]
      BY <1>1 DEF TypeInv
    <2>11. CoverInv'
      <3> HIDE DEF sorted, R
      <3> QED
        BY <1>1, <2>4, <2>5, <2>6, <2>8, <2>10, FilledCover
    <2>12. FinalizeExact'
      <3> HIDE DEF sorted, R, b, pairs
      <3>1. /\ DOMAIN points = 1 .. Count
            /\ \A i \in 1 .. Count :
                  /\ \A j, k \in DOMAIN points[i] :
                       j < k => points[i][j].t < points[i][k].t
                  /\ {<<points[i][k].t, points[i][k].v>> : k \in DOMAIN points[i]}
                       = {<<r.t, Greatest(R, r.t)>> :
                            r \in {q \in R : Contains(At(i - 1), q.t)}}
        BY <2>3, <2>5, PointsExact DEF sorted
      <3> HIDE DEF points
      <3>2. answer'.rows = R /\ answer'.points = points
        BY <2>1
      <3> QED
        BY <2>5, <3>1, <3>2 DEF FinalizeExact
    <2> QED
      BY <2>9, <2>11, <2>12
  <1> QED
    BY <1>2, <1>3

LEMMA EndQueryStep == IInv /\ EndQuery => IInv'
  <1> SUFFICES ASSUME IInv, EndQuery PROVE IInv'
      OBVIOUS
  <1>1. ending' = TRUE /\ UNCHANGED <<payload, heap, state, covered>>
    BY DEF EndQuery
  <1>2. TypeInv'
    BY <1>1 DEF IInv, TypeInv
  <1>3. OwnInv'
    BY <1>1 DEF IInv, OwnInv
  <1>4. CoverInv'
    BY <1>1 DEF IInv, CoverInv
  <1> QED
    BY <1>2, <1>3, <1>4 DEF IInv

LEMMA DestroyStep ==
  ASSUME IInv, NEW s \in Slot, RateDestroy(s)
  PROVE  IInv'
  <1> USE DEF IInv
  <1>1. /\ state' = [state EXCEPT ![s] = "destroyed"]
        /\ UNCHANGED <<ending, covered>>
    BY DEF RateDestroy
  <1>2. /\ state' \in [Slot -> {"live", "spent", "destroyed"}]
        /\ state'[s] = "destroyed"
        /\ \A u \in Slot : u # s => state'[u] = state[u]
    BY <1>1 DEF TypeInv
  <1>3. CASE payload[s] = 0
    <2>1. UNCHANGED <<payload, heap>>
      BY <1>3 DEF RateDestroy
    <2>2. TypeInv'
      BY <1>1, <1>2, <2>1 DEF TypeInv
    <2>3. OwnInv'
      BY <1>2, <1>3, <2>1 DEF OwnInv
    <2>4. CoverInv'
      BY <1>1, <1>2, <2>1 DEF CoverInv
    <2> QED
      BY <2>2, <2>3, <2>4
  <1>4. CASE payload[s] # 0
    <2> DEFINE p == payload[s]
               released == release_all(heap[p].buffer)
               x == [buffer |-> released, st_pairs |-> <<>>, freed |-> TRUE]
    <2>1. payload' = [payload EXCEPT ![s] = 0] /\ heap' = [heap EXCEPT ![p] = x]
      BY <1>4 DEF RateDestroy
    <2>2. p \in 1 .. Len(heap) /\ heap[p] \in PayloadType /\ heap[p].buffer \in Buffer
      <3>1. p \in 1 .. Len(heap)
        BY <1>4 DEF TypeInv
      <3> QED
        BY <3>1, HeapFields
    <2>3. released \in Buffer /\ released.bytes = 0
      BY <2>2, ReleaseBuffer
    <2>4. x \in PayloadType /\ x.freed = TRUE /\ x.buffer.bytes = 0
      <3> HIDE DEF released
      <3>1. <<>> \in Pairs
        BY DEF Pairs
      <3> QED
        BY <2>3, <3>1 DEF PayloadType
    <2> HIDE DEF x
    <2>5. /\ heap' \in Seq(PayloadType) /\ Len(heap') = Len(heap) /\ heap'[p] = x
          /\ \A q \in 1 .. Len(heap) : q # p => heap'[q] = heap[q]
          /\ Len(heap) \in Nat
      <3> HIDE DEF p
      <3> QED
        BY <2>1, <2>2, <2>4, ExceptSeq DEF TypeInv
    <2>6. /\ payload \in [Slot -> 0 .. Len(heap)] /\ 0 \in 0 .. Len(heap)
      BY <2>5 DEF TypeInv
    <2>7. /\ payload' \in [Slot -> 0 .. Len(heap)] /\ payload'[s] = 0
          /\ \A u \in Slot : u # s => payload'[u] = payload[u]
      <3> HIDE DEF IInv
      <3> QED
        BY <2>1, <2>6
    <2>8. TypeInv'
      BY <1>1, <1>2, <2>5, <2>7 DEF TypeInv
    <2>9. ASSUME NEW u \in Slot, u # s, payload[u] # 0
          PROVE  payload[u] \in 1 .. Len(heap) /\ heap'[payload[u]] = heap[payload[u]]
      <3>1. payload[u] # p
        BY <2>9 DEF OwnInv
      <3>2. payload[u] \in 1 .. Len(heap)
        BY <2>6, <2>9
      <3> QED
        BY <2>5, <3>1, <3>2
    <2>10. OwnInv'
      <3>1. \A u \in Slot : state'[u] = "destroyed" => payload'[u] = 0
        BY <1>2, <2>7 DEF OwnInv
      <3>2. \A u \in Slot : payload'[u] # 0 => ~heap'[payload'[u]].freed
        BY <2>7, <2>9 DEF OwnInv
      <3>3. \A u, w \in Slot : payload'[u] # 0 /\ payload'[u] = payload'[w] => u = w
        BY <2>7 DEF OwnInv
      <3>4. ASSUME NEW q \in 1 .. Len(heap')
            PROVE  /\ ~heap'[q].freed => \E u \in Slot : payload'[u] = q
                   /\ heap'[q].freed => heap'[q].buffer.bytes = 0
        <4>1. CASE q = p
          BY <2>4, <2>5, <4>1
        <4>2. CASE q # p
          <5>1. q \in 1 .. Len(heap) /\ heap'[q] = heap[q]
            BY <2>5, <4>2
          <5>2. ASSUME ~heap[q].freed PROVE \E u \in Slot : payload'[u] = q
            <6>1. PICK u \in Slot : payload[u] = q
              BY <5>1, <5>2 DEF OwnInv
            <6> QED
              BY <2>7, <4>2, <6>1
          <5> QED
            BY <5>1, <5>2 DEF OwnInv
        <4> QED
          BY <4>1, <4>2
      <3> QED
        BY <3>1, <3>2, <3>3, <3>4 DEF OwnInv
    <2>11. CoverInv'
      <3> SUFFICES ASSUME NEW u \in Slot
                   PROVE  /\ \A r \in covered[u] : Valid(r)
                          /\ state'[u] = "live" =>
                               /\ payload'[u] = 0 <=> covered[u] = {}
                               /\ payload'[u] # 0 =>
                                    Stands(Content(heap'[payload'[u]].buffer), covered[u])
          BY <1>1 DEF CoverInv
      <3>1. CASE u = s
        BY <1>2, <3>1 DEF CoverInv
      <3>2. CASE u # s
        BY <1>2, <2>7, <2>9, <3>2 DEF CoverInv
      <3> QED
        BY <3>1, <3>2
    <2> QED
      BY <2>8, <2>10, <2>11
  <1> QED
    BY <1>3, <1>4

LEMMA IInvInit == Init => IInv
  <1> SUFFICES ASSUME Init PROVE IInv
      OBVIOUS
  <1>1. heap = <<>> /\ Len(heap) = 0 /\ heap \in Seq(PayloadType)
    BY DEF Init
  <1>2. /\ \A s \in Slot : payload[s] = 0 /\ state[s] = "live" /\ covered[s] = {}
        /\ 0 \in 0 .. Len(heap) /\ \A p \in 1 .. Len(heap) : FALSE
    BY <1>1 DEF Init
  <1>3. TypeInv
    BY <1>1, <1>2 DEF Init, TypeInv
  <1>4. OwnInv
    BY <1>2 DEF OwnInv
  <1>5. CoverInv
    BY <1>2 DEF CoverInv
  <1> QED
    BY <1>3, <1>4, <1>5 DEF IInv

LEMMA IInvStep == IInv /\ [Next]_vars => IInv'
  <1> SUFFICES ASSUME IInv, [Next]_vars PROVE IInv'
      OBVIOUS
  <1>1. ASSUME NEW s \in Slot, NEW r \in Row, Update(s, r) PROVE IInv'
    BY <1>1, UpdateStep
  <1>2. ASSUME NEW s \in Slot, NEW u \in Slot, NEW d \in BOOLEAN, Combine(s, u, d)
        PROVE  IInv'
    BY <1>2, CombineStep
  <1>3. ASSUME NEW s \in Slot, Finalize(s) PROVE IInv'
    BY <1>3, FinalizeStep
  <1>4. CASE EndQuery
    BY <1>4, EndQueryStep
  <1>5. ASSUME NEW s \in Slot, RateDestroy(s) PROVE IInv'
    BY <1>5, DestroyStep
  <1>6. CASE UNCHANGED vars
    <2>1. UNCHANGED <<payload, heap, state, ending, covered>>
      BY <1>6 DEF vars
    <2>2. TypeInv'
      BY <2>1 DEF IInv, TypeInv
    <2>3. OwnInv'
      BY <2>1 DEF IInv, OwnInv
    <2>4. CoverInv'
      BY <2>1 DEF IInv, CoverInv
    <2> QED
      BY <2>2, <2>3, <2>4 DEF IInv
  <1> QED
    BY <1>1, <1>2, <1>3, <1>4, <1>5, <1>6 DEF Next

LEMMA IInvHolds == Spec => []IInv
  <1>1. Init => IInv
    BY IInvInit
  <1>2. IInv /\ [Next]_vars => IInv'
    BY IInvStep
  <1> QED
    BY <1>1, <1>2, PTL DEF Spec

-----------------------------------------------------------------------------
(* The theorems *)

\* Every payload, page and sample is what the code's types say, no page is
\* empty and none is written past its capacity.
THEOREM TypeCorrect == Spec => []TypeOK
  <1>1. IInv => TypeOK
    <2> SUFFICES ASSUME IInv PROVE TypeOK
        OBVIOUS
    <2>1. ASSUME NEW p \in DOMAIN heap
          PROVE  /\ heap[p].freed \in BOOLEAN
                 /\ \A k \in DOMAIN heap[p].buffer.pages :
                      LET page == heap[p].buffer.pages[k]
                      IN  /\ page.capacity > 0
                          /\ Len(page.data) \in 1 .. page.capacity
                          /\ \A i \in DOMAIN page.data :
                               page.data[i].t \in RowTs \ {Null} /\ page.data[i].v \in RowValue \ {Null}
                 /\ \A k \in DOMAIN heap[p].st_pairs :
                      heap[p].st_pairs[k] \in (RowTs \ {Null}) \X (RowSt \ {Null})
      <3>1. p \in 1 .. Len(heap)
        BY DEF IInv, TypeInv
      <3>2. /\ heap[p].freed \in BOOLEAN /\ heap[p].buffer \in Buffer
            /\ heap[p].st_pairs \in Pairs
        BY <3>1, HeapFields DEF IInv
      <3>3. ASSUME NEW k \in DOMAIN heap[p].buffer.pages
            PROVE  LET page == heap[p].buffer.pages[k]
                   IN  /\ page.capacity > 0
                       /\ Len(page.data) \in 1 .. page.capacity
                       /\ \A i \in DOMAIN page.data :
                            page.data[i].t \in RowTs \ {Null} /\ page.data[i].v \in RowValue \ {Null}
        <4> DEFINE page == heap[p].buffer.pages[k]
        <4>1. page \in PageType /\ Len(page.data) \in 1 .. page.capacity
          <5> DEFINE b == heap[p].buffer
          <5>1. b \in Buffer
            BY <3>2
          <5> HIDE DEF b
          <5>2. /\ b.pages \in Seq(PageType)
                /\ \A j \in 1 .. Len(b.pages) :
                     /\ b.pages[j] \in PageType
                     /\ Len(b.pages[j].data) \in 1 .. b.pages[j].capacity
            BY <5>1, BufferFields
          <5>3. k \in 1 .. Len(b.pages)
            BY <5>2 DEF b
          <5> QED
            BY <5>2, <5>3 DEF b
        <4> HIDE DEF page
        <4>2. page.capacity > 0 /\ page.data \in Seq(Sample)
          BY <4>1, PageFields
        <4>3. \A i \in DOMAIN page.data : page.data[i] \in Sample
          BY <4>2
        <4>4. \A x \in Sample : x.t \in RowTs \ {Null} /\ x.v \in RowValue \ {Null}
          BY DEF Sample
        <4> QED
          BY <4>1, <4>2, <4>3, <4>4 DEF page
      <3>4. \A k \in DOMAIN heap[p].st_pairs :
              heap[p].st_pairs[k] \in (RowTs \ {Null}) \X (RowSt \ {Null})
        BY <3>2 DEF Pairs
      <3> QED
        BY <3>2, <3>3, <3>4
    <2> QED
      BY <2>1 DEF IInv, TypeInv, TypeOK
  <1> QED
    BY <1>1, IInvHolds, PTL

\* Whatever the order of rows, combines and finalizations, what a state answers
\* is what its rows determine.
THEOREM AnswersExact == Spec => []FinalizeExact
  <1>1. Init => FinalizeExact
    BY DEF Init, FinalizeExact
  <1>2. IInv /\ FinalizeExact /\ [Next]_vars => FinalizeExact'
    <2> SUFFICES ASSUME IInv, FinalizeExact, [Next]_vars PROVE FinalizeExact'
        OBVIOUS
    <2>1. ASSUME answer' = <<>> PROVE FinalizeExact'
      BY <2>1 DEF FinalizeExact
    <2>2. ASSUME NEW s \in Slot, NEW r \in Row, Update(s, r) PROVE FinalizeExact'
      BY <2>1, <2>2 DEF Update
    <2>3. ASSUME NEW s \in Slot, NEW u \in Slot, NEW d \in BOOLEAN, Combine(s, u, d)
          PROVE  FinalizeExact'
      BY <2>1, <2>3 DEF Combine
    <2>4. ASSUME NEW s \in Slot, Finalize(s) PROVE FinalizeExact'
      BY <2>4, FinalizeStep
    <2>5. CASE EndQuery
      BY <2>1, <2>5 DEF EndQuery
    <2>6. ASSUME NEW s \in Slot, RateDestroy(s) PROVE FinalizeExact'
      BY <2>1, <2>6 DEF RateDestroy
    <2>7. CASE UNCHANGED vars
      BY <2>7 DEF vars, FinalizeExact
    <2> QED
      BY <2>2, <2>3, <2>4, <2>5, <2>6, <2>7 DEF Next
  <1> QED
    BY <1>1, <1>2, IInvHolds, PTL DEF Spec

\* Every payload is owned by one slot until it is freed, and by none after.
THEOREM OwnedOnce == Spec => []EachPayloadOwnedOnce
  <1>1. IInv => EachPayloadOwnedOnce
    <2> SUFFICES ASSUME IInv PROVE EachPayloadOwnedOnce
        OBVIOUS
    <2>1. ASSUME NEW p \in DOMAIN heap
          PROVE  Cardinality({s \in Slot : payload[s] = p}) = IF heap[p].freed THEN 0 ELSE 1
      <3> DEFINE Owners == {s \in Slot : payload[s] = p}
      <3>1. p \in 1 .. Len(heap) /\ p # 0
        BY DEF IInv, TypeInv
      <3>2. heap[p].freed \in BOOLEAN
        BY <3>1, HeapFields DEF IInv
      <3>3. CASE heap[p].freed
        <4>1. Owners = {}
          BY <3>1, <3>3 DEF IInv, OwnInv
        <4> QED
          BY <3>3, <4>1, FS_EmptySet
      <3>4. CASE ~heap[p].freed
        <4>1. PICK s \in Slot : payload[s] = p
          BY <3>1, <3>4 DEF IInv, OwnInv
        <4>2. Owners = {s}
          BY <3>1, <4>1 DEF IInv, OwnInv
        <4> QED
          BY <3>4, <4>2, FS_Singleton
      <3> QED
        BY <3>2, <3>3, <3>4
    <2> QED
      BY <2>1 DEF IInv, OwnInv, EachPayloadOwnedOnce
  <1> QED
    BY <1>1, IInvHolds, PTL

\* The arena's counter is what its pages take, and zero once freed.
THEOREM Accounted == Spec => []BytesAccounted
  <1>1. IInv => BytesAccounted
    <2> SUFFICES ASSUME IInv, NEW p \in DOMAIN heap
                 PROVE  /\ heap[p].buffer.bytes = Capacities(heap[p].buffer)
                        /\ heap[p].freed => heap[p].buffer.bytes = 0
        BY DEF BytesAccounted
    <2>1. p \in 1 .. Len(heap)
      BY DEF IInv, TypeInv
    <2>2. heap[p].buffer \in Buffer
      BY <2>1, HeapFields DEF IInv
    <2> QED
      BY <2>1, <2>2, BufferFields DEF IInv, OwnInv
  <1> QED
    BY <1>1, IInvHolds, PTL
=============================================================================
