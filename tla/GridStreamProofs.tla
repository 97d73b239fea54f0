-------------------------- MODULE GridStreamProofs --------------------------
(***************************************************************************)
(* Theorems about GridStream, for every grid, width, value format and      *)
(* series.                                                                 *)
(***************************************************************************)
EXTENDS GridStream, TLAPS, SequenceTheorems

-----------------------------------------------------------------------------
(* The order of values *)

\* RankLess on the ranks of values is a strict total order: the winner of a
\* timestamp group does not depend on the order its candidates are visited in.
LEMMA DedupOrder ==
  /\ \A a \in Value : ~dedup_policy(a, a)
  /\ \A a, b, c \in Value :
       dedup_policy(a, b) /\ dedup_policy(b, c) => dedup_policy(a, c)
  /\ \A a, b \in Value : a = b \/ dedup_policy(a, b) \/ dedup_policy(b, a)
  BY DoubleAssumption, SMTT(30)
  DEF Value, dedup_policy, RankLess, RankOf, TotalOrderKey, is_stale, IsNaN,
      Magnitude

-----------------------------------------------------------------------------
(* The grid *)

LEMMA CountNat == Count \in Nat
  BY GridAssumption DEF Count

LEMMA AtInt == \A i \in Int : At(i) \in Int
  BY GridAssumption DEF At

LEMMA AtNext == \A i \in Int : At(i + 1) = At(i) + GridStep
  BY GridAssumption DEF At

LEMMA AtMonotone == \A i, j \in Int : i <= j => At(i) <= At(j)
  <1> SUFFICES ASSUME NEW i \in Int, NEW j \in Int, i <= j
               PROVE  At(i) <= At(j)
      OBVIOUS
  <1> DEFINE d == j - i
  <1>1. d * GridStep >= 0
    BY GridAssumption
  <1>2. At(j) = At(i) + d * GridStep
    BY GridAssumption DEF At
  <1> QED
    BY <1>1, <1>2, AtInt, GridAssumption

-----------------------------------------------------------------------------
(* Type correctness *)

LEMMA TypeInit == Init => TypeOK
  <1> SUFFICES ASSUME Init PROVE TypeOK
      OBVIOUS
  <1> USE DEF Init
  <1>1. next_index \in 0 .. Count
    BY CountNat
  <1>2. emitted \in Seq(Seq(CounterSample))
    OBVIOUS
  <1>3. pending \in Seq(CounterSample) /\ Len(pending) <= 1
    OBVIOUS
  <1>4. buf \in Seq(CounterSample) /\ fed \in Seq(CounterSample)
    OBVIOUS
  <1> QED
    BY <1>1, <1>2, <1>3, <1>4 DEF TypeOK

LEMMA TypeFeed ==
  ASSUME TypeOK, NEW s \in CounterSample, Feed(s)
  PROVE  TypeOK'
  <1>1. fed' \in Seq(CounterSample) /\ buf \o pending \in Seq(CounterSample)
    BY DEF Feed, TypeOK
  <1>2. (pending \in Seq(CounterSample) /\ Len(pending) <= 1)'
    <2>1. CASE pending' = pending
      BY <2>1 DEF TypeOK
    <2>2. CASE pending' = <<s>>
      BY <2>2
    <2> QED
      BY <2>1, <2>2 DEF Feed
  <1> QED
    BY <1>1, <1>2 DEF Feed, TypeOK

\* The values a grid point's step takes, whichever way the erase goes.
LEMMA AnswerEffect ==
  ASSUME TypeOK, NEW h \in hi .. Len(buf), NEW l \in lo .. h, AnswerWith(l, h)
  PROVE  /\ l \in Nat /\ h \in Nat /\ l <= h /\ h <= Len(buf)
         /\ SubSeq(buf, l + 1, h) \in Seq(CounterSample)
         /\ Len(SubSeq(buf, l + 1, h)) = h - l
         /\ \A k \in 1 .. h - l : SubSeq(buf, l + 1, h)[k] = buf[k + l]
         /\ SubSeq(buf, l + 1, Len(buf)) \in Seq(CounterSample)
         /\ Len(SubSeq(buf, l + 1, Len(buf))) = Len(buf) - l
         /\ \A k \in 1 .. Len(buf) - l : SubSeq(buf, l + 1, Len(buf))[k] = buf[k + l]
         /\ \/ buf' = SubSeq(buf, l + 1, Len(buf)) /\ hi' = h - l /\ lo' = 0
            \/ buf' = buf /\ hi' = h /\ lo' = l
  <1>1. l \in Nat /\ h \in Nat /\ l <= h /\ h <= Len(buf) /\ Len(buf) \in Nat
    BY DEF TypeOK
  <1>2. \A k \in 1 .. Len(buf) : buf[k] \in CounterSample
    BY DEF TypeOK
  <1>3. /\ SubSeq(buf, l + 1, h) \in Seq(CounterSample)
        /\ Len(SubSeq(buf, l + 1, h)) = h - l
        /\ \A k \in 1 .. h - l : SubSeq(buf, l + 1, h)[k] = buf[k + l]
    BY <1>1, <1>2
  <1>4. /\ SubSeq(buf, l + 1, Len(buf)) \in Seq(CounterSample)
        /\ Len(SubSeq(buf, l + 1, Len(buf))) = Len(buf) - l
        /\ \A k \in 1 .. Len(buf) - l : SubSeq(buf, l + 1, Len(buf))[k] = buf[k + l]
    BY <1>1, <1>2
  <1> QED
    BY <1>1, <1>3, <1>4 DEF AnswerWith

LEMMA TypeAnswer == TypeOK /\ AnswerPoint => TypeOK'
  <1> SUFFICES ASSUME TypeOK, NEW h \in hi .. Len(buf), NEW l \in lo .. h,
                      AnswerWith(l, h)
               PROVE  TypeOK'
      BY DEF AnswerPoint
  <1>1. emitted' = Append(emitted, SubSeq(buf, l + 1, h))
    BY DEF AnswerWith
  <1>2. emitted' \in Seq(Seq(CounterSample))
    BY <1>1, AnswerEffect DEF TypeOK
  <1>3. buf' \in Seq(CounterSample) /\ lo' \in Nat /\ hi' \in Nat
    <2>1. CASE buf' = SubSeq(buf, l + 1, Len(buf)) /\ hi' = h - l /\ lo' = 0
      BY <2>1, AnswerEffect
    <2>2. CASE buf' = buf /\ hi' = h /\ lo' = l
      BY <2>2, AnswerEffect DEF TypeOK
    <2> QED
      BY <2>1, <2>2, AnswerEffect
  <1>4. next_index' \in 0 .. Count
    BY CountNat DEF AnswerWith, Windows, TypeOK
  <1> QED
    BY <1>2, <1>3, <1>4 DEF AnswerWith, TypeOK

LEMMA TypeStep == TypeOK /\ [Next]_vars => TypeOK'
  <1> SUFFICES ASSUME TypeOK, [Next]_vars PROVE TypeOK'
      OBVIOUS
  <1>1. ASSUME NEW s \in CounterSample, Feed(s) PROVE TypeOK'
    BY <1>1, TypeFeed
  <1>2. CASE End
    BY <1>2 DEF End, TypeOK
  <1>3. CASE Resume
    BY <1>3 DEF Resume, TypeOK
  <1>4. CASE AnswerPoint
    BY <1>4, TypeAnswer
  <1>5. CASE EmitThrows
    BY <1>5 DEF EmitThrows, TypeOK
  <1>6. CASE AwaitSample
    BY <1>6 DEF AwaitSample, TypeOK
  <1>7. CASE GridWalked
    BY <1>7 DEF GridWalked, TypeOK
  <1>8. CASE UNCHANGED vars
    BY <1>8 DEF vars, TypeOK
  <1> QED
    BY <1>1, <1>2, <1>3, <1>4, <1>5, <1>6, <1>7, <1>8 DEF Next

\* The state of the walk keeps its types whatever is fed: the pointers and the
\* grid index never leave their ranges, and what is resident or passed to emit
\* is samples of the series.
THEOREM TypeCorrect == Spec => []TypeOK
  BY TypeInit, TypeStep, PTL DEF Spec

-----------------------------------------------------------------------------
(* The inductive invariant behind WindowsExact *)

\* The pointers are within the buffer and one span was emitted per grid point.
PointersInv ==
  /\ lo <= hi /\ hi <= Len(buf)
  /\ Len(emitted) = next_index

\* The series arrived in timestamp order; the buffer is strictly ascending and
\* below the sample held back, which carries the newest timestamp.
OrderInv ==
  /\ \A j, k \in DOMAIN fed : j <= k => fed[j].t <= fed[k].t
  /\ \A j, k \in DOMAIN buf : j < k => buf[j].t < buf[k].t
  /\ pending # <<>> =>
       /\ fed # <<>> /\ pending[1].t = fed[Len(fed)].t
       /\ \A k \in DOMAIN buf : buf[k].t < pending[1].t
  /\ pending = <<>> => ended \/ (fed = <<>> /\ buf = <<>>)
  /\ ended => pending = <<>>

\* A survivor of deduplication is resident, held back, or out of reach of every
\* later window; nothing else is resident or held back.
HeldInv ==
  /\ \A s \in Survivors(fed) :
       \/ s \in Elements(buf) \/ s \in Elements(pending)
       \/ next_index > 0 /\ s.t <= At(next_index - 1) - Width
  /\ Elements(buf) \subseteq Survivors(fed)
  /\ Elements(pending) \subseteq Survivors(fed)

\* What the pointers have passed, they have passed for good.
PassedInv ==
  /\ \A k \in 1 .. hi : buf[k].t <= At(next_index)
  /\ \A k \in 1 .. lo : buf[k].t <= At(next_index) - Width

\* An answered grid point could be answered.
DeterminedInv ==
  \A i \in 1 .. next_index :
    ended \/ \E k \in DOMAIN fed : fed[k].t > At(i - 1)

IInv ==
  /\ TypeOK /\ PointersInv /\ OrderInv /\ HeldInv /\ PassedInv
  /\ DeterminedInv /\ WindowsExact

-----------------------------------------------------------------------------
(* Deduplication, one sample at a time *)

LEMMA SampleFields ==
  \A s \in CounterSample : s.t \in Int /\ s.v \in Value
  BY SeriesAssumption DEF CounterSample

LEMMA Appended ==
  ASSUME NEW f \in Seq(CounterSample), NEW s \in CounterSample
  PROVE  /\ DOMAIN f = 1 .. Len(f) /\ Len(f) \in Nat
         /\ \A k \in DOMAIN f : f[k] \in CounterSample
         /\ Append(f, s) \in Seq(CounterSample)
         /\ Len(Append(f, s)) = Len(f) + 1
         /\ DOMAIN Append(f, s) = 1 .. Len(f) + 1
         /\ \A k \in 1 .. Len(f) : Append(f, s)[k] = f[k]
         /\ Append(f, s)[Len(f) + 1] = s
  OBVIOUS

\* A sample past every timestamp so far joins the survivors and displaces none.
LEMMA SurvivorsNew ==
  ASSUME NEW f \in Seq(CounterSample), NEW s \in CounterSample,
         \A k \in DOMAIN f : f[k].t < s.t
  PROVE  Survivors(Append(f, s)) = Survivors(f) \cup {s}
  <1> DEFINE g == Append(f, s)
             n == Len(f) + 1
  <1>1. /\ n \in Nat /\ n \notin DOMAIN f /\ DOMAIN g = DOMAIN f \cup {n}
        /\ DOMAIN f = 1 .. Len(f) /\ Len(f) \in Nat
        /\ \A k \in DOMAIN f : g[k] = f[k] /\ f[k] \in CounterSample
        /\ g[n] = s
    BY Appended
  <1> HIDE DEF g, n
  <1>2. \A k \in DOMAIN f : f[k].t # s.t
    BY <1>1, SampleFields
  <1>3. ~dedup_policy(s.v, s.v)
    BY DedupOrder, SampleFields
  <1>4. Wins(g, n)
    <2> SUFFICES ASSUME NEW j \in DOMAIN g, g[j].t = g[n].t
                 PROVE  /\ ~dedup_policy(g[j].v, g[n].v)
                        /\ g[j].v = g[n].v => n <= j
        BY DEF Wins
    <2>1. j = n
      BY <1>1, <1>2
    <2> QED
      BY <2>1, <1>1, <1>3
  <1>5. \A k \in DOMAIN f : Wins(g, k) <=> Wins(f, k)
    BY <1>1, <1>2 DEF Wins
  <1>6. Survivors(g) = Survivors(f) \cup {s}
    BY <1>1, <1>4, <1>5 DEF Survivors
  <1> QED
    BY <1>6 DEF g

\* A timestamp group has one winner.
LEMMA SurvivorUnique ==
  ASSUME NEW f \in Seq(CounterSample), NEW p \in DOMAIN f, NEW q \in DOMAIN f,
         Wins(f, p), Wins(f, q), f[p].t = f[q].t
  PROVE  p = q
  <1>1. f[p] \in CounterSample /\ f[q] \in CounterSample /\ p \in Nat /\ q \in Nat
    OBVIOUS
  <1>2. f[p].v = f[q].v
    BY <1>1, DedupOrder, SampleFields DEF Wins
  <1> QED
    BY <1>1, <1>2 DEF Wins

\* A sample that collides with the winner p of the newest timestamp replaces it
\* or changes nothing.
LEMMA SurvivorsCollide ==
  ASSUME NEW f \in Seq(CounterSample), NEW s \in CounterSample,
         NEW p \in DOMAIN f, Wins(f, p), f[p].t = s.t
  PROVE  Survivors(Append(f, s)) =
           IF dedup_policy(s.v, f[p].v)
           THEN (Survivors(f) \ {f[p]}) \cup {s}
           ELSE Survivors(f)
  <1> DEFINE g == Append(f, s)
             n == Len(f) + 1
  <1>1. /\ n \in Nat /\ n \notin DOMAIN f /\ DOMAIN g = DOMAIN f \cup {n}
        /\ DOMAIN f = 1 .. Len(f) /\ Len(f) \in Nat
        /\ \A k \in DOMAIN f : g[k] = f[k] /\ f[k] \in CounterSample /\ k < n
        /\ g[n] = s
    BY Appended
  <1> HIDE DEF g, n
  <1>2. \A k \in DOMAIN f : f[k].v \in Value /\ f[k].t \in Int
    BY <1>1, SampleFields
  <1>3. s.v \in Value /\ ~dedup_policy(s.v, s.v)
    BY DedupOrder, SampleFields
  <1>4. \A k \in DOMAIN f : f[k].t # s.t => (Wins(g, k) <=> Wins(f, k))
    BY <1>1 DEF Wins
  <1>5. \A k \in DOMAIN f : f[k].t = s.t /\ Wins(f, k) => k = p
    BY SurvivorUnique
  <1>6. \A k \in DOMAIN f : Wins(g, k) => Wins(f, k)
    BY <1>1 DEF Wins
  <1>7. CASE dedup_policy(s.v, f[p].v)
    <2>1. ~Wins(g, p)
      BY <1>1, <1>7 DEF Wins
    <2>2. Wins(g, n)
      <3> SUFFICES ASSUME NEW j \in DOMAIN g, g[j].t = g[n].t
                   PROVE  /\ ~dedup_policy(g[j].v, g[n].v)
                          /\ g[j].v = g[n].v => n <= j
          BY DEF Wins
      <3>1. CASE j = n
        BY <3>1, <1>1, <1>3
      <3>2. CASE j \in DOMAIN f
        <4>1. ~dedup_policy(f[j].v, f[p].v)
          BY <3>2, <1>1 DEF Wins
        <4>2. dedup_policy(s.v, f[j].v)
          BY <4>1, <3>2, <1>2, <1>3, <1>7, DedupOrder
        <4> QED
          BY <4>2, <3>2, <1>1, <1>2, <1>3, DedupOrder
      <3> QED
        BY <3>1, <3>2, <1>1
    <2>3. \A k \in DOMAIN g :
            Wins(g, k) <=> k = n \/ (k \in DOMAIN f /\ Wins(f, k) /\ k # p)
      BY <1>1, <1>4, <1>5, <1>6, <2>1, <2>2
    <2>4. \A k \in DOMAIN f : Wins(f, k) /\ k # p => f[k] # f[p]
      BY SurvivorUnique
    <2>5. Survivors(g) = (Survivors(f) \ {f[p]}) \cup {s}
      BY <1>1, <2>3, <2>4 DEF Survivors
    <2> QED
      BY <2>5, <1>7 DEF g
  <1>8. CASE ~dedup_policy(s.v, f[p].v)
    <2>1. ~Wins(g, n)
      <3>1. s.v = f[p].v \/ dedup_policy(f[p].v, s.v)
        BY <1>8, <1>2, <1>3, DedupOrder
      <3>2. ~(n <= p)
        BY <1>1
      <3> QED
        BY <3>1, <3>2, <1>1 DEF Wins
    <2>2. Wins(g, p)
      BY <1>1, <1>8 DEF Wins
    <2>3. \A k \in DOMAIN g : Wins(g, k) <=> k \in DOMAIN f /\ Wins(f, k)
      BY <1>1, <1>4, <1>5, <1>6, <2>1, <2>2
    <2>4. Survivors(g) = Survivors(f)
      BY <1>1, <2>3 DEF Survivors
    <2> QED
      BY <2>4, <1>8 DEF g
  <1> QED
    BY <1>7, <1>8

-----------------------------------------------------------------------------
(* Feeding a sample *)

LEMMA Single ==
  ASSUME NEW S, NEW q \in Seq(S), q # <<>>, Len(q) <= 1
  PROVE  Len(q) = 1
  <1> DEFINE n == Len(q)
  <1>1. Len(q) \in Nat \ {0}
    BY EmptySeq, Zenon
  <1>2. n \in Nat \ {0} /\ n <= 1
    BY <1>1
  <1> HIDE DEF n
  <1>3. n = 1
    BY <1>2
  <1> QED
    BY <1>3 DEF n

LEMMA SingleElement ==
  ASSUME NEW S, NEW q \in Seq(S), Len(q) = 1
  PROVE  DOMAIN q = {1} /\ q[1] \in S
  OBVIOUS

LEMMA PendingFields ==
  ASSUME TypeOK, pending # <<>>
  PROVE  /\ pending[1] \in CounterSample
         /\ Elements(pending) = {pending[1]}
         /\ Len(pending) = 1
  <1>1. pending \in Seq(CounterSample) /\ Len(pending) <= 1
    BY DEF TypeOK
  <1>2. Len(pending) = 1
    BY <1>1, Single
  <1>3. DOMAIN pending = {1} /\ pending[1] \in CounterSample
    BY <1>1, <1>2, SingleElement
  <1> QED
    BY <1>2, <1>3 DEF Elements

LEMMA OneElement == \A s : Elements(<<s>>) = {s} /\ <<s>>[1] = s /\ <<s>> # <<>>
  BY DEF Elements

LEMMA NoElements == Elements(<<>>) = {}
  BY DEF Elements

\* Every resident sample is at or before the newest timestamp.
LEMMA FeedOrder ==
  ASSUME TypeOK, OrderInv, NEW s \in CounterSample, Feed(s)
  PROVE  /\ \A k \in DOMAIN fed : fed[k].t <= s.t
         /\ \A j, k \in DOMAIN fed' : j <= k => fed'[j].t <= fed'[k].t
         /\ fed' # <<>> /\ fed'[Len(fed')].t = s.t
  <1>1. fed' = Append(fed, s)
    BY DEF Feed
  <1>2. \A k \in DOMAIN fed : fed[k].t <= s.t
    <2> SUFFICES ASSUME NEW k \in DOMAIN fed PROVE fed[k].t <= s.t
        OBVIOUS
    <2>1. k \in 1 .. Len(fed) /\ Len(fed) \in DOMAIN fed /\ fed # <<>>
      BY DEF TypeOK
    <2>2. fed[k].t <= fed[Len(fed)].t
      BY <2>1 DEF OrderInv
    <2>3. fed[Len(fed)].t <= s.t
      BY <2>1 DEF Feed, InOrder
    <2> QED
      BY <2>1, <2>2, <2>3, SampleFields DEF TypeOK
  <1>3. \A j, k \in DOMAIN fed' : j <= k => fed'[j].t <= fed'[k].t
    <2> SUFFICES ASSUME NEW j \in DOMAIN fed', NEW k \in DOMAIN fed', j <= k
                 PROVE  fed'[j].t <= fed'[k].t
        OBVIOUS
    <2>1. /\ \A i \in 1 .. Len(fed) : fed'[i] = fed[i]
          /\ fed'[Len(fed) + 1] = s
          /\ DOMAIN fed' = 1 .. Len(fed) + 1 /\ DOMAIN fed = 1 .. Len(fed)
          /\ Len(fed) \in Nat
      BY <1>1, Appended DEF TypeOK
    <2>2. CASE k \in 1 .. Len(fed)
      BY <2>1, <2>2 DEF OrderInv
    <2>3. CASE k = Len(fed) + 1 /\ j \in 1 .. Len(fed)
      BY <2>1, <2>3, <1>2
    <2>4. CASE k = Len(fed) + 1 /\ j = k
      BY <2>1, <2>4, SampleFields
    <2> QED
      BY <2>1, <2>2, <2>3, <2>4
  <1>4. fed' # <<>> /\ fed'[Len(fed')].t = s.t
    BY <1>1, Appended DEF TypeOK
  <1> QED
    BY <1>2, <1>3, <1>4

\* What feeding does to the survivors, in the code's two cases.
LEMMA FeedSurvivors ==
  ASSUME TypeOK, OrderInv, HeldInv, NEW s \in CounterSample, Feed(s)
  PROVE  /\ Collides(s) =>
              /\ pending[1] \in Survivors(fed) /\ pending[1].t = s.t
              /\ Survivors(fed') =
                   IF dedup_policy(s.v, pending[1].v)
                   THEN (Survivors(fed) \ {pending[1]}) \cup {s}
                   ELSE Survivors(fed)
         /\ ~Collides(s) =>
              /\ \A k \in DOMAIN fed : fed[k].t < s.t
              /\ Survivors(fed') = Survivors(fed) \cup {s}
  <1>1. fed' = Append(fed, s) /\ fed \in Seq(CounterSample)
    BY DEF Feed, TypeOK
  <1>2. ASSUME Collides(s)
        PROVE  /\ pending[1] \in Survivors(fed) /\ pending[1].t = s.t
               /\ Survivors(fed') =
                    IF dedup_policy(s.v, pending[1].v)
                    THEN (Survivors(fed) \ {pending[1]}) \cup {s}
                    ELSE Survivors(fed)
    <2>1. pending[1] \in Survivors(fed) /\ pending[1].t = s.t
      BY <1>2, PendingFields DEF Collides, HeldInv
    <2>2. PICK p \in DOMAIN fed : Wins(fed, p) /\ fed[p] = pending[1]
      BY <2>1 DEF Survivors
    <2> QED
      BY <1>1, <2>1, <2>2, SurvivorsCollide
  <1>3. ASSUME ~Collides(s)
        PROVE  \A k \in DOMAIN fed : fed[k].t < s.t
    <2> SUFFICES ASSUME NEW k \in DOMAIN fed PROVE fed[k].t < s.t
        OBVIOUS
    <2>1. fed # <<>> /\ k \in 1 .. Len(fed) /\ Len(fed) \in DOMAIN fed
          /\ fed[k] \in CounterSample /\ fed[Len(fed)] \in CounterSample
      BY <1>1
    <2>2. pending # <<>> /\ pending[1].t = fed[Len(fed)].t
      BY <2>1 DEF OrderInv, Feed
    <2>3. fed[Len(fed)].t # s.t
      BY <2>2, <1>3 DEF Collides
    <2>4. fed[k].t <= fed[Len(fed)].t /\ fed[Len(fed)].t <= s.t
      BY <2>1, FeedOrder DEF OrderInv
    <2> QED
      BY <2>1, <2>3, <2>4, SampleFields
  <1>4. ASSUME ~Collides(s)
        PROVE  Survivors(fed') = Survivors(fed) \cup {s}
    BY <1>1, <1>3, <1>4, SurvivorsNew
  <1> QED
    BY <1>2, <1>3, <1>4

\* No answered window changes when a sample is fed.
LEMMA FeedKeepsWindows ==
  ASSUME TypeOK, OrderInv, HeldInv, DeterminedInv,
         NEW s \in CounterSample, Feed(s), NEW i \in 1 .. next_index
  PROVE  WindowOf(fed', i - 1) = WindowOf(fed, i - 1)
  <1>1. PICK k \in DOMAIN fed : fed[k].t > At(i - 1)
    BY DEF DeterminedInv, Feed
  <1>2. At(i - 1) \in Int
    BY AtInt DEF TypeOK
  <1>3. fed[k].t \in Int /\ s.t \in Int /\ fed[k].t <= s.t
    BY FeedOrder, SampleFields DEF TypeOK
  <1>4. ~Contains(At(i - 1), s.t)
    BY <1>1, <1>2, <1>3 DEF Contains
  <1>5. CASE Collides(s)
    BY <1>5, <1>4, FeedSurvivors DEF WindowOf
  <1>6. CASE ~Collides(s)
    BY <1>6, <1>4, FeedSurvivors DEF WindowOf
  <1> QED
    BY <1>5, <1>6

\* Feeding moves nothing that was emitted, and what was determined stays so.
LEMMA FeedHistory ==
  ASSUME IInv, NEW s \in CounterSample, Feed(s)
  PROVE  /\ DeterminedInv'
         /\ WindowsExact'
  <1>1. fed' = Append(fed, s) /\ ended' = ended /\ emitted' = emitted
        /\ next_index' = next_index
    BY DEF Feed
  <1>2. DOMAIN fed \subseteq DOMAIN fed' /\ \A k \in DOMAIN fed : fed'[k] = fed[k]
    BY <1>1, Appended DEF IInv, TypeOK
  <1>3. DeterminedInv'
    BY <1>1, <1>2 DEF DeterminedInv, IInv
  <1>4. DOMAIN emitted = 1 .. next_index
    BY DEF IInv, WindowsExact, TypeOK
  <1>5. \A i \in DOMAIN emitted : WindowOf(fed', i - 1) = WindowOf(fed, i - 1)
    BY <1>4, FeedKeepsWindows DEF IInv
  <1>6. WindowsExact'
    BY <1>1, <1>5 DEF WindowsExact, IInv
  <1> QED
    BY <1>3, <1>6

LEMMA CollideStep ==
  ASSUME IInv, NEW s \in CounterSample, Feed(s), Collides(s)
  PROVE  OrderInv' /\ HeldInv'
  <1> USE DEF IInv
  <1>1. buf' = buf /\ ended' = ended /\ next_index' = next_index /\ ~ended
        /\ pending # <<>> /\ fed' = Append(fed, s)
        /\ pending' = IF dedup_policy(s.v, pending[1].v) THEN <<s>> ELSE pending
    BY DEF Feed, Collides
  <1>2. pending' # <<>> /\ pending'[1].t = s.t /\ pending[1].t = s.t
    BY <1>1, OneElement DEF Collides
  <1>3. \A k \in DOMAIN buf : buf[k].t < s.t
    BY <1>1, <1>2 DEF OrderInv
  <1>4. OrderInv'
    BY <1>1, <1>2, <1>3, FeedOrder DEF OrderInv
  <1>5. pending[1] \notin Elements(buf)
    <2>1. \A k \in DOMAIN buf : buf[k] \in CounterSample
      BY DEF TypeOK
    <2> QED
      BY <2>1, <1>2, <1>3, SampleFields DEF Elements
  <1>6. Elements(pending) = {pending[1]}
    BY <1>1, PendingFields
  <1>7. HeldInv'
    <2>1. CASE dedup_policy(s.v, pending[1].v)
      <3>1. Survivors(fed') = (Survivors(fed) \ {pending[1]}) \cup {s}
        BY <2>1, FeedSurvivors
      <3>2. Elements(pending') = {s}
        BY <1>1, <2>1, OneElement
      <3> QED
        BY <1>1, <1>5, <1>6, <3>1, <3>2 DEF HeldInv
    <2>2. CASE ~dedup_policy(s.v, pending[1].v)
      <3>1. Survivors(fed') = Survivors(fed) /\ pending' = pending
        BY <1>1, <2>2, FeedSurvivors
      <3> QED
        BY <1>1, <3>1 DEF HeldInv
    <2> QED
      BY <2>1, <2>2
  <1> QED
    BY <1>4, <1>7

\* flush_pending appends the sample held back, if any.
LEMMA Flushed ==
  ASSUME TypeOK, OrderInv
  PROVE  /\ buf \o pending \in Seq(CounterSample)
         /\ Len(buf) <= Len(buf \o pending)
         /\ \A k \in 1 .. Len(buf) : (buf \o pending)[k] = buf[k]
         /\ Elements(buf \o pending) = Elements(buf) \cup Elements(pending)
         /\ \A j, k \in DOMAIN (buf \o pending) :
              j < k => (buf \o pending)[j].t < (buf \o pending)[k].t
  <1>1. CASE pending = <<>>
    <2>1. buf \o pending = buf
      BY <1>1, ConcatEmptySeq DEF TypeOK
    <2> QED
      BY <2>1, <1>1, NoElements DEF TypeOK, OrderInv
  <1>2. CASE pending # <<>>
    <2> DEFINE b == buf \o pending
               n == Len(buf)
    <2>1. /\ Len(pending) = 1 /\ Elements(pending) = {pending[1]}
          /\ pending[1] \in CounterSample /\ pending \in Seq(CounterSample)
          /\ buf \in Seq(CounterSample) /\ n \in Nat /\ DOMAIN buf = 1 .. n
      BY <1>2, PendingFields DEF TypeOK
    <2>2. b \in Seq(CounterSample) /\ Len(b) = n + 1
      <3>1. b \in Seq(CounterSample) /\ Len(b) = Len(buf) + Len(pending)
        BY <2>1, ConcatProperties, Zenon
      <3>2. Len(b) = n + 1
        BY <2>1, <3>1, Zenon
      <3> QED
        BY <3>1, <3>2, Zenon
    <2>3. \A k \in 1 .. n + 1 : b[k] = IF k <= n THEN buf[k] ELSE pending[k - n]
      <3>1. \A k \in 1 .. Len(buf) + Len(pending) :
              b[k] = IF k <= Len(buf) THEN buf[k] ELSE pending[k - Len(buf)]
        BY <2>1, ConcatProperties, Zenon
      <3> QED
        BY <2>1, <3>1, Zenon
    <2>4. DOMAIN b = 1 .. n + 1
      BY <2>2
    <2>5. b[n + 1] = pending[1] /\ \A k \in 1 .. n : b[k] = buf[k]
      BY <2>1, <2>3
    <2>6. \A k \in 1 .. n : buf[k].t < pending[1].t
      BY <1>2, <2>1 DEF OrderInv
    <2> HIDE DEF b, n
    <2>7. \A j, k \in DOMAIN b : j < k => b[j].t < b[k].t
      BY <2>1, <2>4, <2>5, <2>6 DEF OrderInv
    <2>8. Elements(b) = Elements(buf) \cup Elements(pending)
      BY <2>1, <2>4, <2>5 DEF Elements
    <2> QED
      BY <2>1, <2>2, <2>5, <2>7, <2>8 DEF b, n
  <1> QED
    BY <1>1, <1>2

LEMMA FlushStep ==
  ASSUME IInv, NEW s \in CounterSample, Feed(s), ~Collides(s)
  PROVE  OrderInv' /\ HeldInv'
  <1> USE DEF IInv
  <1>1. buf' = buf \o pending /\ ended' = ended /\ next_index' = next_index
        /\ ~ended /\ fed' = Append(fed, s) /\ pending' = <<s>>
    BY DEF Feed
  <1>2. pending' # <<>> /\ pending'[1].t = s.t /\ Elements(pending') = {s}
    BY <1>1, OneElement
  <1>3. /\ Survivors(fed') = Survivors(fed) \cup {s}
        /\ \A k \in DOMAIN fed : fed[k].t < s.t
    BY FeedSurvivors
  <1>4. Elements(buf') = Elements(buf) \cup Elements(pending)
        /\ Elements(buf') \subseteq Survivors(fed)
    BY <1>1, Flushed DEF HeldInv
  <1>5. \A k \in DOMAIN buf' : buf'[k].t < s.t
    <2> SUFFICES ASSUME NEW k \in DOMAIN buf' PROVE buf'[k].t < s.t
        OBVIOUS
    <2>1. buf'[k] \in Survivors(fed)
      BY <1>4 DEF Elements
    <2> QED
      BY <2>1, <1>3 DEF Survivors
  <1>6. OrderInv'
    BY <1>1, <1>2, <1>5, FeedOrder, Flushed DEF OrderInv
  <1>7. HeldInv'
    BY <1>1, <1>2, <1>3, <1>4 DEF HeldInv
  <1> QED
    BY <1>6, <1>7

\* Flushing moves no sample the pointers have passed.
LEMMA FlushPointers ==
  ASSUME IInv, buf' = buf \o pending,
         lo' = lo, hi' = hi, next_index' = next_index, emitted' = emitted
  PROVE  PointersInv' /\ PassedInv'
  <1> USE DEF IInv
  <1>1. /\ Len(buf) \in Nat /\ lo \in Nat /\ hi \in Nat
        /\ lo <= hi /\ hi <= Len(buf)
    BY DEF TypeOK, PointersInv
  <1>2. Len(buf) <= Len(buf \o pending) /\ Len(buf \o pending) \in Nat
        /\ \A k \in 1 .. Len(buf) : (buf \o pending)[k] = buf[k]
    BY Flushed
  <1>3. Len(buf) <= Len(buf') /\ Len(buf') \in Nat
        /\ \A k \in 1 .. Len(buf) : buf'[k] = buf[k]
    BY <1>2, Zenon
  <1>4. PointersInv'
    BY <1>1, <1>3 DEF PointersInv
  <1>5. \A k \in 1 .. hi : buf'[k] = buf[k]
    BY <1>1, <1>3
  <1>6. \A k \in 1 .. lo : buf'[k] = buf[k]
    BY <1>1, <1>3
  <1>7. PassedInv'
    BY <1>5, <1>6 DEF PassedInv
  <1> QED
    BY <1>4, <1>7

LEMMA FeedPointers ==
  ASSUME IInv, NEW s \in CounterSample, Feed(s)
  PROVE  PointersInv' /\ PassedInv'
  <1>1. lo' = lo /\ hi' = hi /\ next_index' = next_index /\ emitted' = emitted
        /\ (buf' = buf \/ buf' = buf \o pending)
    BY DEF Feed
  <1>2. CASE buf' = buf
    BY <1>1, <1>2 DEF IInv, PointersInv, PassedInv
  <1>3. CASE buf' = buf \o pending
    BY <1>1, <1>3, FlushPointers
  <1> QED
    BY <1>1, <1>2, <1>3

LEMMA InvFeed ==
  ASSUME IInv, NEW s \in CounterSample, Feed(s)
  PROVE  IInv'
  <1>1. TypeOK'
    BY TypeFeed DEF IInv
  <1>2. OrderInv' /\ HeldInv'
    BY CollideStep, FlushStep
  <1> QED
    BY <1>1, <1>2, FeedPointers, FeedHistory DEF IInv

-----------------------------------------------------------------------------
(* Ending the series *)

LEMMA InvEnd ==
  ASSUME IInv, End
  PROVE  IInv'
  <1> USE DEF IInv
  <1>1. /\ buf' = buf \o pending /\ pending' = <<>> /\ ended' = TRUE
        /\ lo' = lo /\ hi' = hi /\ next_index' = next_index
        /\ fed' = fed /\ emitted' = emitted
    BY DEF End
  <1>2. TypeOK'
    <2>1. [Next]_vars
      BY DEF Next
    <2> QED
      BY <2>1, TypeStep
  <1>3. PointersInv' /\ PassedInv'
    BY <1>1, FlushPointers
  <1>4. OrderInv'
    BY <1>1, Flushed DEF OrderInv
  <1>5. HeldInv'
    <2>1. Elements(buf') = Elements(buf) \cup Elements(pending)
          /\ Elements(pending') = {}
      BY <1>1, Flushed, NoElements
    <2> QED
      BY <1>1, <2>1 DEF HeldInv
  <1>6. DeterminedInv' /\ WindowsExact'
    BY <1>1 DEF DeterminedInv, WindowsExact
  <1> QED
    BY <1>2, <1>3, <1>4, <1>5, <1>6

-----------------------------------------------------------------------------
(* One iteration of drain *)

\* Where the inner loops leave the pointers, read off the whole buffer.
LEMMA ScanFacts ==
  ASSUME IInv, NEW h \in hi .. Len(buf), NEW l \in lo .. h, Windows(l, h)
  PROVE  /\ At(next_index) \in Int
         /\ \A k \in DOMAIN buf : buf[k].t \in Int
         /\ \A k \in 1 .. h : buf[k].t <= At(next_index)
         /\ \A k \in h + 1 .. Len(buf) : buf[k].t > At(next_index)
         /\ \A k \in 1 .. l : buf[k].t <= At(next_index) - Width
         /\ \A k \in l + 1 .. h : buf[k].t > At(next_index) - Width
  <1> USE DEF IInv
  <1> DEFINE A == At(next_index)
  <1>1. A \in Int /\ Width \in Int
    BY AtInt, GridAssumption DEF TypeOK
  <1>2. /\ h \in Nat /\ l \in Nat /\ lo \in Nat /\ hi \in Nat /\ Len(buf) \in Nat
        /\ lo <= l /\ l <= h /\ hi <= h /\ h <= Len(buf)
        /\ DOMAIN buf = 1 .. Len(buf)
    BY DEF TypeOK
  <1>3. \A k \in DOMAIN buf : buf[k].t \in Int
    BY SampleFields DEF TypeOK
  <1>4. \A j, k \in DOMAIN buf : j < k => buf[j].t < buf[k].t
    BY DEF OrderInv
  <1>5. /\ \A k \in 1 .. hi : buf[k].t <= A
        /\ \A k \in 1 .. lo : buf[k].t <= A - Width
    BY DEF PassedInv
  <1>6. /\ \A k \in hi + 1 .. h : buf[k].t <= A
        /\ h < Len(buf) => buf[h + 1].t > A
    BY DEF Windows, ScansHi
  <1>7. /\ \A k \in lo + 1 .. l : ~Contains(A, buf[k].t) /\ buf[k].t <= A
        /\ l < h => Contains(A, buf[l + 1].t) \/ buf[l + 1].t > A
    BY DEF Windows, ScansLo
  <1> HIDE DEF A
  <1>8. \A k \in 1 .. h : buf[k].t <= A
    BY <1>2, <1>5, <1>6
  <1>9. \A k \in h + 1 .. Len(buf) : buf[k].t > A
    <2> SUFFICES ASSUME NEW k \in h + 1 .. Len(buf) PROVE buf[k].t > A
        OBVIOUS
    <2>1. CASE k = h + 1
      BY <2>1, <1>2, <1>6
    <2>2. CASE k > h + 1
      <3>1. h + 1 \in DOMAIN buf /\ k \in DOMAIN buf /\ h < Len(buf)
        BY <2>2, <1>2
      <3> QED
        BY <2>2, <3>1, <1>1, <1>2, <1>3, <1>4, <1>6
    <2> QED
      BY <2>1, <2>2, <1>2
  <1>10. \A k \in 1 .. l : buf[k].t <= A - Width
    BY <1>1, <1>2, <1>3, <1>5, <1>7 DEF Contains
  <1>11. \A k \in l + 1 .. h : buf[k].t > A - Width
    <2> SUFFICES ASSUME NEW k \in l + 1 .. h PROVE buf[k].t > A - Width
        OBVIOUS
    <2>1. l < h /\ l + 1 \in DOMAIN buf /\ k \in DOMAIN buf /\ l + 1 \in 1 .. h
      BY <1>2
    <2>2. buf[l + 1].t > A - Width
      BY <2>1, <1>1, <1>3, <1>7, <1>8 DEF Contains
    <2>3. CASE k = l + 1
      BY <2>2, <2>3
    <2>4. CASE k > l + 1
      BY <2>1, <2>2, <2>4, <1>1, <1>2, <1>3, <1>4
    <2> QED
      BY <2>3, <2>4, <1>2
  <1> QED
    BY <1>1, <1>3, <1>8, <1>9, <1>10, <1>11 DEF A

\* The span passed to emit is the deduplicated window of the grid point.
LEMMA SpanExact ==
  ASSUME IInv, NEW h \in hi .. Len(buf), NEW l \in lo .. h, AnswerWith(l, h)
  PROVE  /\ Elements(SubSeq(buf, l + 1, h)) = WindowOf(fed, next_index)
         /\ \A j, k \in DOMAIN SubSeq(buf, l + 1, h) :
              j < k => SubSeq(buf, l + 1, h)[j].t < SubSeq(buf, l + 1, h)[k].t
         /\ ended \/ \E k \in DOMAIN fed : fed[k].t > At(next_index)
  <1> USE DEF IInv
  <1> DEFINE A == At(next_index)
             span == SubSeq(buf, l + 1, h)
  <1>0. Windows(l, h)
    BY DEF AnswerWith
  <1>1. /\ A \in Int /\ Width \in Int
        /\ \A k \in DOMAIN buf : buf[k].t \in Int
        /\ \A k \in 1 .. h : buf[k].t <= A
        /\ \A k \in h + 1 .. Len(buf) : buf[k].t > A
        /\ \A k \in 1 .. l : buf[k].t <= A - Width
        /\ \A k \in l + 1 .. h : buf[k].t > A - Width
    BY <1>0, ScanFacts, GridAssumption
  <1>2. /\ l \in Nat /\ h \in Nat /\ l <= h /\ h <= Len(buf) /\ Len(buf) \in Nat
        /\ DOMAIN span = 1 .. h - l
        /\ \A k \in 1 .. h - l : span[k] = buf[k + l]
        /\ DOMAIN buf = 1 .. Len(buf)
    BY AnswerEffect DEF TypeOK
  <1>3. h < Len(buf) \/ ended
    BY <1>0 DEF Windows
  <1>4. next_index > 0 => At(next_index - 1) \in Int /\ At(next_index - 1) <= A
    <2>1. next_index \in Int /\ next_index - 1 \in Int
          /\ next_index - 1 <= next_index
      BY DEF TypeOK
    <2> QED
      BY <2>1, AtInt, AtMonotone
  <1> HIDE DEF A, span
  <1>5. \A k \in l + 1 .. h : buf[k] \in Elements(span)
    <2> SUFFICES ASSUME NEW k \in l + 1 .. h PROVE buf[k] \in Elements(span)
        OBVIOUS
    <2>1. k - l \in 1 .. h - l /\ (k - l) + l = k
      BY <1>2
    <2> QED
      BY <2>1, <1>2 DEF Elements
  <1>6. \A s \in Elements(span) : \E k \in l + 1 .. h : s = buf[k]
    BY <1>2 DEF Elements
  <1>7. Elements(span) \subseteq {s \in Survivors(fed) : Contains(A, s.t)}
    <2> SUFFICES ASSUME NEW k \in l + 1 .. h
                 PROVE  buf[k] \in Survivors(fed) /\ Contains(A, buf[k].t)
        BY <1>6
    <2>1. k \in DOMAIN buf /\ k \in 1 .. h
      BY <1>2
    <2> QED
      BY <2>1, <1>1 DEF HeldInv, Elements, Contains
  <1>8. ASSUME NEW s \in Survivors(fed), Contains(A, s.t)
        PROVE  s \in Elements(span)
    <2>1. s.t \in Int
      BY SampleFields DEF Survivors, TypeOK
    <2>2. ~(next_index > 0 /\ s.t <= At(next_index - 1) - Width)
      BY <1>1, <1>4, <1>8, <2>1 DEF Contains
    <2>3. s \notin Elements(pending)
      <3> SUFFICES ASSUME s \in Elements(pending) PROVE FALSE
          OBVIOUS
      <3>1. pending # <<>>
        BY NoElements
      <3>2. s = pending[1] /\ ~ended
        BY <3>1, PendingFields DEF OrderInv
      <3>3. h < Len(buf) /\ h + 1 \in DOMAIN buf /\ h + 1 \in h + 1 .. Len(buf)
        BY <3>2, <1>2, <1>3
      <3>4. buf[h + 1].t < s.t
        BY <3>1, <3>2, <3>3 DEF OrderInv
      <3> QED
        BY <3>3, <3>4, <2>1, <1>1, <1>8 DEF Contains
    <2>4. PICK k \in DOMAIN buf : s = buf[k]
      BY <2>2, <2>3 DEF HeldInv, Elements
    <2>5. k \in l + 1 .. h
      <3>1. A - Width < s.t /\ s.t <= A
        BY <1>8 DEF Contains
      <3>2. k \notin 1 .. l
        BY <3>1, <2>4, <2>1, <1>1
      <3>3. k \notin h + 1 .. Len(buf)
        BY <3>1, <2>4, <2>1, <1>1
      <3> QED
        BY <3>2, <3>3, <1>2
    <2> QED
      BY <2>4, <2>5, <1>5
  <1>9. Elements(span) = {s \in Survivors(fed) : Contains(A, s.t)}
    BY <1>7, <1>8
  <1>10. \A j, k \in DOMAIN span : j < k => span[j].t < span[k].t
    <2> SUFFICES ASSUME NEW j \in 1 .. h - l, NEW k \in 1 .. h - l, j < k
                 PROVE  buf[j + l].t < buf[k + l].t
        BY <1>2
    <2>1. j + l \in DOMAIN buf /\ k + l \in DOMAIN buf /\ j + l < k + l
      BY <1>2
    <2> QED
      BY <2>1 DEF OrderInv
  <1>11. ended \/ \E k \in DOMAIN fed : fed[k].t > A
    <2>1. CASE h < Len(buf)
      <3>1. h + 1 \in DOMAIN buf /\ buf[h + 1].t > A
        BY <2>1, <1>1, <1>2
      <3>2. buf[h + 1] \in Survivors(fed)
        BY <3>1 DEF HeldInv, Elements
      <3> QED
        BY <3>1, <3>2 DEF Survivors
    <2> QED
      BY <2>1, <1>3
  <1> QED
    BY <1>9, <1>10, <1>11 DEF A, span, WindowOf

\* The emitted spans after a grid point's step.
LEMMA AnswerHistory ==
  ASSUME IInv, NEW h \in hi .. Len(buf), NEW l \in lo .. h, AnswerWith(l, h)
  PROVE  DeterminedInv' /\ WindowsExact'
  <1> USE DEF IInv
  <1> DEFINE span == SubSeq(buf, l + 1, h)
  <1>1. /\ emitted' = Append(emitted, span) /\ next_index' = next_index + 1
        /\ fed' = fed /\ ended' = ended
    BY DEF AnswerWith
  <1>2. /\ span \in Seq(CounterSample) /\ next_index \in Nat
        /\ emitted \in Seq(Seq(CounterSample)) /\ Len(emitted) = next_index
    BY AnswerEffect DEF TypeOK, PointersInv
  <1>3. /\ Elements(span) = WindowOf(fed, next_index)
        /\ \A j, k \in DOMAIN span : j < k => span[j].t < span[k].t
        /\ ended \/ \E k \in DOMAIN fed : fed[k].t > At(next_index)
    BY SpanExact
  <1> HIDE DEF span
  <1>4. /\ DOMAIN emitted = 1 .. next_index
        /\ DOMAIN emitted' = 1 .. next_index + 1
        /\ Len(emitted') = next_index + 1
        /\ \A i \in 1 .. next_index : emitted'[i] = emitted[i]
        /\ emitted'[next_index + 1] = span
    BY <1>1, <1>2
  <1>5. DeterminedInv'
    <2> SUFFICES ASSUME NEW i \in 1 .. next_index + 1
                 PROVE  ended \/ \E k \in DOMAIN fed : fed[k].t > At(i - 1)
        BY <1>1 DEF DeterminedInv
    <2>1. CASE i \in 1 .. next_index
      BY <2>1 DEF DeterminedInv
    <2>2. CASE i = next_index + 1
      <3>1. i - 1 = next_index
        BY <2>2, <1>2
      <3> QED
        BY <3>1, <1>3
    <2> QED
      BY <2>1, <2>2, <1>2
  <1>6. ASSUME NEW i \in 1 .. next_index + 1
        PROVE  /\ \A j, k \in DOMAIN emitted'[i] :
                    j < k => emitted'[i][j].t < emitted'[i][k].t
               /\ Elements(emitted'[i]) = WindowOf(fed, i - 1)
    <2>1. CASE i \in 1 .. next_index
      <3>1. emitted'[i] = emitted[i]
        BY <1>4, <2>1
      <3> QED
        BY <3>1, <2>1, <1>4 DEF WindowsExact
    <2>2. CASE i = next_index + 1
      <3>1. emitted'[i] = span /\ i - 1 = next_index
        BY <1>2, <1>4, <2>2
      <3> QED
        BY <3>1, <1>3
    <2> QED
      BY <2>1, <2>2, <1>2
  <1>7. WindowsExact'
    BY <1>1, <1>4, <1>6 DEF WindowsExact
  <1> QED
    BY <1>5, <1>7

\* The buffer and pointers after a grid point's step.
LEMMA AnswerBuffer ==
  ASSUME IInv, NEW h \in hi .. Len(buf), NEW l \in lo .. h, AnswerWith(l, h)
  PROVE  PointersInv' /\ OrderInv' /\ HeldInv' /\ PassedInv'
  <1> USE DEF IInv
  <1> DEFINE A == At(next_index)
  <1>0. /\ next_index' = next_index + 1 /\ next_index \in Nat
        /\ pending' = pending /\ ended' = ended /\ fed' = fed
        /\ emitted' = Append(emitted, SubSeq(buf, l + 1, h)) /\ Windows(l, h)
    BY DEF AnswerWith, TypeOK
  <1>1. /\ l \in Nat /\ h \in Nat /\ l <= h /\ h <= Len(buf) /\ Len(buf) \in Nat
        /\ DOMAIN buf = 1 .. Len(buf)
        /\ \A k \in DOMAIN buf : buf[k].t \in Int
    BY AnswerEffect, SampleFields DEF TypeOK
  <1>2. /\ \A k \in 1 .. h : buf[k].t <= A
        /\ \A k \in 1 .. l : buf[k].t <= A - Width
    BY <1>0, ScanFacts
  <1>3. /\ A \in Int /\ At(next_index') \in Int /\ A <= At(next_index')
        /\ A = At(next_index' - 1) /\ Width \in Int
        /\ next_index > 0 => At(next_index - 1) \in Int /\ At(next_index - 1) <= A
    <2>1. /\ next_index \in Int /\ next_index' \in Int /\ next_index - 1 \in Int
          /\ next_index - 1 <= next_index /\ next_index <= next_index'
          /\ next_index' - 1 = next_index
      BY <1>0
    <2> QED
      BY <2>1, AtInt, AtMonotone, GridAssumption
  <1>4. Len(emitted') = next_index'
    <2>1. /\ SubSeq(buf, l + 1, h) \in Seq(CounterSample)
          /\ emitted \in Seq(Seq(CounterSample)) /\ Len(emitted) = next_index
      BY AnswerEffect DEF TypeOK, PointersInv
    <2> QED
      BY <1>0, <2>1
  <1>5. \A s \in Survivors(fed) : s.t \in Int
    BY SampleFields DEF Survivors, TypeOK
  <1> HIDE DEF A
  <1>6. CASE buf' = buf /\ hi' = h /\ lo' = l
    <2>1. PointersInv'
      BY <1>1, <1>4, <1>6 DEF PointersInv
    <2>2. OrderInv'
      BY <1>0, <1>6 DEF OrderInv
    <2>3. PassedInv'
      <3> SUFFICES /\ \A k \in 1 .. h : buf[k].t <= At(next_index')
                   /\ \A k \in 1 .. l : buf[k].t <= At(next_index') - Width
          BY <1>6 DEF PassedInv
      <3>1. ASSUME NEW k \in 1 .. h PROVE buf[k].t <= At(next_index')
        <4>1. k \in DOMAIN buf
          BY <1>1
        <4> QED
          BY <4>1, <1>1, <1>2, <1>3
      <3>2. ASSUME NEW k \in 1 .. l PROVE buf[k].t <= At(next_index') - Width
        <4>1. k \in DOMAIN buf
          BY <1>1
        <4> QED
          BY <4>1, <1>1, <1>2, <1>3
      <3> QED
        BY <3>1, <3>2
    <2>4. HeldInv'
      <3>1. next_index' > 0
        BY <1>0
      <3>2. \A s \in Survivors(fed) :
              next_index > 0 /\ s.t <= At(next_index - 1) - Width
                => s.t <= A - Width
        BY <1>3, <1>5
      <3> QED
        BY <3>1, <3>2, <1>0, <1>3, <1>6 DEF HeldInv
    <2> QED
      BY <2>1, <2>2, <2>3, <2>4
  <1>7. CASE buf' = SubSeq(buf, l + 1, Len(buf)) /\ hi' = h - l /\ lo' = 0
    <2>1. /\ Len(buf') = Len(buf) - l
          /\ DOMAIN buf' = 1 .. Len(buf) - l
          /\ \A k \in 1 .. Len(buf) - l : buf'[k] = buf[k + l]
      BY <1>1, <1>7, AnswerEffect
    <2>2. \A k \in 1 .. Len(buf) - l : k + l \in DOMAIN buf
      BY <1>1
    <2>3. PointersInv'
      <3>1. hi' = h - l /\ lo' = 0
        BY <1>7
      <3> HIDE <1>7
      <3> QED
        BY <3>1, <1>1, <1>4, <2>1 DEF PointersInv
    <2>4. OrderInv'
      <3>1. ASSUME NEW j \in DOMAIN buf', NEW k \in DOMAIN buf', j < k
            PROVE  buf'[j].t < buf'[k].t
        <4>1. j \in 1 .. Len(buf) - l /\ k \in 1 .. Len(buf) - l
          BY <2>1
        <4>2. j + l \in DOMAIN buf /\ k + l \in DOMAIN buf /\ j + l < k + l
          BY <1>1, <2>2, <3>1, <4>1
        <4>3. buf[j + l].t < buf[k + l].t
          BY <4>2 DEF OrderInv
        <4> QED
          BY <2>1, <4>1, <4>3
      <3>2. ASSUME pending # <<>>, NEW k \in DOMAIN buf' PROVE buf'[k].t < pending[1].t
        <4>1. k \in 1 .. Len(buf) - l /\ k + l \in DOMAIN buf
          BY <2>1, <2>2
        <4>2. buf[k + l].t < pending[1].t
          BY <3>2, <4>1 DEF OrderInv
        <4> QED
          BY <2>1, <4>1, <4>2
      <3>3. buf = <<>> => buf' = <<>>
        <4> SUFFICES ASSUME buf = <<>> PROVE buf' = <<>>
            OBVIOUS
        <4>1. Len(buf) = 0
          BY EmptySeq
        <4>2. ~(Len(buf') \in Nat \ {0})
          BY <4>1, <1>1, <2>1
        <4>3. buf' \in Seq(CounterSample)
          BY TypeAnswer DEF AnswerPoint, TypeOK
        <4> QED
          BY <4>2, <4>3, EmptySeq, Zenon
      <3> QED
        BY <3>1, <3>2, <3>3, <1>0 DEF OrderInv
    <2>5. PassedInv'
      <3>0. hi' = h - l /\ 1 .. lo' = {}
        BY <1>7
      <3> HIDE <1>7
      <3> SUFFICES \A k \in 1 .. h - l : buf'[k].t <= At(next_index')
          BY <3>0 DEF PassedInv
      <3> SUFFICES ASSUME NEW k \in 1 .. h - l
                   PROVE  buf'[k].t <= At(next_index')
          OBVIOUS
      <3>1. k \in 1 .. Len(buf) - l /\ k + l \in 1 .. h /\ k + l \in DOMAIN buf
        BY <1>1
      <3> QED
        BY <3>1, <2>1, <1>1, <1>2, <1>3
    <2>6. Elements(buf') \subseteq Elements(buf)
      BY <2>1, <2>2 DEF Elements
    <2>7. \A s \in Elements(buf) : s \in Elements(buf') \/ s.t <= A - Width
      <3>1. ASSUME NEW k \in DOMAIN buf, k \notin 1 .. l
            PROVE  buf[k] \in Elements(buf')
        <4>1. k - l \in 1 .. Len(buf) - l /\ (k - l) + l = k
          BY <1>1, <3>1
        <4> QED
          BY <4>1, <2>1 DEF Elements
      <3> QED
        BY <3>1, <1>2 DEF Elements
    <2>8. HeldInv'
      <3>1. next_index' > 0
        BY <1>0
      <3>2. \A s \in Survivors(fed) :
              next_index > 0 /\ s.t <= At(next_index - 1) - Width
                => s.t <= A - Width
        BY <1>3, <1>5
      <3> QED
        BY <3>1, <3>2, <2>6, <2>7, <1>0, <1>3 DEF HeldInv
    <2> QED
      BY <2>3, <2>4, <2>5, <2>8
  <1> QED
    BY <1>6, <1>7, AnswerEffect

LEMMA InvAnswer == IInv /\ AnswerPoint => IInv'
  <1> SUFFICES ASSUME IInv, NEW h \in hi .. Len(buf), NEW l \in lo .. h,
                      AnswerWith(l, h)
               PROVE  IInv'
      BY DEF AnswerPoint
  <1>1. TypeOK'
    BY TypeAnswer DEF IInv, AnswerPoint
  <1> QED
    BY <1>1, AnswerBuffer, AnswerHistory DEF IInv

\* Pointers that moved within one iteration without answering its point.
LEMMA InvScanned ==
  ASSUME IInv, NEW h \in hi .. Len(buf), NEW l \in lo .. h,
         \A k \in 1 .. h : buf[k].t <= At(next_index),
         \A k \in 1 .. l : buf[k].t <= At(next_index) - Width,
         hi' = h, lo' = l, TypeOK',
         UNCHANGED <<pending, buf, next_index, ended, fed, emitted>>
  PROVE  IInv'
  <1> USE DEF IInv
  <1>1. PointersInv'
    BY DEF PointersInv, TypeOK
  <1>2. OrderInv' /\ HeldInv'
    BY DEF OrderInv, HeldInv
  <1>3. PassedInv'
    BY DEF PassedInv
  <1>4. DeterminedInv' /\ WindowsExact'
    BY DEF DeterminedInv, WindowsExact
  <1> QED
    BY <1>1, <1>2, <1>3, <1>4

LEMMA InvThrows == IInv /\ EmitThrows => IInv'
  <1> SUFFICES ASSUME IInv, EmitThrows PROVE IInv'
      OBVIOUS
  <1>1. TypeOK'
    BY TypeStep DEF IInv, Next
  <1>2. PICK h \in hi .. Len(buf) : \E l \in lo .. h :
          Windows(l, h) /\ hi' = h /\ lo' = l
    BY DEF EmitThrows
  <1>3. PICK l \in lo .. h : Windows(l, h) /\ hi' = h /\ lo' = l
    BY <1>2
  <1>4. /\ \A k \in 1 .. h : buf[k].t <= At(next_index)
        /\ \A k \in 1 .. l : buf[k].t <= At(next_index) - Width
    BY <1>3, ScanFacts
  <1> QED
    BY <1>1, <1>3, <1>4, InvScanned DEF EmitThrows

LEMMA InvAwaits == IInv /\ AwaitSample => IInv'
  <1> SUFFICES ASSUME IInv, AwaitSample PROVE IInv'
      OBVIOUS
  <1>1. TypeOK'
    BY TypeStep DEF IInv, Next
  <1> DEFINE h == Len(buf)
  <1>2. h \in hi .. Len(buf) /\ lo \in lo .. h /\ lo \in Nat /\ hi \in Nat
    BY DEF IInv, PointersInv, TypeOK
  <1>3. /\ \A k \in hi + 1 .. h : buf[k].t <= At(next_index)
        /\ hi' = h /\ lo' = lo
        /\ UNCHANGED <<pending, buf, next_index, ended, fed, emitted>>
    BY DEF AwaitSample, ScansHi
  <1>4. /\ \A k \in 1 .. hi : buf[k].t <= At(next_index)
        /\ \A k \in 1 .. lo : buf[k].t <= At(next_index) - Width
    BY DEF IInv, PassedInv
  <1> HIDE DEF h
  <1>5. \A k \in 1 .. h : buf[k].t <= At(next_index)
    BY <1>2, <1>3, <1>4
  <1> QED
    BY <1>1, <1>2, <1>3, <1>4, <1>5, InvScanned

-----------------------------------------------------------------------------
(* Safety *)

LEMMA InvInit == Init => IInv
  <1> SUFFICES ASSUME Init PROVE IInv
      OBVIOUS
  <1>1. TypeOK
    BY TypeInit
  <1>2. Elements(<<>>) = {} /\ Survivors(<<>>) = {} /\ DOMAIN <<>> = {}
    BY DEF Elements, Survivors
  <1>3. Len(<<>>) = 0
    OBVIOUS
  <1>4. PointersInv
    BY <1>3 DEF Init, PointersInv
  <1>5. OrderInv
    BY <1>2 DEF Init, OrderInv
  <1>6. HeldInv
    BY <1>2 DEF Init, HeldInv
  <1>7. PassedInv /\ DeterminedInv
    BY DEF Init, PassedInv, DeterminedInv
  <1>8. WindowsExact
    BY <1>2, <1>3 DEF Init, WindowsExact
  <1> QED
    BY <1>1, <1>4, <1>5, <1>6, <1>7, <1>8 DEF IInv

LEMMA InvStep == IInv /\ [Next]_vars => IInv'
  <1> SUFFICES ASSUME IInv, [Next]_vars PROVE IInv'
      OBVIOUS
  <1>1. ASSUME NEW s \in CounterSample, Feed(s) PROVE IInv'
    BY <1>1, InvFeed
  <1>2. CASE End
    BY <1>2, InvEnd
  <1>3. CASE AnswerPoint
    BY <1>3, InvAnswer
  <1>4. CASE EmitThrows
    BY <1>4, InvThrows
  <1>5. CASE AwaitSample
    BY <1>5, InvAwaits
  <1>6. ASSUME TypeOK',
               UNCHANGED <<pending, buf, lo, hi, next_index, ended, fed, emitted>>
        PROVE  IInv'
    BY <1>6 DEF IInv, PointersInv, OrderInv, HeldInv, PassedInv, DeterminedInv,
                WindowsExact
  <1>7. CASE Resume \/ GridWalked \/ UNCHANGED vars
    <2>1. TypeOK'
      BY TypeStep DEF IInv
    <2> QED
      BY <2>1, <1>6, <1>7 DEF Resume, GridWalked, vars
  <1> QED
    BY <1>1, <1>2, <1>3, <1>4, <1>5, <1>7 DEF Next

\* Every span handed to emit is, and remains as more samples are fed, exactly
\* the deduplicated window of its grid point, in timestamp order.
THEOREM SpansExact == Spec => []WindowsExact
  <1>1. IInv => WindowsExact
    BY DEF IInv
  <1> QED
    BY <1>1, InvInit, InvStep, PTL DEF Spec

-----------------------------------------------------------------------------
(* What stays resident *)

\* The sample held back is inside or past every window still to come, so
\* flushing it costs the residency law nothing.
LEMMA FlushResidency ==
  ASSUME IInv, ResidencyLaw, ~ended, buf' = buf \o pending,
         lo' = lo, next_index' = next_index
  PROVE  ResidencyLaw'
  <1> USE DEF IInv
  <1>1. /\ Len(buf) \in Nat /\ lo \in Nat /\ lo <= Len(buf)
        /\ next_index \in Nat /\ Width \in Int /\ Width >= 0
        /\ \A k \in DOMAIN fed : fed[k].t \in Int
        /\ DOMAIN buf = 1 .. Len(buf)
        /\ \A k \in DOMAIN buf : buf[k].t \in Int
    BY GridAssumption, CountNat, SampleFields DEF TypeOK, PointersInv
  <1>2. /\ Len(buf) <= Len(buf') /\ Len(buf') \in Nat
        /\ DOMAIN buf' = 1 .. Len(buf')
        /\ \A k \in 1 .. Len(buf) : buf'[k] = buf[k]
        /\ Elements(buf') = Elements(buf) \cup Elements(pending)
        /\ \A j, k \in DOMAIN buf' : j < k => buf'[j].t < buf'[k].t
    BY Flushed
  <1>3. ~EmitMayThrow => 2 * lo' <= Len(buf')
    BY <1>1, <1>2 DEF ResidencyLaw
  <1>4. ASSUME next_index > 0, NEW k \in lo + 1 .. Len(buf')
        PROVE  buf'[k].t > At(next_index - 1) - Width
    <2>1. next_index - 1 \in Int /\ At(next_index - 1) \in Int
      BY <1>1, AtInt
    <2>2. CASE k <= Len(buf)
      BY <1>1, <1>2, <1>4, <2>2 DEF ResidencyLaw
    <2>3. CASE k > Len(buf)
      <3>1. k \in DOMAIN buf' /\ buf'[k] \in Elements(buf')
        BY <1>1, <1>2 DEF Elements
      <3>2. buf'[k] \notin Elements(buf)
        <4> SUFFICES ASSUME NEW i \in DOMAIN buf, buf'[k] = buf[i] PROVE FALSE
            BY DEF Elements
        <4>1. \A j \in DOMAIN buf : j \in DOMAIN buf' /\ j < k /\ buf'[j] = buf[j]
                                    /\ buf[j].t \in Int
          <5>1. \A j \in 1 .. Len(buf) : j \in 1 .. Len(buf') /\ j < k
            BY <1>1, <1>2, <2>3
          <5> QED
            BY <5>1, <1>1, <1>2, Zenon
        <4>2. \A j \in DOMAIN buf : buf[j].t < buf'[k].t
          BY <3>1, <4>1, <1>2
        <4> QED
          BY <4>1, <4>2
      <3>3. pending # <<>> /\ buf'[k] = pending[1]
        BY <3>1, <3>2, <1>2, NoElements, PendingFields
      <3>4. PICK j \in DOMAIN fed : fed[j].t > At(next_index - 1)
        <4>1. next_index \in 1 .. next_index
          BY <1>1, <1>4
        <4> QED
          BY <4>1 DEF DeterminedInv
      <3>5. /\ buf'[k].t = fed[Len(fed)].t /\ fed[j].t <= fed[Len(fed)].t
            /\ Len(fed) \in DOMAIN fed
        BY <3>3 DEF OrderInv, TypeOK
      <3> QED
        BY <3>4, <3>5, <2>1, <1>1
    <2> QED
      BY <1>1, <1>2, <2>2, <2>3
  <1> QED
    BY <1>3, <1>4 DEF ResidencyLaw

LEMMA AnswerResidency ==
  ASSUME IInv, NEW h \in hi .. Len(buf), NEW l \in lo .. h, AnswerWith(l, h)
  PROVE  ResidencyLaw'
  <1> DEFINE A == At(next_index)
  <1>1. Windows(l, h) /\ next_index' = next_index + 1
    BY DEF AnswerWith
  <1>2. /\ A \in Int /\ Width \in Int /\ Width >= 0
        /\ \A k \in DOMAIN buf : buf[k].t \in Int
        /\ \A k \in h + 1 .. Len(buf) : buf[k].t > A
        /\ \A k \in l + 1 .. h : buf[k].t > A - Width
    BY <1>1, ScanFacts, GridAssumption
  <1>3. /\ l \in Nat /\ h \in Nat /\ l <= h /\ h <= Len(buf) /\ Len(buf) \in Nat
        /\ DOMAIN buf = 1 .. Len(buf)
    BY AnswerEffect DEF IInv, TypeOK
  <1>4. At(next_index' - 1) = A
    BY <1>1, CountNat DEF IInv, TypeOK
  <1> HIDE DEF A
  <1>5. \A k \in l + 1 .. Len(buf) : buf[k].t > A - Width
    BY <1>2, <1>3
  <1>6. CASE Compacts(l)
    <2>1. /\ lo' = 0 /\ Len(buf') = Len(buf) - l
          /\ \A k \in 1 .. Len(buf) - l : buf'[k] = buf[k + l]
      BY <1>6, AnswerEffect DEF AnswerWith, IInv
    <2>2. \A k \in lo' + 1 .. Len(buf') : buf'[k].t > A - Width
      <3> SUFFICES ASSUME NEW k \in 1 .. Len(buf) - l
                   PROVE  buf'[k].t > A - Width
          BY <2>1
      <3>1. k + l \in l + 1 .. Len(buf)
        BY <1>3
      <3> QED
        BY <3>1, <2>1, <1>5
    <2>3. 2 * lo' <= Len(buf')
      BY <2>1, <1>3
    <2> QED
      BY <2>2, <2>3, <1>4 DEF ResidencyLaw
  <1>7. CASE ~Compacts(l)
    <2>1. lo' = l /\ buf' = buf
      BY <1>7 DEF AnswerWith
    <2>2. 2 * l <= Len(buf)
      BY <1>3, <1>7 DEF Compacts
    <2> QED
      BY <2>1, <2>2, <1>4, <1>5 DEF ResidencyLaw
  <1> QED
    BY <1>6, <1>7

LEMMA LaterRange ==
  \A a, b, n \in Int : a <= b => \A k \in b + 1 .. n : k \in a + 1 .. n
  OBVIOUS

LEMMA ResidencyStep == IInv /\ ResidencyLaw /\ [Next]_vars => ResidencyLaw'
  <1> SUFFICES ASSUME IInv, ResidencyLaw, [Next]_vars PROVE ResidencyLaw'
      OBVIOUS
  <1>1. CASE UNCHANGED <<buf, lo, next_index>>
    BY <1>1 DEF ResidencyLaw
  <1>2. ASSUME NEW s \in CounterSample, Feed(s) PROVE ResidencyLaw'
    BY <1>1, <1>2, FlushResidency DEF Feed
  <1>3. CASE End
    BY <1>3, FlushResidency DEF End
  <1>4. CASE AnswerPoint
    BY <1>4, AnswerResidency DEF AnswerPoint
  <1>5. CASE EmitThrows
    <2>1. PICK h \in hi .. Len(buf) : \E l \in lo .. h : lo' = l
      BY <1>5 DEF EmitThrows
    <2>2. lo <= lo' /\ lo' \in Int /\ lo \in Int /\ Len(buf) \in Int
      BY <2>1 DEF IInv, TypeOK
    <2>3. EmitMayThrow /\ buf' = buf /\ next_index' = next_index
      BY <1>5 DEF EmitThrows
    <2>4. \A k \in lo' + 1 .. Len(buf) : k \in lo + 1 .. Len(buf)
      BY <2>2, LaterRange
    <2> QED
      BY <2>3, <2>4 DEF ResidencyLaw
  <1>6. CASE Resume \/ AwaitSample \/ GridWalked \/ UNCHANGED vars
    BY <1>1, <1>6 DEF Resume, AwaitSample, GridWalked, vars
  <1> QED
    BY <1>2, <1>3, <1>4, <1>5, <1>6 DEF Next

LEMMA ResidencyInit == Init => ResidencyLaw
  <1> SUFFICES ASSUME Init PROVE ResidencyLaw
      OBVIOUS
  <1>1. Len(<<>>) = 0 /\ ~(0 > 0) /\ 2 * 0 <= 0
    OBVIOUS
  <1> QED
    BY <1>1 DEF Init, ResidencyLaw

\* What feed keeps past lo_ is above the lower edge of the last window answered,
\* and a callback that returns leaves at most half of the buffer dropped.
THEOREM ResidencyBounded == Spec => []ResidencyLaw
  BY InvInit, InvStep, ResidencyInit, ResidencyStep, PTL DEF Spec

-----------------------------------------------------------------------------
(* What a call leaves unanswered *)

LEMMA WaitingStep ==
  IInv /\ NothingAnswerableWaits /\ [Next]_vars => NothingAnswerableWaits'
  <1> SUFFICES ASSUME IInv, NothingAnswerableWaits, [Next]_vars,
                      pc' = "idle", ~ended', next_index' < Count, ~EmitMayThrow
               PROVE  \A k \in DOMAIN buf' : buf'[k].t <= At(next_index')
      BY DEF NothingAnswerableWaits
  <1>1. CASE UNCHANGED <<pc, ended, buf, next_index>>
    BY <1>1 DEF NothingAnswerableWaits
  <1>2. ASSUME NEW s \in CounterSample, Feed(s)
        PROVE  UNCHANGED <<pc, ended, buf, next_index>>
    BY <1>2 DEF Feed
  <1>3. CASE AwaitSample
    <2>1. /\ \A k \in hi + 1 .. Len(buf) : buf[k].t <= At(next_index)
          /\ buf' = buf /\ next_index' = next_index
      BY <1>3 DEF AwaitSample, ScansHi
    <2>2. \A k \in 1 .. hi : buf[k].t <= At(next_index)
      BY DEF IInv, PassedInv
    <2>3. \A k \in DOMAIN buf : k \in 1 .. hi \/ k \in hi + 1 .. Len(buf)
      BY DEF IInv, TypeOK
    <2> QED
      BY <2>1, <2>2, <2>3
  <1>4. ~End /\ ~Resume /\ ~AnswerPoint /\ ~EmitThrows
    BY DEF End, Resume, AnswerPoint, AnswerWith, Windows, EmitThrows
  <1>5. ~GridWalked
    BY CountNat DEF GridWalked, IInv, TypeOK
  <1>6. CASE UNCHANGED vars
    BY <1>1, <1>6 DEF vars
  <1> QED
    BY <1>1, <1>2, <1>3, <1>4, <1>5, <1>6 DEF Next

LEMMA WaitingInit == Init => NothingAnswerableWaits
  BY DEF Init, NothingAnswerableWaits

\* A call that returned without the series being ended has answered every grid
\* point the resident samples confirm.
THEOREM NothingWaits == Spec => []NothingAnswerableWaits
  BY InvInit, InvStep, WaitingInit, WaitingStep, PTL DEF Spec

-----------------------------------------------------------------------------
(* Refinement *)

\* The refinement mapping of GridStream!Emission.
Answers(e) == [i \in DOMAIN e |-> Elements(e[i])]

LEMMA AnswersSeq ==
  ASSUME NEW e \in Seq(Seq(CounterSample))
  PROVE  /\ Answers(e) \in Seq(SUBSET CounterSample)
         /\ Len(Answers(e)) = Len(e)
         /\ \A i \in 1 .. Len(e) : Answers(e)[i] = Elements(e[i])
  <1> DEFINE n == Len(e)
  <1>1. n \in Nat /\ DOMAIN e = 1 .. n
    OBVIOUS
  <1>2. \A i \in 1 .. n : Elements(e[i]) \in SUBSET CounterSample
    BY DEF Elements
  <1>3. Answers(e) \in [1 .. n -> SUBSET CounterSample]
    BY <1>1, <1>2 DEF Answers
  <1>4. Answers(e) \in Seq(SUBSET CounterSample)
    <2> HIDE DEF n
    <2>1. Answers(e) \in UNION {[1 .. m -> SUBSET CounterSample] : m \in Nat}
      BY <1>1, <1>3, Zenon
    <2>2. Seq(SUBSET CounterSample)
            = UNION {[1 .. m -> SUBSET CounterSample] : m \in Nat}
      BY SeqDef, Zenon
    <2> QED
      BY <2>1, <2>2, Zenon
  <1>5. Len(Answers(e)) = n
    <2>1. DOMAIN Answers(e) = 1 .. n
      BY <1>1 DEF Answers
    <2>2. Len(Answers(e)) \in Nat /\ DOMAIN Answers(e) = 1 .. Len(Answers(e))
      BY <1>4
    <2> QED
      BY <2>1, <2>2, <1>1
  <1> QED
    BY <1>1, <1>4, <1>5 DEF Answers

LEMMA AnswersAppend ==
  ASSUME NEW e \in Seq(Seq(CounterSample)), NEW w \in Seq(CounterSample)
  PROVE  Answers(Append(e, w)) = Append(Answers(e), Elements(w))
  <1> DEFINE a == Answers(Append(e, w))
             b == Append(Answers(e), Elements(w))
             n == Len(e)
  <1>1. /\ n \in Nat /\ Append(e, w) \in Seq(Seq(CounterSample))
        /\ Len(Append(e, w)) = n + 1
        /\ \A i \in 1 .. n : Append(e, w)[i] = e[i]
        /\ Append(e, w)[n + 1] = w
    OBVIOUS
  <1>2. /\ a \in Seq(SUBSET CounterSample) /\ Len(a) = n + 1
        /\ \A i \in 1 .. n : a[i] = Elements(e[i])
        /\ a[n + 1] = Elements(w)
    <2>1. \A i \in 1 .. n + 1 : a[i] = Elements(Append(e, w)[i])
      BY <1>1, AnswersSeq
    <2>2. Len(a) = n + 1 /\ a \in Seq(SUBSET CounterSample)
      BY <1>1, AnswersSeq
    <2> QED
      BY <1>1, <2>1, <2>2
  <1>3. Elements(w) \in SUBSET CounterSample
    BY DEF Elements
  <1>4. /\ b \in Seq(SUBSET CounterSample) /\ Len(b) = n + 1
        /\ \A i \in 1 .. n : b[i] = Elements(e[i])
        /\ b[n + 1] = Elements(w)
    BY <1>1, <1>3, AnswersSeq
  <1> HIDE DEF a, b
  <1>5. ASSUME NEW i \in 1 .. Len(a) PROVE a[i] = b[i]
    <2>1. CASE i \in 1 .. n
      BY <2>1, <1>2, <1>4, Zenon
    <2>2. CASE i = n + 1
      BY <2>2, <1>2, <1>4, Zenon
    <2>3. i \in 1 .. n + 1
      BY <1>2
    <2> QED
      BY <1>1, <2>1, <2>2, <2>3
  <1>6. a = b
    BY <1>2, <1>4, <1>5, SeqEqual
  <1> QED
    BY <1>6 DEF a, b

LEMMA AnswersEmpty == Answers(<<>>) = <<>>
  <1>1. Answers(<<>>) \in Seq(SUBSET CounterSample) /\ Len(Answers(<<>>)) = 0
    BY AnswersSeq, EmptySeq
  <1> QED
    BY <1>1, EmptySeq

LEMMA RefinesInit == Init => Emission!Init
  BY AnswersEmpty DEF Init, Emission!Init, Answers

LEMMA RefinesStep == IInv /\ [Next]_vars => [Emission!Next]_(Emission!vars)
  <1> SUFFICES ASSUME IInv, [Next]_vars
               PROVE  Emission!Next \/ UNCHANGED Emission!vars
      OBVIOUS
  <1>0. fed \in Seq(CounterSample) /\ emitted \in Seq(Seq(CounterSample))
    BY DEF IInv, TypeOK
  <1>1. ASSUME NEW s \in CounterSample, Feed(s) PROVE Emission!Next
    <2>1. Emission!Take(s)
      BY <1>1 DEF Feed, InOrder, Emission!Take, Emission!InOrder
    <2> QED
      BY <2>1 DEF Emission!Next, Emission!CounterSample, CounterSample
  <1>2. CASE End
    BY <1>2 DEF End, Emission!Next, Emission!Close
  <1>3. CASE AnswerPoint
    <2>1. PICK h \in hi .. Len(buf) : \E l \in lo .. h : AnswerWith(l, h)
      BY <1>3 DEF AnswerPoint
    <2>2. PICK l \in lo .. h : AnswerWith(l, h)
      BY <2>1
    <2> DEFINE span == SubSeq(buf, l + 1, h)
    <2>3. /\ emitted' = Append(emitted, span) /\ fed' = fed /\ ended' = ended
          /\ next_index < Count
      BY <2>2 DEF AnswerWith, Windows
    <2>4. /\ Elements(span) = WindowOf(fed, next_index)
          /\ ended \/ \E k \in DOMAIN fed : fed[k].t > At(next_index)
          /\ span \in Seq(CounterSample)
      BY <2>2, SpanExact, AnswerEffect DEF IInv
    <2> HIDE DEF span
    <2>5. Answers(emitted') = Append(Answers(emitted), WindowOf(fed, next_index))
      BY <2>3, <2>4, <1>0, AnswersAppend
    <2>6. Len(Answers(emitted)) = next_index
      BY <1>0, AnswersSeq DEF IInv, PointersInv
    <2>7. Emission!Answer
      BY <2>3, <2>4, <2>5, <2>6
      DEF Answers, Emission!Answer, Emission!Determined, Emission!WindowOf,
          Emission!Survivors, Emission!Wins, Emission!At, Emission!Contains,
          Emission!Count, WindowOf, Survivors, Wins, At, Contains, Count,
          Emission!dedup_policy, Emission!RankLess, Emission!RankOf,
          Emission!is_stale, Emission!IsNaN, Emission!Magnitude,
          Emission!TotalOrderKey, dedup_policy, RankLess, RankOf, is_stale,
          IsNaN, Magnitude, TotalOrderKey
    <2> QED
      BY <2>7 DEF Emission!Next
  <1>4. CASE UNCHANGED <<fed, ended, emitted>>
    BY <1>4 DEF Emission!vars
  <1>5. CASE Resume \/ EmitThrows \/ AwaitSample \/ GridWalked \/ UNCHANGED vars
    BY <1>4, <1>5 DEF Resume, EmitThrows, AwaitSample, GridWalked, vars
  <1> QED
    BY <1>1, <1>2, <1>3, <1>5 DEF Next

\* The walk implements WindowEmission: it takes and closes as the promise does,
\* answers only determined points, in order, each with its window, and the rest
\* of its steps are invisible.
THEOREM Refines == Spec => ImplementsEmission
  BY InvInit, InvStep, RefinesInit, RefinesStep, PTL
  DEF Spec, Emission!Spec, ImplementsEmission
=============================================================================
