--------------------------- MODULE RateQueryProofs ---------------------------
(***************************************************************************)
(* Proofs about RateQuery, for every range of ticks, every set of series   *)
(* and every set of plans: what the fold makes of a counter's restarts,    *)
(* how far an answer reaches, and that the pushed bound bounds the scan    *)
(* and changes no value.                                                   *)
(***************************************************************************)
EXTENDS RateQuery, InductionLemmas

(* The writer and the clock *)

Scraped == [id : SeriesId, t : Tick, v : Nat, st : Tick \union {Null},
            born : Tick, total : Nat, run : Nat]

Row == [id : SeriesId, t : Tick, v : Nat, st : Tick \union {Null}]

Distinct(rows) == \A p, q \in rows : p.t = q.t => p = q

WriterInv ==
  /\ now \in FirstTick .. LastTick
  /\ counter \in [SeriesId -> Counter]
  /\ \A id \in SeriesId :
       counter[id].v <= counter[id].total /\ counter[id].started \in FirstTick .. now
  /\ scraped \in SUBSET Scraped /\ IsFiniteSet(scraped) /\ Distinct(scraped)
  /\ \A r \in scraped :
       /\ r.t \in FirstTick .. now /\ r.born \in FirstTick .. r.t
       /\ r.st \in {Null, r.born} /\ r.v <= r.total

\* What is known of a counter at a sample p and later, when its value is v, its
\* run began at born, and it has counted total in all and restarted run times.
Precedes(p, v, born, total, run) ==
  /\ p.run <= run /\ p.total <= total
  /\ p.run = run => p.born = born /\ v - p.v = total - p.total
  /\ p.run < run => p.t <= born /\ v <= total - p.total

HistoryInv ==
  /\ \A p \in scraped :
       LET c == counter[p.id] IN Precedes(p, c.v, c.started, c.total, c.run)
  /\ \A p, q \in scraped :
       p.id = q.id /\ p.t < q.t => Precedes(p, q.v, q.born, q.total, q.run)

\* Before the statement there is none; after it, its plan and its table stay.
StatementInv ==
  \/ asked = Null /\ plan = Null /\ table = Null /\ answer = Null
  \/ /\ asked \in Statement /\ plan = Optimized(asked, setting)
     /\ table \in SUBSET Row /\ IsFiniteSet(table) /\ Distinct(table)
     /\ answer = Null \/ answer = Result(plan, table)

IInv == WriterInv /\ HistoryInv /\ StatementInv /\ setting \in BOOLEAN

LEMMA TickFacts ==
  /\ HalfRange \in Int /\ HalfRange > 0 /\ MinTick \in Int /\ MaxTick \in Int
  /\ MinTick = -HalfRange /\ MaxTick = HalfRange - 1
  /\ \A x : x \in Tick <=> x \in Int /\ -HalfRange <= x /\ x < HalfRange
  BY HalfRangeAssumption DEF MinTick, MaxTick, Tick

LEMMA Clock ==
  /\ FirstTick \in Tick /\ LastTick \in Tick /\ FirstTick <= LastTick
  /\ FirstTick \in Int /\ LastTick \in Int
  /\ \A x \in FirstTick .. LastTick : x \in Tick /\ x \in Int
  BY QueryAssumption, TickFacts

LEMMA CounterFields ==
  \A c \in Counter : /\ c.v \in Nat /\ c.started \in Tick /\ c.started \in Int
                     /\ c.total \in Nat /\ c.run \in Nat
  BY TickFacts DEF Counter

LEMMA ScrapedFields ==
  \A r \in Scraped :
    /\ r.id \in SeriesId /\ r.t \in Tick /\ r.t \in Int /\ r.v \in Nat
    /\ r.st \in Tick \union {Null} /\ r.born \in Tick /\ r.born \in Int
    /\ r.total \in Nat /\ r.run \in Nat
  BY TickFacts DEF Scraped

LEMMA RowFields ==
  \A r \in Row : /\ r.id \in SeriesId /\ r.t \in Tick /\ r.t \in Int /\ r.v \in Nat
                 /\ r.st \in Tick \union {Null}
  BY TickFacts DEF Row

LEMMA InvInit == Init => IInv
  <1> SUFFICES ASSUME Init PROVE IInv
      OBVIOUS
  <1>1. /\ now \in FirstTick .. LastTick /\ FirstTick \in FirstTick .. now
        /\ FirstTick \in Tick
    BY Clock DEF Init
  <1>2. counter \in [SeriesId -> Counter]
    BY <1>1 DEF Init, Fresh, Counter
  <1>3. \A id \in SeriesId : counter[id].v <= counter[id].total /\ counter[id].started = FirstTick
    BY DEF Init, Fresh
  <1>4. scraped = {} /\ IsFiniteSet(scraped)
    BY FS_EmptySet DEF Init
  <1>5. WriterInv
    BY <1>1, <1>2, <1>3, <1>4 DEF WriterInv, Distinct
  <1>6. HistoryInv
    BY <1>4 DEF HistoryInv
  <1> QED
    BY <1>5, <1>6 DEF Init, IInv, StatementInv

-----------------------------------------------------------------------------
(* The writer's steps *)

\* A counter's step leaves the rest alone; what it knew of its samples it still
\* knows.
LEMMA CounterStep ==
  ASSUME IInv, NEW id \in Counting, NEW c \in Counter,
         counter' = [counter EXCEPT ![id] = c],
         c.v <= c.total, c.started \in FirstTick .. now,
         \A p \in scraped : p.id = id => Precedes(p, c.v, c.started, c.total, c.run),
         UNCHANGED <<now, scraped, table, setting, asked, plan, answer>>
  PROVE  IInv'
  <1>1. id \in SeriesId
    BY QueryAssumption
  <1>2. /\ counter' \in [SeriesId -> Counter]
        /\ counter'[id] = c
        /\ \A i \in SeriesId \ {id} : counter'[i] = counter[i]
    BY <1>1 DEF IInv, WriterInv
  <1>3. WriterInv'
    BY <1>1, <1>2 DEF IInv, WriterInv, Distinct
  <1>4. HistoryInv'
    <2>1. \A p \in scraped : p.id \in SeriesId
      BY ScrapedFields DEF IInv, WriterInv
    <2>2. ASSUME NEW p \in scraped
          PROVE  Precedes(p, counter'[p.id].v, counter'[p.id].started, counter'[p.id].total,
                          counter'[p.id].run)
      BY <2>1, <1>2 DEF IInv, HistoryInv
    <2> QED
      BY <2>2 DEF IInv, HistoryInv
  <1>5. StatementInv'
    BY DEF IInv, StatementInv
  <1> QED
    BY <1>3, <1>4, <1>5 DEF IInv

LEMMA CountStep ==
  ASSUME IInv, NEW id \in Counting, Count(id)
  PROVE  IInv'
  <1> DEFINE old == counter[id]
             c == [v |-> old.v + 1, started |-> old.started, total |-> old.total + 1,
                   run |-> old.run]
  <1>1. id \in SeriesId /\ old \in Counter
    BY QueryAssumption DEF IInv, WriterInv
  <1>2. /\ old.v \in Nat /\ old.total \in Nat /\ old.run \in Nat /\ old.started \in Tick
        /\ old.v <= old.total /\ old.started \in FirstTick .. now
    BY <1>1, CounterFields DEF IInv, WriterInv
  <1>3. /\ c \in Counter
        /\ c.v = old.v + 1 /\ c.total = old.total + 1
        /\ c.started = old.started /\ c.run = old.run
    BY <1>1, <1>2 DEF Counter
  <1>4. counter' = [counter EXCEPT ![id] = c]
    BY DEF Count
  <1>5. UNCHANGED <<now, scraped, table, setting, asked, plan, answer>>
    BY DEF Count
  <1> HIDE DEF c
  <1>6. ASSUME NEW p \in scraped, p.id = id
        PROVE  Precedes(p, c.v, c.started, c.total, c.run)
    <2>1. Precedes(p, old.v, old.started, old.total, old.run)
      BY <1>6 DEF IInv, HistoryInv
    <2>2. p.v \in Nat /\ p.total \in Nat /\ p.run \in Nat
      BY ScrapedFields DEF IInv, WriterInv
    <2> QED
      BY <2>1, <2>2, <1>2, <1>3 DEF Precedes
  <1>7. c.v <= c.total /\ c.started \in FirstTick .. now
    BY <1>2, <1>3
  <1> QED
    BY <1>3, <1>4, <1>5, <1>6, <1>7, CounterStep

LEMMA RestartStep ==
  ASSUME IInv, NEW id \in Counting, Restart(id)
  PROVE  IInv'
  <1> DEFINE old == counter[id]
             c == [v |-> 0, started |-> now, total |-> old.total, run |-> old.run + 1]
  <1>1. id \in SeriesId /\ old \in Counter
    BY QueryAssumption DEF IInv, WriterInv
  <1>2. /\ old.v \in Nat /\ old.total \in Nat /\ old.run \in Nat /\ old.started \in Int
        /\ old.v <= old.total
    BY <1>1, CounterFields DEF IInv, WriterInv
  <1>3. now \in Tick /\ now \in Int /\ FirstTick \in Int /\ FirstTick <= now
    BY Clock DEF IInv, WriterInv
  <1>4. /\ c \in Counter
        /\ c.v = 0 /\ c.total = old.total /\ c.started = now /\ c.run = old.run + 1
    BY <1>1, <1>2, <1>3 DEF Counter
  <1>5. counter' = [counter EXCEPT ![id] = c]
    BY DEF Restart
  <1>6. UNCHANGED <<now, scraped, table, setting, asked, plan, answer>>
    BY DEF Restart
  <1> HIDE DEF c
  <1>7. ASSUME NEW p \in scraped, p.id = id
        PROVE  Precedes(p, c.v, c.started, c.total, c.run)
    <2>1. Precedes(p, old.v, old.started, old.total, old.run)
      BY <1>7 DEF IInv, HistoryInv
    <2>2. p.v \in Nat /\ p.total \in Nat /\ p.run \in Nat /\ p.t <= now
      BY ScrapedFields, Clock DEF IInv, WriterInv
    <2> QED
      BY <2>1, <2>2, <1>2, <1>4 DEF Precedes
  <1>8. c.v <= c.total /\ c.started \in FirstTick .. now
    BY <1>2, <1>3, <1>4
  <1> QED
    BY <1>4, <1>5, <1>6, <1>7, <1>8, CounterStep

\* A sample is what the counter says at a tick no sample has, later than all.
LEMMA ScrapeStep ==
  ASSUME IInv, NEW id \in SeriesId, Scrape(id)
  PROVE  IInv'
  <1> DEFINE c == counter[id]
  <1>1. PICK st \in {Null} \union {c.started} :
          scraped' = scraped \union
            {[id |-> id, t |-> now, v |-> c.v, st |-> st, born |-> c.started,
              total |-> c.total, run |-> c.run]}
    BY DEF Scrape
  <1> DEFINE s == [id |-> id, t |-> now, v |-> c.v, st |-> st, born |-> c.started,
                   total |-> c.total, run |-> c.run]
  <1>2. /\ c.v \in Nat /\ c.total \in Nat /\ c.run \in Nat
        /\ c.started \in Tick /\ c.started \in Int
        /\ c.v <= c.total /\ c.started \in FirstTick .. now
    <2>1. c \in Counter
      BY DEF IInv, WriterInv
    <2> QED
      BY <2>1, CounterFields DEF IInv, WriterInv
  <1>3. now \in Tick /\ now \in Int /\ FirstTick \in Int /\ FirstTick <= now
    BY Clock DEF IInv, WriterInv
  <1>4. /\ s \in Scraped
        /\ s.id = id /\ s.t = now /\ s.v = c.v /\ s.st = st /\ s.born = c.started
        /\ s.total = c.total /\ s.run = c.run
    BY <1>2, <1>3 DEF Scraped
  <1>5. /\ scraped' = scraped \union {s}
        /\ UNCHANGED <<now, counter, table, setting, asked, plan, answer>>
        /\ \A r \in scraped : r.t # now
    BY <1>1 DEF Scrape
  <1> HIDE DEF s, c
  <1>6. \A r \in scraped : r \in Scraped /\ r.t \in Int /\ r.t < now
    BY <1>3, <1>5, ScrapedFields, Clock DEF IInv, WriterInv
  <1>7. WriterInv'
    <2>1. scraped' \in SUBSET Scraped
      BY <1>4, <1>5 DEF IInv, WriterInv
    <2>2. IsFiniteSet(scraped')
      <3>1. IsFiniteSet(scraped)
        BY DEF IInv, WriterInv
      <3>2. IsFiniteSet(scraped \union {s})
        BY <3>1, FS_AddElement
      <3> QED
        BY <3>2, <1>5
    <2>3. Distinct(scraped')
      BY <1>4, <1>5 DEF IInv, WriterInv, Distinct
    <2>4. /\ s.t \in FirstTick .. now /\ s.born \in FirstTick .. s.t
          /\ s.st \in {Null, s.born} /\ s.v <= s.total
      BY <1>2, <1>3, <1>4
    <2>5. \A r \in scraped' : /\ r.t \in FirstTick .. now /\ r.born \in FirstTick .. r.t
                              /\ r.st \in {Null, r.born} /\ r.v <= r.total
      BY <2>4, <1>5 DEF IInv, WriterInv
    <2> QED
      BY <2>1, <2>2, <2>3, <2>5, <1>5 DEF IInv, WriterInv
  <1>8. HistoryInv'
    <2>1. ASSUME NEW p \in scraped'
          PROVE  Precedes(p, counter'[p.id].v, counter'[p.id].started, counter'[p.id].total,
                          counter'[p.id].run)
      <3>1. CASE p \in scraped
        BY <3>1, <1>5 DEF IInv, HistoryInv
      <3>2. CASE p = s
        BY <3>2, <1>2, <1>4, <1>5 DEF Precedes, c
      <3> QED
        BY <3>1, <3>2, <1>5
    <2>2. ASSUME NEW p \in scraped', NEW q \in scraped', p.id = q.id, p.t < q.t
          PROVE  Precedes(p, q.v, q.born, q.total, q.run)
      <3>1. CASE p \in scraped /\ q \in scraped
        BY <2>2, <3>1 DEF IInv, HistoryInv
      <3>2. CASE p \in scraped /\ q = s
        <4>1. Precedes(p, c.v, c.started, c.total, c.run)
          BY <2>2, <3>2, <1>4 DEF IInv, HistoryInv, c
        <4> QED
          BY <4>1, <3>2, <1>4
      <3>3. CASE p = s
        <4>1. q.t <= now
          BY <1>3, <1>4, <1>5, <1>6
        <4> QED
          BY <4>1, <2>2, <3>3, <1>3, <1>4, <1>5, <1>6
      <3> QED
        BY <3>1, <3>2, <3>3, <1>5
    <2> QED
      BY <2>1, <2>2 DEF HistoryInv
  <1>9. StatementInv'
    BY <1>5 DEF IInv, StatementInv
  <1> QED
    BY <1>5, <1>7, <1>8, <1>9 DEF IInv

LEMMA PassStep ==
  ASSUME IInv, Pass
  PROVE  IInv'
  <1>1. now \in Int /\ LastTick \in Int /\ FirstTick \in Int
        /\ FirstTick <= now /\ now < LastTick /\ now' = now + 1
    BY Clock DEF Pass, IInv, WriterInv
  <1>2. UNCHANGED <<counter, scraped, table, setting, asked, plan, answer>>
    BY DEF Pass
  <1>3. now' \in FirstTick .. LastTick /\ \A x \in FirstTick .. now : x \in FirstTick .. now'
    BY <1>1
  <1>4. WriterInv'
    BY <1>2, <1>3 DEF IInv, WriterInv, Distinct
  <1>5. HistoryInv'
    BY <1>2 DEF IInv, HistoryInv
  <1>6. StatementInv'
    BY <1>2 DEF IInv, StatementInv
  <1> QED
    BY <1>2, <1>4, <1>5, <1>6 DEF IInv

\* The statement's table is the rows without the ghosts.
LEMMA PrepareStep ==
  ASSUME IInv, Prepare
  PROVE  IInv'
  <1> DEFINE row(r) == [id |-> r.id, t |-> r.t, v |-> r.v, st |-> r.st]
  <1>1. /\ asked = Null /\ asked' \in Statement /\ setting' \in BOOLEAN
        /\ plan' = Optimized(asked', setting')
        /\ table' = {row(r) : r \in scraped}
        /\ now' = FirstTick /\ counter' = Fresh /\ scraped' = {}
        /\ answer' = answer
    BY DEF Prepare, Writing
  <1>2. WriterInv'
    <2>1. FirstTick \in FirstTick .. LastTick /\ FirstTick \in FirstTick .. FirstTick
          /\ FirstTick \in Tick
      BY Clock
    <2>2. counter' \in [SeriesId -> Counter]
      BY <1>1, <2>1 DEF Fresh, Counter
    <2>3. \A id \in SeriesId : counter'[id].v <= counter'[id].total /\ counter'[id].started = FirstTick
      BY <1>1 DEF Fresh
    <2>4. scraped' = {} /\ IsFiniteSet(scraped')
      BY <1>1, FS_EmptySet
    <2> QED
      BY <1>1, <2>1, <2>2, <2>3, <2>4 DEF WriterInv, Distinct
  <1>3. HistoryInv'
    BY <1>1 DEF HistoryInv
  <1>4. StatementInv'
    <2>1. \A r \in scraped : row(r) \in Row /\ row(r).t = r.t
      <3>1. \A r \in scraped : r \in Scraped
        BY DEF IInv, WriterInv
      <3> QED
        BY <3>1, ScrapedFields DEF Row
    <2>2. IsFiniteSet(table')
      <3>1. IsFiniteSet(scraped)
        BY DEF IInv, WriterInv
      <3> DEFINE f == [r \in scraped |-> row(r)]
      <3>2. f \in [scraped -> table'] /\ \A x \in table' : \E r \in scraped : f[r] = x
        BY <1>1
      <3> HIDE DEF f
      <3>3. f \in Surjection(scraped, table')
        BY <3>2 DEF Surjection
      <3> QED
        BY <3>1, <3>3, FS_Surjection
    <2>3. Distinct(table')
      BY <1>1, <2>1 DEF Distinct, IInv, WriterInv
    <2>4. table' \in SUBSET Row
      BY <1>1, <2>1
    <2>5. answer = Null
      <3>1. asked = Null /\ Null \notin Statement
        BY <1>1, StatementAssumption
      <3> QED
        BY <3>1 DEF IInv, StatementInv
    <2> QED
      BY <1>1, <2>2, <2>3, <2>4, <2>5 DEF StatementInv
  <1> QED
    BY <1>1, <1>2, <1>3, <1>4 DEF IInv

LEMMA ExecuteStep ==
  ASSUME IInv, Execute
  PROVE  IInv'
  <1>1. /\ UNCHANGED <<now, counter, scraped, table, setting, asked, plan>>
        /\ asked # Null /\ answer' = Result(plan, table)
    BY DEF Execute
  <1>2. WriterInv' /\ HistoryInv'
    BY <1>1 DEF IInv, WriterInv, Distinct, HistoryInv
  <1>3. StatementInv'
    BY <1>1 DEF IInv, StatementInv
  <1> QED
    BY <1>1, <1>2, <1>3 DEF IInv

LEMMA InvStep == IInv /\ [Next]_vars => IInv'
  <1> SUFFICES ASSUME IInv, [Next]_vars PROVE IInv'
      OBVIOUS
  <1>1. ASSUME NEW id \in Counting, Count(id) PROVE IInv'
    BY <1>1, CountStep
  <1>2. ASSUME NEW id \in Counting, Restart(id) PROVE IInv'
    BY <1>2, RestartStep
  <1>3. ASSUME NEW id \in SeriesId, Scrape(id) PROVE IInv'
    BY <1>3, ScrapeStep
  <1>4. CASE Pass
    BY <1>4, PassStep
  <1>5. CASE Prepare
    BY <1>5, PrepareStep
  <1>6. CASE Execute
    BY <1>6, ExecuteStep
  <1>7. CASE UNCHANGED vars
    <2>1. WriterInv' /\ HistoryInv'
      BY <1>7 DEF vars, IInv, WriterInv, Distinct, HistoryInv
    <2>2. StatementInv' /\ setting' \in BOOLEAN
      BY <1>7 DEF vars, IInv, StatementInv
    <2> QED
      BY <2>1, <2>2 DEF IInv
  <1> QED
    BY <1>1, <1>2, <1>3, <1>4, <1>5, <1>6, <1>7 DEF Next

-----------------------------------------------------------------------------
(* The order of a series *)

\* Ascending lists a finite set of distinct timestamps in their order.
LEMMA AscendingFacts ==
  ASSUME NEW S, IsFiniteSet(S), \A s \in S : s.t \in Int, Distinct(S)
  PROVE  /\ Cardinality(S) \in Nat
         /\ DOMAIN Ascending(S) = 1 .. Cardinality(S)
         /\ Len(Ascending(S)) = Cardinality(S) /\ Ascending(S) \in Seq(S)
         /\ \A k \in 1 .. Cardinality(S) : Ascending(S)[k] \in S
         /\ \A j, k \in 1 .. Cardinality(S) : j < k => Ascending(S)[j].t < Ascending(S)[k].t
         /\ \A s \in S : \E k \in 1 .. Cardinality(S) : Ascending(S)[k] = s
  <1> DEFINE n == Cardinality(S)
             key == [s \in S |-> s.t]
             a == Ascending(S)
  <1>1. key \in [S -> Int] /\ \A x, y \in S : key[x] = key[y] => x = y
    BY DEF Distinct
  <1>0. n \in Nat
    BY FS_CardinalityType
  <1>2. PICK rank \in [S -> 1 .. n] :
          /\ \A x \in S, U \in SUBSET S :
               (\A z \in S : z \in U <=> key[z] <= key[x]) => rank[x] = Cardinality(U)
          /\ \A k \in 1 .. n : \E x \in S : rank[x] = k
          /\ \A x, y \in S : key[x] < key[y] <=> rank[x] < rank[y]
    <2> HIDE DEF key
    <2> QED
      BY <1>1, Ranks, SMTT(30)
  <1>3. ASSUME NEW x \in S PROVE rank[x] = Cardinality({q \in S : q.t <= x.t})
    <2> DEFINE U == {q \in S : q.t <= x.t}
    <2>1. U \in SUBSET S /\ \A z \in S : z \in U <=> key[z] <= key[x]
      OBVIOUS
    <2> HIDE DEF key, U
    <2>2. rank[x] = Cardinality(U)
      BY <2>1, <1>2
    <2> QED
      BY <2>2 DEF U
  <1>4. DOMAIN a = 1 .. n /\ Len(a) = n /\ a = [k \in 1 .. n |-> a[k]]
    <2> DEFINE kth(k) == CHOOSE s \in S : Cardinality({q \in S : q.t <= s.t}) = k
    <2>1. a = [k \in 1 .. n |-> kth(k)]
      BY DEF Ascending
    <2> HIDE DEF n, a, kth
    <2>2. DOMAIN a = 1 .. n /\ Len(a) = n
      BY <2>1, <1>0
    <2>3. a = [k \in DOMAIN a |-> a[k]]
      BY <2>1
    <2> QED
      BY <2>2, <2>3
  <1>5. ASSUME NEW k \in 1 .. n PROVE a[k] \in S /\ rank[a[k]] = k
    <2>1. a[k] = CHOOSE s \in S : Cardinality({q \in S : q.t <= s.t}) = k
      BY DEF Ascending
    <2>2. \E s \in S : Cardinality({q \in S : q.t <= s.t}) = k
      BY <1>2, <1>3
    <2> HIDE DEF a
    <2>3. a[k] \in S /\ Cardinality({q \in S : q.t <= a[k].t}) = k
      BY <2>1, <2>2
    <2> QED
      BY <2>3, <1>3
  <1> HIDE DEF a, n
  <1>6. ASSUME NEW j \in 1 .. n, NEW k \in 1 .. n, j < k PROVE a[j].t < a[k].t
    <2>1. key[a[j]] < key[a[k]]
      BY <1>2, <1>5, <1>6
    <2>2. key[a[j]] = a[j].t /\ key[a[k]] = a[k].t
      BY <1>5
    <2> QED
      BY <2>1, <2>2
  <1>7. ASSUME NEW s \in S PROVE \E k \in 1 .. n : a[k] = s
    <2>1. rank[s] \in 1 .. n /\ rank[s] \in Int
      BY <1>2
    <2>2. a[rank[s]] \in S /\ rank[a[rank[s]]] = rank[s]
      BY <2>1, <1>5
    <2>3. ~(key[s] < key[a[rank[s]]]) /\ ~(key[a[rank[s]]] < key[s])
      BY <2>1, <2>2, <1>2
    <2>4. key[s] \in Int /\ key[a[rank[s]]] \in Int
      BY <2>2, <1>1
    <2>5. a[rank[s]] = s
      BY <2>2, <2>3, <2>4, <1>1
    <2> QED
      BY <2>1, <2>5
  <1>8. a \in Seq(S)
    <2>1. a \in [1 .. n -> S]
      BY <1>4, <1>5
    <2> QED
      BY <2>1, <1>0
  <1>9. n = Cardinality(S) /\ a = Ascending(S)
    BY DEF n, a
  <1> QED
    BY <1>0, <1>4, <1>5, <1>6, <1>7, <1>8, <1>9

\* The samples of one series in the writer's order.
Sampled(id) == {r \in scraped : r.id = id}

LEMMA SeriesFacts ==
  ASSUME IInv, NEW id \in SeriesId
  PROVE  LET s == Ascending(Sampled(id))
         IN  /\ Len(s) \in Nat /\ DOMAIN s = 1 .. Len(s) /\ s \in Seq(Scraped)
             /\ \A k \in 1 .. Len(s) :
                  /\ s[k] \in Scraped /\ s[k].v <= s[k].total
                  /\ s[k].st \in {Null, s[k].born} /\ s[k].born <= s[k].t
             /\ \A j, k \in 1 .. Len(s) : j < k =>
                  /\ s[j].t < s[k].t
                  /\ Precedes(s[j], s[k].v, s[k].born, s[k].total, s[k].run)
  <1> DEFINE S == Sampled(id)
             s == Ascending(S)
  <1>1. S \subseteq scraped /\ IsFiniteSet(S) /\ Distinct(S)
    <2>1. S \subseteq scraped /\ IsFiniteSet(scraped) /\ Distinct(scraped)
      BY DEF Sampled, IInv, WriterInv
    <2> HIDE DEF S
    <2> QED
      BY <2>1, FS_Subset DEF Distinct
  <1>2. \A r \in S : /\ r \in scraped /\ r \in Scraped /\ r.t \in Int /\ r.id = id
                     /\ r.v <= r.total /\ r.st \in {Null, r.born} /\ r.born <= r.t
    <2>1. \A r \in scraped : r \in Scraped /\ r.t \in Int /\ r.born \in FirstTick .. r.t
      BY ScrapedFields DEF IInv, WriterInv
    <2>2. FirstTick \in Int
      BY Clock
    <2> QED
      BY <2>1, <2>2, <1>1 DEF Sampled, IInv, WriterInv
  <1> HIDE DEF S
  <1>3. /\ Cardinality(S) \in Nat /\ DOMAIN s = 1 .. Cardinality(S) /\ Len(s) = Cardinality(S)
        /\ s \in Seq(S) /\ \A k \in 1 .. Cardinality(S) : s[k] \in S
        /\ \A j, k \in 1 .. Cardinality(S) : j < k => s[j].t < s[k].t
    BY <1>1, <1>2, AscendingFacts
  <1> HIDE DEF s
  <1>4. \A p, q \in scraped : p.id = q.id /\ p.t < q.t =>
           Precedes(p, q.v, q.born, q.total, q.run)
    BY DEF IInv, HistoryInv
  <1>5. \A j, k \in 1 .. Len(s) : j < k =>
          Precedes(s[j], s[k].v, s[k].born, s[k].total, s[k].run)
    BY <1>2, <1>3, <1>4
  <1> HIDE DEF Precedes
  <1>6. s \in Seq(Scraped)
    BY <1>2, <1>3
  <1>7. s = Ascending(Sampled(id))
    BY DEF s, S
  <1> QED
    BY <1>2, <1>3, <1>5, <1>6, <1>7

-----------------------------------------------------------------------------
(* Resets *)

\* A sample that carries its start timestamp and the one before it.
LEMMA ResetMeaning ==
  ASSUME NEW p \in Scraped, NEW q \in Scraped, p.t < q.t, p.born <= p.t,
         p.st \in {Null, p.born}, q.st \in {Null, q.born},
         p.v <= p.total, q.v <= q.total,
         Precedes(p, q.v, q.born, q.total, q.run)
  PROVE  /\ q.st # Null /\ Restarted(p, q) => value_or_st_reset(p, q)
         /\ value_or_st_reset(p, q) => Restarted(p, q) \/ FreshRun(p, q)
         /\ value_or_st_reset(p, q) /\ ~Restarted(p, q) => q.v >= p.v
  <1>1. /\ p.t \in Int /\ q.t \in Int /\ p.born \in Int /\ q.born \in Int
        /\ p.v \in Nat /\ q.v \in Nat /\ p.total \in Nat /\ q.total \in Nat
        /\ p.run \in Nat /\ q.run \in Nat
    BY ScrapedFields
  <1>2. CASE p.run < q.run
    BY <1>1, <1>2 DEF Precedes, Restarted, value_or_st_reset, st_reset
  <1>3. CASE p.run = q.run
    BY <1>1, <1>3 DEF Precedes, Restarted, FreshRun, value_or_st_reset, st_reset
  <1> QED
    BY <1>1, <1>2, <1>3 DEF Precedes

LEMMA NeighboursReset ==
  ASSUME IInv, NEW id \in SeriesId
  PROVE  LET s == Ascending(Sampled(id))
         IN  \A i \in 1 .. Len(s) - 1 :
               /\ i + 1 \in 1 .. Len(s) /\ i \in 1 .. Len(s)
               /\ s[i + 1].st # Null /\ Restarted(s[i], s[i + 1]) =>
                    value_or_st_reset(s[i], s[i + 1])
               /\ value_or_st_reset(s[i], s[i + 1]) =>
                    Restarted(s[i], s[i + 1]) \/ FreshRun(s[i], s[i + 1])
  <1> DEFINE s == Ascending(Sampled(id))
  <1>1. /\ Len(s) \in Nat
        /\ \A k \in 1 .. Len(s) :
             /\ s[k] \in Scraped /\ s[k].v <= s[k].total
             /\ s[k].st \in {Null, s[k].born} /\ s[k].born <= s[k].t
        /\ \A j, k \in 1 .. Len(s) : j < k =>
             /\ s[j].t < s[k].t
             /\ Precedes(s[j], s[k].v, s[k].born, s[k].total, s[k].run)
    BY SeriesFacts
  <1> HIDE DEF s
  <1> SUFFICES ASSUME NEW i \in 1 .. Len(s) - 1
               PROVE  /\ i + 1 \in 1 .. Len(s) /\ i \in 1 .. Len(s)
                      /\ s[i + 1].st # Null /\ Restarted(s[i], s[i + 1]) =>
                           value_or_st_reset(s[i], s[i + 1])
                      /\ value_or_st_reset(s[i], s[i + 1]) =>
                           Restarted(s[i], s[i + 1]) \/ FreshRun(s[i], s[i + 1])
      BY DEF s
  <1>2. i + 1 \in 1 .. Len(s) /\ i \in 1 .. Len(s) /\ i < i + 1
    BY <1>1
  <1> QED
    BY <1>1, <1>2, ResetMeaning

\* With start timestamps no restart is missed, and without them none is made up.
THEOREM RestartsAreSeen == Spec => []ResetsAreRestarts
  <1>1. IInv => ResetsAreRestarts
    <2> SUFFICES ASSUME IInv, NEW id \in SeriesId,
                        NEW k \in 2 .. Len(Ascending(Sampled(id)))
                 PROVE  LET s == Ascending(Sampled(id))
                            reset == value_or_st_reset(s[k - 1], s[k])
                        IN  /\ s[k].st # Null /\ Restarted(s[k - 1], s[k]) => reset
                            /\ reset => Restarted(s[k - 1], s[k]) \/ FreshRun(s[k - 1], s[k])
        BY DEF ResetsAreRestarts, Sampled
    <2>1. Len(Ascending(Sampled(id))) \in Nat
      BY SeriesFacts
    <2>2. k - 1 \in 1 .. Len(Ascending(Sampled(id))) - 1 /\ (k - 1) + 1 = k
      BY <2>1
    <2> QED
      BY <2>2, NeighboursReset
  <1> QED
    BY <1>1, InvInit, InvStep, PTL DEF Spec

-----------------------------------------------------------------------------
(* Sums *)

\* The function SumOf ends in.
SumUpto(f) ==
  CHOOSE g : g = [i \in 0 .. Len(f) |-> IF i = 0 THEN 0 ELSE g[i - 1] + f[i]]

LEMMA SumFacts ==
  ASSUME NEW f \in Seq(Int)
  PROVE  /\ SumUpto(f) \in [0 .. Len(f) -> Int] /\ SumUpto(f)[0] = 0
         /\ \A i \in 1 .. Len(f) : SumUpto(f)[i] = SumUpto(f)[i - 1] + f[i]
         /\ SumOf(f) = SumUpto(f)[Len(f)]
  <1> DEFINE n == Len(f)
             base == 0
             step == [p \in Int \X (1 .. n) |-> p[1] + f[p[2]]]
             h == SumUpto(f)
  <1>1. n \in Nat /\ base \in Int
    OBVIOUS
  <1>2. step \in Steps(n, Int)
    BY DEF Steps
  <1>3. PICK g : Recursive(g, n, Int, base, step)
    <2> HIDE DEF step, n, base
    <2> QED
      BY <1>1, <1>2, Recursion
  <1>4. g = [i \in 0 .. n |-> IF i = 0 THEN 0 ELSE g[i - 1] + f[i]]
    <2>1. g \in [0 .. n -> Int] /\ g[0] = 0 /\ \A i \in 1 .. n : g[i] = step[<<g[i - 1], i>>]
      BY <1>3 DEF Recursive
    <2>2. \A i \in 1 .. n : i - 1 \in 0 .. n /\ g[i - 1] \in Int
      BY <2>1
    <2>3. \A i \in 1 .. n : g[i] = g[i - 1] + f[i]
      BY <2>1, <2>2
    <2> QED
      BY <2>1, <2>3
  <1>5. h = [i \in 0 .. n |-> IF i = 0 THEN 0 ELSE h[i - 1] + f[i]]
    BY <1>4 DEF SumUpto
  <1> HIDE DEF h
  <1>6. h[0] = 0 /\ \A i \in 1 .. n : h[i] = h[i - 1] + f[i]
    BY <1>1, <1>5
  <1>7. \A i \in 0 .. n : h[i] \in Int
    <2> DEFINE S == {i \in 0 .. n : h[i] \in Int}
    <2>1. 0 \in S
      BY <1>6
    <2>2. ASSUME NEW i \in 1 .. n, i - 1 \in S PROVE i \in S
      BY <2>2, <1>6
    <2> HIDE DEF S
    <2>3. \A i \in 0 .. n : i \in S
      BY <1>1, <2>1, <2>2, UptoInduction
    <2> QED
      BY <2>3 DEF S
  <1>8. h \in [0 .. n -> Int]
    BY <1>5, <1>7
  <1>9. SumOf(f) = h[n] /\ h = SumUpto(f)
    BY DEF SumOf, SumUpto, h
  <1> QED
    BY <1>6, <1>8, <1>9

-----------------------------------------------------------------------------
(* What the fold counts *)

Added(p, q) == IF value_or_st_reset(p, q) THEN p.v ELSE 0
Again(p, q) == IF FreshRun(p, q) THEN p.v ELSE 0
KnownCounted(p, q) == IF Restarted(p, q) THEN q.v ELSE q.total - p.total

\* From one sample to the next.
LEMMA StepEarned ==
  ASSUME NEW p \in Scraped, NEW q \in Scraped, p.t < q.t, p.born <= p.t,
         p.st \in {Null, p.born}, q.st \in {Null, q.born},
         p.v <= p.total, q.v <= q.total,
         Precedes(p, q.v, q.born, q.total, q.run)
  PROVE  /\ Added(p, q) \in Int /\ Again(p, q) \in Int /\ KnownCounted(p, q) \in Int
         /\ Added(p, q) + q.v - p.v <= q.total - p.total + Again(p, q)
         /\ q.st # Null => Added(p, q) + q.v - p.v = Again(p, q) + KnownCounted(p, q)
  <1>1. /\ p.t \in Int /\ q.t \in Int /\ p.born \in Int /\ q.born \in Int
        /\ p.v \in Nat /\ q.v \in Nat /\ p.total \in Nat /\ q.total \in Nat
        /\ p.run \in Nat /\ q.run \in Nat
    BY ScrapedFields
  <1>2. Added(p, q) \in Int /\ Again(p, q) \in Int /\ KnownCounted(p, q) \in Int
    BY <1>1 DEF Added, Again, KnownCounted
  <1>3. CASE p.run < q.run
    BY <1>1, <1>3, <1>2
       DEF Precedes, Restarted, FreshRun, value_or_st_reset, st_reset, Added, Again, KnownCounted
  <1>4. CASE p.run = q.run
    BY <1>1, <1>4, <1>2
       DEF Precedes, Restarted, FreshRun, value_or_st_reset, st_reset, Added, Again, KnownCounted
  <1> QED
    BY <1>1, <1>3, <1>4 DEF Precedes

LEMMA FoldFields ==
  ASSUME NEW X, NEW data \in Seq(X), Len(data) > 0
  PROVE  /\ counter_fold(data).n = Len(data)
         /\ counter_fold(data).first = data[1] /\ counter_fold(data).last = data[Len(data)]
         /\ counter_fold(data).delta = SumOf(Lost(data)) + data[Len(data)].v - data[1].v
  BY DEF counter_fold

\* A stretch of a series.
LEMMA StretchFacts ==
  ASSUME NEW X, NEW s \in Seq(X), NEW j \in 1 .. Len(s), NEW k \in j .. Len(s)
  PROVE  LET data == SubSeq(s, j, k)
         IN  /\ Lost(data) = [i \in 1 .. k - j |-> Added(s[j + i - 1], s[j + i])]
             /\ counter_fold(data).delta = SumOf(Lost(data)) + s[k].v - s[j].v
  <1> DEFINE data == SubSeq(s, j, k)
  <1>1. /\ data \in Seq(X) /\ Len(data) = k - j + 1
        /\ \A i \in 1 .. k - j + 1 : data[i] = s[j + i - 1]
    OBVIOUS
  <1>2. j \in Int /\ k \in Int /\ j <= k /\ k - j \in Nat
    OBVIOUS
  <1> HIDE DEF data
  <1>3. Lost(data) = [i \in 1 .. k - j |-> Added(s[j + i - 1], s[j + i])]
    <2>1. \A i \in 1 .. k - j : /\ i \in 1 .. k - j + 1 /\ i + 1 \in 1 .. k - j + 1
                                /\ j + (i + 1) - 1 = j + i
      BY <1>2
    <2>2. \A i \in 1 .. k - j : data[i] = s[j + i - 1] /\ data[i + 1] = s[j + i]
      BY <1>1, <2>1
    <2>3. Len(data) - 1 = k - j
      BY <1>1, <1>2
    <2> QED
      BY <2>2, <2>3 DEF Lost, Added
  <1>4. data[1] = s[j] /\ data[Len(data)] = s[k] /\ Len(data) > 0
    <2>1. 1 \in 1 .. k - j + 1 /\ k - j + 1 \in 1 .. k - j + 1
          /\ j + 1 - 1 = j /\ j + (k - j + 1) - 1 = k
      BY <1>2
    <2> QED
      BY <1>1, <1>2, <2>1
  <1>5. counter_fold(data).delta = SumOf(Lost(data)) + s[k].v - s[j].v
    BY <1>1, <1>4, FoldFields
  <1> QED
    BY <1>3, <1>5 DEF data

\* Neighbours in a series.
LEMMA NeighboursEarned ==
  ASSUME IInv, NEW id \in SeriesId
  PROVE  LET s == Ascending(Sampled(id))
         IN  \A h \in 1 .. Len(s) - 1 :
               LET p == s[h]
                   q == s[h + 1]
               IN  /\ Added(p, q) \in Int /\ Again(p, q) \in Int /\ KnownCounted(p, q) \in Int
                   /\ Added(p, q) + q.v - p.v <= q.total - p.total + Again(p, q)
                   /\ q.st # Null => Added(p, q) + q.v - p.v = Again(p, q) + KnownCounted(p, q)
  <1> DEFINE s == Ascending(Sampled(id))
  <1>1. /\ Len(s) \in Nat
        /\ \A k \in 1 .. Len(s) :
             /\ s[k] \in Scraped /\ s[k].v <= s[k].total
             /\ s[k].st \in {Null, s[k].born} /\ s[k].born <= s[k].t
        /\ \A j, k \in 1 .. Len(s) : j < k =>
             /\ s[j].t < s[k].t
             /\ Precedes(s[j], s[k].v, s[k].born, s[k].total, s[k].run)
    BY SeriesFacts
  <1> HIDE DEF s
  <1> SUFFICES ASSUME NEW h \in 1 .. Len(s) - 1
               PROVE  LET p == s[h]
                          q == s[h + 1]
                      IN  /\ Added(p, q) \in Int /\ Again(p, q) \in Int
                          /\ KnownCounted(p, q) \in Int
                          /\ Added(p, q) + q.v - p.v <= q.total - p.total + Again(p, q)
                          /\ q.st # Null =>
                               Added(p, q) + q.v - p.v = Again(p, q) + KnownCounted(p, q)
      BY DEF s
  <1>2. h + 1 \in 1 .. Len(s) /\ h \in 1 .. Len(s) /\ h < h + 1
    BY <1>1
  <1>3. /\ s[h] \in Scraped /\ s[h].v <= s[h].total /\ s[h].st \in {Null, s[h].born}
        /\ s[h].born <= s[h].t
        /\ s[h + 1] \in Scraped /\ s[h + 1].v <= s[h + 1].total
        /\ s[h + 1].st \in {Null, s[h + 1].born}
        /\ s[h].t < s[h + 1].t
        /\ Precedes(s[h], s[h + 1].v, s[h + 1].born, s[h + 1].total, s[h + 1].run)
    BY <1>1, <1>2
  <1> QED
    BY <1>3, StepEarned

\* Over a stretch the fold's delta is bounded by what was counted, sample by sample.
LEMMA StretchEarned ==
  ASSUME IInv, NEW id \in SeriesId,
         NEW j \in 1 .. Len(Ascending(Sampled(id))),
         NEW k \in j .. Len(Ascending(Sampled(id)))
  PROVE  LET s == Ascending(Sampled(id))
             delta == counter_fold(SubSeq(s, j, k)).delta
             again == SumOf([i \in 1 .. k - j |-> Again(s[j + i - 1], s[j + i])])
             known == SumOf([i \in 1 .. k - j |-> KnownCounted(s[j + i - 1], s[j + i])])
         IN  /\ delta <= s[k].total - s[j].total + again
             /\ (\A i \in j + 1 .. k : s[i].st # Null) => delta = again + known
  <1> DEFINE s == Ascending(Sampled(id))
             m == k - j
             l == [i \in 1 .. m |-> Added(s[j + i - 1], s[j + i])]
             a == [i \in 1 .. m |-> Again(s[j + i - 1], s[j + i])]
             c == [i \in 1 .. m |-> KnownCounted(s[j + i - 1], s[j + i])]
             known(h) == \A i \in j + 1 .. h : s[i].st # Null
  <1>1. Len(s) \in Nat /\ s \in Seq(Scraped) /\ \A i \in 1 .. Len(s) : s[i] \in Scraped
    BY SeriesFacts
  <1>2. /\ j \in Int /\ k \in Int /\ m \in Nat /\ j + m = k /\ 1 <= j /\ k <= Len(s)
        /\ \A i \in 0 .. m : j + i \in 1 .. Len(s)
    BY <1>1
  <1>3. \A i \in 0 .. m : s[j + i].v \in Int /\ s[j + i].total \in Int
    BY <1>1, <1>2, ScrapedFields
  <1>4. ASSUME NEW i \in 1 .. m
        PROVE  LET p == s[j + i - 1]
                   q == s[j + i]
               IN  /\ Added(p, q) \in Int /\ Again(p, q) \in Int /\ KnownCounted(p, q) \in Int
                   /\ Added(p, q) + q.v - p.v <= q.total - p.total + Again(p, q)
                   /\ q.st # Null => Added(p, q) + q.v - p.v = Again(p, q) + KnownCounted(p, q)
    <2>1. j + i - 1 \in 1 .. Len(s) - 1 /\ (j + i - 1) + 1 = j + i
      BY <1>1, <1>2
    <2> QED
      BY <2>1, NeighboursEarned
  <1>5. counter_fold(SubSeq(s, j, k)).delta = SumOf(l) + s[j + m].v - s[j].v
    BY <1>1, <1>2, StretchFacts
  <1> HIDE DEF s, m
  <1>6. l \in Seq(Int) /\ a \in Seq(Int) /\ c \in Seq(Int) /\ Len(l) = m /\ Len(a) = m /\ Len(c) = m
    BY <1>2, <1>4
  <1>7. \A i \in 1 .. m : /\ l[i] = Added(s[j + i - 1], s[j + i])
                          /\ a[i] = Again(s[j + i - 1], s[j + i])
                          /\ c[i] = KnownCounted(s[j + i - 1], s[j + i])
    OBVIOUS
  <1> HIDE DEF l, a, c
  <1> DEFINE L == SumUpto(l)
             A == SumUpto(a)
             C == SumUpto(c)
             Holds(i) == /\ L[i] + s[j + i].v - s[j].v <= s[j + i].total - s[j].total + A[i]
                         /\ known(j + i) => L[i] + s[j + i].v - s[j].v = A[i] + C[i]
             S == {i \in 0 .. m : Holds(i)}
  <1>8. /\ L \in [0 .. m -> Int] /\ A \in [0 .. m -> Int] /\ C \in [0 .. m -> Int]
        /\ L[0] = 0 /\ A[0] = 0 /\ C[0] = 0
        /\ \A i \in 1 .. m : L[i] = L[i - 1] + l[i] /\ A[i] = A[i - 1] + a[i]
                             /\ C[i] = C[i - 1] + c[i]
        /\ SumOf(l) = L[m] /\ SumOf(a) = A[m] /\ SumOf(c) = C[m]
    BY <1>6, SumFacts
  <1> HIDE DEF L, A, C
  <1>9. 0 \in S
    <2>1. 0 \in 0 .. m /\ j + 0 = j
      BY <1>2
    <2>2. s[j].v \in Int /\ s[j].total \in Int
      BY <2>1, <1>3
    <2> QED
      BY <2>1, <2>2, <1>8
  <1>10. ASSUME NEW i \in 1 .. m, i - 1 \in S PROVE i \in S
    <2>1. /\ i - 1 \in 0 .. m /\ i \in 0 .. m /\ j + (i - 1) = j + i - 1
          /\ 0 \in 0 .. m /\ j + 0 = j
      BY <1>2
    <2>2. /\ s[j + i - 1].v \in Int /\ s[j + i - 1].total \in Int
          /\ s[j + i].v \in Int /\ s[j + i].total \in Int
          /\ s[j].v \in Int /\ s[j].total \in Int
      BY <2>1, <1>3
    <2>3. /\ L[i] = L[i - 1] + l[i] /\ A[i] = A[i - 1] + a[i] /\ C[i] = C[i - 1] + c[i]
          /\ L[i - 1] \in Int /\ A[i - 1] \in Int /\ C[i - 1] \in Int
          /\ l[i] \in Int /\ a[i] \in Int /\ c[i] \in Int
          /\ l[i] + s[j + i].v - s[j + i - 1].v <= s[j + i].total - s[j + i - 1].total + a[i]
          /\ s[j + i].st # Null => l[i] + s[j + i].v - s[j + i - 1].v = a[i] + c[i]
      BY <2>1, <1>4, <1>7, <1>8
    <2>4. /\ L[i - 1] + s[j + i - 1].v - s[j].v <= s[j + i - 1].total - s[j].total + A[i - 1]
          /\ known(j + i - 1) => L[i - 1] + s[j + i - 1].v - s[j].v = A[i - 1] + C[i - 1]
      BY <2>1, <1>10
    <2>5. known(j + i) => known(j + i - 1) /\ s[j + i].st # Null
      BY <1>2
    <2> HIDE DEF known
    <2> DEFINE pv == s[j + i - 1].v
               pt == s[j + i - 1].total
               qv == s[j + i].v
               qt == s[j + i].total
               v0 == s[j].v
               t0 == s[j].total
               li == l[i]
               ai == a[i]
               ci == c[i]
               l0 == L[i - 1]
               a0 == A[i - 1]
               c0 == C[i - 1]
    <2>6. /\ pv \in Int /\ pt \in Int /\ qv \in Int /\ qt \in Int /\ v0 \in Int /\ t0 \in Int
          /\ li \in Int /\ ai \in Int /\ ci \in Int /\ l0 \in Int /\ a0 \in Int /\ c0 \in Int
          /\ li + qv - pv <= qt - pt + ai
          /\ l0 + pv - v0 <= pt - t0 + a0
          /\ known(j + i) => li + qv - pv = ai + ci /\ l0 + pv - v0 = a0 + c0
      BY <2>2, <2>3, <2>4, <2>5
    <2>7. L[i] = l0 + li /\ A[i] = a0 + ai /\ C[i] = c0 + ci
      BY <2>3
    <2> HIDE DEF pv, pt, qv, qt, v0, t0, li, ai, ci, l0, a0, c0
    <2>8. (l0 + li) + qv - v0 <= qt - t0 + (a0 + ai)
      BY <2>6
    <2>9. known(j + i) => (l0 + li) + qv - v0 = (a0 + ai) + (c0 + ci)
      BY <2>6
    <2>10. Holds(i)
      BY <2>7, <2>8, <2>9 DEF qv, qt, v0, t0
    <2> QED
      BY <2>1, <2>10
  <1>11. m \in S
    <2> HIDE DEF S
    <2>1. \A i \in 0 .. m : i \in S
      BY <1>2, <1>9, <1>10, UptoInduction
    <2> QED
      BY <2>1, <1>2
  <1>12. Holds(m)
    BY <1>11
  <1> QED
    BY <1>2, <1>5, <1>8, <1>12 DEF l, a, c, s, m

\* No increase is reported that did not happen.
THEOREM IncreaseEarned == Spec => []IncreaseIsEarned
  <1>1. IInv => IncreaseIsEarned
    <2> SUFFICES ASSUME IInv, NEW id \in SeriesId,
                        NEW j \in DOMAIN Ascending(Sampled(id)),
                        NEW k \in j .. Len(Ascending(Sampled(id)))
                 PROVE  LET s == Ascending(Sampled(id))
                            delta == counter_fold(SubSeq(s, j, k)).delta
                            again == SumOf([i \in 1 .. k - j |-> Again(s[j + i - 1], s[j + i])])
                            known == SumOf([i \in 1 .. k - j |->
                                              KnownCounted(s[j + i - 1], s[j + i])])
                        IN  /\ delta <= s[k].total - s[j].total + again
                            /\ (\A i \in j + 1 .. k : s[i].st # Null) => delta = again + known
        BY DEF IncreaseIsEarned, Sampled, Again, KnownCounted
    <2>1. j \in 1 .. Len(Ascending(Sampled(id)))
      BY SeriesFacts
    <2> QED
      BY <2>1, StretchEarned
  <1> QED
    BY <1>1, InvInit, InvStep, PTL DEF Spec

-----------------------------------------------------------------------------
(* Narrowing to the code's integers *)

LEMMA DivMod ==
  ASSUME NEW m \in Nat \ {0}, NEW x \in Int
  PROVE  /\ x \div m \in Int /\ x % m \in 0 .. m - 1 /\ x = m * (x \div m) + (x % m)
  OBVIOUS

LEMMA AtLeastOnce ==
  ASSUME NEW m \in Nat \ {0}, NEW d \in Int, d >= 1
  PROVE  m * d >= m
  OBVIOUS

LEMMA DivModUnique ==
  ASSUME NEW m \in Nat \ {0}, NEW q \in Int, NEW r \in 0 .. m - 1,
         NEW q1 \in Int, NEW r1 \in 0 .. m - 1, m * q + r = m * q1 + r1
  PROVE  q = q1 /\ r = r1
  <1>1. m * (q - q1) = r1 - r /\ m * (q1 - q) = r - r1
    OBVIOUS
  <1>2. ~(q - q1 >= 1)
    <2> SUFFICES ASSUME q - q1 >= 1 PROVE FALSE
        OBVIOUS
    <2>1. m * (q - q1) >= m
      BY AtLeastOnce
    <2> QED
      BY <1>1, <2>1
  <1>3. ~(q1 - q >= 1)
    <2> SUFFICES ASSUME q1 - q >= 1 PROVE FALSE
        OBVIOUS
    <2>1. m * (q1 - q) >= m
      BY AtLeastOnce
    <2> QED
      BY <1>1, <2>1
  <1> QED
    BY <1>2, <1>3

\* int64 takes the one number of the range that differs by a multiple of its size.
LEMMA Narrowing ==
  /\ \A x \in Int : int64(x) \in Tick /\ \E q \in Int : int64(x) = x - (2 * HalfRange) * q
  /\ \A w \in Tick, q \in Int : int64(w + (2 * HalfRange) * q) = w
  <1> DEFINE m == 2 * HalfRange
  <1>1. /\ m \in Nat \ {0} /\ MinTick \in Int /\ MinTick = -HalfRange /\ HalfRange \in Int
        /\ \A x : x \in Tick <=> x \in Int /\ MinTick <= x /\ x < MinTick + m
    BY TickFacts
  <1>2. \A x : int64(x) = ((x - MinTick) % m) + MinTick
    BY DEF int64
  <1> HIDE DEF m
  <1>3. ASSUME NEW x \in Int
        PROVE  int64(x) \in Tick /\ \E q \in Int : int64(x) = x - m * q
    <2> DEFINE y == x - MinTick
               q == y \div m
               r == y % m
    <2>1. y \in Int
      BY <1>1
    <2>2. q \in Int /\ r \in 0 .. m - 1 /\ y = m * q + r
      <3> HIDE DEF y
      <3> QED
        BY <2>1, <1>1, DivMod
    <2>3. int64(x) = r + MinTick
      BY <1>2
    <2> HIDE DEF q, r
    <2>4. int64(x) \in Tick
      BY <1>1, <2>2, <2>3
    <2>5. m * q \in Int
      BY <1>1, <2>2
    <2>6. int64(x) = x - m * q
      BY <1>1, <2>2, <2>3, <2>5
    <2> QED
      BY <2>2, <2>4, <2>6
  <1>4. ASSUME NEW w \in Tick, NEW q \in Int PROVE int64(w + m * q) = w
    <2> DEFINE y == (w + m * q) - MinTick
               p == y \div m
               r == y % m
               r0 == w - MinTick
    <2>1. m * q \in Int /\ w \in Int /\ r0 \in 0 .. m - 1
      BY <1>1
    <2>2. y \in Int /\ y = m * q + r0
      BY <1>1, <2>1
    <2>3. p \in Int /\ r \in 0 .. m - 1 /\ y = m * p + r
      <3> HIDE DEF y
      <3> QED
        BY <2>2, <1>1, DivMod
    <2>4. int64(w + m * q) = r + MinTick
      BY <1>2
    <2> HIDE DEF y, p, r, r0
    <2>5. r = r0
      BY <2>1, <2>2, <2>3, <1>1, DivModUnique
    <2> QED
      BY <2>1, <2>4, <2>5, <1>1 DEF r0
  <1> QED
    BY <1>3, <1>4 DEF m

\* Within the range nothing is lost, and a difference or a sum that is in the
\* range comes out right though one of its terms was narrowed.
LEMMA NarrowedArithmetic ==
  /\ \A x \in Tick : int64(x) = x
  /\ \A x, y \in Int : x - y \in Tick => int64(x - int64(y)) = x - y
  /\ \A x, y \in Int : x + y \in Tick => int64(x + int64(y)) = x + y
  <1> DEFINE m == 2 * HalfRange
  <1>1. m \in Int /\ \A x \in Tick : x \in Int
    BY TickFacts
  <1>2. /\ \A x \in Int : int64(x) \in Tick /\ \E q \in Int : int64(x) = x - m * q
        /\ \A w \in Tick, q \in Int : int64(w + m * q) = w
    BY Narrowing
  <1> HIDE DEF m
  <1>3. ASSUME NEW x \in Tick PROVE int64(x) = x
    <2>1. m * 0 = 0 /\ x + 0 = x
      BY <1>1
    <2>2. int64(x + m * 0) = x
      BY <1>2
    <2> QED
      BY <2>1, <2>2
  <1>4. ASSUME NEW x \in Int, NEW y \in Int, x - y \in Tick
        PROVE  int64(x - int64(y)) = x - y
    <2>1. PICK q \in Int : int64(y) = y - m * q
      BY <1>2
    <2>2. m * q \in Int
      BY <1>1
    <2>3. x - int64(y) = (x - y) + m * q
      BY <2>1, <2>2
    <2> QED
      BY <2>3, <1>2, <1>4
  <1>5. ASSUME NEW x \in Int, NEW y \in Int, x + y \in Tick
        PROVE  int64(x + int64(y)) = x + y
    <2>1. PICK q \in Int : int64(y) = y - m * q
      BY <1>2
    <2>2. -q \in Int /\ m * q \in Int /\ m * (-q) = -(m * q)
      BY <1>1
    <2>3. x + int64(y) = (x + y) + m * (-q)
      BY <2>1, <2>2
    <2> QED
      BY <2>2, <2>3, <1>2, <1>5
  <1> QED
    BY <1>3, <1>4, <1>5

\* A grid point's index is one of the grid's, for count too narrows, so that its
\* timestamp is in the grid.
LEMMA GridPoints ==
  ASSUME NEW g \in Grid, NEW i \in 0 .. count(g) - 1
  PROVE  at(g, i) \in g.start .. g.end /\ at(g, i) \in Tick
  <1> DEFINE span == g.end - g.start
             q == span \div g.step
             m == 2 * HalfRange
  <1>1. /\ g.start \in Tick /\ g.end \in Tick /\ g.step \in Tick
        /\ g.step > 0 /\ g.end >= g.start /\ span % g.step = 0
    BY DEF Grid
  <1>2. /\ g.start \in Int /\ g.end \in Int /\ g.step \in Nat \ {0} /\ span \in Int
        /\ 0 <= span /\ span < m /\ m \in Int
    BY <1>1, TickFacts
  <1>3. q \in Int /\ span = g.step * q
    <2> HIDE DEF span
    <2>1. span \div g.step \in Int /\ span = g.step * (span \div g.step) + (span % g.step)
      BY <1>2, DivMod
    <2> QED
      BY <1>1, <1>2, <2>1
  <1>4. count(g) = int64(int64(q) + 1)
    BY DEF count
  <1> HIDE DEF span, q, m
  <1>5. 0 <= q /\ q <= span
    <2>1. ~(q <= -1)
      <3> SUFFICES ASSUME q <= -1 PROVE FALSE
          BY <1>3
      <3>1. g.step * (-q) >= g.step
        BY <1>2, <1>3, AtLeastOnce
      <3>2. g.step * (-q) = -(g.step * q)
        BY <1>2, <1>3
      <3> QED
        BY <1>2, <1>3, <3>1, <3>2
    <2>2. g.step * q >= q
      <3>1. 0 <= q /\ g.step >= 1
        BY <2>1, <1>2, <1>3
      <3> QED
        BY <3>1, <1>2, <1>3
    <2> QED
      BY <2>1, <2>2, <1>3
  <1>6. i \in Int /\ 0 <= i /\ count(g) \in Int /\ i + 1 <= count(g)
    <2>1. int64(q) \in Tick /\ int64(q) \in Int
      BY <1>3, Narrowing, TickFacts
    <2>2. count(g) \in Int
      BY <2>1, <1>4, Narrowing, TickFacts
    <2> QED
      BY <2>2
  <1>7. count(g) <= q + 1
    <2>1. CASE q \in Tick /\ q + 1 \in Tick
      BY <2>1, <1>3, <1>4, NarrowedArithmetic
    <2>2. CASE q \in Tick /\ q + 1 \notin Tick
      <3>1. int64(q) = q
        BY <2>2, NarrowedArithmetic
      <3>2. q + 1 = HalfRange /\ HalfRange \in Int
        BY <2>2, <1>3, TickFacts
      <3>3. -HalfRange \in Tick /\ q + 1 = -HalfRange + m * 1
        BY <3>2, TickFacts DEF m
      <3>4. int64(q + 1) = -HalfRange
        BY <3>3, Narrowing DEF m
      <3> QED
        BY <3>1, <3>2, <3>4, <1>3, <1>4, <1>5
    <2>3. CASE q \notin Tick
      <3>1. q - m \in Tick /\ q - m + 1 \in Tick /\ q = (q - m) + m * 1
        BY <2>3, <1>2, <1>3, <1>5, TickFacts DEF m
      <3>2. int64(q) = q - m
        BY <3>1, Narrowing DEF m
      <3>3. int64(q - m + 1) = q - m + 1
        BY <3>1, NarrowedArithmetic
      <3> QED
        BY <3>2, <3>3, <1>2, <1>3, <1>4, <1>5
    <2> QED
      BY <2>1, <2>2, <2>3
  <1>8. i * g.step \in Int /\ 0 <= i * g.step /\ i * g.step <= span
    <2>1. i <= q
      BY <1>3, <1>6, <1>7
    <2>2. g.step * (q - i) >= 0
      BY <2>1, <1>2, <1>3, <1>6
    <2>3. g.step * (q - i) = g.step * q - i * g.step
      BY <1>2, <1>3, <1>6
    <2>4. i * g.step >= 0 /\ i * g.step \in Int
      BY <1>2, <1>6
    <2> QED
      BY <1>2, <1>3, <2>2, <2>3, <2>4
  <1>9. g.start + i * g.step \in g.start .. g.end /\ g.start + i * g.step \in Tick
    BY <1>1, <1>2, <1>8, TickFacts DEF span
  <1>10. at(g, i) = g.start + i * g.step
    BY <1>2, <1>8, <1>9, NarrowedArithmetic DEF at
  <1> QED
    BY <1>9, <1>10

-----------------------------------------------------------------------------
(* The statement and its windows *)

LEMMA PlanFields ==
  ASSUME NEW p, WellFormed(p)
  PROVE  /\ p \in Plan
         /\ p.top \in {"aggregate", "grid_stream"} /\ p.grid \in Grid
         /\ p.chain \in Seq(Inner \union TableScan)
         /\ p.calls \in Seq([fn : {"ts_rate", "count_star"}, window : 1 .. MaxTick])
         /\ p.ts \in Expression /\ p.value \in Expression /\ p.start_ts \in Expression
         /\ \A c \in DOMAIN p.calls :
              /\ p.calls[c].window \in Int /\ p.calls[c].window > 0
              /\ p.calls[c].window <= MaxTick
              /\ p.calls[c].fn \in {"ts_rate", "count_star"}
  <1>1. p \in Plan
    BY DEF WellFormed
  <1>2. /\ p.top \in {"aggregate", "grid_stream"} /\ p.grid \in Grid
        /\ p.chain \in Seq(Inner \union TableScan)
        /\ p.calls \in Seq([fn : {"ts_rate", "count_star"}, window : 1 .. MaxTick])
        /\ p.ts \in Expression /\ p.value \in Expression /\ p.start_ts \in Expression
    BY <1>1 DEF Plan
  <1>3. ASSUME NEW c \in DOMAIN p.calls
        PROVE  /\ p.calls[c].window \in 1 .. MaxTick
               /\ p.calls[c].fn \in {"ts_rate", "count_star"}
    <2> DEFINE C == [fn : {"ts_rate", "count_star"}, window : 1 .. MaxTick]
               calls == p.calls
    <2>1. calls \in Seq(C)
      BY <1>2
    <2>2. calls[c] \in C
      <3> HIDE DEF C, calls
      <3>1. c \in DOMAIN calls
        BY <1>3 DEF calls
      <3> QED
        BY <2>1, <3>1
    <2> HIDE DEF calls
    <2>3. calls[c].window \in 1 .. MaxTick /\ calls[c].fn \in {"ts_rate", "count_star"}
      BY <2>2
    <2> QED
      BY <2>3 DEF calls
  <1> QED
    BY <1>1, <1>2, <1>3, TickFacts

LEMMA StatementFacts ==
  ASSUME IInv, asked # Null
  PROVE  /\ asked \in Statement /\ WellFormed(asked) /\ plan = Optimized(asked, setting)
         /\ table \in SUBSET Row /\ IsFiniteSet(table) /\ Distinct(table)
         /\ answer = Null \/ answer = Result(plan, table)
  <1>1. StatementInv
    BY DEF IInv
  <1> QED
    BY <1>1, StatementAssumption DEF StatementInv

LEMMA GridFields ==
  ASSUME NEW g \in Grid
  PROVE  /\ g.start \in Tick /\ g.end \in Tick /\ g.start \in Int /\ g.end \in Int
         /\ g.start <= g.end
  BY TickFacts DEF Grid

\* What one window holds: rows of one series, ascending, between its edges.
LEMMA WindowFacts ==
  ASSUME IInv, NEW w \in Windows
  PROVE  /\ w.anchor \in Tick /\ w.low \in Int /\ w.low < w.anchor
         /\ w.anchor - w.low <= MaxTick
         /\ w.data \in Seq(Row) /\ Len(w.data) \in Nat
         /\ \A k \in 1 .. Len(w.data) :
              w.data[k] \in Row /\ w.low < w.data[k].t /\ w.data[k].t <= w.anchor
         /\ \A j, k \in 1 .. Len(w.data) : j < k => w.data[j].t < w.data[k].t
  <1>1. asked # Null
    BY DEF Windows
  <1>2. PICK c \in DOMAIN asked.calls, i \in 0 .. count(asked.grid) - 1, id \in SeriesId :
          w = [low |-> at(asked.grid, i) - asked.calls[c].window, anchor |-> at(asked.grid, i),
               data |-> WindowOf({r \in table : r.id = id}, at(asked.grid, i),
                                 asked.calls[c].window)]
    BY <1>1 DEF Windows
  <1> DEFINE anchor == at(asked.grid, i)
             window == asked.calls[c].window
             S == {s \in {r \in table : r.id = id} : Contains(anchor, window, s.t)}
  <1>3. w.low = anchor - window /\ w.anchor = anchor /\ w.data = Ascending(S)
    BY <1>2 DEF WindowOf
  <1>4. WellFormed(asked) /\ table \in SUBSET Row /\ IsFiniteSet(table) /\ Distinct(table)
    BY <1>1, StatementFacts
  <1>5. /\ anchor \in Tick /\ anchor \in Int
        /\ window \in Int /\ window > 0 /\ window <= MaxTick
    BY <1>4, PlanFields, GridPoints, TickFacts
  <1> HIDE DEF anchor, window
  <1>6. /\ S \subseteq table
        /\ \A s \in S : s \in Row /\ s.t \in Int /\ anchor - window < s.t /\ s.t <= anchor
    BY <1>4, RowFields DEF Contains
  <1>7. IsFiniteSet(S) /\ Distinct(S)
    <2> HIDE DEF S
    <2> QED
      BY <1>4, <1>6, FS_Subset DEF Distinct
  <1> HIDE DEF S
  <1>8. /\ Cardinality(S) \in Nat
        /\ Len(w.data) = Cardinality(S) /\ w.data \in Seq(S)
        /\ \A k \in 1 .. Cardinality(S) : w.data[k] \in S
        /\ \A j, k \in 1 .. Cardinality(S) : j < k => w.data[j].t < w.data[k].t
    BY <1>3, <1>6, <1>7, AscendingFacts
  <1>9. w.data \in Seq(Row)
    BY <1>6, <1>8
  <1> QED
    BY <1>3, <1>5, <1>6, <1>8, <1>9

-----------------------------------------------------------------------------
(* Extrapolation *)

LEMMA ProductOrder ==
  ASSUME NEW a \in Int, NEW b \in Int, NEW k \in Int, k > 0
  PROVE  /\ a * k < b * k <=> a < b
         /\ a * k <= b * k <=> a <= b
         /\ a * k \in Int
  OBVIOUS

\* An answer reaches at most over the gap to the edge.
LEMMA EdgeReach ==
  ASSUME NEW gap \in Nat, NEW sampled \in Nat, NEW intervals \in Nat, intervals > 0
  PROVE  LET e == ToEdge(gap, sampled, intervals)
         IN  /\ e[1] \in Int /\ e[2] \in Int /\ e[1] >= 0 /\ e[2] > 0
             /\ e[1] <= gap * e[2]
  <1>1. CASE 11 * sampled < gap * (10 * intervals)
    <2> DEFINE prod == gap * intervals
    <2>1. prod \in Int /\ prod >= 0 /\ gap * (10 * intervals) = 10 * prod
          /\ gap * (2 * intervals) = 2 * prod
      OBVIOUS
    <2>2. ToEdge(gap, sampled, intervals) = <<sampled, 2 * intervals>>
      BY <1>1 DEF ToEdge, Less
    <2> HIDE DEF prod
    <2>3. sampled <= 2 * prod
      BY <1>1, <2>1
    <2> QED
      BY <2>1, <2>2, <2>3
  <1>2. CASE ~(11 * sampled < gap * (10 * intervals))
    <2>1. ToEdge(gap, sampled, intervals) = <<gap, 1>>
      BY <1>2 DEF ToEdge, Less
    <2> QED
      BY <2>1
  <1> QED
    BY <1>1, <1>2

\* The clamp shortens, and to where the answer's line is not below zero.
LEMMA ClampReach ==
  ASSUME NEW start, NEW eff, NEW sampled \in Nat, NEW gap \in Nat,
         start[1] \in Int, start[2] \in Int, start[1] >= 0, start[2] > 0,
         start[1] <= gap * start[2],
         eff.v \in Nat, eff.delta \in Int
  PROVE  LET c == Clamped(start, eff, sampled)
         IN  /\ c[1] \in Int /\ c[2] \in Int /\ c[1] >= 0 /\ c[2] > 0
             /\ c[1] <= gap * c[2]
             /\ eff.delta > 0 => c[1] * eff.delta <= (sampled * eff.v) * c[2]
             /\ start[1] = 0 => c[1] = 0
  <1> DEFINE rise == sampled * eff.v
             delta == eff.delta
             c == Clamped(start, eff, sampled)
  <1>1. rise \in Int /\ rise >= 0 /\ delta \in Int
    OBVIOUS
  <1>2. c = IF delta > 0 /\ rise * start[2] < start[1] * delta THEN <<rise, delta>> ELSE start
    BY DEF Clamped, Less
  <1> HIDE DEF rise, c, delta
  <1>3. CASE delta > 0 /\ rise * start[2] < start[1] * delta
    <2>1. c[1] = rise /\ c[2] = delta
      BY <1>2, <1>3
    <2>2. start[1] * delta <= (gap * start[2]) * delta
      BY <1>1, <1>3, ProductOrder
    <2>3. (gap * start[2]) * delta = (gap * delta) * start[2] /\ gap * delta \in Int
      BY <1>1
    <2>4. rise * start[2] < (gap * delta) * start[2]
      BY <1>1, <1>3, <2>2, <2>3
    <2>5. rise < gap * delta
      BY <1>1, <2>3, <2>4, ProductOrder
    <2>6. start[1] = 0 => FALSE
      <3> SUFFICES ASSUME start[1] = 0 PROVE FALSE
          OBVIOUS
      <3>1. start[1] * delta = 0 /\ rise * start[2] >= 0
        BY <1>1
      <3> QED
        BY <1>1, <1>3, <3>1
    <2> QED
      BY <1>1, <1>3, <2>1, <2>3, <2>5, <2>6 DEF rise, delta, c
  <1>4. CASE ~(delta > 0 /\ rise * start[2] < start[1] * delta)
    <2>1. c = start
      BY <1>2, <1>4
    <2>2. delta > 0 => start[1] * delta <= rise * start[2]
      BY <1>1, <1>4
    <2> QED
      BY <2>1, <2>2 DEF rise, delta, c
  <1> QED
    BY <1>3, <1>4

\* What is lost at restarts, and the increase, are numbers.
LEMMA LostFacts ==
  ASSUME NEW data \in Seq(Row), Len(data) > 0
  PROVE  Lost(data) \in Seq(Int) /\ counter_fold(data).delta \in Int
  <1>1. Len(data) \in Nat /\ \A i \in 1 .. Len(data) : data[i].v \in Int
    BY RowFields
  <1>2. \A i \in 1 .. Len(data) - 1 :
          (IF value_or_st_reset(data[i], data[i + 1]) THEN data[i].v ELSE 0) \in Int
    BY <1>1
  <1>3. Lost(data) \in Seq(Int)
    BY <1>1, <1>2 DEF Lost
  <1>4. SumOf(Lost(data)) \in Int
    <2> DEFINE lost == Lost(data)
    <2>1. Len(lost) \in 0 .. Len(lost) /\ lost \in Seq(Int)
      BY <1>3
    <2> HIDE DEF lost
    <2>2. SumOf(lost) \in Int
      BY <2>1, SumFacts
    <2> QED
      BY <2>2 DEF lost
  <1>5. data[1].v \in Int /\ data[Len(data)].v \in Int
    BY <1>1
  <1> QED
    BY <1>3, <1>4, <1>5, FoldFields

\* What the extrapolation of a window that has samples starts from.  A window's
\* start before the first tick wraps to one that no start timestamp is after.
LEMMA EffectiveFacts ==
  ASSUME IInv, NEW w \in Windows, w.data # <<>>
  PROVE  LET fold == counter_fold(w.data)
             low == int64(w.low)
             eff == Effective(fold, low)
             left == left_st_inside_window(fold, low)
         IN  /\ fold.n = Len(w.data) /\ fold.n \in Nat /\ fold.n > 0
             /\ fold.first = w.data[1] /\ fold.first \in Row /\ fold.delta \in Int
             /\ fold.last.t \in Int /\ fold.last.t <= w.anchor
             /\ eff.n = (IF left THEN fold.n + 1 ELSE fold.n)
             /\ eff.delta = (IF left THEN fold.delta + fold.first.v ELSE fold.delta)
             /\ eff.v \in Nat /\ eff.delta \in Int
             /\ eff.t \in Int /\ w.low < eff.t /\ eff.t <= fold.last.t
             /\ int64(eff.t - low) = eff.t - w.low
             /\ int64(w.anchor - fold.last.t) = w.anchor - fold.last.t
  <1> DEFINE fold == counter_fold(w.data)
             low == int64(w.low)
             eff == Effective(fold, low)
             left == left_st_inside_window(fold, low)
             n == Len(w.data)
             first == w.data[1]
             last == w.data[n]
             first_t == first.t
             last_t == last.t
             eff_t == eff.t
             bottom == w.low
             anchor == w.anchor
  <1>1. /\ anchor \in Tick /\ anchor \in Int /\ bottom \in Int /\ bottom < anchor
        /\ anchor - bottom <= MaxTick
        /\ n \in Nat /\ w.data \in Seq(Row)
        /\ \A k \in 1 .. n : w.data[k] \in Row /\ bottom < w.data[k].t /\ w.data[k].t <= anchor
        /\ \A j, k \in 1 .. n : j < k => w.data[j].t < w.data[k].t
    BY WindowFacts, TickFacts
  <1>2. n > 0 /\ 1 \in 1 .. n /\ n \in 1 .. n
    BY <1>1
  <1>3. fold.n = n /\ fold.first = first /\ fold.last = last /\ fold.delta \in Int
    BY <1>1, <1>2, FoldFields, LostFacts
  <1>4. /\ first \in Row /\ first_t \in Int /\ last_t \in Int /\ first.v \in Nat
        /\ first.st \in Tick \union {Null}
        /\ bottom < first_t /\ first_t <= last_t /\ last_t <= anchor
    <2>1. first \in Row /\ last \in Row /\ bottom < first_t /\ last_t <= anchor
      BY <1>1, <1>2
    <2>2. first_t \in Int /\ last_t \in Int /\ first.v \in Nat /\ first.st \in Tick \union {Null}
      BY <2>1, RowFields
    <2>3. CASE n = 1
      BY <2>1, <2>2, <2>3
    <2>4. CASE 1 < n
      <3>1. first_t < last_t
        BY <1>1, <1>2, <2>4
      <3> QED
        BY <2>1, <2>2, <3>1
    <2>5. n = 1 \/ 1 < n
      <3> HIDE DEF n
      <3> QED
        BY <1>1, <1>2
    <2> QED
      BY <2>3, <2>4, <2>5
  <1>5. low \in Tick /\ low \in Int /\ bottom <= low
    <2>1. low \in Tick /\ low \in Int
      BY <1>1, Narrowing, TickFacts
    <2>2. CASE bottom \in Tick
      BY <2>2, <2>1, NarrowedArithmetic
    <2>3. CASE bottom \notin Tick
      <3> HIDE DEF low, bottom
      <3> QED
        BY <2>3, <2>1, <1>1, TickFacts
    <2> QED
      BY <2>1, <2>2, <2>3
  <1>6. left => first.st \in Int /\ low < first.st /\ first.st < first_t
    BY <1>3, <1>4, TickFacts DEF left_st_inside_window
  <1>7. /\ eff.n = (IF left THEN fold.n + 1 ELSE fold.n)
        /\ eff.delta = (IF left THEN fold.delta + fold.first.v ELSE fold.delta)
        /\ eff_t = (IF left THEN first.st ELSE first_t)
        /\ eff.v = (IF left THEN 0 ELSE first.v)
    BY <1>3 DEF Effective
  <1> HIDE DEF fold, eff, left, first, last, low, n
  <1>8. eff_t \in Int /\ bottom < eff_t /\ eff_t <= last_t
    <2>1. CASE left
      <3> DEFINE st == first.st
      <3>1. st \in Int /\ low < st /\ st < first_t /\ eff_t = st
        BY <2>1, <1>6, <1>7
      <3> HIDE DEF st, first_t, last_t, eff_t, bottom, anchor
      <3> QED
        BY <3>1, <1>1, <1>4, <1>5
    <2>2. CASE ~left
      BY <2>2, <1>7, <1>4
    <2> QED
      BY <2>1, <2>2
  <1>9. eff.v \in Nat /\ eff.delta \in Int
    BY <1>3, <1>4, <1>7
  <1>10. int64(eff_t - low) = eff_t - bottom /\ int64(anchor - last_t) = anchor - last_t
    <2> HIDE DEF first_t, last_t, eff_t, bottom, anchor
    <2>1. eff_t - bottom \in Tick /\ anchor - last_t \in Tick
      BY <1>1, <1>4, <1>8, TickFacts
    <2>2. int64(eff_t - int64(bottom)) = eff_t - bottom
      BY <2>1, <1>1, <1>8, NarrowedArithmetic
    <2> QED
      BY <2>1, <2>2, NarrowedArithmetic DEF low, bottom
  <1> QED
    BY <1>1, <1>2, <1>3, <1>4, <1>7, <1>8, <1>9, <1>10 DEF fold, eff, left, first, last, low, n

LEMMA ProductOfInts ==
  ASSUME NEW a \in Int, NEW b \in Int
  PROVE  a * b \in Int
  OBVIOUS

\* With two samples, the zero included, there is an answer, and each edge's share
\* of it stays within the edge's gap.
LEMMA AnswerReach ==
  ASSUME IInv, NEW w \in Windows, w.data # <<>>,
         Effective(counter_fold(w.data), int64(w.low)).n >= 2
  PROVE  LET fold == counter_fold(w.data)
             low == int64(w.low)
             eff == Effective(fold, low)
             ex == extrapolate(fold, low, w.anchor)
             gap == eff.t - w.low
             tail == w.anchor - fold.last.t
             sampled == fold.last.t - eff.t
         IN  /\ ex \in Extrapolation
             /\ ex.to_start[1] >= 0 /\ ex.to_start[2] > 0
             /\ ex.to_start[1] <= gap * ex.to_start[2]
             /\ ex.to_end[1] >= 0 /\ ex.to_end[2] > 0
             /\ ex.to_end[1] <= tail * ex.to_end[2]
             /\ eff.delta > 0 =>
                  ex.to_start[1] * eff.delta <= (sampled * eff.v) * ex.to_start[2]
             /\ left_st_inside_window(fold, low) => ex.to_start[1] = 0
  <1> DEFINE fold == counter_fold(w.data)
             low == int64(w.low)
             eff == Effective(fold, low)
             left == left_st_inside_window(fold, low)
             ex == extrapolate(fold, low, w.anchor)
             gap == eff.t - w.low
             tail == w.anchor - fold.last.t
             sampled == fold.last.t - eff.t
             intervals == eff.n - 1
             open == IF left THEN <<0, 1>> ELSE ToEdge(gap, sampled, intervals)
             start == Clamped(open, eff, sampled)
             end == ToEdge(tail, sampled, intervals)
             reach == Plus(<<sampled, 1>>, Plus(start, end))
  <1>1. /\ fold.n \in Nat /\ fold.n > 0 /\ fold.last.t \in Int /\ fold.last.t <= w.anchor
        /\ eff.n = (IF left THEN fold.n + 1 ELSE fold.n)
        /\ eff.v \in Nat /\ eff.delta \in Int
        /\ eff.t \in Int /\ w.low < eff.t /\ eff.t <= fold.last.t
        /\ int64(eff.t - low) = gap /\ int64(w.anchor - fold.last.t) = tail
    BY EffectiveFacts
  <1>2. w.anchor \in Int /\ w.low \in Int
    BY WindowFacts, TickFacts
  <1>3. eff.n >= 2
    OBVIOUS
  <1>4. gap \in Nat /\ tail \in Nat /\ sampled \in Nat /\ intervals \in Nat /\ intervals > 0
    <2> HIDE DEF fold, eff, low, left
    <2>1. gap \in Nat /\ tail \in Nat /\ sampled \in Nat
      BY <1>1, <1>2, SMTT(30)
    <2>2. eff.n \in Nat
      BY <1>1
    <2> QED
      BY <1>3, <2>1, <2>2
  <1>5. ex = [to_start |-> start, to_end |-> end,
              value |-> <<eff.delta * reach[1], reach[2] * sampled>>]
    <2> HIDE DEF fold, low, eff, left, start, end, reach, open
    <2>1. ~(fold.n = 0) /\ ~(eff.n < 2)
      BY <1>1, <1>3
    <2>2. start = Clamped(IF left THEN <<0, 1>>
                          ELSE ToEdge(int64(eff.t - low), sampled, intervals), eff, sampled)
      BY <1>1 DEF start, open
    <2>3. end = ToEdge(int64(w.anchor - fold.last.t), sampled, intervals)
      BY <1>1 DEF end
    <2>4. sampled = fold.last.t - eff.t
      OBVIOUS
    <2> HIDE DEF sampled
    <2> QED
      BY <2>1, <2>2, <2>3, <2>4 DEF extrapolate, eff, left, reach
  <1> HIDE DEF fold, low, eff, left, gap, tail, sampled, intervals, ex, start, end, reach
  <1>6. /\ open[1] \in Int /\ open[2] \in Int /\ open[1] >= 0 /\ open[2] > 0
        /\ open[1] <= gap * open[2]
        /\ left => open[1] = 0
    <2>1. CASE left
      BY <2>1, <1>4
    <2>2. CASE ~left
      BY <2>2, <1>4, EdgeReach
    <2> QED
      BY <2>1, <2>2
  <1> HIDE DEF open
  <1>7. /\ start[1] \in Int /\ start[2] \in Int /\ start[1] >= 0 /\ start[2] > 0
        /\ start[1] <= gap * start[2]
        /\ eff.delta > 0 => start[1] * eff.delta <= (sampled * eff.v) * start[2]
        /\ left => start[1] = 0
    BY <1>1, <1>4, <1>6, ClampReach DEF start
  <1>8. /\ end[1] \in Int /\ end[2] \in Int /\ end[1] >= 0 /\ end[2] > 0
        /\ end[1] <= tail * end[2]
    BY <1>4, EdgeReach DEF end
  <1>9. start \in Int \X Int /\ end \in Int \X Int
    <2>1. end = <<end[1], end[2]>>
      BY DEF end, ToEdge
    <2>2. open = <<open[1], open[2]>>
      BY DEF open, ToEdge
    <2>3. start = <<start[1], start[2]>>
      BY <2>2 DEF start, Clamped
    <2> QED
      BY <1>7, <1>8, <2>1, <2>3
  <1>10. <<eff.delta * reach[1], reach[2] * sampled>> \in Int \X Int
    <2> DEFINE a == start[1] * end[2]
               b == end[1] * start[2]
               c == start[2] * end[2]
               d == sampled * c
               s == a + b
    <2>1. a \in Int /\ b \in Int /\ c \in Int
      BY <1>7, <1>8, ProductOfInts
    <2>2. d \in Int /\ s \in Int
      <3> HIDE DEF a, b, c
      <3> QED
        BY <2>1, <1>4, ProductOfInts
    <2>3. reach = <<d + s * 1, 1 * c>>
      BY DEF reach, Plus
    <2> HIDE DEF a, b, c, d, s
    <2>4. reach[1] \in Int /\ reach[2] \in Int
      BY <2>1, <2>2, <2>3
    <2> QED
      BY <2>4, <1>1, <1>4, ProductOfInts
  <1>11. ex \in Extrapolation
    BY <1>5, <1>9, <1>10 DEF Extrapolation
  <1>12. ex.to_start = start /\ ex.to_end = end
    BY <1>5
  <1> QED
    BY <1>7, <1>8, <1>11, <1>12 DEF fold, low, eff, left, gap, tail, sampled, ex

\* An answer extends its samples at most to the window's edges, and its line does
\* not reach below zero.
THEOREM ExtrapolationStays == Spec => []ExtrapolationStaysInWindow
  <1>1. IInv => ExtrapolationStaysInWindow
    <2> SUFFICES ASSUME IInv, NEW w \in Windows,
                        extrapolate(counter_fold(w.data), int64(w.low), w.anchor) # Null
                 PROVE  LET fold == counter_fold(w.data)
                            ex == extrapolate(fold, int64(w.low), w.anchor)
                            eff == Effective(fold, int64(w.low))
                            Within(d, limit) == ~Less(d, <<0, 1>>) /\ ~Less(limit, d)
                        IN  /\ Within(ex.to_start, <<eff.t - w.low, 1>>)
                            /\ Within(ex.to_end, <<w.anchor - fold.last.t, 1>>)
                            /\ eff.delta > 0 =>
                                 Within(ex.to_start,
                                        <<(fold.last.t - eff.t) * eff.v, eff.delta>>)
        BY DEF ExtrapolationStaysInWindow
    <2> DEFINE fold == counter_fold(w.data)
               low == int64(w.low)
               ex == extrapolate(fold, low, w.anchor)
               eff == Effective(fold, low)
               gap == eff.t - w.low
               tail == w.anchor - fold.last.t
               rise == (fold.last.t - eff.t) * eff.v
               a == ex.to_start[1]
               b == ex.to_start[2]
               c == ex.to_end[1]
               d == ex.to_end[2]
               delta == eff.delta
    <2>1. w.data # <<>>
      BY DEF extrapolate, counter_fold
    <2>2. /\ fold.n \in Nat /\ eff.n \in Nat /\ fold.n > 0 /\ fold.last.t \in Int
          /\ eff.t \in Int /\ eff.v \in Nat /\ delta \in Int
          /\ w.low < eff.t /\ eff.t <= fold.last.t
      <3>1. /\ fold.n \in Nat /\ fold.n > 0 /\ fold.last.t \in Int
            /\ eff.n \in {fold.n, fold.n + 1}
            /\ eff.t \in Int /\ eff.v \in Nat /\ delta \in Int
            /\ w.low < eff.t /\ eff.t <= fold.last.t
        BY <2>1, EffectiveFacts
      <3> HIDE DEF fold, eff, delta
      <3> QED
        BY <3>1
    <2>3. eff.n >= 2
      <3>1. ~(eff.n < 2)
        BY <2>2 DEF extrapolate
      <3> QED
        BY <2>2, <3>1
    <2>4. /\ ex \in Extrapolation
          /\ a >= 0 /\ b > 0 /\ a <= gap * b
          /\ c >= 0 /\ d > 0 /\ c <= tail * d
          /\ delta > 0 => a * delta <= rise * b
      BY <2>1, <2>3, AnswerReach
    <2>5. /\ gap \in Int /\ tail \in Int /\ rise \in Int
          /\ a \in Int /\ b \in Int /\ c \in Int /\ d \in Int
      <3>1. w.anchor \in Int /\ w.low \in Int
        BY WindowFacts, TickFacts
      <3>2. ex.to_start \in Int \X Int /\ ex.to_end \in Int \X Int
        BY <2>4 DEF Extrapolation
      <3> HIDE DEF fold, eff, ex
      <3> QED
        BY <2>2, <3>1, <3>2
    <2> HIDE DEF gap, tail, rise, a, b, c, d, delta
    <2>6. ~(a * 1 < 0 * b) /\ ~(gap * b < a * 1) /\ ~(c * 1 < 0 * d) /\ ~(tail * d < c * 1)
      BY <2>4, <2>5, ProductOfInts
    <2>7. delta > 0 => ~(rise * b < a * delta)
      BY <2>2, <2>4, <2>5, ProductOfInts
    <2> QED
      BY <2>6, <2>7 DEF Less, gap, tail, rise, a, b, c, d, delta
  <1> QED
    BY <1>1, InvInit, InvStep, PTL DEF Spec

\* A run that began inside its window has an answer, which counts it from zero.
THEOREM RunsInsideAnswer == Spec => []RunsBegunInsideAnswer
  <1>1. IInv => RunsBegunInsideAnswer
    <2> SUFFICES ASSUME IInv, NEW w \in Windows, w.data # <<>>, w.low >= MinTick,
                        w.data[1].st # Null, w.low < w.data[1].st,
                        w.data[1].st < w.data[1].t
                 PROVE  LET first == w.data[1]
                            fold == counter_fold(w.data)
                            ex == extrapolate(fold, int64(w.low), w.anchor)
                        IN  /\ ex # Null
                            /\ Effective(fold, int64(w.low)).delta >= first.v + fold.delta
                            /\ ex.to_start[1] = 0
        BY DEF RunsBegunInsideAnswer
    <2> DEFINE first == w.data[1]
               fold == counter_fold(w.data)
               low == int64(w.low)
               eff == Effective(fold, low)
               left == left_st_inside_window(fold, low)
               ex == extrapolate(fold, low, w.anchor)
    <2>1. low = w.low
      <3>1. w.low \in Tick
        BY WindowFacts, TickFacts
      <3> QED
        BY <3>1, NarrowedArithmetic
    <2>2. /\ fold.n \in Nat /\ fold.n > 0 /\ fold.first = first /\ fold.delta \in Int
          /\ first \in Row
          /\ eff.n = (IF left THEN fold.n + 1 ELSE fold.n)
          /\ eff.delta = (IF left THEN fold.delta + fold.first.v ELSE fold.delta)
      BY EffectiveFacts
    <2>3. left
      BY <2>1, <2>2 DEF left_st_inside_window
    <2>4. first.v \in Int
      BY <2>2, RowFields
    <2>5. eff.n >= 2 /\ eff.delta >= first.v + fold.delta
      <3> HIDE DEF first, fold, eff, left
      <3> QED
        BY <2>2, <2>3, <2>4
    <2>6. ex \in Extrapolation /\ ex.to_start[1] = 0
      BY <2>3, <2>5, AnswerReach
    <2> QED
      BY <2>5, <2>6, NullAssumption
  <1> QED
    BY <1>1, InvInit, InvStep, PTL DEF Spec

-----------------------------------------------------------------------------
(* A plan's chain, and what a column is bound to on the way down *)

Named(chain, k, e) == e = Computed \/ e \in Range(ColumnBindings(chain)[k])

OwnColumns(node) == [i \in 1 .. node.width |-> [table |-> node.index, column |-> i]]

LEMMA NodeFields ==
  /\ \A x \in TableScan :
       /\ x.op = "get" /\ x.index \in Nat /\ x.width \in Nat
       /\ x.column_ids \in Seq(Column) /\ x.projection_ids \in Seq(Nat)
       /\ x.table_filters \in Seq([column : Column, lower : Tick, upper : Tick])
  /\ \A x \in Inner :
       /\ x.op \in {"filter", "limit", "projection", "get"}
       /\ x.op = "projection" => x.index \in Nat /\ x.width \in Nat /\ x.exprs \in Seq(Expression)
       /\ x.op = "get" => /\ x.index \in Nat /\ x.width \in Nat
                          /\ x.fn = "__ts_rate_operator_input"
  BY DEF TableScan, Inner

LEMMA ChainFields ==
  ASSUME NEW p, WellFormed(p)
  PROVE  LET chain == p.chain
             n == Len(p.chain)
             scan == p.chain[Len(p.chain)]
         IN  /\ n \in Nat /\ n > 0 /\ DOMAIN chain = 1 .. n /\ Scan(p) = scan
             /\ scan \in TableScan /\ \A k \in 1 .. n - 1 : chain[k] \in Inner
             /\ \A k \in 1 .. n - 1 :
                  /\ chain[k].op = "projection" =>
                       /\ chain[k].width = Len(chain[k].exprs)
                       /\ \A e \in Range(chain[k].exprs) : Named(chain, k + 1, e)
                  /\ chain[k].op = "get" => chain[k].width <= Len(ColumnBindings(chain)[k + 1])
             /\ Range(scan.projection_ids) \subseteq DOMAIN scan.column_ids
             /\ scan.width = Len(IF scan.projection_ids = <<>> THEN scan.column_ids
                                 ELSE scan.projection_ids)
             /\ \A e \in {p.ts, p.value, p.start_ts} : Named(chain, 1, e)
             /\ p.series # Null => Named(chain, 1, p.series)
             /\ ColumnOf(chain, p.ts) \in {"t", "st", Computed}
             /\ \E c \in DOMAIN p.calls : p.calls[c].fn = "ts_rate"
             /\ p.top = "grid_stream" => Len(p.calls) = 1
  <1> DEFINE chain == p.chain
             n == Len(p.chain)
             scan == p.chain[Len(p.chain)]
  <1>1. chain \in Seq(Inner \union TableScan)
    BY PlanFields
  <1>2. n \in Nat /\ n > 0 /\ DOMAIN chain = 1 .. n /\ \A k \in 1 .. n : chain[k] \in Inner \union TableScan
    <2>1. n > 0
      BY DEF WellFormed
    <2> QED
      BY <1>1, <2>1
  <1>3. \A k \in 1 .. n : k = n <=> chain[k] \in TableScan
    BY DEF WellFormed
  <1>4. scan \in TableScan /\ \A k \in 1 .. n - 1 : chain[k] \in Inner
    <2> HIDE DEF chain, n
    <2>1. n \in 1 .. n /\ \A k \in 1 .. n - 1 : k \in 1 .. n /\ k # n
      BY <1>2
    <2> QED
      BY <1>2, <1>3, <2>1 DEF chain, n
  <1>5. /\ \A k \in 1 .. n - 1 :
             /\ chain[k].op = "projection" =>
                  /\ chain[k].width = Len(chain[k].exprs)
                  /\ \A e \in Range(chain[k].exprs) : Named(chain, k + 1, e)
             /\ chain[k].op = "get" => chain[k].width <= Len(ColumnBindings(chain)[k + 1])
        /\ \A e \in {p.ts, p.value, p.start_ts} : Named(chain, 1, e)
        /\ p.series # Null => Named(chain, 1, p.series)
    BY DEF WellFormed, Named
  <1>6. /\ Range(scan.projection_ids) \subseteq DOMAIN scan.column_ids
        /\ scan.width = Len(IF scan.projection_ids = <<>> THEN scan.column_ids
                            ELSE scan.projection_ids)
        /\ ColumnOf(chain, p.ts) \in {"t", "st", Computed}
        /\ \E c \in DOMAIN p.calls : p.calls[c].fn = "ts_rate"
        /\ p.top = "grid_stream" => Len(p.calls) = 1
    BY DEF WellFormed, Scan
  <1> QED
    BY <1>2, <1>4, <1>5, <1>6 DEF Scan

\* The columns of a filter or a limit are its child's.
LEMMA Bindings ==
  ASSUME NEW p, WellFormed(p), NEW k \in 1 .. Len(p.chain)
  PROVE  LET chain == p.chain
             cb == ColumnBindings(p.chain)
         IN  /\ cb[k] \in Seq(Binding)
             /\ chain[k].op \in {"projection", "get"} => cb[k] = OwnColumns(chain[k])
             /\ chain[k].op \notin {"projection", "get"} =>
                  k + 1 \in 1 .. Len(chain) /\ cb[k] = cb[k + 1]
  <1> DEFINE chain == p.chain
             cb == ColumnBindings(p.chain)
             n == Len(p.chain)
             Own(j) == {i \in j .. n : chain[i].op \in {"projection", "get"}}
             least == Min(Own(k))
  <1>1. /\ n \in Nat /\ n > 0 /\ DOMAIN chain = 1 .. n /\ k \in Nat /\ 1 <= k /\ k <= n
        /\ chain[n].op = "get"
        /\ \A i \in 1 .. n : chain[i].op \in {"projection", "get"} =>
             chain[i].index \in Nat /\ chain[i].width \in Nat
    <2>1. /\ n \in Nat /\ n > 0 /\ DOMAIN chain = 1 .. n
          /\ chain[n] \in TableScan /\ \A i \in 1 .. n - 1 : chain[i] \in Inner
      BY ChainFields
    <2> HIDE DEF chain, n
    <2>2. \A i \in 1 .. n : i = n \/ i \in 1 .. n - 1
      BY <2>1
    <2>3. k \in 1 .. n
      BY DEF n
    <2> QED
      BY <2>1, <2>2, <2>3, NodeFields
  <1>2. \A j \in 1 .. n : cb[j] = OwnColumns(chain[Min(Own(j))])
    BY <1>1 DEF ColumnBindings, OwnColumns
  <1> HIDE DEF chain, cb, n
  <1>3. n \in Own(k) /\ Own(k) \in SUBSET Int /\ IsFiniteSet(Own(k))
    <2>1. IsFiniteSet(k .. n)
      BY <1>1, FS_Interval
    <2>2. Own(k) \subseteq k .. n
      OBVIOUS
    <2>3. IsFiniteSet(Own(k))
      BY <2>1, <2>2, FS_Subset
    <2> QED
      BY <1>1, <2>3
  <1>4. least \in Own(k) /\ \A i \in Own(k) : least <= i
    <2> DEFINE T == Own(k)
    <2>1. T \in SUBSET Int /\ IsFiniteSet(T) /\ T # {}
      BY <1>3
    <2> HIDE DEF T
    <2>2. \E x \in T : \A y \in T : x <= y
      BY <2>1, FiniteExtremes
    <2>3. Min(T) \in T /\ \A y \in T : Min(T) <= y
      BY <2>2 DEF Min
    <2> QED
      BY <2>3 DEF T
  <1>5. cb[k] = OwnColumns(chain[least])
    BY <1>1, <1>2
  <1>6. cb[k] \in Seq(Binding)
    <2>1. chain[least].index \in Nat /\ chain[least].width \in Nat
      BY <1>1, <1>4
    <2> DEFINE i == chain[least].index
               w == chain[least].width
               f == [c \in 1 .. w |-> [table |-> i, column |-> c]]
    <2>2. i \in Nat /\ w \in Nat
      BY <2>1
    <2> HIDE DEF i, w
    <2>3. \A c \in 1 .. w : [table |-> i, column |-> c] \in Binding
      BY <2>2 DEF Binding
    <2>4. f \in [1 .. w -> Binding]
      BY <2>3
    <2>5. f \in Seq(Binding)
      <3> HIDE DEF f
      <3> QED
        BY <2>2, <2>4
    <2> QED
      BY <1>5, <2>5 DEF OwnColumns, f, i, w
  <1>7. ASSUME chain[k].op \in {"projection", "get"}
        PROVE  cb[k] = OwnColumns(chain[k])
    <2>1. k \in Own(k)
      BY <1>1, <1>7
    <2>2. least <= k /\ k <= least /\ least \in Int
      BY <1>1, <1>4, <2>1
    <2>3. least = k
      <3> HIDE DEF least
      <3> QED
        BY <1>1, <2>2
    <2> QED
      BY <1>5, <2>3
  <1>8. ASSUME chain[k].op \notin {"projection", "get"}
        PROVE  k + 1 \in 1 .. n /\ cb[k] = cb[k + 1]
    <2>1. k # n
      BY <1>1, <1>8
    <2>2. k + 1 \in 1 .. n
      BY <1>1, <2>1
    <2>3. \A i : i \in k .. n /\ i # k <=> i \in k + 1 .. n
      BY <1>1
    <2>4. \A i : i \in Own(k) <=> i \in Own(k + 1)
      BY <1>8, <2>3
    <2>5. Own(k) = Own(k + 1)
      BY <2>4
    <2> DEFINE A == Own(k)
               B == Own(k + 1)
    <2>6. cb[k] = OwnColumns(chain[Min(A)]) /\ cb[k + 1] = OwnColumns(chain[Min(B)])
      BY <1>1, <1>2, <2>2
    <2>7. A = B
      BY <2>5
    <2> HIDE DEF A, B
    <2> QED
      BY <2>2, <2>6, <2>7
  <1> QED
    BY <1>6, <1>7, <1>8 DEF chain, cb, n

\* What a column bound above an operator is bound to below it is a column there.
LEMMA BelowFacts ==
  ASSUME NEW p, WellFormed(p), NEW k \in 1 .. Len(p.chain) - 1,
         NEW b \in Range(ColumnBindings(p.chain)[k])
  PROVE  /\ b \in Binding
         /\ Named(p.chain, k + 1, Below(p.chain, k, b))
         /\ Passable(p.chain[k], b) <=> p.chain[k].op # "limit"
  <1> DEFINE chain == p.chain
             n == Len(p.chain)
             cb == ColumnBindings(p.chain)
             node == p.chain[k]
  <1>1. /\ n \in Nat /\ k \in 1 .. n /\ k + 1 \in 1 .. n /\ node \in Inner
        /\ node.op = "projection" =>
             /\ node.width = Len(node.exprs)
             /\ \A e \in Range(node.exprs) : Named(chain, k + 1, e)
        /\ node.op = "get" => node.width <= Len(cb[k + 1])
    <2>1. n \in Nat
      BY ChainFields
    <2>2. k \in 1 .. n /\ k + 1 \in 1 .. n
      BY <2>1
    <2> QED
      BY <2>1, <2>2, ChainFields
  <1>2. /\ cb[k] \in Seq(Binding) /\ cb[k + 1] \in Seq(Binding)
        /\ node.op \in {"projection", "get"} => cb[k] = OwnColumns(node)
        /\ node.op \notin {"projection", "get"} => cb[k] = cb[k + 1]
    BY <1>1, Bindings
  <1>3. b \in Range(cb[k])
    OBVIOUS
  <1>4. /\ node.op \in {"filter", "limit", "projection", "get"}
        /\ node.op = "projection" =>
             node.index \in Nat /\ node.width \in Nat /\ node.exprs \in Seq(Expression)
        /\ node.op = "get" => /\ node.index \in Nat /\ node.width \in Nat
                              /\ node.fn = "__ts_rate_operator_input"
    BY <1>1, NodeFields
  <1>5. Below(chain, k, b) = (CASE node.op = "projection" -> node.exprs[b.column]
                                [] node.op = "get" -> cb[k + 1][b.column]
                                [] OTHER -> b)
    BY DEF Below
  <1> HIDE DEF chain, n, cb, node
  <1>6. b \in Binding
    <2>1. PICK i \in DOMAIN cb[k] : b = cb[k][i]
      BY <1>3 DEF Range
    <2> DEFINE s == cb[k]
    <2>2. s \in Seq(Binding) /\ i \in DOMAIN s /\ b = s[i]
      BY <1>2, <2>1
    <2> HIDE DEF s
    <2> QED
      BY <2>2
  <1>7. ASSUME node.op \in {"projection", "get"}
        PROVE  b.table = node.index /\ b.column \in 1 .. node.width
    <2> DEFINE w == node.width
               t == node.index
               s == cb[k]
    <2>1. s = [i \in 1 .. w |-> [table |-> t, column |-> i]] /\ b \in Range(s)
      BY <1>2, <1>3, <1>7 DEF OwnColumns
    <2> HIDE DEF w, t, s
    <2>2. PICK i \in DOMAIN s : b = s[i]
      BY <2>1 DEF Range
    <2>3. i \in 1 .. w /\ b = [table |-> t, column |-> i]
      BY <2>1, <2>2
    <2> QED
      BY <2>3 DEF w, t
  <1>8. CASE node.op = "projection"
    <2>1. b.table = node.index /\ b.column \in 1 .. node.width /\ node.width \in Nat
      BY <1>4, <1>7, <1>8
    <2>2. Below(chain, k, b) = node.exprs[b.column]
      BY <1>5, <1>8
    <2>3. b.column \in DOMAIN node.exprs
      BY <1>1, <1>4, <1>8, <2>1
    <2>4. node.exprs[b.column] \in Range(node.exprs)
      BY <2>3 DEF Range
    <2>5. b.column <= node.width
      BY <2>1
    <2>6. Passable(node, b)
      BY <1>8, <2>1, <2>5 DEF Passable
    <2> QED
      BY <1>1, <1>6, <1>8, <2>2, <2>4, <2>6 DEF chain, node
  <1>9. CASE node.op = "get"
    <2> DEFINE s == cb[k + 1]
               w == node.width
               i == b.column
    <2>1. b.table = node.index /\ i \in 1 .. w /\ w \in Nat /\ w <= Len(s) /\ s \in Seq(Binding)
      BY <1>1, <1>2, <1>4, <1>7, <1>9
    <2>2. Below(chain, k, b) = s[i]
      BY <1>5, <1>9
    <2>3. i <= w /\ i \in DOMAIN s
      <3> HIDE DEF s, w, i
      <3> QED
        BY <2>1
    <2>4. s[i] \in Range(s)
      BY <2>3 DEF Range
    <2>5. Passable(node, b)
      BY <1>4, <1>9, <2>1, <2>3 DEF Passable
    <2> QED
      BY <1>6, <1>9, <2>2, <2>4, <2>5 DEF Named, cb, chain, node
  <1>10. CASE node.op \in {"filter", "limit"}
    <2>1. Below(chain, k, b) = b /\ cb[k] = cb[k + 1]
      BY <1>2, <1>5, <1>10
    <2>2. Passable(node, b) <=> node.op # "limit"
      BY <1>10 DEF Passable
    <2> QED
      BY <1>3, <1>6, <2>1, <2>2 DEF Named, cb, chain, node
  <1> QED
    BY <1>4, <1>8, <1>9, <1>10

\* The function ColumnOf ends in.
BoundTo(chain, b) ==
  CHOOSE g : g = [k \in 0 .. Len(chain) - 1 |->
                    IF k = 0 THEN b
                    ELSE IF g[k - 1] = Computed THEN Computed
                    ELSE Below(chain, k, g[k - 1])]

LEMMA BoundFacts ==
  ASSUME NEW p, WellFormed(p), NEW b, Named(p.chain, 1, b)
  PROVE  LET chain == p.chain
             n == Len(p.chain)
             B == BoundTo(p.chain, b)
         IN  /\ B[0] = b
             /\ \A k \in 1 .. n - 1 :
                  B[k] = IF B[k - 1] = Computed THEN Computed ELSE Below(chain, k, B[k - 1])
             /\ \A k \in 0 .. n - 1 : Named(chain, k + 1, B[k])
             /\ ColumnOf(chain, b) =
                  IF B[n - 1] = Computed THEN Computed
                  ELSE chain[n].column_ids[Storage(chain[n], B[n - 1].column)]
  <1> DEFINE chain == p.chain
             n == Len(p.chain)
             m == n - 1
             B == BoundTo(p.chain, b)
             Onward(k, v) == IF v = Computed THEN Computed ELSE Below(chain, k, v)
             At(k) == {Computed} \union Range(ColumnBindings(chain)[k + 1])
             V == UNION {At(k) : k \in 0 .. m}
             W == [k \in 0 .. m |-> At(k)]
             step == [q \in V \X (1 .. m) |-> Onward(q[2], q[1])]
  <1>1. n \in Nat /\ m \in Nat
    <2>1. n \in Nat /\ n > 0
      BY ChainFields
    <2> HIDE DEF n
    <2> QED
      BY <2>1
  <1>2. W \in [0 .. m -> SUBSET V] /\ b \in W[0]
    <2>1. \A k \in 0 .. m : At(k) \subseteq V
      OBVIOUS
    <2>2. b \in At(0)
      BY DEF Named
    <2> HIDE DEF V, At
    <2> QED
      BY <1>1, <2>1, <2>2
  <1>3. ASSUME NEW k \in 1 .. m, NEW v \in W[k - 1]
        PROVE  v \in V /\ Onward(k, v) \in W[k]
    <2>1. k - 1 \in 0 .. m /\ k \in 0 .. m /\ k \in 1 .. n - 1 /\ (k - 1) + 1 = k
      BY <1>1
    <2>2. v \in At(k - 1)
      BY <1>3, <2>1
    <2>3. CASE v = Computed
      BY <2>1, <2>2, <2>3
    <2>4. CASE v # Computed
      <3>1. v \in Range(ColumnBindings(chain)[k])
        BY <2>1, <2>2, <2>4
      <3>2. Named(chain, k + 1, Below(chain, k, v))
        BY <2>1, <3>1, BelowFacts
      <3> QED
        BY <2>1, <2>2, <2>4, <3>2 DEF Named
    <2> QED
      BY <2>3, <2>4
  <1> HIDE DEF W, V, At, Onward, m, n, chain
  <1>4. PICK g \in [0 .. m -> V] : Guarded(g, m, W, b, step)
    <2>1. \A k \in 1 .. m : \A v \in W[k - 1] : step[<<v, k>>] \in W[k]
      BY <1>3
    <2> HIDE DEF step
    <2> QED
      BY <1>1, <1>2, <2>1, GuardedRecursion
  <1>5. g = [k \in 0 .. m |-> IF k = 0 THEN b ELSE Onward(k, g[k - 1])]
    <2>1. ASSUME NEW k \in 1 .. m PROVE g[k] = Onward(k, g[k - 1])
      <3>1. k - 1 \in 0 .. m
        BY <1>1
      <3>2. g[k - 1] \in V
        BY <3>1
      <3> QED
        BY <1>4, <3>2 DEF Guarded
    <2>2. \A k \in 0 .. m : k = 0 \/ k \in 1 .. m
      BY <1>1
    <2> QED
      BY <1>4, <2>1, <2>2 DEF Guarded
  <1>6. B = [k \in 0 .. m |-> IF k = 0 THEN b ELSE Onward(k, B[k - 1])]
    BY <1>5 DEF BoundTo, Onward, m, n, chain
  <1> HIDE DEF B
  <1>7. B[0] = b /\ \A k \in 1 .. m : B[k] = Onward(k, B[k - 1])
    BY <1>1, <1>6
  <1>8. \A k \in 0 .. m : B[k] \in W[k]
    <2> DEFINE S == {k \in 0 .. m : B[k] \in W[k]}
    <2>1. 0 \in S
      BY <1>1, <1>2, <1>7
    <2>2. ASSUME NEW k \in 1 .. m, k - 1 \in S PROVE k \in S
      <3>1. k \in 0 .. m /\ B[k - 1] \in W[k - 1]
        BY <2>2
      <3> QED
        BY <1>3, <1>7, <3>1
    <2>3. \A k \in 0 .. m : k \in S
      <3> HIDE DEF S
      <3> QED
        BY <1>1, <2>1, <2>2, UptoInduction
    <2> QED
      BY <2>3
  <1>9. \A k \in 0 .. m : Named(chain, k + 1, B[k])
    BY <1>8 DEF W, At, Named
  <1>10. ColumnOf(chain, b) = IF B[m] = Computed THEN Computed
                              ELSE chain[n].column_ids[Storage(chain[n], B[m].column)]
    BY DEF ColumnOf, BoundTo, B, m, n, chain
  <1> QED
    BY <1>7, <1>9, <1>10 DEF Onward, B, m, n, chain

\* The function ResolveBindingToGet ends in.
ResolvedTo(chain, b) ==
  CHOOSE g : g = [k \in 0 .. Len(chain) - 1 |->
                    IF k = 0 THEN b
                    ELSE IF g[k - 1] \notin {Null, Computed} /\ Passable(chain[k], g[k - 1])
                    THEN Below(chain, k, g[k - 1])
                    ELSE Null]

\* What the rule resolves is what the column is bound to; it resolves every column
\* no operator computes, as long as there is no limit on the way, and none below
\* a limit.
LEMMA ResolvedFacts ==
  ASSUME NEW p, WellFormed(p), NEW b, Named(p.chain, 1, b)
  PROVE  LET chain == p.chain
             n == Len(p.chain)
             B == BoundTo(p.chain, b)
             R == ResolvedTo(p.chain, b)
         IN  /\ R[n - 1] \notin {Null, Computed} =>
                  R[n - 1] = B[n - 1] /\ \A j \in 1 .. n - 1 : chain[j].op # "limit"
             /\ B[n - 1] # Computed /\ (\A j \in 1 .. n - 1 : chain[j].op # "limit") =>
                  R[n - 1] = B[n - 1]
             /\ ResolveBindingToGet(chain, b) =
                  IF R[n - 1] \notin {Null, Computed} /\ chain[n].index = R[n - 1].table
                  THEN R[n - 1] ELSE Null
  <1> DEFINE chain == p.chain
             n == Len(p.chain)
             m == n - 1
             B == BoundTo(p.chain, b)
             R == ResolvedTo(p.chain, b)
             Onward(k, v) == IF v \notin {Null, Computed} /\ Passable(chain[k], v)
                             THEN Below(chain, k, v) ELSE Null
             At(k) == {Null, Computed} \union Range(ColumnBindings(chain)[k + 1])
             V == UNION {At(k) : k \in 0 .. m}
             W == [k \in 0 .. m |-> At(k)]
             step == [q \in V \X (1 .. m) |-> Onward(q[2], q[1])]
  <1>1. n \in Nat /\ m \in Nat
    <2>1. n \in Nat /\ n > 0
      BY ChainFields
    <2> HIDE DEF n
    <2> QED
      BY <2>1
  <1>2. W \in [0 .. m -> SUBSET V] /\ b \in W[0]
    <2>1. \A k \in 0 .. m : At(k) \subseteq V
      OBVIOUS
    <2>2. b \in At(0)
      BY DEF Named
    <2> HIDE DEF V, At
    <2> QED
      BY <1>1, <2>1, <2>2
  <1>3. ASSUME NEW k \in 1 .. m, NEW v \in W[k - 1]
        PROVE  v \in V /\ Onward(k, v) \in W[k]
    <2>1. k - 1 \in 0 .. m /\ k \in 0 .. m /\ k \in 1 .. n - 1 /\ (k - 1) + 1 = k
      BY <1>1
    <2>2. v \in At(k - 1)
      BY <1>3, <2>1
    <2>3. CASE v \in {Null, Computed}
      BY <2>1, <2>2, <2>3
    <2>4. CASE v \notin {Null, Computed}
      <3>1. v \in Range(ColumnBindings(chain)[k])
        BY <2>1, <2>2, <2>4
      <3>2. Named(chain, k + 1, Below(chain, k, v))
        BY <2>1, <3>1, BelowFacts
      <3> QED
        BY <2>1, <2>2, <2>4, <3>2 DEF Named
    <2> QED
      BY <2>3, <2>4
  <1>4. \A k \in 1 .. m : k - 1 \in 0 .. m /\ k \in 0 .. m /\ k \in 1 .. n - 1 /\ (k - 1) + 1 = k
    BY <1>1
  <1>5. /\ B[0] = b
        /\ \A k \in 1 .. m :
             B[k] = IF B[k - 1] = Computed THEN Computed ELSE Below(chain, k, B[k - 1])
        /\ \A k \in 0 .. m : Named(chain, k + 1, B[k])
    BY BoundFacts
  <1>6. ASSUME NEW k \in 1 .. m, NEW v, v # Computed, Named(chain, k, v)
        PROVE  v \notin {Null, Computed} /\ (Passable(chain[k], v) <=> chain[k].op # "limit")
    <2>1. v \in Range(ColumnBindings(chain)[k])
      BY <1>6 DEF Named
    <2>2. v \in Binding /\ (Passable(chain[k], v) <=> chain[k].op # "limit")
      BY <1>4, <2>1, BelowFacts
    <2> QED
      BY <1>6, <2>2, SentinelAssumption
  <1> HIDE DEF W, V, At, Onward, m, n, chain, B
  <1>7. PICK g \in [0 .. m -> V] : Guarded(g, m, W, b, step)
    <2>1. \A k \in 1 .. m : \A v \in W[k - 1] : step[<<v, k>>] \in W[k]
      BY <1>3
    <2> HIDE DEF step
    <2> QED
      BY <1>1, <1>2, <2>1, GuardedRecursion
  <1>8. g = [k \in 0 .. m |-> IF k = 0 THEN b ELSE Onward(k, g[k - 1])]
    <2>1. ASSUME NEW k \in 1 .. m PROVE g[k] = Onward(k, g[k - 1])
      <3>1. k - 1 \in 0 .. m
        BY <1>1
      <3>2. g[k - 1] \in V
        BY <3>1
      <3> QED
        BY <1>7, <3>2 DEF Guarded
    <2>2. \A k \in 0 .. m : k = 0 \/ k \in 1 .. m
      BY <1>1
    <2> QED
      BY <1>7, <2>1, <2>2 DEF Guarded
  <1>9. R = [k \in 0 .. m |-> IF k = 0 THEN b ELSE Onward(k, R[k - 1])]
    BY <1>8 DEF ResolvedTo, Onward, m, n, chain
  <1> HIDE DEF R
  <1>10. R[0] = b /\ \A k \in 1 .. m : R[k] = Onward(k, R[k - 1])
    BY <1>1, <1>9
  <1>11. m \in 0 .. m
    BY <1>1
  <1>12. R[m] \notin {Null, Computed} =>
           R[m] = B[m] /\ \A j \in 1 .. m : chain[j].op # "limit"
    <2> DEFINE S == {k \in 0 .. m : R[k] \notin {Null, Computed} =>
                       R[k] = B[k] /\ \A j \in 1 .. k : chain[j].op # "limit"}
    <2>1. 0 \in S
      BY <1>1, <1>5, <1>10
    <2>2. ASSUME NEW k \in 1 .. m, k - 1 \in S PROVE k \in S
      <3> SUFFICES ASSUME R[k] \notin {Null, Computed}
                   PROVE  R[k] = B[k] /\ \A j \in 1 .. k : chain[j].op # "limit"
          BY <1>4
      <3>1. /\ R[k - 1] \notin {Null, Computed} /\ Passable(chain[k], R[k - 1])
            /\ R[k] = Below(chain, k, R[k - 1])
        BY <1>10 DEF Onward
      <3>2. R[k - 1] = B[k - 1] /\ \A j \in 1 .. k - 1 : chain[j].op # "limit"
        BY <2>2, <3>1
      <3>3. Named(chain, k, B[k - 1])
        BY <1>4, <1>5
      <3>4. chain[k].op # "limit"
        BY <3>1, <3>2, <3>3, <1>6
      <3>5. R[k] = B[k]
        BY <1>5, <3>1, <3>2
      <3>6. \A j \in 1 .. k : j \in 1 .. k - 1 \/ j = k
        BY <1>1
      <3> QED
        BY <3>2, <3>4, <3>5, <3>6
    <2>3. \A k \in 0 .. m : k \in S
      <3> HIDE DEF S
      <3> QED
        BY <1>1, <2>1, <2>2, UptoInduction
    <2> QED
      BY <1>11, <2>3
  <1>13. ASSUME B[m] # Computed, \A j \in 1 .. m : chain[j].op # "limit"
         PROVE  R[m] = B[m]
    <2> DEFINE S == {k \in 0 .. m : B[k] # Computed => R[k] = B[k]}
    <2>1. 0 \in S
      BY <1>1, <1>5, <1>10
    <2>2. ASSUME NEW k \in 1 .. m, k - 1 \in S PROVE k \in S
      <3> SUFFICES ASSUME B[k] # Computed PROVE R[k] = B[k]
          BY <1>4
      <3>1. B[k - 1] # Computed /\ B[k] = Below(chain, k, B[k - 1])
        BY <1>5
      <3>2. R[k - 1] = B[k - 1]
        BY <2>2, <3>1
      <3>3. Named(chain, k, B[k - 1])
        BY <1>4, <1>5
      <3>4. R[k - 1] \notin {Null, Computed} /\ Passable(chain[k], R[k - 1])
        BY <1>6, <1>13, <3>1, <3>2, <3>3
      <3> QED
        BY <1>10, <3>1, <3>2, <3>4 DEF Onward
    <2>3. \A k \in 0 .. m : k \in S
      <3> HIDE DEF S
      <3> QED
        BY <1>1, <2>1, <2>2, UptoInduction
    <2> QED
      BY <1>11, <1>13, <2>3
  <1>14. ResolveBindingToGet(chain, b) =
           IF R[m] \notin {Null, Computed} /\ chain[n].index = R[m].table THEN R[m] ELSE Null
    BY DEF ResolveBindingToGet, ResolvedTo, R, m, n, chain
  <1> QED
    BY <1>12, <1>13, <1>14 DEF R, B, m, n, chain

-----------------------------------------------------------------------------
(* The pushed filter *)

\* q is p with a filter on the scan.
Filtered(p, q, column, bounds) ==
  LET n == Len(p.chain)
      old == p.chain[n]
      new == q.chain[n]
  IN  /\ q.top = p.top /\ q.grid = p.grid /\ q.calls = p.calls
      /\ q.ts = p.ts /\ q.value = p.value /\ q.start_ts = p.start_ts /\ q.series = p.series
      /\ Len(q.chain) = n /\ DOMAIN q.chain = 1 .. n
      /\ \A k \in 1 .. n : /\ q.chain[k].op = p.chain[k].op
                           /\ q.chain[k].index = p.chain[k].index
                           /\ q.chain[k].width = p.chain[k].width
      /\ \A k \in 1 .. n - 1 : q.chain[k] = p.chain[k]
      /\ new.column_ids = old.column_ids /\ new.projection_ids = old.projection_ids
      /\ new.table_filters =
           Append(old.table_filters,
                  [column |-> column, lower |-> bounds.lower, upper |-> bounds.upper])

LEMMA FilterPushed ==
  ASSUME NEW p, WellFormed(p), NEW column, NEW bounds
  PROVE  Filtered(p, WithFilter(p, column, bounds), column, bounds)
  <1> DEFINE n == Len(p.chain)
             chain == p.chain
             old == chain[n]
             filters == Append(old.table_filters,
                               [column |-> column, lower |-> bounds.lower,
                                upper |-> bounds.upper])
             new == [old EXCEPT !.table_filters = filters]
             below == [chain EXCEPT ![n] = new]
             q == WithFilter(p, column, bounds)
  <1>1. /\ n \in Nat /\ n > 0 /\ DOMAIN chain = 1 .. n /\ Scan(p) = old /\ old \in TableScan
        /\ \A k \in 1 .. n - 1 : chain[k] \in Inner
    BY ChainFields
  <1>2. q = [p EXCEPT !.chain = below]
    BY <1>1 DEF WithFilter
  <1>3. p \in Plan
    BY PlanFields
  <1> HIDE DEF q, below
  <1>4. /\ q.top = p.top /\ q.grid = p.grid /\ q.calls = p.calls
        /\ q.ts = p.ts /\ q.value = p.value /\ q.start_ts = p.start_ts
        /\ q.series = p.series /\ q.chain = below
    BY <1>2, <1>3 DEF Plan
  <1> HIDE DEF new, n, chain, old
  <1>5. /\ DOMAIN below = 1 .. n /\ below[n] = new
        /\ \A k \in 1 .. n - 1 : below[k] = chain[k]
    BY <1>1 DEF below
  <1>6. below \in Seq(Inner \union {new}) /\ Len(below) = n
    <2>1. \A k \in 1 .. n : k = n \/ k \in 1 .. n - 1
      BY <1>1
    <2>2. \A k \in 1 .. n : below[k] \in Inner \union {new}
      BY <1>1, <1>5, <2>1
    <2>3. below \in [1 .. n -> Inner \union {new}]
      BY <1>1, <1>5, <2>2 DEF below
    <2> QED
      BY <1>1, <2>3
  <1>7. /\ new.op = old.op /\ new.index = old.index /\ new.fn = old.fn
        /\ new.width = old.width /\ new.column_ids = old.column_ids
        /\ new.projection_ids = old.projection_ids
        /\ new.table_filters = filters
    BY <1>1 DEF new, TableScan
  <1>8. \A k \in 1 .. n : /\ below[k].op = chain[k].op /\ below[k].index = chain[k].index
                         /\ below[k].width = chain[k].width
    <2>1. \A k \in 1 .. n : k = n \/ k \in 1 .. n - 1
      BY <1>1
    <2>2. old = chain[n]
      BY DEF old
    <2> QED
      BY <1>5, <1>7, <2>1, <2>2
  <1>9. Filtered(p, q, column, bounds)
    BY <1>4, <1>5, <1>6, <1>7, <1>8 DEF Filtered, n, chain, old, filters
  <1> QED
    BY <1>9 DEF q

LEMMA ColumnsBelow ==
  ASSUME NEW p, WellFormed(p), NEW column, NEW bounds, NEW q, Filtered(p, q, column, bounds)
  PROVE  \A k \in 1 .. Len(p.chain) - 1 : \A v : Below(q.chain, k, v) = Below(p.chain, k, v)
  <1> DEFINE n == Len(p.chain)
             old == p.chain
             new == q.chain
             Own(chain, j) == {i \in j .. n : chain[i].op \in {"projection", "get"}}
  <1>1. n \in Nat /\ n > 0 /\ DOMAIN old = 1 .. n
    BY ChainFields
  <1>2. Len(new) = n /\ DOMAIN new = 1 .. n
    BY DEF Filtered
  <1>3. \A k \in 1 .. n : /\ new[k].op = old[k].op /\ new[k].index = old[k].index
                         /\ new[k].width = old[k].width
    BY DEF Filtered
  <1>4. \A k \in 1 .. n - 1 : new[k] = old[k]
    BY DEF Filtered
  <1> HIDE DEF n, old, new
  <1>5. ASSUME NEW k \in 1 .. n
        PROVE  OwnColumns(new[Min(Own(new, k))]) = OwnColumns(old[Min(Own(old, k))])
    <2>1. \A i \in k .. n : i \in 1 .. n
      BY <1>1
    <2>2. Own(new, k) = Own(old, k)
      BY <1>3, <2>1
    <2> DEFINE T == Own(old, k)
               m == Min(T)
    <2>3. T \in SUBSET Int /\ IsFiniteSet(T) /\ T \subseteq 1 .. n
      <3>1. IsFiniteSet(k .. n) /\ T \subseteq k .. n
        BY <1>1, FS_Interval
      <3>2. IsFiniteSet(T)
        BY <3>1, FS_Subset
      <3> QED
        BY <2>1, <3>1, <3>2
    <2>4. Own(new, k) = T /\ Own(old, k) = T
      BY <2>2
    <2> HIDE DEF Own, T
    <2>5. T # {} => m \in 1 .. n
      <3> SUFFICES ASSUME T # {} PROVE m \in T
          BY <2>3
      <3>1. \E x \in T : \A y \in T : x <= y
        BY <2>3, FiniteExtremes
      <3> QED
        BY <3>1 DEF Min
    <2>6. n \in T
      <3>1. old[n].op = "get"
        BY ChainFields, NodeFields DEF old, n
      <3> QED
        BY <1>1, <3>1 DEF T, Own
    <2>7. new[m].index = old[m].index /\ new[m].width = old[m].width
      BY <1>3, <2>5, <2>6
    <2>8. OwnColumns(new[m]) = OwnColumns(old[m])
      BY <2>7 DEF OwnColumns
    <2> QED
      BY <2>4, <2>8
  <1>6. /\ ColumnBindings(new) = [k \in 1 .. n |-> OwnColumns(new[Min(Own(new, k))])]
        /\ ColumnBindings(old) = [k \in 1 .. n |-> OwnColumns(old[Min(Own(old, k))])]
    BY <1>1, <1>2 DEF ColumnBindings, OwnColumns, n, old
  <1>7. \A k \in 1 .. n : ColumnBindings(new)[k] = ColumnBindings(old)[k]
    <2> HIDE DEF Own
    <2> QED
      BY <1>5, <1>6
  <1> SUFFICES ASSUME NEW k \in 1 .. n - 1, NEW v PROVE Below(new, k, v) = Below(old, k, v)
      BY DEF n, old, new
  <1>8. k + 1 \in 1 .. n /\ new[k] = old[k]
    BY <1>1, <1>4
  <1> QED
    BY <1>7, <1>8 DEF Below

\* It is no part of what the columns are bound to.
LEMMA SameColumns ==
  ASSUME NEW p, WellFormed(p), NEW column, NEW bounds, NEW q, Filtered(p, q, column, bounds),
         NEW b, Named(p.chain, 1, b)
  PROVE  ColumnOf(q.chain, b) = ColumnOf(p.chain, b)
  <1> DEFINE n == Len(p.chain)
             old == p.chain
             new == q.chain
             m == n - 1
             B == BoundTo(old, b)
             C == BoundTo(new, b)
             Onward(k, v) == IF v = Computed THEN Computed ELSE Below(old, k, v)
  <1>1. n \in Nat /\ n > 0 /\ m \in Nat
    <2>1. n \in Nat /\ n > 0
      BY ChainFields
    <2> HIDE DEF n
    <2> QED
      BY <2>1
  <1>2. Len(new) = n /\ \A k \in 1 .. m : \A v : Below(new, k, v) = Below(old, k, v)
    <2>1. Len(new) = n
      BY DEF Filtered
    <2>2. \A k \in 1 .. m : \A v : Below(new, k, v) = Below(old, k, v)
      BY ColumnsBelow
    <2> QED
      BY <2>1, <2>2
  <1>3. /\ B[0] = b /\ \A k \in 1 .. m : B[k] = Onward(k, B[k - 1])
        /\ ColumnOf(old, b) = IF B[m] = Computed THEN Computed
                              ELSE old[n].column_ids[Storage(old[n], B[m].column)]
    BY BoundFacts
  <1>4. /\ new[n].column_ids = old[n].column_ids
        /\ new[n].projection_ids = old[n].projection_ids
    BY DEF Filtered
  <1> HIDE DEF n, old, new, m, B
  <1> DEFINE OnwardNew(k, v) == IF v = Computed THEN Computed ELSE Below(new, k, v)
  <1>5. \A k \in 1 .. m : \A v : OnwardNew(k, v) = Onward(k, v)
    BY <1>2
  <1> HIDE DEF Onward, OnwardNew
  <1> DEFINE g == [k \in 0 .. m |-> B[k]]
  <1>6. g = [k \in 0 .. m |-> IF k = 0 THEN b ELSE OnwardNew(k, g[k - 1])]
    <2>1. ASSUME NEW k \in 0 .. m
          PROVE  B[k] = IF k = 0 THEN b ELSE OnwardNew(k, g[k - 1])
      <3>1. CASE k = 0
        BY <1>3, <3>1
      <3>2. CASE k # 0
        <4>1. k \in 1 .. m /\ k - 1 \in 0 .. m
          BY <1>1, <3>2
        <4>2. g[k - 1] = B[k - 1]
          BY <4>1
        <4> QED
          BY <1>3, <1>5, <3>2, <4>1, <4>2
      <3> QED
        BY <3>1, <3>2
    <2> QED
      BY <2>1
  <1>7. C = [k \in 0 .. m |-> IF k = 0 THEN b ELSE OnwardNew(k, C[k - 1])]
    BY <1>2, <1>6 DEF BoundTo, OnwardNew, m
  <1>8. ColumnOf(new, b) = IF C[m] = Computed THEN Computed
                           ELSE new[n].column_ids[Storage(new[n], C[m].column)]
    BY <1>2 DEF ColumnOf, BoundTo, m
  <1> HIDE DEF C
  <1>9. C[0] = b /\ \A k \in 1 .. m : C[k] = OnwardNew(k, C[k - 1])
    BY <1>1, <1>7
  <1> DEFINE S == {k \in 0 .. m : C[k] = B[k]}
  <1>10. 0 \in S
    BY <1>1, <1>3, <1>9
  <1>11. ASSUME NEW k \in 1 .. m, k - 1 \in S PROVE k \in S
    BY <1>3, <1>5, <1>9, <1>11
  <1>12. C[m] = B[m]
    <2>1. m \in 0 .. m
      BY <1>1
    <2> HIDE DEF S
    <2>2. m \in S
      BY <1>1, <1>10, <1>11, <2>1, UptoInduction
    <2> QED
      BY <2>2 DEF S
  <1> QED
    BY <1>3, <1>4, <1>8, <1>12 DEF Storage, old, new

-----------------------------------------------------------------------------
(* When the rule pushes, and what *)

LEMMA BoundsFacts ==
  ASSUME NEW g \in Grid, NEW window \in Int
  PROVE  LET bounds == scan_bounds(g, window, 0, {"EXTRAPOLATE"})
         IN  /\ bounds.lower \in Tick /\ bounds.upper = g.end
             /\ window > 0 /\ g.start - window >= MinTick => bounds.lower = g.start - window
  <1> DEFINE lower == g.start - window
  <1>1. g.start \in Int /\ g.start \in Tick /\ g.end \in Tick /\ g.end \in Int /\ lower \in Int
    BY GridFields
  <1>2. /\ scan_bounds(g, window, 0, {"EXTRAPOLATE"}).lower = int64(lower)
        /\ scan_bounds(g, window, 0, {"EXTRAPOLATE"}).upper = int64(g.end)
    <2>1. lower - 0 - 0 = lower /\ g.end + 0 = g.end
      BY <1>1
    <2> QED
      BY <2>1 DEF scan_bounds
  <1>3. int64(lower) \in Tick /\ int64(g.end) = g.end
    BY <1>1, Narrowing, NarrowedArithmetic
  <1>4. window > 0 /\ lower >= MinTick => int64(lower) = lower
    <2> SUFFICES ASSUME window > 0, lower >= MinTick PROVE lower \in Tick
        BY NarrowedArithmetic
    <2> QED
      BY <1>1, TickFacts
  <1> QED
    BY <1>2, <1>3, <1>4

\* A column of the scan's own.
LEMMA ScanColumn ==
  ASSUME NEW p, WellFormed(p), NEW b \in Range(ColumnBindings(p.chain)[Len(p.chain)])
  PROVE  LET scan == p.chain[Len(p.chain)]
         IN  /\ b # Null /\ b # Computed /\ b.table = scan.index
             /\ Storage(scan, b.column) \in DOMAIN scan.column_ids
             /\ scan.column_ids[Storage(scan, b.column)] \in Column
             /\ scan.column_ids[Storage(scan, b.column)] # Computed
  <1> DEFINE n == Len(p.chain)
             scan == p.chain[n]
             own == ColumnBindings(p.chain)[n]
             w == scan.width
             t == scan.index
             ids == scan.column_ids
             shown == scan.projection_ids
  <1>1. /\ n \in 1 .. n /\ scan \in TableScan
        /\ Range(shown) \subseteq DOMAIN ids
        /\ w = Len(IF shown = <<>> THEN ids ELSE shown)
    <2>1. /\ n \in Nat /\ n > 0 /\ scan \in TableScan
          /\ Range(shown) \subseteq DOMAIN ids
          /\ w = Len(IF shown = <<>> THEN ids ELSE shown)
      BY ChainFields
    <2> HIDE DEF n, scan
    <2> QED
      BY <2>1
  <1>2. /\ scan.op = "get" /\ w \in Nat /\ t \in Nat
        /\ ids \in Seq(Column) /\ shown \in Seq(Nat)
    BY <1>1, NodeFields
  <1>3. own \in Seq(Binding) /\ own = OwnColumns(scan)
    BY <1>1, <1>2, Bindings
  <1>4. own = [i \in 1 .. w |-> [table |-> t, column |-> i]] /\ b \in Range(own)
    BY <1>3 DEF OwnColumns
  <1> HIDE DEF n, scan, own, w, t, ids, shown
  <1>5. PICK i \in DOMAIN own : b = own[i]
    BY <1>4 DEF Range
  <1>6. i \in 1 .. w /\ b = [table |-> t, column |-> i] /\ b \in Binding
    <2>1. i \in 1 .. w /\ own[i] = [table |-> t, column |-> i]
      BY <1>4, <1>5
    <2>2. own[i] \in Binding
      BY <1>3, <1>5
    <2> QED
      BY <1>5, <2>1, <2>2
  <1>7. b # Null /\ b # Computed
    BY <1>6, SentinelAssumption
  <1> DEFINE c == IF shown = <<>> THEN i ELSE shown[i]
  <1>8. c \in DOMAIN ids
    <2>1. CASE shown = <<>>
      BY <2>1, <1>1, <1>2, <1>6
    <2>2. CASE shown # <<>>
      <3>1. i \in DOMAIN shown
        BY <2>2, <1>1, <1>2, <1>6
      <3>2. shown[i] \in Range(shown)
        BY <3>1 DEF Range
      <3> QED
        BY <2>2, <3>2, <1>1
    <2> QED
      BY <2>1, <2>2
  <1>9. Storage(scan, b.column) = c
    BY <1>6 DEF Storage, shown
  <1> HIDE DEF c
  <1>10. ids[c] \in Column /\ ids[c] # Computed
    <2>1. ids[c] \in Column
      BY <1>2, <1>8
    <2> QED
      BY <2>1, SentinelAssumption
  <1> QED
    BY <1>6, <1>7, <1>8, <1>9, <1>10 DEF n, scan, t, ids

\* No limit is on the way down from the top.
Unlimited(p) == \A k \in 1 .. Len(p.chain) - 1 : p.chain[k].op # "limit"

Pushed(p, window) ==
  WithFilter(p, ColumnOf(p.chain, p.ts), scan_bounds(p.grid, window, 0, {"EXTRAPOLATE"}))

\* The rule leaves the plan alone or adds a filter on the column ts is bound to,
\* with no limit above the scan; and it does so for every one of a table's own.
LEMMA PushCases ==
  ASSUME NEW p, WellFormed(p), NEW window
  PROVE  LET q == PushScanBound(p, p.ts, window)
             column == ColumnOf(p.chain, p.ts)
         IN  /\ q = p \/ (q = Pushed(p, window) /\ Unlimited(p) /\ column # Computed)
             /\ p.chain[Len(p.chain)].fn = "seq_scan" /\ column # Computed /\ Unlimited(p) =>
                  q = Pushed(p, window)
  <1> DEFINE n == Len(p.chain)
             chain == p.chain
             scan == chain[n]
             bounds == scan_bounds(p.grid, window, 0, {"EXTRAPOLATE"})
             column == ColumnOf(chain, p.ts)
             b == ResolveBindingToGet(chain, p.ts)
             r == ResolvedTo(chain, p.ts)[n - 1]
             bound == BoundTo(chain, p.ts)[n - 1]
             at_b == Storage(scan, b.column)
             q == PushScanBound(p, p.ts, window)
  <1>1. n \in Nat /\ n > 0 /\ Scan(p) = scan /\ Named(chain, 1, p.ts)
    BY ChainFields
  <1>2. /\ r \notin {Null, Computed} => r = bound /\ Unlimited(p)
        /\ bound # Computed /\ Unlimited(p) => r = bound
        /\ b = IF r \notin {Null, Computed} /\ scan.index = r.table THEN r ELSE Null
    BY <1>1, ResolvedFacts DEF Unlimited
  <1>3. /\ Named(chain, n, bound)
        /\ column = IF bound = Computed THEN Computed
                    ELSE scan.column_ids[Storage(scan, bound.column)]
    <2>1. n - 1 \in 0 .. n - 1 /\ (n - 1) + 1 = n
      <3> HIDE DEF n
      <3> QED
        BY <1>1
    <2>2. Named(chain, (n - 1) + 1, bound)
      BY <1>1, <2>1, BoundFacts
    <2>3. column = IF bound = Computed THEN Computed
                   ELSE scan.column_ids[Storage(scan, bound.column)]
      BY <1>1, BoundFacts
    <2> QED
      BY <2>1, <2>2, <2>3
  <1>4. ASSUME bound # Computed
        PROVE  /\ bound # Null /\ bound.table = scan.index
               /\ Storage(scan, bound.column) \in DOMAIN scan.column_ids
               /\ column = scan.column_ids[Storage(scan, bound.column)] /\ column # Computed
    <2>1. bound \in Range(ColumnBindings(chain)[n])
      BY <1>3, <1>4 DEF Named
    <2> QED
      BY <1>3, <1>4, <2>1, ScanColumn
  <1>5. q = IF b = Null \/ scan.fn # "seq_scan" THEN p
            ELSE IF at_b \notin DOMAIN scan.column_ids THEN p
            ELSE WithFilter(p, scan.column_ids[at_b], bounds)
    BY <1>1 DEF PushScanBound
  <1>6. Pushed(p, window) = WithFilter(p, column, bounds)
    BY DEF Pushed
  <1> HIDE DEF n, chain, scan, bounds, column, b, r, bound, at_b, q
  <1>7. q = p \/ (q = Pushed(p, window) /\ Unlimited(p) /\ column # Computed)
    <2>1. CASE b = Null
      BY <1>5, <2>1
    <2>2. CASE b # Null
      <3>1. b = bound /\ Unlimited(p) /\ bound # Computed
        BY <1>2, <2>2
      <3>2. at_b = Storage(scan, bound.column)
        BY <3>1 DEF at_b
      <3> QED
        BY <1>4, <1>5, <1>6, <3>1, <3>2
    <2> QED
      BY <2>1, <2>2
  <1>8. ASSUME scan.fn = "seq_scan", column # Computed, Unlimited(p)
        PROVE  q = Pushed(p, window)
    <2>1. bound # Computed
      BY <1>3, <1>8
    <2>2. b = bound /\ b # Null
      BY <1>2, <1>4, <1>8, <2>1
    <2>3. at_b = Storage(scan, bound.column)
      BY <2>2 DEF at_b
    <2> QED
      BY <1>4, <1>5, <1>6, <1>8, <2>1, <2>2, <2>3
  <1> QED
    BY <1>7, <1>8 DEF n, chain, scan, column, q

\* What is computed at the top is computed at the bottom.
LEMMA ComputedColumn ==
  ASSUME NEW p, WellFormed(p)
  PROVE  ColumnOf(p.chain, Computed) = Computed
  <1> DEFINE m == Len(p.chain) - 1
             B == BoundTo(p.chain, Computed)
             S == {k \in 0 .. m : B[k] = Computed}
  <1>1. m \in Nat
    <2>1. Len(p.chain) \in Nat /\ Len(p.chain) > 0
      BY ChainFields
    <2> QED
      BY <2>1
  <1>2. Named(p.chain, 1, Computed)
    BY DEF Named
  <1>3. /\ B[0] = Computed
        /\ \A k \in 1 .. m :
             B[k] = IF B[k - 1] = Computed THEN Computed ELSE Below(p.chain, k, B[k - 1])
        /\ B[m] = Computed => ColumnOf(p.chain, Computed) = Computed
    BY <1>2, BoundFacts
  <1> HIDE DEF m, B
  <1>4. 0 \in S
    BY <1>1, <1>3
  <1>5. ASSUME NEW k \in 1 .. m, k - 1 \in S PROVE k \in S
    BY <1>1, <1>3, <1>5
  <1>6. m \in S
    <2>1. m \in 0 .. m
      BY <1>1
    <2> HIDE DEF S
    <2> QED
      BY <1>1, <1>4, <1>5, <2>1, UptoInduction
  <1> QED
    BY <1>3, <1>6

\* The one ts_rate of a plan the rule has changed.
Alone(p) == Len(p.calls) = 1 /\ DOMAIN p.calls = {1} /\ p.calls[1].fn = "ts_rate"

LEMMA OptimizedCases ==
  ASSUME NEW p, WellFormed(p), NEW on \in BOOLEAN
  PROVE  LET q == Optimized(p, on)
             column == ColumnOf(p.chain, p.ts)
         IN  /\ q = p \/ /\ q = Pushed(p, p.calls[1].window)
                         /\ Alone(p) /\ Unlimited(p) /\ column # Computed
             /\ /\ on /\ Len(p.calls) = 1 /\ p.chain[Len(p.chain)].fn = "seq_scan"
                /\ column # Computed /\ Unlimited(p)
                => q = Pushed(p, p.calls[1].window) /\ Alone(p)
  <1> DEFINE q == Optimized(p, on)
             column == ColumnOf(p.chain, p.ts)
             window == p.calls[1].window
             pushed == Pushed(p, window)
             push == PushScanBound(p, p.ts, window)
             scan == p.chain[Len(p.chain)]
  <1>1. /\ push = p \/ (push = pushed /\ Unlimited(p) /\ column # Computed)
        /\ scan.fn = "seq_scan" /\ column # Computed /\ Unlimited(p) => push = pushed
    BY PushCases
  <1>2. /\ p.top \in {"aggregate", "grid_stream"}
        /\ p.calls \in Seq([fn : {"ts_rate", "count_star"}, window : 1 .. MaxTick])
        /\ p.top = "grid_stream" => Len(p.calls) = 1
        /\ \E c \in DOMAIN p.calls : p.calls[c].fn = "ts_rate"
    BY PlanFields, ChainFields
  <1>3. Len(p.calls) = 1 => Alone(p)
    <2> SUFFICES ASSUME Len(p.calls) = 1 PROVE DOMAIN p.calls = {1} /\ p.calls[1].fn = "ts_rate"
        BY DEF Alone
    <2>1. DOMAIN p.calls = {1}
      <3> DEFINE calls == p.calls
      <3>1. DOMAIN calls = 1 .. Len(calls)
        BY <1>2
      <3> HIDE DEF calls
      <3>2. Len(calls) = 1
        BY DEF calls
      <3>3. 1 .. 1 = {1}
        OBVIOUS
      <3>4. DOMAIN calls = {1}
        BY <3>1, <3>2, <3>3
      <3> QED
        BY <3>4 DEF calls
    <2> QED
      BY <1>2, <2>1
  <1>4. column # Computed => p.ts # Computed
    BY ComputedColumn
  <1>5. q = IF ~on THEN p
            ELSE IF p.top = "aggregate"
                 THEN IF Len(p.calls) = 1 /\ p.calls[1].fn = "ts_rate" /\ p.ts # Computed
                      THEN push ELSE p
            ELSE push
    BY DEF Optimized, TryPushAggregateBound, TryPushOperatorBound
  <1> HIDE DEF q, column, pushed, push, scan
  <1>6. q = p \/ (q = pushed /\ Alone(p) /\ Unlimited(p) /\ column # Computed)
    BY <1>1, <1>2, <1>3, <1>5
  <1>7. /\ on /\ Len(p.calls) = 1 /\ scan.fn = "seq_scan" /\ column # Computed /\ Unlimited(p)
        => q = pushed /\ Alone(p)
    BY <1>1, <1>3, <1>4, <1>5 DEF Alone
  <1> QED
    BY <1>6, <1>7 DEF q, column, pushed, scan

Bound(p, window) ==
  LET bounds == scan_bounds(p.grid, window, 0, {"EXTRAPOLATE"})
  IN  [column |-> ColumnOf(p.chain, p.ts), lower |-> bounds.lower, upper |-> bounds.upper]

LEMMA PushedFields ==
  ASSUME NEW p, WellFormed(p), NEW window
  PROVE  Filtered(p, Pushed(p, window), ColumnOf(p.chain, p.ts),
                  scan_bounds(p.grid, window, 0, {"EXTRAPOLATE"}))
  BY FilterPushed DEF Pushed

LEMMA PushedFilter ==
  ASSUME NEW p, WellFormed(p), NEW window
  PROVE  LET old == Scan(p).table_filters
             new == Scan(Pushed(p, window)).table_filters
         IN  /\ old \in Seq([column : Column, lower : Tick, upper : Tick])
             /\ new = Append(old, Bound(p, window))
             /\ \A i : i \in DOMAIN new <=> i \in DOMAIN old \/ i = Len(old) + 1
             /\ \A i \in DOMAIN old : new[i] = old[i]
             /\ new[Len(old) + 1] = Bound(p, window)
  <1> DEFINE n == Len(p.chain)
             q == Pushed(p, window)
             old == Scan(p).table_filters
             new == Scan(q).table_filters
             f == Bound(p, window)
  <1>1. /\ Scan(p) = p.chain[n] /\ Scan(p) \in TableScan
    BY ChainFields
  <1>2. old \in Seq([column : Column, lower : Tick, upper : Tick])
    BY <1>1, NodeFields
  <1>3. new = Append(old, f)
    <2>1. /\ Len(q.chain) = n
          /\ q.chain[n].table_filters = Append(p.chain[n].table_filters, f)
      BY PushedFields DEF Filtered, Bound
    <2>2. Scan(q) = q.chain[n]
      BY <2>1 DEF Scan
    <2> QED
      BY <1>1, <2>1, <2>2
  <1> HIDE DEF old, new, f
  <1>4. /\ Len(old) \in Nat /\ DOMAIN old = 1 .. Len(old)
        /\ DOMAIN new = 1 .. Len(old) + 1
        /\ \A i \in 1 .. Len(old) : new[i] = old[i]
        /\ new[Len(old) + 1] = f
    BY <1>2, <1>3
  <1>5. \A i : i \in 1 .. Len(old) + 1 <=> i \in 1 .. Len(old) \/ i = Len(old) + 1
    BY <1>4
  <1> QED
    BY <1>2, <1>3, <1>4, <1>5 DEF old, new, f

LEMMA ScannedPushed ==
  ASSUME NEW p, WellFormed(p), NEW window, NEW rows
  PROVE  Scanned(Pushed(p, window), rows)
           = {r \in Scanned(p, rows) : InFilter(Bound(p, window), r)}
  <1> DEFINE old == Scan(p).table_filters
             new == Scan(Pushed(p, window)).table_filters
             f == Bound(p, window)
  <1>1. /\ \A i : i \in DOMAIN new <=> i \in DOMAIN old \/ i = Len(old) + 1
        /\ \A i \in DOMAIN old : new[i] = old[i]
        /\ new[Len(old) + 1] = f
    BY PushedFilter
  <1>2. /\ Scanned(Pushed(p, window), rows)
             = {r \in rows : \A i \in DOMAIN new : InFilter(new[i], r)}
        /\ Scanned(p, rows) = {r \in rows : \A i \in DOMAIN old : InFilter(old[i], r)}
    BY DEF Scanned
  <1> HIDE DEF old, new, f
  <1>3. \A r : (\A i \in DOMAIN new : InFilter(new[i], r))
                 <=> (\A i \in DOMAIN old : InFilter(old[i], r)) /\ InFilter(f, r)
    BY <1>1
  <1> QED
    BY <1>2, <1>3 DEF f

LEMMA AskedPlan ==
  ASSUME IInv, asked # Null
  PROVE  /\ plan = asked \/ (/\ plan = Pushed(asked, asked.calls[1].window)
                             /\ Alone(asked) /\ Unlimited(asked)
                             /\ ColumnOf(asked.chain, asked.ts) # Computed)
         /\ /\ setting /\ Len(asked.calls) = 1
            /\ asked.chain[Len(asked.chain)].fn = "seq_scan"
            /\ ColumnOf(asked.chain, asked.ts) # Computed /\ Unlimited(asked)
            => plan = Pushed(asked, asked.calls[1].window) /\ Alone(asked)
  <1>1. /\ WellFormed(asked) /\ plan = Optimized(asked, setting)
        /\ setting \in BOOLEAN
    BY StatementFacts DEF IInv
  <1> QED
    BY <1>1, OptimizedCases

\* Every variable is of its type, and a pushed bound is one the filter can hold.
THEOREM TypeCorrect == Spec => []TypeOK
  <1>1. IInv => TypeOK
    <2> SUFFICES ASSUME IInv PROVE TypeOK
        OBVIOUS
    <2>1. now \in FirstTick .. LastTick /\ counter \in [SeriesId -> Counter] /\ setting \in BOOLEAN
      BY DEF IInv, WriterInv
    <2>2. ASSUME NEW r \in scraped
          PROVE  /\ r.id \in SeriesId /\ r.t \in FirstTick .. now
                 /\ r.st \in Tick \union {Null} /\ r.v \in 0 .. r.total
      <3>1. r \in Scraped /\ r.t \in FirstTick .. now /\ r.v <= r.total
        BY DEF IInv, WriterInv
      <3>2. /\ r.id \in SeriesId /\ r.v \in Nat /\ r.total \in Nat
            /\ r.st \in Tick \union {Null}
        BY <3>1, ScrapedFields
      <3> QED
        BY <3>1, <3>2
    <2>3. ASSUME asked # Null
          PROVE  /\ asked \in Statement
                 /\ \A i \in DOMAIN Scan(plan).table_filters :
                      {Scan(plan).table_filters[i].lower, Scan(plan).table_filters[i].upper}
                        \subseteq Tick
      <3> DEFINE old == Scan(asked).table_filters
                 new == Scan(plan).table_filters
                 window == asked.calls[1].window
                 f == Bound(asked, window)
      <3>1. asked \in Statement /\ WellFormed(asked)
        BY <2>3, StatementFacts
      <3>2. old \in Seq([column : Column, lower : Tick, upper : Tick])
        BY <3>1, PushedFilter
      <3>3. \A i \in DOMAIN old : old[i].lower \in Tick /\ old[i].upper \in Tick
        <4> DEFINE C == [column : Column, lower : Tick, upper : Tick]
        <4>1. \A c \in C : c.lower \in Tick /\ c.upper \in Tick
          OBVIOUS
        <4>2. old \in Seq(C)
          BY <3>2
        <4>3. \A i \in DOMAIN old : old[i] \in C
          <5> HIDE DEF C, old
          <5> QED
            BY <4>2
        <4> QED
          BY <4>1, <4>3
      <3>4. plan = asked \/ (plan = Pushed(asked, window) /\ Alone(asked))
        BY <2>3, AskedPlan
      <3>5. CASE plan = asked
        BY <3>1, <3>3, <3>5
      <3>6. CASE plan = Pushed(asked, window) /\ Alone(asked)
        <4>1. /\ \A i : i \in DOMAIN new <=> i \in DOMAIN old \/ i = Len(old) + 1
              /\ \A i \in DOMAIN old : new[i] = old[i]
              /\ new[Len(old) + 1] = f
          BY <3>1, <3>6, PushedFilter
        <4>2. asked.grid \in Grid /\ window \in Int
          BY <3>1, <3>6, PlanFields DEF Alone
        <4>3. f.lower \in Tick /\ f.upper \in Tick
          BY <4>2, BoundsFacts, GridFields DEF Bound
        <4> HIDE DEF old, new, f
        <4>4. \A i \in DOMAIN new : new[i].lower \in Tick /\ new[i].upper \in Tick
          BY <3>3, <4>1, <4>3
        <4> QED
          BY <3>1, <4>4 DEF new
      <3> QED
        BY <3>4, <3>5, <3>6
    <2> QED
      BY <2>1, <2>2, <2>3 DEF TypeOK
  <1> QED
    BY <1>1, InvInit, InvStep, PTL DEF Spec

\* With the setting on, a lone ts_rate over a table's own timestamps has a scan
\* that ends at the windows' hull.
THEOREM ScanBounded == Spec => []ScanIsBounded
  <1>1. IInv => ScanIsBounded
    <2> SUFFICES ASSUME IInv, plan # Null, setting, Bounded, Len(asked.calls) = 1,
                        Scan(asked).fn = "seq_scan", ReadsTsColumn(asked),
                        NEW r \in Scanned(plan, table)
                 PROVE  asked.grid.start - asked.calls[1].window <= r.t /\ r.t <= asked.grid.end
        BY DEF ScanIsBounded
    <2> DEFINE window == asked.calls[1].window
               f == Bound(asked, window)
    <2>1. asked # Null
      <3>1. Null \notin Statement /\ StatementInv
        BY StatementAssumption DEF IInv
      <3> QED
        BY <3>1 DEF StatementInv
    <2>2. WellFormed(asked)
      BY <2>1, StatementFacts
    <2>3. /\ Len(asked.chain) \in Nat /\ DOMAIN asked.chain = 1 .. Len(asked.chain)
          /\ Scan(asked) = asked.chain[Len(asked.chain)]
      BY <2>2, ChainFields
    <2>4. Unlimited(asked)
      BY <2>3 DEF Unlimited, ReadsTsColumn
    <2>5. ColumnOf(asked.chain, asked.ts) = "t" /\ "t" # Computed
      BY SentinelAssumption DEF ReadsTsColumn, Column
    <2>6. plan = Pushed(asked, window) /\ Alone(asked)
      BY <2>1, <2>3, <2>4, <2>5, AskedPlan
    <2>7. InFilter(f, r)
      BY <2>2, <2>6, ScannedPushed
    <2>8. asked.grid \in Grid /\ 1 \in DOMAIN asked.calls /\ window \in Int /\ window > 0
      BY <2>2, <2>6, PlanFields DEF Alone
    <2>9. asked.grid.start - window >= MinTick
      BY <2>8 DEF Bounded
    <2>10. f.lower = asked.grid.start - window /\ f.upper = asked.grid.end /\ f.column = "t"
      BY <2>5, <2>8, <2>9, BoundsFacts DEF Bound
    <2> QED
      BY <2>7, <2>10 DEF InFilter
  <1> QED
    BY <1>1, InvInit, InvStep, PTL DEF Spec

-----------------------------------------------------------------------------
(* What the pushed filter leaves of a result *)

\* The function Reaching ends in.
RowsUpTo(p, rows) ==
  CHOOSE g : g = [h \in 0 .. Len(p.chain) - 1 |->
                    IF h = 0 THEN Scanned(p, rows)
                    ELSE Passed(p.chain[Len(p.chain) - h], g[h - 1])]

LEMMA RowsFacts ==
  ASSUME NEW p, Len(p.chain) \in Nat, Len(p.chain) > 0, NEW rows
  PROVE  LET n == Len(p.chain)
             H == RowsUpTo(p, rows)
         IN  /\ H[0] = Scanned(p, rows)
             /\ \A h \in 1 .. n - 1 : H[h] = Passed(p.chain[n - h], H[h - 1])
             /\ \A h \in 0 .. n - 1 : H[h] \in SUBSET rows
             /\ Reaching(p, rows) = H[n - 1]
  <1> DEFINE n == Len(p.chain)
             m == n - 1
             base == Scanned(p, rows)
             V == SUBSET rows
             step == [q \in V \X (1 .. m) |-> Passed(p.chain[n - q[2]], q[1])]
             H == RowsUpTo(p, rows)
  <1>1. m \in Nat /\ base \in V
    BY DEF Scanned
  <1>2. \A node : \A U \in V : Passed(node, U) \in V
    BY DEF Passed
  <1>3. step \in Steps(m, V)
    <2> HIDE DEF V
    <2> QED
      BY <1>2 DEF Steps
  <1> HIDE DEF n, m, base, V
  <1>4. PICK g : Recursive(g, m, V, base, step)
    <2> HIDE DEF step
    <2> QED
      BY <1>1, <1>3, Recursion
  <1>5. /\ g \in [0 .. m -> V] /\ g[0] = base
        /\ \A h \in 1 .. m : g[h] = step[<<g[h - 1], h>>]
    BY <1>4 DEF Recursive
  <1>6. g = [h \in 0 .. m |-> IF h = 0 THEN base ELSE Passed(p.chain[n - h], g[h - 1])]
    <2>1. ASSUME NEW h \in 1 .. m PROVE g[h] = Passed(p.chain[n - h], g[h - 1])
      <3>1. h - 1 \in 0 .. m
        BY <1>1
      <3>2. g[h - 1] \in V
        BY <1>5, <3>1
      <3> QED
        BY <1>5, <3>2
    <2>2. \A h \in 0 .. m : h = 0 \/ h \in 1 .. m
      BY <1>1
    <2> QED
      BY <1>5, <2>1, <2>2
  <1>7. H = [h \in 0 .. m |-> IF h = 0 THEN base ELSE Passed(p.chain[n - h], H[h - 1])]
    BY <1>6 DEF RowsUpTo, m, n, base
  <1>8. Reaching(p, rows) = H[m]
    BY DEF Reaching, RowsUpTo, m, n
  <1> HIDE DEF H
  <1>9. H[0] = base /\ \A h \in 1 .. m : H[h] = Passed(p.chain[n - h], H[h - 1])
    BY <1>1, <1>7
  <1> DEFINE S == {h \in 0 .. m : H[h] \in V}
  <1>10. 0 \in S
    BY <1>1, <1>9
  <1>11. ASSUME NEW h \in 1 .. m, h - 1 \in S PROVE h \in S
    BY <1>2, <1>9, <1>11
  <1>12. \A h \in 0 .. m : h \in S
    <2> HIDE DEF S
    <2> QED
      BY <1>1, <1>10, <1>11, UptoInduction
  <1> QED
    BY <1>8, <1>9, <1>12 DEF H, m, n, base, V

\* Above the scan the rows are the same but for the filter, which no operator of
\* an unlimited chain can tell.
LEMMA ReachingPushed ==
  ASSUME NEW p, WellFormed(p), NEW window, Unlimited(p), NEW rows
  PROVE  /\ Reaching(Pushed(p, window), rows)
              = {r \in Reaching(p, rows) : InFilter(Bound(p, window), r)}
         /\ Reaching(p, rows) \in SUBSET rows
  <1> DEFINE q == Pushed(p, window)
             n == Len(p.chain)
             m == n - 1
             f == Bound(p, window)
             G == RowsUpTo(p, rows)
             H == RowsUpTo(q, rows)
  <1>1. n \in Nat /\ n > 0 /\ m \in Nat
    <2>1. n \in Nat /\ n > 0
      BY ChainFields
    <2> HIDE DEF n
    <2> QED
      BY <2>1
  <1>2. Len(q.chain) = n /\ \A k \in 1 .. n - 1 : q.chain[k] = p.chain[k]
    BY PushedFields, ZenonT(60) DEF Filtered
  <1>3. \A k \in 1 .. n - 1 : p.chain[k].op # "limit"
    BY DEF Unlimited
  <1>4. Scanned(q, rows) = {r \in Scanned(p, rows) : InFilter(f, r)}
    BY ScannedPushed
  <1>5. /\ G[0] = Scanned(p, rows)
        /\ \A h \in 1 .. m : G[h] = Passed(p.chain[n - h], G[h - 1])
        /\ \A h \in 0 .. m : G[h] \in SUBSET rows
        /\ Reaching(p, rows) = G[m]
    BY <1>1, RowsFacts
  <1> HIDE DEF q
  <1>6. /\ H[0] = Scanned(q, rows)
        /\ \A h \in 1 .. m : H[h] = Passed(q.chain[n - h], H[h - 1])
        /\ Reaching(q, rows) = H[m]
    <2>1. Len(q.chain) \in Nat /\ Len(q.chain) > 0
      BY <1>1, <1>2
    <2> HIDE DEF n
    <2>2. /\ H[0] = Scanned(q, rows)
          /\ \A h \in 1 .. Len(q.chain) - 1 :
               H[h] = Passed(q.chain[Len(q.chain) - h], H[h - 1])
          /\ Reaching(q, rows) = H[Len(q.chain) - 1]
      BY <2>1, RowsFacts
    <2> QED
      BY <1>2, <2>2
  <1> HIDE DEF n, m, f, G, H
  <1> DEFINE S == {h \in 0 .. m : H[h] = {r \in G[h] : InFilter(f, r)}}
  <1>7. 0 \in S
    BY <1>1, <1>4, <1>5, <1>6
  <1>8. ASSUME NEW h \in 1 .. m, h - 1 \in S PROVE h \in S
    <2>1. n - h \in 1 .. n - 1 /\ h \in 0 .. m
      BY <1>1 DEF m
    <2> DEFINE node == p.chain[n - h]
               U == G[h - 1]
    <2>2. /\ H[h] = Passed(node, {r \in U : InFilter(f, r)}) /\ G[h] = Passed(node, U)
          /\ node.op # "limit"
      BY <1>2, <1>3, <1>5, <1>6, <1>8, <2>1
    <2> HIDE DEF node, U
    <2>3. Passed(node, {r \in U : InFilter(f, r)}) = {r \in Passed(node, U) : InFilter(f, r)}
      <3>1. CASE node.op = "filter"
        BY <3>1 DEF Passed
      <3>2. CASE node.op # "filter"
        BY <2>2, <3>2 DEF Passed
      <3> QED
        BY <3>1, <3>2
    <2> QED
      BY <2>1, <2>2, <2>3
  <1>9. m \in S
    <2>1. m \in 0 .. m
      BY <1>1
    <2> HIDE DEF S
    <2> QED
      BY <1>1, <1>7, <1>8, <2>1, UptoInduction
  <1>10. m \in 0 .. m
    BY <1>1
  <1> QED
    BY <1>5, <1>6, <1>9, <1>10 DEF q, f

\* The samples a call sees of some rows: those of their samples the filter admits.
LEMMA SamplesPushed ==
  ASSUME NEW p, WellFormed(p), NEW window, ColumnOf(p.chain, p.ts) # Computed, NEW rows
  PROVE  LET f == Bound(p, window)
             seen == SamplesSeen(p, rows)
         IN  SamplesSeen(Pushed(p, window), {r \in rows : InFilter(f, r)})
               = {s \in seen : f.lower <= s.t /\ s.t <= f.upper}
  <1> DEFINE q == Pushed(p, window)
             f == Bound(p, window)
             column == ColumnOf(p.chain, p.ts)
             bounds == scan_bounds(p.grid, window, 0, {"EXTRAPOLATE"})
             ts == ColumnOf(p.chain, p.ts)
             value == ColumnOf(p.chain, p.value)
             start_ts == ColumnOf(p.chain, p.start_ts)
             Sample(r) == [t |-> ValueIn(r, ts), v |-> ValueIn(r, value),
                           st |-> ValueIn(r, start_ts)]
             Full(r) == Null \notin {ValueIn(r, ts), ValueIn(r, value)}
  <1>1. Filtered(p, q, column, bounds)
    BY PushedFields
  <1>2. q.ts = p.ts /\ q.value = p.value /\ q.start_ts = p.start_ts
    BY <1>1 DEF Filtered
  <1>3. /\ Named(p.chain, 1, p.ts) /\ Named(p.chain, 1, p.value)
        /\ Named(p.chain, 1, p.start_ts)
    BY ChainFields
  <1> HIDE DEF q, bounds
  <1>4. /\ ColumnOf(q.chain, q.ts) = ts /\ ColumnOf(q.chain, q.value) = value
        /\ ColumnOf(q.chain, q.start_ts) = start_ts
    <2> HIDE DEF column
    <2> QED
      BY <1>1, <1>2, <1>3, SameColumns
  <1>5. f.column = ts
    BY DEF Bound
  <1>6. ts # Computed
    OBVIOUS
  <1> HIDE DEF f, ts, value, start_ts, column
  <1>7. SamplesSeen(p, rows) = {Sample(r) : r \in {u \in rows : Full(u)}}
    BY DEF SamplesSeen, ts, value, start_ts
  <1>8. SamplesSeen(q, {r \in rows : InFilter(f, r)})
          = {Sample(r) : r \in {u \in {r \in rows : InFilter(f, r)} : Full(u)}}
    BY <1>4 DEF SamplesSeen
  <1>9. \A r : Full(r) =>
          (InFilter(f, r) <=> f.lower <= Sample(r).t /\ Sample(r).t <= f.upper)
    BY <1>5, <1>6 DEF InFilter, ValueIn
  <1> HIDE DEF Sample, Full
  <1>10. {Sample(r) : r \in {u \in {r \in rows : InFilter(f, r)} : Full(u)}}
           = {s \in {Sample(r) : r \in {u \in rows : Full(u)}} : f.lower <= s.t /\ s.t <= f.upper}
    BY <1>9
  <1> QED
    BY <1>7, <1>8, <1>10 DEF q, f

RateOf(g, window, samples) ==
  IF samples = {} THEN Null
  ELSE [i \in 1 .. count(g) |->
          RatePoint(g, window, i - 1, WindowOf(samples, at(g, i - 1), window))]

\* A window with no sample has no answer.
LEMMA EmptyWindow ==
  ASSUME NEW g, NEW window, NEW i
  PROVE  RatePoint(g, window, i, Ascending({})) = Null
  <1> DEFINE data == Ascending({})
  <1>1. Len(data) = 0
    <2> DEFINE e(k) == CHOOSE s \in {} : Cardinality({q \in {} : q.t <= s.t}) = k
               f == [k \in 1 .. 0 |-> e(k)]
    <2>1. data = f
      BY FS_EmptySet DEF Ascending
    <2>2. f \in [1 .. 0 -> Int]
      <3>1. \A k \in 1 .. 0 : FALSE
        OBVIOUS
      <3> HIDE DEF e
      <3> QED
        BY <3>1
    <2>3. f \in Seq(Int) /\ Len(f) = 0
      <3> HIDE DEF f
      <3> QED
        BY <2>2
    <2> QED
      BY <2>1, <2>3
  <1> HIDE DEF data
  <1>2. counter_fold(data).n = 0
    BY <1>1 DEF counter_fold
  <1>3. \A low, anchor : extrapolate(counter_fold(data), low, anchor) = Null
    BY <1>2 DEF extrapolate
  <1> QED
    BY <1>3 DEF RatePoint, data

\* Only samples of the windows' hull count.
LEMMA RateWithin ==
  ASSUME NEW g \in Grid, NEW window \in Int, NEW S, \A s \in S : s.t \in Int,
         NEW T, T = {s \in S : g.start - window <= s.t /\ s.t <= g.end}
  PROVE  /\ T = {} => Unanswered(RateOf(g, window, S))
         /\ T # {} => RateOf(g, window, T) = RateOf(g, window, S)
  <1> DEFINE In(U, i) == {s \in U : Contains(at(g, i - 1), window, s.t)}
  <1>1. ASSUME NEW i \in 1 .. count(g)
        PROVE  In(S, i) = In(T, i)
    <2> DEFINE anchor == at(g, i - 1)
    <2>1. i - 1 \in 0 .. count(g) - 1
      <3>1. count(g) \in Int
        <4> DEFINE span == g.end - g.start
                   q == span \div g.step
        <4>1. span \in Int /\ g.step \in Nat \ {0}
          BY TickFacts DEF Grid
        <4>2. q \in Int
          <5> HIDE DEF span
          <5> QED
            BY <4>1, DivMod
        <4>3. count(g) = int64(int64(q) + 1)
          BY DEF count
        <4> HIDE DEF q
        <4>4. int64(q) \in Int
          BY <4>2, Narrowing, TickFacts
        <4>5. int64(int64(q) + 1) \in Int
          BY <4>4, Narrowing, TickFacts
        <4> QED
          BY <4>3, <4>5
      <3> QED
        BY <3>1
    <2>2. anchor \in Int /\ g.start <= anchor /\ anchor <= g.end /\ g.start \in Int /\ g.end \in Int
      BY <2>1, GridPoints, GridFields
    <2> HIDE DEF anchor
    <2>3. \A t \in Int : Contains(anchor, window, t) => g.start - window <= t /\ t <= g.end
      BY <2>2 DEF Contains
    <2> QED
      BY <2>3 DEF anchor
  <1>2. ASSUME T = {} PROVE Unanswered(RateOf(g, window, S))
    <2>1. CASE S = {}
      BY <2>1 DEF RateOf, Unanswered
    <2>2. CASE S # {}
      <3> DEFINE value == [i \in 1 .. count(g) |-> RatePoint(g, window, i - 1, Ascending(In(S, i)))]
      <3>1. RateOf(g, window, S) = value
        BY <2>2 DEF RateOf, WindowOf
      <3>2. ASSUME NEW i \in 1 .. count(g) PROVE value[i] = Null
        <4>1. In(S, i) = {}
          BY <1>1, <1>2
        <4> HIDE DEF In
        <4>2. value[i] = RatePoint(g, window, i - 1, Ascending({}))
          BY <4>1
        <4> QED
          BY <4>2, EmptyWindow
      <3> QED
        BY <3>1, <3>2 DEF Unanswered
    <2> QED
      BY <2>1, <2>2
  <1>3. ASSUME T # {} PROVE RateOf(g, window, T) = RateOf(g, window, S)
    <2>1. S # {}
      BY <1>3
    <2>2. /\ RateOf(g, window, T) =
               [i \in 1 .. count(g) |-> RatePoint(g, window, i - 1, Ascending(In(T, i)))]
          /\ RateOf(g, window, S) =
               [i \in 1 .. count(g) |-> RatePoint(g, window, i - 1, Ascending(In(S, i)))]
      BY <1>3, <2>1 DEF RateOf, WindowOf
    <2> HIDE DEF In
    <2> QED
      BY <1>1, <2>2
  <1> QED
    BY <1>2, <1>3

GroupOf(p, r) ==
  IF p.series = Null THEN "all" ELSE ValueIn(r, ColumnOf(p.chain, p.series))

Groups(p, rows) == IF p.series = Null THEN {"all"} ELSE {GroupOf(p, r) : r \in rows}

OfGroup(p, rows, g) == {r \in rows : GroupOf(p, r) = g}

\* A group's value of a lone ts_rate.
LEMMA ResultFacts ==
  ASSUME NEW p, Alone(p), NEW rows
  PROVE  LET result == Result(p, rows)
             reaching == Reaching(p, rows)
         IN  /\ DOMAIN result = Groups(p, reaching)
             /\ \A g \in DOMAIN result :
                  result[g][1] = RateOf(p.grid, p.calls[1].window,
                                        SamplesSeen(p, OfGroup(p, reaching, g)))
  <1> DEFINE reaching == Reaching(p, rows)
             Value(g, c) == IF p.calls[c].fn = "ts_rate"
                            THEN Rate(p, p.calls[c].window, OfGroup(p, reaching, g))
                            ELSE Cardinality(OfGroup(p, reaching, g))
  <1>1. Result(p, rows) = [g \in Groups(p, reaching) |-> [c \in DOMAIN p.calls |-> Value(g, c)]]
    BY DEF Result, Groups, GroupOf, OfGroup
  <1>2. DOMAIN p.calls = {1} /\ p.calls[1].fn = "ts_rate"
    BY DEF Alone
  <1>3. \A g : Value(g, 1) = RateOf(p.grid, p.calls[1].window,
                                    SamplesSeen(p, OfGroup(p, reaching, g)))
    BY <1>2 DEF Rate, RateOf
  <1> HIDE DEF Value, reaching
  <1>4. /\ DOMAIN Result(p, rows) = Groups(p, reaching)
        /\ \A g \in Groups(p, reaching) : Result(p, rows)[g][1] = Value(g, 1)
    BY <1>1, <1>2
  <1> QED
    BY <1>3, <1>4 DEF reaching

\* With the exact bound, a group that is left has the value it had or NULL where
\* there was none, and one that is gone had none.
LEMMA ResultPushed ==
  ASSUME NEW p, WellFormed(p), Alone(p), Unlimited(p), ColumnOf(p.chain, p.ts) # Computed,
         p.grid.start - p.calls[1].window >= MinTick,
         NEW rows \in SUBSET Row
  PROVE  LET result == Result(Pushed(p, p.calls[1].window), rows)
             plain == Result(p, rows)
         IN  /\ DOMAIN result \subseteq DOMAIN plain
             /\ \A g \in DOMAIN result :
                  \/ result[g][1] = plain[g][1]
                  \/ result[g][1] = Null /\ Unanswered(plain[g][1])
             /\ \A g \in DOMAIN plain \ DOMAIN result : Unanswered(plain[g][1])
  <1> DEFINE window == p.calls[1].window
             q == Pushed(p, window)
             f == Bound(p, window)
             column == ColumnOf(p.chain, p.ts)
             bounds == scan_bounds(p.grid, window, 0, {"EXTRAPOLATE"})
             result == Result(q, rows)
             plain == Result(p, rows)
             R == Reaching(p, rows)
             Q == Reaching(q, rows)
             S(g) == SamplesSeen(p, OfGroup(p, R, g))
             T(g) == {s \in S(g) : f.lower <= s.t /\ s.t <= f.upper}
  <1>1. p.grid \in Grid /\ window \in Int /\ window > 0
    <2>1. 1 \in DOMAIN p.calls
      BY DEF Alone
    <2> QED
      BY <2>1, PlanFields
  <1>2. f.lower = p.grid.start - window /\ f.upper = p.grid.end
    BY <1>1, BoundsFacts DEF Bound
  <1>3. Filtered(p, q, column, bounds)
    BY PushedFields
  <1>4. q.grid = p.grid /\ q.calls = p.calls /\ q.series = p.series /\ Alone(q)
    BY <1>3 DEF Filtered, Alone
  <1>5. Q = {r \in R : InFilter(f, r)} /\ R \in SUBSET rows
    BY ReachingPushed
  <1>6. \A U : SamplesSeen(q, {r \in U : InFilter(f, r)})
                 = {s \in SamplesSeen(p, U) : f.lower <= s.t /\ s.t <= f.upper}
    BY SamplesPushed
  <1>7. \A r : GroupOf(q, r) = GroupOf(p, r)
    <2>1. CASE p.series = Null
      BY <1>4, <2>1 DEF GroupOf
    <2>2. CASE p.series # Null
      <3>1. Named(p.chain, 1, p.series)
        BY <2>2, ChainFields
      <3> HIDE DEF q, column, bounds
      <3>2. ColumnOf(q.chain, p.series) = ColumnOf(p.chain, p.series)
        BY <1>3, <3>1, SameColumns
      <3> QED
        BY <1>4, <3>2 DEF GroupOf
    <2> QED
      BY <2>1, <2>2
  <1>8. column \in {"t", "st"}
    BY ChainFields
  <1>9. ASSUME NEW g, NEW s \in S(g) PROVE s.t \in Int
    <2>1. PICK r \in R : s.t = ValueIn(r, column) /\ ValueIn(r, column) # Null
      BY <1>9 DEF SamplesSeen, OfGroup
    <2>2. r.t \in Int /\ r.st \in Tick \union {Null}
      BY <1>5, <2>1, RowFields
    <2>3. ValueIn(r, column) = r[column]
      BY DEF ValueIn
    <2> HIDE DEF column
    <2> QED
      BY <1>8, <2>1, <2>2, <2>3, TickFacts
  <1>10. /\ DOMAIN result = Groups(q, Q) /\ DOMAIN plain = Groups(p, R)
         /\ \A g \in DOMAIN plain : plain[g][1] = RateOf(p.grid, window, S(g))
         /\ \A g \in DOMAIN result :
              result[g][1] = RateOf(p.grid, window, SamplesSeen(q, OfGroup(q, Q, g)))
    <2>1. DOMAIN plain = Groups(p, R) /\ \A g \in DOMAIN plain : plain[g][1] = RateOf(p.grid, window, S(g))
      BY ResultFacts
    <2> HIDE DEF q
    <2>2. /\ DOMAIN result = Groups(q, Q)
          /\ \A g \in DOMAIN result :
               result[g][1] = RateOf(q.grid, q.calls[1].window,
                                     SamplesSeen(q, OfGroup(q, Q, g)))
      BY <1>4, ResultFacts
    <2> QED
      BY <1>4, <2>1, <2>2
  <1> HIDE DEF window, q, f, column, bounds, result, plain, R, Q
  <1>11. \A g : SamplesSeen(q, OfGroup(q, Q, g)) = T(g)
    <2> SUFFICES ASSUME NEW g PROVE SamplesSeen(q, OfGroup(q, Q, g)) = T(g)
        OBVIOUS
    <2>1. OfGroup(q, Q, g) = {r \in OfGroup(p, R, g) : InFilter(f, r)}
      BY <1>5, <1>7 DEF OfGroup
    <2> QED
      BY <1>6, <2>1
  <1>12. ASSUME NEW g
         PROVE  /\ T(g) = {} => Unanswered(RateOf(p.grid, window, S(g)))
                /\ T(g) # {} => RateOf(p.grid, window, T(g)) = RateOf(p.grid, window, S(g))
    <2> DEFINE U == S(g)
               W == T(g)
    <2>1. \A s \in U : s.t \in Int
      BY <1>9
    <2>2. W = {s \in U : p.grid.start - window <= s.t /\ s.t <= p.grid.end}
      BY <1>2
    <2> HIDE DEF U, W
    <2>3. /\ W = {} => Unanswered(RateOf(p.grid, window, U))
          /\ W # {} => RateOf(p.grid, window, W) = RateOf(p.grid, window, U)
      BY <1>1, <2>1, <2>2, RateWithin
    <2> QED
      BY <2>3 DEF U, W
  <1>13. DOMAIN result \subseteq DOMAIN plain
    <2>1. CASE p.series = Null
      BY <1>4, <1>10, <2>1 DEF Groups
    <2>2. CASE p.series # Null
      BY <1>4, <1>5, <1>7, <1>10, <2>2 DEF Groups
    <2> QED
      BY <2>1, <2>2
  <1>14. ASSUME NEW g \in DOMAIN result
         PROVE  \/ result[g][1] = plain[g][1]
                \/ result[g][1] = Null /\ Unanswered(plain[g][1])
    <2>1. /\ result[g][1] = RateOf(p.grid, window, T(g))
          /\ plain[g][1] = RateOf(p.grid, window, S(g))
      <3> HIDE DEF S, T
      <3> QED
        BY <1>10, <1>11, <1>13
    <2> HIDE DEF S, T
    <2>2. CASE T(g) = {}
      <3>1. RateOf(p.grid, window, T(g)) = Null
        BY <2>2 DEF RateOf
      <3> QED
        BY <1>12, <2>1, <2>2, <3>1
    <2>3. CASE T(g) # {}
      BY <1>12, <2>1, <2>3
    <2> QED
      BY <2>2, <2>3
  <1>15. ASSUME NEW g \in DOMAIN plain \ DOMAIN result
         PROVE  Unanswered(plain[g][1])
    <2>1. p.series # Null
      BY <1>4, <1>10, <1>15 DEF Groups
    <2>2. OfGroup(q, Q, g) = {}
      <3>1. g \notin {GroupOf(q, r) : r \in Q}
        BY <1>4, <1>10, <1>15, <2>1 DEF Groups
      <3> QED
        BY <3>1 DEF OfGroup
    <2>3. SamplesSeen(q, {}) = {}
      BY DEF SamplesSeen
    <2>4. T(g) = {}
      <3> HIDE DEF T
      <3> QED
        BY <1>11, <2>2, <2>3
    <2>5. plain[g][1] = RateOf(p.grid, window, S(g))
      BY <1>10, <1>15
    <2> HIDE DEF S, T
    <2> QED
      BY <1>12, <2>4, <2>5
  <1> QED
    BY <1>13, <1>14, <1>15 DEF result, plain, q, window

\* The pushed bound changes no value of any result.
THEOREM PushdownKeeps == Spec => []PushdownKeepsAnswers
  <1>1. IInv => PushdownKeepsAnswers
    <2> SUFFICES ASSUME IInv, answer # Null, Bounded
                 PROVE  LET plain == Result(asked, table)
                        IN  /\ DOMAIN answer \subseteq DOMAIN plain
                            /\ \A g \in DOMAIN answer : \A c \in DOMAIN asked.calls :
                                 \/ answer[g][c] = plain[g][c]
                                 \/ /\ asked.calls[c].fn = "ts_rate"
                                    /\ answer[g][c] = Null /\ Unanswered(plain[g][c])
                            /\ \A g \in DOMAIN plain \ DOMAIN answer :
                                 \A c \in DOMAIN asked.calls :
                                   asked.calls[c].fn = "ts_rate" /\ Unanswered(plain[g][c])
        BY DEF PushdownKeepsAnswers
    <2> DEFINE plain == Result(asked, table)
               window == asked.calls[1].window
    <2>1. asked # Null
      <3>1. Null \notin Statement /\ StatementInv
        BY StatementAssumption DEF IInv
      <3> QED
        BY <3>1 DEF StatementInv
    <2>2. WellFormed(asked) /\ table \in SUBSET Row /\ answer = Result(plan, table)
      BY <2>1, StatementFacts
    <2>3. CASE plan = asked
      BY <2>2, <2>3
    <2>4. CASE /\ plan = Pushed(asked, window)
               /\ Alone(asked) /\ Unlimited(asked)
               /\ ColumnOf(asked.chain, asked.ts) # Computed
      <3>1. DOMAIN asked.calls = {1} /\ asked.calls[1].fn = "ts_rate"
        BY <2>4 DEF Alone
      <3>2. asked.grid.start - window >= MinTick
        BY <3>1 DEF Bounded
      <3>3. /\ DOMAIN answer \subseteq DOMAIN plain
            /\ \A g \in DOMAIN answer :
                 \/ answer[g][1] = plain[g][1]
                 \/ answer[g][1] = Null /\ Unanswered(plain[g][1])
            /\ \A g \in DOMAIN plain \ DOMAIN answer : Unanswered(plain[g][1])
        BY <2>2, <2>4, <3>2, ResultPushed
      <3> HIDE DEF plain
      <3>4. ASSUME NEW g \in DOMAIN answer, NEW c \in DOMAIN asked.calls
            PROVE  \/ answer[g][c] = plain[g][c]
                   \/ /\ asked.calls[c].fn = "ts_rate"
                      /\ answer[g][c] = Null /\ Unanswered(plain[g][c])
        BY <3>1, <3>3
      <3>5. ASSUME NEW g \in DOMAIN plain \ DOMAIN answer, NEW c \in DOMAIN asked.calls
            PROVE  asked.calls[c].fn = "ts_rate" /\ Unanswered(plain[g][c])
        BY <3>1, <3>3
      <3> QED
        BY <3>3, <3>4, <3>5 DEF plain
    <2> QED
      BY <2>1, <2>3, <2>4, AskedPlan
  <1> QED
    BY <1>1, InvInit, InvStep, PTL DEF Spec
=============================================================================
