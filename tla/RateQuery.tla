------------------------------ MODULE RateQuery ------------------------------
(***************************************************************************)
(* A ts_rate query from end to end: counters that count and restart, a     *)
(* writer that scrapes them into a table, and a statement that is planned  *)
(* once, its scan bound pushed if the rule finds its shape, and executed   *)
(* on the table as it is by then.                                          *)
(*                                                                         *)
(* The writer is the code's environment (external): the rows it makes are  *)
(* what the COUNTER domain of docs/decisions/0007 is about, a counter that *)
(* only grows within a run, and the run's start if the writer knows it.    *)
(***************************************************************************)
EXTENDS ScanPushdown

CONSTANTS
  SeriesId,
  Counting,      \* the series that count; the others stay at zero
  KnowsStart,    \* the series whose writer may record start_ts
  FirstTick, LastTick,
  Statement,     \* the plans DuckDB hands the rule
  MaxEvents,     \* bound on increments and restarts, all series together
  MaxRows        \* bound on the table

ASSUME QueryAssumption ==
  /\ Counting \subseteq SeriesId /\ KnowsStart \subseteq SeriesId /\ IsFiniteSet(SeriesId)
  /\ FirstTick \in Tick /\ LastTick \in FirstTick .. MaxTick
  /\ MaxEvents \in Nat /\ MaxRows \in Nat

ASSUME StatementAssumption == Null \notin Statement /\ \A p \in Statement : WellFormed(p)

VARIABLES
  now,
  counter,   \* [SeriesId -> its value, its run's start, and two ghosts: all it
             \*  ever counted and the number of its restarts]
  scraped,   \* the rows written so far, with the ghosts of their moment
  table,     \* the rows the statement's snapshot holds, Null before it
  setting,   \* chronoduck_scan_bound_pushdown
  asked,     \* the statement's plan as the rule was given it, Null before
  plan,      \* the plan it left, Null before
  answer     \* the result, Null before

vars == <<now, counter, scraped, table, setting, asked, plan, answer>>

Counter == [v : Nat, started : Tick, total : Nat, run : Nat]

Fresh == [id \in SeriesId |-> [v |-> 0, started |-> FirstTick, total |-> 0, run |-> 0]]

\* Types; a pushed bound is one the scan's filter can hold, and no sample holds
\* more than its counter ever counted.
TypeOK ==
  /\ now \in FirstTick .. LastTick
  /\ counter \in [SeriesId -> Counter]
  /\ \A r \in scraped :
       /\ r.id \in SeriesId /\ r.t \in FirstTick .. now
       /\ r.st \in Tick \union {Null} /\ r.v \in 0 .. r.total
  /\ setting \in BOOLEAN
  /\ asked # Null =>
       /\ asked \in Statement
       /\ \A i \in DOMAIN Scan(plan).table_filters :
            {Scan(plan).table_filters[i].lower, Scan(plan).table_filters[i].upper} \subseteq Tick

Init ==
  /\ now = FirstTick /\ counter = Fresh
  /\ scraped = {} /\ table = Null
  /\ setting = TRUE
  /\ asked = Null /\ plan = Null /\ answer = Null

Writing == asked = Null

Events == MapThenSumSet(LAMBDA id : counter[id].total + counter[id].run, SeriesId)

Count(id) ==
  /\ Writing /\ Events < MaxEvents
  /\ counter' = [counter EXCEPT ![id] =
       [v |-> @.v + 1, started |-> @.started, total |-> @.total + 1, run |-> @.run]]
  /\ UNCHANGED <<now, scraped, table, setting, asked, plan, answer>>

\* The process behind the counter restarts: a run begins at zero.
Restart(id) ==
  /\ Writing /\ Events < MaxEvents
  /\ counter' = [counter EXCEPT ![id] =
       [v |-> 0, started |-> now, total |-> @.total, run |-> @.run + 1]]
  /\ UNCHANGED <<now, scraped, table, setting, asked, plan, answer>>

\* At most one sample a tick, of any series.
Scrape(id) ==
  /\ Writing
  /\ Cardinality(scraped) < MaxRows
  /\ \A r \in scraped : r.t # now
  /\ \E st \in {Null} \union (IF id \in KnowsStart THEN {counter[id].started} ELSE {}) :
       scraped' = scraped \union
         {[id |-> id, t |-> now, v |-> counter[id].v, st |-> st,
           born |-> counter[id].started, total |-> counter[id].total, run |-> counter[id].run]}
  /\ UNCHANGED <<now, counter, table, setting, asked, plan, answer>>

Pass ==
  /\ Writing /\ now < LastTick
  /\ now' = now + 1
  /\ UNCHANGED <<counter, scraped, table, setting, asked, plan, answer>>

\* The statement is planned on the rows there are, at the last tick (what was
\* written by an earlier one may be all there is by then): DuckDB's optimizers
\* have run, and the rule runs, as the session has set it.  What the writers do
\* from here on the statement does not see, and the model lets go of them.
Prepare ==
  /\ Writing /\ now = LastTick
  /\ asked' \in Statement
  /\ setting' \in BOOLEAN
  /\ plan' = Optimized(asked', setting')
  /\ table' = {[id |-> r.id, t |-> r.t, v |-> r.v, st |-> r.st] : r \in scraped}
  /\ now' = FirstTick /\ counter' = Fresh /\ scraped' = {}
  /\ UNCHANGED answer

Execute ==
  /\ asked # Null /\ answer = Null
  /\ answer' = Result(plan, table)
  /\ UNCHANGED <<now, counter, scraped, table, setting, asked, plan>>

Next ==
  \/ \E id \in Counting : Count(id) \/ Restart(id)
  \/ \E id \in SeriesId : Scrape(id)
  \/ Pass \/ Prepare \/ Execute

Spec == Init /\ [][Next]_vars

-----------------------------------------------------------------------------

\* Between samples p and q of one series, next to each other: a restart; and
\* the one reading of a start timestamp that is not one, a sample taken in the
\* very tick its run began followed by another of that run.
Restarted(p, q) == p.run < q.run
FreshRun(p, q) == p.run = q.run /\ p.born = p.t /\ q.st # Null

\* Of a sample that carries its start timestamp no restart before it is missed,
\* not one the value has caught up after, nor one in the tick of either sample.
\* A reset is a restart, or the fresh run ADR 0007's fourth case takes the
\* equality for; with no start timestamps none is made up.
ResetsAreRestarts ==
  \A id \in SeriesId :
    LET s == Ascending({r \in scraped : r.id = id})
    IN  \A k \in 2 .. Len(s) :
          LET reset == value_or_st_reset(s[k - 1], s[k])
          IN  /\ s[k].st # Null /\ Restarted(s[k - 1], s[k]) => reset
              /\ reset => Restarted(s[k - 1], s[k]) \/ FreshRun(s[k - 1], s[k])

\* The fold never reports an increase that did not happen: over any stretch of
\* samples, delta is at most what was counted between the first and the last,
\* what a fresh run's first sample held being counted again; and where the
\* samples carry start timestamps it is exactly what each run is known to have
\* counted.
IncreaseIsEarned ==
  \A id \in SeriesId :
    LET s == Ascending({r \in scraped : r.id = id})
    IN  \A j \in DOMAIN s : \A k \in j .. Len(s) :
          LET delta == counter_fold(SubSeq(s, j, k)).delta
              again == SumOf([i \in 1 .. k - j |->
                         IF FreshRun(s[j + i - 1], s[j + i]) THEN s[j + i - 1].v ELSE 0])
              known == SumOf([i \in 1 .. k - j |->
                         IF Restarted(s[j + i - 1], s[j + i]) THEN s[j + i].v
                         ELSE s[j + i].total - s[j + i - 1].total])
          IN  /\ delta <= s[k].total - s[j].total + again
              /\ (\A i \in j + 1 .. k : s[i].st # Null) => delta = again + known

\* The plan's ts is the table's t on every way down, and nothing on the way
\* counts rows.
ReadsTsColumn(p) ==
  /\ \A k \in DOMAIN p.chain : p.chain[k].op # "limit"
  /\ ColumnOf(p.chain, p.ts) = "t"

\* The windows of the statement's calls over one series, the lower edge exact.
Windows ==
  IF asked = Null THEN {}
  ELSE UNION {
    {[low |-> at(asked.grid, i) - asked.calls[c].window, anchor |-> at(asked.grid, i),
      data |-> WindowOf({r \in table : r.id = id}, at(asked.grid, i), asked.calls[c].window)] :
       i \in 0 .. count(asked.grid) - 1, id \in SeriesId} :
    c \in {d \in DOMAIN asked.calls : asked.calls[d].fn = "ts_rate"}}

\* Every edge rule and clamp together: an answer extends its samples to the
\* window's edges at most and never shortens them (the factor is at least 1),
\* and its line does not reach below zero at the left, though window_start has
\* wrapped around where the window begins before the first tick.
ExtrapolationStaysInWindow ==
  \A w \in Windows :
    LET fold == counter_fold(w.data)
        ex == extrapolate(fold, int64(w.low), w.anchor)
        eff == Effective(fold, int64(w.low))
        Within(d, limit) == ~Less(d, <<0, 1>>) /\ ~Less(limit, d)
    IN  ex # Null =>
          /\ Within(ex.to_start, <<eff.t - w.low, 1>>)
          /\ Within(ex.to_end, <<w.anchor - fold.last.t, 1>>)
          /\ eff.delta > 0 =>
               Within(ex.to_start, <<(fold.last.t - eff.t) * eff.v, eff.delta>>)

\* A window that begins no earlier than the first tick, whose first sample's run
\* began inside it, has an answer though that sample be alone, and counts the
\* run from its start.
RunsBegunInsideAnswer ==
  \A w \in Windows :
    w.data # <<>> /\ w.low >= MinTick =>
      LET first == w.data[1]
          fold == counter_fold(w.data)
          ex == extrapolate(fold, int64(w.low), w.anchor)
      IN  first.st # Null /\ w.low < first.st /\ first.st < first.t =>
            /\ ex # Null
            /\ Effective(fold, int64(w.low)).delta >= first.v + fold.delta
            /\ ex.to_start[1] = 0

\* Whether [start - window, end] has a lower bound that 64 bits hold.
Bounded == \A c \in DOMAIN asked.calls : asked.grid.start - asked.calls[c].window >= MinTick

Unanswered(value) == value = Null \/ \A i \in DOMAIN value : value[i] = Null

\* The pushed bound changes no value of the result: every group that is still
\* there has what it has without the rule (a NULL list standing for a list of
\* NULLs), and a series that has lost its group had no value at any point.
PushdownKeepsAnswers ==
  answer # Null /\ Bounded =>
    LET plain == Result(asked, table)
    IN  /\ DOMAIN answer \subseteq DOMAIN plain
        /\ \A g \in DOMAIN answer : \A c \in DOMAIN asked.calls :
             \/ answer[g][c] = plain[g][c]
             \/ asked.calls[c].fn = "ts_rate" /\ answer[g][c] = Null /\ Unanswered(plain[g][c])
        /\ \A g \in DOMAIN plain \ DOMAIN answer : \A c \in DOMAIN asked.calls :
             asked.calls[c].fn = "ts_rate" /\ Unanswered(plain[g][c])

\* With the setting on, a lone ts_rate over a table's own ts column, through
\* filters, projections and the passthrough, scans no row outside the windows'
\* hull: the rule does not miss its shape, and no term of the bound is lost.
ScanIsBounded ==
  plan # Null /\ setting /\ Bounded /\ Len(asked.calls) = 1
    /\ Scan(asked).fn = "seq_scan" /\ ReadsTsColumn(asked) =>
      \A r \in Scanned(plan, table) :
        asked.grid.start - asked.calls[1].window <= r.t /\ r.t <= asked.grid.end
=============================================================================
