---------------------------- MODULE CounterFold ----------------------------
(***************************************************************************)
(* src/kernel/counter_fold.hpp and extrapolate.hpp: what a window's samples *)
(* come to.  Values are numbers and durations fractions: <<n, d>> is n / d  *)
(* with d > 0, where the code rounds to doubles (and 1.1 to the nearest).  *)
(* A sample without a start timestamp has st = Null.                       *)
(***************************************************************************)
EXTENDS TickGrid, Sequences, FiniteSets

CONSTANT Null   \* SQL NULL

Extrapolation ==
  [to_start : Int \X Int, to_end : Int \X Int, value : Int \X Int]

ASSUME NullAssumption == Null \notin Extrapolation

Less(p, q) == p[1] * q[2] < q[1] * p[2]
Plus(p, q) == <<p[1] * q[2] + q[1] * p[2], p[2] * q[2]>>

\* Mutant of st_reset: the third case takes the fourth's equality with it.
MutantStReset(prev, curr, from_delta_temporality) ==
  /\ curr.st # Null
  /\ curr.st >= curr.t \/ curr.st > prev.t

\* The four cases and the fall-through between them.
st_reset(prev, curr, from_delta_temporality) ==
  /\ curr.st # Null
  /\ \/ curr.st >= curr.t
     \/ curr.st = prev.t /\ ~from_delta_temporality
     \/ curr.st > prev.t

value_or_st_reset(prev, curr) == curr.v < prev.v \/ st_reset(prev, curr, FALSE)

\* Mutant of counter_fold: raw differences, the reset adjustment forgotten.
MutantCounterFold(data) ==
  LET n == Len(data)
  IN  IF n = 0 THEN [n |-> 0]
      ELSE [n |-> n, first |-> data[1], last |-> data[n], resets |-> 0,
            delta |-> data[n].v - data[1].v]

\* f[1] + ... + f[Len(f)].
SumOf(f) ==
  LET Upto[i \in 0 .. Len(f)] == IF i = 0 THEN 0 ELSE Upto[i - 1] + f[i]
  IN  Upto[Len(f)]

\* What each sample but the last adds to the fold: its value if it was lost.
Lost(data) ==
  [i \in 1 .. Len(data) - 1 |->
     IF value_or_st_reset(data[i], data[i + 1]) THEN data[i].v ELSE 0]

\* has_data is n > 0; both callers pass a null before.
counter_fold(data) ==
  LET n == Len(data)
      reset == {i \in 2 .. n : value_or_st_reset(data[i - 1], data[i])}
  IN  IF n = 0 THEN [n |-> 0]
      ELSE [n |-> n, first |-> data[1], last |-> data[n],
            resets |-> Cardinality(reset),
            delta |-> SumOf(Lost(data)) + data[n].v - data[1].v]

\* Mutant of left_st_inside_window: a sample that is alone is not enough.
MutantLeftSt(summary, window_start) ==
  /\ summary.n > 1 /\ summary.first.st # Null
  /\ window_start < summary.first.st /\ summary.first.st < summary.first.t

\* A start timestamp strictly inside the left gap is a sample of value zero.
left_st_inside_window(summary, window_start) ==
  /\ summary.n > 0 /\ summary.first.st # Null
  /\ window_start < summary.first.st /\ summary.first.st < summary.first.t

\* The samples extrapolate reckons with: the summary's, the zero included.
Effective(summary, window_start) ==
  IF left_st_inside_window(summary, window_start)
  THEN [n |-> summary.n + 1, t |-> summary.first.st, v |-> 0,
        delta |-> summary.delta + summary.first.v]
  ELSE [n |-> summary.n, t |-> summary.first.t, v |-> summary.first.v,
        delta |-> summary.delta]

\* How far the answer reaches past the sample nearest an edge that is gap away.
ToEdge(gap, sampled, intervals) ==
  IF Less(<<11 * sampled, 10 * intervals>>, <<gap, 1>>)
  THEN <<sampled, 2 * intervals>>
  ELSE <<gap, 1>>

\* Mutant of Clamped: the clamp takes the longer of the two.
MutantClamped(to_start, eff, sampled) ==
  LET to_zero == <<sampled * eff.v, eff.delta>>
  IN  IF eff.delta > 0 /\ eff.v >= 0 /\ Less(to_start, to_zero) THEN to_zero ELSE to_start

\* The zero clamp: the line through the answer does not go below zero.
Clamped(to_start, eff, sampled) ==
  LET to_zero == <<sampled * eff.v, eff.delta>>
  IN  IF eff.delta > 0 /\ eff.v >= 0 /\ Less(to_zero, to_start) THEN to_zero ELSE to_start

\* is_counter holds for both callers.
extrapolate(summary, window_start, window_end) ==
  IF summary.n = 0 THEN Null
  ELSE
    LET left == left_st_inside_window(summary, window_start)
        eff == Effective(summary, window_start)
        sampled == summary.last.t - eff.t
        to_start == IF left THEN <<0, 1>>
                    ELSE ToEdge(int64(eff.t - window_start), sampled, eff.n - 1)
        start == Clamped(to_start, eff, sampled)
        end == ToEdge(int64(window_end - summary.last.t), sampled, eff.n - 1)
        reach == Plus(<<sampled, 1>>, Plus(start, end))
    IN  IF eff.n < 2 THEN Null
        ELSE [to_start |-> start, to_end |-> end,
              value |-> <<eff.delta * reach[1], reach[2] * sampled>>]

\* One grid point of an answer, as ComputeRatePoints and the operator's emit
\* callback both make it: window_start is subtracted in 64 bits.
RatePoint(g, window, i, data) ==
  LET anchor == at(g, i)
      ex == extrapolate(counter_fold(data), int64(anchor - window), anchor)
  IN  IF ex = Null THEN Null ELSE <<ex.value[1], ex.value[2] * window>>
=============================================================================
