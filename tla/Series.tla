------------------------------- MODULE Series -------------------------------
(***************************************************************************)
(* One series' samples and what deduplication and a window make of them,   *)
(* stated on the whole series at once.  A CounterSample is                 *)
(* src/kernel/counter_fold.hpp's, has_st folded into st.                   *)
(***************************************************************************)
EXTENDS DedupRank, TimeGrid, Sequences

CONSTANTS
  Time,       \* timestamps the series may carry
  FedValue,   \* values the series may carry
  StartTs,    \* start_ts payloads, the "no start_ts" one included
  MaxFed      \* bound on the length of the series

ASSUME SeriesAssumption ==
  /\ Time \subseteq Int
  /\ FedValue \subseteq Value
  /\ MaxFed \in Nat

CounterSample == [t : Time, v : FedValue, st : StartTs]

\* s may follow the samples of f: the caller's sort is by timestamp only.
InOrder(f, s) == f # <<>> => f[Len(f)].t <= s.t

\* The k-th sample is the one kept of its timestamp: nothing outranks it, and
\* of two equal values the first to arrive is kept.
Wins(f, k) ==
  \A j \in DOMAIN f : f[j].t = f[k].t =>
    /\ ~dedup_policy(f[j].v, f[k].v)
    /\ f[j].v = f[k].v => k <= j

Survivors(f) == {f[k] : k \in {j \in DOMAIN f : Wins(f, j)}}

WindowOf(f, i) == {s \in Survivors(f) : Contains(At(i), s.t)}
=============================================================================
