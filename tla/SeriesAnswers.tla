---------------------------- MODULE SeriesAnswers ----------------------------
(***************************************************************************)
(* What ts_rate over a TABLE argument promises, with no bin, thread, queue *)
(* or chunk: every series with a usable row is answered once, in any order *)
(* and grouping, and its answer holds for every grid point the series' own *)
(* samples of that point's window, one per timestamp, none outranked, each *)
(* with the start_ts it arrived with.                                      *)
(***************************************************************************)
EXTENDS SeriesTable

VARIABLES
  table,      \* the input relation, a set of rows
  delivered   \* [SeriesId -> the answers given for it, in order]

vars == <<table, delivered>>

IsAnswer(id, points) ==
  /\ DOMAIN points = 1 .. Count
  /\ \A i \in 1 .. Count :
       LET window == {s \in SamplesOf(table, id) : Contains(At(i - 1), s.t)}
       IN  /\ points[i] \subseteq window
           /\ {s.t : s \in points[i]} = {s.t : s \in window}
           /\ \A s \in points[i], u \in window : s.t = u.t =>
                ~dedup_policy(u.v, s.v) /\ (u \in points[i] => u = s)

Init ==
  /\ table \in Tables
  /\ delivered = [id \in SeriesId |-> <<>>]

\* One batch of answers reaches the query.
Deliver(ids) ==
  /\ ids # {}
  /\ \A id \in ids : SamplesOf(table, id) # {} /\ delivered[id] = <<>>
  /\ DOMAIN delivered' = SeriesId
  /\ \A id \in SeriesId :
       IF id \in ids
       THEN Len(delivered'[id]) = 1 /\ IsAnswer(id, delivered'[id][1])
       ELSE delivered'[id] = delivered[id]
  /\ UNCHANGED table

Next == \E ids \in SUBSET SeriesId : Deliver(ids)

Spec == Init /\ [][Next]_vars
=============================================================================
