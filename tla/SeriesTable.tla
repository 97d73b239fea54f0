----------------------------- MODULE SeriesTable -----------------------------
(***************************************************************************)
(* The input relation of ts_rate's operator form and its rows, by series.  *)
(***************************************************************************)
EXTENDS Series, FiniteSets

CONSTANTS
  SeriesId,
  Null,      \* SQL NULL in a ts or value column
  Row,       \* the rows the input relation may hold
  MaxRows    \* bound on how many it holds

ASSUME TableAssumption ==
  /\ SeriesId \subseteq Int
  /\ Null \notin Time \union FedValue
  /\ Row \subseteq [id : SeriesId, t : Time \union {Null},
                   v : FedValue \union {Null}, st : StartTs]
  /\ MaxRows \in Nat

Tables == {T \in SUBSET Row : IsFiniteSet(T) /\ Cardinality(T) <= MaxRows}

\* The filter under the sink keeps the rows with a ts and a value.
Kept(T) == {r \in T : r.t # Null /\ r.v # Null}

SampleOf(r) == [t |-> r.t, v |-> r.v, st |-> r.st]

SamplesOf(T, id) == {SampleOf(r) : r \in {q \in Kept(T) : q.id = id}}
=============================================================================
