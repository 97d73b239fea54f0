---------------------------- MODULE RateAggregate ----------------------------
(***************************************************************************)
(* The ts_rate aggregate of src/chronoduck_extension.cpp: RateUpdate,      *)
(* RateCombine, RateDestroy, ComputeRatePoints and RateFinalize.           *)
(*                                                                         *)
(* A Slot is one aggregate state DuckDB holds; several of them (one per    *)
(* thread, or per node of a window's segment tree) feed one group.  DuckDB *)
(* may deliver rows to any slot in any order, combine slots in any order,  *)
(* finalize a slot and go on updating it (a running window does), and end  *)
(* the query at any moment, after which it destroys every slot.  No slot   *)
(* is used by two threads at once, so one call is one step.                *)
(*                                                                         *)
(* The points of an answer are the samples handed to counter_fold, one     *)
(* sequence per grid point: what follows is a function of them alone.      *)
(***************************************************************************)
EXTENDS SampleBuffer, FiniteSetsExt

CONSTANTS
  Slot,
  HasSt,        \* the overload with a start_ts argument
  Null,         \* SQL NULL; in a CounterSample, has_st = FALSE
  RowTs, RowValue, RowSt,   \* what the columns may hold, Null included
  MaxSamples    \* bound on the samples held by all slots together

ASSUME AggregateAssumption ==
  /\ IsFiniteSet(Slot) /\ HasSt \in BOOLEAN /\ MaxSamples \in Nat
  /\ RowTs \subseteq Int \union {Null} /\ IsFiniteSet(RowTs)
  /\ RowValue \subseteq Value \union {Null}

VARIABLES
  payload,   \* [Slot -> index into heap, 0 for nullptr]
  heap,      \* every RatePayload ever made, in allocation order
  state,     \* [Slot -> "live", "spent" (combined away) or "destroyed"]
  ending,    \* the query is over or cancelled
  covered,   \* history: the valid rows each slot stands for
  answer     \* history: what the last call finalized, <<>> if it did not

vars == <<payload, heap, state, ending, covered, answer>>

Row == [t : RowTs, v : RowValue, st : RowSt]

Valid(r) == r.t # Null /\ r.v # Null

RatePayload == [buffer |-> EmptyBuffer, st_pairs |-> <<>>, freed |-> FALSE]

\* Types; a page is never written past its capacity.
TypeOK ==
  /\ payload \in [Slot -> 0 .. Len(heap)]
  /\ \A p \in DOMAIN heap :
       /\ heap[p].freed \in BOOLEAN
       /\ \A k \in DOMAIN heap[p].buffer.pages :
            LET page == heap[p].buffer.pages[k]
            IN  /\ page.capacity > 0
                /\ Len(page.data) \in 1 .. page.capacity
                /\ \A i \in DOMAIN page.data :
                     page.data[i].t \in RowTs \ {Null} /\ page.data[i].v \in RowValue \ {Null}
       /\ \A k \in DOMAIN heap[p].st_pairs :
            heap[p].st_pairs[k] \in (RowTs \ {Null}) \X (RowSt \ {Null})
  /\ state \in [Slot -> {"live", "spent", "destroyed"}]
  /\ ending \in BOOLEAN
  /\ covered \in [Slot -> SUBSET Row]

\* RateStateInit on every slot.
Init ==
  /\ payload = [s \in Slot |-> 0]
  /\ heap = <<>>
  /\ state = [s \in Slot |-> "live"]
  /\ ending = FALSE
  /\ covered = [s \in Slot |-> {}]
  /\ answer = <<>>

Usable(s) == ~ending /\ state[s] = "live"

Held == LET Sizes[p \in 0 .. Len(heap)] ==
              IF p = 0 THEN 0
              ELSE Sizes[p - 1] + Len(Samples(heap[p].buffer))
        IN  Sizes[Len(heap)]

\* The heap with a payload for slot s: the one it has, or one made now.
Made(s) == IF payload[s] = 0 THEN Append(heap, RatePayload) ELSE heap
Owned(s) == IF payload[s] = 0 THEN Len(heap) + 1 ELSE payload[s]

\* One row of RateUpdate's loop.
Update(s, r) ==
  /\ Usable(s)
  /\ Held < MaxSamples
  /\ IF Valid(r)
     THEN /\ payload' = [payload EXCEPT ![s] = Owned(s)]
          /\ heap' = [Made(s) EXCEPT
               ![Owned(s)].buffer = push(@, [t |-> r.t, v |-> r.v]),
               ![Owned(s)].st_pairs =
                  IF HasSt /\ r.st # Null THEN Append(@, <<r.t, r.st>>) ELSE @]
          /\ covered' = [covered EXCEPT ![s] = @ \union {r}]
     ELSE UNCHANGED <<payload, heap, covered>>
  /\ answer' = <<>>
  /\ UNCHANGED <<state, ending>>

\* Mutant of CombinePayload: the destructive path leaves source's own pointer.
MutantCombinePayload(source, target, destructive) ==
  IF payload[target] = 0 /\ destructive
  THEN payload' = [payload EXCEPT ![target] = payload[source]] /\ UNCHANGED heap
  ELSE /\ payload' = [payload EXCEPT ![target] = Owned(target)]
       /\ heap' = [Made(target) EXCEPT
            ![Owned(target)].buffer = merge(@, heap[payload[source]].buffer),
            ![Owned(target)].st_pairs = @ \o heap[payload[source]].st_pairs]

\* Source has a payload: it is moved into an empty target if it may be
\* destroyed, and otherwise copied into the target's.
CombinePayload(source, target, destructive) ==
  IF payload[target] = 0 /\ destructive
  THEN /\ payload' = [payload EXCEPT ![target] = payload[source], ![source] = 0]
       /\ UNCHANGED heap
  ELSE /\ payload' = [payload EXCEPT ![target] = Owned(target)]
       /\ heap' = [Made(target) EXCEPT
            ![Owned(target)].buffer = merge(@, heap[payload[source]].buffer),
            ![Owned(target)].st_pairs = @ \o heap[payload[source]].st_pairs]

\* One pair of RateCombine's loop.  ALLOW_DESTRUCTIVE is the host's word that
\* source will only be destroyed from here on.
Combine(source, target, destructive) ==
  /\ source # target /\ Usable(source) /\ Usable(target)
  /\ payload[source] # 0 =>
       Held + Len(Samples(heap[payload[source]].buffer)) <= MaxSamples
  /\ IF payload[source] = 0 THEN UNCHANGED <<payload, heap>>
     ELSE CombinePayload(source, target, destructive)
  /\ covered' = [covered EXCEPT ![target] = @ \union covered[source]]
  /\ state' = IF destructive THEN [state EXCEPT ![source] = "spent"] ELSE state
  /\ answer' = <<>>
  /\ UNCHANGED ending

\* std::map filled in order: the last pair pushed for a timestamp is kept.
st_by_t(pairs, t) ==
  LET At_t == {k \in DOMAIN pairs : pairs[k][1] = t}
  IN  IF At_t = {} THEN Null
      ELSE pairs[CHOOSE k \in At_t : \A j \in At_t : j <= k][2]

\* What each grid point's window of the sorted buffer holds, start_ts joined
\* back on by timestamp.
ComputeRatePoints(sorted, pairs) ==
  LET all == slice(sorted, Min(RowTs \ {Null}), Max(RowTs \ {Null}))
      data == [k \in DOMAIN all |->
                 [t |-> all[k].t, v |-> all[k].v, st |-> st_by_t(pairs, all[k].t)]]
      ranges == window_walk(data)
  IN  [i \in DOMAIN ranges |-> SubSeq(data, ranges[i].lo + 1, ranges[i].hi)]

\* RateFinalize of one state: the answer is a NULL list for a state that never
\* took a row, and the payload's buffer stays sorted and deduplicated.
Finalize(s) ==
  /\ Usable(s)
  /\ IF payload[s] = 0
     THEN /\ answer' = [rows |-> covered[s], points |-> Null]
          /\ UNCHANGED heap
     ELSE LET sorted == sort_dedup(heap[payload[s]].buffer)
          IN  /\ heap' = [heap EXCEPT ![payload[s]].buffer = sorted]
              /\ answer' = [rows |-> covered[s],
                             points |-> ComputeRatePoints(sorted, heap[payload[s]].st_pairs)]
  /\ UNCHANGED <<payload, state, ending, covered>>

\* The query finishes, is cancelled or fails.
EndQuery ==
  /\ ~ending /\ ending' = TRUE
  /\ answer' = <<>>
  /\ UNCHANGED <<payload, heap, state, covered>>

\* ~RatePayload releases the buffer's pages.
RateDestroy(s) ==
  /\ state[s] = "spent" \/ (ending /\ state[s] # "destroyed")
  /\ state' = [state EXCEPT ![s] = "destroyed"]
  /\ IF payload[s] = 0 THEN UNCHANGED <<payload, heap>>
     ELSE /\ payload' = [payload EXCEPT ![s] = 0]
          /\ heap' = [heap EXCEPT ![payload[s]] =
               [buffer |-> release_all(@.buffer), st_pairs |-> <<>>, freed |-> TRUE]]
  /\ answer' = <<>>
  /\ UNCHANGED <<ending, covered>>

Next ==
  \/ \E s \in Slot, r \in Row : Update(s, r)
  \/ \E s, u \in Slot, d \in BOOLEAN : Combine(s, u, d)
  \/ \E s \in Slot : Finalize(s)
  \/ EndQuery
  \/ \E s \in Slot : RateDestroy(s)

Spec == Init /\ [][Next]_vars

-----------------------------------------------------------------------------

\* The value kept of timestamp t among a set of rows, by rank alone.
Greatest(rows, t) ==
  CHOOSE v \in {r.v : r \in {q \in rows : q.t = t}} :
    \A r \in rows : r.t = t => ~dedup_policy(r.v, v)

\* Whatever the order and the partition of updates, combines and earlier
\* finalizations, a slot's answer is the one its set of rows determines: a
\* NULL list for no row, else for every grid point the samples of its window,
\* one per timestamp, ascending, with the greatest value of each.
FinalizeExact ==
  answer # <<>> =>
    LET rows == answer.rows
        points == answer.points
    IN  IF rows = {} THEN points = Null
        ELSE /\ DOMAIN points = 1 .. Count
             /\ \A i \in 1 .. Count :
                  /\ \A j, k \in DOMAIN points[i] :
                       j < k => points[i][j].t < points[i][k].t
                  /\ {<<points[i][k].t, points[i][k].v>> : k \in DOMAIN points[i]}
                       = {<<r.t, Greatest(rows, r.t)>> :
                            r \in {q \in rows : Contains(At(i - 1), q.t)}}

\* No payload has two owners (it would be freed twice), no owner holds a freed
\* one, and no live one is without an owner (it would never be freed): whatever
\* the path out of the query, the last RateDestroy leaves nothing behind.
EachPayloadOwnedOnce ==
  /\ \A p \in DOMAIN heap :
       Cardinality({s \in Slot : payload[s] = p}) = IF heap[p].freed THEN 0 ELSE 1
  /\ \A s \in Slot : state[s] = "destroyed" => payload[s] = 0

\* The arena's byte counter is what its pages take, through growth, merge and
\* compaction, and zero once the payload is destroyed.
BytesAccounted ==
  \A p \in DOMAIN heap :
    /\ heap[p].buffer.bytes = Capacities(heap[p].buffer)
    /\ heap[p].freed => heap[p].buffer.bytes = 0

\* An answered sample is one of the rows: the start_ts it carries came with the
\* value that was kept.
SurvivorKeepsItsStart ==
  answer # <<>> /\ answer.points # Null =>
    \A i \in DOMAIN answer.points : \A k \in DOMAIN answer.points[i] :
      answer.points[i][k] \in answer.rows
=============================================================================
