---------------------------- MODULE RateOperator ----------------------------
(***************************************************************************)
(* The source side of PhysicalGridStream in src/chronoduck_extension.cpp:  *)
(* several threads claim hash bins of the partitioned input, stream each   *)
(* bin's series through a GridStream and write the answers into chunks.    *)
(*                                                                         *)
(* A thread's steps in GetDataInternal touch nothing of another's but      *)
(* next_bin, an atomic.  DuckDB's SortStrategy (external) is what puts the *)
(* rows of a series into one bin and sorts a bin by (series_id, ts), rows  *)
(* of equal key in any order.  A series' GridStream is used by its promise *)
(* (WindowEmission): after end and resume, each grid point has its window. *)
(***************************************************************************)
EXTENDS SeriesTable

CONSTANTS
  Thread,
  NumBins,              \* hash bins of the partition
  STANDARD_VECTOR_SIZE  \* rows an output chunk can hold

ASSUME OperatorAssumption ==
  /\ NumBins \in Nat \ {0}
  /\ STANDARD_VECTOR_SIZE \in Nat \ {0}

VARIABLES
  table,      \* the input relation, a set of rows
  delivered,  \* [SeriesId -> the answers the query has received for it]
  bin_of,     \* the hash: [SeriesId -> 1 .. NumBins]
  next_bin,   \* GlobalSourceStateImpl's counter
  pc,         \* [Thread -> "call", "scan", "return" or "done"]
  rest,       \* [Thread -> rows of its bin it has yet to scan]
  active,     \* [Thread -> <<>> or <<series_id>> of the open run]
  streamed,   \* [Thread -> what the open run's GridStream was fed]
  pending,    \* [Thread -> pending_rows, from pending_idx on]
  chunk       \* [Thread -> the rows produced in the call in progress]

threads == <<pc, rest, active, streamed, pending, chunk>>
vars == <<table, delivered, bin_of, next_bin, threads>>

RowsOf(bin) == {r \in Kept(table) : bin_of[r.id] = bin}

full_bins == {b \in 1 .. NumBins : RowsOf(b) # {}}

\* The k-th number of a set, from the smallest up.
Nth(S, k) == CHOOSE b \in S : Cardinality({a \in S : a <= b}) = k

\* Its bins in ascending order, the empty ones left out.
non_empty_bins == [k \in 1 .. Cardinality(full_bins) |-> Nth(full_bins, k)]

\* The orders SortStrategy may leave the rows of a bin in.
SortedRows(bin) ==
  {s \in [1 .. Cardinality(RowsOf(bin)) -> RowsOf(bin)] :
     \A j, k \in DOMAIN s : j < k =>
       /\ s[j] # s[k]
       /\ s[j].id < s[k].id \/ (s[j].id = s[k].id /\ s[j].t <= s[k].t)}

Init ==
  /\ table \in Tables
  /\ delivered = [id \in SeriesId |-> <<>>]
  /\ bin_of \in [SeriesId -> 1 .. NumBins]
  /\ next_bin = 0
  /\ pc = [th \in Thread |-> "call"]
  /\ rest = [th \in Thread |-> <<>>]
  /\ active = [th \in Thread |-> <<>>]
  /\ streamed = [th \in Thread |-> <<>>]
  /\ pending = [th \in Thread |-> <<>>]
  /\ chunk = [th \in Thread |-> <<>>]

\* Types; a chunk is never written past its capacity.
TypeOK ==
  /\ table \subseteq Row
  /\ next_bin \in Nat
  /\ pc \in [Thread -> {"call", "scan", "return", "done"}]
  /\ \A th \in Thread :
       /\ \A k \in DOMAIN rest[th] : rest[th][k] \in Kept(table)
       /\ Len(active[th]) <= 1
       /\ \A k \in DOMAIN streamed[th] : streamed[th][k] \in CounterSample
       /\ Len(chunk[th]) <= STANDARD_VECTOR_SIZE

\* Mutant of ClaimBin: a load and a store in place of fetch_add, so that an
\* increment of another thread's may be lost.
MutantClaimBin(th) ==
  /\ pc[th] = "call" /\ pending[th] = <<>>
  /\ Len(chunk[th]) < STANDARD_VECTOR_SIZE
  /\ next_bin' \in {next_bin, next_bin + 1}
  /\ IF next_bin < Len(non_empty_bins)
     THEN /\ \E s \in SortedRows(non_empty_bins[next_bin + 1]) :
               rest' = [rest EXCEPT ![th] = s]
          /\ pc' = [pc EXCEPT ![th] = "scan"]
     ELSE pc' = [pc EXCEPT ![th] = "return"] /\ UNCHANGED rest
  /\ UNCHANGED <<table, delivered, bin_of, active, streamed, pending, chunk>>

\* The queue is drained and the chunk is not full: take the next bin, and sort
\* and materialize it; with no bin left, leave the loop.
ClaimBin(th) ==
  /\ pc[th] = "call" /\ pending[th] = <<>>
  /\ Len(chunk[th]) < STANDARD_VECTOR_SIZE
  /\ next_bin' = next_bin + 1
  /\ IF next_bin < Len(non_empty_bins)
     THEN /\ \E s \in SortedRows(non_empty_bins[next_bin + 1]) :
               rest' = [rest EXCEPT ![th] = s]
          /\ pc' = [pc EXCEPT ![th] = "scan"]
     ELSE pc' = [pc EXCEPT ![th] = "return"] /\ UNCHANGED rest
  /\ UNCHANGED <<table, delivered, bin_of, active, streamed, pending, chunk>>

\* Mutant of Flushed: the stream is ended but not resumed, and the points stay
\* as they were made.
MutantFlushed(th) ==
  IF active[th] = <<>> THEN pending[th]
  ELSE Append(pending[th],
         [id |-> active[th][1], points |-> [i \in 1 .. Count |-> {}]])

\* flush_active: end and resume the open run, if any, and queue its row.
Flushed(th) ==
  IF active[th] = <<>> THEN pending[th]
  ELSE Append(pending[th],
         [id |-> active[th][1],
          points |-> [i \in 1 .. Count |-> WindowOf(streamed[th], i - 1)]])

\* Mutant of ScanRow: the next series goes on in the previous one's stream.
MutantScanRow(th) ==
  /\ pc[th] = "scan" /\ rest[th] # <<>>
  /\ LET r == Head(rest[th])
     IN  IF active[th] # <<r.id>>
         THEN /\ pending' = [pending EXCEPT ![th] = Flushed(th)]
              /\ active' = [active EXCEPT ![th] = <<r.id>>]
              /\ streamed' = [streamed EXCEPT ![th] = Append(@, SampleOf(r))]
         ELSE /\ streamed' = [streamed EXCEPT ![th] = Append(@, SampleOf(r))]
              /\ UNCHANGED <<pending, active>>
  /\ rest' = [rest EXCEPT ![th] = Tail(@)]
  /\ UNCHANGED <<table, delivered, bin_of, next_bin, pc, chunk>>

\* One row of ProcessOneBin's scan: a new series flushes the open one and
\* starts a stream of its own; the row is fed to the stream.
ScanRow(th) ==
  /\ pc[th] = "scan" /\ rest[th] # <<>>
  /\ LET r == Head(rest[th])
     IN  IF active[th] # <<r.id>>
         THEN /\ pending' = [pending EXCEPT ![th] = Flushed(th)]
              /\ active' = [active EXCEPT ![th] = <<r.id>>]
              /\ streamed' = [streamed EXCEPT ![th] = <<SampleOf(r)>>]
         ELSE /\ streamed' = [streamed EXCEPT ![th] = Append(@, SampleOf(r))]
              /\ UNCHANGED <<pending, active>>
  /\ rest' = [rest EXCEPT ![th] = Tail(@)]
  /\ UNCHANGED <<table, delivered, bin_of, next_bin, pc, chunk>>

\* The bin is scanned: the last series is flushed too.
BinScanned(th) ==
  /\ pc[th] = "scan" /\ rest[th] = <<>>
  /\ pending' = [pending EXCEPT ![th] = Flushed(th)]
  /\ active' = [active EXCEPT ![th] = <<>>]
  /\ streamed' = [streamed EXCEPT ![th] = <<>>]
  /\ pc' = [pc EXCEPT ![th] = "call"]
  /\ UNCHANGED <<table, delivered, bin_of, next_bin, rest, chunk>>

\* Mutant of WriteOutputRow: the loop's own bound on the chunk is not checked.
MutantWriteOutputRow(th) ==
  /\ pc[th] = "call" /\ pending[th] # <<>>
  /\ chunk' = [chunk EXCEPT ![th] = Append(@, Head(pending[th]))]
  /\ pending' = [pending EXCEPT ![th] = Tail(@)]
  /\ UNCHANGED <<table, delivered, bin_of, next_bin, pc, rest, active, streamed>>

WriteOutputRow(th) ==
  /\ pc[th] = "call" /\ pending[th] # <<>>
  /\ Len(chunk[th]) < STANDARD_VECTOR_SIZE
  /\ chunk' = [chunk EXCEPT ![th] = Append(@, Head(pending[th]))]
  /\ pending' = [pending EXCEPT ![th] = Tail(@)]
  /\ UNCHANGED <<table, delivered, bin_of, next_bin, pc, rest, active, streamed>>

\* Where a queue or a chunk has rows of a series.
PositionsOf(c, id) == {k \in DOMAIN c : c[k].id = id}

\* The answers for id in a chunk, in order.
AnswersIn(c, id) == [n \in 1 .. Cardinality(PositionsOf(c, id)) |->
                       c[Nth(PositionsOf(c, id), n)].points]

\* Mutant of ReturnChunk: with no bin left the call is FINISHED, whatever the
\* chunk holds.
MutantReturnChunk(th) ==
  /\ pc[th] = "return" \/ (pc[th] = "call" /\ Len(chunk[th]) = STANDARD_VECTOR_SIZE)
  /\ IF pc[th] = "call"
     THEN /\ delivered' = [id \in SeriesId |-> delivered[id] \o AnswersIn(chunk[th], id)]
          /\ chunk' = [chunk EXCEPT ![th] = <<>>]
          /\ UNCHANGED pc
     ELSE pc' = [pc EXCEPT ![th] = "done"] /\ UNCHANGED <<delivered, chunk>>
  /\ UNCHANGED <<table, bin_of, next_bin, rest, active, streamed, pending>>

\* The call returns, with the chunk full or no bin left: HAVE_MORE_OUTPUT, and
\* DuckDB calls again, or FINISHED if it produced nothing.
ReturnChunk(th) ==
  /\ pc[th] = "return" \/ (pc[th] = "call" /\ Len(chunk[th]) = STANDARD_VECTOR_SIZE)
  /\ IF chunk[th] # <<>>
     THEN /\ delivered' = [id \in SeriesId |-> delivered[id] \o AnswersIn(chunk[th], id)]
          /\ chunk' = [chunk EXCEPT ![th] = <<>>]
          /\ pc' = [pc EXCEPT ![th] = "call"]
     ELSE pc' = [pc EXCEPT ![th] = "done"] /\ UNCHANGED <<delivered, chunk>>
  /\ UNCHANGED <<table, bin_of, next_bin, rest, active, streamed, pending>>

GetData(th) ==
  ClaimBin(th) \/ ScanRow(th) \/ BinScanned(th) \/ WriteOutputRow(th) \/ ReturnChunk(th)

Finished == \A th \in Thread : pc[th] = "done"

Next == (\E th \in Thread : GetData(th)) \/ (Finished /\ UNCHANGED vars)

Spec == Init /\ [][Next]_vars

\* A thread that has not finished keeps running, and DuckDB calls GetData again
\* for as long as it answers HAVE_MORE_OUTPUT.
FairSpec == Spec /\ \A th \in Thread : WF_vars(GetData(th))
-----------------------------------------------------------------------------

\* Where the answer for a series is: given to the query, written into a chunk or
\* queued, or due from a run that is open or a bin's rows not yet scanned.
Places(id) ==
  LET Queued(th) == Cardinality(PositionsOf(pending[th], id))
      Written(th) == Cardinality(PositionsOf(chunk[th], id))
      Due(th) == active[th] = <<id>> \/ \E k \in DOMAIN rest[th] : rest[th][k].id = id
  IN  [given |-> Len(delivered[id]),
       held  |-> {th \in Thread : Queued(th) + Written(th) > 0 \/ Due(th)},
       twice |-> \E th \in Thread :
                   Queued(th) + Written(th) + (IF Due(th) THEN 1 ELSE 0) > 1,
       bin   |-> \E k \in next_bin + 1 .. Len(non_empty_bins) :
                   \E r \in RowsOf(non_empty_bins[k]) : r.id = id]

\* At every moment each series with a usable row is in exactly one place: an
\* unclaimed bin, one thread's hands once, or the result; and a series without
\* one is nowhere.  So no bin is streamed by two threads, no queue outlives its
\* bin, no full chunk drops a row, and no thread finishes over an answer.
EachSeriesInOnePlace ==
  \A id \in SeriesId :
    LET p == Places(id)
    IN  /\ ~p.twice
        /\ p.given + Cardinality(p.held) + (IF p.bin THEN 1 ELSE 0)
             = IF SamplesOf(table, id) # {} THEN 1 ELSE 0

\* A GridStream is fed within its precondition: one series' samples only, by
\* ascending timestamp.
StreamsInOrder ==
  \A th \in Thread :
    /\ active[th] = <<>> => streamed[th] = <<>>
    /\ \A j, k \in DOMAIN streamed[th] :
         /\ j < k => streamed[th][j].t <= streamed[th][k].t
         /\ streamed[th][k] \in SamplesOf(table, active[th][1])

\* Every thread comes to FINISHED, and by then every series has its answer.
AllSeriesAnswered ==
  <>[](Finished /\ \A id \in SeriesId :
         SamplesOf(table, id) # {} => Len(delivered[id]) = 1)

\* The operator implements the promise of SeriesAnswers.
Answers == INSTANCE SeriesAnswers

ImplementsAnswers == Answers!Spec

\* "One row per series", as the aggregate form's GROUP BY series_id gives: the
\* finished operator has answered every series of its input.
OneRowPerSeries ==
  Finished => \A r \in table : delivered[r.id] # <<>>
=============================================================================
