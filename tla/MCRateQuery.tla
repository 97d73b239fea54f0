----------------------------- MODULE MCRateQuery -----------------------------
(***************************************************************************)
(* Small instances of RateQuery: 16 ticks, and the plans DuckDB     *)
(* makes of ts_rate in its two forms over one table, with the columns in   *)
(* other orders, narrowed, filtered, limited, computed or shared.          *)
(***************************************************************************)
EXTENDS RateQuery

CONSTANTS s1, s2

MCSeriesId == {s1, s2}
MCKnowsStart == {s1}
MCFirstTick == -7
MCLastTick == -3

B(index, column) == [table |-> index, column |-> column]

SeqScan(column_ids, projection_ids) ==
  [op |-> "get", index |-> 1, fn |-> "seq_scan",
   width |-> IF projection_ids = <<>> THEN Len(column_ids) ELSE Len(projection_ids),
   column_ids |-> column_ids, projection_ids |-> projection_ids, table_filters |-> <<>>]

WholeScan == SeqScan(<<"id", "t", "v", "st">>, <<>>)

\* A predicate on v that DuckDB has pushed already, v itself not exposed first.
NarrowedScan ==
  [SeqScan(<<"v", "id", "st", "t">>, <<4, 1, 2, 3>>) EXCEPT !.table_filters =
     <<[column |-> "v", lower |-> 1, upper |-> MaxTick]>>]

OtherScan == [WholeScan EXCEPT !.fn = "read_parquet"]

Projection(index, exprs) ==
  [op |-> "projection", index |-> index, width |-> Len(exprs), exprs |-> exprs]
Passthrough == [op |-> "get", index |-> 3, fn |-> "__ts_rate_operator_input", width |-> 4]
Filter == [op |-> "filter", least |-> 1]
Limit == [op |-> "limit", rows |-> 1]

\* The projection exposes t, v, st, id in this order.
Args(scan) ==
  IF scan.projection_ids = <<>>
  THEN Projection(2, <<B(1, 2), B(1, 3), B(1, 4), B(1, 1)>>)
  ELSE Projection(2, <<B(1, 1), B(1, 2), B(1, 4), B(1, 3)>>)

Plain == <<Args(WholeScan), WholeScan>>
Narrowed == <<Args(NarrowedScan), NarrowedScan>>
Other == <<Args(OtherScan), OtherScan>>
Filtered == <<Filter, Args(WholeScan), WholeScan>>
Limited == <<Args(WholeScan), Limit, WholeScan>>
Shifted == <<[Args(WholeScan) EXCEPT !.exprs[1] = Computed], WholeScan>>

\* Windows that overlap and reach past the last sample; one that ends before it;
\* windows of which the first begins before the first tick there is.
Late == [start |-> -3, end |-> -1, step |-> 2]
Short == [start |-> -4, end |-> -4, step |-> 1]
Early == [start |-> -6, end |-> -3, step |-> 3]

ts_rate(window) == [fn |-> "ts_rate", window |-> window]

Aggregate(chain, grid, calls, group) ==
  [top |-> "aggregate", chain |-> chain, grid |-> grid, calls |-> calls,
   ts |-> B(2, 1), value |-> B(2, 2), start_ts |-> B(2, 3), series |-> group]

Operator(chain, grid) ==
  [top |-> "grid_stream", chain |-> <<Passthrough>> \o chain, grid |-> grid,
   calls |-> <<ts_rate(3)>>,
   ts |-> B(3, 1), value |-> B(3, 2), start_ts |-> B(3, 3), series |-> B(3, 4)]

MCStatement ==
  {Aggregate(c, Late, <<ts_rate(3)>>, B(2, 4)) : c \in {Plain, Narrowed, Other, Filtered, Limited, Shifted}}
    \union {Aggregate(Plain, Early, <<ts_rate(3)>>, B(2, 4))}
    \union {Aggregate(Plain, Short, <<ts_rate(3)>>, group) : group \in {B(2, 4), Null}}
    \union {Aggregate(Plain, Late, <<ts_rate(1), ts_rate(3)>>, B(2, 4)),
            Aggregate(Plain, Late, <<ts_rate(3), [fn |-> "count_star", window |-> 1]>>, Null)}
    \union {Operator(c, Late) : c \in {Plain, Narrowed, Limited}}
=============================================================================
