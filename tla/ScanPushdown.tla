---------------------------- MODULE ScanPushdown ----------------------------
(***************************************************************************)
(* The optimizer rule of src/chronoduck_extension.cpp that pushes a ts_rate *)
(* call's scan bound onto the scan under it, and what a plan means with or *)
(* without the pushed filter.                                              *)
(*                                                                         *)
(* A plan is its top (an aggregate with its calls, or a GRID_STREAM) and   *)
(* the chain of single-child operators below it, chain[1] first.  A        *)
(* binding names a column by its table_index and its position.  A row of   *)
(* the scanned table has the columns id, t, v and st.  What the            *)
(* operators do to rows is DuckDB's (external).                            *)
(***************************************************************************)
EXTENDS CounterFold, FiniteSetsExt

CONSTANT Computed   \* an expression that is not a column reference

Binding == [table : Nat, column : Nat \ {0}]
Expression == Binding \union {Computed}

Column == {"id", "t", "v", "st"}

ASSUME SentinelAssumption == {Null, Computed} \intersect (Binding \union Column) = {}

TableScan ==
  [op : {"get"}, index : Nat, fn : {"seq_scan", "read_parquet"}, width : Nat,
   column_ids : Seq(Column), projection_ids : Seq(Nat),
   table_filters : Seq([column : Column, lower : Tick, upper : Tick])]

\* An operator over another one.
Inner ==
  [op : {"filter"}, least : Nat]
    \union [op : {"limit"}, rows : Nat]
    \union [op : {"projection"}, index : Nat, width : Nat, exprs : Seq(Expression)]
    \union [op : {"get"}, index : Nat, fn : {"__ts_rate_operator_input"}, width : Nat]

Plan ==
  [top : {"aggregate", "grid_stream"}, chain : Seq(Inner \union TableScan), grid : Grid,
   calls : Seq([fn : {"ts_rate", "count_star"}, window : 1 .. MaxTick]),
   ts : Expression, value : Expression, start_ts : Expression, series : Binding \union {Null}]

\* The position a column has among those a scan reads.
Storage(get, column) ==
  IF get.projection_ids = <<>> THEN column ELSE get.projection_ids[column]

\* What GetColumnBindings lists for each operator: its own columns or, for a
\* filter, the next one's below that has some.
ColumnBindings(chain) ==
  [k \in DOMAIN chain |->
     LET node == chain[Min({j \in k .. Len(chain) : chain[j].op \in {"projection", "get"}})]
     IN  [i \in 1 .. node.width |-> [table |-> node.index, column |-> i]]]

\* What a column bound above chain[k] is bound to below it.
Below(chain, k, b) ==
  CASE chain[k].op = "projection" -> chain[k].exprs[b.column]
    [] chain[k].op = "get" -> ColumnBindings(chain)[k + 1][b.column]
    [] OTHER -> b

\* Mutant of Passable: any operator with one child and no columns of its own is
\* taken for a filter.
MutantPassable(node, b) ==
  IF node.op \in {"projection", "get"}
  THEN /\ node.index = b.table /\ b.column <= node.width
       /\ node.op = "get" => node.fn = "__ts_rate_operator_input"
  ELSE TRUE

\* The operators the rule looks through.
Passable(node, b) ==
  CASE node.op = "filter" -> TRUE
    [] node.op = "projection" -> node.index = b.table /\ b.column <= node.width
    [] node.op = "get" -> /\ node.index = b.table /\ b.column <= node.width
                          /\ node.fn = "__ts_rate_operator_input"
    [] OTHER -> FALSE

\* The scan's own binding for what b names above the chain, or Null for a column
\* that is computed or whose way down has an operator the rule does not know.
ResolveBindingToGet(chain, b) ==
  LET Bound[k \in 0 .. Len(chain) - 1] ==
        IF k = 0 THEN b
        ELSE IF Bound[k - 1] \notin {Null, Computed} /\ Passable(chain[k], Bound[k - 1])
        THEN Below(chain, k, Bound[k - 1])
        ELSE Null
      last == Bound[Len(chain) - 1]
  IN  IF last \notin {Null, Computed} /\ chain[Len(chain)].index = last.table
      THEN last ELSE Null

Scan(plan) == plan.chain[Len(plan.chain)]

WithFilter(plan, column, bounds) ==
  [plan EXCEPT !.chain[Len(plan.chain)].table_filters =
     Append(Scan(plan).table_filters,
            [column |-> column, lower |-> bounds.lower, upper |-> bounds.upper])]

\* Mutant of PushScanBound: a scan that exposes some of what it reads is declined.
MutantPushScanBound(plan, ts, window) ==
  LET b == ResolveBindingToGet(plan.chain, ts)
      bounds == scan_bounds(plan.grid, window, 0, {"EXTRAPOLATE"})
  IN  IF b = Null \/ Scan(plan).fn # "seq_scan" \/ Scan(plan).projection_ids # <<>> THEN plan
      ELSE WithFilter(plan, Scan(plan).column_ids[b.column], bounds)

\* The bound goes on the column of the scan that ts names, as what it exposes is
\* numbered; a scan that is not DuckDB's own table scan is left alone.
PushScanBound(plan, ts, window) ==
  LET b == ResolveBindingToGet(plan.chain, ts)
      bounds == scan_bounds(plan.grid, window, 0, {"EXTRAPOLATE"})
  IN  IF b = Null \/ Scan(plan).fn # "seq_scan" THEN plan
      ELSE IF Storage(Scan(plan), b.column) \notin DOMAIN Scan(plan).column_ids THEN plan
      ELSE WithFilter(plan, Scan(plan).column_ids[Storage(Scan(plan), b.column)], bounds)

\* Mutant of TryPushAggregateBound: the first call's bound, whatever else the
\* aggregate computes.
MutantTryPushAggregateBound(plan) ==
  IF plan.calls[1].fn = "ts_rate"
  THEN PushScanBound(plan, plan.ts, plan.calls[1].window) ELSE plan

\* Only for an aggregate that computes one ts_rate and nothing else.
TryPushAggregateBound(plan) ==
  IF Len(plan.calls) = 1 /\ plan.calls[1].fn = "ts_rate" /\ plan.ts # Computed
  THEN PushScanBound(plan, plan.ts, plan.calls[1].window) ELSE plan

TryPushOperatorBound(plan) == PushScanBound(plan, plan.ts, plan.calls[1].window)

\* ScanBoundPushdownOptimize, under the chronoduck_scan_bound_pushdown setting.
Optimized(plan, setting) ==
  IF ~setting THEN plan
  ELSE IF plan.top = "aggregate" THEN TryPushAggregateBound(plan)
  ELSE TryPushOperatorBound(plan)

-----------------------------------------------------------------------------

\* The scan's column that b names above the chain, or Computed.
ColumnOf(chain, b) ==
  LET Bound[k \in 0 .. Len(chain) - 1] ==
        IF k = 0 THEN b
        ELSE IF Bound[k - 1] = Computed THEN Computed
        ELSE Below(chain, k, Bound[k - 1])
      last == Bound[Len(chain) - 1]
  IN  IF last = Computed THEN Computed
      ELSE chain[Len(chain)].column_ids[Storage(chain[Len(chain)], last.column)]

\* DuckDB's plans: only the last operator scans a table, every column reference
\* names a column of the operator right below it, what is passed for ts is a
\* timestamp, and GRID_STREAM has the one call.
WellFormed(plan) ==
  LET chain == plan.chain
      n == Len(chain)
      scan == Scan(plan)
      Names(k, e) == e = Computed \/ e \in Range(ColumnBindings(chain)[k])
  IN  /\ plan \in Plan /\ n > 0
      /\ \A k \in 1 .. n : k = n <=> chain[k] \in TableScan
      /\ \A k \in 1 .. n - 1 :
           /\ chain[k].op = "projection" =>
                /\ chain[k].width = Len(chain[k].exprs)
                /\ \A e \in Range(chain[k].exprs) : Names(k + 1, e)
           /\ chain[k].op = "get" => chain[k].width <= Len(ColumnBindings(chain)[k + 1])
      /\ Range(scan.projection_ids) \subseteq DOMAIN scan.column_ids
      /\ scan.width = Len(IF scan.projection_ids = <<>> THEN scan.column_ids
                          ELSE scan.projection_ids)
      /\ \A e \in {plan.ts, plan.value, plan.start_ts} : Names(1, e)
      /\ plan.series # Null => Names(1, plan.series)
      /\ ColumnOf(chain, plan.ts) \in {"t", "st", Computed}
      /\ \E c \in DOMAIN plan.calls : plan.calls[c].fn = "ts_rate"
      /\ plan.top = "grid_stream" => Len(plan.calls) = 1

\* Its value in a row of the scan; the one computed column is ts shifted.
ValueIn(r, column) == IF column = Computed THEN int64(r.t + 1) ELSE r[column]

InFilter(f, r) == r[f.column] # Null /\ f.lower <= r[f.column] /\ r[f.column] <= f.upper

\* The rows the scan emits.
Scanned(plan, table) ==
  {r \in table : \A i \in DOMAIN Scan(plan).table_filters :
     InFilter(Scan(plan).table_filters[i], r)}

\* What an operator passes on of its child's rows: a filter keeps some, a limit
\* the oldest, and a projection and the passthrough all.
Passed(node, rows) ==
  CASE node.op = "filter" -> {r \in rows : r.v >= node.least}
    [] node.op = "limit" -> {r \in rows : Cardinality({q \in rows : q.t < r.t}) < node.rows}
    [] OTHER -> rows

\* The rows that reach the top, h operators above the scan at a time.
Reaching(plan, table) ==
  LET n == Len(plan.chain)
      Rows[h \in 0 .. n - 1] ==
        IF h = 0 THEN Scanned(plan, table) ELSE Passed(plan.chain[n - h], Rows[h - 1])
  IN  Rows[n - 1]

\* The samples a call sees; a row with a NULL is skipped.
SamplesSeen(plan, rows) ==
  LET ts == ColumnOf(plan.chain, plan.ts)
      value == ColumnOf(plan.chain, plan.value)
      start_ts == ColumnOf(plan.chain, plan.start_ts)
  IN  {[t |-> ValueIn(r, ts), v |-> ValueIn(r, value), st |-> ValueIn(r, start_ts)] :
         r \in {q \in rows : Null \notin {ValueIn(q, ts), ValueIn(q, value)}}}

\* Samples (or rows) of distinct timestamps in their order.
Ascending(samples) ==
  [k \in 1 .. Cardinality(samples) |->
     CHOOSE s \in samples : Cardinality({q \in samples : q.t <= s.t}) = k]

\* The run of the samples, ascending, that a window admits.
WindowOf(samples, anchor, window) ==
  Ascending({s \in samples : Contains(anchor, window, s.t)})

\* ts_rate's list for a group's rows; with no sample, the NULL list.
Rate(plan, window, rows) ==
  LET samples == SamplesSeen(plan, rows)
  IN  IF samples = {} THEN Null
      ELSE [i \in 1 .. count(plan.grid) |->
              RatePoint(plan.grid, window, i - 1,
                        WindowOf(samples, at(plan.grid, i - 1), window))]

\* The result: for each series that has a row, or without GROUP BY for the one
\* group there always is, what each call comes to.
Result(plan, table) ==
  LET rows == Reaching(plan, table)
      series == ColumnOf(plan.chain, plan.series)
      Group(r) == IF plan.series = Null THEN "all" ELSE ValueIn(r, series)
      groups == IF plan.series = Null THEN {"all"} ELSE {Group(r) : r \in rows}
  IN  [g \in groups |->
         LET own == {r \in rows : Group(r) = g}
         IN  [c \in DOMAIN plan.calls |->
                IF plan.calls[c].fn = "ts_rate" THEN Rate(plan, plan.calls[c].window, own)
                ELSE Cardinality(own)]]
=============================================================================
