# ChronoDuck in TLA+

A verification development for ChronoDuck, a DuckDB extension that evaluates
`ts_rate` (Prometheus-style counter rates) over a grid of timestamps. The C++
kernel and host glue live under `src/src/`, the repository's own checks under
`src/scripts/`; every definition here is written from that code, and
`PROJECT.json` maps each to its lines.

## The system

The extension:

| component | state | operations | interacts with | what makes it correct |
|---|---|---|---|---|
| `kernel/grid.hpp`, `window.hpp` | none | count, at, index_of, contains | everything | a sample is in exactly the windows `(anchor - width, anchor]`; no 64-bit wrap |
| `kernel/sample_buffer.hpp` (and `stale.hpp`) | pages, byte counter | append, merge, sort_dedup, slice, release | aggregate | one value per timestamp, independent of order; bytes accounted |
| `kernel/grid_stream.hpp` | lookahead, buffer, two pointers, next index, ended | feed, end, resume, the drain loop and its callback | operator | each window answered exactly, once, only when determined; bounded residency; progress |
| `counter_fold.hpp`, `extrapolate.hpp` | none | fold of one window, extrapolation | both forms of `ts_rate` | no restart missed, no increase made up; answers stay in their window |
| `ts_rate` aggregate (`chronoduck_extension.cpp`) | one heap payload per state | init, update, combine (move or copy), finalize, destroy | DuckDB's hash aggregation and windows | the answer is a function of the group's rows (D0); payloads owned once and freed once |
| `ts_rate` operator (same file) | a shared bin counter; per thread a queue and a chunk | sink, claim a bin, scan it, write rows, return | DuckDB's `SortStrategy`, `GridStream` | each series answered once, from its own rows; every thread finishes |
| `scan_bounds.hpp`, pushdown rule | the logical plan, a session setting | walk, resolve a binding, push two filters | DuckDB's optimizer | rows read change, rows answered do not |
| `ts_grid`, `ts_grid_index` | scan position | bind, emit chunks | SQL | floor semantics, every grid point once |
| `kahan`, `quantile_linear`, `linear_regression`, `comparator`, `lookback`, `edge_context` | none | pure functions | no SQL function yet | their own invariants (merge commutes, bounds) |
| registry (`registry.def`) | none | compile-time table | build | declared determinism class holds |

What guards the repository:

| component | state | operations | interacts with | what makes it correct |
|---|---|---|---|---|
| tree scans (`scripts/hygiene/*.py`, `lanes-check`, `docs-links`, `adr-lint`, `description-validate`, `coverage-check`) | the tree they read | one verdict each | `hygiene.py` | what they forbid is not in the tree |
| ratcheted rosters (`kernel-fixture-loader`, `shape-roster`, `parity-roster`, `derivation-sync`, `tier-coverage-floor`, ...) | rosters kept in the tree | compare what there is with the roster | `hygiene.py` | an entry is neither lost nor added silently |
| self-test (`hygiene-selftest.py`) | none | each scan on trees made up for it, and on the real one | hygiene lane | every scan can fail |
| hygiene lane (`hygiene.py`, `constitution-check.py`, `git_base.py`) | a checkout of the merge ref, main as fetched | one CI job | GitHub's checks and ruleset | main stays green; amendments are ratified |
| review gate (`pr-hygiene.py`, `forbid_deferral.py`, `gh_diff.py`) | none, two requests | verdict on a pull request, open or merged | reviews, pushes | no pass without a review newer than the head |
| build relevance, ruleset (`build-relevant-changed.py`, `ruleset.py`) | the ruleset on main | skip a build; require a check | CI, owner | a required build is not skipped for what needs it |
| labels, changelog | GitHub's labels | mirror, compare | GitHub | |
| partner build (`rawduck-build.py`) | checkouts, a cache, an artifact | clone, check out, repoint, build, cache | pins, kills | an artifact is what its name says |
| oracle fetch (`chdb-fetch.py`) | a directory per tag | download, verify, replace | pins, other runs | what is linked was verified |
| pin check, oracle differential (`check-pins.py`, `chdb-differential.py`) | none | verdicts | both of the above | a stale checkout is seen |

Hard behaviours: the order and tree of combines, in-place finalization,
cancellation and ownership of payloads; the look-ahead, the end-of-stream guard
and the index shifts of the streaming walk, and a callback that throws inside
it; threads racing for bins, queues carried across calls; restarts a value has
already caught up with; wraps at the ends of the 64-bit range; a plan rewrite
that sees only part of a plan; jobs that read main twice, checks of a head that
has moved, a gate overtaken by a push; runs that are killed or run together in
one directory while the pins change. `PROJECT.json` lists each as a hazard at
its line.

## Modules

| module | models | kind |
|---|---|---|
| `DedupRank` | `is_stale`, `TotalOrderKey`, `RankOf`, `RankLess`, `dedup_policy` | operators over a parametric double format |
| `TimeGrid` | `Grid`, `Window`, unbounded | operators, `GridAssumption` is what the constructor accepts |
| `Series` | a series' samples; reference definitions of deduplication (`Survivors`) and of a window's content (`WindowOf`), stated on the whole series | operators |
| `WindowEmission` | what a walk of one series promises | abstract specification |
| `GridStream` | `grid_stream.hpp`, one action per call and per iteration of drain | state machine; refines `WindowEmission` |
| `GridStreamProofs` | | proofs about `GridStream` |
| `SampleBuffer` | the arena, `SampleBuffer`, `window_walk` | operators on a buffer |
| `RateAggregate` | the aggregate's five callbacks over a heap of payloads | state machine on `SampleBuffer` |
| `RateAggregateProofs` | | proofs about `RateAggregate` and the buffer under it |
| `SeriesTable` | the operator's input relation | operators |
| `SeriesAnswers` | what the operator promises | abstract specification |
| `RateOperator` | the operator's parallel source side | state machine; refines `SeriesAnswers`, and uses a series' stream by the promise of `WindowEmission` |
| `RateOperatorProofs` | | proofs about `RateOperator` |
| `TickGrid` | grid, window, `scan_bounds`, `ts_grid_index` on the integers of `[-HalfRange, HalfRange)` | operators |
| `CounterFold` | `st_reset`, `counter_fold`, `extrapolate`, one rate point | operators, values in fractions |
| `ScanPushdown` | the optimizer rule, and what a plan means | operators on plans |
| `RateQuery` | counters, their writer, a statement planned and executed | state machine on the three above |
| `RateQueryProofs` | | proofs about `RateQuery` |
| `SourceScans`, `RosterScans` | the scans, each the set of violations of a tree | operators |
| `ConstitutionCheck` | `constitution-check.py` | operators |
| `PullRequestScans` | `pr-hygiene.py`, `forbid_deferral.py`, labels, build relevance, changelog | operators |
| `PinScans` | `check-pins.py`, `chdb-differential.py` | operators |
| `Selftest` | the cases of `hygiene-selftest.py` with their verdicts | an assumption TLC evaluates |
| `HygieneGate` | pull requests, the hygiene job, the merge | state machine on the scans |
| `HygieneGateProofs` | | proofs about `HygieneGate` |
| `MergeGate` | one pull request, the review gate, the build job, the ruleset | state machine on `PullRequestScans` |
| `MergeGateProofs` | | proofs about `MergeGate` |
| `Pins`, `PartnerBuild`, `OracleFetch` | the pins, and the two scripts that build from them | state machines over one workspace |
| `Vendoring` | the three together, and `check-pins.py` on the result | composition |
| `VendoringProofs` | | proofs about `Vendoring` |
| `InductionLemmas` | | induction, recursion on a prefix of the numbers, and extremes of finite sets, in the form the other proof modules use |
| `MC*` | | small instances for TLC |

How state corresponds to code:

- `GridStream`: `pending` is `has_pending_`/`pending_` (a sequence of length at
  most one), `buf`, `lo`, `hi`, `next_index`, `ended` the members of those
  names. `pc` says whether a call is inside `drain`. `fed` and `emitted` are
  history. Because `emit` is the caller's code and may throw, an iteration of
  `drain` is a step: `AnswerPoint` when the callback returns, `EmitThrows` when
  it does not, with the pointers advanced and the grid point not. The two inner
  loops are described by where they stop (`ScansHi`, `ScansLo`).
- `RateAggregate`: a slot is an aggregate state, `heap` holds every payload ever
  made, `payload[s]` is the pointer (0 is nullptr). DuckDB may use a state in
  any legal order: update, combine with `ALLOW_DESTRUCTIVE` or without,
  finalize and go on, and destroy everything when the query ends, however it
  ends. The number computed from a window is a function of the samples handed
  to `counter_fold`, so an answer is the sequence of those.
- `RateOperator`: `next_bin` is the shared atomic, the rest is per thread:
  `rest` the rows of the bin in hand, `active` and `streamed` the open series
  and what its stream was fed, `pending` the queue, `chunk` the rows of the
  call. Sorting and partitioning are `SortStrategy`'s and enter as a contract:
  all rows of a series in one bin, a bin sorted by series and timestamp, equal
  keys in any order. Series identifiers are not NULL in the model: how DuckDB's
  `Value` compares two NULLs at a series boundary is DuckDB's.
- `RateQuery`: counters count and restart, and a writer scrapes them, with the
  start of the run or without; that part is the environment, ghosts in it
  (`total`, `run`, `born`) say what truly happened. `Prepare` is the rule under
  the session's setting, on one of the plans DuckDB makes; `Execute` gives the
  plan's meaning on the table. A plan is the `ts_rate` node and the chain under
  it: bindings, projections, filters, `projection_ids` and the passthrough of
  the operator form are as the code resolves them, what they do to rows is
  DuckDB's. `int64(x)` is what the code's narrowing and 64-bit subtractions do
  in the builds that exist. Values are whole numbers and durations fractions,
  so a threshold of 1.1 intervals is exact where the code's is the nearest
  double.
- `HygieneGate`: a commit is its tree, a record of the sets the scans look at
  (files with the marks in them, rosters, fixtures, ADRs, articles); text is
  abstracted to those marks. `history` is main. A job checks out the merge of
  the head with main as it is when it starts (`ref`, `at`), and
  `constitution-check.py` compares with main as fetched when it ends, or with
  nothing when it is offline. A check belongs to a head. `Mergeable` is the
  ruleset `ruleset.py` writes: strict, so the head contains main's tip.
- `MergeGate`: a commit is a set of edits; an edit is a file, the name it had
  before (another one if the edit moves it) and whether it adds a deferral. Git
  and GitHub know a moved file again and list it once, by the name it has in the
  tree they compare (`Listed`), which is what `git_base.py` and `gh pr diff` see.
  Dates are ticks of a clock, and several things happen in a tick; a commit is
  made at any date up to its push. `pr-hygiene.py` is two requests and a verdict:
  `ViewPr` takes the reviews and dates, `Judge` fetches the diff and decides.
  `FinishBuild` may be offline, in which case the job builds. `ruleset.py add`
  verifies first (`VerifyContext`) and writes later (`AddCheck`); `greenAt` is the
  last commit of main a context's push run succeeded on.
- `PartnerBuild`, `OracleFetch`: a script is its steps, a kill or a failing
  command may come between any two and in the middle of a clone, a checkout, a
  build, a copy or a removal. `git pull` changes the pins at any moment; a run
  keeps what it read.
  A checkout is what the script sees of it (HEAD, whether there is an artifact)
  and what it does not: the commit whose files are there (`tree`), or `Torn` when
  a command that wrote files was cut short; the DuckDB in `duckdb/`; and what the
  artifact was built from and how it came to be there (`built`, `left` by a make
  that exited 0 without writing it, `cut` short). The step after HEAD's check is
  the script's: nothing is checked out when HEAD is the target. The partner's
  other submodule, `extension-ci-tools`, holds build tooling and is left out.
  In `OracleFetch` a removal may pass over files (`ignore_errors=True`); `cut`
  holds the tags at which a replacement was cut short, by that or by a kill.

## Runs

| run | instance | shows |
|---|---|---|
| `gridstream` | windows of width 3 on a step of 2, up to 3 samples over 6 timestamps, values +0, a NaN and the stale marker, two start timestamps | exact answers, refinement, progress |
| `compaction` | 4 grid points, up to 6 samples over 10 timestamps | compaction with live samples; nothing answerable waits; residency |
| `throw` | width 1 on a step of 3, up to 5 samples, a callback that may fail at any point and any number of times | exact answers after failures |
| `residency` | width 1, step 8, a sample per tick | a violation, see Findings |
| `aggregate` | 3 states, up to 3 samples held, rows over 3 timestamps, 2 values and NULLs, first page of one sample | order and partition independence, ownership, byte accounting |
| `aggregatestart` | 2 states, one timestamp, two values and two start timestamps | a violation, see Findings |
| `operator` | 2 threads, 2 bins, 3 series under every hash, up to 3 rows, chunks of 2 | exactly-once answers, no leak between series, termination |
| `operatorrows` | the same | a violation, see Findings |
| `ratequery` | 16 ticks (`HalfRange = 8`), 5 of them next to the least one, a series that counts (3 events) with or without start timestamps and one that stands still, 3 samples; 14 plans, each with and without the rule | restarts seen and nothing made up; answers within their windows; the bound changes no value and is not lost |
| `hygiene` | 2 pull requests, 2 pushes each of 10 changes that break a scan, mend another or break one only together, an issue that may be closed | main stays green, checks are current, amendments ratified; the self-test's cases are evaluated first |
| `mergegate` | one pull request, three edits (a source file with a deferral, a page, a file moved out of the source), two lanes, main up to 3 commits; the reviews with 3 pushes over 3 ticks, commits of any date, or the build with 2 pushes in one tick | what passes the gate was reviewed after its last commit was made; while required, the build sees every source change but moves out; nothing is required that never passed |
| `vendor` | 3 builds in either mode, or 3 fetches, under three sets of pins of which two have one tag and two checksums | artifacts and vendored files are what they are named after, but for what the scripts cannot see; `check-pins.py` agrees |

The bounds. One pair of adjacent, overlapping or separate windows is enough to
exercise both pointers, and the compaction rule has its first non-trivial cases
(a prefix more than half, exactly half and less than half of the buffer) with
five or six samples. Three states give every shape of combine tree up to
associativity, including a state that is source and then target; an initial
page of one sample makes the arena grow at the second and compaction leave a
full page. Three series in two bins force collisions, a bin larger than a chunk,
empty bins and a thread without any bin; the hash is universally chosen. The
number of samples and rows is bounded by `MaxFed`, `MaxSamples`, `MaxRows`.

In `ratequery` three samples give a fold two pairs, so that a reset can come
first, last, or twice; three events (`MaxEvents`) let a counter restart and
catch up. Sixteen ticks put the least tick one below the first sample and the
greatest within reach of a bound that wraps; the grids have windows that
overlap, that end before the last sample, and that begin before the least tick.
In `hygiene` two pull requests are what it takes to be green apart and red
together, and two pushes (`MaxPushes`) to replace a green head. In `mergegate`
three ticks (`MaxTime`) order a commit, its review and its push in every way, and
three pushes (`MaxPushes`) overtake a run of the gate and a review; three commits
of main (`MaxMain`) let it move between the view of a job and the merge. The
constraint `ReviewsOrBuilds` divides that: the reviews need time and no ruleset, the
build needs the ruleset and no time. In `vendor` two builds meet each other's
leavings and a third (`MaxBuilds`) what the two have cached; a third fetcher meets
two that replace one directory. The two scripts share nothing but the pins, so
`BuildsOrFetches` has a history of one or the other.

Deadlock is not checked in `aggregate` (once every state is destroyed nothing
more happens) nor in `hygiene`, `ratequery`, `mergegate` and `vendor`, which stop
when their bounds are reached. `RateOperator` ends in an explicit final stutter
and `GridStream` may always be resumed.

Fairness. `GridStream!FairSpec`: a call in progress runs to its return, and a
caller that ended the series resumes it, as `flush_active` does in the next
statement. Nothing is assumed of feeding or of calling `end`.
`RateOperator!FairSpec`: each thread that was started keeps running and DuckDB
calls `GetData` again for as long as it answers `HAVE_MORE_OUTPUT`. The other
runs check safety: nothing obliges anybody to push, review or merge, to restart
a script that was killed or to run a query.

Some properties are stated where the code keeps them. `PassedHeadWasReviewed` and
`AuditedMergeWasReviewed` speak of the date a commit was made at, as the gate does;
of its push the same is false. `RelevantChangesAreBuilt` excepts merges that do
nothing to the source but move files out of it. `PushdownKeepsAnswers`
and `ScanIsBounded` are about windows whose `start - window` is in range, and the
first excepts groups that have no value at any point. `RunsBegunInsideAnswer` is
about windows that begin in range. `CachedBuildsAreTheirKeys` and
`PassedArtifactIsPinned` except a copy that was cut short, an artifact that make
left in place and files of a torn checkout, each of which the model can tell and
the script cannot; `VendoredStays` excepts a replacement that was killed or went on
over files it could not remove. `CheckPinsAgrees` is about the partner's commit:
that only the DuckDB version has changed is seen by the cache key alone. Each
exception is a finding below.

## What is proved

`GridStreamProofs` proves, for every grid, window, value format, set of samples
and length of series, with or without a callback that throws:

- `TypeCorrect`: `Spec => []TypeOK`.
- `SpansExact`: `Spec => []WindowsExact`. The property is not inductive. The
  invariant `IInv` adds: where the two pointers stand relative to the last
  answered point (`PointersInv`), that the buffer and the look-ahead are strictly
  ascending (`OrderInv`), that they hold exactly the survivors not yet dropped
  (`HeldInv`), that what was dropped lies below every later window (`PassedInv`),
  and that an answered point was determined (`DeterminedInv`). The heart of the
  argument is that the look-ahead computes the survivors of the series
  incrementally, which rests on `RankLess` being a strict total order
  (`DedupOrder`).
- `Refines`: `Spec => ImplementsEmission`: each action maps to a step of
  `WindowEmission` or to a stutter. It uses `IInv`.
- `ResidencyBounded`: `Spec => []ResidencyLaw`, inductive together with `IInv`:
  the sample held back is inside or past every window to come, so flushing it to
  the buffer keeps the law (`FlushResidency`), and the callback's return compacts.
- `NothingWaits`: `Spec => []NothingAnswerableWaits`, likewise: a call returns
  when the drain loop finds no sample past the next window, and what lies below
  `hi` was never past it.

The assumptions are `GridAssumption`, `DoubleAssumption`, `SeriesAssumption` and
`CallbackAssumption`.

`RateAggregateProofs` proves, for every number of states, every set of rows and
bound on samples, with and without start timestamps, for every legal order of
the callbacks:

- `TypeCorrect`, `AnswersExact` (`FinalizeExact`), `OwnedOnce`
  (`EachPayloadOwnedOnce`), `Accounted` (`BytesAccounted`): the four invariants
  of the run. `IInv` has three parts. `TypeInv` has the arena's law in it: no
  page is empty or written past its capacity, and the byte counter is what the
  pages take. `OwnInv`: a payload that is not freed is
  pointed to by exactly one state, a freed one holds no bytes. `CoverInv`: what
  a live state's buffer holds, as a set of samples, stands for the rows it was
  given, whatever the tree of combines was: per timestamp the row of highest
  rank and no other survives the sort, because `RankLess` is a strict total
  order up to equality of the stored value. That the sorted, deduplicated
  sequence is the one `FinalizeExact` names is then a uniqueness argument on
  strictly ascending sequences.

The assumptions are `AggregateAssumption`, `PageAssumption`, `GridAssumption` and
`DoubleAssumption`.

`RateOperatorProofs` proves, for every set of threads (finite or not), number of
bins, chunk size, hash, and table of finitely many rows:

- `TypeCorrect`; `FedInOrder` (`StreamsInOrder`): a stream is fed one series'
  rows by ascending timestamp; `InOnePlace` (`EachSeriesInOnePlace`): a series is
  in an unclaimed bin, or with one thread in one place, or delivered once.
- `Refines`: `Spec => ImplementsAnswers`. Every call that hands out a chunk is a
  step of `SeriesAnswers` delivering those series' answers, everything else a
  stutter; the answer of a row is the answer over all the rows of its series.

`IInv` adds to them: what is left of a bin is sorted, at or after the open series
(`OrderInv`); as long as a thread has yet to finish a series, what its stream was
fed and what is left of the bin are together the series' rows (`WholeInv`); every
row made is its series' answer (`AnswerInv`); and a series that a thread holds is
held nowhere else (`PlaceInv`). The stream enters by the promise of
`WindowEmission`, which `GridStreamProofs` shows to be kept. The assumptions are
`OperatorAssumption`, `TableAssumption` and those of `Series`.

`RateQueryProofs` proves, for every range of ticks, set of series, number of events
and rows, and every set of well-formed plans:

- `TypeCorrect`, `RestartsAreSeen` (`ResetsAreRestarts`), `IncreaseEarned`
  (`IncreaseIsEarned`), `ExtrapolationStays` (`ExtrapolationStaysInWindow`),
  `RunsInsideAnswer` (`RunsBegunInsideAnswer`), `ScanBounded` (`ScanIsBounded`) and
  `PushdownKeeps` (`PushdownKeepsAnswers`): the seven invariants of the run.
- `IInv` has three parts. `WriterInv`: a row is what its writer knew, so its start
  timestamp is its run's, and timestamps are distinct. `HistoryInv`: what an
  earlier sample says of a later one, and of the counter (`Precedes`): within a
  run the value grows by what was counted, across a restart the run began no
  earlier than the sample was taken. `StatementInv`: the plan is the one the rule
  made of the statement, the table and the answer stay as they are.
- Restarts and sums: the meaning of a reset is read off `Precedes`
  (`ResetMeaning`), pair by pair; a stretch of samples is added up by the
  equations of the recursive sums (`SumFacts`, `StretchEarned`).
- Answers: `Narrowing` says when `int64` leaves a value alone, `GridPoints` that the
  grid's own points are such values, `EdgeReach` and `ClampReach` are the
  inequalities of products on which `AnswerReach` rests.
- The rule: by induction down the chain, a column is bound at each operator to a
  column of the one below or computed (`BoundFacts`), and without a limit on the
  way the rule resolves what DuckDB does (`ResolvedFacts`). So the filter is put on
  the column that `ts` reads (`PushCases`), and it commutes with filters,
  projections and the passthrough (`ReachingPushed`); a limit makes the rule
  decline. A sample the filter drops is in no window (`RateWithin`).

What the operators of a plan do to rows is the model's (`Passed`, `ValueIn`), not
DuckDB's code; the theorems are about that model. The assumptions are
`HalfRangeAssumption`, `NullAssumption` (no result is SQL's NULL),
`SentinelAssumption` (no binding or column is one of the two markers),
`QueryAssumption` and `StatementAssumption` (the plans are well-formed: references
name columns that exist below, one table scan at the bottom, a `ts` that is a
timestamp).

`HygieneGateProofs` proves, for every repository, set of pull requests, set of
changes and bound on pushes:

- `MainStaysGreen`, `ChecksAreCurrent`, `EveryAmendmentRatified`: the three
  invariants of the run, and type correctness (`TypeCorrect`), which they rest on
  and no run checks by itself. `IInv` adds to them that a running job has
  checked out the merge of the head, from where it forks, with main as it was
  when the job started (`JobsSeeTheMerge`). The argument does not look into the
  scans, but for two facts: closing issues can only make `forbid-ledger.py` fail
  (`LedgerMonotone`), and what a green constitution check says
  (`ConstitutionMeaning`). A job that ran against main as it is now ran on the
  head itself, since merging main into what contains it changes nothing
  (`MergedSelf`), and a pull request that is behind stays behind until its head
  changes; so what is merged is the very tree that was green.

The assumptions are `OfflineAssumption`, `MaxPushesAssumption`,
`FirstTreeAssumption` (main passes its scans at first) and `ChangesAssumption`.

`MergeGateProofs` proves, for every set of edits and lanes, number of pushes, dates
and commits of main:

- `TypeCorrect`, `NothingUnbuiltMerges` (`RelevantChangesAreBuilt`). The added
  invariant `CheckInv` says what a job knows: it works on the merge of the head
  with a commit of main no older than the fork, and if it is green that merge was
  built or differs from that commit in the source by moves out of it only, since
  every other difference is listed by a name that matters (`UnlistedMovesOut`,
  `SkippedBuild`). The ruleset is strict, so a head that is merged contains main's
  tip: the commit is the tip, and the merge is the head itself (`UpToDateMerge`).
- `RequiredWasGreen` (`RequiredHasReported`): inductive with the same of the
  context that was verified and is yet to be written, whatever main does between.
- `PassMeansReviewed` and `AuditMeansReviewed`, for commits of any date. `GateInv`
  says that what a run of the gate saw still holds unless a push overtook it, and
  that none overtakes a run that saw the merge. The verdict is then read off the
  operators of `PullRequestScans`.

The assumption is `BoundsAssumption`.

`VendoringProofs` proves, for every set of pins, number of builds and of
fetchers:

- `TypeCorrect`, `CachedBuildsAreKeys`, `PassedArtifactPinned`, `VerifiedOnly`,
  `VendoredStay`, `PinsAgree`: the six invariants of the run. `IInv` adds three things. For the build, that the files of a checkout
  are those of its HEAD or torn (`FilesOfHead`), and what a run has in hand at each
  of its steps (`InHand`): HEAD stays at its commit from the checkout on, `duckdb/`
  is at our version or torn when `make` runs, and an artifact that was built is the
  key's while it is copied. For the fetch, that a directory which is neither empty
  nor whole is being removed, or its removal was cut short (`WholeOrBeingRemoved`),
  and that one a run has passed for is whole or about to be replaced
  (`ReplacedIfNotWhole`): a rename that finds files finds all of them, or those of
  a removal that is not over or was cut short. The two scripts share only the pins,
  so that each invariant is kept by the other's steps.

The assumptions are `PinsAssumption`, `MaxBuildsAssumption` and `NamesAssumption`
(no commit or version is one of the values that stand for a checkout without one).
Each `IInv` was model-checked on the run's
instance before it was proved.

`InductionLemmas` proves what the others cite. Induction over the natural numbers
is had in the form of sets (`NatSetInduction`: a set that has 0 and with n also
n + 1 has them all), which needs no operator for a parameter, and from it that a
recursive function on `1 .. n` satisfies its equation, and that a finite set of
numbers has a least and a greatest element. `GuardedRecursion` is the recursion of
a walk down a chain, whose next value may depend on a condition on the last one;
`Ranks` says that the elements of a finite set of numbers are reached by counting
those up to them. That is enough for the folds of `SampleBuffer` and `CounterFold`,
the walks of `ScanPushdown` and the functions of the proof modules, all of them
written as functions.

With these, every safety invariant, action property and refinement that a passing
run checks is a theorem. Only model-checked: liveness under fairness (`AllAnswered`,
`AllSeriesAnswered`), which is beyond the prover, and the cases of `Selftest`,
which TLC evaluates.

## Findings

With a run:

- `residency`: `feed` keeps every sample that leaves the look-ahead, and samples
  are dropped only when a grid point is answered. With a step larger than the
  window the buffer holds everything since the last point, while
  `grid_stream.hpp:176-179` bounds it by a window and
  `grid_stream_test.cpp:223` checks that on a grid whose step is the window.
- `aggregatestart`: the aggregate joins `start_ts` by timestamp, last pushed
  wins, so a surviving value can carry another row's `start_ts`, and the order
  of updates and combines decides. `grid_stream.hpp:66-69` describes this join as
  keeping the survivor's own, and `registry.def:39` declares the function `D0`.
  The streaming form does keep the survivor's own.
- `operatorrows`: a series whose every row has a NULL is absent from the operator
  and a NULL list in the aggregate, which `chronoduck_extension.cpp:548-550` calls
  directly comparable.

Met while modelling, in the order of the code:

- The pushed bound removes groups: GROUP BY keys read the same scan, so a series
  whose rows all lie outside the bound has no row with the rule and a list of
  NULLs without it; `chronoduck_extension.cpp:1297-1298` calls its condition
  sufficient.
- `scan_bounds` narrows to 64 bits: for `start - window` below the range the lower
  bound wraps above `end`, and the scan is empty. `docs/testing/primitives.md:29`
  has every readable sample inside the bounds.
- `anchor - window` wraps in the same place in both forms, and a lone sample whose
  run began inside such a window has no rate, against ADR 0007.
- `oracle-fence.py:76` resolves includes beside the including file only, while
  the kernel tests compile with `-I` the root and `-I` its `src`: an oracle header
  that includes `kernel/grid.hpp` passes.
- `forbid-ledger.py:88` and `forbid_deferral.py:31` know no comment marker for
  `.py`, though `scripts/` is in scope.
- `kernel-fixture-loader.py:125` keeps the last of two files of one identity, so
  a failing one is masked.
- `registry-roster-closure.py:18` does not match a row with several edge modes.
- `hygiene-selftest.py:746` names scans `hygiene.py` does not run.
- `chdb-fetch.py:74` takes a directory for vendored without its checksum.
- `git_base.py:57` lists a moved file by its new name. A file moved out of `src/`
  changes what is built and is not build-relevant, so that the required job skips
  the build, which `build-relevant-changed.py:73-74` calls unsafe.
- `pr-hygiene.py:154` compares a review with the date the last commit was made at. A
  commit made before the review and pushed after it passes, while the comment
  (144-146) has the order enforced structurally.
- `rawduck-build.py:121` trusts HEAD. After a clone or a checkout that was killed
  while it wrote the files the next run checks nothing out, while the step means to
  have the directory "at exactly target_commit" (103).
- `rawduck-build.py:190` asks whether there is an artifact, not whether make wrote it.
  One left by an earlier commit is cached under the new key, which lines 18-20 say
  forces a real rebuild.
- `rawduck-build.py:195` copies into the cache in place: killed in the copy it
  leaves a file that is a hit for good.
- `chdb-fetch.py:112` passes over files it cannot remove, and the rename onto them
  fails: files that an earlier run had vendored are gone without a kill.

Noted: `grid_stream.hpp:50-53` says a point is answered as soon as a sample past
its window has arrived; the one-sample look-ahead delays it until that sample's
own timestamp is over. A sample taken in the tick its run began is followed by a
reset that is none, which is ADR 0007's fourth case (`FreshRun` in `RateQuery`).
`tier-coverage-floor.py` compares counts, not identities. `check-pins.py` is in
no workflow. `hasReportedGreenOnMain` looks at the tip only, and `ruleset.py`
reads the ruleset and puts it back in two requests, so that of two owners at
once one loses an edit. `mergeBeforeReviewViolation` looks at the newest review
only, so that one posted after the merge turns the audit of a reviewed merge red.

## Not modelled, and the plan

Done of the first plan: `CounterFold`; `ScanBound` and `PushdownPlan`, as
`TickGrid`, `ScanPushdown` and `RateQuery`; `PrReview` and `RosterRatchet`, as
`PullRequestScans` with `MergeGate` and `RosterScans` with `HygieneGate`.

Left to prove: no safety property of a passing run. Worth stating next are facts
the theorems use about the operators only inside their proofs: that `scan_bounds`
holds every window of its grid, that `index_of` inverts `at`, and that what
`counter_fold` reports of two adjacent stretches adds up.

Left out:

- `kahan`, `quantile_linear`, `linear_regression`, `comparator`: about the
  rounding of doubles, and no SQL function calls them. `lookback`,
  `edge_context`: single comparisons and searches without a caller.
- `ts_grid`'s chunked scan, binding and registration: one straight path each.
- DuckDB's own sorting, planning, execution and memory management, beyond what
  the models of the code need of them.
- `rawduck-test.py`, `release-checklist.py`, `smoke.py`,
  `memory-check-grid-stream.py`, `print-duckdb-pin.py`: run a command and report
  it. Fetching, paginating and writing in the label and changelog scripts, of
  which `PullRequestScans` has what they decide.
- In the self-test, the two `static_assert` checks and the text regressions that
  are about characters.
