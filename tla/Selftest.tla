-------------------------------- MODULE Selftest --------------------------------
(***************************************************************************)
(* hygiene-selftest.py: every scan is run on small trees it must reject,   *)
(* for the reason the label names, and on trees it must accept.  A case is *)
(* <<kinds of violation the scan reports, kinds the self-test expects>>;   *)
(* {} is green.  The trees are the manifests of test/hygiene-fixtures.     *)
(***************************************************************************)
EXTENDS RosterScans, SourceScans, ConstitutionCheck, PullRequestScans, PinScans, TLC

Kinds(violations) == {v[1] : v \in violations}

TreeSections ==
  {"rows", "sqlTests", "registered", "examples", "shapes", "parityCites", "parity", "fixtures",
   "roster", "manifest", "tool", "primitives", "tierCites", "floor", "kernelTests", "broken",
   "failing", "declared", "mentioned", "files", "includes", "cites", "links", "perms", "jobs",
   "lanes", "laneDoc", "adrs", "description", "coverage", "classes", "planKeys",
   "version", "amended", "articles", "preamble"}

\* The tree that holds what is given and nothing else.
Tree(given) == [s \in TreeSections |-> IF s \in DOMAIN given THEN given[s] ELSE {}]

Row(name, bare, family, modes, domain) ==
  [name |-> name, bare |-> bare, family |-> family, det |-> "D0", edge_modes |-> modes, domain |-> domain]
MetaRow(name) == Row(name, name, "META", {"EDGE_NONE"}, "DOMAIN_NONE")
RateRow == Row("ts_rate", "rate", "RANGE", {"EXTRAPOLATE"}, "COUNTER")

PlainSample == [len |-> 2, value |-> "number"]
RateFixture(at, dir, id) ==
  [at |-> at, dir |-> dir, fixture |-> id, function |-> "rate", edge_mode |-> "EXTRAPOLATE",
   domain |-> "COUNTER", window |-> "number", lookback |-> "number", step |-> "positive",
   samples |-> {PlainSample}, expected |-> 1, source |-> "hand-derived", derived_by |-> Missing,
   absent |-> {}]

Mark(path, kind, name, arg) == <<path, [kind |-> kind, name |-> name, arg |-> arg]>>
File(path) == Mark(path, "text", None, None)

--------------------------------------------------------------------------------
(* Tree scans over source text *)

LedgerCases ==
  {<<Kinds(forbid_ledger(Tree([files |->
       {File(<<"PROGRESS">>), Mark(<<"src", "bad.hpp">>, "todo", None, ".hpp")}]), {})),
     {"DENIED", "NO-ISSUE"}>>}

ConsumerCase(path, arg) == Kinds(forbid_consumer(Tree([files |-> {Mark(path, "consumer", None, arg)}])))
ConsumerCases ==
  {<<ConsumerCase(<<"src", "bad.cpp">>, "comment"), {"CONSUMER"}>>,
   <<ConsumerCase(<<"test", "fixtures", "a.yaml">>, "identity"), {"CONSUMER"}>>,
   <<ConsumerCase(<<"test", "fixtures", "a.yaml">>, "data"), {}>>}

IdentityCase(path) == Kinds(forbid_identity_literals(Tree([files |-> {Mark(path, "identity", None, None)}])))
IdentityCases ==
  {<<IdentityCase(<<"scripts", "bad-identity-scan-fixture.py">>), {"IDENTITY"}>>,
   <<IdentityCase(<<"docs", "decisions", "0012">>), {}>>}

Citation(path, construct, expr) ==
  [file |-> <<"docs.md">>, path |-> path, construct |-> construct, expr |-> expr]
PartnerFile == <<"build", "partners", "rawduck", "src", "foo.cpp">>
CitationCase(files, cites) == Kinds(verify_citations(Tree([files |-> files, cites |-> cites])))
CitationCases ==
  {<<CitationCase({Mark(<<"src", "thing.cpp">>, "expr", "RATE_THRESHOLD", "1"),
                   Mark(<<"src", "thing.cpp">>, "expr", "RATE_THRESHOLD", "2")},
                  {Citation(<<"src", "thing.cpp">>, "line", "RATE_THRESHOLD"),
                   Citation(<<"src", "thing.cpp">>, "extrapolate", "RATE_THRESHOLD"),
                   Citation(<<"src", "missing.cpp">>, "foo", "bar")}),
     {"LINE-NUMBER", "NOT-ONCE", "NO-FILE"}>>,
   <<CitationCase({}, {Citation(PartnerFile, "bar", "some_expr")}), {}>>,
   <<CitationCase({Mark(PartnerFile, "expr", "not_the_cited_expr", "1")},
                  {Citation(PartnerFile, "bar", "some_expr")}), {"NOT-ONCE"}>>,
   <<CitationCase({Mark(PartnerFile, "expr", "some_expr", "1")},
                  {Citation(PartnerFile, "bar", "some_expr")}), {}>>}

ToleranceCases ==
  {<<Kinds(forbid_test_tolerance(Tree([files |->
       {Mark(<<"test", "kernel", "other_test.cpp">>, "epsilon", None, None)}]))), {"EPSILON"}>>}

KernelIncludeCase(target) ==
  Kinds(forbid_relative_kernel_include(Tree([includes |->
    {<<<<"test", "kernel", "relative_include_test.cpp">>, target>>}])))
KernelIncludeCases ==
  {<<KernelIncludeCase(<<"..", "..", "src", "kernel", "comparator.hpp">>), {"RELATIVE"}>>,
   <<KernelIncludeCase(<<"kernel", "comparator.hpp">>), {}>>}

OracleCase(files, includes) ==
  Kinds(oracle_fence(Tree([files |-> {File(f) : f \in files}, includes |-> includes])))
OracleCases ==
  LET bad    == <<"test", "oracle", "bad.hpp">>
      good   == <<"test", "oracle", "good.hpp">>
      helper == <<"test", "oracle", "helper.hpp">>
  IN  {<<OracleCase({bad}, {<<bad, <<"..", "..", "src", "kernel", "comparator.hpp">>>>}), {"REACHES-SRC"}>>,
       <<OracleCase({good, helper}, {<<good, <<"helper.hpp">>>>}), {}>>}

--------------------------------------------------------------------------------
(* Workflows and documents *)

Job(id, own, steps, tolerated) ==
  [id |-> id, workflow |-> 1, own |-> own, uses |-> FALSE, steps |-> steps, tolerated |-> tolerated]
WorkflowCases ==
  {<<Kinds(workflow_shape(Tree([jobs |->
       {Job("build", FALSE, {[run |-> None, extra |-> FALSE], [run |-> "other", extra |-> TRUE]}, FALSE)}]))),
     {"NO-PERMISSIONS", "NOT-MAKE"}>>}

LaneCase(jobs, contexts, files) ==
  Kinds(lanes_check(Tree([jobs |-> jobs, lanes |-> {<<c, 1>> : c \in contexts}, files |-> files,
                          laneDoc |-> {"bar"}])))
LaneCases ==
  LET Quiet(id) == Job(id, FALSE, {}, FALSE)
  IN  {<<LaneCase({Quiet("foo"), Quiet("bar")}, {"foo"}, {}), {"UNREGISTERED"}>>,
       <<LaneCase({Quiet("foo")}, {"foo", "ghost"}, {}), {"NO-JOB"}>>,
       <<LaneCase({Job("foo", FALSE, {}, TRUE)}, {"foo"}, {}), {"TOLERATED"}>>,
       <<LaneCase({Quiet("foo")}, {"foo"}, {File(LanesMd)}), {"LANES-MD"}>>}

LinkCase(to, anchor) ==
  Kinds(docs_links(Tree([files |-> {Mark(<<"docs", "a.md">>, "heading", "a", None)},
                         links |-> {[file |-> <<"docs", "a.md">>, to |-> to, anchor |-> anchor]}])))
LinkCases == {<<LinkCase(<<"docs", "b.md">>, None), {"DEAD-LINK"}>>,
              <<LinkCase(<<>>, "introduction"), {"DEAD-ANCHOR"}>>}

Adr(number, slug, status, dated, articles) ==
  [number |-> number, slug |-> slug, status |-> status, dated |-> dated, successor |-> None,
   articles |-> articles]
Template == Adr(0, "template", "proposed", TRUE, {})
FirstAdr == Adr(1, "first", "accepted", TRUE, {})
AdrCase(adrs) == Kinds(adr_lint(Tree([adrs |-> adrs])))
AdrCases ==
  {<<AdrCase({Template, FirstAdr, Adr(NoNumber, "NotNumbered", "accepted", TRUE, {})}), {"FILENAME"}>>,
   <<AdrCase({Template, FirstAdr, Adr(3, "third", "accepted", TRUE, {})}), {"NUMBERING"}>>,
   <<AdrCase({Template, Adr(1, "first", "wip", TRUE, {})}), {"FRONT-MATTER"}>>,
   <<AdrCase({Template, Adr(1, "first", "accepted", FALSE, {})}), {"FRONT-MATTER"}>>}

DescriptionCase(keys) == Kinds(description_validate(Tree([description |-> keys])))
DescriptionCases ==
  {<<DescriptionCase(RequiredKeys \ {k}), {"MISSING"}>> : k \in RequiredKeys}
  \cup {<<DescriptionCase(RequiredKeys \cup {"maintainers: not a list"}), {"NOT-AN-ARRAY"}>>}

CoverageCases ==
  {<<Kinds(coverage_check(Tree([coverage |-> {[where |-> "K", names |-> None, class |-> None]}]), Offline)),
     {"NAMES-NOTHING"}>>}

--------------------------------------------------------------------------------
(* Registry, fixtures and rosters *)

RegistryClosureCase(names, tests, registered) ==
  Kinds(registry_closure(Tree([rows |-> {MetaRow(n) : n \in names}, sqlTests |-> tests,
    registered |-> {[file |-> "src/adhoc.cpp", within |-> w] : w \in registered}])))
RegistryClosureCases ==
  {<<RegistryClosureCase({"foo_missing_test"}, {}, {}), {"NO-TEST"}>>,
   <<RegistryClosureCase({"some_row"}, {"some_row"}, {"some_row", None}), {"AD-HOC"}>>,
   <<RegistryClosureCase({"some_row", "other_row"}, {"some_row", "other_row"},
                         {"some_row", "other_row"}), {}>>}

KernelTestCases ==
  {<<Kinds(kernel_primitive_tests(Tree([kernelTests |-> {"comparator"}, broken |-> {"comparator"}]))),
     {"FAILED"}>>}

RateShape == <<"rate", "EXTRAPOLATE", "COUNTER">>
ShapeCase(rows, shapes, examples) ==
  Kinds(shape_roster(Tree([rows |-> rows, shapes |-> shapes, examples |-> examples])))
ShapeCases ==
  {<<ShapeCase({}, {RateShape}, {}), {"VANISHED"}>>,
   <<ShapeCase({RateRow}, {RateShape}, {}), {"REGRESSED"}>>,
   <<ShapeCase({RateRow}, {}, {}), {"ARRIVED-FAILING"}>>,
   <<ShapeCase({RateRow}, {}, {RateShape}), {"UNRECORDED"}>>,
   <<ShapeCase({RateRow}, {}, {<<"bogus", "EXTRAPOLATE", "COUNTER">>}), {"ARRIVED-FAILING", "UNKNOWN-SHAPE"}>>,
   <<ShapeCase({RateRow}, {RateShape}, {RateShape}), {}>>}

ParityCase(rows, parity, cites) ==
  Kinds(parity_roster(Tree([rows |-> rows, parity |-> parity, parityCites |-> cites])))
ParityCases ==
  {<<ParityCase({}, {"ts_rate"}, {}), {"VANISHED"}>>,
   <<ParityCase({RateRow}, {"ts_rate"}, {}), {"REGRESSED"}>>,
   <<ParityCase({RateRow}, {}, {}), {"ARRIVED-FAILING"}>>,
   <<ParityCase({RateRow}, {}, {"ts_rate"}), {"UNRECORDED"}>>,
   <<ParityCase({MetaRow("chronoduck_version")}, {}, {"ts_rate"}), {"UNKNOWN-ROW"}>>,
   <<ParityCase({RateRow}, {"ts_rate"}, {"ts_rate"}), {}>>}

FixtureCase(f) == fixtures_validate(Tree([fixtures |-> {f}]))
ValidFixture == RateFixture(1, "other", "rate/reset-midwindow")
FlawKinds(f) == {v[2][1] : v \in FixtureCase(f)}
FixtureCases ==
  {<<FlawKinds([ValidFixture EXCEPT !.edge_mode = "NOT_A_REAL_MODE", !.absent = {"window", "lookback"}]),
     {"required"}>>,
   <<FlawKinds([ValidFixture EXCEPT !.expected = 0]), {"expected"}>>,
   <<FlawKinds([ValidFixture EXCEPT !.derived_by = "upstream-script-derive@1.4"]), {}>>,
   <<FlawKinds([ValidFixture EXCEPT !.window = "text"]), {"window"}>>,
   <<FlawKinds([ValidFixture EXCEPT !.lookback = "text"]), {"lookback"}>>,
   <<FlawKinds([ValidFixture EXCEPT !.step = "text"]), {"step"}>>,
   <<FlawKinds([ValidFixture EXCEPT !.domain = "HISTOGRAM", !.edge_mode = "INSIDE",
                                    !.samples = {[len |-> 2, value |-> "text"]}]), {"samples"}>>}

LoaderCase(roster, fixtures, failing) ==
  Kinds(kernel_fixture_loader(Tree([roster |-> roster, fixtures |-> fixtures, failing |-> failing])))
AlwaysNull(dir) == RateFixture(1, dir, "rate/always-null")
LoaderCases ==
  {<<LoaderCase({"rate/always-null"}, {AlwaysNull("rate")}, {1}), {"REGRESSED"}>>,
   <<LoaderCase({"rate/ghost"}, {}, {}), {"VANISHED"}>>,
   <<LoaderCase({}, {AlwaysNull("rate")}, {1}), {"ARRIVED-FAILING"}>>,
   <<LoaderCase({}, {AlwaysNull("rate")}, {}), {"UNRECORDED"}>>,
   <<LoaderCase({"rate/always-null"}, {AlwaysNull("rate")}, {}), {}>>,
   <<LoaderCase({"rate/always-null"}, {AlwaysNull("derived")}, {}), {}>>}

Derived(at, id, by) == [RateFixture(at, "derived", id) EXCEPT !.derived_by = by]
DerivationCase(manifest, fixtures, roster) ==
  Kinds(derivation_sync(Tree([tool |-> {"stub-tool@1.0.0"}, manifest |-> manifest,
                              fixtures |-> fixtures, roster |-> roster])))
DerivationCases ==
  LET stub  == Derived(1, "stub", "stub-tool@1.0.0")
      extra == Derived(2, "extra", "stub-tool@1.0.0")
  IN  {<<DerivationCase({"stub", "ghost"}, {stub}, {"stub"}), {"DROPPED", "UNRECORDED"}>>,
       <<DerivationCase({"stub"}, {stub, extra}, {"stub", "extra"}), {"UNDECLARED"}>>,
       <<DerivationCase({"stub"}, {stub}, {}), {"UNRECORDED"}>>,
       <<DerivationCase({"stub"}, {Derived(1, "stub", "stub-tool@0.9.0")}, {"stub"}), {"VERSION-MISMATCH"}>>,
       <<DerivationCase({"stub"}, {stub}, {"stub"}), {}>>}

Widget == Row("ts_widget", "widget", "RANGE", {"EXTRAPOLATE"}, "COUNTER")
ClosureCase(row, fixtures) == Kinds(registry_roster_closure(Tree([rows |-> {row}, fixtures |-> fixtures])))
ClosureCases ==
  {<<ClosureCase(Widget, {}), {"NO-FIXTURE"}>>,
   <<ClosureCase(Widget, {[RateFixture(1, "widget", "widget/basic") EXCEPT !.function = "widget"]}), {}>>,
   <<ClosureCase(MetaRow("ts_gizmo_index"), {}), {}>>}

DivergenceCase(mentioned) ==
  Kinds(divergence_enum_coverage(Tree([declared |-> {"BAR_THING", "BAZ_THING"}, mentioned |-> mentioned])))
DivergenceCases == {<<DivergenceCase({}), {"UNEXERCISED"}>>,
                    <<DivergenceCase({"BAR_THING", "BAZ_THING"}), {}>>}

FloorCase(cites, floor) ==
  Kinds(tier_coverage_floor(Tree([primitives |-> {<<0, "alpha">>, <<0, "beta">>},
                                  tierCites |-> cites, floor |-> floor])))
FloorCases ==
  {<<FloorCase({<<0, "alpha">>}, {<<0, 2>>}), {"REGRESSED"}>>,
   <<FloorCase({<<0, "alpha">>}, {<<0, 0>>}), {"ZERO-FLOOR"}>>,
   <<FloorCase({<<0, "alpha">>}, {}), {"UNTRACKED"}>>,
   <<FloorCase({<<0, "alpha">>, <<0, "gamma">>}, {<<0, 1>>}), {"UNKNOWN-PRIMITIVE"}>>,
   <<FloorCase({<<0, "alpha">>}, {<<0, 1>>}), {}>>}

--------------------------------------------------------------------------------
(* constitution-check, on a disposable repository whose base is main *)

Constitution(version, articles, adrs) ==
  Tree([version |-> {version}, amended |-> {"2026-01-02"}, articles |-> articles, adrs |-> adrs])
ConstitutionCase(base, head) == constitution_check(base, base, head)
ConstitutionCases ==
  LET square    == {<<"I", "round">>, <<"II", "square">>}
      hexagonal == {<<"I", "round">>, <<"II", "hexagonal">>}
      appended  == square \cup {<<"III", "sprockets">>}
      base      == Constitution(100, square, {})
      About(a)  == {Adr(16, "added", "accepted", TRUE, {a})}
  IN  {<<ConstitutionCase(base, [base EXCEPT !.preamble = {"changed"}]), {"VERSION", "NO-ADR"}>>,
       <<ConstitutionCase(base, Constitution(110, hexagonal, About("I"))), {"UNREFERENCED"}>>,
       <<ConstitutionCase(base, Constitution(110, hexagonal, About("II"))), {}>>,
       <<ConstitutionCase(base, Constitution(110, appended, About("II"))), {"UNREFERENCED"}>>,
       <<ConstitutionCase(base, Constitution(110, appended, About("III"))), {}>>}

--------------------------------------------------------------------------------
(* Pull requests: deferral language, pr-hygiene, labels, build relevance, changelog *)

DiffFile(path, type) == [kind |-> "file", path |-> path, type |-> type]
Added(phrase, opens, closes, ref) ==
  [kind |-> "added", comment |-> TRUE, phrase |-> phrase, opens |-> opens, closes |-> closes, ref |-> ref]
AddedCode == [kind |-> "added", comment |-> FALSE, phrase |-> FALSE, opens |-> FALSE,
              closes |-> FALSE, ref |-> FALSE]
Source == DiffFile(<<"src", "thing.cpp">>, ".cpp")
Query == DiffFile(<<"test", "x.sql">>, ".sql")

DeferralCases ==
  {<<scanDiffForDeferral(<<Source, Added(TRUE, FALSE, FALSE, FALSE), AddedCode,
                           Added(TRUE, FALSE, FALSE, TRUE)>>), {2}>>,
   <<scanDiffForDeferral(<<Query, Added(TRUE, FALSE, FALSE, FALSE)>>), {2}>>,
   <<scanDiffForDeferral(<<Source, Added(FALSE, TRUE, FALSE, FALSE), Added(FALSE, FALSE, TRUE, FALSE)>>), {3}>>,
   <<scanDiffForDeferral(<<Source, Added(FALSE, TRUE, FALSE, FALSE), Added(FALSE, FALSE, TRUE, TRUE)>>), {}>>,
   <<scanDiffForDeferral(<<Query, Added(FALSE, FALSE, FALSE, TRUE), Added(TRUE, FALSE, FALSE, FALSE)>>), {3}>>}

\* A merged pull request; a date is an hour of the fixture's day.
View(posts, lastCommitAt, mergedAt) ==
  [title |-> [conventional |-> TRUE, text |-> "feat: frobnicate"], author |-> "tsouza",
   body |-> [closes |-> <<99>>, sections |-> REQUIRED_SECTIONS, check |-> TRUE, overlap |-> 0],
   posts |-> posts, lastCommitAt |-> lastCommitAt, mergedAt |-> mergedAt]
ReviewAt(h) == {[fresh |-> TRUE, at |-> h]}
Restated == [closes |-> <<99>>, sections |-> {}, check |-> FALSE, overlap |-> 100]
Bumped == [closes |-> <<>>, sections |-> {}, check |-> FALSE, overlap |-> 0]
HygieneCase(view) == pr_hygiene(view, <<>>, (99 :> "Add the frobnicator"))
PrHygieneCases ==
  {<<HygieneCase([View({}, NoDate, NoDate) EXCEPT !.body = Restated,
                    !.title = [conventional |-> FALSE, text |-> "Add the frobnicator"]]),
     {"SECTION", "CONSTITUTION-LINE", "TITLE-IS-ISSUE", "OVERLAP", "TITLE", "NO-REVIEW"}>>,
   <<HygieneCase([View(ReviewAt(13), 12, NoDate) EXCEPT !.author = Dependabot, !.body = Bumped]), {}>>,
   <<HygieneCase([View({}, 17, NoDate) EXCEPT !.author = Dependabot, !.body = Bumped]), {"NO-REVIEW"}>>,
   <<HygieneCase(View({[fresh |-> FALSE, at |-> 13]}, 12, NoDate)), {"NO-REVIEW"}>>,
   <<HygieneCase(View(ReviewAt(11), 12, NoDate)), {"STALE-REVIEW"}>>,
   <<HygieneCase(View(ReviewAt(13), 12, 14)), {}>>,
   <<HygieneCase(View(ReviewAt(8), 6, 7)), {"MERGED-BEFORE-REVIEW"}>>}

Size == [kind |-> "size", name |-> "S"]
Area == [kind |-> "area", name |-> "ci"]
LabelCases ==
  {<<closesIssueNumber(<<42>>), 42>>, <<closesIssueNumber(<<>>), NoIssue>>,
   <<closesIssueNumber(<<1, 2>>), NoIssue>>}
MissingCases ==
  {<<missingLabels({Size, Area}, {Size}), {Area}>>, <<missingLabels({Size}, {Size, Area}), {}>>}
IncompleteCases == {<<isMissingLabel({}), TRUE>>, <<isMissingLabel({Size}), TRUE>>,
                    <<isMissingLabel({Size, Area}), FALSE>>}

RelevanceCases ==
  {<<build_relevant_changed(<<{<<"docs", "readme.md">>}>>), FALSE>>,
   <<build_relevant_changed(<<{<<"src", "thing.cpp">>}>>), TRUE>>}

Subject(text) == [conventional |-> TRUE, text |-> text]
ChangelogCases ==
  LET log == <<Subject("feat #1"), Subject("fix #2"), Subject("docs #3")>>
      generated == subjectsSince(log, 0)
  IN  {<<changelog_check(generated, log, 0), TRUE>>,
       <<changelog_check(Append(generated, Subject("hand-edited")), log, 0), FALSE>>}

--------------------------------------------------------------------------------
(* check-pins, on a repository with two submodules and, in the last three, a partner *)

Described(prefix, name) == [error |-> FALSE, describe |-> [prefix |-> prefix, name |-> name]]
NoPartner == [present |-> FALSE, error |-> FALSE, pinned |-> "c1", checkedOut |-> FALSE, actual |-> "c1"]
PinCase(prefix, partner) ==
  Kinds(check_pins([duckdb |-> Described("", EXPECTED_DUCKDB_REF),
                    ci_tools |-> Described(prefix, EXPECTED_CI_TOOLS),
                    workflow |-> [present |-> FALSE, error |-> FALSE, duckdb |-> {}, ci_tools |-> {}],
                    partner |-> partner,
                    libchdb |-> [present |-> FALSE, error |-> FALSE, vendored |-> FALSE]]))
PinCases ==
  LET partner == [NoPartner EXCEPT !.present = TRUE]
      built   == [partner EXCEPT !.checkedOut = TRUE]
  IN  {<<PinCase("remotes", NoPartner), {}>>, <<PinCase("heads", NoPartner), {}>>,
       <<PinCase("heads", partner), {}>>, <<PinCase("heads", built), {}>>,
       <<PinCase("heads", [built EXCEPT !.actual = "c2"]), {"PARTNER"}>>}

--------------------------------------------------------------------------------
Cases == LedgerCases \cup ConsumerCases \cup IdentityCases \cup CitationCases \cup ToleranceCases
         \cup KernelIncludeCases \cup OracleCases \cup WorkflowCases \cup LaneCases \cup LinkCases
         \cup AdrCases \cup DescriptionCases \cup CoverageCases \cup RegistryClosureCases
         \cup KernelTestCases \cup ShapeCases \cup ParityCases \cup FixtureCases \cup LoaderCases
         \cup DerivationCases \cup ClosureCases \cup DivergenceCases \cup FloorCases
         \cup ConstitutionCases \cup PrHygieneCases \cup PinCases

\* Every scan as modelled answers each case as the self-test expects of the script.
ASSUME SelftestAgrees ==
  /\ \A c \in Cases : c[1] = c[2]
  /\ \A c \in DeferralCases : c[1] = c[2]
  /\ \A c \in LabelCases : c[1] = c[2]
  /\ \A c \in MissingCases : c[1] = c[2]
  /\ \A c \in IncompleteCases \cup RelevanceCases \cup ChangelogCases : c[1] = c[2]
================================================================================
