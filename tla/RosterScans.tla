------------------------------ MODULE RosterScans ------------------------------
(***************************************************************************)
(* The hygiene scans that hold the tests of a tree to its registry and to  *)
(* its committed rosters.  Each operator is one script and is the set of   *)
(* the violations it prints: the script exits 0 exactly when the set is    *)
(* empty.  A tree t is a record of sets; the sections used here are        *)
(*   rows         the TS_FN rows of src/kernel/registry.def                *)
(*   sqlTests     the names with a test/sql/<name>.test                    *)
(*   registered   calls of loader.Register...: [file, within], within the  *)
(*                name of the enclosing Register_<name> function or ""     *)
(*   examples     the shapes cited in test/oracle/shape_examples.hpp       *)
(*   shapes       test/oracle/shape-roster.json                            *)
(*   parityCites  the rows cited by an L8-PARITY comment under test/sql    *)
(*   parity       test/sql/parity-roster.json                              *)
(*   fixtures     the YAML files under test/fixtures                       *)
(*   roster       test/fixtures/roster.json                                *)
(*   manifest, tool  test/fixtures/derived/manifest.json                   *)
(*   primitives   the (tier, primitive) pairs of docs/testing/primitives.md*)
(*   tierCites    the (tier, primitive) pairs the kernel tests cite        *)
(*   floor        (tier, count) entries of tier-coverage-floor.json        *)
(*   kernelTests  test/kernel/*_test.cpp                                   *)
(*   declared, mentioned  members of *Divergence enums, and the members    *)
(*                named in a fixture or a sqllogictest                     *)
(*   broken       the kernel tests that fail on the kernel of this tree    *)
(*   failing      the fixture files, by place, that fail on it             *)
(* A fixture's `at` is its place in the walk of the loader, which reads    *)
(* test/fixtures/rate before test/fixtures/derived, each in sorted order.  *)
(***************************************************************************)
EXTENDS Naturals, FiniteSets

Missing == ""  \* a YAML field that is absent or empty

(* The verdicts the identity rosters share: what is recorded must still be  *)
(* declared and pass, what is declared must be recorded.                    *)
Ratchet(recorded, declared, passing) ==
  {<<"VANISHED", x>> : x \in recorded \ declared}
  \cup {<<"REGRESSED", x>> : x \in (recorded \cap declared) \ passing}
  \cup {<<"UNRECORDED", x>> : x \in (declared \cap passing) \ recorded}
  \cup {<<"ARRIVED-FAILING", x>> : x \in declared \ (passing \cup recorded)}

--------------------------------------------------------------------------------
(* kernel-fixture-loader.py *)

LoaderFiles(t) == {f \in t.fixtures : f.dir \in {"rate", "derived"}}

\* evaluate_fixture: another function's fixture is skipped; a mode, a domain or a
\* sample the evaluator does not read stops the script with an exception.
Evaluated(t) == {f \in LoaderFiles(t) : f.function = "rate"}
Unreadable(f) == \/ f.edge_mode # "EXTRAPOLATE"
                 \/ f.domain # "COUNTER"
                 \/ \E s \in f.samples : s.len < 2 \/ s.value # "number"

\* current[doc["fixture"]] = ...: of the files of one identity the last one counts.
Current(t) == {f \in Evaluated(t) : \A g \in Evaluated(t) : g.fixture = f.fixture => g.at <= f.at}

kernel_fixture_loader(t) ==
  {<<"NO-IDENTITY", f.at>> : f \in {f \in LoaderFiles(t) : f.fixture = Missing}}
  \cup {<<"CRASHED", f.at>> : f \in {f \in Evaluated(t) : Unreadable(f)}}
  \cup Ratchet(t.roster, {f.fixture : f \in Current(t)},
               {f.fixture : f \in {f \in Current(t) : f.at \notin t.failing}})

--------------------------------------------------------------------------------
(* shape-roster.py, parity-roster.py *)

RegistryShapes(t) ==
  UNION {{<<r.bare, m, r.domain>> : m \in r.edge_modes} :
           r \in {r \in t.rows : r.edge_modes # {"EDGE_NONE"} /\ r.domain # "DOMAIN_NONE"}}

shape_roster(t) ==
  Ratchet(t.shapes, RegistryShapes(t), t.examples)
  \cup {<<"UNKNOWN-SHAPE", s>> : s \in t.examples \ RegistryShapes(t)}

ParityRows(t) == {r.name : r \in {r \in t.rows : r.family \in {"RANGE", "HIST"} /\ r.det = "D0"}}

parity_roster(t) ==
  Ratchet(t.parity, ParityRows(t), t.parityCites)
  \cup {<<"UNKNOWN-ROW", n>> : n \in t.parityCites \ ParityRows(t)}

--------------------------------------------------------------------------------
(* tier-coverage-floor.py *)

Covered(t, tier) == {c \in t.tierCites \cap t.primitives : c[1] = tier}

tier_coverage_floor(t) ==
  {<<"ZERO-FLOOR", f[1]>> : f \in {f \in t.floor : f[2] = 0}}
  \cup {<<"REGRESSED", f[1]>> : f \in {f \in t.floor : f[2] > Cardinality(Covered(t, f[1]))}}
  \cup {<<"STALE", f[1]>> : f \in {f \in t.floor : f[2] > 0 /\ f[2] < Cardinality(Covered(t, f[1]))}}
  \cup {<<"UNTRACKED", c[1]>> : c \in {c \in t.tierCites \cap t.primitives : \A f \in t.floor : f[1] # c[1]}}
  \cup {<<"UNKNOWN-PRIMITIVE", c>> : c \in t.tierCites \ t.primitives}

--------------------------------------------------------------------------------
(* registry-closure.py, registry-roster-closure.py *)

\* The brace matching that blanks a Register_<name> body is abstracted to `within`.
RowNames(t) == {r.name : r \in t.rows}
ExcludedPaths == {"src/kernel/registry.def", "src/kernel/registry_types.hpp"}

registry_closure(t) ==
  {<<"NO-TEST", n>> : n \in RowNames(t) \ t.sqlTests}
  \cup {<<"AD-HOC", c.file>> : c \in {c \in t.registered : /\ c.file \notin ExcludedPaths
                                                            /\ c.within \notin RowNames(t)}}

\* Unlike its two siblings, this script's row pattern takes no "|" in edge_modes:
\* a row of several modes does not match and is not asked for a fixture.
ClosureRows(t) == {r \in t.rows : Cardinality(r.edge_modes) = 1}

registry_roster_closure(t) ==
  {<<"NO-FIXTURE", r.name>> :
     r \in {r \in ClosureRows(t) : /\ r.domain # "DOMAIN_NONE"
                                   /\ \A f \in t.fixtures : f.function # r.bare}}

--------------------------------------------------------------------------------
(* derivation-sync.py, divergence-enum-coverage.py, kernel-primitive-tests.py *)

DerivedFiles(t) == {f \in t.fixtures : f.dir = "derived"}
DerivedIds(t) == {f.fixture : f \in DerivedFiles(t)} \ {Missing}

derivation_sync(t) ==
  IF Cardinality(t.tool) # 1 THEN {<<"STRUCTURAL", "tool">>} ELSE
  {<<"NO-IDENTITY", f.at>> : f \in {f \in DerivedFiles(t) : f.fixture = Missing}}
  \cup {<<"VERSION-MISMATCH", f.at>> :
          f \in {f \in DerivedFiles(t) : f.fixture # Missing /\ {f.derived_by} # t.tool}}
  \cup {<<"DROPPED", i>> : i \in t.manifest \ DerivedIds(t)}
  \cup {<<"UNDECLARED", i>> : i \in DerivedIds(t) \ t.manifest}
  \cup {<<"UNRECORDED", i>> : i \in t.manifest \ t.roster}

divergence_enum_coverage(t) == {<<"UNEXERCISED", m>> : m \in t.declared \ t.mentioned}

kernel_primitive_tests(t) ==
  IF t.kernelTests = {} THEN {<<"NO-TESTS", "test/kernel">>}
  ELSE {<<"FAILED", n>> : n \in t.kernelTests \cap t.broken}

--------------------------------------------------------------------------------
(* fixtures-validate.py, over the shapes schema.json tells apart *)

RequiredTopLevel == {"fixture", "function", "edge_mode", "domain", "grid",
                     "window", "lookback", "samples", "provenance"}
EdgeModes == {"INSIDE", "EXTRAPOLATE", "ANCHOR", "SMOOTH", "LOOKBACK"}
Domains == {"COUNTER", "GAUGE", "NONNEG", "ANY", "HISTOGRAM"}
SampleLiterals == {"NaN", "stale"}

\* A number to this script's YAML 1.2 reader; "1_000" and the like are text to it.
IsNumber(v) == v = "number"

SampleAccepted(s, domain) ==
  /\ s.len \in {2, 3}
  /\ \/ s.value \in SampleLiterals
     \/ IF domain = "HISTOGRAM" THEN s.value = "histogram" ELSE IsNumber(s.value)

\* f.absent holds the required fields the file lacks; they are reported alone.
\* f.step stands for the three numbers of the grid, "positive" when they are as they
\* should be.
FixtureFlaws(f) ==
  IF f.absent # {} THEN {<<"required", k>> : k \in f.absent} ELSE
  {<<k, "schema">> : k \in
     {k \in {"edge_mode", "domain", "window", "lookback", "step", "samples", "provenance", "expected"} :
        CASE k = "edge_mode"  -> f.edge_mode \notin EdgeModes
          [] k = "domain"     -> f.domain \notin Domains
          [] k = "window"     -> ~IsNumber(f.window)
          [] k = "lookback"   -> ~IsNumber(f.lookback)
          [] k = "step"       -> f.step # "positive"
          [] k = "samples"    -> \E s \in f.samples : ~SampleAccepted(s, f.domain)
          [] k = "provenance" -> f.source = Missing
          [] k = "expected"   -> f.samples # {} /\ f.expected = 0}}

fixtures_validate(t) == UNION {{<<f.at, flaw>> : flaw \in FixtureFlaws(f)} : f \in t.fixtures}
================================================================================
