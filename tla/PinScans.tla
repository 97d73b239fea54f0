------------------------------- MODULE PinScans -------------------------------
(***************************************************************************)
(* The scripts that hold what is fetched and built next to the repository  *)
(* to what the repository pins: check-pins.py over a workspace w and       *)
(* chdb-differential.py over a tree t.                                     *)
(*   w.duckdb, w.ci_tools  `git submodule status` of the two submodules:   *)
(*             [error, describe], describe being [prefix, name]            *)
(*   w.workflow  MainDistributionPipeline.yml: [present, error, duckdb,    *)
(*             ci_tools], the last two the sets of versions its jobs give  *)
(*   w.partner   rawduck.json and its checkout: [present, error, pinned,   *)
(*             checkedOut, actual]                                         *)
(*   w.libchdb   chdb.json and what was fetched: [present, error, vendored]*)
(*   t.chdbPass, t.chdbGap  chdb-oracle-roster.json                        *)
(*   t.differs   the fixture files on which chDB and the kernel differ     *)
(***************************************************************************)
EXTENDS RosterScans

EXPECTED_DUCKDB_REF == "v1.5.4"
EXPECTED_CI_TOOLS == "v1.5-variegata"

\* "heads/" and "remotes/<remote>/" are stripped, a tag has no prefix.
Ref(describe) == IF describe.prefix \in {"", "heads", "remotes"} THEN describe.name ELSE Missing
submodule_pin(s, expected) == IF s.error THEN {"UNREADABLE"} ELSE IF Ref(s.describe) # expected THEN {"PIN"} ELSE {}

workflow_versions(wf) ==
  IF ~wf.present THEN {}
  ELSE IF wf.error \/ Cardinality(wf.duckdb) > 1 \/ Cardinality(wf.ci_tools) > 1 THEN {"WORKFLOW"}
  ELSE {v \in {"DUCKDB-VERSION", "CI-TOOLS-VERSION"} :
          CASE v = "DUCKDB-VERSION"   -> wf.duckdb # {EXPECTED_DUCKDB_REF}
            [] v = "CI-TOOLS-VERSION" -> wf.ci_tools # {EXPECTED_CI_TOOLS}}

\* Mutant: a checkout of any commit is good enough.
MutantPartnerPinStatus(p) == IF p.present /\ p.error THEN {"PARTNER"} ELSE {}

\* What was not built or fetched yet is pending, never a violation.
partner_pin_status(p) ==
  IF p.present /\ (p.error \/ (p.checkedOut /\ p.actual # p.pinned)) THEN {"PARTNER"} ELSE {}
libchdb_pin_status(c) == IF c.present /\ c.error THEN {"LIBCHDB"} ELSE {}

check_pins(w) ==
  {<<v, "duckdb">> : v \in submodule_pin(w.duckdb, EXPECTED_DUCKDB_REF)}
  \cup {<<v, "extension-ci-tools">> : v \in submodule_pin(w.ci_tools, EXPECTED_CI_TOOLS)}
  \cup {<<v, "workflow">> : v \in workflow_versions(w.workflow)}
  \cup {<<v, "rawduck">> : v \in partner_pin_status(w.partner)}
  \cup {<<v, "chdb">> : v \in libchdb_pin_status(w.libchdb)}

--------------------------------------------------------------------------------
(* chdb-differential.py: a fixture passes, fails, or has a shape chDB cannot take. *)

has_start_timestamp(f) == \E s \in f.samples : s.len >= 3

\* A value that is not a number stops the script, unless the fixture is a gap.
Unsendable(f) == ~has_start_timestamp(f) /\ \E s \in f.samples : s.value # "number"

ChdbState(t, f) == CASE has_start_timestamp(f)                          -> "shape_gap"
                     [] ~has_start_timestamp(f) /\ f.at \in t.differs    -> "fail"
                     [] ~has_start_timestamp(f) /\ f.at \notin t.differs -> "pass"

\* The verdict on one identity; state is "absent" when no fixture has it.
ChdbVerdicts(state, inPass, inGap) ==
  (CASE ~inPass                    -> {}
     [] inPass /\ state = "absent" -> {"VANISHED"}
     [] inPass /\ state = "pass"   -> {}
     [] inPass /\ state \notin {"absent", "pass"} -> {"REGRESSED"})
  \cup
  (CASE ~inGap                         -> {}
     [] inGap /\ state = "absent"      -> {"VANISHED"}
     [] inGap /\ state = "fail"        -> {"ARRIVED-FAILING"}
     [] inGap /\ state = "pass"        -> {"UNRECORDED"}
     [] inGap /\ state = "shape_gap"   -> {})
  \cup
  (CASE inPass \/ inGap \/ state = "absent"           -> {}
     [] ~inPass /\ ~inGap /\ state = "fail"           -> {"ARRIVED-FAILING"}
     [] ~inPass /\ ~inGap /\ state \in {"pass", "shape_gap"} -> {"UNRECORDED"})

StateOf(t, id) ==
  LET files == {f \in Current(t) : f.fixture = id}
  IN  IF files = {} THEN "absent" ELSE ChdbState(t, CHOOSE f \in files : TRUE)

chdb_differential(t) ==
  {<<"NO-IDENTITY", f.at>> : f \in {f \in LoaderFiles(t) : f.fixture = Missing}}
  \cup {<<"CRASHED", f.at>> : f \in {f \in Evaluated(t) : Unsendable(f)}}
  \cup UNION {{<<v, id>> : v \in ChdbVerdicts(StateOf(t, id), id \in t.chdbPass, id \in t.chdbGap)} :
                id \in t.chdbPass \cup t.chdbGap \cup {f.fixture : f \in Current(t)}}
================================================================================
