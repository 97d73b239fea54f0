------------------------------- MODULE MCVendoring -------------------------------
(***************************************************************************)
(* Instances of Vendoring: pins that differ in the commit, in DuckDB only, *)
(* and in the release of chDB or only in the sha256 of its asset.          *)
(***************************************************************************)
EXTENDS Vendoring

MCPinSets == {[commit |-> "c1", ref |-> "v1.5.4", tag |-> "t1", sha256 |-> "s1"],
              [commit |-> "c1", ref |-> "v1.6.0", tag |-> "t1", sha256 |-> "s2"],
              [commit |-> "c2", ref |-> "v1.6.0", tag |-> "t2", sha256 |-> "s3"]}

\* Builds and fetches share nothing but the pins: a history has one or the other.
BuildsOrFetches == builds = 0 \/ \A f \in Fetchers : fetch[f].pc = "idle"

\* The table in the header of chdb-differential.py.
HeaderTable(state, inPass, inGap) ==
  CASE inPass /\ state = "pass" -> {}
    [] inPass /\ state \in {"fail", "shape_gap"} -> {"REGRESSED"}
    [] inPass /\ state = "absent" -> {"VANISHED"}
    [] inGap /\ state = "shape_gap" -> {}
    [] inGap /\ state = "pass" -> {"UNRECORDED"}
    [] inGap /\ state = "fail" -> {"ARRIVED-FAILING"}
    [] inGap /\ state = "absent" -> {"VANISHED"}
    [] ~inPass /\ ~inGap /\ state \in {"pass", "shape_gap"} -> {"UNRECORDED"}
    [] ~inPass /\ ~inGap /\ state = "fail" -> {"ARRIVED-FAILING"}
    [] ~inPass /\ ~inGap /\ state = "absent" -> {}

ASSUME VerdictsFollowTheHeader ==
  \A state \in {"pass", "fail", "shape_gap", "absent"} :
    \A where \in {<<TRUE, FALSE>>, <<FALSE, TRUE>>, <<FALSE, FALSE>>} :
      ChdbVerdicts(state, where[1], where[2]) = HeaderTable(state, where[1], where[2])
================================================================================
