-------------------------------- MODULE Vendoring --------------------------------
(***************************************************************************)
(* The partner build and the oracle fetch in one workspace, under pins     *)
(* that change while they run, and what check-pins.py says of the result.  *)
(***************************************************************************)
EXTENDS PartnerBuild, OracleFetch, PinScans

vars == <<pins, partnerVars, fetchVars>>

Init == PinsInit /\ PartnerInit /\ FetchInit

Next == \/ GitPull /\ UNCHANGED <<partnerVars, fetchVars>>
        \/ PartnerNext /\ UNCHANGED <<pins, fetchVars>>
        \/ FetchNext /\ UNCHANGED <<pins, partnerVars>>

Spec == Init /\ [][Next]_vars

--------------------------------------------------------------------------------
\* The workspace as check-pins.py reads it; the submodules and the workflow are as
\* they should be.
Pinned(name) == [error |-> FALSE, describe |-> [prefix |-> "heads", name |-> name]]
Workspace ==
  [duckdb |-> Pinned(EXPECTED_DUCKDB_REF), ci_tools |-> Pinned(EXPECTED_CI_TOOLS),
   workflow |-> [present |-> FALSE, error |-> FALSE, duckdb |-> {}, ci_tools |-> {}],
   partner |-> [present |-> TRUE, pinned |-> pins.commit,
                error |-> checkout["pinned"].head = Broken,
                checkedOut |-> checkout["pinned"].head # NoHead,
                actual |-> checkout["pinned"].head],
   libchdb |-> [present |-> TRUE, error |-> FALSE, vendored |-> AlreadyVendored(pins.tag)]]

(* The state is well formed; in particular no artifact was ever built       *)
(* against the DuckDB the partner pins.                                     *)
Trees == Commits \cup {Torn}
Artifacts == {None, Truncated} \cup [from : Trees \X (Refs \cup {Torn}), state : {"built", "left"}]
TypeOK ==
  /\ pins \in PinSets
  /\ checkout \in [Modes -> [head : Commits \cup {Broken, NoHead}, tree : Trees,
                             duckdb : Refs \cup {Own, Torn}, artifact : Artifacts]]
  /\ cache \in [Modes -> [Keys -> Artifacts]]
  /\ build.pc \in NotRunning \cup {"checkout", "cache", "placing", "submodules", "repoint", "make",
                                   "save", "saving"}
  /\ builds \in 0 .. MaxBuilds
  /\ \A t \in Tags : dest[t].files \subseteq Names /\ dest[t].asset \in Assets
  /\ vendored \cup cut \subseteq Tags

(* check-pins.py has nothing against the checkout a passed run has left as  *)
(* long as the commit pinned is still the one that was built, and objects   *)
(* as soon as it is not.  It looks at HEAD: a pull that changes the DuckDB  *)
(* version only is seen by the cache key alone.                             *)
CheckPinsAgrees ==
  build.pc = "passed" /\ build.mode = "pinned" =>
    (check_pins(Workspace) = {} <=> pins.commit = build.commit)
================================================================================
