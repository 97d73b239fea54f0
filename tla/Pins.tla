---------------------------------- MODULE Pins ----------------------------------
(***************************************************************************)
(* What the checked-out tree pins, and who changes it: scripts/partners/   *)
(* rawduck.json names a commit of RawDuck, lib/duckdb_pin.py the DuckDB it *)
(* is built against, live-oracles/chdb.json a release of chDB and the      *)
(* sha256 of its asset.  A `git pull` may change them at any moment; a     *)
(* script reads them once, when it starts.                                 *)
(***************************************************************************)
CONSTANT PinSets  \* the [commit, ref, tag, sha256] that may be checked in

VARIABLE pins

PinsInit == pins \in PinSets

GitPull == pins' \in PinSets \ {pins}
================================================================================
