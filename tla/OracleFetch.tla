------------------------------- MODULE OracleFetch -------------------------------
(***************************************************************************)
(* chdb-fetch.py, run by `make chdb-fetch` and at the start of             *)
(* chdb-differential.py, at the same time if somebody runs both: each run  *)
(* extracts into a directory of its own and renames it into place.         *)
(* A directory is the files it holds and the asset they come from; assets  *)
(* are told apart by their sha256.                                         *)
(***************************************************************************)
EXTENDS Pins

CONSTANTS Fetchers,  \* runs of the script, each with its process id
          OtherAsset \* what the network may deliver instead

VARIABLES
  dest,      \* per tag, build/live-oracles/chdb/<tag>
  fetch,     \* per run, where it is, and the tag and sha256 it read
  vendored,  \* tags some run has passed for
  cut        \* tags at which the replacement of the directory was cut short

fetchVars == <<dest, fetch, vendored, cut>>

Tags == {p.tag : p \in PinSets}
Assets == {p.sha256 : p \in PinSets} \cup {OtherAsset}
Names == {"libchdb.so", "chdb.h", "chdb.hpp"}
Looked == {"libchdb.so", "chdb.h"}  \* the two the script looks for
Empty == [files |-> {}, asset |-> OtherAsset]

FetchInit ==
  /\ dest = [t \in Tags |-> Empty]
  /\ fetch = [f \in Fetchers |-> [pc |-> "idle", tag |-> "", sha256 |-> ""]]
  /\ vendored = {}
  /\ cut = {}

Steps(f, pc) == fetch' = [fetch EXCEPT ![f].pc = pc]

AlreadyVendored(tag) == Looked \subseteq dest[tag].files

StartFetch(f) ==
  /\ fetch[f].pc = "idle"
  /\ LET there == AlreadyVendored(pins.tag)
     IN  /\ fetch' = [fetch EXCEPT ![f] = [pc |-> IF there THEN "passed" ELSE "download",
                                           tag |-> pins.tag, sha256 |-> pins.sha256]]
         /\ vendored' = IF there THEN vendored \cup {pins.tag} ELSE vendored
  /\ UNCHANGED <<dest, cut>>

\* Mutant: the checksum is not compared.
MutantAccepted(f, body) == TRUE

Accepted(f, body) == body = fetch[f].sha256

\* Mutant: the directory is cleared before the download, not after it.
MutantDownload(f) ==
  /\ fetch[f].pc = "download"
  /\ dest' = [dest EXCEPT ![fetch[f].tag].files = {}]
  /\ \/ \E body \in Assets :
          /\ Accepted(f, body)
          /\ fetch' = [fetch EXCEPT ![f].pc = "remove", ![f].sha256 = body]
     \/ Steps(f, "failed")
  /\ UNCHANGED <<vendored, cut>>

\* Download, compare the checksum, extract to the run's own directory and look
\* for the three files; any of these may fail.
Download(f) ==
  /\ fetch[f].pc = "download"
  /\ \/ \E body \in Assets :
          /\ Accepted(f, body)
          /\ fetch' = [fetch EXCEPT ![f].pc = "remove", ![f].sha256 = body]
     \/ Steps(f, "failed")
  /\ UNCHANGED <<dest, vendored, cut>>

\* rmtree of the destination, a file at a time, whoever put it there...
RemoveFile(f) ==
  /\ fetch[f].pc = "remove"
  /\ \E n \in dest[fetch[f].tag].files :
       dest' = [dest EXCEPT ![fetch[f].tag].files = @ \ {n}]
  /\ UNCHANGED <<fetch, vendored, cut>>

\* ... but it passes over a file it cannot remove, and over what another run renames
\* into place meanwhile.
Removed(f) ==
  /\ fetch[f].pc = "remove"
  /\ cut' = IF dest[fetch[f].tag].files \in {{}, Names} THEN cut ELSE cut \cup {fetch[f].tag}
  /\ Steps(f, "rename")
  /\ UNCHANGED <<dest, vendored>>

\* A rename onto a directory that holds something fails.
Rename(f) ==
  /\ fetch[f].pc = "rename"
  /\ IF dest[fetch[f].tag].files = {}
     THEN /\ dest' = [dest EXCEPT ![fetch[f].tag] = [files |-> Names, asset |-> fetch[f].sha256]]
          /\ vendored' = vendored \cup {fetch[f].tag}
          /\ Steps(f, "passed")
     ELSE /\ Steps(f, "failed")
          /\ UNCHANGED <<dest, vendored>>
  /\ UNCHANGED cut

KillFetch(f) ==
  /\ fetch[f].pc \in {"download", "remove", "rename"}
  /\ cut' = IF fetch[f].pc = "download" THEN cut ELSE cut \cup {fetch[f].tag}
  /\ Steps(f, "failed")
  /\ UNCHANGED <<dest, vendored>>

FetchNext == \E f \in Fetchers : \/ StartFetch(f) \/ Download(f) \/ RemoveFile(f) \/ Removed(f)
                                 \/ Rename(f) \/ KillFetch(f)

--------------------------------------------------------------------------------
(* What chdb-fetch.py takes for vendored, and chdb-differential.py links,   *)
(* comes from an asset that was pinned for the tag and never from another   *)
(* download, whatever runs together and is killed.                          *)
VendoredIsVerified ==
  \A t \in Tags : Looked \subseteq dest[t].files =>
    \E p \in PinSets : p.tag = t /\ p.sha256 = dest[t].asset

(* Once a run has passed, the files are there when all runs have ended,     *)
(* although a later run may remove what an earlier one has put there.  What *)
(* takes them away is a kill between the removal and the rename, or a       *)
(* removal that goes on to the rename with some of the files left.          *)
VendoredStays ==
  \A t \in vendored \ cut :
    (\A f \in Fetchers : fetch[f].pc \in {"idle", "passed", "failed"}) => dest[t].files = Names
================================================================================
