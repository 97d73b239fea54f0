------------------------------ MODULE HygieneGate ------------------------------
(***************************************************************************)
(* The hygiene lane and the pull requests it gates.  A commit is the tree  *)
(* it holds; history is the sequence of main's commits, which the ruleset  *)
(* lets grow by squash merges of up-to-date pull requests with a green     *)
(* hygiene check only.  A job checks out the merge of the head with main   *)
(* as main is when the job starts, and fetches main again while it runs.   *)
(***************************************************************************)
EXTENDS RosterScans, SourceScans, ConstitutionCheck

CONSTANTS
  PullRequests,  \* the pull requests that may be opened
  FirstTree,     \* the tree main starts from
  Changes,       \* what one push may do: a set of <<section, item>> toggles
  MaxPushes,     \* bound: pushes to one pull request, the first included
  Issues         \* issues that are open in the beginning

ASSUME OfflineAssumption == \A open \in SUBSET Issues : Offline # open
ASSUME MaxPushesAssumption == MaxPushes \in Nat \ {0}

VARIABLES
  history,    \* the trees main has had, the tip last
  pr,         \* each pull request's branch and check
  openIssues  \* the issue tracker

vars == <<history, pr, openIssues>>

Sections == DOMAIN FirstTree
Tip == Last(history)

\* A push toggles items of the tree.
Changed(t, change) ==
  [s \in Sections |-> LET flipped == {c[2] : c \in {c \in change : c[1] = s}}
                      IN  (t[s] \ flipped) \cup (flipped \ t[s])]

\* A three-way merge, item by item: what either side did to the fork point.
Merged(fork, ours, theirs) ==
  [s \in Sections |-> (ours[s] \cap theirs[s]) \cup (ours[s] \ fork[s]) \cup (theirs[s] \ fork[s])]

--------------------------------------------------------------------------------
\* Mutant: without a network the base is a main fetched long ago.
MutantResolveBase(online) == IF online THEN <<Tip>> ELSE <<FirstTree>>

\* The base the shared resolver finds on a shallow checkout: main as it can fetch it.
resolveBase(online) == IF online THEN <<Tip>> ELSE <<>>

ConstitutionViolations(fork, base, head) ==
  IF base = <<>> THEN {"NO-BASE"} ELSE constitution_check(fork, base[1], head)

--------------------------------------------------------------------------------
(* hygiene.py runs every scan and fails if one failed; hygiene-selftest.py, in the *)
(* same job, adds the scans of the real tree that hygiene.py does not list.        *)

TreeScansGreen(t, open) ==
  /\ forbid_ledger(t, open) = {}
  /\ forbid_consumer(t) = {}
  /\ forbid_identity_literals(t) = {}
  /\ verify_citations(t) = {}
  /\ workflow_shape(t) = {}
  /\ registry_closure(t) = {}
  /\ forbid_test_tolerance(t) = {}
  /\ forbid_relative_kernel_include(t) = {}
  /\ kernel_primitive_tests(t) = {}
  /\ oracle_fence(t) = {}
  /\ shape_roster(t) = {}
  /\ parity_roster(t) = {}
  /\ kernel_fixture_loader(t) = {}
  /\ derivation_sync(t) = {}
  /\ registry_roster_closure(t) = {}
  /\ divergence_enum_coverage(t) = {}
  /\ tier_coverage_floor(t) = {}
  /\ fixtures_validate(t) = {}

RealTreeGreen(t) ==
  lanes_check(t) = {} /\ docs_links(t) = {} /\ adr_lint(t) = {} /\ description_validate(t) = {}

HygieneGreen(fork, base, head, open) ==
  /\ TreeScansGreen(head, open)
  /\ RealTreeGreen(head)
  /\ ConstitutionViolations(fork, base, head) = {}

\* A tree has the sections of the first one, and versions are numbers.
IsTree(t) == t = [s \in Sections |-> t[s]] /\ t.version \subseteq Nat

ASSUME FirstTreeAssumption ==
  /\ "version" \in Sections /\ IsTree(FirstTree)
  /\ TreeScansGreen(FirstTree, Issues) /\ RealTreeGreen(FirstTree)

ASSUME ChangesAssumption ==
  \A change \in Changes : \A c \in change : c[1] = "version" => c[2] \in Nat

--------------------------------------------------------------------------------
NoTree == [s \in Sections |-> {}]
Absent == [state |-> "absent", base |-> 0, head |-> NoTree, pushes |-> 0,
           check |-> "none", ref |-> NoTree, at |-> 0]

Init == /\ history = <<FirstTree>>
        /\ pr = [p \in PullRequests |-> Absent]
        /\ openIssues = Issues

\* Mutant: the check of the head before is taken for the new head's.
MutantNewHead(p, head, base, pushes) ==
  pr' = [pr EXCEPT ![p].state = "open", ![p].head = head, ![p].base = base, ![p].pushes = pushes]

\* A new head has no check yet; a job that still runs belongs to the old one.
NewHead(p, head, base, pushes) ==
  pr' = [pr EXCEPT ![p] = [Absent EXCEPT !.state = "open", !.head = head,
                                         !.base = base, !.pushes = pushes]]

Open(p) ==
  /\ pr[p].state = "absent"
  /\ \E c \in Changes : NewHead(p, Changed(Tip, c), Len(history), 1)
  /\ UNCHANGED <<history, openIssues>>

Push(p) ==
  /\ pr[p].state = "open"
  /\ pr[p].pushes < MaxPushes
  /\ \E c \in Changes : NewHead(p, Changed(pr[p].head, c), pr[p].base, pr[p].pushes + 1)
  /\ UNCHANGED <<history, openIssues>>

\* "Update branch": main is merged into the head.
UpdateBranch(p) ==
  /\ pr[p].state = "open"
  /\ pr[p].base < Len(history)
  /\ NewHead(p, Merged(history[pr[p].base], Tip, pr[p].head), Len(history), pr[p].pushes)
  /\ UNCHANGED <<history, openIssues>>

\* The job checks out refs/pull/<n>/merge; a red check may be run again.
StartJob(p) ==
  /\ pr[p].state = "open"
  /\ pr[p].check \in {"none", "red"}
  /\ pr' = [pr EXCEPT ![p].check = "running", ![p].at = Len(history),
                      ![p].ref = Merged(history[pr[p].base], Tip, pr[p].head)]
  /\ UNCHANGED <<history, openIssues>>

FinishJob(p) ==
  /\ pr[p].check = "running"
  /\ \E online \in BOOLEAN :
       LET open  == IF online THEN openIssues ELSE Offline
           green == HygieneGreen(history[pr[p].at], resolveBase(online), pr[p].ref, open)
       IN  pr' = [pr EXCEPT ![p].check = IF green THEN "green" ELSE "red",
                            ![p].ref = NoTree, ![p].at = 0]
  /\ UNCHANGED <<history, openIssues>>

\* Mutant: ruleset.py writes a policy that is not strict.
MutantMergeable(p) == pr[p].check = "green"

\* The ruleset on main: the check is green on this head, and under the strict
\* status-check policy the head contains main's tip.
Mergeable(p) == /\ pr[p].check = "green"
                /\ pr[p].base = Len(history)

Merge(p) ==
  /\ pr[p].state = "open"
  /\ Mergeable(p)
  /\ history' = Append(history, pr[p].head)
  /\ pr' = [pr EXCEPT ![p] = [Absent EXCEPT !.state = "merged"]]
  /\ UNCHANGED openIssues

CloseIssue ==
  /\ \E i \in openIssues : openIssues' = openIssues \ {i}
  /\ UNCHANGED <<history, pr>>

Next == \/ \E p \in PullRequests : \/ Open(p) \/ Push(p) \/ UpdateBranch(p)
                                   \/ StartJob(p) \/ FinishJob(p) \/ Merge(p)
        \/ CloseIssue

Spec == Init /\ [][Next]_vars

--------------------------------------------------------------------------------
(* The state is well formed: main is never empty, every branch forks from   *)
(* one of its commits, and the pushes stay within the bound.                *)
TypeOK ==
  /\ history # <<>> /\ \A k \in DOMAIN history : IsTree(history[k])
  /\ openIssues \subseteq Issues
  /\ \A p \in PullRequests :
       /\ pr[p].state \in {"absent", "open", "merged"}
       /\ pr[p].check \in {"none", "running", "green", "red"}
       /\ pr[p].base \in 0 .. Len(history) /\ pr[p].at \in 0 .. Len(history)
       /\ pr[p].pushes \in 0 .. MaxPushes
       /\ IsTree(pr[p].head) /\ IsTree(pr[p].ref)

(* Main always passes every scan it is gated by, as long as the issues its  *)
(* comments cite stay open: two pull requests that are green apart and red  *)
(* together (each deletes one of a function's last two fixtures, each adds  *)
(* the ADR with the next number) never both reach it.  No test runs two     *)
(* pull requests against each other; it is the strict status-check policy   *)
(* that ruleset.py writes that keeps them apart.                            *)
MainPassesEveryScan == TreeScansGreen(Tip, Issues) /\ RealTreeGreen(Tip)

(* A green check on a head that contains main's tip is a verdict on that    *)
(* very head: not on the head before a push or an update of the branch, and *)
(* not on a merge with an older main.                                       *)
GreenChecksAreCurrent ==
  \A p \in PullRequests :
    pr[p].check = "green" /\ pr[p].base = Len(history) =>
      HygieneGreen(Tip, <<Tip>>, pr[p].head, Issues)

(* Whenever main's constitution differs from the main before, its version   *)
(* is greater, and if an article differs an ADR that is new on main and     *)
(* accepted names an article that does (CONSTITUTION.md, Article IX.2).     *)
(* The scan compares with main as fetched while the job runs, the merge     *)
(* happens later and onto whatever main is by then.                         *)
AmendmentsAreRatified ==
  \A k \in 2 .. Len(history) :
    LET before == history[k - 1]
        after  == history[k]
    IN  ConstitutionText(before) # ConstitutionText(after) =>
          /\ version_of(after) > version_of(before)
          /\ \E a \in after.adrs \ before.adrs :
               /\ a.status = "accepted"
               /\ changed_articles(before, after) # {} =>
                    a.articles \cap changed_articles(before, after) # {}
================================================================================
