------------------------------- MODULE MergeGate -------------------------------
(***************************************************************************)
(* One pull request on its way to main: pushes, reviews, pr-hygiene.py run *)
(* by hand before and after the merge, the build-test job that skips the   *)
(* build when build-relevant-changed.py says so, and ruleset.py, by which  *)
(* the owner requires that job or no longer does.  Main moves on meanwhile.*)
(* A commit is the set of the edits it contains; an edit is a file, the    *)
(* name it had before (another one if the edit moves it) and whether a     *)
(* deferral comment is added to it.  Dates are ticks of a clock: what      *)
(* happens between two ticks has the same time stamp.                      *)
(***************************************************************************)
EXTENDS PullRequestScans

CONSTANTS
  Edits,       \* [from, path, type, defers]: what a push may toggle
  Lanes,       \* [context, posture]: .github/ci-lanes.json
  MaxTime, MaxPushes, MaxMain  \* bounds: the clock, pushes, main's commits

ASSUME BoundsAssumption == {MaxTime, MaxPushes, MaxMain} \subseteq Nat \ {0} /\ IsFiniteSet(Edits)

VARIABLES
  now,
  history,   \* main's commits, the tip last
  pr,        \* the pull request
  posts,     \* the fresh-session reviews on it; other posts count for nothing
  gate,      \* a run of pr-hygiene.py
  built,     \* the sources `make release test smoke` has passed on
  required,  \* the contexts the ruleset on main requires
  greenAt,   \* the last commit of main a context's push run succeeded on, 0 if none
  owner      \* the context ruleset.py add has verified and not yet written

vars == <<now, history, pr, posts, gate, built, required, greenAt, owner>>

Tip == Last(history)
\* The name a diff gives an edit whose outcome is this tree: git and GitHub know a
\* moved file again and name it once, as it is called now.
Listed(e, tree) == IF e \in tree THEN e.path ELSE e.from
Source(tree) == {e \in tree : is_build_relevant(e.path) \/ is_build_relevant(e.from)}
Merged(fork, ours, theirs) ==
  (ours \cap theirs) \cup (ours \ fork) \cup (theirs \ fork)
Toggled(tree, edits) == (tree \ edits) \cup (edits \ tree)

Contexts == {l.context : l \in Lanes}
MergeContexts == {l.context : l \in {l \in Lanes : l.posture = "merge"}}
BuildTest == "build-test"
NoContext == ""

--------------------------------------------------------------------------------
Unchecked == [job |-> "none", ref |-> {}, at |-> 0]
NoRun == [step |-> "idle", posts |-> {}, lastCommitAt |-> NoDate, mergedAt |-> NoDate, pushes |-> 0]

Init == /\ now = 1
        /\ history = <<{}>>
        /\ \E edits \in SUBSET Edits :
             pr = [open |-> TRUE, head |-> edits, base |-> 1, pushes |-> 1, committedAt |-> 1,
                   pushedAt |-> 1, mergedAt |-> NoDate, check |-> Unchecked]
        /\ posts = {}
        /\ gate = NoRun
        /\ built = {{}}
        /\ required = {}
        /\ greenAt = [c \in Contexts |-> 0]
        /\ owner = NoContext

Tick == /\ now < MaxTime
        /\ now' = now + 1
        /\ UNCHANGED <<history, pr, posts, gate, built, required, greenAt, owner>>

\* The last commit has the date it was made at, not the date it was pushed at.
Push ==
  /\ pr.open
  /\ pr.pushes < MaxPushes
  /\ \E edits \in SUBSET Edits, date \in 1 .. now :
       /\ date >= pr.committedAt
       /\ pr' = [pr EXCEPT !.head = Toggled(pr.head, edits), !.pushes = pr.pushes + 1,
                           !.committedAt = date, !.pushedAt = now, !.check = Unchecked]
  /\ UNCHANGED <<now, history, posts, gate, built, required, greenAt, owner>>

\* "Update branch" commits the merge at once.
UpdateBranch ==
  /\ pr.open
  /\ pr.base < Len(history)
  /\ pr.pushes < MaxPushes
  /\ pr' = [pr EXCEPT !.head = Merged(history[pr.base], Tip, pr.head), !.base = Len(history),
                      !.pushes = pr.pushes + 1, !.committedAt = now, !.pushedAt = now,
                      !.check = Unchecked]
  /\ UNCHANGED <<now, history, posts, gate, built, required, greenAt, owner>>

\* Before the merge or after it.
PostReview ==
  /\ posts' = posts \cup {[fresh |-> TRUE, at |-> now]}
  /\ posts' # posts
  /\ UNCHANGED <<now, history, pr, gate, built, required, greenAt, owner>>

--------------------------------------------------------------------------------
(* The build-test job: it checks out the merge of the head with main, asks     *)
(* whether the difference is build-relevant, and builds or skips the build.    *)

StartBuild ==
  /\ pr.open
  /\ pr.check.job \in {"none", "red"}
  /\ pr' = [pr EXCEPT !.check = [job |-> "running", at |-> Len(history),
                                 ref |-> Merged(history[pr.base], Tip, pr.head)]]
  /\ UNCHANGED <<now, history, posts, gate, built, required, greenAt, owner>>

\* The three-dot diff of the checkout and main, <<>> when main cannot be fetched.
ChangedFiles(online) ==
  LET fork == history[pr.check.at]
  IN  IF online THEN <<{Listed(e, pr.check.ref) : e \in Toggled(pr.check.ref, fork)}>> ELSE <<>>

FinishBuild ==
  /\ pr.check.job = "running"
  /\ \E online, passes \in BOOLEAN :
       LET builds == build_relevant_changed(ChangedFiles(online))
       IN  /\ built' = IF builds /\ passes THEN built \cup {Source(pr.check.ref)} ELSE built
           /\ pr' = [pr EXCEPT !.check = [Unchecked EXCEPT
                                            !.job = IF builds /\ ~passes THEN "red" ELSE "green"]]
  /\ UNCHANGED <<now, history, posts, gate, required, greenAt, owner>>

\* The push run on main always builds.
PushRun(context) ==
  /\ greenAt[context] # Len(history)
  /\ greenAt' = [greenAt EXCEPT ![context] = Len(history)]
  /\ built' = IF context = BuildTest THEN built \cup {Source(Tip)} ELSE built
  /\ UNCHANGED <<now, history, pr, posts, gate, required, owner>>

--------------------------------------------------------------------------------
(* The ruleset: the required checks are green on this head, and the head contains *)
(* main's tip.                                                                    *)

Mergeable == BuildTest \in required => pr.check.job = "green" /\ pr.base = Len(history)

Merge ==
  /\ pr.open
  /\ Mergeable
  /\ Len(history) < MaxMain
  /\ history' = Append(history, Merged(history[pr.base], Tip, pr.head))
  /\ pr' = [pr EXCEPT !.open = FALSE, !.mergedAt = now, !.check = Unchecked]
  /\ UNCHANGED <<now, posts, gate, built, required, greenAt, owner>>

\* Another pull request is merged, built first if that is required and its job sees
\* a file that matters.
MainMoves ==
  /\ Len(history) < MaxMain
  /\ \E e \in Edits :
       LET tree == Toggled(Tip, {e})
       IN  /\ history' = Append(history, tree)
           /\ built' = IF BuildTest \in required /\ is_build_relevant(Listed(e, tree))
                       THEN built \cup {Source(tree)} ELSE built
  /\ UNCHANGED <<now, pr, posts, gate, required, greenAt, owner>>

\* The lanes a context belongs to; every context here is its lane's own.
findOwningLane(context) == {l \in Lanes : l.context = context}
hasReportedGreenOnMain(context) == greenAt[context] = Len(history)

\* Mutant: whatever is green may be required.
MutantVerifyLane(context) ==
  /\ owner = NoContext
  /\ hasReportedGreenOnMain(context)
  /\ owner' = context
  /\ UNCHANGED <<now, history, pr, posts, gate, built, required, greenAt>>

\* Mutant: main is not asked.
MutantVerifyGreen(context) ==
  /\ owner = NoContext
  /\ \E l \in findOwningLane(context) : l.posture = "merge"
  /\ owner' = context
  /\ UNCHANGED <<now, history, pr, posts, gate, built, required, greenAt>>

\* ruleset.py add: the lane's posture and main's tip are looked at first...
VerifyContext(context) ==
  /\ owner = NoContext
  /\ \E l \in findOwningLane(context) : l.posture = "merge"
  /\ hasReportedGreenOnMain(context)
  /\ owner' = context
  /\ UNCHANGED <<now, history, pr, posts, gate, built, required, greenAt>>

\* ... then the ruleset is read and put back with the context.
AddCheck ==
  /\ owner # NoContext
  /\ required' = required \cup {owner}
  /\ owner' = NoContext
  /\ UNCHANGED <<now, history, pr, posts, gate, built, greenAt>>

RemoveCheck(context) ==
  /\ owner = NoContext
  /\ context \in required
  /\ required' = required \ {context}
  /\ UNCHANGED <<now, history, pr, posts, gate, built, greenAt, owner>>

--------------------------------------------------------------------------------
(* pr-hygiene.py: `gh pr view`, then `gh pr diff`, then the verdict. *)

ViewPr ==
  /\ gate.step # "viewed"
  /\ gate' = [step |-> "viewed", posts |-> posts, lastCommitAt |-> pr.committedAt,
              mergedAt |-> pr.mergedAt, pushes |-> pr.pushes]
  /\ UNCHANGED <<now, history, pr, posts, built, required, greenAt, owner>>

\* The lines of the diff an edit stands for: what the head adds to its fork point, or
\* takes back from it.
Lines(e) == << [kind |-> "file", path |-> Listed(e, pr.head), type |-> e.type],
               [kind |-> IF e \in pr.head THEN "added" ELSE "removed", comment |-> TRUE,
                phrase |-> e.defers, opens |-> FALSE, closes |-> FALSE, ref |-> FALSE] >>
fetchPrDiff ==
  LET edits == SetToSeq(Toggled(pr.head, history[pr.base]))
  IN  [k \in 1 .. 2 * Len(edits) |-> Lines(edits[(k + 1) \div 2])[2 - (k % 2)]]

\* Title and body are as they should be.
View == [author |-> "someone", title |-> [conventional |-> TRUE, text |-> "feat: a"],
         body |-> [closes |-> <<1>>, sections |-> REQUIRED_SECTIONS, check |-> TRUE, overlap |-> 0],
         posts |-> gate.posts, lastCommitAt |-> gate.lastCommitAt, mergedAt |-> gate.mergedAt]

Judge ==
  /\ gate.step = "viewed"
  /\ LET passed == pr_hygiene(View, fetchPrDiff, [i \in {1} |-> "an issue"]) = {}
     IN  gate' = IF passed THEN [gate EXCEPT !.step = "passed", !.posts = {}, !.lastCommitAt = NoDate]
                 ELSE NoRun
  /\ UNCHANGED <<now, history, pr, posts, built, required, greenAt, owner>>

Next == \/ Tick \/ Push \/ UpdateBranch \/ PostReview
        \/ StartBuild \/ FinishBuild \/ Merge \/ MainMoves
        \/ \E c \in Contexts : PushRun(c) \/ VerifyContext(c) \/ RemoveCheck(c)
        \/ AddCheck \/ ViewPr \/ Judge

Spec == Init /\ [][Next]_vars

--------------------------------------------------------------------------------
(* Dates never lie in the future, a commit is no younger than its push, the *)
(* branch forks from a commit of main, and only a context whose lane has    *)
(* the posture "merge" is ever required.                                    *)
TypeOK ==
  /\ now \in 1 .. MaxTime
  /\ history \in Seq(SUBSET Edits) /\ Len(history) \in 1 .. MaxMain
  /\ pr.head \subseteq Edits /\ pr.base \in 1 .. Len(history) /\ pr.pushes \in 1 .. MaxPushes
  /\ pr.committedAt \in 1 .. pr.pushedAt /\ pr.pushedAt <= now /\ pr.mergedAt \in 0 .. now
  /\ pr.open <=> pr.mergedAt = NoDate
  /\ \A r \in posts : r.at \in 1 .. now
  /\ gate.posts \subseteq posts /\ gate.pushes <= pr.pushes
  /\ greenAt \in [Contexts -> 0 .. Len(history)]
  /\ required \cup {owner} \subseteq MergeContexts \cup {NoContext} /\ NoContext \notin required

ReviewedSince(date) == \E r \in posts : r.at > date
InScope(e) == e.type \in CommentMarked /\ \E p \in SCOPE_PREFIXES : IsPrefix(p, e.path)
NoDeferral == \A e \in pr.head \ history[pr.base] : InScope(e) => ~e.defers

(* A run of the gate that passes tells the truth about the head, unless     *)
(* something was pushed since it asked for the reviews: a review was posted *)
(* after the last commit of that head was made (Article VIII.2), and the    *)
(* diff, fetched later, adds no deferral to a file the scan reads.  A run   *)
(* overtaken by a push says nothing, and the script cannot know.            *)
PassedHeadWasReviewed ==
  gate.step = "passed" /\ gate.pushes = pr.pushes => ReviewedSince(pr.committedAt) /\ NoDeferral

(* A run that passes on a merged pull request: a review was posted after    *)
(* the last commit of the head that was merged and no later than the merge. *)
(* A pull request merged without its review cannot be mended by one posted  *)
(* after the merge.                                                         *)
AuditedMergeWasReviewed ==
  gate.step = "passed" /\ gate.mergedAt # NoDate =>
    \E r \in posts : pr.committedAt < r.at /\ r.at <= pr.mergedAt

MovesOut(e, tree) == ~is_build_relevant(Listed(e, tree)) /\ e.from # e.path
OnlyMovesOut(before, after) == \A e \in Toggled(Source(before), Source(after)) : MovesOut(e, after)

(* While build-test is required, a merge brings main no source that nobody  *)
(* has built, unless all it does to the source is to move files out of it:  *)
(* a job that skipped the build, or that built the merge with an older      *)
(* main, lets nothing else through.                                         *)
RelevantChangesAreBuilt ==
  [][(BuildTest \in required /\ history' # history) =>
       (Source(Tip)' \in built' \/ OnlyMovesOut(Tip, Tip'))]_vars

(* Whatever main requires has been green on main: between the look at its   *)
(* tip and the write main may have moved, and the context may be red now,   *)
(* but nothing is required that never passed there.                         *)
RequiredHasReported == \A c \in required : greenAt[c] # 0
================================================================================
