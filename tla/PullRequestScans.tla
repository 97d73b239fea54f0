---------------------------- MODULE PullRequestScans ----------------------------
(***************************************************************************)
(* What the scripts decide about one pull request: pr-hygiene.py and the   *)
(* deferral scan it imports, pr-label.py and issue-label-check.py,         *)
(* build-relevant-changed.py, and changelog.py over the titles that were   *)
(* merged.  A date is a natural number, NoDate when there is none.         *)
(*   view   what `gh pr view` answers: [title, body, author, posts,        *)
(*          lastCommitAt, mergedAt]; title is [conventional, text]; body   *)
(*          is [closes, sections, check, overlap], closes the sequence of  *)
(*          issues it closes and overlap its overlap with that issue in    *)
(*          percent; posts are [fresh, at], comments and native reviews    *)
(*          alike, fresh saying "Fresh-session review:" comes first        *)
(*   diff   the lines of the net diff: [kind, path, type] for a "+++ "     *)
(*          line, [kind, comment, phrase, opens, closes, ref] for an added *)
(*          one: whether it has the comment marker of its file's type and, *)
(*          after it, a whole deferral phrase, the first words of one at   *)
(*          its end, the last words of one at its start, a #<issue>        *)
(***************************************************************************)
EXTENDS Integers, Sequences, FiniteSets, SequencesExt

NoDate == 0

--------------------------------------------------------------------------------
(* forbid_deferral.py *)

SCOPE_PREFIXES == {<<"src">>, <<"test">>, <<"scripts">>}
CommentMarked == {".cpp", ".hpp", ".test", ".sql", ".yaml"}  \* types comment_marker_for knows

\* The "+++ " line a line of the diff stands under, 0 if there is none.
FileLine(diff, k) ==
  LET above == {j \in 1 .. k : diff[j].kind = "file"}
  IN  IF above = {} THEN 0 ELSE CHOOSE j \in above : \A i \in above : i <= j

IsComment(diff, k) ==
  /\ diff[k].kind = "added"
  /\ FileLine(diff, k) # 0
  /\ LET file == diff[FileLine(diff, k)]
     IN  /\ \E p \in SCOPE_PREFIXES : IsPrefix(p, file.path)
         /\ file.type \in CommentMarked
  /\ diff[k].comment

\* A phrase wrapped over two comment lines: the line before is a comment of the
\* same file, and neither line has a phrase of its own.
Wrapped(diff, k) ==
  /\ k > 1 /\ IsComment(diff, k - 1)
  /\ ~diff[k - 1].phrase /\ ~diff[k].phrase
  /\ diff[k - 1].opens /\ diff[k].closes

scanDiffForDeferral(diff) ==
  {k \in DOMAIN diff : /\ IsComment(diff, k)
                       /\ diff[k].phrase \/ Wrapped(diff, k)
                       /\ ~diff[k].ref}

--------------------------------------------------------------------------------
(* pr-hygiene.py *)

REQUIRED_SECTIONS == {"How", "Deviations", "Risk", "Evidence", "Discovered"}
Dependabot == "app/dependabot"

FreshReviews(posts) == {r \in posts : r.fresh}
Newest(reviews) == CHOOSE at \in {r.at : r \in reviews} : \A r \in reviews : r.at <= at

\* Mutant: a review as old as the last commit counts.
MutantFreshSessionReview(posts, lastCommitAt) ==
  CASE FreshReviews(posts) = {} -> {"NO-REVIEW"}
    [] FreshReviews(posts) # {} /\ lastCommitAt = NoDate -> {"NO-COMMIT-DATE"}
    [] FreshReviews(posts) # {} /\ lastCommitAt # NoDate ->
         IF Newest(FreshReviews(posts)) < lastCommitAt THEN {"STALE-REVIEW"} ELSE {}

freshSessionReviewViolation(posts, lastCommitAt) ==
  CASE FreshReviews(posts) = {} -> {"NO-REVIEW"}
    [] FreshReviews(posts) # {} /\ lastCommitAt = NoDate -> {"NO-COMMIT-DATE"}
    [] FreshReviews(posts) # {} /\ lastCommitAt # NoDate ->
         IF Newest(FreshReviews(posts)) <= lastCommitAt THEN {"STALE-REVIEW"} ELSE {}

\* Mutant: the merge is held against the oldest review.
MutantMergeBeforeReview(mergedAt, posts) ==
  IF mergedAt # NoDate /\ FreshReviews(posts) # {} /\ \A r \in FreshReviews(posts) : mergedAt < r.at
  THEN {"MERGED-BEFORE-REVIEW"} ELSE {}

mergeBeforeReviewViolation(mergedAt, posts) ==
  IF mergedAt # NoDate /\ FreshReviews(posts) # {} /\ mergedAt < Newest(FreshReviews(posts))
  THEN {"MERGED-BEFORE-REVIEW"} ELSE {}

\* issues maps the number of an issue to its title.
BodyViolations(view, issues) ==
  LET body == view.body
  IN  (IF Len(body.closes) # 1 THEN {"CLOSES"} ELSE {})
      \cup (IF REQUIRED_SECTIONS \subseteq body.sections THEN {} ELSE {"SECTION"})
      \cup (IF body.check THEN {} ELSE {"CONSTITUTION-LINE"})
      \cup (IF body.closes # <<>> /\ view.title.text = issues[body.closes[1]] THEN {"TITLE-IS-ISSUE"} ELSE {})
      \cup (IF body.closes # <<>> /\ body.overlap > 15 THEN {"OVERLAP"} ELSE {})

pr_hygiene(view, diff, issues) ==
  (IF view.author = Dependabot THEN {} ELSE BodyViolations(view, issues))
  \cup (IF view.title.conventional THEN {} ELSE {"TITLE"})
  \cup (IF scanDiffForDeferral(diff) = {} THEN {} ELSE {"DEFERRAL"})
  \cup freshSessionReviewViolation(view.posts, view.lastCommitAt)
  \cup mergeBeforeReviewViolation(view.mergedAt, view.posts)

--------------------------------------------------------------------------------
(* pr-label.py, issue-label-check.py.  A label is [kind, name]. *)

NoIssue == 0
closesIssueNumber(closes) == IF Len(closes) = 1 THEN closes[1] ELSE NoIssue
missingLabels(wanted, have) == wanted \ have
Mirrored(labels) == {l \in labels : l.kind \in {"size", "area"}}

\* The labels _label_one adds to a pull request, given the labels of its issue.
label_one(bot, wanted, have) == IF bot THEN {} ELSE missingLabels(wanted, have)

isMissingLabel(labels) == \E kind \in {"size", "area"} : \A l \in labels : l.kind # kind

\* The open issues [number, epic, pull, labels] the scheduled check names.
issue_label_check(issues) ==
  {i.number : i \in {i \in issues : ~i.pull /\ ~i.epic /\ isMissingLabel(i.labels)}}

--------------------------------------------------------------------------------
(* build-relevant-changed.py *)

BUILD_RELEVANT_PREFIXES ==
  {<<"src">>, <<"test", "sql">>, <<"CMakeLists.txt">>, <<"extension_config.cmake">>, <<"Makefile">>,
   <<"duckdb">>, <<"extension-ci-tools">>, <<".github", "workflows", "ci.yml">>}
is_build_relevant(path) == \E p \in BUILD_RELEVANT_PREFIXES : IsPrefix(p, path)

\* Mutant: with nothing to compare to the build is skipped.
MutantBuildRelevantChanged(diff) == diff # <<>> /\ \E f \in diff[1] : is_build_relevant(f)

\* diff is <<the changed files>>, or <<>> when no base or no diff could be had.
build_relevant_changed(diff) == diff # <<>> => \E f \in diff[1] : is_build_relevant(f)

--------------------------------------------------------------------------------
(* changelog.py: log holds the subjects of main, [conventional, text], oldest       *)
(* first, and tag is how many of them the latest tag reaches (0: no tag).           *)

subjectsSince(log, tag) == Reverse(SelectSeq(SubSeq(log, tag + 1, Len(log)), LAMBDA s : s.conventional))
changelog_check(file, log, tag) == file = subjectsSince(log, tag)
================================================================================
