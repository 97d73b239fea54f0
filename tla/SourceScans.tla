------------------------------ MODULE SourceScans ------------------------------
(***************************************************************************)
(* The hygiene scans that read source text, workflows and documents.  As   *)
(* in RosterScans each operator is one script and is the set of violations *)
(* it prints for a tree t.  Text is abstracted to what the scans look for: *)
(*   files     <<path, mark>> pairs; a path is a sequence of names, a mark *)
(*             is [kind, name, arg], and every file has at least one mark  *)
(*   includes  <<path, target>>: a quoted #include of a target path        *)
(*   cites     [file, path, construct, expr]: the citations of a file      *)
(*   links     [file, to, anchor]: relative links of the documents, to     *)
(*             being <<>> for a link into the same file                    *)
(*   perms     the workflows with a top-level permissions: key             *)
(*   jobs      [id, workflow, own, uses, steps, tolerated]: jobs, with     *)
(*             their own permissions, whether `uses` is the only key, the  *)
(*             steps' [run, extra] and whether anything in the job has     *)
(*             continue-on-error; a workflow is its place in sorted order  *)
(*   lanes, laneDoc  .github/ci-lanes.json as (context, workflow) pairs,   *)
(*             and the contexts docs/testing/lanes.md names                *)
(*   adrs      [number, slug, status, dated, successor, articles]; a file  *)
(*             whose name does not match has number NoNumber               *)
(*   description  the keys docs/community/description.yml has              *)
(*   coverage, classes, planKeys  the rows of docs/design/coverage.md as   *)
(*             [where, names, class], its class headings, its T<x>.<y> keys*)
(* open is the set of open issues, or Offline when gh does not answer.     *)
(***************************************************************************)
EXTENDS Naturals, FiniteSets, Sequences, SequencesExt

CONSTANT Offline  \* what the issue tracker answers when it cannot be reached

NoNumber == 9999  \* a file of docs/decisions named like no ADR
None == ""

Paths(t) == {f[1] : f \in t.files}
Under(path, dir) == IsPrefix(dir, path)
Marked(t, kind) == {f \in t.files : f[2].kind = kind}

--------------------------------------------------------------------------------
(* forbid-ledger.py.  A name stands for every name that begins with it. *)

Denylist == {"PLAN", "STATUS", "PROGRESS", "ROADMAP", "NOTES", "JOURNAL", "TODO"}
Denied(path) == Last(path) \in Denylist \/ Under(path, <<"docs", "plan">>)

Changelog == <<"CHANGELOG.md">>
check_changelog(t) ==
  {<<"MARKER", Changelog>> : p \in {p \in {Changelog} \cap Paths(t) :
                                      \A f \in Marked(t, "generated") : f[1] # p}}

\* Comments are recognised by the extension; a file of any other type, the Python
\* scripts among them, has no marker and none of its lines is looked at.
CommentTypes == {".cpp", ".hpp", ".test", ".sql", ".yaml"}
InCommentScope(f) == f[1][1] \in {"src", "test", "scripts"} /\ f[2].arg \in CommentTypes

\* A deferral comment is a mark [kind |-> "todo", name |-> issue, arg |-> file type].
IssueVerdict(issue, open) ==
  CASE issue = None  -> "NO-ISSUE"
    [] issue # None /\ open = Offline -> "UNVERIFIED"
    [] issue # None /\ open # Offline -> IF issue \in open THEN "OPEN" ELSE "NOT-OPEN"

check_deferral_comments(t, open) ==
  {<<IssueVerdict(f[2].name, open), f[1]>> :
     f \in {f \in Marked(t, "todo") : InCommentScope(f) /\ IssueVerdict(f[2].name, open) # "OPEN"}}

forbid_ledger(t, open) ==
  {<<"DENIED", p>> : p \in {p \in Paths(t) : Denied(p)}}
  \cup check_changelog(t) \cup check_deferral_comments(t, open)

--------------------------------------------------------------------------------
(* forbid-consumer.py, forbid-identity-literals.py, forbid-test-tolerance.py,     *)
(* forbid-relative-kernel-include.py                                              *)

ConsumerExempt == {<<"CONSTITUTION.md">>, <<"docs", "prior-art.md">>, <<"docs", "decisions">>,
                   <<"docs", "design", "ecosystem.md">>, <<"docs", "design", "coverage.md">>,
                   <<"docs", "testing", "corpora.md">>}

\* In a fixture only keys and the values of fixture: and function: are read;
\* arg says where the token stands: "key", "identity" or "data".
TokenIsRead(f) == Under(f[1], <<"test", "fixtures">>) => f[2].arg \in {"key", "identity"}

forbid_consumer(t) ==
  {<<"CONSUMER", f[1]>> :
     f \in {f \in Marked(t, "consumer") : /\ \A e \in ConsumerExempt : ~Under(f[1], e)
                                          /\ TokenIsRead(f)}}

\* ADRs are named by their number here.
ScanRoots == {<<"scripts">>, <<"src">>, <<"test">>, <<"docs", "design">>,
              <<"docs", "testing">>, <<"docs", "decisions">>}
IdentityExempt == {<<"docs", "decisions", n>> :
                     n \in {"0002", "0012", "0013", "0014", "0015", "0016", "0019"}}

forbid_identity_literals(t) ==
  {<<"IDENTITY", f[1]>> :
     f \in {f \in Marked(t, "identity") : /\ \E r \in ScanRoots : Under(f[1], r)
                                          /\ f[1] \notin IdentityExempt}}

WhitelistedPath == <<"test", "kernel", "comparator_test.cpp">>

forbid_test_tolerance(t) ==
  {<<"EPSILON", f[1]>> :
     f \in {f \in Marked(t, "epsilon") : Under(f[1], <<"test">>) /\ f[1] # WhitelistedPath}}

forbid_relative_kernel_include(t) ==
  {<<"RELATIVE", i[1]>> :
     i \in {i \in t.includes : Under(i[1], <<"test", "kernel">>) /\ Head(i[2]) = ".."}}

--------------------------------------------------------------------------------
(* oracle-fence.py *)

Normalized(path) ==
  FoldLeft(LAMBDA done, c : IF c = ".." /\ done # <<>> THEN Front(done) ELSE Append(done, c), <<>>, path)
Resolved(i) == Normalized(Front(i[1]) \o i[2])

IsSource(path) == Under(path, <<"src">>)
OracleFiles(t) == {p \in Paths(t) : Under(p, <<"test", "oracle">>)}

\* walk(): from the oracle's files along the includes, as far as files exist and
\* never into src/.
Visited(t) ==
  LET Next(S) == S \cup ({Resolved(i) : i \in {i \in t.includes : i[1] \in S /\ ~IsSource(Resolved(i))}}
                         \cap Paths(t))
      Walk[n \in 0 .. Cardinality(Paths(t))] == IF n = 0 THEN OracleFiles(t) ELSE Next(Walk[n - 1])
  IN  Walk[Cardinality(Paths(t))]

oracle_fence(t) ==
  IF OracleFiles(t) = {} THEN {<<"NOTHING-TO-FENCE", <<"test", "oracle">>>>}
  ELSE {<<"REACHES-SRC", i[1]>> : i \in {i \in t.includes : i[1] \in Visited(t) /\ IsSource(Resolved(i))}}

--------------------------------------------------------------------------------
(* verify-citations.py *)

Occurrences(t, path, expr) == {f \in Marked(t, "expr") : f[1] = path /\ f[2].name = expr}

CitationVerdict(t, c) ==
  CASE c.construct = "line"                                       -> "LINE-NUMBER"
    [] c.construct # "line" /\ c.path \notin Paths(t)             ->
         IF Under(c.path, <<"build", "partners">>) THEN "SKIPPED" ELSE "NO-FILE"
    [] c.construct # "line" /\ c.path \in Paths(t)                ->
         IF Cardinality(Occurrences(t, c.path, c.expr)) = 1 THEN "FOUND" ELSE "NOT-ONCE"

verify_citations(t) ==
  {<<CitationVerdict(t, c), c.file>> :
     c \in {c \in t.cites : CitationVerdict(t, c) \notin {"FOUND", "SKIPPED"}}}

--------------------------------------------------------------------------------
(* workflow-shape.py, lanes-check.py *)

workflow_shape(t) ==
  {<<"NO-PERMISSIONS", j.id>> : j \in {j \in t.jobs : j.workflow \notin t.perms /\ ~j.own}}
  \cup {<<"NOT-MAKE", j.id>> :
          j \in {j \in t.jobs : ~j.uses /\ \E s \in j.steps : s.run # None /\ (s.extra \/ s.run # "make")}}

\* actual_jobs is keyed by the job's id alone: the last workflow that has the id wins.
ActualJobs(t) == {j \in t.jobs : \A k \in t.jobs : k.id = j.id => k.workflow <= j.workflow}

\* Where docs/testing/lanes.md, if it is there, and the registry disagree.
LanesMd == <<"docs", "testing", "lanes.md">>
Unlisted(t) == LET registered == {l[1] : l \in t.lanes}
               IN  (registered \ t.laneDoc) \cup (t.laneDoc \ registered)

lanes_check(t) ==
  {<<"NO-JOB", l[1]>> : l \in {l \in t.lanes : \A j \in t.jobs : j.id # l[1]}}
  \cup {<<"ELSEWHERE", l[1]>> : l \in {l \in t.lanes : \E j \in ActualJobs(t) :
                                          j.id = l[1] /\ j.workflow # l[2]}}
  \cup {<<"UNREGISTERED", j.id>> : j \in {j \in t.jobs : \A l \in t.lanes : l[1] # j.id}}
  \cup {<<"TOLERATED", j.id>> : j \in {j \in t.jobs : j.tolerated}}
  \cup {<<"LANES-MD", c>> : c \in IF LanesMd \in Paths(t) THEN Unlisted(t) ELSE {}}

--------------------------------------------------------------------------------
(* docs-links.py, adr-lint.py, description-validate.py, coverage-check.py *)

LinkTarget(l) == IF l.to = <<>> THEN l.file ELSE l.to
Exists(t, path) == \E p \in Paths(t) : Under(p, path)

docs_links(t) ==
  {<<"DEAD-LINK", l.file>> : l \in {l \in t.links : l.to # <<>> /\ ~Exists(t, l.to)}}
  \cup {<<"DEAD-ANCHOR", l.file>> :
          l \in {l \in t.links : /\ l.anchor # None
                                 /\ l.to = <<>> \/ Exists(t, l.to)
                                 /\ \A f \in Marked(t, "heading") :
                                      f[1] # LinkTarget(l) \/ f[2].name # l.anchor}}

\* Numbers must run from 0 without a gap or a duplicate; the template, 0000, has no
\* front matter to check.
Numbered(t) == {a \in t.adrs : a.number # NoNumber}
Templates(t) == {a \in t.adrs : a.number = 0 /\ a.slug = "template"}
Statuses == {"proposed", "accepted", "deprecated", "superseded"}
FrontMatterFlaw(a) == \/ a.status \notin Statuses
                      \/ ~a.dated
                      \/ a.status = "superseded" /\ a.successor = None

adr_lint(t) ==
  IF t.adrs = {} THEN {<<"NO-DIRECTORY", "docs/decisions">>} ELSE
  {<<"FILENAME", a.slug>> : a \in t.adrs \ Numbered(t)}
  \cup {<<"NUMBERING", "">> : n \in {n \in {Cardinality(Numbered(t))} :
                                       {a.number : a \in Numbered(t)} # 0 .. n - 1}}
  \cup {<<"FRONT-MATTER", a.slug>> : a \in {a \in Numbered(t) \ Templates(t) : FrontMatterFlaw(a)}}

RequiredKeys == {"extension", "extension.name", "repo", "repo.github", "repo.ref"}

description_validate(t) ==
  {<<"MISSING", k>> : k \in RequiredKeys \ t.description}
  \cup {<<"NOT-AN-ARRAY", k>> : k \in t.description \cap {"maintainers: not a list"}}

\* names: "construct" when the row quotes a construct of the design docs, "forward"
\* when it only has the shape of a registry name, None otherwise.  issues is the set
\* of plan keys some issue carries, or Offline.
coverage_check(t, issues) ==
  {<<"NAMES-NOTHING", r>> : r \in {r \in t.coverage : r.where \in {"K", "K+", "P"} /\ r.names = None}}
  \cup {<<"NO-CLASS", r>> : r \in {r \in t.coverage : r.class # None /\ r.class \notin t.classes}}
  \cup {<<"PLAN-KEY", k>> : k \in IF issues = Offline THEN t.planKeys ELSE t.planKeys \ issues}
================================================================================
