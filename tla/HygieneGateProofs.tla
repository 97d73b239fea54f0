--------------------------- MODULE HygieneGateProofs ---------------------------
(***************************************************************************)
(* What main never loses, for every repository, every set of pull requests *)
(* and every change they make: proofs about HygieneGate.                   *)
(*                                                                         *)
(* The scans are never expanded, but for the two facts the argument needs: *)
(* closing issues can only make forbid-ledger fail (LedgerMonotone), and   *)
(* what a green constitution check says (ConstitutionMeaning).  The rest   *)
(* is about who sees which main: a job that ran against main as it is now  *)
(* ran on the head itself (MergedSelf), and a pull request that is not up  *)
(* to date when main moves stays so until its head changes.                *)
(***************************************************************************)
EXTENDS HygieneGate, TLAPS

Items == (UNION {FirstTree[s] : s \in Sections}) \cup {c[2] : c \in UNION Changes}
Trees == {t \in [Sections -> SUBSET Items] : t.version \subseteq Nat}

Records == [state : {"absent", "open", "merged"}, base : Nat, head : Trees, pushes : Nat,
            check : {"none", "running", "green", "red"}, ref : Trees, at : Nat]

TypeInv == /\ history \in Seq(Trees) /\ Len(history) >= 1
           /\ openIssues \subseteq Issues
           /\ pr \in [PullRequests -> Records]
           /\ \A p \in PullRequests : /\ pr[p].base <= Len(history) /\ pr[p].at <= Len(history)
                                      /\ pr[p].pushes <= MaxPushes
                                      /\ pr[p].state = "open" => pr[p].base >= 1
                                      /\ pr[p].check # "none" => pr[p].state = "open"

\* What a running job has checked out.
JobsSeeTheMerge ==
  \A p \in PullRequests :
    pr[p].check = "running" =>
      /\ pr[p].base <= pr[p].at
      /\ pr[p].ref = Merged(history[pr[p].base], history[pr[p].at], pr[p].head)

IInv == /\ TypeInv
        /\ JobsSeeTheMerge
        /\ MainPassesEveryScan
        /\ GreenChecksAreCurrent
        /\ AmendmentsAreRatified

--------------------------------------------------------------------------------
\* Merging main into a head that forks from it changes nothing.
LEMMA MergedSelf ==
  ASSUME NEW t \in Trees, NEW h \in Trees
  PROVE  Merged(t, t, h) = h
<1>1. \A s \in Sections : (t[s] \cap h[s]) \cup (t[s] \ t[s]) \cup (h[s] \ t[s]) = h[s]
  OBVIOUS
<1>2. h = [s \in Sections |-> h[s]]
  BY DEF Trees
<1> QED
  BY <1>1, <1>2 DEF Merged

\* What a push or a merge makes of trees is a tree.
LEMMA ChangedType ==
  ASSUME NEW t \in Trees, NEW change \in Changes
  PROVE  Changed(t, change) \in Trees
<1> DEFINE flipped(s) == {c[2] : c \in {c \in change : c[1] = s}}
<1>1. \A s \in Sections : flipped(s) \subseteq Items
  BY DEF Items
<1>2. \A s \in Sections : t[s] \subseteq Items
  BY DEF Trees
<1>3. Changed(t, change) = [s \in Sections |-> (t[s] \ flipped(s)) \cup (flipped(s) \ t[s])]
  BY DEF Changed
<1>4. Changed(t, change) \in [Sections -> SUBSET Items]
  BY <1>1, <1>2, <1>3
<1>5. flipped("version") \subseteq Nat
  BY ChangesAssumption
<1>6. Changed(t, change).version \subseteq Nat
  BY <1>3, <1>5, FirstTreeAssumption DEF Trees
<1> QED
  BY <1>4, <1>6 DEF Trees

LEMMA MergedType ==
  ASSUME NEW f \in Trees, NEW t \in Trees, NEW h \in Trees
  PROVE  Merged(f, t, h) \in Trees
BY FirstTreeAssumption DEF Merged, Trees

LEMMA NoTreeType == NoTree \in Trees
BY FirstTreeAssumption DEF NoTree, Trees

LEMMA FirstTreeType == FirstTree \in Trees
<1>1. \A s \in Sections : FirstTree[s] \subseteq Items
  BY DEF Items
<1>2. FirstTree = [s \in Sections |-> FirstTree[s]]
  BY FirstTreeAssumption DEF IsTree
<1>3. FirstTree \in [Sections -> SUBSET Items]
  BY <1>1, <1>2
<1> QED
  BY <1>3, FirstTreeAssumption DEF Trees, IsTree

LEMMA AbsentType == Absent \in Records
BY NoTreeType DEF Absent, Records

\* A tree whose deferrals pass with fewer issues open, or with none known to be,
\* passes with all of them open.
LEMMA LedgerMonotone ==
  ASSUME NEW t, NEW open, open = Offline \/ open \subseteq Issues, forbid_ledger(t, open) = {}
  PROVE  forbid_ledger(t, Issues) = {}
<1>1. \A issue : IssueVerdict(issue, open) = "OPEN" => IssueVerdict(issue, Issues) = "OPEN"
  <2> TAKE issue
  <2> HAVE IssueVerdict(issue, open) = "OPEN"
  <2>1. issue # None /\ open # Offline /\ issue \in open
    BY DEF IssueVerdict
  <2>2. issue \in Issues
    BY <2>1
  <2>3. Issues # Offline
    BY OfflineAssumption
  <2> QED
    BY <2>1, <2>2, <2>3 DEF IssueVerdict
<1>2. check_deferral_comments(t, open) = {}
  BY DEF forbid_ledger
<1>3. \A f \in Marked(t, "todo") : InCommentScope(f) => IssueVerdict(f[2].name, open) = "OPEN"
  BY <1>2 DEF check_deferral_comments
<1>4. check_deferral_comments(t, Issues) = {}
  BY <1>1, <1>3 DEF check_deferral_comments
<1> QED
  BY <1>4 DEF forbid_ledger

LEMMA GreenMonotone ==
  ASSUME NEW fork, NEW base, NEW head, NEW open, open = Offline \/ open \subseteq Issues,
         HygieneGreen(fork, base, head, open)
  PROVE  HygieneGreen(fork, base, head, Issues)
<1>1. forbid_ledger(head, Issues) = {}
  BY LedgerMonotone DEF HygieneGreen, TreeScansGreen
<1> QED
  BY <1>1 DEF HygieneGreen, TreeScansGreen

\* A job that cannot fetch main does not pass.
LEMMA NoBaseIsRed ==
  ASSUME NEW fork, NEW head, NEW open
  PROVE  ~HygieneGreen(fork, <<>>, head, open)
BY DEF HygieneGreen, ConstitutionViolations

\* What a green constitution check against a tree says of the head.
LEMMA ConstitutionMeaning ==
  ASSUME NEW t \in Trees, NEW h \in Trees,
         constitution_check(t, t, h) = {},
         ConstitutionText(t) # ConstitutionText(h)
  PROVE  /\ version_of(h) > version_of(t)
         /\ \E a \in h.adrs \ t.adrs :
              /\ a.status = "accepted"
              /\ changed_articles(t, h) # {} => a.articles \cap changed_articles(t, h) # {}
<1>1. /\ version_of(h) # NoVersion
      /\ version_of(t) # NoVersion => version_greater(version_of(h), version_of(t))
      /\ AcceptedAdded(t, h) # {}
      /\ AcceptedAdded(t, h) # {} /\ changed_articles(t, h) # {} =>
           \E a \in AcceptedAdded(t, h) : a.articles \cap changed_articles(t, h) # {}
  BY DEF constitution_check
<1>2. AcceptedAdded(t, h) \subseteq {a \in h.adrs \ t.adrs : a.status = "accepted"}
  BY DEF AcceptedAdded, added_adrs
<1>3. h.version \subseteq Nat
  BY DEF Trees
<1>4. version_of(h) > version_of(t)
  <2>1. h.version # {} => version_of(h) \in Nat
    BY <1>3 DEF version_of
  <2>2. h.version # {}
    BY <1>1 DEF version_of
  <2> QED
    BY <1>1, <2>1, <2>2 DEF version_greater, NoVersion
<1>5. CASE changed_articles(t, h) = {}
  BY <1>1, <1>2, <1>4, <1>5
<1>6. CASE changed_articles(t, h) # {}
  BY <1>1, <1>2, <1>4, <1>6
<1> QED
  BY <1>5, <1>6

--------------------------------------------------------------------------------
LEMMA InitIInv == Init => IInv
<1> SUFFICES ASSUME Init PROVE IInv
  OBVIOUS
<1>1. history = <<FirstTree>> /\ Len(history) = 1 /\ Tip = FirstTree
  BY DEF Init, Tip, Last
<1>2. \A p \in PullRequests : pr[p] = Absent
  BY DEF Init
<1>3. TypeInv
  <2>1. history \in Seq(Trees)
    BY <1>1, FirstTreeType
  <2>2. pr \in [PullRequests -> Records]
    BY AbsentType DEF Init
  <2> QED
    BY <1>1, <1>2, <2>1, <2>2, MaxPushesAssumption DEF Init, TypeInv, Absent
<1>4. MainPassesEveryScan
  BY <1>1, FirstTreeAssumption DEF MainPassesEveryScan
<1>5. JobsSeeTheMerge /\ GreenChecksAreCurrent
  BY <1>2 DEF JobsSeeTheMerge, GreenChecksAreCurrent, Absent
<1>6. AmendmentsAreRatified
  BY <1>1 DEF AmendmentsAreRatified
<1> QED
  BY <1>3, <1>4, <1>5, <1>6 DEF IInv

\* Trees that the invariant speaks of.
LEMMA TreesOf ==
  ASSUME TypeInv
  PROVE  /\ Len(history) \in Nat /\ \A k \in 1 .. Len(history) : history[k] \in Trees
         /\ Tip \in Trees /\ Tip = history[Len(history)]
         /\ \A p \in PullRequests : pr[p] \in Records /\ pr[p].head \in Trees /\ pr[p].ref \in Trees
BY DEF TypeInv, Records, Tip, Last

\* A step that gives one pull request a new head and no check.
LEMMA NewHeadStep ==
  ASSUME IInv, NEW p \in PullRequests, NEW head \in Trees, NEW base \in 1 .. Len(history),
         NEW pushes \in 0 .. MaxPushes,
         NewHead(p, head, base, pushes), UNCHANGED <<history, openIssues>>
  PROVE  IInv'
<1> DEFINE fresh == [Absent EXCEPT !.state = "open", !.head = head, !.base = base, !.pushes = pushes]
<1> USE TreesOf DEF IInv
<1>0. base \in Nat /\ pushes \in Nat
  BY MaxPushesAssumption
<1>1. fresh \in Records /\ fresh.check = "none" /\ fresh.base = base /\ fresh.at = 0
      /\ fresh.pushes = pushes /\ fresh.state = "open"
  BY <1>0, AbsentType DEF Absent, Records
<1>2. pr' = [pr EXCEPT ![p] = fresh]
  BY DEF NewHead
<1> HIDE DEF fresh
<1>3. pr' \in [PullRequests -> Records] /\ pr'[p] = fresh
      /\ \A q \in PullRequests \ {p} : pr'[q] = pr[q]
  BY <1>1, <1>2 DEF TypeInv
<1>4. TypeInv'
  BY <1>1, <1>3, MaxPushesAssumption DEF TypeInv
<1>5. JobsSeeTheMerge'
  BY <1>1, <1>3 DEF JobsSeeTheMerge
<1>6. Tip' = Tip
  BY DEF Tip
<1>7. MainPassesEveryScan' /\ AmendmentsAreRatified'
  BY <1>6 DEF MainPassesEveryScan, AmendmentsAreRatified
<1>8. GreenChecksAreCurrent'
  BY <1>1, <1>3, <1>6 DEF GreenChecksAreCurrent
<1> QED
  BY <1>4, <1>5, <1>7, <1>8

LEMMA OpenStep ==
  ASSUME IInv, NEW p \in PullRequests, Open(p)
  PROVE  IInv'
<1>1. PICK c \in Changes : NewHead(p, Changed(Tip, c), Len(history), 1)
  BY DEF Open
<1>2. Changed(Tip, c) \in Trees /\ Len(history) \in 1 .. Len(history) /\ 1 \in 0 .. MaxPushes
  BY TreesOf, ChangedType, MaxPushesAssumption DEF IInv, TypeInv
<1> QED
  BY <1>1, <1>2, NewHeadStep DEF Open

LEMMA PushStep ==
  ASSUME IInv, NEW p \in PullRequests, Push(p)
  PROVE  IInv'
<1>1. PICK c \in Changes : NewHead(p, Changed(pr[p].head, c), pr[p].base, pr[p].pushes + 1)
  BY DEF Push
<1>2. Changed(pr[p].head, c) \in Trees
  BY TreesOf, ChangedType DEF IInv
<1>3. pr[p].base \in 1 .. Len(history) /\ pr[p].pushes + 1 \in 0 .. MaxPushes
  BY TreesOf, MaxPushesAssumption DEF IInv, TypeInv, Records, Push
<1> QED
  BY <1>1, <1>2, <1>3, NewHeadStep DEF Push

LEMMA UpdateBranchStep ==
  ASSUME IInv, NEW p \in PullRequests, UpdateBranch(p)
  PROVE  IInv'
<1>1. pr[p].base \in 1 .. Len(history) /\ pr[p].pushes \in 0 .. MaxPushes
      /\ Len(history) \in 1 .. Len(history)
  BY TreesOf, MaxPushesAssumption DEF IInv, TypeInv, Records, UpdateBranch
<1>2. Merged(history[pr[p].base], Tip, pr[p].head) \in Trees
  BY <1>1, TreesOf, MergedType DEF IInv
<1> QED
  BY <1>1, <1>2, NewHeadStep DEF UpdateBranch

LEMMA StartJobStep ==
  ASSUME IInv, NEW p \in PullRequests, StartJob(p)
  PROVE  IInv'
<1> DEFINE ref == Merged(history[pr[p].base], Tip, pr[p].head)
           job == [pr[p] EXCEPT !.check = "running", !.at = Len(history), !.ref = ref]
<1> USE TreesOf DEF IInv
<1>1. pr[p].base \in 1 .. Len(history)
  BY DEF TypeInv, Records, StartJob
<1>2. ref \in Trees
  BY <1>1, MergedType
<1>3. pr' = [pr EXCEPT ![p] = job]
  BY DEF StartJob
<1>4. job \in Records /\ job.check = "running" /\ job.at = Len(history) /\ job.ref = ref
      /\ job.base = pr[p].base /\ job.head = pr[p].head /\ job.state = "open"
      /\ job.pushes = pr[p].pushes
  BY <1>2 DEF Records, StartJob
<1> HIDE DEF job, ref
<1>5. pr' \in [PullRequests -> Records] /\ pr'[p] = job
      /\ \A q \in PullRequests \ {p} : pr'[q] = pr[q]
  BY <1>3, <1>4 DEF TypeInv
<1>6. UNCHANGED <<history, openIssues>> /\ Tip' = Tip
  BY DEF StartJob, Tip
<1>7. TypeInv'
  BY <1>1, <1>4, <1>5, <1>6 DEF TypeInv
<1>8. JobsSeeTheMerge'
  BY <1>1, <1>4, <1>5, <1>6 DEF JobsSeeTheMerge, ref
<1>9. MainPassesEveryScan' /\ AmendmentsAreRatified'
  BY <1>6 DEF MainPassesEveryScan, AmendmentsAreRatified
<1>10. GreenChecksAreCurrent'
  BY <1>4, <1>5, <1>6 DEF GreenChecksAreCurrent
<1> QED
  BY <1>7, <1>8, <1>9, <1>10

\* The heart of the matter: a job that saw main as it is now saw the head itself.
LEMMA FinishJobStep ==
  ASSUME IInv, NEW p \in PullRequests, FinishJob(p)
  PROVE  IInv'
<1> USE TreesOf DEF IInv
<1>1. PICK online \in BOOLEAN :
        LET open  == IF online THEN openIssues ELSE Offline
            green == HygieneGreen(history[pr[p].at], resolveBase(online), pr[p].ref, open)
        IN  pr' = [pr EXCEPT ![p].check = IF green THEN "green" ELSE "red",
                             ![p].ref = NoTree, ![p].at = 0]
  BY DEF FinishJob
<1> DEFINE open == IF online THEN openIssues ELSE Offline
           green == HygieneGreen(history[pr[p].at], resolveBase(online), pr[p].ref, open)
           done == [pr[p] EXCEPT !.check = IF green THEN "green" ELSE "red",
                                 !.ref = NoTree, !.at = 0]
<1>2. pr' = [pr EXCEPT ![p] = done]
  BY <1>1
<1>3. done \in Records /\ done.check = (IF green THEN "green" ELSE "red") /\ done.at = 0
      /\ done.base = pr[p].base /\ done.head = pr[p].head /\ done.state = pr[p].state
      /\ done.pushes = pr[p].pushes
  BY NoTreeType DEF Records
<1>4. UNCHANGED <<history, openIssues>> /\ Tip' = Tip /\ pr[p].check = "running"
  BY DEF FinishJob, Tip
<1>5. ASSUME green, pr[p].base = Len(history)
      PROVE  HygieneGreen(Tip, <<Tip>>, pr[p].head, Issues)
  <2>1. pr[p].at = Len(history) /\ history[pr[p].at] = Tip /\ history[pr[p].base] = Tip
    BY <1>4, <1>5 DEF JobsSeeTheMerge, TypeInv, Records
  <2>2. pr[p].ref = pr[p].head
    BY <1>4, <2>1, MergedSelf DEF JobsSeeTheMerge
  <2>3. resolveBase(online) = <<Tip>>
    BY <1>5, NoBaseIsRed DEF resolveBase
  <2>4. open = Offline \/ open \subseteq Issues
    BY DEF TypeInv
  <2>5. HygieneGreen(Tip, <<Tip>>, pr[p].head, open)
    BY <1>5, <2>1, <2>2, <2>3
  <2> HIDE DEF open
  <2> QED
    BY <2>4, <2>5, GreenMonotone
<1> HIDE DEF done, green
<1>6. pr' \in [PullRequests -> Records] /\ pr'[p] = done
      /\ \A q \in PullRequests \ {p} : pr'[q] = pr[q]
  BY <1>2, <1>3 DEF TypeInv
<1>7. TypeInv'
  BY <1>3, <1>4, <1>6 DEF TypeInv
<1>8. JobsSeeTheMerge'
  BY <1>3, <1>4, <1>6 DEF JobsSeeTheMerge
<1>9. MainPassesEveryScan' /\ AmendmentsAreRatified'
  BY <1>4 DEF MainPassesEveryScan, AmendmentsAreRatified
<1>10. GreenChecksAreCurrent'
  BY <1>3, <1>4, <1>5, <1>6 DEF GreenChecksAreCurrent
<1> QED
  BY <1>7, <1>8, <1>9, <1>10

LEMMA MergeStep ==
  ASSUME IInv, NEW p \in PullRequests, Merge(p)
  PROVE  IInv'
<1> DEFINE merged == [Absent EXCEPT !.state = "merged"]
           head == pr[p].head
           n == Len(history)
<1> USE TreesOf DEF IInv
<1>1. HygieneGreen(Tip, <<Tip>>, head, Issues)
  BY DEF Merge, Mergeable, GreenChecksAreCurrent
<1>2. history' = Append(history, head) /\ head \in Trees /\ pr' = [pr EXCEPT ![p] = merged]
      /\ openIssues' = openIssues
  BY DEF Merge
<1>3. history' \in Seq(Trees) /\ Len(history') = n + 1 /\ history'[n + 1] = head
      /\ (\A k \in 1 .. n : history'[k] = history[k]) /\ Tip' = head
  BY <1>2 DEF TypeInv, Tip, Last
<1>4. merged \in Records /\ merged.check = "none" /\ merged.state = "merged" /\ merged.base = 0
      /\ merged.at = 0 /\ merged.pushes = 0
  BY AbsentType DEF Absent, Records
<1> HIDE DEF merged
<1>5. pr' \in [PullRequests -> Records] /\ pr'[p] = merged
      /\ \A q \in PullRequests \ {p} : pr'[q] = pr[q]
  BY <1>2, <1>4 DEF TypeInv
<1>6. TypeInv'
  <2>1. \A q \in PullRequests : pr'[q].base <= n /\ pr'[q].at <= n /\ pr'[q].pushes <= MaxPushes
                                /\ (pr'[q].state = "open" => pr'[q].base >= 1)
                                /\ (pr'[q].check # "none" => pr'[q].state = "open")
    BY <1>4, <1>5, MaxPushesAssumption DEF TypeInv
  <2>2. \A q \in PullRequests : pr'[q].base \in Nat /\ pr'[q].at \in Nat
    BY <1>5 DEF Records
  <2>3. openIssues' \subseteq Issues
    BY <1>2 DEF TypeInv
  <2>4. \A q \in PullRequests : pr'[q].base <= n + 1 /\ pr'[q].at <= n + 1
    BY <2>1, <2>2
  <2> QED
    BY <1>3, <1>5, <2>1, <2>3, <2>4 DEF TypeInv
<1>7. JobsSeeTheMerge'
  <2> SUFFICES ASSUME NEW q \in PullRequests, pr'[q].check = "running"
               PROVE  /\ pr'[q].base <= pr'[q].at
                      /\ pr'[q].ref = Merged(history'[pr'[q].base], history'[pr'[q].at], pr'[q].head)
    BY DEF JobsSeeTheMerge, Merged
  <2>1. q # p /\ pr'[q] = pr[q]
    BY <1>4, <1>5
  <2>2. pr[q].base <= pr[q].at /\ pr[q].ref = Merged(history[pr[q].base], history[pr[q].at], pr[q].head)
    BY <2>1 DEF JobsSeeTheMerge
  <2>3. pr[q].base \in 1 .. n /\ pr[q].at \in 1 .. n
    BY <2>1, <2>2 DEF TypeInv, Records
  <2> QED
    BY <1>3, <2>1, <2>2, <2>3
<1>8. MainPassesEveryScan'
  BY <1>1, <1>3 DEF MainPassesEveryScan, HygieneGreen
<1>9. GreenChecksAreCurrent'
  <2>1. \A q \in PullRequests : pr'[q].check = "green" => pr'[q].base <= n /\ pr'[q].base \in Nat
    BY <1>4, <1>5 DEF TypeInv, Records
  <2> QED
    BY <1>3, <2>1 DEF GreenChecksAreCurrent
<1>10. AmendmentsAreRatified'
  <2> SUFFICES ASSUME NEW k \in 2 .. Len(history'),
                      ConstitutionText(history'[k - 1]) # ConstitutionText(history'[k])
               PROVE  /\ version_of(history'[k]) > version_of(history'[k - 1])
                      /\ \E a \in history'[k].adrs \ history'[k - 1].adrs :
                           /\ a.status = "accepted"
                           /\ changed_articles(history'[k - 1], history'[k]) # {} =>
                                a.articles \cap changed_articles(history'[k - 1], history'[k]) # {}
    BY DEF AmendmentsAreRatified
  <2>1. CASE k \in 2 .. n
    <3>1. history'[k] = history[k] /\ history'[k - 1] = history[k - 1]
      BY <1>3, <2>1
    <3> QED
      BY <2>1, <3>1 DEF AmendmentsAreRatified
  <2>2. CASE k = n + 1
    <3>1. history'[k] = head /\ history'[k - 1] = Tip
      BY <1>3, <2>2 DEF TypeInv
    <3>2. constitution_check(Tip, Tip, head) = {}
      BY <1>1 DEF HygieneGreen, ConstitutionViolations
    <3> QED
      BY <1>2, <3>1, <3>2, ConstitutionMeaning, ZenonT(60)
  <2> QED
    BY <1>3, <2>1, <2>2
<1> QED
  BY <1>6, <1>7, <1>8, <1>9, <1>10

LEMMA CloseIssueStep ==
  ASSUME IInv, CloseIssue
  PROVE  IInv'
<1>1. UNCHANGED <<history, pr>> /\ openIssues' \subseteq Issues /\ Tip' = Tip
  BY DEF CloseIssue, IInv, TypeInv, Tip
<1>2. TypeInv'
  BY <1>1 DEF IInv, TypeInv
<1> QED
  BY <1>1, <1>2 DEF IInv, JobsSeeTheMerge, MainPassesEveryScan, GreenChecksAreCurrent,
                    AmendmentsAreRatified

LEMMA NextIInv == IInv /\ [Next]_vars => IInv'
<1> SUFFICES ASSUME IInv, [Next]_vars PROVE IInv'
  OBVIOUS
<1>1. CASE Next
  BY <1>1, OpenStep, PushStep, UpdateBranchStep, StartJobStep, FinishJobStep, MergeStep, CloseIssueStep
     DEF Next
<1>2. CASE UNCHANGED vars
  BY <1>2 DEF vars, IInv, TypeInv, JobsSeeTheMerge, MainPassesEveryScan, GreenChecksAreCurrent,
              AmendmentsAreRatified, Tip
<1> QED
  BY <1>1, <1>2

LEMMA SpecIInv == Spec => []IInv
<1> QED
  BY InitIInv, NextIInv, PTL DEF Spec

--------------------------------------------------------------------------------
(* The state stays well formed, for every number of pull requests and pushes. *)
THEOREM TypeCorrect == Spec => []TypeOK
<1>1. IInv => TypeOK
  <2> SUFFICES ASSUME IInv PROVE TypeOK
    OBVIOUS
  <2>1. \A t \in Trees : IsTree(t)
    BY DEF Trees, IsTree
  <2> QED
    BY <2>1, TreesOf, MaxPushesAssumption DEF IInv, TypeInv, TypeOK, Records
<1> QED
  BY <1>1, SpecIInv, PTL

(* Main passes every scan whatever the pull requests change, in whatever    *)
(* order they are opened, pushed to, checked, updated and merged, provided  *)
(* the tree it started from does.                                           *)
THEOREM MainStaysGreen == Spec => []MainPassesEveryScan
<1>1. IInv => MainPassesEveryScan
  BY DEF IInv
<1> QED
  BY <1>1, SpecIInv, PTL

(* A green check on an up-to-date head is a verdict on that head. *)
THEOREM ChecksAreCurrent == Spec => []GreenChecksAreCurrent
<1>1. IInv => GreenChecksAreCurrent
  BY DEF IInv
<1> QED
  BY <1>1, SpecIInv, PTL

(* Every change of main's constitution has a greater version and, where an  *)
(* article changed, a new accepted ADR that names it.                       *)
THEOREM EveryAmendmentRatified == Spec => []AmendmentsAreRatified
<1>1. IInv => AmendmentsAreRatified
  BY DEF IInv
<1> QED
  BY <1>1, SpecIInv, PTL
================================================================================
