--------------------------- MODULE MergeGateProofs ---------------------------
(***************************************************************************)
(* Theorems about MergeGate, for every set of edits and lanes, every       *)
(* schedule of pushes, reviews and builds, and every bound.                *)
(***************************************************************************)
EXTENDS MergeGate, InductionLemmas

-----------------------------------------------------------------------------
(* The inductive invariant *)

Review == [fresh : {TRUE}, at : Nat]

PrType ==
  pr \in [open : BOOLEAN, head : SUBSET Edits, base : Nat, pushes : Nat,
          committedAt : Nat, pushedAt : Nat, mergedAt : Nat,
          check : [job : {"none", "running", "red", "green"},
                   ref : SUBSET Edits, at : Nat]]

GateType ==
  /\ posts \in SUBSET Review
  /\ gate \in [step : {"idle", "viewed", "passed"}, posts : SUBSET Review,
               lastCommitAt : Nat, mergedAt : Nat, pushes : Nat]

TypeInv == TypeOK /\ PrType /\ GateType

\* What a run of the gate has seen is still so unless a push overtook it, and
\* none overtakes a run that saw the merge.
GateInv ==
  /\ gate.step = "viewed" /\ gate.pushes = pr.pushes =>
       gate.lastCommitAt = pr.committedAt
  /\ gate.mergedAt # NoDate =>
       gate.mergedAt = pr.mergedAt /\ gate.pushes = pr.pushes

\* The merge of the head with main's at-th commit.
MergeAt(at) == Merged(history[pr.base], history[at], pr.head)

\* The build-test job works on the merge of the head with some commit of main
\* since the fork; a green job found it built, or found no file it lists relevant.
CheckInv ==
  /\ pr.check.job = "running" =>
       /\ pr.check.at \in pr.base .. Len(history)
       /\ pr.check.ref = MergeAt(pr.check.at)
  /\ pr.check.job = "green" =>
       \E at \in pr.base .. Len(history) :
         \/ OnlyMovesOut(history[at], MergeAt(at))
         \/ Source(MergeAt(at)) \in built

-----------------------------------------------------------------------------
(* Type correctness *)

LEMMA Bounds == MaxTime \in Nat /\ MaxPushes \in Nat /\ MaxMain \in Nat
  BY BoundsAssumption

LEMMA TreesClosed ==
  \A a, b, c \in SUBSET Edits :
    Toggled(a, b) \in SUBSET Edits /\ Merged(a, b, c) \in SUBSET Edits
  BY DEF Toggled, Merged

LEMMA HistoryFacts ==
  ASSUME TypeInv
  PROVE  /\ Len(history) \in Nat \ {0} /\ Len(history) <= MaxMain
         /\ pr.base \in 1 .. Len(history)
         /\ \A i \in 1 .. Len(history) : history[i] \in SUBSET Edits
         /\ Tip = history[Len(history)] /\ Tip \in SUBSET Edits
         /\ pr.head \in SUBSET Edits
  BY DEF TypeInv, TypeOK, Tip, Last

LEMMA HistoryGrows ==
  ASSUME TypeInv, NEW c \in SUBSET Edits, history' = Append(history, c)
  PROVE  /\ history' \in Seq(SUBSET Edits) /\ Len(history') = Len(history) + 1
         /\ \A i \in 1 .. Len(history) : history'[i] = history[i]
         /\ Tip' = c
  BY DEF TypeInv, TypeOK, Tip, Last

\* What the pull request's fields are, each on its own.
LEMMA PrFields ==
  ASSUME TypeInv
  PROVE  /\ pr.open \in BOOLEAN /\ pr.head \in SUBSET Edits /\ pr.base \in Nat
         /\ pr.pushes \in Nat /\ pr.committedAt \in Nat /\ pr.pushedAt \in Nat
         /\ pr.mergedAt \in Nat /\ now \in Nat
         /\ pr.check.job \in {"none", "running", "red", "green"}
         /\ pr.check.ref \in SUBSET Edits /\ pr.check.at \in Nat
  BY BoundsAssumption DEF TypeInv, TypeOK, PrType

LEMMA UncheckedType ==
  Unchecked \in [job : {"none", "running", "red", "green"}, ref : SUBSET Edits, at : Nat]
  BY DEF Unchecked

LEMMA TypeInit == Init => TypeInv
  <1> SUFFICES ASSUME Init PROVE TypeInv
      OBVIOUS
  <1>1. PICK edits \in SUBSET Edits :
          pr = [open |-> TRUE, head |-> edits, base |-> 1, pushes |-> 1, committedAt |-> 1,
                pushedAt |-> 1, mergedAt |-> NoDate, check |-> Unchecked]
    BY DEF Init
  <1>2. history \in Seq(SUBSET Edits) /\ Len(history) = 1
    BY DEF Init
  <1>3. PrType
    BY <1>1, UncheckedType DEF PrType, NoDate
  <1>4. GateType
    BY DEF Init, GateType, NoRun, NoDate
  <1>5. TypeOK
    <2>1. 1 \in 1 .. MaxTime /\ 1 \in 1 .. MaxPushes /\ 1 \in 1 .. MaxMain
      BY BoundsAssumption
    <2>2. /\ pr.head \subseteq Edits /\ pr.base \in 1 .. Len(history)
          /\ pr.pushes \in 1 .. MaxPushes /\ pr.committedAt \in 1 .. pr.pushedAt
          /\ pr.pushedAt <= now /\ pr.mergedAt \in 0 .. now
          /\ pr.open <=> pr.mergedAt = NoDate
      BY <1>1, <1>2, <2>1 DEF Init, NoDate
    <2>3. gate.posts \subseteq posts /\ gate.pushes <= pr.pushes
      BY <1>1 DEF Init, NoRun
    <2> QED
      BY <1>2, <2>1, <2>2, <2>3 DEF Init, TypeOK
  <1> QED
    BY <1>3, <1>4, <1>5 DEF TypeInv

\* What a push and an update of the branch have in common: the head and its
\* dates are new, the job's result is void, and main stays as it is.
LEMMA PushEffect ==
  ASSUME TypeInv, Push \/ UpdateBranch
  PROVE  /\ pr.open /\ pr.pushes < MaxPushes /\ PrType'
         /\ pr'.open = pr.open /\ pr'.head \in SUBSET Edits
         /\ pr'.base \in 1 .. Len(history) /\ pr'.pushes = pr.pushes + 1
         /\ pr'.committedAt \in pr.committedAt .. now
         /\ pr'.pushedAt = now /\ pr'.mergedAt = pr.mergedAt
         /\ pr'.check = Unchecked
         /\ UNCHANGED <<now, history, posts, gate, built, required, greenAt, owner>>
  <1>1. /\ now \in pr.committedAt .. now /\ now \in Nat
        /\ \A date \in 1 .. now : date >= pr.committedAt => date \in pr.committedAt .. now
        /\ pr.pushes + 1 \in Nat
    BY PrFields DEF TypeInv, TypeOK
  <1>2. CASE Push
    <2>1. PICK edits \in SUBSET Edits, date \in 1 .. now :
            /\ date >= pr.committedAt
            /\ pr' = [pr EXCEPT !.head = Toggled(pr.head, edits), !.pushes = pr.pushes + 1,
                                !.committedAt = date, !.pushedAt = now, !.check = Unchecked]
      BY <1>2 DEF Push
    <2> DEFINE head == Toggled(pr.head, edits)
    <2>2. head \in SUBSET Edits /\ date \in Nat /\ date \in pr.committedAt .. now
      <3>1. head \in SUBSET Edits
        BY TreesClosed, HistoryFacts
      <3> QED
        BY <3>1, <1>1, <2>1
    <2> HIDE DEF head
    <2>3. PrType'
      BY <1>1, <2>1, <2>2, UncheckedType DEF TypeInv, PrType, head
    <2>4. /\ pr'.open = pr.open /\ pr'.head = head /\ pr'.base = pr.base
          /\ pr'.pushes = pr.pushes + 1 /\ pr'.committedAt = date
          /\ pr'.pushedAt = now /\ pr'.mergedAt = pr.mergedAt /\ pr'.check = Unchecked
      BY <2>1 DEF TypeInv, PrType, head
    <2> QED
      BY <1>2, <2>1, <2>2, <2>3, <2>4, HistoryFacts DEF Push
  <1>3. CASE UpdateBranch
    <2> DEFINE head == Merged(history[pr.base], Tip, pr.head)
               tip == Len(history)
    <2>1. pr' = [pr EXCEPT !.head = head, !.base = tip, !.pushes = pr.pushes + 1,
                           !.committedAt = now, !.pushedAt = now, !.check = Unchecked]
      BY <1>3 DEF UpdateBranch
    <2>2. head \in SUBSET Edits /\ tip \in Nat /\ tip \in 1 .. Len(history)
      <3>1. history[pr.base] \in SUBSET Edits /\ Tip \in SUBSET Edits /\ pr.head \in SUBSET Edits
        BY HistoryFacts
      <3>2. head \in SUBSET Edits
        BY <3>1, TreesClosed
      <3> QED
        BY <3>2, HistoryFacts
    <2> HIDE DEF head, tip
    <2>3. PrType'
      BY <1>1, <2>1, <2>2, UncheckedType DEF TypeInv, PrType
    <2>4. /\ pr'.open = pr.open /\ pr'.head = head /\ pr'.base = tip
          /\ pr'.pushes = pr.pushes + 1 /\ pr'.committedAt = now
          /\ pr'.pushedAt = now /\ pr'.mergedAt = pr.mergedAt /\ pr'.check = Unchecked
      BY <2>1 DEF TypeInv, PrType
    <2> QED
      BY <1>1, <1>3, <2>2, <2>3, <2>4 DEF UpdateBranch
  <1> QED
    BY <1>2, <1>3

LEMMA TypePushed == TypeInv /\ (Push \/ UpdateBranch) => TypeInv'
  <1> SUFFICES ASSUME TypeInv, Push \/ UpdateBranch PROVE TypeInv'
      OBVIOUS
  <1>1. GateType'
    BY PushEffect DEF TypeInv, GateType
  <1>2. /\ pr.pushes + 1 \in 1 .. MaxPushes /\ now <= now
        /\ \A date \in pr.committedAt .. now : date \in 1 .. now
        /\ gate.pushes <= pr.pushes + 1
    <2>1. pr.committedAt >= 1 /\ gate.pushes <= pr.pushes /\ gate.pushes \in Nat
      BY DEF TypeInv, TypeOK, GateType
    <2>2. pr.pushes < MaxPushes
      BY PushEffect
    <2> QED
      BY <2>1, <2>2, PrFields, Bounds
  <1>3. TypeOK'
    BY <1>2, PushEffect DEF TypeInv, TypeOK
  <1> QED
    BY <1>1, <1>3, PushEffect DEF TypeInv

\* The steps of the build-test job change its result alone.
LEMMA JobEffect ==
  ASSUME TypeInv, StartBuild \/ FinishBuild
  PROVE  /\ PrType' /\ pr'.open = pr.open /\ pr'.head = pr.head
         /\ pr'.base = pr.base /\ pr'.pushes = pr.pushes
         /\ pr'.committedAt = pr.committedAt /\ pr'.pushedAt = pr.pushedAt
         /\ pr'.mergedAt = pr.mergedAt
         /\ UNCHANGED <<now, history, posts, gate, required, greenAt, owner>>
  <1>1. \E check \in [job : {"none", "running", "red", "green"}, ref : SUBSET Edits, at : Nat] :
          pr' = [pr EXCEPT !.check = check]
    <2>1. CASE StartBuild
      <3> DEFINE ref == Merged(history[pr.base], Tip, pr.head)
                 at == Len(history)
      <3>1. ref \in SUBSET Edits /\ at \in Nat
        BY TreesClosed, HistoryFacts
      <3>2. pr' = [pr EXCEPT !.check = [job |-> "running", at |-> at, ref |-> ref]]
        BY <2>1 DEF StartBuild
      <3> HIDE DEF ref, at
      <3> QED
        BY <3>1, <3>2
    <2>2. CASE FinishBuild
      <3>1. PICK job \in {"red", "green"} : pr' = [pr EXCEPT !.check = [Unchecked EXCEPT !.job = job]]
        BY <2>2, Zenon DEF FinishBuild
      <3>2. [Unchecked EXCEPT !.job = job]
              \in [job : {"none", "running", "red", "green"}, ref : SUBSET Edits, at : Nat]
        BY DEF Unchecked
      <3> QED
        BY <3>1, <3>2
    <2> QED
      BY <2>1, <2>2
  <1>2. /\ PrType' /\ pr'.open = pr.open /\ pr'.head = pr.head
        /\ pr'.base = pr.base /\ pr'.pushes = pr.pushes
        /\ pr'.committedAt = pr.committedAt /\ pr'.pushedAt = pr.pushedAt
        /\ pr'.mergedAt = pr.mergedAt
    BY <1>1 DEF TypeInv, PrType
  <1> QED
    BY <1>2 DEF StartBuild, FinishBuild

LEMMA TypeJob == TypeInv /\ (StartBuild \/ FinishBuild) => TypeInv'
  BY JobEffect DEF TypeInv, TypeOK, GateType

LEMMA MergeEffect ==
  ASSUME TypeInv, Merge
  PROVE  /\ PrType' /\ pr.open /\ pr'.open = FALSE /\ pr'.head = pr.head
         /\ pr'.base = pr.base /\ pr'.pushes = pr.pushes
         /\ pr'.committedAt = pr.committedAt /\ pr'.pushedAt = pr.pushedAt
         /\ pr'.mergedAt = now /\ pr'.check = Unchecked
         /\ history' = Append(history, MergeAt(Len(history)))
         /\ MergeAt(Len(history)) \in SUBSET Edits /\ Len(history) < MaxMain
         /\ UNCHANGED <<now, posts, gate, built, required, greenAt, owner>>
  <1>1. pr' = [pr EXCEPT !.open = FALSE, !.mergedAt = now, !.check = Unchecked]
    BY DEF Merge
  <1>2. PrType'
    BY <1>1, PrFields, UncheckedType DEF TypeInv, PrType
  <1>3. /\ pr'.open = FALSE /\ pr'.head = pr.head
        /\ pr'.base = pr.base /\ pr'.pushes = pr.pushes
        /\ pr'.committedAt = pr.committedAt /\ pr'.pushedAt = pr.pushedAt
        /\ pr'.mergedAt = now /\ pr'.check = Unchecked
    BY <1>1 DEF TypeInv, PrType
  <1>4. MergeAt(Len(history)) = Merged(history[pr.base], Tip, pr.head)
    BY HistoryFacts DEF MergeAt
  <1>5. MergeAt(Len(history)) \in SUBSET Edits
    <2>1. history[pr.base] \in SUBSET Edits /\ Tip \in SUBSET Edits /\ pr.head \in SUBSET Edits
      BY HistoryFacts
    <2>2. Merged(history[pr.base], Tip, pr.head) \in SUBSET Edits
      BY <2>1, TreesClosed
    <2> QED
      BY <1>4, <2>2
  <1> QED
    BY <1>2, <1>3, <1>4, <1>5 DEF Merge

\* What was green on one of main's commits still was when main has one more.
LEMMA GreenKept == TypeInv => greenAt \in [Contexts -> 0 .. Len(history) + 1]
  <1> SUFFICES ASSUME TypeInv PROVE greenAt \in [Contexts -> 0 .. Len(history) + 1]
      OBVIOUS
  <1>1. Len(history) \in Nat /\ greenAt \in [Contexts -> 0 .. Len(history)]
    BY HistoryFacts DEF TypeInv, TypeOK
  <1>2. 0 .. Len(history) \subseteq 0 .. Len(history) + 1
    BY <1>1
  <1> QED
    BY <1>1, <1>2

LEMMA TypeMerge == TypeInv /\ Merge => TypeInv'
  <1> SUFFICES ASSUME TypeInv, Merge PROVE TypeInv'
      OBVIOUS
  <1>1. GateType'
    BY MergeEffect DEF TypeInv, GateType
  <1>2. /\ history' \in Seq(SUBSET Edits) /\ Len(history') = Len(history) + 1
        /\ Len(history') \in 1 .. MaxMain /\ pr.base \in 1 .. Len(history')
        /\ greenAt \in [Contexts -> 0 .. Len(history')]
    BY MergeEffect, HistoryGrows, HistoryFacts, GreenKept, Bounds
  <1>3. now \in 0 .. now /\ ~(now = NoDate)
    <2>1. now >= 1
      BY DEF TypeInv, TypeOK
    <2> QED
      BY <2>1, PrFields DEF NoDate
  <1>4. TypeOK'
    BY <1>2, <1>3, MergeEffect DEF TypeInv, TypeOK
  <1> QED
    BY <1>1, <1>4, MergeEffect DEF TypeInv

\* Where a diff lists no relevant file, the sources differ by files moved out alone.
LEMMA UnlistedMovesOut ==
  ASSUME NEW before, NEW after,
         \A e \in Toggled(after, before) : ~is_build_relevant(Listed(e, after))
  PROVE  OnlyMovesOut(before, after)
  <1> SUFFICES ASSUME NEW e \in Toggled(Source(before), Source(after)) PROVE MovesOut(e, after)
      BY DEF OnlyMovesOut
  <1>1. /\ e \in Toggled(after, before)
        /\ is_build_relevant(e.path) \/ is_build_relevant(e.from)
    BY DEF Source, Toggled
  <1>2. ~is_build_relevant(Listed(e, after))
    BY <1>1
  <1>3. Listed(e, after) = e.path \/ Listed(e, after) = e.from
    BY DEF Listed
  <1>4. e.from # e.path
    BY <1>1, <1>2, <1>3
  <1> QED
    BY <1>2, <1>4 DEF MovesOut

LEMMA MoveEffect ==
  ASSUME TypeInv, MainMoves
  PROVE  \E c \in SUBSET Edits :
           /\ history' = Append(history, c)
           /\ BuildTest \in required => Source(c) \in built' \/ OnlyMovesOut(Tip, c)
           /\ built \subseteq built' /\ Len(history) < MaxMain
           /\ UNCHANGED <<now, pr, posts, gate, required, greenAt, owner>>
  <1>1. PICK e \in Edits :
          /\ history' = Append(history, Toggled(Tip, {e}))
          /\ built' = IF BuildTest \in required /\ is_build_relevant(Listed(e, Toggled(Tip, {e})))
                      THEN built \cup {Source(Toggled(Tip, {e}))} ELSE built
    BY DEF MainMoves
  <1> DEFINE c == Toggled(Tip, {e})
  <1>2. c \in SUBSET Edits
    <2>1. {e} \in SUBSET Edits /\ Tip \in SUBSET Edits
      BY HistoryFacts
    <2> QED
      BY <2>1, TreesClosed
  <1>3. ~is_build_relevant(Listed(e, c)) => OnlyMovesOut(Tip, c)
    <2>1. Toggled(c, Tip) \subseteq {e}
      BY DEF Toggled
    <2> QED
      BY <2>1, UnlistedMovesOut
  <1> HIDE DEF c
  <1>4. /\ history' = Append(history, c)
        /\ built' = IF BuildTest \in required /\ is_build_relevant(Listed(e, c))
                    THEN built \cup {Source(c)} ELSE built
    BY <1>1 DEF c
  <1> QED
    BY <1>2, <1>3, <1>4 DEF MainMoves

LEMMA TypeMoves == TypeInv /\ MainMoves => TypeInv'
  <1> SUFFICES ASSUME TypeInv, MainMoves PROVE TypeInv'
      OBVIOUS
  <1>1. PICK c \in SUBSET Edits :
          /\ history' = Append(history, c) /\ Len(history) < MaxMain
          /\ UNCHANGED <<now, pr, posts, gate, required, greenAt, owner>>
    BY MoveEffect
  <1>2. /\ history' \in Seq(SUBSET Edits) /\ Len(history') = Len(history) + 1
        /\ Len(history') \in 1 .. MaxMain /\ pr.base \in 1 .. Len(history')
        /\ greenAt \in [Contexts -> 0 .. Len(history')]
    BY <1>1, HistoryGrows, HistoryFacts, GreenKept, Bounds
  <1>3. GateType' /\ PrType'
    BY <1>1 DEF TypeInv, GateType, PrType
  <1>4. TypeOK'
    BY <1>1, <1>2 DEF TypeInv, TypeOK
  <1> QED
    BY <1>3, <1>4 DEF TypeInv

LEMMA TypeTick == TypeInv /\ Tick => TypeInv'
  <1> SUFFICES ASSUME TypeInv, Tick PROVE TypeInv'
      OBVIOUS
  <1>1. now' = now + 1 /\ now < MaxTime
        /\ UNCHANGED <<history, pr, posts, gate, built, required, greenAt, owner>>
    BY DEF Tick
  <1>2. GateType' /\ PrType'
    BY <1>1 DEF TypeInv, GateType, PrType
  <1>3. /\ now + 1 \in 1 .. MaxTime /\ pr.pushedAt <= now + 1 /\ pr.mergedAt \in 0 .. now + 1
        /\ 1 .. now \subseteq 1 .. now + 1
    <2>1. /\ now \in 1 .. MaxTime /\ pr.pushedAt \in Nat /\ pr.pushedAt <= now
          /\ pr.mergedAt \in 0 .. now
      BY PrFields DEF TypeInv, TypeOK
    <2> QED
      BY <1>1, <2>1, Bounds
  <1>4. TypeOK'
    BY <1>1, <1>3 DEF TypeInv, TypeOK
  <1> QED
    BY <1>2, <1>4 DEF TypeInv

LEMMA TypeReview == TypeInv /\ PostReview => TypeInv'
  <1> SUFFICES ASSUME TypeInv, PostReview PROVE TypeInv'
      OBVIOUS
  <1> DEFINE r == [fresh |-> TRUE, at |-> now]
  <1>1. posts' = posts \cup {r}
        /\ UNCHANGED <<now, history, pr, gate, built, required, greenAt, owner>>
    BY DEF PostReview
  <1>2. r \in Review /\ r.at = now /\ now \in 1 .. now
    BY PrFields DEF Review, TypeInv, TypeOK
  <1> HIDE DEF r
  <1>3. GateType' /\ PrType'
    BY <1>1, <1>2 DEF TypeInv, GateType, PrType
  <1>4. TypeOK'
    BY <1>1, <1>2 DEF TypeInv, TypeOK
  <1> QED
    BY <1>3, <1>4 DEF TypeInv

\* What a run of the gate holds after its first query.
LEMMA ViewEffect ==
  ASSUME TypeInv, ViewPr
  PROVE  /\ GateType' /\ gate'.step = "viewed" /\ gate'.posts = posts
         /\ gate'.lastCommitAt = pr.committedAt /\ gate'.mergedAt = pr.mergedAt
         /\ gate'.pushes = pr.pushes
         /\ UNCHANGED <<now, history, pr, posts, built, required, greenAt, owner>>
  <1>1. gate' = [step |-> "viewed", posts |-> posts, lastCommitAt |-> pr.committedAt,
                 mergedAt |-> pr.mergedAt, pushes |-> pr.pushes]
        /\ UNCHANGED <<now, history, pr, posts, built, required, greenAt, owner>>
    BY DEF ViewPr
  <1>2. GateType'
    BY <1>1, PrFields DEF TypeInv, GateType
  <1> QED
    BY <1>1, <1>2

\* The verdict keeps the merge date and the push count it was reached with, or
\* leaves no run behind.
LEMMA JudgeEffect ==
  ASSUME TypeInv, Judge
  PROVE  /\ gate.step = "viewed" /\ GateType' /\ gate'.posts = {}
         /\ \/ gate'.step = "idle" /\ gate'.mergedAt = NoDate /\ gate'.pushes = 0
            \/ /\ gate'.step = "passed" /\ gate'.mergedAt = gate.mergedAt
               /\ gate'.pushes = gate.pushes
               /\ pr_hygiene(View, fetchPrDiff, [i \in {1} |-> "an issue"]) = {}
         /\ UNCHANGED <<now, history, pr, posts, built, required, greenAt, owner>>
  <1> DEFINE passed == pr_hygiene(View, fetchPrDiff, [i \in {1} |-> "an issue"]) = {}
  <1>1. /\ gate.step = "viewed"
        /\ gate' = IF passed THEN [gate EXCEPT !.step = "passed", !.posts = {}, !.lastCommitAt = NoDate]
                   ELSE NoRun
        /\ UNCHANGED <<now, history, pr, posts, built, required, greenAt, owner>>
    BY DEF Judge
  <1> HIDE DEF passed
  <1>2. CASE passed
    <2>1. GateType'
      BY <1>1, <1>2 DEF TypeInv, GateType, NoDate
    <2>2. /\ gate'.posts = {} /\ gate'.step = "passed" /\ gate'.mergedAt = gate.mergedAt
          /\ gate'.pushes = gate.pushes
      BY <1>1, <1>2 DEF TypeInv, GateType
    <2> QED
      BY <1>1, <1>2, <2>1, <2>2 DEF passed
  <1>3. CASE ~passed
    <2>1. GateType'
      BY <1>1, <1>3 DEF TypeInv, GateType, NoRun, NoDate
    <2>2. gate'.posts = {} /\ gate'.step = "idle" /\ gate'.mergedAt = NoDate /\ gate'.pushes = 0
      BY <1>1, <1>3 DEF NoRun
    <2> QED
      BY <1>1, <2>1, <2>2
  <1> QED
    BY <1>2, <1>3

LEMMA TypeGate == TypeInv /\ (ViewPr \/ Judge) => TypeInv'
  <1> SUFFICES ASSUME TypeInv, ViewPr \/ Judge PROVE TypeInv'
      OBVIOUS
  <1>1. PrType'
    BY DEF TypeInv, PrType, ViewPr, Judge
  <1>2. GateType' /\ gate'.posts \subseteq posts
    BY ViewEffect, JudgeEffect
  <1>3. gate'.pushes <= pr.pushes
    <2>1. gate.pushes <= pr.pushes /\ pr.pushes <= pr.pushes /\ 0 <= pr.pushes
      BY PrFields DEF TypeInv, TypeOK
    <2> QED
      BY <2>1, ViewEffect, JudgeEffect
  <1>4. TypeOK'
    BY <1>2, <1>3 DEF TypeInv, TypeOK, ViewPr, Judge
  <1> QED
    BY <1>1, <1>2, <1>4 DEF TypeInv

\* What is verified is a context of a lane with the posture "merge".
LEMMA VerifiedContext ==
  ASSUME NEW c, VerifyContext(c)
  PROVE  c \in MergeContexts /\ owner' = c
  BY DEF VerifyContext, findOwningLane, MergeContexts

LEMMA TypeRuleset ==
  ASSUME TypeInv, NEW c \in Contexts,
         PushRun(c) \/ VerifyContext(c) \/ RemoveCheck(c) \/ AddCheck
  PROVE  TypeInv'
  <1>1. UNCHANGED <<now, history, pr, posts, gate>>
    BY DEF PushRun, VerifyContext, RemoveCheck, AddCheck
  <1> DEFINE Rules(r, o) == r \cup {o} \subseteq MergeContexts \cup {NoContext} /\ NoContext \notin r
  <1>2. greenAt' \in [Contexts -> 0 .. Len(history)]
    BY HistoryFacts DEF TypeInv, TypeOK, PushRun, VerifyContext, RemoveCheck, AddCheck
  <1>3. Rules(required', owner')
    <2>1. Rules(required, owner)
      BY DEF TypeInv, TypeOK
    <2>2. CASE PushRun(c) \/ RemoveCheck(c)
      BY <2>1, <2>2 DEF PushRun, RemoveCheck
    <2>3. CASE VerifyContext(c)
      BY <2>1, <2>3, VerifiedContext DEF VerifyContext
    <2>4. CASE AddCheck
      BY <2>1, <2>4 DEF AddCheck
    <2> QED
      BY <2>2, <2>3, <2>4
  <1>4. TypeOK'
    BY <1>1, <1>2, <1>3 DEF TypeInv, TypeOK
  <1> QED
    BY <1>1, <1>4 DEF TypeInv, PrType, GateType

LEMMA TypeStep == TypeInv /\ [Next]_vars => TypeInv'
  <1> SUFFICES ASSUME TypeInv, [Next]_vars PROVE TypeInv'
      OBVIOUS
  <1>1. CASE Tick \/ PostReview
    BY <1>1, TypeTick, TypeReview
  <1>2. CASE Push \/ UpdateBranch
    BY <1>2, TypePushed
  <1>3. CASE StartBuild \/ FinishBuild
    BY <1>3, TypeJob
  <1>4. CASE Merge \/ MainMoves
    BY <1>4, TypeMerge, TypeMoves
  <1>5. ASSUME NEW c \in Contexts, PushRun(c) \/ VerifyContext(c) \/ RemoveCheck(c)
        PROVE  TypeInv'
    BY <1>5, TypeRuleset
  <1>6. CASE AddCheck
    <2>1. owner \in Contexts
      BY <1>6 DEF AddCheck, TypeInv, TypeOK, MergeContexts, Contexts
    <2> QED
      BY <1>6, <2>1, TypeRuleset
  <1>7. CASE ViewPr \/ Judge
    BY <1>7, TypeGate
  <1>8. CASE UNCHANGED vars
    BY <1>8 DEF vars, TypeInv, TypeOK, PrType, GateType
  <1> QED
    BY <1>1, <1>2, <1>3, <1>4, <1>5, <1>6, <1>7, <1>8 DEF Next

\* No date lies in the future, no commit is younger than its push, the branch
\* always forks from a commit of main, and only contexts of merge lanes are required.
THEOREM TypeCorrect == Spec => []TypeOK
  <1>1. TypeInv => TypeOK
    BY DEF TypeInv
  <1> QED
    BY <1>1, TypeInit, TypeStep, PTL DEF Spec

-----------------------------------------------------------------------------
(* Nothing unbuilt is merged while the build is required *)

BuildInv == TypeInv /\ CheckInv

\* The merge of the head with main's tip at the tip's own position is the head.
LEMMA UpToDateMerge ==
  ASSUME TypeInv, pr.base = Len(history)
  PROVE  MergeAt(Len(history)) = pr.head /\ history[pr.base] = Tip
  BY HistoryFacts DEF MergeAt, Merged

\* A job that skipped its build saw no relevant file in the difference.
LEMMA SkippedBuild ==
  ASSUME NEW ref, NEW fork,
         ~build_relevant_changed(<<{Listed(e, ref) : e \in Toggled(ref, fork)}>>)
  PROVE  OnlyMovesOut(fork, ref)
  <1> DEFINE paths == {Listed(e, ref) : e \in Toggled(ref, fork)}
  <1>1. \A f \in paths : ~is_build_relevant(f)
    BY DEF build_relevant_changed
  <1>2. \A e \in Toggled(ref, fork) : ~is_build_relevant(Listed(e, ref))
    BY <1>1
  <1> QED
    BY <1>2, UnlistedMovesOut

LEMMA FinishBuildCheck == BuildInv /\ FinishBuild => CheckInv'
  <1> SUFFICES ASSUME BuildInv, FinishBuild PROVE CheckInv'
      OBVIOUS
  <1> USE DEF BuildInv
  <1>1. /\ pr'.base = pr.base /\ pr'.head = pr.head /\ history' = history
    BY JobEffect DEF FinishBuild
  <1>2. PICK online \in BOOLEAN, passes \in BOOLEAN :
          LET builds == build_relevant_changed(ChangedFiles(online))
          IN  /\ built' = IF builds /\ passes THEN built \cup {Source(pr.check.ref)} ELSE built
              /\ pr' = [pr EXCEPT !.check = [Unchecked EXCEPT
                                               !.job = IF builds /\ ~passes THEN "red" ELSE "green"]]
    BY DEF FinishBuild
  <1> DEFINE builds == build_relevant_changed(ChangedFiles(online))
             job == IF builds /\ ~passes THEN "red" ELSE "green"
  <1>3. PICK at \in pr.base .. Len(history) : at = pr.check.at /\ pr.check.ref = MergeAt(at)
    BY DEF FinishBuild, CheckInv
  <1>4. pr'.check.job = job
    <2>1. pr' = [pr EXCEPT !.check = [Unchecked EXCEPT !.job = job]]
      BY <1>2
    <2> HIDE DEF job
    <2> QED
      BY <2>1 DEF TypeInv, PrType, Unchecked
  <1>5. job = "green" => \/ OnlyMovesOut(history[at], MergeAt(at))
                         \/ Source(MergeAt(at)) \in built'
    <2>1. CASE builds
      BY <2>1, <1>2, <1>3
    <2>2. CASE ~builds
      <3>1. ~build_relevant_changed(<<>>)  => FALSE
        BY DEF build_relevant_changed
      <3>2. ~build_relevant_changed(<<{Listed(e, pr.check.ref) : e \in Toggled(pr.check.ref, history[at])}>>)
        BY <1>3, <2>2, <3>1, Zenon DEF ChangedFiles
      <3> QED
        BY <3>2, <1>3, SkippedBuild
    <2> QED
      BY <2>1, <2>2
  <1>6. MergeAt(at)' = MergeAt(at)
    BY <1>1 DEF MergeAt
  <1>7. pr'.check.job # "running"
    BY <1>4
  <1> HIDE DEF job
  <1> QED
    BY <1>1, <1>3, <1>4, <1>5, <1>6, <1>7 DEF CheckInv, MergeAt

LEMMA CheckInit == Init => CheckInv
  BY DEF Init, CheckInv, Unchecked

\* Main's commits and the sources built only accumulate.
LEMMA CheckKept ==
  ASSUME BuildInv, pr'.check = pr.check, pr'.base = pr.base, pr'.head = pr.head,
         built \subseteq built',
         history' = history \/ \E c \in SUBSET Edits : history' = Append(history, c)
  PROVE  CheckInv'
  <1> USE DEF BuildInv
  <1>1. /\ Len(history) \in Nat /\ Len(history') \in Nat /\ Len(history) <= Len(history')
        /\ pr.base \in 1 .. Len(history)
        /\ \A i \in 1 .. Len(history) : history'[i] = history[i]
    BY HistoryFacts, HistoryGrows
  <1>2. \A at \in pr.base .. Len(history) :
          /\ at \in pr.base .. Len(history') /\ history'[at] = history[at]
          /\ Merged(history'[pr.base], history'[at], pr.head) = MergeAt(at)
    <2> SUFFICES ASSUME NEW at \in pr.base .. Len(history)
                 PROVE  /\ at \in pr.base .. Len(history') /\ at \in 1 .. Len(history)
                        /\ pr.base \in 1 .. Len(history)
        BY <1>1 DEF MergeAt
    <2> QED
      BY <1>1
  <1>3. /\ pr.check.job = "running" =>
             /\ pr.check.at \in pr.base .. Len(history)
             /\ pr.check.ref = MergeAt(pr.check.at)
        /\ pr.check.job = "green" =>
             \E at \in pr.base .. Len(history) :
               \/ OnlyMovesOut(history[at], MergeAt(at))
               \/ Source(MergeAt(at)) \in built
    BY DEF CheckInv
  <1> DEFINE NewMerge(at) == Merged(history'[pr'.base], history'[at], pr'.head)
  <1>4. \A at \in pr.base .. Len(history) :
          /\ at \in pr'.base .. Len(history')
          /\ NewMerge(at) = MergeAt(at) /\ history'[at] = history[at]
    BY <1>2
  <1> HIDE DEF NewMerge
  <1>5. pr'.check.job = "running" =>
          /\ pr'.check.at \in pr'.base .. Len(history')
          /\ pr'.check.ref = NewMerge(pr'.check.at)
    BY <1>3, <1>4
  <1>6. pr'.check.job = "green" =>
          \E at \in pr'.base .. Len(history') :
            \/ OnlyMovesOut(history'[at], NewMerge(at))
            \/ Source(NewMerge(at)) \in built'
    BY <1>3, <1>4
  <1> QED
    BY <1>5, <1>6 DEF CheckInv, MergeAt, NewMerge, Source

LEMMA CheckStep == BuildInv /\ [Next]_vars => CheckInv'
  <1> SUFFICES ASSUME BuildInv, [Next]_vars PROVE CheckInv'
      OBVIOUS
  <1> USE DEF BuildInv
  <1>0. Unchecked.job = "none"
    BY DEF Unchecked
  <1>1. CASE Push \/ UpdateBranch
    BY <1>0, <1>1, PushEffect DEF CheckInv
  <1>2. CASE StartBuild
    <2> DEFINE at == Len(history)
               ref == MergeAt(Len(history))
    <2>1. pr' = [pr EXCEPT !.check = [job |-> "running", at |-> at, ref |-> ref]]
      BY <1>2, HistoryFacts DEF StartBuild, MergeAt
    <2>2. at \in pr.base .. Len(history)
      BY HistoryFacts
    <2>3. pr'.base = pr.base /\ pr'.head = pr.head /\ history' = history
      BY <1>2, JobEffect DEF StartBuild
    <2>4. pr'.check = [job |-> "running", at |-> at, ref |-> ref]
      <3> HIDE DEF at, ref
      <3> QED
        BY <2>1 DEF TypeInv, PrType
    <2> QED
      BY <2>2, <2>3, <2>4 DEF CheckInv, MergeAt
  <1>3. CASE FinishBuild
    BY <1>3, FinishBuildCheck
  <1>4. CASE Merge
    BY <1>0, <1>4, MergeEffect DEF CheckInv
  <1>5. CASE MainMoves
    BY <1>5, MoveEffect, CheckKept
  <1>6. CASE Tick \/ PostReview \/ AddCheck \/ ViewPr \/ Judge \/ UNCHANGED vars
    BY <1>6, CheckKept DEF Tick, PostReview, AddCheck, ViewPr, Judge, vars
  <1>7. ASSUME NEW c \in Contexts, PushRun(c) \/ VerifyContext(c) \/ RemoveCheck(c)
        PROVE  CheckInv'
    BY <1>7, CheckKept DEF PushRun, VerifyContext, RemoveCheck
  <1> QED
    BY <1>1, <1>2, <1>3, <1>4, <1>5, <1>6, <1>7 DEF Next

LEMMA BuildStep ==
  BuildInv /\ [Next]_vars =>
    [(BuildTest \in required /\ history' # history) =>
       (Source(Tip)' \in built' \/ OnlyMovesOut(Tip, Tip'))]_vars
  <1> SUFFICES ASSUME BuildInv, [Next]_vars, BuildTest \in required, history' # history
               PROVE  Source(Tip)' \in built' \/ OnlyMovesOut(Tip, Tip')
      OBVIOUS
  <1> USE DEF BuildInv
  <1>1. CASE Merge
    <2>1. pr.check.job = "green" /\ pr.base = Len(history)
      BY <1>1 DEF Merge, Mergeable
    <2>2. MergeAt(Len(history)) = pr.head /\ history[Len(history)] = Tip
      BY <2>1, UpToDateMerge
    <2>3. OnlyMovesOut(Tip, pr.head) \/ Source(pr.head) \in built
      <3>1. \A at \in pr.base .. Len(history) : at = Len(history)
        BY <2>1, HistoryFacts
      <3> QED
        BY <2>1, <2>2, <3>1 DEF CheckInv
    <2>4. Tip' = pr.head /\ built' = built
      BY <1>1, <2>2, MergeEffect, HistoryGrows
    <2> QED
      BY <2>3, <2>4 DEF Source
  <1>2. CASE MainMoves
    <2>1. PICK c \in SUBSET Edits :
            history' = Append(history, c) /\ (Source(c) \in built' \/ OnlyMovesOut(Tip, c))
      BY <1>2, MoveEffect
    <2>2. Tip' = c
      BY <2>1, HistoryGrows
    <2> QED
      BY <2>1, <2>2 DEF Source
  <1>3. history' = history \/ Merge \/ MainMoves
    BY DEF Next, vars, Tick, Push, UpdateBranch, PostReview, StartBuild, FinishBuild,
           PushRun, VerifyContext, RemoveCheck, AddCheck, ViewPr, Judge
  <1> QED
    BY <1>1, <1>2, <1>3

\* While build-test is required, what a merge brings main has been built, or differs
\* from what main had in files moved out of the source and in nothing else of it.
THEOREM NothingUnbuiltMerges == Spec => RelevantChangesAreBuilt
  <1>1. Init => BuildInv
    BY TypeInit, CheckInit DEF BuildInv
  <1>2. BuildInv /\ [Next]_vars => BuildInv'
    BY TypeStep, CheckStep DEF BuildInv
  <1> QED
    BY <1>1, <1>2, BuildStep, PTL DEF Spec, RelevantChangesAreBuilt

-----------------------------------------------------------------------------
(* What is required has been green *)

RulesetInv ==
  /\ TypeInv
  /\ RequiredHasReported
  /\ owner # NoContext => greenAt[owner] # 0

LEMMA RulesetStep == RulesetInv /\ [Next]_vars => RulesetInv'
  <1> SUFFICES ASSUME RulesetInv, [Next]_vars PROVE RulesetInv'
      OBVIOUS
  <1> USE DEF RulesetInv
  <1>0. TypeInv'
    BY TypeStep
  <1>1. /\ Len(history) # 0 /\ greenAt \in [Contexts -> 0 .. Len(history)]
        /\ NoContext \notin required /\ required \cup {owner} \subseteq Contexts \cup {NoContext}
    BY HistoryFacts DEF TypeInv, TypeOK, MergeContexts, Contexts
  <1>2. ASSUME NEW c \in Contexts, PushRun(c)
        PROVE  RulesetInv'
    <2>1. \A d \in Contexts : greenAt[d] # 0 => greenAt'[d] # 0
      BY <1>1, <1>2 DEF PushRun
    <2>2. required' = required /\ owner' = owner
      BY <1>2 DEF PushRun
    <2> QED
      BY <1>0, <1>1, <2>1, <2>2 DEF RequiredHasReported
  <1>3. ASSUME NEW c \in Contexts, VerifyContext(c)
        PROVE  RulesetInv'
    BY <1>0, <1>1, <1>3 DEF VerifyContext, hasReportedGreenOnMain, RequiredHasReported
  <1>4. ASSUME NEW c \in Contexts, RemoveCheck(c)
        PROVE  RulesetInv'
    BY <1>0, <1>4 DEF RemoveCheck, RequiredHasReported
  <1>5. CASE AddCheck
    BY <1>0, <1>5 DEF AddCheck, RequiredHasReported
  <1>6. CASE UNCHANGED <<required, greenAt, owner>>
    BY <1>0, <1>6 DEF RequiredHasReported
  <1>7. \/ UNCHANGED <<required, greenAt, owner>> \/ AddCheck
        \/ \E c \in Contexts : PushRun(c) \/ VerifyContext(c) \/ RemoveCheck(c)
    BY DEF Next, vars, Tick, Push, UpdateBranch, PostReview, StartBuild, FinishBuild,
           Merge, MainMoves, ViewPr, Judge
  <1> QED
    BY <1>2, <1>3, <1>4, <1>5, <1>6, <1>7

\* ruleset.py never makes main require a context that has not been green on it,
\* although main may move between the look at its tip and the write.
THEOREM RequiredWasGreen == Spec => []RequiredHasReported
  <1>1. Init => RulesetInv
    BY TypeInit DEF Init, RulesetInv, RequiredHasReported
  <1>2. RulesetInv => RequiredHasReported
    BY DEF RulesetInv
  <1> QED
    BY <1>1, <1>2, RulesetStep, PTL DEF Spec

-----------------------------------------------------------------------------
(* What the gate's verdict rests on *)

\* The newest of some reviews is one of them, and none is newer.
LEMMA NewestReview ==
  ASSUME NEW R \in SUBSET Review, R # {}, NEW n \in Nat, \A r \in R : r.at <= n
  PROVE  /\ \E r \in R : r.at = Newest(R)
         /\ \A r \in R : r.at <= Newest(R)
  <1> DEFINE T == {r.at : r \in R}
  <1>1. T \in SUBSET (0 .. n) /\ T # {}
    <2>1. \A r \in R : r.at \in Nat
      BY DEF Review
    <2>2. \A r \in R : r.at \in 0 .. n
      BY <2>1
    <2> QED
      BY <2>2
  <1>2. \E x \in T : \A y \in T : y <= x
    <2> HIDE DEF T
    <2> QED
      BY <1>1, GreatestExists
  <1>3. \E at \in {r.at : r \in R} : \A r \in R : r.at <= at
    BY <1>2
  <1> QED
    BY <1>3 DEF Newest

\* Every member of a finite set is somewhere in its sequence.
LEMMA SetToSeqFacts ==
  ASSUME NEW S, IsFiniteSet(S)
  PROVE  /\ SetToSeq(S) \in Seq(S)
         /\ \A x \in S : \E i \in 1 .. Len(SetToSeq(S)) : SetToSeq(S)[i] = x
  <1> DEFINE n == Cardinality(S)
             f == SetToSeq(S)
  <1>1. n \in Nat /\ ExistsBijection(1 .. n, S)
    BY FS_CardinalityType
  <1>2. \E g \in [1 .. n -> S] : IsInjective(g)
    BY <1>1 DEF ExistsBijection, Bijection, Injection
  <1>3. f \in [1 .. n -> S] /\ IsInjective(f)
    BY <1>2 DEF SetToSeq
  <1>4. f \in Injection(1 .. n, S)
    BY <1>3 DEF Injection
  <1>5. Cardinality(1 .. n) = n
    BY <1>1, FS_Interval
  <1> HIDE DEF n, f
  <1>6. f \in Surjection(1 .. n, S)
    BY <1>4, <1>5, FS_Injection DEF n
  <1>7. f \in Seq(S) /\ Len(f) = n
    BY <1>1, <1>3
  <1> QED
    BY <1>6, <1>7 DEF Surjection, f

\* The "+++ " line an added line of the i-th edit stands under is its own.
LEMMA DiffLines ==
  ASSUME NEW D, NEW n \in Nat, NEW i \in 1 .. n,
         \A j \in 1 .. 2 * n : D[j].kind = "file" <=> j % 2 = 1
  PROVE  FileLine(D, 2 * i) = 2 * i - 1
  <1> DEFINE above == {j \in 1 .. 2 * i : D[j].kind = "file"}
  <1>1. 2 * i - 1 \in above
    <2>1. 2 * i - 1 \in 1 .. 2 * n /\ (2 * i - 1) % 2 = 1 /\ 2 * i - 1 \in 1 .. 2 * i
      OBVIOUS
    <2> QED
      BY <2>1
  <1>2. \A j \in above : j \in Int /\ j <= 2 * i - 1
    <2> SUFFICES ASSUME NEW j \in above, j = 2 * i PROVE FALSE
        OBVIOUS
    <2>1. j \in 1 .. 2 * n /\ j % 2 = 0
      OBVIOUS
    <2> QED
      BY <2>1
  <1>3. ASSUME NEW j \in above, \A k \in above : k <= j PROVE j = 2 * i - 1
    BY <1>1, <1>2, <1>3
  <1>4. FileLine(D, 2 * i) = CHOOSE j \in above : \A k \in above : k <= j
    BY <1>1 DEF FileLine
  <1> HIDE DEF above
  <1> QED
    BY <1>1, <1>2, <1>3, <1>4

\* A deferral comment that the branch adds to a file the scan reads is found.
LEMMA DeferralFound ==
  ASSUME TypeInv, scanDiffForDeferral(fetchPrDiff) = {}
  PROVE  NoDeferral
  <1> DEFINE S == Toggled(pr.head, history[pr.base])
             edits == SetToSeq(S)
             n == Len(edits)
             D == fetchPrDiff
  <1> SUFFICES ASSUME NEW e \in pr.head \ history[pr.base], InScope(e), e.defers PROVE FALSE
      BY DEF NoDeferral
  <1>0. e \in S
    BY DEF Toggled
  <1>1. IsFiniteSet(S)
    <2>1. S \in SUBSET Edits /\ IsFiniteSet(Edits)
      BY TreesClosed, HistoryFacts, BoundsAssumption
    <2> HIDE DEF S
    <2> QED
      BY <2>1, FS_Subset
  <1> HIDE DEF S
  <1>2. edits \in Seq(S) /\ \E i \in 1 .. n : edits[i] = e
    BY <1>0, <1>1, SetToSeqFacts
  <1>3. PICK i \in 1 .. n : edits[i] = e
    BY <1>2
  <1>4. D = [k \in 1 .. 2 * n |-> Lines(edits[(k + 1) \div 2])[2 - (k % 2)]]
    BY DEF fetchPrDiff, S
  <1>5. n \in Nat
    BY <1>2
  <1> HIDE DEF edits, n, D
  <1>6. /\ \A x : Lines(x)[1].kind = "file" /\ Lines(x)[2].kind \in {"added", "removed"}
        /\ Lines(e)[1].path = e.path /\ Lines(e)[1].type = e.type
        /\ Lines(e)[2].kind = "added" /\ Lines(e)[2].comment = TRUE
        /\ Lines(e)[2].phrase = e.defers /\ Lines(e)[2].ref = FALSE
    BY DEF Lines, Listed
  <1>7. \A j \in 1 .. 2 * n : D[j].kind = "file" <=> j % 2 = 1
    <2> SUFFICES ASSUME NEW j \in 1 .. 2 * n PROVE D[j].kind = "file" <=> j % 2 = 1
        OBVIOUS
    <2>1. j % 2 = 0 \/ j % 2 = 1
      BY <1>5
    <2>2. D[j] = Lines(edits[(j + 1) \div 2])[2 - (j % 2)]
      BY <1>4
    <2>3. CASE j % 2 = 1
      <3>1. D[j] = Lines(edits[(j + 1) \div 2])[1]
        BY <2>2, <2>3
      <3> QED
        BY <3>1, <2>3, <1>6
    <2>4. CASE j % 2 = 0
      <3>1. D[j] = Lines(edits[(j + 1) \div 2])[2]
        BY <2>2, <2>4
      <3>2. D[j].kind \in {"added", "removed"}
        BY <3>1, <1>6
      <3> QED
        BY <3>2, <2>4
    <2> QED
      BY <2>1, <2>3, <2>4
  <1>8. FileLine(D, 2 * i) = 2 * i - 1
    BY <1>5, <1>7, DiffLines
  <1>9. D[2 * i] = Lines(e)[2]
    <2>1. 2 * i \in 1 .. 2 * n /\ (2 * i + 1) \div 2 = i /\ 2 - ((2 * i) % 2) = 2
      BY <1>5
    <2> QED
      BY <2>1, <1>3, <1>4
  <1>10. D[2 * i - 1] = Lines(e)[1]
    <2>1. 2 * i - 1 \in 1 .. 2 * n /\ (2 * i - 1 + 1) \div 2 = i /\ 2 - ((2 * i - 1) % 2) = 1
      BY <1>5
    <2> QED
      BY <2>1, <1>3, <1>4
  <1>11. IsComment(D, 2 * i)
    <2>1. 2 * i - 1 # 0
      OBVIOUS
    <2>2. D[2 * i].kind = "added" /\ D[2 * i].comment
          /\ D[2 * i - 1].path = e.path /\ D[2 * i - 1].type = e.type
      BY <1>6, <1>9, <1>10
    <2> QED
      BY <2>1, <2>2, <1>8, Zenon DEF IsComment, InScope
  <1>12. 2 * i \in scanDiffForDeferral(D)
    <2>1. 2 * i \in DOMAIN D
      BY <1>4, <1>5
    <2>2. D[2 * i].phrase /\ ~D[2 * i].ref
      BY <1>6, <1>9
    <2> QED
      BY <2>1, <2>2, <1>11, Zenon DEF scanDiffForDeferral
  <1> QED
    BY <1>12 DEF D

\* What the gate has established when it passes: the newest of the reviews it
\* saw is past the commit's date and, if it saw a merge, not past the merge.
LEMMA VerdictFacts ==
  ASSUME TypeInv, Judge, gate'.step = "passed"
  PROVE  /\ NoDeferral
         /\ \E r \in posts :
              r.at > gate.lastCommitAt /\ (gate.mergedAt # NoDate => r.at <= gate.mergedAt)
  <1>1. pr_hygiene(View, fetchPrDiff, [i \in {1} |-> "an issue"]) = {}
    BY JudgeEffect
  <1>2. /\ View.posts = gate.posts /\ View.lastCommitAt = gate.lastCommitAt
        /\ View.mergedAt = gate.mergedAt
    BY DEF View
  <1>3. /\ scanDiffForDeferral(fetchPrDiff) = {}
        /\ freshSessionReviewViolation(gate.posts, gate.lastCommitAt) = {}
        /\ mergeBeforeReviewViolation(gate.mergedAt, gate.posts) = {}
    BY <1>1, <1>2, Zenon DEF pr_hygiene
  <1>4. FreshReviews(gate.posts) = gate.posts
    BY DEF FreshReviews, TypeInv, GateType, Review
  <1> DEFINE R == gate.posts
  <1>5. R # {} /\ ~(Newest(R) <= gate.lastCommitAt)
    BY <1>3, <1>4 DEF freshSessionReviewViolation
  <1>6. gate.mergedAt # NoDate => ~(gate.mergedAt < Newest(R))
    BY <1>3, <1>4, <1>5 DEF mergeBeforeReviewViolation
  <1>7. R \in SUBSET Review /\ \A r \in R : r.at <= now
    BY DEF TypeInv, GateType, TypeOK
  <1>8. PICK r \in R : r.at = Newest(R)
    <2> HIDE DEF R
    <2> QED
      BY <1>5, <1>7, PrFields, NewestReview
  <1>9. r \in posts /\ r.at \in Nat /\ gate.lastCommitAt \in Nat /\ gate.mergedAt \in Nat
    BY <1>7 DEF TypeInv, GateType, TypeOK, Review
  <1>10. r.at > gate.lastCommitAt /\ (gate.mergedAt # NoDate => r.at <= gate.mergedAt)
    BY <1>5, <1>6, <1>8, <1>9
  <1> QED
    BY <1>3, <1>9, <1>10, DeferralFound

-----------------------------------------------------------------------------
(* A head that passes was reviewed *)

ReviewInv ==
  TypeInv /\ GateInv /\ PassedHeadWasReviewed /\ AuditedMergeWasReviewed

LEMMA ReviewInit == Init => ReviewInv
  <1> SUFFICES ASSUME Init PROVE ReviewInv
      OBVIOUS
  <1>1. gate.step = "idle" /\ gate.mergedAt = NoDate
    BY DEF Init, NoRun
  <1> QED
    BY <1>1, TypeInit
    DEF ReviewInv, GateInv, PassedHeadWasReviewed, AuditedMergeWasReviewed

\* A new head overtakes every run that has not seen the merge.
LEMMA ReviewPushed == ReviewInv /\ (Push \/ UpdateBranch) => ReviewInv'
  <1> SUFFICES ASSUME ReviewInv, Push \/ UpdateBranch PROVE ReviewInv'
      OBVIOUS
  <1> USE DEF ReviewInv
  <1>1. TypeInv'
    BY TypePushed
  <1>3. gate'.pushes # pr'.pushes
    <2>1. gate.pushes <= pr.pushes /\ gate.pushes \in Nat
      BY DEF TypeInv, TypeOK, GateType
    <2> QED
      BY <2>1, PrFields, PushEffect
  <1>4. gate'.mergedAt = NoDate
    <2>1. pr.mergedAt = NoDate /\ gate' = gate
      BY PushEffect DEF TypeInv, TypeOK
    <2> QED
      BY <2>1 DEF GateInv
  <1> QED
    BY <1>1, <1>3, <1>4 DEF GateInv, PassedHeadWasReviewed, AuditedMergeWasReviewed

\* Steps that leave the head, its dates and the gate alone; the reviews and
\* main's commits only accumulate.
LEMMA ReviewKept ==
  ASSUME ReviewInv, TypeInv', gate' = gate, posts \subseteq posts',
         pr'.head = pr.head, pr'.base = pr.base, pr'.pushes = pr.pushes,
         pr'.committedAt = pr.committedAt, pr'.pushedAt = pr.pushedAt,
         pr'.mergedAt = pr.mergedAt \/ pr.mergedAt = NoDate,
         history' = history \/ \E c \in SUBSET Edits : history' = Append(history, c)
  PROVE  ReviewInv'
  <1> USE DEF ReviewInv
  <1>1. history'[pr.base] = history[pr.base]
    BY HistoryFacts, HistoryGrows
  <1>2. gate.mergedAt # NoDate => pr'.mergedAt = pr.mergedAt
    BY DEF GateInv
  <1>3. NoDeferral' <=> NoDeferral
    BY <1>1 DEF NoDeferral, InScope
  <1>4. ReviewedSince(pr.committedAt) => ReviewedSince(pr.committedAt)'
    BY DEF ReviewedSince
  <1>5. GateInv'
    BY <1>2 DEF GateInv
  <1>6. PassedHeadWasReviewed => PassedHeadWasReviewed'
    BY <1>3, <1>4 DEF PassedHeadWasReviewed
  <1>7. AuditedMergeWasReviewed => AuditedMergeWasReviewed'
    BY <1>2 DEF AuditedMergeWasReviewed
  <1> QED
    BY <1>5, <1>6, <1>7

LEMMA ReviewViewed == ReviewInv /\ ViewPr => ReviewInv'
  <1> SUFFICES ASSUME ReviewInv, ViewPr PROVE ReviewInv'
      OBVIOUS
  <1>1. TypeInv'
    BY TypeGate DEF ReviewInv
  <1>2. GateInv'
    BY ViewEffect DEF ReviewInv, GateInv
  <1>3. gate'.step # "passed"
    BY ViewEffect DEF ReviewInv
  <1> QED
    BY <1>1, <1>2, <1>3 DEF ReviewInv, PassedHeadWasReviewed, AuditedMergeWasReviewed

LEMMA ReviewJudged == ReviewInv /\ Judge => ReviewInv'
  <1> SUFFICES ASSUME ReviewInv, Judge PROVE ReviewInv'
      OBVIOUS
  <1> USE DEF ReviewInv
  <1>1. TypeInv'
    BY TypeGate
  <1>2. GateInv'
    BY JudgeEffect DEF GateInv
  <1>3. CASE gate'.step # "passed"
    BY <1>1, <1>2, <1>3 DEF PassedHeadWasReviewed, AuditedMergeWasReviewed
  <1>4. CASE gate'.step = "passed"
    <2>1. /\ gate.step = "viewed" /\ gate'.mergedAt = gate.mergedAt /\ gate'.pushes = gate.pushes
          /\ UNCHANGED <<now, history, pr, posts>>
      BY <1>4, JudgeEffect
    <2>2. NoDeferral
      BY <1>4, VerdictFacts
    <2>3. PICK r \in posts :
            r.at > gate.lastCommitAt /\ (gate.mergedAt # NoDate => r.at <= gate.mergedAt)
      BY <1>4, VerdictFacts
    <2>4. gate.pushes = pr.pushes => r.at > pr.committedAt
      BY <2>1, <2>3 DEF GateInv
    <2>5. NoDeferral'
      BY <2>1, <2>2 DEF NoDeferral, InScope
    <2>6. PassedHeadWasReviewed'
      BY <2>1, <2>4, <2>5 DEF PassedHeadWasReviewed, ReviewedSince
    <2>7. AuditedMergeWasReviewed'
      <3> SUFFICES ASSUME gate.mergedAt # NoDate
                   PROVE  pr.committedAt < r.at /\ r.at <= pr.mergedAt
          BY <2>1 DEF AuditedMergeWasReviewed
      <3>1. gate.mergedAt = pr.mergedAt /\ gate.pushes = pr.pushes
        BY DEF GateInv
      <3>2. r.at \in Nat
        BY DEF TypeInv, GateType, Review
      <3> QED
        BY <3>1, <3>2, <2>3, <2>4, PrFields
    <2> QED
      BY <1>1, <1>2, <2>6, <2>7
  <1> QED
    BY <1>3, <1>4

LEMMA ReviewStep == ReviewInv /\ [Next]_vars => ReviewInv'
  <1> SUFFICES ASSUME ReviewInv, [Next]_vars PROVE ReviewInv'
      OBVIOUS
  <1>0. TypeInv'
    BY TypeStep DEF ReviewInv
  <1>1. CASE Push \/ UpdateBranch
    BY <1>1, ReviewPushed
  <1>2. CASE ViewPr
    BY <1>2, ReviewViewed
  <1>3. CASE Judge
    BY <1>3, ReviewJudged
  <1>4. CASE StartBuild \/ FinishBuild
    BY <1>0, <1>4, JobEffect, ReviewKept DEF ReviewInv
  <1>5. CASE Merge
    <2>1. pr.mergedAt = NoDate
      BY <1>5, MergeEffect DEF ReviewInv, TypeInv, TypeOK
    <2> QED
      BY <1>0, <1>5, <2>1, MergeEffect, ReviewKept DEF ReviewInv
  <1>6. CASE MainMoves
    BY <1>0, <1>6, MoveEffect, ReviewKept DEF ReviewInv
  <1>7. CASE Tick \/ PostReview \/ AddCheck \/ UNCHANGED vars
    BY <1>0, <1>7, ReviewKept DEF Tick, PostReview, AddCheck, vars
  <1>8. ASSUME NEW c \in Contexts, PushRun(c) \/ VerifyContext(c) \/ RemoveCheck(c)
        PROVE  ReviewInv'
    BY <1>0, <1>8, ReviewKept DEF PushRun, VerifyContext, RemoveCheck
  <1> QED
    BY <1>1, <1>2, <1>3, <1>4, <1>5, <1>6, <1>7, <1>8 DEF Next

\* A run of the gate that passes and that no push overtook: a review was posted after
\* the last commit of its head was made, and the head adds no deferral to a file the
\* scan reads.
THEOREM PassMeansReviewed == Spec => []PassedHeadWasReviewed
  <1>1. ReviewInv => PassedHeadWasReviewed
    BY DEF ReviewInv
  <1> QED
    BY <1>1, ReviewInit, ReviewStep, PTL DEF Spec

\* A run that passes on a merged pull request, whatever was pushed: a review was
\* posted after the last commit of the merged head was made and no later than the
\* merge.
THEOREM AuditMeansReviewed == Spec => []AuditedMergeWasReviewed
  <1>1. ReviewInv => AuditedMergeWasReviewed
    BY DEF ReviewInv
  <1> QED
    BY <1>1, ReviewInit, ReviewStep, PTL DEF Spec
=============================================================================
