------------------------------ MODULE MCMergeGate ------------------------------
(***************************************************************************)
(* A source file with a deferral comment, a page of documentation, a file  *)
(* moved out of the source, and two lanes of which one gates releases.     *)
(* What the gate is about and what the build is about hardly meet: either  *)
(* the reviews have the time they need, and no lane has reported yet, or   *)
(* the lanes have, and everything happens in one tick without a review.    *)
(***************************************************************************)
EXTENDS MergeGate

Moved == [from |-> <<"src", "oracle.hpp">>, path |-> <<"test", "oracle", "oracle.hpp">>,
          type |-> ".hpp", defers |-> FALSE]
Stays(path, type, defers) == [from |-> path, path |-> path, type |-> type, defers |-> defers]

MCEdits == {Stays(<<"src", "kernel", "grid.hpp">>, ".hpp", TRUE),
            Stays(<<"docs", "a.md">>, ".md", FALSE), Moved}
MCLanes == {[context |-> "build-test", posture |-> "merge"],
            [context |-> "analyze", posture |-> "release"]}

Reviews == /\ \A c \in Contexts : greenAt[c] = 0
           /\ Moved \notin pr.head \cup UNION {history[k] : k \in 1 .. Len(history)}
Builds == now = 1 /\ pr.pushes <= 2 /\ posts = {} /\ gate = NoRun
ReviewsOrBuilds == Reviews \/ Builds
================================================================================
