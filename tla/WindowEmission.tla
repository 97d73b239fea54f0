--------------------------- MODULE WindowEmission ---------------------------
(***************************************************************************)
(* What a walk of one series promises, with no pointer, buffer or          *)
(* lookahead: it takes samples in timestamp order, and it may answer grid  *)
(* points, in order, each only once its window can no longer change, and   *)
(* each with exactly the samples that survive deduplication in             *)
(* (anchor - Width, anchor].                                               *)
(***************************************************************************)
EXTENDS Series

VARIABLES
  fed,      \* the series so far, in the order it arrived
  ended,    \* no further sample will arrive
  answers   \* answers[i + 1]: the set of samples answered for grid point i

vars == <<fed, ended, answers>>

\* No sample that may still arrive can fall into, or displace one in, the
\* window of point i.
Determined(i) == ended \/ \E k \in DOMAIN fed : fed[k].t > At(i)

Init == fed = <<>> /\ ended = FALSE /\ answers = <<>>

Take(s) ==
  /\ ~ended
  /\ Len(fed) < MaxFed
  /\ InOrder(fed, s)
  /\ fed' = Append(fed, s)
  /\ UNCHANGED <<ended, answers>>

Close == ~ended /\ ended' = TRUE /\ UNCHANGED <<fed, answers>>

Answer ==
  /\ Len(answers) < Count
  /\ Determined(Len(answers))
  /\ answers' = Append(answers, WindowOf(fed, Len(answers)))
  /\ UNCHANGED <<fed, ended>>

Next == (\E s \in CounterSample : Take(s)) \/ Close \/ Answer

Spec == Init /\ [][Next]_vars
=============================================================================
