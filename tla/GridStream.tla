----------------------------- MODULE GridStream -----------------------------
(***************************************************************************)
(* src/kernel/grid_stream.hpp: the operator's walk of one series, fed one  *)
(* sample at a time.                                                       *)
(*                                                                         *)
(* drain is a loop that calls back into the caller (emit) once per grid    *)
(* point, so one iteration of the loop is one step here, with pc saying    *)
(* whether the call is still inside drain: a callback that throws leaves   *)
(* the pointers where that iteration moved them.  A call cannot be made    *)
(* while another is in progress.  buf is a sequence, so buf[lo_ + 1] is    *)
(* the code's buf_[lo_].                                                   *)
(***************************************************************************)
EXTENDS Series

CONSTANT EmitMayThrow   \* whether the caller's callback may fail

ASSUME CallbackAssumption == EmitMayThrow \in BOOLEAN

VARIABLES
  pending,      \* <<>>, or the one sample held back by deduplication
  buf, lo, hi,  \* the resident samples and the two window pointers
  next_index,   \* the next grid point to answer
  ended,        \* end() was called
  pc,           \* "idle" between calls, "drain" inside the loop
  fed,          \* history: every sample fed, in order
  emitted       \* history: the spans passed to emit, in order

vars == <<pending, buf, lo, hi, next_index, ended, pc, fed, emitted>>

\* Types; at most one sample is held back, and no grid point past the last one
\* is reached.
TypeOK ==
  /\ pending \in Seq(CounterSample) /\ Len(pending) <= 1
  /\ buf \in Seq(CounterSample)
  /\ lo \in Nat /\ hi \in Nat
  /\ next_index \in 0 .. Count
  /\ ended \in BOOLEAN
  /\ pc \in {"idle", "drain"}
  /\ fed \in Seq(CounterSample)
  /\ emitted \in Seq(Seq(CounterSample))

Init ==
  /\ pending = <<>> /\ buf = <<>> /\ lo = 0 /\ hi = 0
  /\ next_index = 0 /\ ended = FALSE /\ pc = "idle"
  /\ fed = <<>> /\ emitted = <<>>

\* Mutant of Collides: the duplicate is never recognised.
MutantCollides(s) == FALSE

\* The sample is a further candidate for the timestamp held back.
Collides(s) == pending # <<>> /\ pending[1].t = s.t

Feed(s) ==
  /\ pc = "idle" /\ ~ended
  /\ Len(fed) < MaxFed /\ InOrder(fed, s)
  /\ fed' = Append(fed, s)
  /\ \/ /\ Collides(s)
        /\ pending' = IF dedup_policy(s.v, pending[1].v) THEN <<s>> ELSE pending
        /\ UNCHANGED <<buf, pc>>
     \/ /\ ~Collides(s)
        /\ buf' = buf \o pending
        /\ pending' = <<s>>
        /\ pc' = "drain"
  /\ UNCHANGED <<lo, hi, next_index, ended, emitted>>

\* Flushes the sample held back; does not drain.
End ==
  /\ pc = "idle" /\ ~ended
  /\ buf' = buf \o pending
  /\ pending' = <<>>
  /\ ended' = TRUE
  /\ UNCHANGED <<lo, hi, next_index, pc, fed, emitted>>

Resume ==
  /\ pc = "idle"
  /\ pc' = "drain"
  /\ UNCHANGED <<pending, buf, lo, hi, next_index, ended, fed, emitted>>

\* h is where the first inner loop leaves hi_.
ScansHi(h) ==
  /\ h \in hi .. Len(buf)
  /\ \A k \in hi + 1 .. h : buf[k].t <= At(next_index)
  /\ h < Len(buf) => buf[h + 1].t > At(next_index)

\* Mutant of ScansLo: lo_ moves by at most one sample per grid point.
MutantScansLo(l, h) ==
  l = IF lo < h /\ ~Contains(At(next_index), buf[lo + 1].t)
           /\ buf[lo + 1].t <= At(next_index)
      THEN lo + 1 ELSE lo

\* l is where the second inner loop leaves lo_, hi_ being h.
ScansLo(l, h) ==
  /\ l \in lo .. h
  /\ \A k \in lo + 1 .. l : ~Contains(At(next_index), buf[k].t)
                            /\ buf[k].t <= At(next_index)
  /\ l < h => Contains(At(next_index), buf[l + 1].t)
              \/ buf[l + 1].t > At(next_index)

\* Mutant of Windows: drain's eos guard dropped, running out of data confirms
\* hi_.
MutantWindows(l, h) ==
  pc = "drain" /\ next_index < Count /\ ScansHi(h) /\ ScansLo(l, h)

\* Mutant of Windows: the loop does not stop at the end of the grid.
MutantWindowsPastGrid(l, h) ==
  pc = "drain" /\ ScansHi(h) /\ (h < Len(buf) \/ ended) /\ ScansLo(l, h)

\* Both pointers of an iteration that reaches emit: hi_ stopped at a sample
\* past the anchor, or no more data will come (feed drains only before end,
\* and resume passes ended_, so eos is ended).
Windows(l, h) ==
  /\ pc = "drain" /\ next_index < Count
  /\ ScansHi(h)
  /\ h < Len(buf) \/ ended
  /\ ScansLo(l, h)

\* Mutant of Compacts: the buffer is never compacted.
MutantCompacts(l) == FALSE

\* The erase fires once the dropped prefix is more than half of the buffer.
Compacts(l) == l > 0 /\ l * 2 > Len(buf)

\* Mutant of AnswerWith: drain answers one point per call instead of looping.
MutantAnswerWith(l, h) ==
  /\ Windows(l, h)
  /\ emitted' = Append(emitted, SubSeq(buf, l + 1, h))
  /\ next_index' = next_index + 1
  /\ hi' = h /\ lo' = l /\ pc' = "idle"
  /\ UNCHANGED <<pending, buf, ended, fed>>

AnswerWith(l, h) ==
  /\ Windows(l, h)
  /\ emitted' = Append(emitted, SubSeq(buf, l + 1, h))
  /\ next_index' = next_index + 1
  /\ IF Compacts(l)
     THEN buf' = SubSeq(buf, l + 1, Len(buf)) /\ hi' = h - l /\ lo' = 0
     ELSE buf' = buf /\ hi' = h /\ lo' = l
  /\ UNCHANGED <<pending, ended, pc, fed>>

AnswerPoint == \E h \in hi .. Len(buf) : \E l \in lo .. h : AnswerWith(l, h)

\* Mutant of EmitThrows: next_index_ advanced before the callback.
MutantEmitThrows ==
  /\ EmitMayThrow
  /\ \E h \in hi .. Len(buf) : \E l \in lo .. h :
       Windows(l, h) /\ hi' = h /\ lo' = l
  /\ pc' = "idle"
  /\ next_index' = next_index + 1
  /\ UNCHANGED <<pending, buf, ended, fed, emitted>>

\* emit does not return: the pointers have moved, the grid point has not.
EmitThrows ==
  /\ EmitMayThrow
  /\ \E h \in hi .. Len(buf) : \E l \in lo .. h :
       /\ Windows(l, h)
       /\ hi' = h /\ lo' = l
  /\ pc' = "idle"
  /\ UNCHANGED <<pending, buf, next_index, ended, fed, emitted>>

\* Mutant of AwaitSample: resume does not pass ended_ on, so the walk goes on
\* waiting for a sample that cannot come.
MutantAwaitSample ==
  /\ pc = "drain" /\ next_index < Count
  /\ ScansHi(Len(buf))
  /\ hi' = Len(buf)
  /\ pc' = "idle"
  /\ UNCHANGED <<pending, buf, lo, next_index, ended, fed, emitted>>

\* hi_ ran out of data before the anchor did: wait for more samples.
AwaitSample ==
  /\ pc = "drain" /\ next_index < Count /\ ~ended
  /\ ScansHi(Len(buf))
  /\ hi' = Len(buf)
  /\ pc' = "idle"
  /\ UNCHANGED <<pending, buf, lo, next_index, ended, fed, emitted>>

GridWalked ==
  /\ pc = "drain" /\ next_index >= Count
  /\ pc' = "idle"
  /\ UNCHANGED <<pending, buf, lo, hi, next_index, ended, fed, emitted>>

Drain == AnswerPoint \/ AwaitSample \/ GridWalked

Next ==
  \/ \E s \in CounterSample : Feed(s)
  \/ End \/ Resume
  \/ AnswerPoint \/ EmitThrows \/ AwaitSample \/ GridWalked

Spec == Init /\ [][Next]_vars

\* A call in progress runs to its return, and a caller that ended the series
\* goes on to resume it (ProcessOneBin's flush_active does both in a row).
FairSpec ==
  /\ Spec
  /\ WF_vars(Drain)
  /\ WF_vars(ended /\ next_index < Count /\ Resume)

-----------------------------------------------------------------------------

Elements(s) == {s[k] : k \in DOMAIN s}

\* Every span ever passed to emit is, in timestamp order and without
\* duplicates, exactly the deduplicated window of its grid point over the whole
\* series as it is known now: nothing fed after a point was answered could have
\* changed the answer (feed's lookahead, drain's eos guard, the pointers'
\* reindexing when buf_ is compacted).
WindowsExact ==
  /\ Len(emitted) = next_index
  /\ \A i \in DOMAIN emitted :
       /\ \A j, k \in DOMAIN emitted[i] :
            j < k => emitted[i][j].t < emitted[i][k].t
       /\ Elements(emitted[i]) = WindowOf(fed, i - 1)

\* A drain that returned left no answerable point behind: every sample out of
\* the lookahead is at or before the next anchor.
NothingAnswerableWaits ==
  pc = "idle" /\ ~ended /\ next_index < Count /\ ~EmitMayThrow =>
    \A k \in DOMAIN buf : buf[k].t <= At(next_index)

\* What feed retains: past lo_ only samples above the lower edge of the last
\* answered window, and never more dropped samples than live ones.
ResidencyLaw ==
  /\ next_index > 0 =>
       \A k \in lo + 1 .. Len(buf) : buf[k].t > At(next_index - 1) - Width
  /\ ~EmitMayThrow => 2 * lo <= Len(buf)

\* The residency grid_stream_test.cpp holds resident_size() to, at its own unit
\* spacing: twice a window's samples and two to spare.
WindowBoundedResidency == Len(buf) <= 2 * (Width + 2)

\* Once the series is ended every grid point is answered (end() alone does not
\* drain: the resume that follows it must).
AllAnswered == ended ~> next_index = Count

\* The walk implements the promise of WindowEmission, its spans taken as sets.
Emission == INSTANCE WindowEmission
  WITH answers <- [i \in DOMAIN emitted |-> Elements(emitted[i])]

ImplementsEmission == Emission!Spec
=============================================================================
