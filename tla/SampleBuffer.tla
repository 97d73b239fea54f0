---------------------------- MODULE SampleBuffer ----------------------------
(***************************************************************************)
(* src/kernel/sample_buffer.hpp: the paged arena of (t, v) samples and the *)
(* operations of SampleBuffer, as functions from a buffer to a buffer; and *)
(* src/kernel/window_walk.hpp, the walk over a sorted buffer.              *)
(*                                                                         *)
(* A buffer is [pages, bytes]: pages in allocation order, each with its    *)
(* capacity and the samples used of it, and the arena's own byte counter,  *)
(* here in samples.                                                        *)
(***************************************************************************)
EXTENDS DedupRank, TimeGrid, Sequences, FiniteSets

CONSTANT kInitialPageCapacity

ASSUME PageAssumption == kInitialPageCapacity \in Nat \ {0}

Page(capacity, data) == [capacity |-> capacity, data |-> data]

EmptyBuffer == [pages |-> <<>>, bytes |-> 0]

Last(s) == s[Len(s)]

Capacities(b) ==
  LET Upto[k \in 0 .. Len(b.pages)] ==
        IF k = 0 THEN 0 ELSE Upto[k - 1] + b.pages[k].capacity
  IN  Upto[Len(b.pages)]

\* Every sample in page order (for_each).
Samples(b) ==
  LET Upto[k \in 0 .. Len(b.pages)] ==
        IF k = 0 THEN <<>> ELSE Upto[k - 1] \o b.pages[k].data
  IN  Upto[Len(b.pages)]

add_page(b, capacity) ==
  [pages |-> Append(b.pages, Page(capacity, <<>>)), bytes |-> b.bytes + capacity]

\* Mutant of release_all: the last page's bytes are missed.
MutantRelease(b) ==
  [pages |-> <<>>, bytes |-> IF b.pages = <<>> THEN b.bytes ELSE Last(b.pages).capacity]

release_all(b) == [pages |-> <<>>, bytes |-> b.bytes - Capacities(b)]

\* Mutant of push: the last page is written past its capacity.
MutantPush(b, s) ==
  LET grown == IF b.pages = <<>> THEN add_page(b, kInitialPageCapacity) ELSE b
  IN  [grown EXCEPT !.pages[Len(grown.pages)].data = Append(@, s)]

\* A full last page (or none) first grows the arena by a page of twice its
\* capacity; earlier pages never move.
push(b, s) ==
  LET grown == IF b.pages = <<>> THEN add_page(b, kInitialPageCapacity)
               ELSE IF Len(Last(b.pages).data) = Last(b.pages).capacity
               THEN add_page(b, Last(b.pages).capacity * 2)
               ELSE b
  IN  [grown EXCEPT !.pages[Len(grown.pages)].data = Append(@, s)]

compact_to(b, samples) ==
  IF samples = <<>> THEN release_all(b)
  ELSE [add_page(release_all(b), Len(samples)) EXCEPT !.pages[1].data = samples]

\* The samples of s pushed one after the other.
PushAll(b, s) ==
  LET Upto[k \in 0 .. Len(s)] == IF k = 0 THEN b ELSE push(Upto[k - 1], s[k])
  IN  Upto[Len(s)]

merge(b, other) == PushAll(b, Samples(other))

\* The k-th in order is the sample with k - 1 before it.
stable_sort(s) ==
  LET Before(i, j) == s[i].t < s[j].t \/ (s[i].t = s[j].t /\ i < j)
      Rank(j) == Cardinality({i \in 1 .. Len(s) : Before(i, j)})
  IN  [k \in 1 .. Len(s) |-> s[CHOOSE j \in 1 .. Len(s) : Rank(j) = k - 1]]

\* Mutant of Collapse: the last sample of a timestamp is kept.
MutantCollapse(kept, s) ==
  IF kept # <<>> /\ Last(kept).t = s.t
  THEN [kept EXCEPT ![Len(kept)].v = s.v]
  ELSE Append(kept, s)

\* One sample of the sorted run against the ones kept so far.
Collapse(kept, s) ==
  IF kept # <<>> /\ Last(kept).t = s.t
  THEN IF dedup_policy(s.v, Last(kept).v)
       THEN [kept EXCEPT ![Len(kept)].v = s.v]
       ELSE kept
  ELSE Append(kept, s)

\* What is kept of a sorted run.
Collapsed(s) ==
  LET Upto[k \in 0 .. Len(s)] == IF k = 0 THEN <<>> ELSE Collapse(Upto[k - 1], s[k])
  IN  Upto[Len(s)]

sort_dedup(b) == compact_to(b, Collapsed(stable_sort(Samples(b))))

\* The run with from <= t <= to of the front page, found by two binary
\* searches; a buffer that is not one sorted page is outside its precondition.
slice(b, from, to) ==
  IF b.pages = <<>> THEN <<>>
  ELSE LET data == b.pages[1].data
           Below == Cardinality({k \in DOMAIN data : data[k].t < from})
           Upto == Cardinality({k \in DOMAIN data : data[k].t <= to})
       IN  SubSeq(data, Below + 1, Upto)

\* Where a pointer of window_walk that stood at from stops, its loop going on
\* over the samples numbered in passed.
Advance(n, from, passed) ==
  CHOOSE p \in from .. n : from + 1 .. p \subseteq passed /\ p + 1 \notin passed

\* The index ranges (lo, hi] of data admitted by each grid point's window.
window_walk(data) ==
  LET n == Len(data)
      walk[i \in 0 .. Count] ==
        IF i = 0 THEN [lo |-> 0, hi |-> 0]
        ELSE LET anchor == At(i - 1)
                 early == {k \in 1 .. n : data[k].t <= anchor}
                 out == {k \in early : ~Contains(anchor, data[k].t)}
             IN  [lo |-> Advance(n, walk[i - 1].lo, out),
                  hi |-> Advance(n, walk[i - 1].hi, early)]
  IN  [i \in 1 .. Count |-> walk[i]]
=============================================================================
