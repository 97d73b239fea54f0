------------------------------ MODULE TimeGrid ------------------------------
(***************************************************************************)
(* src/kernel/grid.hpp (a live Grid: its constructor accepted the shape)   *)
(* and src/kernel/window.hpp.  Timestamps are unbounded integers here; the *)
(* 64-bit narrowing of grid and bound arithmetic is the subject of         *)
(* TickGrid.                                                               *)
(***************************************************************************)
EXTENDS Integers

CONSTANTS GridStart, GridEnd, GridStep, Width

\* What Grid's constructor checks before it returns, and Window's
\* precondition on its width.
ASSUME GridAssumption ==
  /\ GridStart \in Int /\ GridEnd \in Int /\ GridStep \in Int /\ Width \in Int
  /\ GridStep > 0
  /\ GridEnd >= GridStart
  /\ (GridEnd - GridStart) % GridStep = 0
  /\ Width >= 0

Count == (GridEnd - GridStart) \div GridStep + 1

At(i) == GridStart + i * GridStep

\* anchor - Width < t <= anchor
Contains(anchor, t) == anchor - Width < t /\ t <= anchor
=============================================================================
