------------------------------ MODULE TickGrid ------------------------------
(***************************************************************************)
(* src/kernel/grid.hpp, window.hpp and scan_bounds.hpp on the integers of   *)
(* [-HalfRange, HalfRange), the code's int64_t; its __int128_t              *)
(* intermediates are exact.  The arithmetic the code leaves in 64 bits      *)
(* wraps, as its builds do (in C++ a signed overflow is undefined).         *)
(***************************************************************************)
EXTENDS Integers

CONSTANT HalfRange   \* 2^63 in the code

ASSUME HalfRangeAssumption == HalfRange \in Nat \ {0}

MinTick == -HalfRange
MaxTick == HalfRange - 1
Tick == MinTick .. MaxTick

\* Mutant of int64: no narrowing.
MutantInt64(x) == x

\* A wider value narrowed to the code's integer.
int64(x) == ((x - MinTick) % (2 * HalfRange)) + MinTick

\* What Grid's constructor does not throw on.
Grid ==
  {g \in [start : Tick, end : Tick, step : Tick] :
     g.step > 0 /\ g.end >= g.start /\ (g.end - g.start) % g.step = 0}

count(g) == int64(int64((g.end - g.start) \div g.step) + 1)

at(g, i) == int64(g.start + int64(i * g.step))

index_of(g, t) == int64((t - g.start) \div g.step)

\* The scalar function: it throws (Error) where index_of would narrow.
ts_grid_index(t, grid_start, step, Error) ==
  LET index == (t - grid_start) \div step
  IN  IF step > 0 /\ index \in Tick THEN index ELSE Error

Contains(anchor, width, t) == anchor - width < t /\ t <= anchor

\* [start - window, end], and what each edge mode in mode adds to it.
scan_bounds(g, window, lookback, mode) ==
  LET Extra(bit) == IF bit \in mode THEN lookback ELSE 0
  IN  [lower |-> int64(g.start - window - Extra("LOOKBACK") - Extra("ANCHOR")),
       upper |-> int64(g.end + Extra("SMOOTH"))]
=============================================================================
