----------------------------- MODULE DedupRank -----------------------------
(***************************************************************************)
(* src/kernel/stale.hpp and the duplicate-timestamp rule of                *)
(* src/kernel/sample_buffer.hpp (TotalOrderKey, RankOf, RankLess,          *)
(* dedup_policy).                                                          *)
(*                                                                         *)
(* A value is a double given by its bit pattern, an unsigned integer.  The *)
(* format is a parameter: SignBit is the weight of the sign bit (2^63 in   *)
(* the program), Infinity the pattern of +inf, Stale the pinned stale      *)
(* marker, one particular NaN.                                             *)
(***************************************************************************)
EXTENDS Integers

CONSTANTS SignBit, Infinity, Stale

ASSUME DoubleAssumption ==
  /\ SignBit \in Nat /\ Infinity \in Nat /\ Stale \in Nat
  /\ 0 < Infinity /\ Infinity < Stale /\ Stale < SignBit

Value == 0 .. 2 * SignBit - 1

Magnitude(v) == IF v >= SignBit THEN v - SignBit ELSE v

IsNaN(v) == Magnitude(v) > Infinity

is_stale(v) == v = Stale

\* Inverts a negative pattern and sets the sign bit of a non-negative one.
TotalOrderKey(v) == IF v >= SignBit THEN 2 * SignBit - 1 - v ELSE v + SignBit

RankOf(v) ==
  [tier |-> IF is_stale(v) THEN 0 ELSE IF IsNaN(v) THEN 1 ELSE 2,
   key  |-> TotalOrderKey(v)]

RankLess(a, b) ==
  \/ a.tier < b.tier
  \/ a.tier = b.tier /\ a.key < b.key

\* TRUE iff challenger must replace incumbent as the kept value.
dedup_policy(challenger, incumbent) ==
  RankLess(RankOf(incumbent), RankOf(challenger))
=============================================================================
