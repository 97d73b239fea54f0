--------------------------- MODULE MCRateAggregate ---------------------------
(***************************************************************************)
(* Small instances of RateAggregate, on the 3-bit doubles of MCGridStream: *)
(* 0 is +0, 1 is +inf, 2 an ordinary NaN.                                  *)
(***************************************************************************)
EXTENDS RateAggregate, TLC

CONSTANTS s1, s2, s3

Slots == {s1, s2, s3}
SlotSymmetry == Permutations(Slots)
TwoSlots == {s1, s2}

MCRowTs == {Null, 0, 1, 2}
MCRowValue == {Null, 0, 2}
MCRowSt == {Null}

MCOneTs == {1}
MCPlainValue == {0, 1}
MCTwoSt == {0, 1}
=============================================================================
