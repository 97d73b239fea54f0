---------------------------- MODULE MCGridStream ----------------------------
(***************************************************************************)
(* Small instances of GridStream.  Values are 3-bit doubles: 0 and 4 are   *)
(* +0 and -0, 1 is +inf, 2 an ordinary NaN, 3 the stale marker.            *)
(***************************************************************************)
EXTENDS GridStream

MCTime == -1 .. 4
MCFedValue == {0, 2, 3}
MCStartTs == {"none", "st"}

MCLongTime == -2 .. 7
MCPlainValue == {0}
MCNoStartTs == {"none"}

MCUnitTime == 1 .. 8
=============================================================================
