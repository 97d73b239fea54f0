--------------------------- MODULE MCRateOperator ---------------------------
(***************************************************************************)
(* Small instances of RateOperator, on the 3-bit doubles of MCGridStream.  *)
(***************************************************************************)
EXTENDS RateOperator

CONSTANTS th1, th2

Threads == {th1, th2}

MCSeriesId == {1, 2, 3}
MCTime == {1, 2}
MCFedValue == {0, 2}
MCStartTs == {"none"}

\* Every row of samples, and a NULL in each column.
MCRow ==
  [id : MCSeriesId, t : MCTime, v : MCFedValue, st : MCStartTs]
    \union [id : {3}, t : {Null}, v : {0}, st : MCStartTs]
    \union [id : {3}, t : {1}, v : {Null}, st : MCStartTs]
=============================================================================
