\* Longer series of plain values, overlapping windows: the buffer compacts with
\* live samples in it.
CONSTANTS
  SignBit = 4
  Infinity = 1
  Stale = 3
  GridStart = 0
  GridEnd = 6
  GridStep = 2
  Width = 3
  Time <- MCLongTime
  FedValue <- MCPlainValue
  StartTs <- MCNoStartTs
  MaxFed = 6
  EmitMayThrow = FALSE
SPECIFICATION Spec
INVARIANTS NothingAnswerableWaits ResidencyLaw
