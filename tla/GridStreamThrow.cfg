\* Windows with gaps between them (width 1, step 3) and a callback that may fail.
CONSTANTS
  SignBit = 4
  Infinity = 1
  Stale = 3
  GridStart = 0
  GridEnd = 6
  GridStep = 3
  Width = 1
  Time <- MCLongTime
  FedValue <- MCPlainValue
  StartTs <- MCNoStartTs
  MaxFed = 5
  EmitMayThrow = TRUE
SPECIFICATION Spec
INVARIANTS WindowsExact ResidencyLaw
