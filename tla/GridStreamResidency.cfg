\* Windows of width 1 eight apart, one sample per time unit.
CONSTANTS
  SignBit = 4
  Infinity = 1
  Stale = 3
  GridStart = 0
  GridEnd = 8
  GridStep = 8
  Width = 1
  Time <- MCUnitTime
  FedValue <- MCPlainValue
  StartTs <- MCNoStartTs
  MaxFed = 8
  EmitMayThrow = FALSE
SPECIFICATION Spec
INVARIANTS WindowBoundedResidency
