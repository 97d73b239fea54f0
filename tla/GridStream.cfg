\* Overlapping windows (width 3, step 2), colliding timestamps of every rank.
CONSTANTS
  SignBit = 4
  Infinity = 1
  Stale = 3
  GridStart = 0
  GridEnd = 2
  GridStep = 2
  Width = 3
  Time <- MCTime
  FedValue <- MCFedValue
  StartTs <- MCStartTs
  MaxFed = 3
  EmitMayThrow = FALSE
SPECIFICATION FairSpec
INVARIANTS TypeOK WindowsExact
PROPERTIES AllAnswered ImplementsEmission
