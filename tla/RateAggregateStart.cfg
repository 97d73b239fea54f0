\* The start_ts overload, two rows of one timestamp.
CONSTANTS
  SignBit = 4
  Infinity = 1
  Stale = 3
  GridStart = 1
  GridEnd = 2
  GridStep = 1
  Width = 2
  kInitialPageCapacity = 1
  s1 = s1
  s2 = s2
  s3 = s3
  Slot <- TwoSlots
  HasSt = TRUE
  Null = Null
  RowTs <- MCOneTs
  RowValue <- MCPlainValue
  RowSt <- MCTwoSt
  MaxSamples = 3
SPECIFICATION Spec
INVARIANTS SurvivorKeepsItsStart
CHECK_DEADLOCK FALSE
