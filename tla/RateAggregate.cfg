\* Three states of one group, rows with NULLs and colliding timestamps, windows
\* that overlap, and an initial page of one sample so that the arena grows.
CONSTANTS
  SignBit = 4
  Infinity = 1
  Stale = 3
  GridStart = 1
  GridEnd = 2
  GridStep = 1
  Width = 2
  kInitialPageCapacity = 1
  s1 = s1
  s2 = s2
  s3 = s3
  Slot <- Slots
  HasSt = FALSE
  Null = Null
  RowTs <- MCRowTs
  RowValue <- MCRowValue
  RowSt <- MCRowSt
  MaxSamples = 3
SYMMETRY SlotSymmetry
SPECIFICATION Spec
INVARIANTS TypeOK FinalizeExact EachPayloadOwnedOnce BytesAccounted
CHECK_DEADLOCK FALSE
