\* The instance of RateOperator.cfg, held to one row per series of the input.
CONSTANTS
  SignBit = 4
  Infinity = 1
  Stale = 3
  GridStart = 1
  GridEnd = 2
  GridStep = 1
  Width = 1
  Time <- MCTime
  FedValue <- MCFedValue
  StartTs <- MCStartTs
  MaxFed = 3
  SeriesId <- MCSeriesId
  Null = Null
  Row <- MCRow
  MaxRows = 3
  th1 = th1
  th2 = th2
  Thread <- Threads
  NumBins = 2
  STANDARD_VECTOR_SIZE = 2
SPECIFICATION Spec
INVARIANTS OneRowPerSeries
