CONSTANTS
  HalfRange = 8
  Null = Null
  Computed = Computed
  s1 = s1
  s2 = s2
  SeriesId <- MCSeriesId
  Counting <- MCKnowsStart
  KnowsStart <- MCKnowsStart
  FirstTick <- MCFirstTick
  LastTick <- MCLastTick
  Statement <- MCStatement
  MaxEvents = 3
  MaxRows = 3
SPECIFICATION Spec
INVARIANTS TypeOK ResetsAreRestarts IncreaseIsEarned ExtrapolationStaysInWindow RunsBegunInsideAnswer PushdownKeepsAnswers ScanIsBounded
CHECK_DEADLOCK FALSE
