\* Every pair of sorted spans of up to 4 values, ties and sentinel values included.
CONSTANTS
  MinT = 0
  MaxT = 4
  MaxLen = 4
  Inputs <- AllInputs
SPECIFICATION FairSearch
INVARIANTS
  ReturnsMedian
  ThrowsOnlyUnsearchable
  AgreesWithFindMedian
PROPERTY SearchReturns
CHECK_DEADLOCK FALSE
