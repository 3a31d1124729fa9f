\* Up to 5 distinct values and 1 to 4 workers; up to 4 repeating ones and 1 to 3.
CONSTANTS
  MinT = 0
  MaxT = 6
  MaxSize = 5
  Workers = {1, 2, 3, 4}
  Unwritten = Unwritten
  Calls <- AllCalls
SPECIFICATION FairSpec
INVARIANTS
  RaceFree
  NoThreadOutlivesCall
  PiecesInOrder
PROPERTIES
  ImplementsContract
  AnswersOrdinary
