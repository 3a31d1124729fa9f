\* Long enough for 1 to 9 workers to merge without an empty piece.
CONSTANTS
  MaxSize = 24
  Workers = {1, 2, 3, 4, 5, 6, 7, 8, 9}
  Calls <- LongCalls
SPECIFICATION FairSpec
INVARIANTS
  SortedAndApart
  NothingLost
PROPERTY Ends
