\* Small files on which every program runs, and arrays of up to 5 elements.
CONSTANTS
  UIntMax = 15
  Other = Other
  DataFiles <- AllDataFiles
  Replacements <- OtherFiles
  MaxSizes <- SplitSizes
  Increments = {0, 1, 2}
  GapSizes = {1, 2, 4}
  NumEvents = 9
  Parts = 2
  Unassigned <- UnassignedEvents
  Element = {1, 2, 3}
  Garbage = {0, 2, 9}
  MaxArray = 5
  Threads = {1, 2, 3}
SPECIFICATION PSpec
INVARIANTS
  ReadsNumbers
  AppendsInOrder
  JoinsWhatItMeasures
  ReportsExtremesOfSpans
  SortsWhateverItReads
PROPERTY AllEnd
CHECK_DEADLOCK FALSE
