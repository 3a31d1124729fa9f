\* min_max on files of events without a duration among others.
CONSTANTS
  UIntMax = 15
  Other = Other
  DataFiles <- EventFiles
  Replacements = {}
  MaxSizes = {}
  Increments = {}
  GapSizes = {}
  NumEvents = 0
  Parts = 2
  Unassigned <- UnassignedEvents
  Element = {1, 2}
  Garbage = {0}
  MaxArray = 0
  Threads = {1, 2, 4}
SPECIFICATION PSpec
INVARIANT ReportsExtremes
CHECK_DEADLOCK FALSE
