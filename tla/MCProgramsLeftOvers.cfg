\* initial_sort where the size is no multiple of the number of slices.
CONSTANTS
  UIntMax = 15
  Other = Other
  DataFiles <- EventFiles
  Replacements = {}
  MaxSizes = {}
  Increments = {}
  GapSizes = {}
  NumEvents = 0
  Parts = 2
  Unassigned <- UnassignedEvents
  Element = {1, 2}
  Garbage = {0}
  MaxArray = 6
  Threads = {1, 2, 4}
SPECIFICATION PSpec
INVARIANT SortsLeftOvers
CHECK_DEADLOCK FALSE
