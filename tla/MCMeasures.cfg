\* All three policies, for each side of a join and for the query, over every pair of lists
\* that 6 events make.
CONSTANTS
  MaxTime = 4
  Factor = 1
  Policies = {"list", "index", "check"}
  Event <- AllEvents
  Lists <- OrderedLists
  ForestTable <- Forests
SPECIFICATION MSpec
INVARIANTS
  ScanExact
  WritesOnlyOverlaps
  ExactSoFar
  WritesWindowsOnly
PROPERTIES
  ScanOnce
  JoinsKeepPromise
  JumpsFromFirst
  StabsAhead
CHECK_DEADLOCK FALSE
