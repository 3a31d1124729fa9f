\* The index policy: an event with the start of the current one.
CONSTANTS
  MaxTime = 4
  Factor = 1
  Policies = {"index"}
  Event <- AllEvents
  Lists <- OrderedLists
  ForestTable <- Forests
SPECIFICATION SkipSpec
INVARIANTS
  Complete
CHECK_DEADLOCK FALSE
