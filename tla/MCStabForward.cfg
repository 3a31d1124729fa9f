\* Forests filled event by event, and helpers under the policies that use the index.
CONSTANTS
  MaxTime = 9
  MaxEvents = 9
  ShortTime = 3
  ShortLen = 5
  Durations = {0, 4}
  Event <- AllEvents
  Policies = {"index", "check"}
  Factor = 1
SPECIFICATION FSpec
INVARIANTS
  TypeOK
  StabSearchExact
  EachEventOnce
  ListsOrdered
  BinaryCounter
  PathsDescend
  WritesOnlyExpected
  LosesOnlyCurrentStart
PROPERTIES
  PlacedNodesStay
  StopsAfterValue
CONSTRAINT ShortOrSteady
CHECK_DEADLOCK FALSE
