\* As many elements as workers.
CONSTANTS
  MinT = 0
  MaxT = 6
  MaxSize = 3
  Workers = {2, 3}
  Unwritten = Unwritten
  Calls <- DistinctCalls
SPECIFICATION Spec
INVARIANT MergeReturns
