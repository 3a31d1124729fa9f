\* Four workers: four jobs, of which a round merges two and carries one.
CONSTANTS
  MaxSize = 16
  Workers = {4}
  Calls <- LongCalls
SPECIFICATION Spec
INVARIANT ReturnsEveryValue
