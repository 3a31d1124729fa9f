\* Blocks of 2 values, in two lists that hold up to 5 values together: both cross block
\* boundaries, both ways.
CONSTANTS
  C = 2
  Value = {1, 2}
  Raw = Raw
  List = {"one", "other"}
  MaxSize = 5
SPECIFICATION Spec
INVARIANTS
  TypeOK
  IteratorsStable
  Traversals
PROPERTY ImplementsStack
