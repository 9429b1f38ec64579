SPECIFICATION Spec
CONSTANTS
  Null = Null
  MaxSize = 5
  Capacity = 3
  Sizes = {1, 2, 4, 6}
  MaxSeq = 8
INVARIANTS
  ReplayExact
PROPERTIES
  ImplementsLog
CHECK_DEADLOCK FALSE
