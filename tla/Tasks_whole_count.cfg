SPECIFICATION Submitting
CONSTANT NoValue = NoValue
INVARIANTS
  WholeCount
CHECK_DEADLOCK FALSE
