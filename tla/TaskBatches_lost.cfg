SPECIFICATION Spec
CONSTANTS
  NumTasks = 5
  BatchSize = 2
  ThreadChoices = {1, 2}
  MaxAttempts = 3
  Named = {0, 1}
  Taken = {}
  Drops = {0, 1}
  MaxInterrupts = 1
INVARIANTS
  ReturnsWhole
  AtMostOnce
  EndsClean
PROPERTIES
  NoneSentAfterFailure
  ImplementsUpload
CHECK_DEADLOCK FALSE
