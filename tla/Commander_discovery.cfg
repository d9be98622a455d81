SPECIFICATION Spec
CONSTANTS
  Unusable = {2}
  Unattended = FALSE
  MaxEdits = 2
  MaxNested = 2
  MaxCommands = 2
INVARIANTS
  FollowsTheFields
CHECK_DEADLOCK FALSE
