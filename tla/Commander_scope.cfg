SPECIFICATION Spec
CONSTANTS
  Unusable = {}
  Unattended = FALSE
  MaxEdits = 1
  MaxNested = 2
  MaxCommands = 1
PROPERTIES
  RunsTheScopeShown
CHECK_DEADLOCK FALSE
