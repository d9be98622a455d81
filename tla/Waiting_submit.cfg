SPECIFICATION Spec
CONSTANTS
  Id = {wr1, wr2}
  Codes = {6, 8}
INVARIANTS
  SubmitZeroMeansSuccess
CHECK_DEADLOCK FALSE
