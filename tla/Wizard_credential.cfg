SPECIFICATION Spec
CONSTANTS
  Provider = {"AWS"}
  Zone = {"w"}
  NoGroup = {}
  Key = {"k1", "k2"}
  Codes = {5, 8}
  MaxRuns = 2
  None = None
INVARIANTS
  CredentialOfAKey
CHECK_DEADLOCK FALSE
