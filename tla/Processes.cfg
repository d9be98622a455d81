\* Of EventStream: time in units of five seconds
SPECIFICATION Spec
CONSTANTS
  None = None
  Thread = {"p", "q"}
  Lazies = {"args", "config", "client"}
  Needs <- NeedsOf
  MaxReads = 2
  Command = "yd"
  Children = {"rclone", "other"}
  MaxRecords = 2
  Instance = {"i", "j"}
  StatesBefore <- EveryKind
  MaxDrops = 2
  NamesBefore <- OneDigit
  Adding = 2
  OtherAdding = 2
  MaxPolls = 2
  Id = {"wr1", "wr2"}
  Codes = {6, 8}
  RetryInterval = 1
  MaxRetryInterval = 6
  MaxOutage = 60
  ReadTimeout = 60
  ConnectTimeout = 2
  MaxAttempts = 3
  Settling = TRUE
  Unusable = {}
  Unattended = FALSE
  MaxEdits = 1
  MaxNested = 2
  MaxCommands = 2
  Target = {1, 2, 3, 4}
  Thing = {11, 12, 13}
  Names <- Named
  UnitOf <- Together
  ActionCodes = {5, 6, 8}
  Task = {"t1", "t2", "t3"}
  Unit <- Overlapping
  Runs = {"r1", "r2"}
  Local = {"a", "b"}
  Path = {"x", "y", "z"}
  Uploads <- TwoRuns
  Nodes = {"n1", "n2"}
  GivenNodes <- GivenOnce
  NodeCodes = {1, 6, 8}
  Configured <- OfConfiguration
  Specified <- OfSpecification
  Targets <- OfOption
  BatchSizes = {2}
  ProvisionCodes = {1, 5}
INVARIANTS
  BuiltOnce
  NoneLeft
  ReturnsDone
  ExitTellsCause
  EachRecordedOnce
  AttemptedOnce
  OwnInputs
  ProvisionedAsAsked
  OutageBounded
  NotGivenUpEarly
  StopHeeded
PROPERTIES
  FoundKept
  NumberedOn
  ActsOnWhatWasAgreed
  NewerStands
  Ends
CHECK_DEADLOCK FALSE
