SPECIFICATION Spec
CONSTANTS
  Thing = {"w1", "w2", "k", "p1", "p2", "n"}
  TypeOf <- Typed
  CommandLines <- Lines
  CommandCodes = {1, 8}
  CRs = {"c1", "c2"}
  Instances = {"i1", "i2", "j"}
  Nodes = {"n1", "n2"}
  CrOf <- OwnerOf
  RunsOn <- RunningOn
  Actions = {"stop", "restart", "terminate", "autoshutdown"}
  ComputeLines <- Actioned
  ListedPools <- PoolsThere
  AUTO_SHUTDOWN_POOLS_CHECKED = 1
  StatusesBefore = {"RUNNING", "TERMINATED"}
  ComputeCodes = {1, 8}
  Fields = {"w", "g", "h", "v", "a", "b"}
  DocOf <- Whose
  UpdateLines <- Updated
  MinNodes = 0
  MaxNodes = 1
  UpdateCodes = {1, 6, 8}
  None = None
  Pools <- ThePools
  Stages <- TheStages
  Comparisons <- TheRuns
  CompareCodes = {4, 5, 7}
INVARIANTS
  
  FollowedIsFinished
  ComputeAsAsked
  ComparedAlike
PROPERTIES
  OthersChangesKept
CHECK_DEADLOCK FALSE
