SPECIFICATION Spec
CONSTANTS
  data = data
  model = model
  there = there
  Kinds <- AllKinds
  NumGroups = 2
  NumBatches = 2
  File <- Files
  Reads <- Inputs
  Preexisting <- AlreadyThere
  MaxInterrupts = 2
INVARIANTS
  SuccessIsWhole
  HeldBeforeTasks
  CancelledOnFailure
  AddedToIsLeft
  LiveTasksHaveInputs
  NothingLeftBehind
CHECK_DEADLOCK FALSE
