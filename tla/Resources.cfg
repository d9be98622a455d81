SPECIFICATION Spec
CONSTANT NoValue = NoValue
INVARIANTS
  CreatedIsTold
  InReferenceOrder
  TransferredAsTold
  WholeOrTold
  AsWritten
PROPERTIES
  OnlyWhatWasAsked
  MeansWhatItGives
CHECK_DEADLOCK FALSE
