CONSTANTS
  Globals <- GlobalVariables
  SlotTypes <- Slots
SPECIFICATION Spec
INVARIANT OperandsExist
INVARIANT WrittenBeforeRead
INVARIANT CodeIsVerified
INVARIANT MeansTheSame
INVARIANT EffectsInOrder
INVARIANT EvaluatorAgrees
INVARIANT NativeAgrees
INVARIANT RecordsFollowCalls
PROPERTY ProgramEnds
CHECK_DEADLOCK FALSE
