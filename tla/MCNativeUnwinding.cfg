SPECIFICATION Spec
CHECK_DEADLOCK FALSE
CONSTANTS
  Error = Error
  Notification = Notification
  ExceptionType <- Types
  Filter <- Types
  handlesException <- isSameType
  MaxDepth = 8
INVARIANTS
  TypeOK
  ChainIsLive
  TargetStaysOnChain
PROPERTIES
  CleanUpsRun
