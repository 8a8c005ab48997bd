SPECIFICATION Spec
CHECK_DEADLOCK FALSE
CONSTANTS
  Error = Error
  AssertionFailure = AssertionFailure
  NoFilter = NoFilter
  ExceptionType <- Types
  Filter <- Filters
  isKindOf <- isSubtypeOf
  MaxDepth = 6
PROPERTIES
  ContinueFindsItsLoop
