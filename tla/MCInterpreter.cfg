SPECIFICATION MCSpec
CHECK_DEADLOCK FALSE
CONSTANTS
  Error = Error
  AssertionFailure = AssertionFailure
  NoFilter = NoFilter
  ExceptionType <- Types
  Filter <- Filters
  isKindOf <- isSubtypeOf
  MaxDepth = 6
  Lambda = {f, g, h}
  Primitive = {primitive}
  NoFunction = NoFunction
  MaxAnalyses = 4
  MaxActions = 1
INVARIANT TypeOK
INVARIANT HandlersNest
INVARIANT NothingForgotten
PROPERTY QueuedIsTaken
