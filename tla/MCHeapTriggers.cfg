SPECIFICATION Spec
CONSTANTS
  Object = {o1, o2, o3}
  Null = Null
  Tombstone = Tombstone
  NRoots = 1
  MaxSize = 4
  Shape <- TypedShapes
  StartupHeapSize = 1
  GammaFactor = 3
  GcDisabled = FALSE
  MaxLockDepth = 2
INVARIANTS
  EveryBlockListed
  HeapAccount
PROPERTIES
  RequestsAreServed
  CycleTerminates
