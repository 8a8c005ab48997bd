SPECIFICATION Spec
CONSTANTS
  Object = {o1, o2, o3}
  Null = Null
  Tombstone = Tombstone
  NRoots = 1
  MaxSize = 1
  Shape <- OneSlotShapes
  StartupHeapSize = 10
  GammaFactor = 3
  GcDisabled = FALSE
  MaxLockDepth = 0
SYMMETRY ObjectSymmetry
INVARIANTS
  TypeOK
  NoDanglingPointer
  TriColour
PROPERTIES
  ImplementsReachabilityHeap
