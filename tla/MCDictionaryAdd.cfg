CONSTANTS
  Key = {1, 2, 3, 4}
  Hash <- Hashes
  StoredHashes = 8
  Empty = Empty
  Tombstone = Tombstone
  MinCapacity = 2
  Value = {1, 2}
  ExpectedCapacities = {1, 2}
  Argument = {1, 2, 4}
  Object = {o1, o2, o3}
  None = None
  Pending = Pending
  MaxDepth = 3
SPECIFICATION Spec
SYMMETRY Objects
PROPERTY ImplementsKeyedStore
