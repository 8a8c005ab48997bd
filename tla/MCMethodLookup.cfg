SPECIFICATION Spec
CONSTANTS
  AnyValue = AnyValue
  Integer = Integer
  String = String
  printString = printString
  doesNotUnderstand = doesNotUnderstand
  m1 = m1
  m2 = m2
  Null = Null
  Type <- Types
  Lineage <- Lineages
  Selector = {printString, doesNotUnderstand}
  Method = {m1, m2}
  Primitive = {m1}
  Site <- Sites
  selectorOf <- siteSelector
  EntryCount = 2
  CacheIndex <- SharedIndex
CONSTRAINT
  OnlyAnyValueMisunderstands
INVARIANTS
  TypeOK
  CachesAgree
  OneMatchPerType
PROPERTIES
  ImplementsDispatch
