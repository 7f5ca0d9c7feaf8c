SPECIFICATION Spec
CONSTANTS
  None = None
  Key = {1, 2, 3}
  MaxTranc = 1
  Value = {0, 2}
  MaxLevel = 3
  MaxNodes = 3
  KeyBytes = 4
  MaxRemoved = 1
INVARIANTS
  WellLinked
  GetsNewest
  RangeExact
  SizeExact
PROPERTY
  ImplementsMap
