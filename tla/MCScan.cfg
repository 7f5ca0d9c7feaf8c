SPECIFICATION ScanSpec
CONSTANTS
  v = v
  Key = {1, 2}
  Tranc = {0, 1, 2}
  Value = {v, Removed}
  Removed = Removed
  None = None
  MaxSize = 5
INVARIANTS
  ScanAscends
  ScanAgreesWithGet
