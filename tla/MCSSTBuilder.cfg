SPECIFICATION Spec
CONSTANTS
  Key = {1, 2, 3}
  num_bits_ = 10
  num_hashes_ = 2
  hash1 <- MCHash1
  hash2 <- MCHash2
  Word = 16
  MaxTranc = 2
  Length = {0, 20, 60}
  KeyBytes = 4
  capacity = 60
  MaxEntries = 6
CHECK_DEADLOCK FALSE
INVARIANTS
  TypeOK
  KeepsEntries
  FindsBlock
  BlockBounded
  AdjustsExactly
  RangeExact
