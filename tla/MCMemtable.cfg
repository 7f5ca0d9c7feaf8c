SPECIFICATION Spec
CONSTANTS
  a = a
  b = b
  c = c
  k1 = k1
  k2 = k2
  v1 = v1
  v2 = v2
  Thread = {a, b}
  Key = {k1, k2}
  Value = {v1, v2}
  Tombstone = Tombstone
  None = None
  MaxTranc = 1
  NodeBytes = 10
  ValueBytes <- MCValueBytes
  Batch <- MCBatch
  KeyList <- MCKeyList
  MaxCalls = 5
SYMMETRY ThreadSymmetry
INVARIANTS
  TypeOK
  Exclusion
  ReadsAreSnapshots
  NoEntryLost
  BytesExact
