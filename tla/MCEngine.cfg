SPECIFICATION EngineSpec
CONSTANTS
  a = a
  b = b
  k1 = k1
  k2 = k2
  v1 = v1
  v2 = v2
  Thread = {a, b}
  Writer = {a}
  Key = {k1, k2}
  Value = {v1, v2}
  Tombstone = Tombstone
  None = None
  Garbage = Garbage
  MaxTranc = 0
  NodeBytes = 10
  ValueBytes <- MCValueBytes
  Batch <- MCBatch
  KeyList <- MCKeyList
  Limit = 21
  Ratio = 1
  MaxId = 1
  MaxCalls = 6
INVARIANTS
  EngineTypeOK
  EngineNoEntryLost
  IndexSound
  MemoryBounded
  ClosedIsDrained
PROPERTY
  GetFindsPut
