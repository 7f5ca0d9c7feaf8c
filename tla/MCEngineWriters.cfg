SPECIFICATION EngineFairSpec
CONSTANTS
  a = a
  b = b
  k1 = k1
  k2 = k2
  v1 = v1
  v2 = v2
  Thread = {a, b}
  Writer = {a, b}
  Key = {k1, k2}
  Value = {v1, v2}
  Tombstone = Tombstone
  None = None
  Garbage = Garbage
  MaxTranc = 0
  NodeBytes = 10
  ValueBytes <- MCValueBytes
  Batch <- MCBatch
  KeyList <- MCKeyList
  Limit = 21
  Ratio = 0
  MaxId = 3
  MaxCalls = 3
INVARIANTS
  Level0Bounded
PROPERTY
  EngineCallsReturn
