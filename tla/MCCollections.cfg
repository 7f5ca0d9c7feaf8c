SPECIFICATION CollectionsSpec
CONSTANTS
  t1 = t1
  t2 = t2
  h1 = h1
  z1 = z1
  f1 = f1
  g1 = g1
  v1 = v1
  v2 = v2
  a = a
  b = b
  Thread = {t1, t2}
  Counter = {}
  List = {}
  Set = {}
  Other = {h1, z1, f1}
  Hash = {h1}
  ZSet = {z1}
  Plain = {f1}
  Field = {f1, g1}
  Value = {v1, v2}
  Member = {a, b}
  Elem = {}
  Score <- MCScore
  Increment <- MCIncrement
  Word = 64
  Rounded = Rounded
  MaxPairs = 2
  Repeats = FALSE
  Short = Short
  Text = Text
  Command = {"SET", "DEL", "EXPIRE", "TTL", "HSET", "HDEL", "HGET", "HKEYS", "ZADD", "ZREM", "ZINCRBY", "ZRANGE", "ZSCORE", "ZCARD", "ZRANK"}
  None = None
  MaxNow = 1
  MaxCalls = 3
INVARIANTS
  HashExact
  ScoreNamesMember
  ScoreExact
SYMMETRY MCSymmetry
