SPECIFICATION FairSpec
CONSTANTS
  t1 = t1
  t2 = t2
  c = c
  l = l
  s = s
  x = x
  Thread = {t1, t2}
  Counter = {c}
  List = {l}
  Set = {s}
  Other = {}
  Elem = {x}
  Command = {"SET", "GET", "INCR", "DECR", "DEL", "EXPIRE", "TTL", "LPUSH", "RPUSH", "LPOP", "RPOP", "LLEN", "LRANGE", "SADD", "SREM", "SISMEMBER", "SCARD", "SMEMBERS"}
  None = None
  MaxNow = 1
  MaxCalls = 4
INVARIANTS
  TypeOK
  CounterExact
  ListConserved
PROPERTY
  CommandsReturn
