SPECIFICATION Spec
CONSTANTS
  Thread = {a, b}
  None = None
  Torn = Torn
  BufferSize = 2
  SizeLimit = 2
  MaxRecords = 9
  MaxBatch = 2
  MaxFile = 4
INVARIANT LogExact
