SPECIFICATION Spec
CONSTANTS
  t1 = t1
  t2 = t2
  Reader = {t1, t2}
  Key <- MCKey
  offset <- MCOffset
  block_size <- MCBlockSize
  file_size <- MCFileSize
  None = None
  capacity_ = 2
  k_ = 3
  MaxReads = 7
SYMMETRY Symmetry
INVARIANTS
  ListsMatchMap
  Coherent
PROPERTY
  ImplementsLru
