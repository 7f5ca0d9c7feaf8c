SPECIFICATION Spec
CONSTANTS
  t1 = t1
  t2 = t2
  k = k
  l = l
  v = v
  Thread = {t1, t2}
  Key = {k, l}
  Tranc = {0, 1, 2, 3}
  MaxTranc = 3
  Value = {v, Deleted}
  Deleted = Deleted
  Absent = Absent
  None = None
  MaxCalls = 4
INVARIANTS
  IdsUnique
  RepeatableReads
  CommitUnconflicted
CHECK_DEADLOCK FALSE
SYMMETRY MCSymmetry
