SPECIFICATION Spec
CONSTANTS
  Threads = {m, a, b}
  Main = m
  MaxCpus = 2
  KeysMax = 1
  Wrappers = {w1, w2}
  Values = {v1}
  Dtors = {d1}
  Null = Null
  Absent = Absent
  Iterations = 2
  RefMod = 4
  RefBound = 3
  DequeBound = 1
SYMMETRY Symmetry
INVARIANTS IdsExclusive PoolExact
PROPERTY PoolSpec
CHECK_DEADLOCK FALSE
