SPECIFICATION Spec
CONSTANTS
  Threads = {m, a}
  Main = m
  MaxCpus = 2
  KeysMax = 2
  Wrappers = {w1, w2, w3}
  Values = {v1}
  Dtors = {d1}
  Null = Null
  Absent = Absent
  Iterations = 2
  RefMod = 6
  RefBound = 5
  DequeBound = 1
SYMMETRY Symmetry
INVARIANT FiberHasContext
CHECK_DEADLOCK FALSE
