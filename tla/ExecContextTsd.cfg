SPECIFICATION DisciplinedSpec
CONSTANTS
  Threads = {m, a}
  Main = m
  MaxCpus = 2
  KeysMax = 2
  Wrappers = {w1, w2, w3}
  Values = {v1, v2}
  Dtors = {d1, d2}
  Null = Null
  Absent = Absent
  Iterations = 2
  RefMod = 6
  RefBound = 5
  DequeBound = 1
PROPERTY TsdSpec
SYMMETRY Symmetry
CHECK_DEADLOCK FALSE
