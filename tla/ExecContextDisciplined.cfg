SPECIFICATION FairSpec
CONSTANTS
  Threads = {m, a, b}
  Main = m
  MaxCpus = 2
  KeysMax = 1
  Wrappers = {w1, w2, w3}
  Values = {v1}
  Dtors = {d1}
  Null = Null
  Absent = Absent
  Iterations = 2
  RefMod = 6
  RefBound = 5
  DequeBound = 1
INVARIANTS RefCountExact WrappersOwnedOnce NoUndefinedBehaviour DeadReleasesContext
PROPERTIES FreedOnlyWhenDone ThreadsEnd
CHECK_DEADLOCK FALSE
