SPECIFICATION FibersSpec
CONSTANTS
  MaxDepth = 2
  Positions = {p, q}
  Comparators = {c1, c2}
  Null = Null
SYMMETRY Symmetry
INVARIANT NoFiberInFastPath
