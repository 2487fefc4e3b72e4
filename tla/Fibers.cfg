SPECIFICATION FibersSpec
CONSTANTS
  MaxDepth = 3
  Positions = {p, q}
  Comparators = {c1, c2}
  Null = Null
SYMMETRY Symmetry
INVARIANTS OnlyUntaggedFail RegistersRestored GuestAtOwnLevel ComparatorOwn
CHECK_DEADLOCK FALSE
