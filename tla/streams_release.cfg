CONSTANTS
  NULL = NULL
  Obj = {o1, o2}
  MaxCid = 2
  Concurrent = TRUE
SYMMETRY Symmetry
SPECIFICATION Spec
INVARIANT ReleasedOnce
CHECK_DEADLOCK FALSE
