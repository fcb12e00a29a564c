CONSTANTS
  NULL = NULL
  Obj = {o1, o2, o3}
  MaxCid = 3
  Concurrent = TRUE
SYMMETRY Symmetry
SPECIFICATION Spec
INVARIANTS MapHasLiveInstances HandleOutlivesCall
CHECK_DEADLOCK FALSE
