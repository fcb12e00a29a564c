CONSTANTS
  NULL = NULL
  Obj = {o1, o2, o3}
  MaxCid = 3
  Concurrent = FALSE
SPECIFICATION FairSpec
INVARIANTS TypeOK ReceiverEndsFirst AnsweredStreamHasDialog
PROPERTIES ErasedCallIsDown CallsReturn ByeReleasesStream
CHECK_DEADLOCK FALSE
