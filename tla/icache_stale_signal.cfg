SPECIFICATION Spec
CONSTANTS
  t1 = t1
  t2 = t2
  t3 = t3
  a = a
  b = b
  Threads <- MCOneThread
  Contents <- MCContents
  ItemIDs <- MCIDs
  SEXP_ID_v <- MCHash
  queue_max = 2
  MemThreshold = 0
  MaxItems = 2
  CancelOn = FALSE
  ICacheThread = ICacheThread
  NoOne = NoOne
CHECK_DEADLOCK FALSE
INVARIANT WokenForWork
