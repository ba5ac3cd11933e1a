SPECIFICATION FairSpec
CONSTANTS
  t1 = t1
  t2 = t2
  t3 = t3
  a = a
  b = b
  Threads <- MCThreeThreads
  Contents <- MCOneContent
  ItemIDs <- MCIDs
  SEXP_ID_v <- MCOneHash
  queue_max = 1
  MemThreshold = 1
  MaxItems = 1
  CancelOn = FALSE
  ICacheThread = ICacheThread
  NoOne = NoOne
CHECK_DEADLOCK FALSE
INVARIANT NoLostWakeup
PROPERTY
  ItemsArrive
  CallsReturn
  FreeReturns
