SPECIFICATION Spec
CONSTANTS
  t1 = t1
  t2 = t2
  t3 = t3
  a = a
  b = b
  Threads <- MCTwoThreads
  Contents <- MCContents
  ItemIDs <- MCIDs
  SEXP_ID_v <- MCHash
  queue_max = 2
  MemThreshold = 0
  MaxItems = 2
  CancelOn = TRUE
  ICacheThread = ICacheThread
  NoOne = NoOne
CHECK_DEADLOCK FALSE
SYMMETRY MCSymmetry
INVARIANT
  TypeOK
  RingConsistent
  SyncOwnsObject
  EachItemOnce
  UniqueIDs
  NopNotForgotten
PROPERTY ImplementsItemCollection
