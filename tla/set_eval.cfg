SPECIFICATION Spec
CONSTANTS
  Items <- SmallItems
  Sort <- SEXP_list_sort
  MaxCobjs = 2
  Overlap = FALSE
CHECK_DEADLOCK FALSE
INVARIANT
  TypeOK
  ReadyToMerge
  FlagsKeepPromise
PROPERTY ImplementsSetAlgebra
