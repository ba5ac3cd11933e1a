SPECIFICATION Spec
CONSTANTS
  Items <- TwoItems
  Sort <- SEXP_list_sort
  MaxCobjs = 2
  Overlap = TRUE
CHECK_DEADLOCK FALSE
PROPERTY ImplementsSetAlgebra
