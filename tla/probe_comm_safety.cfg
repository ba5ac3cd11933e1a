SPECIFICATION Spec
CONSTANTS
  p = p
  q = q
  r = r
  T = T
  S = S
  A = A
  B = B
  C = C
  D = D
  E = E
  f1 = f1
  f2 = f2
  v1 = v1
  u1 = u1
  w1 = w1
  Probes <- MCProbes
  Objects <- MCObjects
  States <- MCStates
  Variables <- MCVariables
  ProbeOf <- MCProbeOf
  Members <- MCMembers
  Filters <- MCFilters
  VarRefs <- MCVarRefs
  StateVars <- MCStateVars
  TestVars <- MCTestVars
  VarObject <- MCVarObject
  Rank <- MCRank
  Supported <- MCSupported
  CollectFlags <- MCFlags
  MaxQueries = 2
  MaxCrashes = 2
CHECK_DEADLOCK FALSE
INVARIANT
  TypeOK
  ReplyMatches
  QuietWhenIdle
  NoDoubleEvaluation
  ReportsCachedResult
  SetsSeeMembers
PROPERTY FlagsAreFinal
