SPECIFICATION FairSpec
CONSTANTS
  None = None
  Filename = "oval.xml"
  DefinitionIds <- MCDefinitionIds
  Criteria <- MCCriteria
  Class <- MCClass
  Tests <- MCTests
  Objects <- MCObjects
  External = {"x", "y"}
  Locals <- MCLocals
  Values = {1, 2}
  Items <- MCItems
  MaxFailures = 1
  Documents <- MCDocuments
  Root = "b"
  ItemClusters <- MCItemClusters
  XccdfValues <- MCXccdfValues
  Applicable <- MCApplicable
  UserSelects <- MCUserSelects
  MaxEvaluations = 2
  MaxSelects = 1
  MaxCancels = 1
INVARIANTS TypeOK FreshVerdicts
PROPERTIES EvidenceStays ImplementsPolicyRun EvaluationEnds
CHECK_DEADLOCK FALSE
