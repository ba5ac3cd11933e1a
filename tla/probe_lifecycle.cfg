CONSTANTS
    Requests <- MCRequests
    Objects <- MCObjects
    ObjectOf <- MCObjectOf
    Sets <- MCSets
    Filtered <- MCFiltered
    Skipped <- MCSkipped
    MaxResets = 1
    SpawnMayFail = TRUE
SPECIFICATION FairSpec
INVARIANTS
    TypeOK
    SafeInService
    CleanClose
    RegisteredHelperLives
    TreeHoldsRunningWorkers
PROPERTIES
    ImplementsService
    RequestsAnswered
    ShutdownEnds
CHECK_DEADLOCK FALSE
