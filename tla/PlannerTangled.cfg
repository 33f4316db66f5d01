SPECIFICATION FairSpec
CONSTANTS
    k1 = k1
    k2 = k2
    N = 3
    Mode <- TangledModes
    Params <- TangledParams
    Filter <- AnyOf3
    Publishes <- TangledPublishes
    Keys <- KeySet
    Ids <- IdSet
    WithoutAuth = {}
    Paged = {2, 3}
    Unreliable = {1, 2, 3}
    MaxChanges = 1
    MaxFailures = 2
    MaxRestarts = 1
INVARIANTS
    RequestedOnce
    KnownValuesRequested
    OneShotOnce
    CheckpointsBackedByRows
PROPERTIES
    PlanEnds
    PlanMovesOn
CHECK_DEADLOCK FALSE
