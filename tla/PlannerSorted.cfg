SPECIFICATION Spec
CONSTANTS
    k1 = k1
    k2 = k2
    N = 4
    Mode <- SortedModes
    Params <- SortedParams
    Filter <- SortedFilter
    Publishes <- SortedPublishes
    Keys <- KeySet
    Ids <- IdSet
    WithoutAuth = {4}
    Paged = {1, 3}
    Unreliable = {}
    MaxChanges = 2
    MaxFailures = 1
    MaxRestarts = 1
INVARIANTS
    SnapshotComplete
    FeedsDownstream
CHECK_DEADLOCK FALSE
