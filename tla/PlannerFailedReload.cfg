SPECIFICATION Spec
CONSTANTS
    k1 = k1
    k2 = k2
    N = 1
    Mode <- ReloadModes
    Params <- NoParams
    Filter <- AnyOf1
    Publishes <- NoParams
    Keys <- KeySet
    Ids <- IdSet
    WithoutAuth = {}
    Paged = {}
    Unreliable = {1}
    MaxChanges = 0
    MaxFailures = 1
    MaxRestarts = 0
INVARIANTS
    SnapshotComplete
CHECK_DEADLOCK FALSE
