SPECIFICATION Spec
CONSTANTS
    Callers = {}
    Readers = {r1}
    HistoryLimit = 2
    CanFullSync = TRUE
    MaxCycles = 3
    MaxRequests = 1
    MaxTriggers = 0
INVARIANTS
    TypeOK
    HistoryIsRecentRuns
    OutcomeMatchesEffects
    CheckpointsFollowApply
    RunCountsItsRequests
    NoStaleCounters
CHECK_DEADLOCK FALSE
