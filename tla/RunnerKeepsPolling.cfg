SPECIFICATION Spec
CONSTANTS
    Callers = {c1}
    Readers = {}
    HistoryLimit = 1
    CanFullSync = TRUE
    MaxCycles = 2
    MaxRequests = 0
    MaxTriggers = 1
CHECK_DEADLOCK FALSE
INVARIANT FailedCycleKeepsPolling
