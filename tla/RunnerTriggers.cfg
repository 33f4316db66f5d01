SPECIFICATION FairSpec
CONSTANTS
    Callers = {c1}
    Readers = {}
    HistoryLimit = 1
    CanFullSync = FALSE
    MaxCycles = 3
    MaxRequests = 0
    MaxTriggers = 2
INVARIANTS
    TriggersConserved
PROPERTIES
    CycleEnds
    TriggerStartsCycle
    CancelStopsRun
CHECK_DEADLOCK FALSE
