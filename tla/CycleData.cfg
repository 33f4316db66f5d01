SPECIFICATION Spec
CONSTANTS
    Operations <- ThreeOperations
    Answers <- ThreeAnswers
    MaxAnswers <- TwoPages
    Creates <- CreateOps
    Inserts <- InsertOps
    Publishes <- Published
    Relations <- AllRelations
INVARIANTS
    EveryRecordKept
    LastPageWins
    LastListedStays
    ReferencesResolve
    RowsFitTables
CHECK_DEADLOCK FALSE
