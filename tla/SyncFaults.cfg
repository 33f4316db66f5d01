SPECIFICATION FairSpec
CONSTANTS
    Keys = {"u1", "u2", "u3"}
    Producers <- TwoProducers
    Listing <- CommonListing
    Targets = {"postgres", "clickhouse"}
    Changing = {"u2", "u3"}
    MaxChanges = 1
    MaxFailures = 1
    MaxRestarts = 1
INVARIANTS
    TypeOK
    OneRowRemains
    CheckpointedAreKnown
PROPERTIES
    ImplementsLedger
    UsersConverge
    OrdersConverge
