SPECIFICATION FairSpec
CONSTANTS
    MaxRPM = 2
    TokenTime = 2
    MaxRetries = 2
    BasicDelay = 1
INVARIANTS
    WaitIsBounded
    RateIsBounded
    RetryPolicy
PROPERTIES
    SendsOnlyWhenDue
    FetchEnds
