SPECIFICATION FairSpec
CONSTANTS
    NumItems = 2
    Operations <- Regular
    PageSize = 1
    MaxMark = 3
    MaxChanges = 5
    MaxFailures = 1
INVARIANTS
    ExcludedIsStored
PROPERTIES
    WatermarkNeverBack
    EventuallyStored
