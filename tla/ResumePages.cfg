SPECIFICATION FairSpec
CONSTANTS
    Operations <- Regular
    PageSize = 2
    MaxLength = 8
    MaxFailures = 2
INVARIANTS
    CheckpointComplete
PROPERTIES
    CheckpointNeverBack
    EventuallyStored
