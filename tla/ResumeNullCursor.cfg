SPECIFICATION FairSpec
CONSTANTS
    Operations <- Refusing
    PageSize = 2
    MaxLength = 2
    MaxFailures = 0
INVARIANTS
    ResumesFromCursor
