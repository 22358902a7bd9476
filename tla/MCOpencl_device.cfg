SPECIFICATION FairSpec
CONSTANTS
    d1 = d1
    Devices = {d1}
    Free = Free
    NotSet = NotSet
    Other = Other
INVARIANTS
    TypeOK
    LockInsideCallbacks
    OwnResults
    FailedBatchNotStored
PROPERTIES
    ErrorEndsProcess
    CleanupEnds
