SPECIFICATION MCSpec
CONSTANTS
    MaxVersion = 3
    MaxOperations = 3
    MaxLocks = 2
    MaxCrashes = 2
INVARIANTS
    WriteTargetErased
    AcknowledgedNotLost
    ContentsInv
PROPERTIES
    RecoversStored
    WriteEventuallyDone
    OldestErased
    NothingSkipped
CHECK_DEADLOCK FALSE
