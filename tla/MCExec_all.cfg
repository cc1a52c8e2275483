SPECIFICATION FairSpec
CONSTANTS
    Cap = 3
    Chunks <- MCChunks
    MaxOutput = 6
    HasCgroup = TRUE
INVARIANTS TypeOK OutputCapped KilledForCause LostOnlyByCap
PROPERTIES CancelReturnsOrLost
CHECK_DEADLOCK FALSE
