SPECIFICATION FairSpec
CONSTANTS
    Cap = 1
    Chunks <- MCChunks
    MaxOutput = 2
    HasCgroup = FALSE
PROPERTIES CancelReturns
CHECK_DEADLOCK FALSE
