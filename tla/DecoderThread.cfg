CONSTANTS
    MaxFrames = 5
    Modes <- MCModes
    MaxRequests = 2
SPECIFICATION FairSpec
INVARIANTS NoUseAfterFree AudioRight
PROPERTIES SilentAfterAbort Returns
CHECK_DEADLOCK FALSE
