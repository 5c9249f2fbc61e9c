CONSTANTS
    Workers = {w1, w2}
    Submitters = {s1, s2}
    MaxChunks = 2
    MaxCalls = 2
    MaxResizes = 2
    EarlyDispatch = FALSE
    NoJob = NoJob
    MaxPieces = 2
    MaxJobs = 2
SPECIFICATION PoolsSpec
INVARIANTS TypeOK JobFrameAlive NoLostWakeup DecoderJobAlive
PROPERTIES EveryCallReturns StopJoins ImplementsParallelFor DecoderImplementsParallelFor
CHECK_DEADLOCK FALSE
