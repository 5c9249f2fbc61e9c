CONSTANTS
    Helpers = {h1, h2}
    Callers = {scheduler, single}
    Together = TRUE
    MaxPieces = 2
    MaxJobs = 3
    None = None
SPECIFICATION FairSpec
INVARIANTS DecoderJobAlive
CHECK_DEADLOCK FALSE
