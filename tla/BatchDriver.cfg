CONSTANTS
    Job = {j1, j2, j3}
    Streams = {j1}
    B = 2
    GenCap = 3
    MaxPrompt = 1
    Slack = 2
    HelperModes = {TRUE, FALSE}
    NoJob = NoJob
SPECIFICATION DriverFairSpec
INVARIANTS JobsRight
PROPERTIES Answered DriverStops
CHECK_DEADLOCK FALSE
