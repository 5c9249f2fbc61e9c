CONSTANTS
    Job = {j1, j2}
    Streams = {j1}
    B = 2
    GenCap = 2
    MaxPrompt = 1
    Slack = 1
    HelperModes = {TRUE, FALSE}
    Reader = {r1, r2}
    Cap = 1
    NoJob = NoJob
SPECIFICATION FairSpec
INVARIANTS ConnectionsOwned
PROPERTIES StopsWhenNoticed
CHECK_DEADLOCK FALSE
