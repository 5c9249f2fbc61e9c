CONSTANTS
    Token = {a, b}
    MaxPrompt = 3
    MaxGen = 2
    MaxRequests = 3
    KvStart = 2
    Modes <- MCModes
SPECIFICATION CacheSpec
INVARIANTS CacheRight
CHECK_DEADLOCK FALSE
