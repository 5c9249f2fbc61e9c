CONSTANTS
    Layers = 2
    B = 2
    BatchKv = 5
    DeviceKv = 5
    CpLayers = 2
    Groups = 2
    Token = {"a", "b"}
    First = {"c"}
    Modes <- MCModes
    MaxPrompt = 2
    MaxGen = 2
    MaxRequests = 3
    MaxReady = 1
SPECIFICATION ForwardSpec
INVARIANTS SequenceRight CodesRight
CHECK_DEADLOCK FALSE
