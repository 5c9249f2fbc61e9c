CONSTANTS
    Worker = {w1, w2}
    Conn = {c1, c2, c3}
    Cap = 1
    Serialize = TRUE
    MaxSignals = 1
    NoConn = NoConn
SPECIFICATION FairSpec
INVARIANTS OneOwner
PROPERTIES Drained ImplementsBoundedQueue
CHECK_DEADLOCK FALSE
