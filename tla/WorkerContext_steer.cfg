CONSTANTS
    Clone = {c1, c2}
    Base = base
    SteerAtStart = TRUE
    InstructAtStart = TRUE
    MaxRequests = 2
    Null = Null
SPECIFICATION Spec
INVARIANTS NoDangling
CHECK_DEADLOCK FALSE
