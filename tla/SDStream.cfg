CONSTANTS
    Window = 4
    ConvRF = 6
    Slack = 3
    PadCols = 2
    TailA = 3
    TailB = 2
    MaxFails = 1
    MaxChunk = 5
    MaxFrames = 12
    Zero = Zero
    Wrong = Wrong
SPECIFICATION Spec
INVARIANTS CachesRight ChunkedEqualsOneShot GlitchBounded
CHECK_DEADLOCK FALSE
