CONSTANTS
    Token = {0, 1, 4, 5, 8}
    Special = {5}
    Cap = 4
    Home <- MCHome
    ClockMod = 16
    MaxGets = 7
    None = None
    HashOf <- MCHash
    Abbreviation <- MCAbbreviation
    LeastWords = 2
    Codes = 2
    Eos = 3
    GroupMax = 2
    GenCap = 2
    SizeMod = 64
    Rate = 10
    Frame = 8
    LeastFrame = 4
    LeastRun = 2
    SizeTMod = 16
    MaxTensors = 2
    MaxShards = 2
    MinRows = 8
    Half = 8
    Vector = 2
    Q4Block = 2
    PanelCols = 8
    RowBlock = 4
    Model <- MCModel
    BaseModel <- MCBase
    SizeOf <- MCSizeOf
    Shipped <- MCShipped
    ExprFile <- MCExprFile
    OldFile <- MCOldFile
    Width = 8
    GpuWith = {"bf16"}
    Steering = {"manual"}
    MaxRuns = 2
    Nothing = Nothing
    Piece <- MCPiece
    MayFollow <- MCMayFollow
    Bound <- MCBound
SPECIFICATION SeqSpec
INVARIANTS Restored Fresh ExprExact Right EncodingKeepsText VocabularyRight SampleRight BatchesRight AudioKept ModelRead KernelsRight
PROPERTIES ImplementsLru
CHECK_DEADLOCK FALSE
