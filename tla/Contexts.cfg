CONSTANTS
    Clone = {c1, c2}
    Base = base
    SteerAtStart = FALSE
    InstructAtStart = TRUE
    MaxRequests = 2
    Null = Null
    Speaker = {ryan, vivian}
    Language = {english, italian}
    Ryan = ryan
    English = english
    VoiceClone = FALSE
    OwnSpeaker = ryan
    OwnLanguage = english
    Mood = {joy, sad}
    Installable = {joy}
    Large = TRUE
    Chunk = {10}
    ChunkDefault = 10
    SpanLists <- MCSpanLists
    MaxServed = 3
SPECIFICATION ContextsSpec
INVARIANTS BuffersSound SettingsApart
CHECK_DEADLOCK FALSE
