SPECIFICATION Spec
CONSTANTS
    Patterns <- MCPatterns
    Texts <- MCTexts
    Contents <- MCContents
    Levels = {2, 5}
    BufSizes <- MCBufSizes
    SinkBuf = 2048
    LeadLen = 1
    MaxMsgLen = 3
    LenModulus = 8
    MaxEntries = 1
INVARIANTS
    CompiledAsMeant
    LineFits
    ClosedMeansComplete
    ColourIsReset
    LiteralShownIsStored
CHECK_DEADLOCK FALSE
