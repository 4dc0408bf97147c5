SPECIFICATION Spec
CONSTANTS
    Patterns <- MCDocumentedPatterns
    Texts <- MCTexts
    Contents <- MCContents
    Levels = {2}
    BufSizes = {2048}
    SinkBuf = 2048
    LeadLen = 1
    MaxMsgLen = 3
    LenModulus = 8
    MaxEntries = 1
INVARIANTS
    CompiledAsDocumented
CHECK_DEADLOCK FALSE
