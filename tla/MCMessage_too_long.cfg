SPECIFICATION Spec
CONSTANTS
    Patterns = {}
    Texts <- MCTexts
    Contents <- MCContents
    Levels = {2}
    BufSizes = {2048}
    SinkBuf = 2048
    LeadLen = 1
    MaxMsgLen = 3
    LenModulus = 8
    MaxEntries = 1
INVARIANTS
    ShownIsStored
CHECK_DEADLOCK FALSE
