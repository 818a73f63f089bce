CONSTANTS
    Char <- MCChar
    Nl = "nl"
    Byte <- MCByte
    Text <- MCText
    Encode <- MCEncode
    Decode <- MCDecode
    Kind <- MCKind
SPECIFICATION SseSpec
INVARIANTS
    Reassembles
    LiveAgrees
    CutsCostNoMessage
    WaitsOnlyBehindRaise
CHECK_DEADLOCK FALSE
