CONSTANTS
    None = None
    ExId = {x1, x2}
    Conv = {v1, v2}
    Slot = {i1, i2}
    MaxMoves = 3
SYMMETRY Symmetry
SPECIFICATION UiSpec
INVARIANTS
    SettledInSync
    LiveOfFocus
PROPERTIES
    ServerIsLedger
CHECK_DEADLOCK FALSE
