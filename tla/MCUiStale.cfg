CONSTANTS
    None = None
    ExId = {x1, x2}
    Conv = {v1, v2}
    Slot = {i1, i2}
    MaxMoves = 1
SYMMETRY Symmetry
SPECIFICATION UiSpec
INVARIANT PendingCardsResolve
CHECK_DEADLOCK FALSE
