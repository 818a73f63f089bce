CONSTANTS
    h = h
    ua = ua
    None = None
    ExId = {x1, x2}
    ClientId <- MCOneClient
    Tags <- MCNoTags
    MaxExchanges = 2
    MaxAge = 1
    MaxNow = 0
SYMMETRY Symmetry
SPECIFICATION StoreSpec
INVARIANTS
    RemovalIsFinal
