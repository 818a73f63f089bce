CONSTANTS
    h = h
    ua = ua
    None = None
    ExId = {x1, x2, x3}
    ClientId <- MCClientId
    Tags <- MCTags
    MaxExchanges = 2
    MaxAge = 1
    MaxNow = 2
SYMMETRY Symmetry
SPECIFICATION StoreSpec
INVARIANTS
    TypeOK
    StoredOnce
    PendingResolves
    OwnerRegistered
    RingBounded
    RingByAge
PROPERTIES
    SequenceStable
    RemovedNotReadded
    AppendPurgesExpired
    ImplementsLedger
