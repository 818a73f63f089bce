CONSTANTS
    h = h
    ua = ua
    None = None
    ExId = {x1, x2}
    ClientId <- MCClientId
    Tags <- MCTags
    MaxExchanges = 1
    MaxAge = 1
    MaxNow = 0
    MaxDeltas = 1
SPECIFICATION FairPipeSpec
INVARIANTS
    NeverStuck
    CallerProtocol
    EventOrder
    RestMatchesEvents
    CompletedAsAnswered
PROPERTIES
    RemovedSilent
    AnnouncedUnlessRunning
    Settles
