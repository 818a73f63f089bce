CONSTANTS
    Server = {llm, ui}
    Work = {w1, w2}
    MaxSignals = 2
SPECIFICATION ShutSpec
INVARIANTS
    NeverHalfUp
    ClientOutlivesWork
PROPERTIES
    Stops
CHECK_DEADLOCK FALSE
