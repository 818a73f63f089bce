CONSTANTS
    None = None
    Conn = {c1}
    Conv = {v1}
    QueueSize = 1
    MaxEmits = 1
    Interval = 3
    Timeout = 3
    Late = 1
    Answer = 2
    Horizon = 13
SPECIFICATION PingSpec
INVARIANTS
    SilentPruned
PROPERTIES
    PromptNeverClosed
CHECK_DEADLOCK FALSE
