CONSTANTS
    None = None
    Conn = {c1, c2}
    Conv = {v1}
    QueueSize = 2
    MaxEmits = 3
SYMMETRY Symmetry
SPECIFICATION HubSpec
INVARIANTS
    HubTypeOK
    FreshestWins
    InOrder
    LostByOverflow
    TasksMatchRegistry
CHECK_DEADLOCK FALSE
