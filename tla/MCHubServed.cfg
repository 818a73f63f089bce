CONSTANTS
    None = None
    Conn = {c1, c2}
    Conv = {v1, v2}
    QueueSize = 1
    MaxEmits = 2
SYMMETRY Symmetry
SPECIFICATION HubSpec
INVARIANTS
    OpenMeansServed
CHECK_DEADLOCK FALSE
