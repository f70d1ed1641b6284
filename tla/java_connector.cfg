SPECIFICATION Spec
CONSTANTS
    m1 = m1
    m2 = m2
    None = None
    MaxConnections = 2
    Messages = {m1, m2}
    Priority <- MCPriority
INVARIANTS
    TypeOK
    ClosedForCause
    SomebodyDisconnects
PROPERTIES
    Reconnects
    QueueDrains
CHECK_DEADLOCK FALSE
