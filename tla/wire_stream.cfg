CONSTANTS
    m1 = m1
    m2 = m2
    m3 = m3
    n1 = n1
    Messages = {m1, m2, m3, n1}
    Sender <- SenderDef
    Priority <- PriorityDef
    Size <- SizeDef
    HeaderSize = 2
    Capacity = 2
    MaxDamage = 1
    ErrorPacket = ErrorPacket
SPECIFICATION Spec
INVARIANTS
    InStep
PROPERTIES
    ImplementsChannel
    ErrorsEndBoth
CHECK_DEADLOCK FALSE
