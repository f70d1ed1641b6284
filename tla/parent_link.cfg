SPECIFICATION LinkSpec
CONSTANTS
    c1 = c1
    c2 = c2
    None = None
    Conns = {c1, c2}
    MaxBreaks = 3
INVARIANTS
    TypeOK
    RouteIsRegistered
PROPERTIES
    ImplementsLink
    ShutdownEnds
CHECK_DEADLOCK FALSE
