SPECIFICATION Spec
CONSTANTS
    h1 = h1
    h2 = h2
    c1 = c1
    c2 = c2
    g1 = g1
    g2 = g2
    p1 = p1
    t1 = t1
    t2 = t2
    None = None
    Types = {t1}
    Prefix <- MCPrefix
    Handlers = {h1, h2}
    Conns = {c1, c2}
    GatewayIds = {g1, g2}
    PluginIds = {p1}
    HasParent = TRUE
    OneConnectionPerGateway = TRUE
    BalancedPeers = FALSE
    MaxRegs = 1
    MaxPullRegs = 1
    MaxExported = 0
INVARIANTS
    TypeOK
    NoDanglingHandler
    NoDanglingConnection
    RoutesResolve
    CallsAreValid
SYMMETRY Symmetry
