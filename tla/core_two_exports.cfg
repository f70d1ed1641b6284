SPECIFICATION Spec
CONSTANTS
    h1 = h1
    h2 = h2
    c1 = c1
    c2 = c2
    g1 = g1
    g2 = g2
    p1 = p1
    t1 = t1
    t2 = t2
    None = None
    Types = {t1}
    Prefix <- MCPrefix
    Handlers = {h1}
    Conns = {c1, c2}
    GatewayIds = {g1, g2}
    PluginIds = {}
    HasParent = FALSE
    OneConnectionPerGateway = TRUE
    BalancedPeers = TRUE
    MaxRegs = 1
    MaxPullRegs = 0
    MaxExported = 6
INVARIANT ExportsMatch
