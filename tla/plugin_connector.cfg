SPECIFICATION Spec
CONSTANTS
    t1 = t1
    t2 = t2
    l1 = l1
    l2 = l2
    Types = {t1, t2}
    Prefix <- MCPrefix
    Listeners = {l1, l2}
    Kinds = {"push", "pull", "response"}
    MaxCalls = 3
    MaxMessages = 2
INVARIANTS
    NoHandlerAfterEnd
    ListenersAreRouted
    OwedAreHeard
CHECK_DEADLOCK FALSE
