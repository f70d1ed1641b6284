SPECIFICATION Spec
CONSTANTS
    root = root
    middle = middle
    leaf = leaf
    t1 = t1
    d1 = d1
    Types = {t1}
    Prefix <- MCPrefix
    Gateways = {root, middle, leaf}
    Parent <- Chain
    Pushes = {d1}
    MaxSubs = 2
    MaxChanges = 3
    MaxBreaks = 1
INVARIANTS
    TypeOK
    RefCounts
    CountsAreTotals
    AtMostOnce
PROPERTY
    NoneMissed
CHECK_DEADLOCK FALSE
