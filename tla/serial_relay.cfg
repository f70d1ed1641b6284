SPECIFICATION Spec
CONSTANTS
    r1 = r1
    r2 = r2
    air = air
    Radios = {r1, r2}
    Users = {r1, r2, air}
    Linked = TRUE
    MinTime = 1
    MaxTime = 3
    TimeModulus = 16
    Place <- PlaceDef
    RangeScale = 1
    TimeScale = 1
    HalfRange = 2
    HalfAge = 2
    Cycle = 2
    MaxEntries = 1
    MaxQueue = 1
    MaxPushes = 2
INVARIANT PassedExactly
PROPERTY NewsIsNewer
CHECK_DEADLOCK FALSE
SYMMETRY Symmetry
