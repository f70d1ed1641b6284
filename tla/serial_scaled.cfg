SPECIFICATION Spec
CONSTANTS
    r1 = r1
    r2 = r2
    air = air
    Radios = {r1, r2}
    Users = {r1, r2, air}
    Linked = FALSE
    MinTime = 15
    MaxTime = 18
    TimeModulus = 58
    Place <- PlaceDef
    RangeScale = 4
    TimeScale = 4
    HalfRange = 2
    HalfAge = 2
    Cycle = 2
    MaxEntries = 1
    MaxQueue = 1
    MaxPushes = 2
INVARIANT PassedThrough
CHECK_DEADLOCK FALSE
