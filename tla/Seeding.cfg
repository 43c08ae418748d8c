SPECIFICATION Spec
CONSTANTS
    u1 = u1
    u2 = u2
    bad = bad
    Names <- MCNames
    Bad <- MCBad
    None = None
    Unreadable = Unreadable
    MaxRows = 3
    MaxRefresh = 1
    MaxFaults = 1
    MaxStarts = 3
SYMMETRY Alike
INVARIANTS
    TypeOK
    PoolFollowsConfig
PROPERTIES
    MovedBeforeMarked
    TakenOverStays
CHECK_DEADLOCK FALSE
