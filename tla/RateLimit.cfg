SPECIFICATION Spec
CONSTANTS
    c1 = c1
    c2 = c2
    c3 = c3
    e1 = e1
    Callers <- MCCallers
    Exits <- MCExits
    LimitChoices <- MCLimits
    NoExit = NoExit
    NoSlot = NoSlot
    NoCall = NoCall
    MinuteLen = 1
    HourLen = 2
    MaxTime = 3
    MaxStarts = 4
SYMMETRY Sym
INVARIANTS
    TypeOK
    InflightIsHolders
    VerdictIsExact
PROPERTY ImplementsLedger
