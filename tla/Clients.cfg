SPECIFICATION ClientsSpec
CONSTANTS
    Key = {k1}
    FastPoints = 2
    FastDuration = 1
    SlowPoints = 3
    SlowDuration = 3
    BlockDuration = 2
    ManualBlock = {0, 1, 3}
    Nil = Nil
    MaxTime = 8
    MaxCount = 5
    IP = {i1, i2}
    Checker = {p1, p2}
    Closer = {c1}
    Job = {j1, j2}
    cacheMax = 1
    ttl = 1
    MaxClock = 2
    MaxVersion = 1
CHECK_DEADLOCK FALSE
INVARIANTS
    GuessesBounded
    InFlightExact
PROPERTIES
    NoEarlyAdmission
    LockoutEnds
    VerdictsAdvance
    CloseReturns
