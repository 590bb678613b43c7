SPECIFICATION JarSpec
CONSTANTS
    t1 = t1
    t2 = t2
    m1 = m1
    m2 = m2
    sid = sid
    lang = lang
    v1 = v1
    v2 = v2
    Null = Null
    NoMap = NoMap
    NoEntry = NoEntry
    NoHeader = NoHeader
    Threads <- MCThreads
    Managers <- TwoManagers
    CookieNames <- MCNames
    CookieValues <- MCValues
    Calls = 3
SYMMETRY MCSymmetry
INVARIANTS
    HalfFilledIsInProgress
    ConfinedNeverFails
    ConfinedSentIsLatest
CHECK_DEADLOCK FALSE
