CONSTANTS
    p1 = p1
    p2 = p2
    s1 = s1
    s2 = s2
    s3 = s3
    NoKey = NoKey
    Procs = {p1, p2}
    Sessions = {s1, s2, s3}
    ProcOf <- SharedProc
    Keys = {k1, k2}
    HealthChecks = TRUE
SPECIFICATION Spec
INVARIANTS
    UndecryptableOnlyIfLost
PROPERTIES
    CacheOnlyHeals
