CONSTANTS
    Requests = {r1, r2}
    Keys = {k1}
    Jwt = Jwt
SPECIFICATION FairSpec
INVARIANTS
    TimelyRequestsAreSwept
    CoveredKeysRevoked
PROPERTIES
    AccessDrains
