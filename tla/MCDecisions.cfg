CONSTANTS
    Calls = {c1, c2, c3}
    i = i
    RequestIds = {i}
    Contents <- MCContents
    Configs <- MCConfigs
    Requests <- MCRequests
    MaxVersion = 3
    NoRow = NoRow
SPECIFICATION FairSpec
INVARIANTS
    AuditedOnce
    BlockedAllowedOnlyByReuse
    VersionsNamePolicies
PROPERTIES
    ImplementsRegister
    CallsEnd
CHECK_DEADLOCK FALSE
