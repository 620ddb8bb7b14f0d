CONSTANTS
    s1 = s1
    s2 = s2
    Singles = {s1, s2}
    Jobs = {j}
    Providers = {"prospeo", "rocketreach"}
    People <- MCPeople
    Given <- MCGiven
    Asked = {"linked"}
    Files <- MCFiles
    Limit = 1
    ProgressEvery = 2
    Priorities = {1}
    Inactive = Inactive
    MaxFaults = 2
SPECIFICATION Spec
CONSTRAINT TwoBegin
INVARIANTS
    LimitOverrunBounded
    BatchAsksTheSame
    EmailsPaidOnce
    JobRowsAgree
PROPERTIES
    JobsEnd
CHECK_DEADLOCK FALSE
