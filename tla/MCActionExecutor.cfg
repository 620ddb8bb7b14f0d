CONSTANTS
    Length = 4
    MaxDetections = 3
    Configs <- RetryConfigs
SPECIFICATION ExecutorSpec
INVARIANTS
    ReplacesExactly
    TopSeverityProtected
    AnsweredTokensInVault
CHECK_DEADLOCK FALSE
