CONSTANTS
    Length = 4
    MaxDetections = 3
    Configs <- Severities
SPECIFICATION ExecutorSpec
INVARIANT NoDetectedCharacterSent
CHECK_DEADLOCK FALSE
