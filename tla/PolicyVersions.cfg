CONSTANTS
    Sessions = {s1, s2}
    MaxVersion = 3
SPECIFICATION FairSpec
PROPERTIES
    ImplementsRegister
    RequestsEnd
