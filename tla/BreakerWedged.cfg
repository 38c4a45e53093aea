SPECIFICATION FairSpec
CONSTANTS
    c1 = c1
    c2 = c2
    c3 = c3
    c4 = c4
    Callers <- TwoCallers
    FailureThreshold = 2
    ResetTimeout = 1
    HalfOpenMaxCalls = 1
PROPERTIES
    HalfOpenIsDecided
