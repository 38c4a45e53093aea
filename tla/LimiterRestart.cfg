SPECIFICATION FairSpec
CONSTANTS
    r1 = r1
    r2 = r2
    k1 = k1
    Requests = {r1}
    Workers = {k1}
    WorkerOf <- OneWorker
    Window = 2
    RpmLimit = 2
    TpmLimit = 4
    Estimates = {1}
    Actuals = {1}
    ClockSkew = 0
    MaxDelay = 1
    MaxTime = 1
    MaxRestarts = 1
PROPERTIES
    ServesAgain
