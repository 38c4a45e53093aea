SPECIFICATION AuthSpec
CONSTANTS
    r1 = r1
    r2 = r2
    k1 = k1
    Requests = {r1, r2}
    Workers = {k1}
    WorkerOf <- OneWorker
    Window = 3
    RpmLimit = 2
    TpmLimit = 0
    Estimates = {0}
    Actuals = {}
    ClockSkew = 1
    MaxDelay = 2
    MaxTime = 7
    MaxRestarts = 1
SYMMETRY Slots
INVARIANTS
    WeighedCountsIntact
    SlidingLoadBounded
    WeightedLoadBounded
PROPERTIES
    LockedOutOnlyByFailures
