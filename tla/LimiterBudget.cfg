SPECIFICATION Spec
CONSTANTS
    r1 = r1
    r2 = r2
    k1 = k1
    Requests = {r1, r2}
    Workers = {k1}
    WorkerOf <- OneWorker
    Window = 2
    RpmLimit = 2
    TpmLimit = 3
    Estimates = {2}
    Actuals = {0, 3}
    ClockSkew = 0
    MaxDelay = 4
    MaxTime = 4
    MaxRestarts = 1
INVARIANTS
    BudgetCap
