SPECIFICATION Spec
CONSTANTS
    r1 = r1
    r2 = r2
    acme = acme
    globex = globex
    flash = flash
    gemini = gemini
    agent = agent
    Requests <- TwoRequests
    Tenants <- TwoTenants
    Models <- OneModel
    Clients <- AllClients
    Providers <- TwoProviders
    Registrable <- AgentOnly
    MaxGenerations = 2
    InjectionMode = "block"
    FailureThreshold = 1
    ResetTimeout = 1
SYMMETRY SlotsAndTenants
INVARIANTS
    TypeOK
    NeverJudgedByPredecessor
    OutagesStayLocal
    HitsStayInPartition
PROPERTIES
    EachBreakerImplements
