SPECIFICATION FairSpec
CONSTANTS
    Kinds = {"http", "sdk", "agent"}
    MaxRetries = 1
    ProviderRetries = 1
    MaxChunks = 4
INVARIANTS
    TypeOK
    OneAnswer
    CallsBounded
    OneConnection
    OutcomeMatchesStream
    StoredIsWhatWasSent
    ErrorsComeLast
PROPERTIES
    GoneReleases
CHECK_DEADLOCK FALSE
