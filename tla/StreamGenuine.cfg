SPECIFICATION Spec
CONSTANTS
    Kinds = {"http", "sdk", "agent"}
    MaxRetries = 1
    ProviderRetries = 1
    MaxChunks = 2
INVARIANTS
    SuccessIsGenuine
CHECK_DEADLOCK FALSE
