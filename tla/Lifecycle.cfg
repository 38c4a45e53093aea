SPECIFICATION FairSpec
CONSTANTS
    AgentNames = {"agent"}
    MaxLifespans = 2
    MaxRegistrations = 2
CHECK_DEADLOCK FALSE
INVARIANTS
    TypeOK
    NamesPairUp
    VendorsHoldOpenClient
    ShutdownReleases
    DetectorWhenAsked
PROPERTIES
    ShutdownEnds
