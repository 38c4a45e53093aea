SPECIFICATION ContentsSpec
CONSTANTS
    Turns <- AllTurns
    Fields <- RoleAndTexts
    Chars <- Length
    SystemChars <- Systems
    Budgets = {15, 55, 60}
    MaxTurns = 5
    Vendors = {"openai", "gemini", "anthropic", "agent"}
    Characters = {"a", "b"}
    SseFrames <- MCSseFrames
    SdkFrames <- MCSdkFrames
    AgentFrames <- MCAgentFrames
    MaxFrames = 3
INVARIANTS
    KeptFitsExactly
    OnlyRepeatsDropped
    RecentThatFitKept
    OneForOne
    TextIsTheVendors
    UsageIsTheVendors
    FinishedIffSaid
CHECK_DEADLOCK FALSE
