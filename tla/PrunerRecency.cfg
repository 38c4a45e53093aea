SPECIFICATION Spec
CONSTANTS
    Turns <- AllTurns
    Fields <- RoleAndTexts
    Chars <- Length
    SystemChars <- Systems
    Budgets = {15, 55, 60}
    MaxTurns = 5
INVARIANTS
    RecencyHonoured
CHECK_DEADLOCK FALSE
