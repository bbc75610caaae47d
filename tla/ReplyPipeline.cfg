SPECIFICATION FairSpec
CONSTANTS
    Ordinary = 6
    Strong = 8
    PrimaryBudget = 7
    RepairBudget = 4
    RepairCap = 2
    MinRetry = 1
    Models = 2
    MaxParallel = 2
    Tries = 2
    NoDraft = NoDraft
INVARIANTS
    TypeOK
    ExitIsKept
    OnlyValidRepliesWrite
    RepairHasItsTurn
    RequestsAreBounded
PROPERTIES
    TurnEnds
    TurnIsBounded
CHECK_DEADLOCK FALSE
