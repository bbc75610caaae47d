SPECIFICATION Spec
CONSTANTS
    Ordinary = 6
    Strong = 8
    PrimaryBudget = 7
    RepairBudget = 4
    RepairCap = 2
    MinRetry = 1
    Models = 1
    MaxParallel = 1
    Tries = 1
    NoDraft = NoDraft
INVARIANT ExitSurvivesRepair
CHECK_DEADLOCK FALSE
