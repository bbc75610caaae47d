SPECIFICATION FairSpec
CONSTANTS
    Calls = {c1}
    None = None
    MaxAttempts = 1
    Finalizers = {f1}
    FailAfter = 2
    MaxFaults = 3
CHECK_DEADLOCK FALSE
INVARIANTS
    TypeOK
    AnswerIsKept
    RecoveryRequestIsKept
PROPERTIES
    FinalizationSettles
