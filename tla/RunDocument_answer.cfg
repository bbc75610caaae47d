SPECIFICATION Spec
CONSTANTS
    Calls = {c1, c2}
    None = None
    MaxAttempts = 2
    Finalizers = {f1}
    FailAfter = 2
    MaxFaults = 0
CHECK_DEADLOCK FALSE
INVARIANTS
    AnswerIsKept
