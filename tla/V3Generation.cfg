SPECIFICATION FairSpec
CONSTANTS
    Calls = {c1, c2}
    Procs = {p1, p2}
    None = None
    Wait = Wait
    MaxAttempts = 1
    MaxFaults = 2
INVARIANTS
    TypeOK
    OneAnswer
    AnsweredIsDurable
PROPERTIES
    LiveLeaseIsKept
    ImplementsReplyOnce
    RetryHeals
    NoCallHangs
\* When every call is answered and nothing is left to recover, nothing happens.
CHECK_DEADLOCK FALSE
