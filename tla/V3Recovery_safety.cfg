SPECIFICATION Spec
CONSTANTS
    Calls = {c1, c2}
    None = None
    MaxAttempts = 2
    Messages = {m1, m2}
    Replies = {r1, r2}
    NoReply = NoReply
    Workers = {w1}
    MaxMail = 1
    MaxFaults = 2
SYMMETRY MCSymmetry
INVARIANTS
    TypeOK
    SentOnce
    RecoveredIsDelivered
    FinalizedIsSettled
PROPERTIES
    StagedIsReconciled
    ImplementsRecoverOnce
