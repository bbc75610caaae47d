SPECIFICATION Spec
CONSTANTS
    Calls = {c1}
    None = None
    MaxAttempts = 1
    Messages = {m1}
    Replies = {r1}
    NoReply = NoReply
    Workers = {w1}
    MaxMail = 1
    MaxFaults = 0
PROPERTIES
    TerminalReceiptIsFinal
