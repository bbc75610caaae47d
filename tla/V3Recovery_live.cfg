SPECIFICATION FairSpec
CONSTANTS
    Calls = {c1}
    None = None
    MaxAttempts = 2
    Messages = {m1}
    Replies = {r1}
    NoReply = NoReply
    Workers = {w1}
    MaxMail = 1
    MaxFaults = 1
PROPERTIES
    NoStuckRun
