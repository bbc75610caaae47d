SPECIFICATION Spec
CONSTANTS
    Tasks = {1, 2}
    Groups = {1, 2}
    OwnContent = {1}
    None = None
    MaxAttempts = 2
    MaxFaults = 2
CHECK_DEADLOCK FALSE
PROPERTY
    InvokedIsNotSentAgain
