SPECIFICATION FairSpec
CONSTANTS
    Tasks = {1, 2}
    Groups = {1, 2}
    OwnContent = {1}
    None = None
    MaxAttempts = 2
    MaxFaults = 2
CHECK_DEADLOCK FALSE
INVARIANTS
    TypeOK
    CompletedIsClosed
    LostIsNotRepeated
PROPERTIES
    EveryTaskEnds
