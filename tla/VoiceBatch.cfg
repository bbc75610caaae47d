SPECIFICATION FairVoiceSpec
CONSTANTS
    Calls = {c1, c2, c3}
    Messages = {1, 2, 3}
    Voices = {1, 2}
    MaxItems = 2
    Processes = {p1}
    None = None
    MaxFaults = 2
CHECK_DEADLOCK FALSE
INVARIANTS
    BatchesOK
    RunningIsFindable
    NoMessageIsForgotten
    AnsweredTwiceOnlyIfSuperseded
PROPERTIES
    EveryMessageIsAnswered
