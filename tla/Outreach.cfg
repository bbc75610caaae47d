SPECIFICATION FairSpec
CONSTANTS
    Tasks <- TwoPlans
    MaxReplies = 1
    MaxFaults = 1
INVARIANTS
    TypeOK
    PostedOnce
    OneAfterReply
    NoPlanIsStuck
PROPERTIES
    InOrder
    ActivePlanEnds
\* Where the customer says nothing more and no receipt comes, nothing is left
\* to do.
CHECK_DEADLOCK FALSE
