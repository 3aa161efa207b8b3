SPECIFICATION FairSpec
CONSTANTS
    Callers = {c1, c2}
    Ops = {1, 2}
    MaxRequests = 4
    Bounds <- EndBounds
INVARIANTS
    CommitMeansAll
    OneDecision
    UnknownMeansFault
    EveryoneHears
PROPERTY CallsReturn
CHECK_DEADLOCK FALSE
