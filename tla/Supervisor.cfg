SPECIFICATION Spec
CONSTANTS
    DropGrace = 1
    MaxAttempts = 3
    InitialBackoff = 1
    MaxBackoff = 4
    MandatoryStop = 8
    Cooldown = 2
    Attaches = 2
    Window = 3
    DropWithin = 1
    OperationTimeout = 2
    MaxReissues = 1
    MaxFailures = 1
    Handles = 1
    Scenarios = {{"thrash"}, {"close", "lookup"}, {"lookup", "auth"}, {"close", "auth"}}
INVARIANTS
    StormIsBounded
    StormIsCooled
PROPERTIES
    CloseIsHonoured
    LookupReturns
CHECK_DEADLOCK FALSE
