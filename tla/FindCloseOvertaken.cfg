SPECIFICATION Spec
CONSTANTS
    DropGrace = 1
    MaxAttempts = 1
    InitialBackoff = 1
    MaxBackoff = 2
    MandatoryStop = 4
    Cooldown = 2
    Attaches = 2
    Window = 3
    DropWithin = 1
    OperationTimeout = 2
    MaxReissues = 1
    MaxFailures = 1
    Handles = 1
    Scenarios = {{"close"}}
PROPERTIES
    CloseReturns
CHECK_DEADLOCK FALSE
