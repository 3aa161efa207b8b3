SPECIFICATION FairSessionSpec
CONSTANTS
    ReceiverQueue = 3
    AutoCap = 3
    AutoPolicy = FALSE
    MaxBatch = 1
    Uuids = {u1}
    MaxAttempts = 1
    MaxRequests = 8
    Backlog = 5
    KindsSent = {"plain", "dead"}
    SingleThreaded = TRUE
    Scenarios = {{"disconnect", "unload", "recover", "promote", "refuse"}, {"seek", "abandon", "promote", "refuse"}}
    MaxFaults = 2
PROPERTIES
    BacklogDrains
CHECK_DEADLOCK FALSE
