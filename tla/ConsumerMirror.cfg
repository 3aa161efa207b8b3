SPECIFICATION SessionSpec
CONSTANTS
    ReceiverQueue = 3
    AutoCap = 5
    AutoPolicy = TRUE
    MaxBatch = 1
    Uuids = {u1}
    MaxAttempts = 1
    MaxRequests = 8
    Backlog = 6
    KindsSent = {"plain", "dead"}
    SingleThreaded = TRUE
    Scenarios = {{"disconnect", "promote", "refuse"}, {"seek", "abandon", "promote", "refuse"}, {"disconnect", "pause", "promote"}}
    MaxFaults = 3
INVARIANTS
    WindowBounded
    MirrorExact
CHECK_DEADLOCK FALSE
