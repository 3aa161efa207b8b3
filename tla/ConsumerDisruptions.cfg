SPECIFICATION SessionSpec
CONSTANTS
    ReceiverQueue = 2
    AutoCap = 2
    AutoPolicy = FALSE
    MaxBatch = 2
    Uuids = {u1}
    MaxAttempts = 1
    MaxRequests = 7
    Backlog = 3
    KindsSent = {"plain", "dead", "undecodable", "chunk", "marker"}
    SingleThreaded = FALSE
    Scenarios = {{"cancel", "close", "seek", "abandon", "drop", "recover", "refuse", "deny", "refuseSeek", "unload", "move", "terminate", "pause", "sweep", "promote"}, {"close", "disconnect", "seek", "abandon", "drop", "recover", "refuse", "deny", "refuseSeek", "unload", "move", "terminate", "pause", "sweep", "promote"}, {"cancel", "disconnect", "refuse", "unload", "promote"}}
    MaxFaults = 2
INVARIANTS
    TypeOK
    WindowCovered
    NeverSelfStarved
    OwedGrantHasOwner
    ClosedMeansReleased
CHECK_DEADLOCK FALSE
