SPECIFICATION SessionSpec
CONSTANTS
    MaxSends = 3
    MaxMessagesInBatch = 2
    Parts = 2
    Ways = {"batch", "chunked"}
    SendTimeout = TRUE
    MaxAttempts = 1
    MaxRequests = 6
    Scenarios = {{"disconnect", "unload", "refuse", "slow", "reject", "timeout"}, {"close", "unload", "reject", "flush"}}
    MaxFaults = 2
INVARIANTS
    SendsTracked
    NeverSentUnattached
    PublishedInOrder
CHECK_DEADLOCK FALSE
