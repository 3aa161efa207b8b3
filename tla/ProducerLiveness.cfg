SPECIFICATION FairSessionSpec
CONSTANTS
    MaxSends = 2
    MaxMessagesInBatch = 2
    Parts = 2
    Ways = {"batch", "misfit", "single", "chunked", "oversized"}
    SendTimeout = TRUE
    MaxAttempts = 1
    MaxRequests = 6
    Scenarios = {{"refuse", "deny", "silent", "slow", "reject", "unload", "lookup", "disconnect", "giveup"}, {"close", "flush", "unload", "reject"}, {"timeout", "disconnect", "unload"}}
    MaxFaults = 2
INVARIANT
    ParkedIsRegistered
PROPERTY
    SendsResolve
    KeepsPromise
CHECK_DEADLOCK FALSE
