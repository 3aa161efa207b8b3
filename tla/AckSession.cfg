SPECIFICATION FairSpec
CONSTANTS
    Members <- BatchAndPlain
    Backoff = FALSE
    NackTracker = TRUE
    AckTimeout = TRUE
    Bounds <- AckBounds
INVARIANTS
    NeverOverAcked
    NothingStranded
    AckedIsUntimedWhileExact
    CloseKeepsAcks
PROPERTY Drained
CHECK_DEADLOCK FALSE
