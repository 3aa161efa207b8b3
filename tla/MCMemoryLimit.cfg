CONSTANTS
    s1 = s1
    s2 = s2
    s3 = s3
    NoSender = NoSender
    Senders <- MCSenders
    Bytes <- MCBytes
    Limits <- MCLimits
SPECIFICATION FairSpec
INVARIANT BudgetNeverExceeded
INVARIANT NoLostWakeup
INVARIANT RegistrationsAreLive
PROPERTY BlockedSendsProceed
CHECK_DEADLOCK FALSE
