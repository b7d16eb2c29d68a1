SPECIFICATION Spec
CONSTANTS
    Workers = {w1}
    MaxAttempts = 2
    Backoff <- MCBackoff
    QueueTimeout = 1
    StaleAfter = 2
    HoldUntilClean = TRUE
    FailClosed = {FALSE}
    LongQueue = FALSE
    MaxRequests = 1
    MaxRetries = 0
    MaxFaults = 0
PROPERTY
    NeverHeldForever
CHECK_DEADLOCK FALSE
