SPECIFICATION Spec
CONSTANTS
    Workers = {w1, w2}
    MaxAttempts = 2
    Backoff <- MCBackoff
    QueueTimeout = 1
    StaleAfter = 2
    HoldUntilClean = TRUE
    FailClosed = {FALSE}
    LongQueue = TRUE
    MaxRequests = 1
    MaxRetries = 1
    MaxFaults = 1
INVARIANT
    OneWriter
CHECK_DEADLOCK FALSE
