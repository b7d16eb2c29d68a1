SPECIFICATION Spec
CONSTANTS
    Workers = {w1}
    MaxAttempts = 2
    Backoff <- MCBackoff
    QueueTimeout = 1
    StaleAfter = 2
    HoldUntilClean = TRUE
    FailClosed = {TRUE, FALSE}
    LongQueue = FALSE
    MaxRequests = 1
    MaxRetries = 1
    MaxFaults = 2
INVARIANTS
    TypeOK
    OneRun
PROPERTIES
    GivenUpLast
    Settles
    HoldEnds
CHECK_DEADLOCK FALSE
