SPECIFICATION DeliverySpec
CONSTANTS
    Events = {e1, e2}
    Workers = {w1}
    Sweeper = sweeper
    Poison = {e1}
    MaxAttempts = 3
    SweepBatch = 2
    WebhookSettings = {TRUE, FALSE}
    MaxRetries = 1
    MaxLosses = 1
CHECK_DEADLOCK FALSE
INVARIANTS DeliveryTypeOK DeadAfterAllAttempts RetryCountsAnew
PROPERTIES Settled
