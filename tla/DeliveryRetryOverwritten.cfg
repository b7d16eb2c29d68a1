SPECIFICATION DeliverySpec
CONSTANTS
    Events = {e1}
    Workers = {w1, w2}
    Sweeper = sweeper
    Poison = {}
    MaxAttempts = 3
    SweepBatch = 2
    WebhookSettings = {TRUE}
    MaxRetries = 1
    MaxLosses = 1
CHECK_DEADLOCK FALSE
INVARIANTS RetryResetsAttempts
