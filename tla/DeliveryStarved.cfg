SPECIFICATION DeliverySpec
CONSTANTS
    Events = {e1, e2}
    Workers = {w1}
    Sweeper = sweeper
    Poison = {e1}
    MaxAttempts = 3
    SweepBatch = 1
    WebhookSettings = {TRUE}
    MaxRetries = 1
    MaxLosses = 1
CHECK_DEADLOCK FALSE
PROPERTIES Settled
