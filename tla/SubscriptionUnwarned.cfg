SPECIFICATION Spec
CONSTANTS
    Sessions = {s1}
    Payments = {p1}
    Plans = {basic}
    TrialEnd = 2
    PeriodLength = 1
    DunningDelay <- ShortDunningDelay
    SuspendAfter = 1
    ExpireAfter = 9
    MaxTime = 7
    MaxEvents = 1
    NoPayment = NoPayment
    TrialWindow <- MCTrialWindow
    RenewalWindow <- ShortRenewalWindow
PROPERTY
    NoUnwarnedSuspension
CHECK_DEADLOCK FALSE
