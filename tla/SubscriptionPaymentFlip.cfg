SPECIFICATION Spec
CONSTANTS
    Sessions = {s1, s2}
    Payments = {p1}
    Plans = {basic}
    TrialEnd = 2
    PeriodLength = 1
    DunningDelay <- ShortDunningDelay
    SuspendAfter = 1
    ExpireAfter = 9
    MaxTime = 4
    MaxEvents = 3
    NoPayment = NoPayment
    TrialWindow <- MCTrialWindow
    RenewalWindow <- ShortRenewalWindow
PROPERTY
    PaymentOutcomeIsFinal
CHECK_DEADLOCK FALSE
