SPECIFICATION Spec
CONSTANTS
    Sessions = {s1, s2}
    Payments = {p1}
    Plans = {basic}
    TrialEnd = 2
    PeriodLength = 2
    DunningDelay <- MCDunningDelay
    SuspendAfter = 1
    ExpireAfter = 2
    MaxTime = 6
    MaxEvents = 2
    NoPayment = NoPayment
    TrialWindow <- MCTrialWindow
    RenewalWindow <- ShortRenewalWindow
INVARIANTS
    TypeOK
    ActivatedOnce
    CancelOnlyWhileActive
PROPERTIES
    PaidPeriodHonoured
    ManualSuspensionStays
    RenewalKeepsPaidTime
    CancellationHonoured
    UnpaidEnds
CHECK_DEADLOCK FALSE
