--------------------------- MODULE MCSubscription ---------------------------
(* Time in steps of some days: the cascades keep their order and their     *)
(* distance from the end of the period, the lengths are scaled down.       *)
EXTENDS Subscription, TLC

MCTrialWindow == <<3, 2, 1>>
MCRenewalWindow == <<2, 1>>
MCDunningDelay == <<1, 1, 2>>
ShortRenewalWindow == <<1, 1>>
ShortDunningDelay == <<1, 1, 1>>

=============================================================================
