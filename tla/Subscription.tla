---------------------------- MODULE Subscription ----------------------------
(***************************************************************************)
(* The subscription of one store: the Store Subscription row, the bank     *)
(* transfers that pay for it, the owner's and the administrator's requests *)
(* and the two cron jobs that remind, suspend and end.                     *)
(*                                                                         *)
(* A request or one function of a job is a transaction: it takes its       *)
(* snapshot (Begin, List) and writes at its end (Commit, Apply).  A        *)
(* document is saved whole, and only if the row's modified stamp is still  *)
(* the one it was loaded with: fresh.  The jobs set reminder flags without *)
(* a look at the row and without moving the stamp.                         *)
(*                                                                         *)
(* An operator named ...Mutant is the definition after it with one         *)
(* plausible bug; no specification uses it.                                *)
(***************************************************************************)
EXTENDS Integers, FiniteSets

CONSTANTS
    Sessions,      \* requests that may be open together
    Payments,      \* Subscription Payment rows that may come to exist
    Plans,
    NoPayment,
    TrialEnd,      \* a trial runs from time 1 to TrialEnd
    PeriodLength,  \* a month or a year
    TrialWindow,   \* reminders 3 days, 1 day, 2 hours before the trial's end
    RenewalWindow, \* reminders 7 days, 1 day before the period's end
    DunningDelay,  \* reminders 1, 3, 7 days after it
    SuspendAfter,  \* _DUNNING_SUSPEND_DAYS
    ExpireAfter,   \* _DUNNING_EXPIRE_DAYS
    MaxTime,       \* bound: the clock
    MaxEvents      \* bound: requests of owner and administrator, killed jobs

ASSUME SubscriptionAssumption ==
    /\ NoPayment \notin Payments
    /\ {TrialEnd, PeriodLength, SuspendAfter, ExpireAfter} \subseteq Nat \ {0}
    /\ TrialWindow \in [1..3 -> Nat] /\ DunningDelay \in [1..3 -> Nat]
    /\ RenewalWindow \in [1..2 -> Nat]
    /\ MaxTime \in Nat /\ MaxEvents \in Nat

VARIABLES
    now,
    sub,        \* the Store Subscription row, committed
    pay,        \* the Subscription Payment rows, committed
    closed,     \* the store's profile is Suspended and its owner disabled
    session,
    job,
    events,
    warned,     \* history: a dunning reminder of this period has gone out
    suspender,  \* history: who suspended the store last
    activated   \* history: periods a payment has started

vars == <<now, sub, pay, closed, session, job, events, warned, suspender, activated>>

Statuses == {"trial", "active", "past_due", "suspended", "expired", "canceled"}
Jobs == {"trial", "paid"}

\* end = 0: current_period_end is not set.  reminded and dunning count the
\* flags of a cascade that are set; reminded is the trial's, then the period's
Row == [status: Statuses, end: Nat, cancel: BOOLEAN, reminded: 0..3,
        dunning: 0..3, source: {"manual", "dunning"}, plan: Plans]
PaymentRow == [status: {"none", "pending", "confirmed", "rejected"}, plan: Plans]

Steps == {"idle", "trialRemind", "trialExpire", "renewal", "finalize",
          "expire", "dunning", "suspend", "lapse"}
After == [trialRemind |-> "trialExpire", trialExpire |-> "idle",
          renewal |-> "finalize", finalize |-> "expire", expire |-> "dunning",
          dunning |-> "suspend", suspend |-> "lapse", lapse |-> "idle"]
StepsOf == [trial |-> {"trialRemind", "trialExpire"},
            paid |-> {"renewal", "finalize", "expire", "dunning", "suspend", "lapse"}]
Reminders == {"trialRemind", "renewal", "dunning"}

\* Operations a request may be, and their targets where they have one
Ops == {"idle", "request", "confirm", "upgrade", "cancel", "revoke", "edit", "delete", "refused"}

APlan == CHOOSE p \in Plans : TRUE
Blank == [status |-> "canceled", end |-> 0, cancel |-> FALSE, reminded |-> 0,
          dunning |-> 0, source |-> "manual", plan |-> APlan]
NoSession == [op |-> "idle", doc |-> Blank, payment |-> NoPayment,
              pending |-> {}, closed |-> FALSE]
NoJob == [step |-> "idle", listed |-> FALSE, doc |-> Blank, fresh |-> FALSE,
          stage |-> 0, first |-> FALSE]

-----------------------------------------------------------------------------
(* The row *)

ValidTransitions ==
    {"trial"}     \X {"active", "past_due", "expired", "canceled", "suspended"} \cup
    {"active"}    \X {"past_due", "expired", "canceled", "suspended"} \cup
    {"past_due"}  \X {"active", "expired", "canceled", "suspended"} \cup
    {"suspended"} \X {"active", "canceled", "expired"} \cup
    {"expired"}   \X {"active", "canceled"} \cup
    {"canceled"}  \X {"active"}

\* validate: the changes a new status brings along, and what it refuses
WithStatusMutant(row, st) ==
    [row EXCEPT !.status = st, !.cancel = @ /\ st # "canceled"]
WithStatusPlanStaysMutant(row, st) ==
    [row EXCEPT !.status = st,
                !.source = IF row.status = "suspended" /\ st # "suspended"
                           THEN "manual" ELSE @]
WithStatus(row, st) ==
    [row EXCEPT !.status = st,
                !.cancel = @ /\ st # "canceled",
                !.source = IF row.status = "suspended" /\ st # "suspended"
                           THEN "manual" ELSE @]
Allowed(row, st) ==
    /\ st = row.status \/ <<row.status, st>> \in ValidTransitions
    /\ row.cancel => st \in {"active", "canceled"}

\* Time already paid is carried over only into the same plan
CarriesMutant(row, plan) == row.status = "past_due" /\ row.plan = plan
Carries(row, plan) == row.status = "active" /\ row.plan = plan /\ row.end > now
\* upgrade_subscription_plan to active: a new period, so validate clears the flags
Upgraded(row, plan) ==
    [WithStatus(row, "active") EXCEPT
        !.plan = plan, !.cancel = FALSE, !.reminded = 0, !.dunning = 0,
        !.end = (IF Carries(row, plan) THEN row.end ELSE now) + PeriodLength]

-----------------------------------------------------------------------------
(* Saving *)

\* A document is saved whole, and not if another save has come since it was
\* loaded.  Out of date, a request fails unless it saves no subscription; of a
\* job's document only the period and the status are still asked
Save(row, who) ==
    /\ sub' = row
    /\ suspender' = IF row.status = "suspended" /\ sub.status # "suspended"
                    THEN who ELSE suspender
SavesNothing(open) ==
    open.op \in {"idle", "request"} \/ (open.op = "delete" /\ open.doc.status = "canceled")
OutdatedSessions ==
    [s \in Sessions |-> IF SavesNothing(session[s]) THEN session[s]
                        ELSE [NoSession EXCEPT !.op = "refused"]]
OutdatedJobs ==
    [j \in Jobs |-> [job[j] EXCEPT
        !.fresh = FALSE,
        !.doc = [Blank EXCEPT !.status = job[j].doc.status, !.end = job[j].doc.end]]]

\* The end of a request: its writes, or none (refused, rolled back, killed)
SaveAs(s, row) ==
    /\ Save(row, "admin")
    /\ session' = [OutdatedSessions EXCEPT ![s] = NoSession]
    /\ job' = OutdatedJobs
Close(s) == session' = [session EXCEPT ![s] = NoSession]

RolledBack(s) ==
    /\ session[s].op # "idle"
    /\ Close(s)
    /\ UNCHANGED <<now, sub, pay, closed, job, events, warned, suspender, activated>>

-----------------------------------------------------------------------------
(* Requests *)

Open(s, op, payment, pending) ==
    /\ session[s].op = "idle"
    /\ events < MaxEvents /\ events' = events + 1
    /\ session' = [session EXCEPT ![s] =
                     [op |-> op, doc |-> IF op = "request" THEN Blank ELSE sub,
                      payment |-> payment, pending |-> pending, closed |-> closed]]
    /\ UNCHANGED <<now, sub, pay, closed, job, warned, suspender, activated>>

PendingPayments == {p \in Payments : pay[p].status = "pending"}

\* request_cancellation, revoke_cancellation, delete_account: the owner's
BeginCancel(s) ==
    /\ ~closed /\ sub.status = "active" /\ sub.end > 0 /\ ~sub.cancel
    /\ Open(s, "cancel", NoPayment, {})
BeginRevoke(s) == ~closed /\ sub.cancel /\ Open(s, "revoke", NoPayment, {})
BeginDelete(s) == ~closed /\ Open(s, "delete", NoPayment, PendingPayments)
BeginRequest(s) == ~closed /\ Open(s, "request", NoPayment, PendingPayments)
\* The administrator's: an order to confirm may come from a list that is old
BeginConfirm(s, p) == pay[p].status # "none" /\ Open(s, "confirm", p, {})
BeginUpgrade(s) == Open(s, "upgrade", NoPayment, {})
BeginEdit(s) == Open(s, "edit", NoPayment, {})

\* request_cancellation and revoke_cancellation
SetCancel(s) ==
    /\ session[s].op \in {"cancel", "revoke"}
    /\ SaveAs(s, [session[s].doc EXCEPT !.cancel = session[s].op = "cancel"])
    /\ UNCHANGED <<now, pay, closed, events, warned, activated>>

\* create_bank_transfer_request: the transfer seen waiting is given the plan,
\* else there is a new one
Request(s, p, plan) ==
    /\ session[s].op = "request"
    /\ IF session[s].pending = {} THEN pay[p].status = "none"
       ELSE p \in session[s].pending /\ pay[p].status = "pending"
    /\ pay' = [pay EXCEPT ![p] = [status |-> "pending", plan |-> plan]]
    /\ Close(s)
    /\ UNCHANGED <<now, sub, closed, job, events, warned, suspender, activated>>

\* upgrade_subscription_plan, the part the administrator's call and the
\* confirmation share: not for a canceled subscription of a closed store
Activate(s, plan) ==
    /\ ~(session[s].doc.status = "canceled" /\ session[s].closed)
    /\ SaveAs(s, Upgraded(session[s].doc, plan))
    /\ warned' = FALSE

Upgrade(s, plan) ==
    /\ session[s].op = "upgrade"
    /\ Activate(s, plan)
    /\ UNCHANGED <<now, pay, closed, events, activated>>

\* confirm_subscription_payment: the row lock, the second look, the activation
ConfirmMutant(s) ==
    LET p == session[s].payment IN
    /\ session[s].op = "confirm"
    /\ pay' = [pay EXCEPT ![p].status = "confirmed"]
    /\ Activate(s, pay[p].plan)
    /\ activated' = [activated EXCEPT ![p] = @ + 1]
    /\ UNCHANGED <<now, closed, events>>
Confirm(s) ==
    LET p == session[s].payment IN
    /\ session[s].op = "confirm"
    /\ pay[p].status = "pending"
    /\ pay' = [pay EXCEPT ![p].status = "confirmed"]
    /\ Activate(s, pay[p].plan)
    /\ activated' = [activated EXCEPT ![p] = @ + 1]
    /\ UNCHANGED <<now, closed, events>>

Reject(p) ==
    /\ pay[p].status = "pending"
    /\ pay' = [pay EXCEPT ![p].status = "rejected"]
    /\ UNCHANGED <<now, sub, closed, session, job, events, warned, suspender, activated>>

\* The administrator saves the form with a status
Edit(s, st) ==
    /\ session[s].op = "edit"
    /\ Allowed(session[s].doc, st)
    /\ SaveAs(s, WithStatus(session[s].doc, st))
    /\ UNCHANGED <<now, pay, closed, events, warned, activated>>

\* delete_account: the subscription is canceled unless it was; the transfers
\* that waited at the snapshot are rejected without another look
Delete(s) ==
    LET doc == session[s].doc IN
    /\ session[s].op = "delete"
    /\ IF doc.status = "canceled"
       THEN Close(s) /\ UNCHANGED <<sub, suspender, job>>
       ELSE SaveAs(s, WithStatus(doc, "canceled"))
    /\ pay' = [p \in Payments |-> IF p \in session[s].pending
                                  THEN [pay[p] EXCEPT !.status = "rejected"] ELSE pay[p]]
    /\ closed' = TRUE
    /\ UNCHANGED <<now, events, warned, activated>>

\* The administrator takes the suspension of profile and owner back
Reopen ==
    /\ closed /\ events < MaxEvents
    /\ closed' = FALSE /\ events' = events + 1
    /\ UNCHANGED <<now, sub, pay, session, job, warned, suspender, activated>>

-----------------------------------------------------------------------------
(* The jobs *)

\* Cascades: the most urgent stage reached, if its flag is not set
Before(end, window) == Cardinality({k \in DOMAIN window : end - now <= window[k]})
StageMutant(step) ==
    CASE step = "trialRemind" -> Before(TrialEnd, TrialWindow)
      [] step = "renewal"     -> Before(sub.end, RenewalWindow)
      [] step = "dunning"     -> Cardinality({k \in 1..3 : now - sub.end = DunningDelay[k]})
      [] OTHER                -> 0
Stage(step) ==
    CASE step = "trialRemind" -> Before(TrialEnd, TrialWindow)
      [] step = "renewal"     -> Before(sub.end, RenewalWindow)
      [] step = "dunning"     -> Cardinality({k \in 1..3 : now - sub.end >= DunningDelay[k]})
      [] OTHER                -> 0

\* What a function lists: the rows its query and its first tests let through
Overdue(days) == sub.end > 0 /\ sub.end + days < now
Due(step, first) ==
    CASE step = "trialRemind" -> sub.status = "trial" /\ now < TrialEnd
                                 /\ Stage(step) > sub.reminded
      [] step = "trialExpire" -> sub.status = "trial" /\ TrialEnd < now
      [] step = "renewal"     -> sub.status = "active" /\ now < sub.end
                                 /\ Stage(step) > sub.reminded
      [] step = "finalize"    -> sub.status = "active" /\ sub.cancel /\ Overdue(0)
      [] step = "expire"      -> sub.status = "active" /\ ~sub.cancel /\ Overdue(0)
      [] step = "dunning"     -> sub.status = "past_due" /\ Overdue(0)
                                 /\ Stage(step) > sub.dunning
      [] step = "suspend"     -> sub.status = "past_due" /\ Overdue(SuspendAfter)
                                 /\ sub.dunning > 0 /\ ~first
      [] step = "lapse"       -> sub.status = "suspended" /\ sub.source = "dunning"
                                 /\ Overdue(ExpireAfter)
      [] OTHER                -> FALSE

\* Whether the row read again, under its lock or not, may still be worked on
StillDue(step, row) ==
    CASE step = "trialExpire" -> row.status = "trial"
      [] step = "finalize"    -> row.status = "active" /\ row.cancel
      [] step = "expire"      -> row.status = "active" /\ ~row.cancel
      [] step = "suspend"     -> row.status = "past_due"
      [] step = "lapse"       -> row.status = "suspended" /\ row.source = "dunning"
      [] OTHER                -> FALSE

Worked(step, row) ==
    CASE step \in {"trialExpire", "lapse"} -> WithStatus(row, "expired")
      [] step = "finalize"                 -> WithStatus(row, "canceled")
      [] step = "expire"                   -> WithStatus(row, "past_due")
      [] step = "suspend"                  -> [WithStatus(row, "suspended") EXCEPT !.source = "dunning"]
      [] OTHER                             -> row

\* first_reminded is handed from the dunning reminders to the suspensions
Advanced(j) ==
    [NoJob EXCEPT !.step = After[job[j].step],
                  !.first = job[j].step = "dunning" /\ job[j].listed /\ job[j].first]

\* process_trial_lifecycle, process_paid_lifecycle: every half hour; a run with
\* nothing to do at its start is left out
Start(j) ==
    /\ job[j].step = "idle"
    /\ \E step \in StepsOf[j] : Due(step, FALSE)
    /\ job' = [job EXCEPT ![j].step = IF j = "trial" THEN "trialRemind" ELSE "renewal"]
    /\ UNCHANGED <<now, sub, pay, closed, session, events, warned, suspender, activated>>

List(j) ==
    /\ job[j].step # "idle" /\ ~job[j].listed
    /\ job' = [job EXCEPT ![j] =
                 IF Due(job[j].step, job[j].first)
                 THEN [@ EXCEPT !.listed = TRUE, !.doc = sub, !.fresh = TRUE,
                                !.stage = Stage(job[j].step),
                                !.first = sub.dunning = 0]
                 ELSE Advanced(j)]
    /\ UNCHANGED <<now, sub, pay, closed, session, events, warned, suspender, activated>>

\* A reminder has gone out: its flags are set on whatever row is there now
RemindedMutant(row, step, stage) ==
    CASE step = "dunning" -> [row EXCEPT !.dunning = @ + stage]
      [] OTHER            -> [row EXCEPT !.reminded = @ + stage]
Reminded(row, step, stage) ==
    CASE step = "dunning" -> [row EXCEPT !.dunning = IF stage > @ THEN stage ELSE @]
      [] step # "dunning" /\ (step = "trialRemind" <=> row.status = "trial")
                          -> [row EXCEPT !.reminded = IF stage > @ THEN stage ELSE @]
      [] OTHER            -> row
Remind(j) ==
    /\ job[j].listed /\ job[j].step \in Reminders
    /\ sub' = Reminded(sub, job[j].step, job[j].stage)
    /\ warned' = (warned \/ (job[j].step = "dunning" /\ job[j].doc.end = sub.end))
    /\ job' = [job EXCEPT ![j] = Advanced(j)]
    /\ UNCHANGED <<now, pay, closed, session, events, suspender, activated>>

\* A transition: the row as listed is saved, if no save has come in between
TransitMutant(j) ==
    /\ job[j].listed /\ job[j].step \notin Reminders
    /\ Save(Worked(job[j].step, job[j].doc), "job")
    /\ job' = [OutdatedJobs EXCEPT ![j] = Advanced(j)]
    /\ session' = OutdatedSessions
    /\ UNCHANGED <<now, pay, closed, events, warned, activated>>
Transit(j) ==
    /\ job[j].listed /\ job[j].step \notin Reminders
    /\ job[j].fresh /\ StillDue(job[j].step, sub)
    /\ Save(Worked(job[j].step, job[j].doc), "job")
    /\ job' = [OutdatedJobs EXCEPT ![j] = Advanced(j)]
    /\ session' = OutdatedSessions
    /\ UNCHANGED <<now, pay, closed, events, warned, activated>>
Skip(j) ==
    /\ job[j].listed /\ job[j].step \notin Reminders
    /\ ~(job[j].fresh /\ StillDue(job[j].step, sub))
    /\ job' = [job EXCEPT ![j] = Advanced(j)]
    /\ UNCHANGED <<now, sub, pay, closed, session, events, warned, suspender, activated>>

Killed(j) ==
    /\ job[j].step # "idle"
    /\ events < MaxEvents /\ events' = events + 1
    /\ job' = [job EXCEPT ![j] = NoJob]
    /\ UNCHANGED <<now, sub, pay, closed, session, warned, suspender, activated>>

Tick ==
    /\ now < MaxTime
    /\ now' = now + 1
    /\ UNCHANGED <<sub, pay, closed, session, job, events, warned, suspender, activated>>

-----------------------------------------------------------------------------

Init ==
    /\ now = 1
    /\ \E plan \in Plans, paid \in BOOLEAN :
         sub = [Blank EXCEPT !.plan = plan,
                             !.status = IF paid THEN "active" ELSE "trial",
                             !.end = IF paid THEN 1 + PeriodLength ELSE 0]
    /\ \E waiting \in SUBSET Payments :
         pay = [p \in Payments |-> [status |-> IF p \in waiting THEN "pending" ELSE "none",
                                    plan |-> sub.plan]]
    /\ closed = FALSE
    /\ session = [s \in Sessions |-> NoSession]
    /\ job = [j \in Jobs |-> NoJob]
    /\ events = 0
    /\ warned = FALSE /\ suspender = "none"
    /\ activated = [p \in Payments |-> 0]

RequestStep(s) ==
    \/ BeginCancel(s) \/ BeginRevoke(s) \/ BeginDelete(s) \/ BeginRequest(s)
    \/ BeginUpgrade(s) \/ BeginEdit(s)
    \/ SetCancel(s) \/ Confirm(s) \/ Delete(s) \/ RolledBack(s)
    \/ \E p \in Payments : BeginConfirm(s, p)
    \/ \E p \in Payments, plan \in Plans : Request(s, p, plan)
    \/ \E plan \in Plans : Upgrade(s, plan)
    \/ \E st \in Statuses : Edit(s, st)
JobStep(j) == Start(j) \/ List(j) \/ Remind(j) \/ Transit(j) \/ Skip(j)

Next ==
    \/ \E s \in Sessions : RequestStep(s)
    \/ \E j \in Jobs : JobStep(j) \/ Killed(j)
    \/ \E p \in Payments : Reject(p)
    \/ Reopen \/ Tick

\* The scheduler starts each job again and again and a worker runs it to its
\* end; nothing is assumed of the people and of time
Fairness == \A j \in Jobs : WF_vars(JobStep(j))
Spec == Init /\ [][Next]_vars /\ Fairness

-----------------------------------------------------------------------------

TypeOK ==
    /\ now \in Nat /\ events \in Nat
    /\ sub \in Row
    /\ pay \in [Payments -> PaymentRow]
    /\ closed \in BOOLEAN /\ warned \in BOOLEAN
    /\ session \in [Sessions -> [op: Ops, doc: Row, payment: Payments \cup {NoPayment},
                                 pending: SUBSET Payments, closed: BOOLEAN]]
    /\ job \in [Jobs -> [step: Steps, listed: BOOLEAN, doc: Row, fresh: BOOLEAN,
                         stage: 0..3, first: BOOLEAN]]
    /\ suspender \in {"none", "job", "admin"}
    /\ activated \in [Payments -> Nat]

ByJob == \E j \in Jobs : job'[j].step # job[j].step

\* No job ends or suspends what is paid for: however payments, forms and the
\* jobs interleave, a job changes the status only after the end of the period
\* (or of the trial) that the row has at that moment.
PaidPeriodHonoured ==
    [][ByJob /\ sub'.status # sub.status
         => IF sub.status = "trial" THEN TrialEnd < now ELSE Overdue(0)]_vars

\* A store the administrator suspended is not ended by the T+30 job, however
\* often the store was suspended for debt before (decision D1).
ManualSuspensionStays ==
    [][ByJob /\ sub.status = "suspended" /\ sub'.status # "suspended"
         => suspender = "job"]_vars

\* One transfer starts one period: a confirmed transfer has started exactly
\* one, and none has started two, whoever confirms, rejects and upgrades at
\* the same time (M1).
ActivatedOnce ==
    \A p \in Payments : /\ activated[p] <= 1
                        /\ pay[p].status = "confirmed" => activated[p] = 1

\* A renewal of the same plan before the end adds a whole period to the time
\* already paid, also when two renewals race (E1).
RenewalKeepsPaidTime ==
    [][sub.status = "active" /\ sub'.status = "active" /\ sub'.plan = sub.plan
         /\ now < sub.end /\ sub'.end # sub.end
         => sub'.end = sub.end + PeriodLength]_vars

\* A planned cancellation exists only on an active subscription, so that no
\* reactivated one is ended by the plan of an earlier period.
CancelOnlyWhileActive == sub.cancel => sub.status = "active"

\* And while it stands, the jobs end the period in no other way: no debt, no
\* suspension (AC-8).
CancellationHonoured ==
    [][ByJob /\ sub.cancel /\ sub'.status # sub.status => sub'.status = "canceled"]_vars

\* What nobody pays for ends: the trial, the grace period and the suspension
\* for debt are each left once they have run out.
RunOut ==
    \/ sub.status = "trial" /\ TrialEnd < now
    \/ sub.status \in {"active", "past_due"} /\ Overdue(SuspendAfter)
    \/ sub.status = "suspended" /\ sub.source = "dunning" /\ Overdue(ExpireAfter)
UnpaidEnds == RunOut ~> ~RunOut

\* services/subscription_lifecycle.py:626 promises that nobody loses the
\* storefront unwarned: a job suspends only who had a reminder for this debt.
NoUnwarnedSuspension ==
    [][ByJob /\ sub.status # "suspended" /\ sub'.status = "suspended" => warned]_vars

\* subscription_payment.py calls confirmed and rejected terminal.
PaymentOutcomeIsFinal ==
    [][\A p \in Payments : pay[p].status \in {"confirmed", "rejected"}
                             => pay'[p].status = pay[p].status]_vars

=============================================================================
