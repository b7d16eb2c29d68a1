-------------------------- MODULE OutboundDelivery --------------------------
(***************************************************************************)
(* Webhook delivery of stock events: deliver, requeue, sweep_due and       *)
(* on_listing_trash of src/tradehub_core/integration/outbound.py, with the *)
(* panel's retry_outbound_event and set_webhook.                           *)
(*                                                                         *)
(* An event row is sent by queue workers (one job per emission or retry)   *)
(* and by a periodic sweep, which may hold the same row at the same time:  *)
(* each reads the row in a database snapshot, POSTs for up to ten seconds, *)
(* and then overwrites status and attempts from what it had read.  Jobs    *)
(* may be lost with the queue and any process may die before it has        *)
(* recorded its answer.                                                    *)
(*                                                                         *)
(* Left out: the webhook_failures counter shown in the panel, signatures   *)
(* and payloads.  Time is the order in which rows become due.              *)
(*                                                                         *)
(* OutboundProofs extends this module and OutboundFeed, so Init, Next and  *)
(* the like carry the name Delivery here.                                  *)
(*                                                                         *)
(* An operator named ...Mutant is the definition after it with one         *)
(* plausible bug; no specification uses it.                                *)
(***************************************************************************)
EXTENDS Integers, FiniteSets

CONSTANTS
    Events,       \* rows of Catalog Outbound Event
    Workers,      \* processes of the short queue
    Sweeper,      \* the scheduled job; Frappe queues it once at a time
    Poison,       \* events whose signing secret cannot be read: deliver raises
    MaxAttempts,  \* len(BACKOFF_MINUTES)
    SweepBatch,   \* SWEEP_BATCH
    WebhookSettings,  \* what stores set: TRUE an address, FALSE none
    MaxRetries,   \* bound: retries pressed in the panel
    MaxLosses     \* bound: jobs lost and processes killed

ASSUME OutboundDeliveryAssumption ==
    /\ Sweeper \notin Workers
    /\ Poison \subseteq Events
    /\ WebhookSettings \subseteq BOOLEAN
    /\ MaxAttempts \in Nat \ {0}
    /\ SweepBatch \in Nat /\ MaxRetries \in Nat /\ MaxLosses \in Nat

VARIABLES
    event,     \* tabCatalog Outbound Event
    due,       \* failed rows with next_attempt_at in the past, as a line
    aged,      \* rows with `modified` older than STALE_QUEUED_MINUTES, as a line
    jobs,      \* deliver jobs in the queue, per event
    webhook,   \* the stores' applications are active and have a webhook_url
    flight,    \* deliveries that have read the row and not recorded an outcome
    sweep,     \* rows the running sweep still has to read and deliver
    retrying,  \* retry requests that have read the row and not committed
    failures,  \* history: failed POSTs recorded, per event
    recent,    \* history: those since the event was last retried
    overtaken, \* history: events last retried while a delivery was under way
    retries,   \* history: retries pressed
    losses     \* history: jobs lost and processes killed

deliveryVars == <<event, due, aged, jobs, webhook, flight, sweep, retrying,
                  failures, recent, overtaken, retries, losses>>

history == <<failures, recent, overtaken, retries, losses>>

Processes == Workers \union {Sweeper}
Status    == {"none", "queued", "failed", "sent", "dead", "skipped", "deleted"}
EventRow  == [status: Status, attempts: 0..MaxAttempts]
Delivery  == [by: Processes, event: Events, attempts: 0..MaxAttempts, post: BOOLEAN]

Busy(p) == \E d \in flight : d.by = p
Exists(e) == event[e].status \notin {"none", "deleted"}

-----------------------------------------------------------------------------
(* A line is a function to Nat: 0 is outside, the highest number came first *)

Joined(line, e) ==
    [x \in Events |-> IF x = e THEN 1 ELSE IF line[x] > 0 THEN line[x] + 1 ELSE 0]
Left(line, e) ==
    [x \in Events |-> IF x = e THEN 0
                      ELSE IF line[e] > 0 /\ line[x] > line[e] THEN line[x] - 1
                      ELSE line[x]]

\* ORDER BY ... ASC LIMIT SweepBatch over the members of S
Oldest(S, line) ==
    {e \in S : Cardinality({x \in S : line[x] > line[e]}) < SweepBatch}

-----------------------------------------------------------------------------

\* emit_stock_change, at the commit of the order's transaction
Emit(e) ==
    /\ event[e].status = "none"
    /\ event' = [event EXCEPT ![e] =
            [status |-> IF webhook THEN "queued" ELSE "skipped", attempts |-> 0]]
    /\ jobs' = [jobs EXCEPT ![e] = IF webhook THEN @ + 1 ELSE @]
    /\ UNCHANGED <<due, aged, webhook, flight, sweep, retrying, history>>

Deliverable(e) == event[e].status \in {"queued", "failed"}

\* What deliver reads of the row and of the webhook, in one snapshot.  get_doc raises
\* for a deleted row; the secret is read after the webhook and before the try.  The
\* POST is begun at any time between this step and Finish, whatever the row says by then.
Read(p, e) ==
    \/ /\ ~Deliverable(e) \/ (webhook /\ e \in Poison)
       /\ UNCHANGED flight
    \/ /\ Deliverable(e) /\ (webhook => e \notin Poison)
       /\ flight' = flight \union {[by |-> p, event |-> e,
                                   attempts |-> event[e].attempts, post |-> webhook]}

\* A worker takes a deliver job off the queue
TakeJob(w, e) ==
    /\ ~Busy(w)
    /\ jobs[e] > 0
    /\ jobs' = [jobs EXCEPT ![e] = @ - 1]
    /\ Read(w, e)
    /\ UNCHANGED <<event, due, aged, webhook, sweep, retrying, history>>

\* _mark_sent
MarkSent(d) ==
    /\ event' = [event EXCEPT ![d.event] =
            [status |-> "sent", attempts |-> d.attempts + 1]]
    /\ UNCHANGED <<failures, recent>>

\* No webhook: the status alone is written
MarkSkipped(d) ==
    /\ event' = [event EXCEPT ![d.event].status = "skipped"]
    /\ UNCHANGED <<failures, recent>>

\* The history counts up to MaxAttempts
OneMore(n) == IF n < MaxAttempts THEN n + 1 ELSE n

\* One attempt too few
MarkFailedEarlyMutant(d) ==
    /\ event' = [event EXCEPT ![d.event] =
            [status |-> IF d.attempts + 2 >= MaxAttempts THEN "dead" ELSE "failed",
             attempts |-> d.attempts + 1]]
    /\ failures' = [failures EXCEPT ![d.event] = OneMore(@)]
    /\ recent' = [recent EXCEPT ![d.event] = OneMore(@)]

\* One attempt too many: BACKOFF_MINUTES has no entry for it
MarkFailedLateMutant(d) ==
    /\ event' = [event EXCEPT ![d.event] =
            [status |-> IF d.attempts >= MaxAttempts THEN "dead" ELSE "failed",
             attempts |-> d.attempts + 1]]
    /\ failures' = [failures EXCEPT ![d.event] = OneMore(@)]
    /\ recent' = [recent EXCEPT ![d.event] = OneMore(@)]

\* _mark_failed: the next attempt lies in the future
MarkFailed(d) ==
    /\ event' = [event EXCEPT ![d.event] =
            [status |-> IF d.attempts + 1 >= MaxAttempts THEN "dead" ELSE "failed",
             attempts |-> d.attempts + 1]]
    /\ failures' = [failures EXCEPT ![d.event] = OneMore(@)]
    /\ recent' = [recent EXCEPT ![d.event] = OneMore(@)]

\* The receiver has answered, or not in time, or there is none: whatever the row has
\* become is overwritten.  The UPDATE of a row deleted meanwhile matches nothing.
Finish(d) ==
    /\ d \in flight
    /\ flight' = flight \ {d}
    /\ \/ /\ Exists(d.event) /\ d.post
          /\ MarkSent(d) \/ MarkFailed(d)
          /\ due' = Left(due, d.event)
       \/ /\ Exists(d.event) /\ ~d.post
          /\ MarkSkipped(d)
          /\ due' = Left(due, d.event)
       \/ /\ ~Exists(d.event)
          /\ UNCHANGED <<event, due, failures, recent>>
    /\ UNCHANGED <<aged, jobs, webhook, sweep, retrying, overtaken, retries, losses>>

-----------------------------------------------------------------------------

\* The retry of a failed row only; a job lost with the queue is never noticed
StaleMutant == {}

\* Rows whose job was lost, or is late
Stale == {e \in Events : event[e].status = "queued" /\ aged[e] > 0}

Due == {e \in Events : event[e].status = "failed" /\ due[e] > 0}

Listed == Oldest(Due, due) \union Oldest(Stale, aged)

\* sweep_due makes its lists and reads the first row in one snapshot: the next one is
\* opened after its first commit.  The order of the rows after that is left open.
StartSweep ==
    /\ sweep = {} /\ ~Busy(Sweeper)
    /\ \E e \in Listed : Read(Sweeper, e) /\ sweep' = Listed \ {e}
    /\ UNCHANGED <<event, due, aged, jobs, webhook, retrying, history>>

\* An exception is logged and the sweep goes on with the next row
SweepNext(e) ==
    /\ e \in sweep /\ ~Busy(Sweeper)
    /\ sweep' = sweep \ {e}
    /\ Read(Sweeper, e)
    /\ UNCHANGED <<event, due, aged, jobs, webhook, retrying, history>>

-----------------------------------------------------------------------------

\* retry_outbound_event: check the status, then requeue overwrites the row
BeginRetry(e) ==
    /\ retries < MaxRetries
    /\ e \notin retrying
    /\ event[e].status \in {"failed", "dead"}
    /\ retrying' = retrying \union {e}
    /\ retries' = retries + 1
    /\ UNCHANGED <<event, due, aged, jobs, webhook, flight, sweep, failures, recent,
                   overtaken, losses>>

\* The attempts are left as they are
RequeueMutant(e) ==
    /\ e \in retrying
    /\ retrying' = retrying \ {e}
    /\ event' = IF Exists(e) THEN [event EXCEPT ![e].status = "queued"] ELSE event
    /\ due' = Left(due, e)
    /\ jobs' = [jobs EXCEPT ![e] = @ + 1]
    /\ recent' = [recent EXCEPT ![e] = 0]
    /\ overtaken' = IF \E d \in flight : d.event = e
                    THEN overtaken \union {e} ELSE overtaken \ {e}
    /\ UNCHANGED <<aged, webhook, flight, sweep, failures, retries, losses>>

Requeue(e) ==
    /\ e \in retrying
    /\ retrying' = retrying \ {e}
    /\ event' = IF Exists(e)
                THEN [event EXCEPT ![e] = [status |-> "queued", attempts |-> 0]]
                ELSE event
    /\ due' = Left(due, e)
    /\ jobs' = [jobs EXCEPT ![e] = @ + 1]
    /\ recent' = [recent EXCEPT ![e] = 0]
    /\ overtaken' = IF \E d \in flight : d.event = e
                    THEN overtaken \union {e} ELSE overtaken \ {e}
    /\ UNCHANGED <<aged, webhook, flight, sweep, failures, retries, losses>>

\* set_webhook, revoke_credentials
SetWebhook(b) ==
    /\ webhook # b
    /\ webhook' = b
    /\ UNCHANGED <<event, due, aged, jobs, flight, sweep, retrying, history>>

\* on_listing_trash
Trash(e) ==
    /\ Exists(e)
    /\ event' = [event EXCEPT ![e] = [status |-> "deleted", attempts |-> 0]]
    /\ due' = Left(due, e)
    /\ aged' = Left(aged, e)
    /\ UNCHANGED <<jobs, webhook, flight, sweep, retrying, history>>

-----------------------------------------------------------------------------
(* Time and failures *)

BackoffElapses(e) ==
    /\ event[e].status = "failed" /\ due[e] = 0
    /\ due' = Joined(due, e)
    /\ UNCHANGED <<event, aged, jobs, webhook, flight, sweep, retrying, history>>

\* No later write moves `modified` (update_modified=False everywhere)
Ages(e) ==
    /\ Exists(e) /\ aged[e] = 0
    /\ aged' = Joined(aged, e)
    /\ UNCHANGED <<event, due, jobs, webhook, flight, sweep, retrying, history>>

LoseJob(e) ==
    /\ losses < MaxLosses /\ jobs[e] > 0
    /\ jobs' = [jobs EXCEPT ![e] = @ - 1]
    /\ losses' = losses + 1
    /\ UNCHANGED <<event, due, aged, webhook, flight, sweep, retrying, failures, recent,
                   overtaken, retries>>

\* A process dies during its POST (job timeout, deploy): nothing is recorded
Killed(d) ==
    /\ losses < MaxLosses
    /\ flight' = flight \ {d}
    /\ sweep' = IF d.by = Sweeper THEN {} ELSE sweep
    /\ losses' = losses + 1
    /\ UNCHANGED <<event, due, aged, jobs, webhook, retrying, failures, recent,
                   overtaken, retries>>

-----------------------------------------------------------------------------

DeliveryInit ==
    /\ event = [e \in Events |-> [status |-> "none", attempts |-> 0]]
    /\ due = [e \in Events |-> 0]
    /\ aged = [e \in Events |-> 0]
    /\ jobs = [e \in Events |-> 0]
    /\ webhook = TRUE
    /\ flight = {} /\ sweep = {} /\ retrying = {}
    /\ failures = [e \in Events |-> 0] /\ recent = [e \in Events |-> 0]
    /\ overtaken = {}
    /\ retries = 0 /\ losses = 0

DeliveryNext ==
    \/ \E e \in Events :
        \/ Emit(e)
        \/ \E w \in Workers : TakeJob(w, e)
        \/ SweepNext(e)
        \/ BeginRetry(e)
        \/ Requeue(e)
        \/ Trash(e)
        \/ BackoffElapses(e)
        \/ Ages(e)
        \/ LoseJob(e)
    \/ \E d \in flight : Finish(d) \/ Killed(d)
    \/ StartSweep
    \/ \E b \in WebhookSettings : SetWebhook(b)

\* The scheduler starts a sweep every five minutes, a sweep works through its
\* list, a POST has a time limit, and time passes.  Nothing is assumed of the
\* queue workers: a backlog may keep a job waiting for ever.
Fairness ==
    /\ WF_deliveryVars(StartSweep)
    /\ WF_deliveryVars(\E e \in Events : SweepNext(e))
    /\ \A p \in Processes : WF_deliveryVars(\E d \in flight : d.by = p /\ Finish(d))
    /\ \A e \in Events : WF_deliveryVars(BackoffElapses(e)) /\ WF_deliveryVars(Ages(e))

DeliverySpec == DeliveryInit /\ [][DeliveryNext]_deliveryVars /\ Fairness

-----------------------------------------------------------------------------
(* Properties *)

DeliveryTypeOK ==
    /\ event \in [Events -> EventRow]
    /\ due \in [Events -> Nat] /\ aged \in [Events -> Nat]
    /\ jobs \in [Events -> Nat]
    /\ webhook \in BOOLEAN
    /\ flight \subseteq Delivery
    /\ sweep \subseteq Events /\ retrying \subseteq Events
    /\ failures \in [Events -> 0..MaxAttempts] /\ recent \in [Events -> 0..MaxAttempts]
    /\ overtaken \subseteq Events
    /\ retries \in Nat /\ losses \in Nat

\* An event is given up only after MaxAttempts recorded failures, and counted as
\* failed only below that, although overlapping deliveries overwrite each other's
\* attempts and a retry resets them under a delivery in flight.
DeadAfterAllAttempts ==
    \A e \in Events :
        /\ event[e].status = "dead" => failures[e] >= MaxAttempts
        /\ event[e].status = "failed" => event[e].attempts < MaxAttempts

\* A retry gives an event all its attempts again (requeue resets the count), although
\* the job it queues, the job it was retried for and the sweep may deliver it at once:
\* it is given up only after MaxAttempts failures recorded since.  Excepted is an event
\* retried while a delivery that had read it before was under way, whose answer
\* overwrites the reset.
RetryCountsAnew ==
    \A e \in Events \ overtaken :
        event[e].status = "dead" => recent[e] >= MaxAttempts

\* However jobs are lost and processes killed, the sweep brings every event whose
\* secret can be read to an end: sent, given up, skipped or deleted with its listing.
Settled ==
    \A e \in Events \ Poison :
        <>[](event[e].status \notin {"queued", "failed"})

-----------------------------------------------------------------------------
(* What a docstring says and the code does not always do                   *)

\* requeue: "retry by hand: the attempt counter is reset", whatever is under way
RetryResetsAttempts ==
    \A e \in Events : event[e].status = "dead" => recent[e] >= MaxAttempts
=============================================================================
