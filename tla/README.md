# A verification development for tradehub_core

tradehub_core is a multi-vendor B2B marketplace written in Python on the Frappe
framework (v15), MariaDB (InnoDB, REPEATABLE READ) and Redis/RQ. This directory holds
TLA+ models of parts of it, TLC configurations that check them on small instances, and
TLAPS proofs of what holds for every instance. File references are relative to
`src/tradehub_core/` unless they start with `docs/` or `CHANGELOG.md`.

Contents: [inventory](#inventory), [how the code runs](#how-the-code-runs),
[modules](#modules), [runs](#runs), [proofs](#proofs),
[what the models show about the code](#what-the-models-show-about-the-code),
[not modelled](#not-modelled), [plan](#plan).

## Inventory

The repository has no single core loop: it is a set of HTTP endpoints, document hooks,
scheduled jobs and queued jobs that share one database. The components that carry state
across requests are these.

| Component | State | Operations | What is hard | What makes it correct |
|---|---|---|---|---|
| Orders and stock ledger (`api/order.py`, `api/cart.py`, `utils/stock.py`) | order status, `stock_deducted`, remittance flag, refund status, refund rows; per listing `stock_qty`, `reserved_qty`, `available_qty`; per variation `variant_stock` | create order, cancel, submit remittance, confirm payment, ship, request refund, decide refund | guards read a snapshot, writes hit the current row; clamps hide losses; two ways of giving stock back | no over-sell, no unit lost, no reservation leaked, statuses move forward only |
| Outgoing stock events, feed (`integration/outbound.py`, `api/v1/catalog.py`) | event rows with autoincrement ids, row locks, the reader's cursor | emit inside a stock transaction, poll | ids given out before commit; failed emissions are swallowed | a reader that goes by ids sees figures in order and ends on the current one |
| Outgoing stock events, webhook delivery (`integration/outbound.py`, `api/catalog_integration.py`) | per event status, attempts, next attempt; queue; sweep list | deliver, mark sent / failed, sweep, retry from the panel, webhook on/off, cascade delete | worker and sweep hold one event at once; jobs lost; processes killed | every event comes to an end; given up only after all attempts |
| Coupons (`api/cart.py`) | usage rows, `used_count` | reserve, release | usage limits under concurrent checkouts | never more uses than the limit |
| Payment transactions and bank matching (`api/payment.py`, doctypes) | payment rows, bank rows, match status | create (idempotent by lookup), match, complete | lookup then insert without a key; match racing a confirmation | one row per order and kind; no match left hanging |
| Catalog API (`api/v1/catalog.py`) | listings, variations, prices | upserts, absolute stock of a listing or a variation | absolute writes against relative ones and open reservations | a figure sent twice changes nothing twice |
| Bulk import (`bulk_import/`) | job row, chunk progress, feed schedule | start, run chunk, cancel, repair, next due | crash between chunks; cancel racing a chunk | every row applied once or reported; the job ends |
| Carrier resilience (`logistics/resilience/`) | Redis keys per carrier: open, failures, probe, notice | allow, probe, record success / failure / neutral, reset | several keys without a transaction; time-to-live of each; late answers | one probe at a time; never open for ever |
| Shipments and tracking (`logistics/services/`, `logistics/hooks.py`, `api/v1/shipment.py`) | per shipment status, quantity and events; per order fulfillment status and count | create from an order, change status or quantity, webhook, cancel, delete | repeated and reordered carrier events; quantities summed from a snapshot; an error swallowed in the middle of a transition | no shipment goes back; the order says what its shipments carry |
| Subscriptions and dunning (`services/subscription_lifecycle.py`, `api/v1/subscription.py`, doctypes) | subscription status, period, reminder flags, planned cancellation; bank transfers | remind, end a trial, expire, suspend, lapse; confirm, reject, upgrade, cancel, revoke, edit, delete the account | jobs list, re-check, then save; documents loaded before and saved after another's save; flags set blindly | paid once per period; no job ends what is paid for; what nobody pays for ends |
| Authorization tuples (`services/tuple_sync.py`, `services/rebac_*.py`) | relation tuples in the external service | write and delete jobs, drift repair | jobs run in any order and may fail | tuples converge to the documents |
| Order approval (`services/approval_workflow.py`, `services/order_approval_hooks.py`) | rule, approval with level and log, the order's status | start, approve, reject (none is ever reached, see [not modelled](#not-modelled)) | two approvers at once; the rule edited meanwhile | duties stay separate; a decision is final |
| Delegation, ownership (`services/delegation_service.py`, `services/owner_transfer.py`) | temporary roles, transfer requests | grant, revoke, expire, accept | overlapping delegations of one role | a role lasts as long as some delegation |
| Notifications (`notifications/`) | events, deliveries per channel, digests | dispatch, deliver, digest | crash between sending and marking | nobody misses a mandatory message |
| SEO job queue (`seo_helper/core/queue.py`) | job rows | enqueue (deduplicated), run, finish | crash leaves `running`; two workers | a job runs to an end |
| Media pipeline (`media/`) | upload sessions; per file the transcode and scan columns, and where the file lies | upload, transcode, scan, hold, release, quarantine, retry, sweep | a kill between two commits; a message lost; a sweeper and a worker on one file | one run at a time; every job ends; no file is held for ever |
| Event-condition-action rules (`eca/dispatcher.py`) | rule log, recursion guard | fire on document events | rules changing documents that fire rules | bounded recursion |
| Front office (`api/listing.py`, `api/rfq.py`, `api/chat.py`, ...) | listings, quotations, messages | single-row reads and writes | permission checks | - |
| Identity, KYB, permissions (`api/v1/identity.py`, `api/v1/kyb.py`, `permissions.py`) | accounts, verification forms | sequential forms, query predicates | - | - |
| Privacy and retention (`privacy/`) | erasure and export requests | batch jobs | - | - |

They interact through the database (an order's stock moves write `tabListing`, which the
catalog API also writes), through calls made inside a transaction (`utils/stock.py` calls
`emit_stock_change`, which inserts an event row under the order's locks), through jobs
queued after commit (`deliver`), and through scheduled jobs that look for what was left
undone (`sweep_due`). `PROJECT.json` lists every component with its sources, and under
`hazards` the places, line by line, where something can go wrong that a test would
hardly reach.

## How the code runs

Facts about the platform that the models take over:

- An HTTP request is one database transaction: it commits when the handler returns and
  rolls back when it throws. The isolation level is REPEATABLE READ. A plain SELECT, and
  so every guard of a handler that uses `frappe.db.get_value` or `get_doc` without
  `for_update`, reads the snapshot of the request's first read. An UPDATE, and a locking
  read, work on the newest committed row, wait for its lock and hold it to the commit. A
  plain SELECT also sees the transaction's own changes, but an UPDATE that leaves every
  column as it was makes no such change.
- `Document.save` refuses to save when the row's `modified` differs from the one loaded;
  `frappe.db.set_value` and raw SQL check nothing.
- Frappe queues one instance of a scheduled job at a time. A queued job exists only in
  Redis; it can be lost, and its worker killed, without any trace in the database.
- Autoincrement ids are given out at insert and not given back by a rollback.

## Modules

### OrderStock

Orders and the stock they move. `order[o]` is the row of `tabOrder` (status,
`stock_deducted`, remittance present, refund status, number of refund rows, quantities
per listing); `listing[l]` is the row of `tabListing` and its `tabListing Variant Item`
row. `open` is the set of requests that have read their snapshot and not committed.

A request is two steps. `Begin(s, h, o)` takes the snapshot and passes the early returns
of handler `h` (`Admits`), remembering what the handler later uses of it: `cancel_order`
the whole document, `submit_refund_request` the number of refund rows, and the stock
movers the `available_qty` they could read back. Then one of the handlers' commits fires,
or `Abort` (any throw, deadlock or lost connection). Because a commit works on the
current rows, it covers the lock waits of the real transaction: the order of the commits
is the order in which the row locks were had. `CreateOrder` is a single step since its
only guard, the conditional UPDATE of `reserve_stock_for_order`, is evaluated on the
current rows; a checkout of several sellers is several of these steps or none.

| Code | Model |
|---|---|
| `cart.create_order` with `reserve_stock_for_order` (and `deduct_...` for instant payment) | `CreateOrder` |
| `order.cancel_order`, with the `modified` check of `Document.save` | `CancelOrder` |
| `order.submit_remittance` with `deduct_stock_for_order` | `SubmitRemittance` |
| `order.seller_confirm_payment` | `SellerConfirmPayment` |
| `order.seller_ship_order` | `SellerShipOrder` |
| `order.submit_refund_request` with `create_payment_transaction`'s lookup | `SubmitRefundRequest` |
| `order.seller_handle_refund` with `restore_stock_for_refund` | `SellerHandleRefund` |
| `catalog.update_stock` of a listing SKU | `SellerSetsStock` |
| `_update_variant_stock`, `_recalculate_available`, the four stock movers | `VariantMoved`, `Recalculated`, `ReserveItem` / `DeductItem` / `ReleaseItem` / `ReturnItem` |

`received` (units ever put on the shelf) and `requests` (refund requests accepted) are
history variables: no guard of a handler reads `received`, and `requests` only bounds
the exploration.

The accounts of a listing compare its columns with what orders hold. A reservation is owed
to an order that is placed and neither deducted, cancelled nor refunded
(`HoldsReservation`); units off the shelf, to one that deducted them and is not cancelled
(`Deducted`). A cancelled order holds nothing, whatever its flag says. `NoVanishedStock`,
the balance of the shelf, therefore fails when a remittance that began before a
cancellation commits after it (OrderPaidAfterCancel), and holds as long as that does not
happen (`RemittanceApart`), which a theorem states. The row of a variation has no
reservation of its own and is left alone by a remittance, so `NoVanishedVariant` needs no
such premise.

### OrderLifecycle

What OrderStock's requests look like to whoever reads an order's status and refund: one
step each. Its guards are the ones that still hold at the commit, so it names the
transitions that late commits add to those the endpoints intend: a confirmation may land on
any placed order, a shipment on a cancelled one, a refund request on a refund already
approved. A cancellation, a refund decision and a checkout are never late.
`OrderStock!FollowsLifecycle` is the refinement, with `status` and `refund` read off the
order rows.

### OutboundFeed

The events that stock moves publish, from the point of view of a reader. A request runs
through its list of moves (`MoveStock`): it takes the listing's row lock
(`_lock_listing_row`) and keeps it, makes a new figure, and inserts an event with the
next id, or fails to and goes on (`emit_stock_change` swallows its errors). `Commit`
publishes the figures and the events together; `Rollback` drops both but not the ids. `SellerSetsStock` is the ERP's own
write, which publishes nothing. `Poll` is the endpoint `changes`. A figure is a number
that stands for the three quantities of a listing; what these are is OrderStock's
matter. Moves may lock listings in any order, so requests can block each other; the
database resolves that by rolling one of them back, which `Rollback` covers.
Events deleted with their listing are in OutboundDelivery.

### OutboundDelivery

The life of one event row after its insert. `deliver` reads the row and the webhook,
then POSTs, then records the answer. `Read` is the first part, in one snapshot (called by
`TakeJob` of a queue worker, by `StartSweep` and by `SweepNext`): it puts a delivery in
`flight` with the status it saw and the attempts it read. `Finish` records the answer from
that reading. The POST itself happens at any time between the two, whatever the row says
by then; anything may come in between: another delivery of the same event, its answer, a
retry, a deletion. `StartSweep` makes the two lists of `sweep_due` and reads the first
listed row in the same snapshot, since the next one is opened only after a commit;
`BeginRetry` and `Requeue` are the two halves of `retry_outbound_event`; `Trash` is
`on_listing_trash`; `LoseJob` and `Killed` are what happens to jobs and processes.
`failures`, `recent` and `overtaken` are history variables: the failures recorded of an
event, those since it was last retried, and whether that retry came while a delivery was
under way, whose answer overwrites the reset. Time appears as the order
in which rows become due: `due` and `aged` are lines, as functions to numbers, because
`sweep_due` takes the oldest first and only so many. Its specification is called
`DeliverySpec`, so that one proof module can extend it beside OutboundFeed.

### CircuitBreaker

One circuit of `CarrierCircuitBreaker`: the Redis keys `open`, `failures` and `probe`, each
with its time to live counted down by `Tick`, shared by all `Callers`. A method of the
breaker is several Redis commands, so each command is a step: `ReadOpen` and `ReadFailures`
are `state()`, `AcquireProbe` the `SET NX` of `acquire_probe()`; a call under way is
`calling` or, with the right to probe, `probing`; `RecordFailure` is the MULTI of `SET NX`
and `INCR`, after which `Open` may follow; a failed probe is `RecordProbeFailure`,
`RefillFailures`, `FreeProbe`. `RecordSuccess` deletes all keys and `RecordNeutral` gives a
probe's key back; the latter also stands for the calls that `request()` ends without a
record (address guard, an error in the caller's classifier). `RedisFault` is any swallowed
Redis error, with what each method answers then; `Killed` a worker that dies anywhere.
Calls take any time, so records of old calls arrive in any state of the circuit.
`recent` is a history variable that keeps real failures by age, apart from the key.

### Subscription

The subscription of one store. `sub` is the Store Subscription row, `pay` its Subscription
Payment rows, `closed` the suspended profile with the disabled owner. A request is a
transaction: `Begin...` loads what it will save (`session[s].doc`), and `SetCancel`,
`Confirm`, `Upgrade`, `Edit`, `Delete` or `Request` writes. A function of a job is two
steps: `List` runs its query, and `Remind`, `Transit` or `Skip` works on what was listed.

Frappe refuses to save a document whose row has been saved since it was loaded. So a save
makes every other loaded document out of date: `OutdatedSessions` turns those requests into
refused ones, `OutdatedJobs` clears `fresh`, and a job then skips the row. Reminder flags
are set by `frappe.db.set_value`, which refuses nothing and makes nothing out of date.

| Code | Model |
|---|---|
| `process_trial_lifecycle`, `process_paid_lifecycle` and the functions they call in order | `Start`, `Steps`, `After`, `List`, `Due` |
| the re-check and save of each function | `StillDue`, `Worked`, `Transit`, `Skip` |
| the reminder cascades | `Stage`, `Reminded`, `Remind` |
| `validate` with its table of transitions | `ValidTransitions`, `Allowed`, `WithStatus` |
| `request_cancellation`, `revoke_cancellation`, `delete_account` | `BeginCancel`, `BeginRevoke`, `SetCancel`, `BeginDelete`, `Delete` |
| `create_bank_transfer_request`, `confirm_subscription_payment`, its rejection | `Request`, `Confirm`, `Reject` |
| `upgrade_subscription_plan`, the Desk form | `Upgraded`, `Activate`, `Upgrade`, `Edit` |

Time counts in steps of some days. `end = 0` is a period that is not set; `reminded` and
`dunning` count the flags of a cascade (the trial's and the period's are never in use
together, so they share one); all periods have one length; nobody edits dates by hand. A
run of a job that would find nothing is left out (`Start` needs something due), since it
changes nothing. `warned`, `suspender` and `activated` are history variables.

### MediaJobs

The transcoding and the scan of one uploaded video, under the contract of `media/jobs.py`
that both follow. `row[j]` holds the columns of job `j` in the File row; `file` says what
lies at the served address, in the hold directory and in quarantine; `queue`, `worker` and
`sweep` are Redis, the worker processes and the two sweepers. A step is what lies between
two commits or two moves of the file, and a process may be killed between any two
(`KillWorker`, `KillSweep`, `KillUpload`, `KillRetry`; `Send` may lose a message). Every
move of a file may fail, as often as it likes: the code logs the error and goes on as if
the file had been moved (`MoveTo`, `Hold`). The move into the hold and the commit of an
upload or a retry are one step when both happen: nobody looks for a file without a row, and
a retry has locked the scan's row. That a process is killed between the two is a step of
its own, which leaves a held file with no row or with the old one. Instead of a clock a row
has the `age` of its `started_at` and the `wait` until its `next_at`, so time has no end.

| Code | Model |
|---|---|
| `hold`, `release_hold`, `_quarantine`, `current_path`, a move that fails | `Hold`, `ReleaseHold`, `Quarantined`, `CurrentPlace`, `MoveTo` |
| `enqueue_transcode` with `enqueue_scan`, `retry_failed`, `release_from_quarantine`, `backfill_pending` | `Upload`, `Ask` and `Retry`, `ReleaseFromQuarantine`, `Backfill` |
| the run of a transcode | `Begin`, `CheckHold`, `Replace`, `Ready`, `FailVideo` |
| the run of a scan | `Begin`, `Scanned`, `StampClean`, `FailScan`, `SettleScan` |
| the five-minute sweepers | `List`, `Requeue`, `SendAgain`, `Abandon`, `SettleSweep` |
| `_stamp_started`, the back-off, `_dead_letter` | `Stamped`, `Planned`, `DeadLetter`, `Counted` |

The policy whether a file that cannot be scanned is locked away may differ from failure to
failure (`FailClosed` is the set to choose from). Each address has one File row, and a
sweep takes all that is due. `failures`, `stranded` and `overtaken` are history variables:
the second becomes true when a file is not moved after a verdict, because the move failed or
the process was killed first, when it is held by a request that is killed before its commit,
and when a result is put where the file no longer is. The third marks where
the contract ends. It becomes true when `retry_failed` begins a job again that had failed
when it looked and has not any more (`Ask` and `Retry` are its two halves), when it begins
a scan again between the two commits of `_dead_letter` and `_quarantine`, which lock the
file away (`LockedAway`), and when a job waits in its queue until it looks abandoned
(`LooksAbandoned`, only under `LongQueue`). `OneRun`, `GivenUpLast` and the bound on the
attempts are claimed until then; what happens after is told
[below](#what-the-models-show-about-the-code).

`Settles` claims that every scan ends, and every transcoding unless its file is held for
ever; `HoldEnds`, that a file is held for ever only if it is `stranded`. That it never is,
as comments in the code say, is `NeverHeldForever`, which MediaHeldForever refutes.

### Shipment

The shipments one order is split into. `rows` is `tabShipment`, `told` the shipments with a
Shipment Event, `order` what the order says of them. `Begin` takes the snapshot: the row,
what each shipment takes from the order, and the order itself. `Create`, `Save`, `Apply`
and `Delete` commit what follows from it: the row (`Written`: whoever has the same shipment
loaded is refused, so it leaves), the order's fulfillment recomputed from the snapshot
(`Refresh`), and the event. `Apply` is a carrier's message worked on by a job. It may ask
for any status at any time, since carriers repeat and reorder; and when a hook raises, the
job logs it and commits the row without event and without refresh (`raises`). `calm` is a
history variable: no two transactions have overlapped yet and no job went on after an
error. Idempotency keys, the signature and deduplication of webhooks, addresses, packages,
costs, legs, and several messages in one body are left out.

### MC modules

The modules `MC...` add only the instances: what orders contain, which requests exist, the
lengths of the cascades, and symmetry (over sessions, orders, requests and shipments, which
are interchangeable; never in a run with a liveness property). No configuration replaces a
definition of a module.

Operators whose name ends in `Mutant` are the following definition with one plausible
bug; none of the specifications uses them. Replacing a definition by its mutant makes the
property named in `PROJECT.json` fail, which shows that the property depends on the code
being as it is.

## Runs

| Run | Question | Instance | Result |
|---|---|---|---|
| OrderRaces | Do any two order requests at once leak reservations, lose units of a variation or move a status wrongly? Does every commit look like one step of OrderLifecycle? | 2 workers, 2 orders, 1 listing with a variation, stock 2, orders of 1 or 2 units, 2 refund requests | holds (1,887,634 states) |
| OrderCatalog | Are units lost or reservations leaked between late ERP figures and one order request at a time? Is anything over-sold? | 1 worker, 2 orders, a tracked and a backordered listing, ERP figure 1 | holds (590,913) |
| Delivery | Are attempts counted soundly, does a retry give all of them again, and does every healthy event come to an end? | 2 events, one of which always raises; 1 worker and the sweep; 3 attempts; batch 2; 1 retry, 1 loss; webhook on and off | holds (386,716) |
| Feed | Is the feed in order, and does it end at the current figure? | 2 requests, 2 listings, either order of locks; 3 ids, 3 figures, page of 2 | holds |
| Circuit | Does the circuit open only on recent failures, is the probe key never left behind, and does the circuit close by itself? | 3 callers, threshold 3, cooldown 2, window 3, 1 fault or kill | holds |
| Subscription | Do the jobs, the owner and the administrator ever end what is paid for, count a transfer twice, or forget a planned cancellation or a manual suspension? Does what nobody pays for end? | 2 requests at once, both jobs, 1 transfer, 1 plan, trial and period of 2, suspension 1 and lapse 2 after the end, time up to 6, 2 requests or kills | holds |
| MediaJobs | Until it is overtaken, does a job ever run twice at once or get given up early? Does each end, and is a file held for ever only by a move that failed or a process killed before it? | 1 worker per queue, 2 attempts, back-off 1, run limit 1, stale after 2, both policies, 1 retry or release, 2 kills or lost messages, any move may fail | holds (224,804) |
| Shipments | Can any interleaving take a shipment back? Is the order exact as long as nothing overlaps? | 2 shipments, 2 units, 2 transactions at once, any status asked for | holds |
| OrderDoubleReturn, OrderPaidAfterCancel, MediaLongQueue, MediaHeldForever | Is what a comment says true? | the smallest instance that shows it | violated |

Further configurations end in a counterexample too. They are kept beside the runs for the
sentences under [what the models show](#what-the-models-show-about-the-code) that cite
them, and are started the same way (`tlc -config OrderResurrected.cfg MCOrderStock.tla`):

| Configuration | Module | Property refuted |
|---|---|---|
| `OrderStaleAvailable` | MCOrderStock | `AvailableInSync` |
| `OrderRefundAttempts` | MCOrderStock | `RefundAttemptsLimited` |
| `OrderResurrected` | MCOrderStock | `ConfirmedOnlyWhileAwaiting` |
| `FeedGap` | MCOutboundFeed | `NothingSkipped` |
| `DeliveryStarved` | MCOutboundDelivery | `Settled` |
| `DeliveryRetryOverwritten` | MCOutboundDelivery | `RetryResetsAttempts` |
| `CircuitSkipsProbe` | MCCircuitBreaker | `OpenKeepsFailures` |
| `SubscriptionUnwarned` | MCSubscription | `NoUnwarnedSuspension` |
| `SubscriptionPaymentFlip` | MCSubscription | `PaymentOutcomeIsFinal` |

### What the bounds leave in

- *Orders.* Two workers suffice for every race of one request with another; the order
  with stock 2 and baskets of 1 and 2 units lets the second order fail for lack of stock,
  be the last unit, or be reserved beside the first, so a release that takes another
  order's units, and a clamp at 0, both happen. `MaxRequests = 2` allows a second refund
  after a rejection, and one refund on each order. OrderCatalog needs one worker only:
  the absolute write is a single step that interleaves with everything. With one worker no
  remittance is beside a cancellation, which is the premise of `NoVanishedStock`; the
  theorem has it for any number of workers under that premise.
- *Delivery.* Three attempts instead of five: what matters is the first, a middle one and
  the last. One worker and the sweep hold one event at once, so two overlapping
  answers overwrite each other's attempts; the theorems have any number of workers. A batch
  of 2 for 2 events means the
  limit never bites: with it biting, `Settled` is false (DeliveryStarved).
  `CHECK_DEADLOCK FALSE` since events do run out.
- *Feed.* Two requests over two listings meet in each order, twice on one listing
  (an order paid at once reserves, then deducts), and three ids give a poll a full page
  and one more.
- *Circuit.* Threshold 3 is the least at which a window that slides with every failure
  would count one that is too old; three callers let a probe, a late record of an older
  call and a new probe overlap; a window one tick longer than the cooldown lets failures be
  spread over it, and the counter end before, with and after the open key. Failures are
  counted in `recent` up to the threshold only.
- *Subscription.* Six units of time see a trial out, a period begun, its end, the reminders,
  the suspension and the lapse; two requests at once race each other and both jobs, and two
  of them let a payment, and then a cancellation or an edit, fall between a job's list and
  its save. One transfer may still be confirmed twice. The delays keep the order the code's
  have, and the distance that makes the first reminder come before the suspension.
- *MediaJobs.* Two attempts: a first that is tried again and a last that is not. One worker
  per queue: beside it there are the sweeper, the other queue and whoever retries; a second
  run of one job would show in `OneRun` as a second message already. The instance with two
  workers and one fault (423,381 states) passes too, and takes too long to be a run. The
  stale limit is one more than the run limit, the least the code's own rule allows. Two kills
  or lost messages at any place, besides the kills at the time limit and the moves that fail,
  which are not bounded; one retry, which may start the job long after it saw the failure, and
  may so overtake it. The theorems hold for any number of workers, attempts, retries and
  faults. `Settles` and `HoldEnds` are claimed whether or not a job was overtaken.
- *Shipments.* Two shipments of two units each of one or two: exactly filled, over-filled,
  and with a remainder. Two transactions at once give every race of two saves.
- `CHECK_DEADLOCK FALSE` where the system may rest: all orders shipped or cancelled, a
  subscription or a video at its end, time up.

### Fairness

Four modules claim liveness. `CircuitBreaker` assumes only that time passes: `Recovers`
holds whether or not anybody calls. `OutboundDelivery` assumes weak fairness of the scheduler
starting a sweep (a cron entry every five minutes, `hooks.py`), of the sweep going on
with its list (a `for` loop whose body catches every exception), of a POST coming to an
end (`requests.post` has a timeout of ten seconds), and of time passing. It assumes
nothing of the queue workers: `Settled` must hold although jobs lie in the queue for
ever. Losses and retries are finite (`MaxLosses`, `MaxRetries`): with a process killed in
every delivery, or a user pressing retry for ever, nothing can be promised; a webhook
switched on and off for ever is allowed. `Settled` says nothing about events whose
secret cannot be read.

`Subscription` assumes that each cron job is started again and again and run to its end
(`hooks.py`, every half hour; kills are finite). It assumes nothing of people, nor even that
time passes: `UnpaidEnds` speaks of what has run out by the time that is. `MediaJobs`
assumes that workers take what waits and go on, that each sweeper comes round every five
minutes, and that time passes; it assumes nothing of whoever uploads, retries or releases.
Kills and lost messages are finite; moves that fail are not. `HoldEnds` excepts `stranded`,
because no code looks again for a file that was not moved after its verdict, and `Settles`
excepts a video whose file is held for ever, which is put off again and again.

## Proofs

The modules `...Proofs` hold the theorems; all are about the specification with arbitrary
constants under the module's named assumption (quantities are natural numbers, orders are
finitely many, tracked listings are listings, the sweeper is not a worker, ...). Nothing
else is assumed. `SumLemmas` holds what they need of sums over finite sets.

| Theorem | Says | Argument |
|---|---|---|
| OrderStockProofs `TypeCorrect` | rows and open requests keep their types; no quantity is negative | inductive by itself: every subtraction is clamped |
| `NeverOversold` | `NoOversell` | only `CreateOrder` raises a reservation, and its conditional UPDATE leaves it covered; `TypeOK` for the arithmetic |
| `UnpaidNeverShipped` | `NoUnpaidShipment` | a handler commits on a stale snapshot, so the guard alone says nothing about the current row. `ShipInv`: while a shipment request is open, its order is not awaiting payment, because no handler takes an order back there |
| `ShippedStaysUncancelled` | `ShippedNeverCancelled` | `CancelInv`: an open cancellation whose row has not been touched holds an exact snapshot, which was not shipped |
| `RefundDecisionUnique` | `RefundDecidedOnce` | the conditional UPDATE |
| `ImplementsLifecycle` | `FollowsLifecycle`: OrderStock implements OrderLifecycle | `CommitWrites` lists what a commit makes of its row; `ShipInv`, `CancelInv` and `PlacedInv` (an open request's order is placed, an order not placed has no refund) give the abstract guards |
| `NoReservationLeaks`, `NoStockVanishes`, `NoVariantVanishes` | `NoLeakedReservation`, `NoVanishedStock`, `NoVanishedVariant` | `LedgerInv`: the three inequalities of a listing are an invariant together with `TypeOK`, `PlacedInv` and `UnplacedInv` (no order is deducted before it is placed); the shelf's only under `RemittanceApart`, which `NoStockVanishes` has as its premise. `CommitMoves` says which of three kinds a commit is, by what it does with the units of its order: it keeps what the order holds (`Kept`), takes it off the shelf (`Taken`) or gives it back (`GivenBack`). In each the row's clamped change is no worse than the sum's: `SumChange`, with `SumNat` where the clamp at 0 bites |
| OutboundProofs `DeliveryTypeCorrect` | types; attempts never pass the back-off table | needs `FlightInv`: a delivery in flight carries fewer attempts than the table has entries |
| `GivenUpLate` | `DeadAfterAllAttempts` | `RowInv`: a row's attempts never exceed the failures recorded; `FlightInv`: nor does what a delivery in flight carries, however overlapping deliveries and retries overwrite each other; `DeadInv` follows |
| `RetryAllowsAllAttempts` | `RetryCountsAnew` | `RecentInv`: of an event that was not overtaken, neither the row's attempts nor what any delivery in flight carries exceed the failures recorded since its last retry, since whatever is in flight read the row after the reset |
| OutboundProofs `TypeCorrect` | types of the feed | inductive, with the finiteness of pending events |
| `FeedInOrder` | `ListingInOrder` | `LockInv`: who has uncommitted moves of a listing holds its lock; `PendingInv`: their figures lie above the committed one and in the order of their ids; `LogInv`: published figures do not pass the listing's; `OrderInv`: pending ids lie above the published ones of the listing |
| `NewestAlwaysCurrent` | `NewestIsCurrent` | `SaidInv`: the newest event a request has pending of a listing lies as far below the figure it will commit as it has made moves since without an event; `CurrentInv`: the committed figure less the silent moves is published, and nothing newer is. The second needs the first only at a commit |
| CircuitBreakerProofs `TypeCorrect` | keys keep their times to live | inductive by itself |
| `ProbeAlwaysHeld` | `ProbeKeyHeld` | inductive with `TypeOK`: a caller leaves the places that own the key only by deleting it, and others' steps leave it there |
| `OpensOnlyOnRecent` | `OpensOnRecentFailures` | `CountInv`: the count in the key is no more than the failures since the key was made, or these reach the threshold already; the failures age by one place with every tick and the key with them, so the sum over the places since then is the same (`SumReindex`) |
| SubscriptionProofs `TypeCorrect` | types | together with the rest of `IInv` |
| `OnePeriodPerPayment` | `ActivatedOnce` | `PayInv`: only `Confirm` starts a period, and only of a transfer that is still waiting under its lock, which it ends |
| `CancelIsOfActive` | `CancelOnlyWhileActive` | `RowInv` with `SessionInv`: a loaded document that may still be saved equals the row up to its reminder flags, so a planned cancellation is set on an active row only; `validate` and `Upgraded` clear it |
| `PaidPeriodIsHonoured` | `PaidPeriodHonoured` | `JobInv`: what a job has listed and may still save equals the row up to the flags, and its period was over when it was listed |
| `ManualSuspensionIsLeft` | `ManualSuspensionStays` | `RowInv`: the mark of a suspension for debt is only on rows a job suspended |
| `CancellationIsHonoured` | `CancellationHonoured` | `RowInv` and the re-checks of the jobs |
| `PaidTimeIsKept` | `RenewalKeepsPaidTime` | `SessionInv`: the period that is extended is the row's |
| ShipmentProofs `TypeCorrect` | types | inductive with `Fresh` |
| `ShipmentNeverBack` | `NeverBack` | `Fresh`: a transaction that may still save holds the row as it is, so what its table allowed is allowed; every allowed step keeps or raises the phase |
| `OrderIsExact` | `ExactWhenAlone` | `Alone`: while nothing has overlapped there is at most one open transaction, and its whole snapshot is as the tables are (`Current`); what fits beside the shipments it read, fits beside those there are (`SumChange`) |
| MediaJobsProofs `TypeCorrect` | types; until overtaken no job counts more attempts than it has | `CountInv`, below |
| `NeverRunTwice` | `OneRun` | `IInv` is a conjunction that ends when a job is overtaken. `OneInv`: of a job one run waits, is about to be sent again or is under way, once. `UnderWayInv`: meanwhile the row is busy, has nothing planned and is no older than the run, and so never looks due or abandoned. `ListedInv`: so what a sweeper has listed rests, and stays as it was listed until it is worked on. `VerdictInv`: a file is in quarantine only while its scan says infected, and one process at most is putting it there, so a release and the backfill after it find no run |
| `NeverGivenUpEarly` | `GivenUpLast` | `CountInv`: a busy job has fewer attempts than it may have, and no more than have failed; fewer, when nothing is planned, waiting or under way, since a run was lost that nobody has counted. `SeenInv`: what a transcode read before ffmpeg is still what the row says. So whoever counts on to the last attempt, counts failures |

The strengthenings (`IInv` in each proof module) were checked as invariants with TLC
before they were proved.

Every invariant and every action property that a passing run checks is the statement of one
of these theorems, `NoVanishedStock` under its premise. Only model-checked are the five
liveness properties `Settled`, `Recovers`, `UnpaidEnds`, `Settles` and `HoldEnds`: fairness
and ENABLED are out of the prover's reach.

Three points about the arguments.

*Sums.* The library's induction theorems take the property to be proved as an operator,
which none of the installed provers can instantiate. `SumLemmas` does without: `SubsetInduction`
says of a *set* `T` of subsets of a finite set that it holds all of them, as soon as it
holds every subset whose strict subsets it holds; it follows from the well-foundedness of strict
inclusion, which is a plain theorem. Each lemma applies it to the set of subsets for which
its equation is true. `SumFunction` takes elements out of its set in an order that CHOOSE
fixes; `SumApart` says that the order makes no difference, and the rest follows from it: one term
changes and the sum changes as much (`SumChange`), terms change places and the sum
stays (`SumReindex`). The models write their sums with this operator.

*What a proof found.* Without `overtaken`, `OneRun` holds in the run, where a person
retries at most once, but no inductive invariant gives it: with two retries TLC shows the
locked-away scan of the section below. So it says where it ends, and the bound on the
attempts and `GivenUpLast` with it.

*What the invariants are for.* None of these properties but the clamped types is
inductive. What carries them is in most modules the same thought: what somebody read
earlier and may still act on equals what is there now, because whatever would have changed it
also makes the act fail (`modified`, a row lock, a conditional UPDATE) or cannot happen
meanwhile (`UnderWayInv`).

## What the models show about the code

Four runs and nine further configurations end in a counterexample. Each finding in
`PROJECT.json` quotes the text the code departs from.

- *OrderDoubleReturn.* Cancelling is refused while a refund is pending, "to rule out a
  double stock return". Cancel, request, approve gives the units back twice all the same,
  and so does request, approve, cancel. The clamp then takes the units out of another
  order's reservation.
- *MediaLongQueue.* The limit after which a running job counts as abandoned is chosen above
  the time limit of a run, so that two workers never write one file. But `started_at` is
  stamped when the job is queued: one that waits longer than the limit behind others is
  sent again, and then both messages are worked on at once.
- *OrderPaidAfterCancel.* `cancel_order` picks the way it gives units back with care, since
  the wrong one is "a permanent loss of stock". A remittance that read the order while it
  awaited payment, and commits after its cancellation, deducts all the same: the units have
  left the shelf for a cancelled order, and no second cancellation brings them back.
- *MediaHeldForever.* The scan puts a file back before it stamps it clean, so that none is
  out of reach and looks sound; the transcoder puts a held file off without counting, since
  the hold is not endless. But a move that fails is swallowed by `release_hold` and the stamp
  follows all the same, after a clean scan and after one that was given up. The
  file stays held and its transcoding is put off for ever.
- *SubscriptionPaymentFlip.* `delete_account` rejects the transfers its snapshot saw waiting.
  The subscription is canceled (any other would be saved by the deletion, which the
  `modified` check then refuses); the deletion sees a transfer waiting; an administrator's
  confirmation of it commits; the deletion sets it to rejected, though a confirmed row is
  declared terminal and has started a period.
- *SubscriptionUnwarned.* The dunning job lists an overdue store; the plan is renewed and a
  new period starts, all flags cleared; the job sends its reminder and sets its flag on
  that new row. When that period ends unpaid too, its own reminder is thought to be out
  already, and the store is suspended without one.
- *OrderStaleAvailable.* A refund of one order is approved, a cancellation of it begins,
  another buyer takes a second order and pays, and the cancellation commits:
  `_recalculate_available` may compute from the snapshot of the
  request's start after an UPDATE that changed nothing, so `available_qty` can be more
  than the stock minus the reservations.
- *OrderRefundAttempts.* The limit of three refund requests counts rows that exist at
  most once per order.
- *OrderResurrected.* A payment confirmation that read the order before a cancellation
  committed turns the cancelled order into a confirmed one with no units.
- *FeedGap.* Polling by id can skip an event for good, where a report says that polling
  is complete. `ListingInOrder` still holds, and with it the next event of the
  same listing brings the figure up to date.
- *DeliveryStarved.* As many events as a sweep takes, whose delivery raises, hold up
  every later event whose job was lost.
- *DeliveryRetryOverwritten.* A retry by hand resets the attempts, but the answer of a
  delivery that had read the row before overwrites the reset, and the event is given up after
  fewer new failures than it should be allowed.
- *CircuitSkipsProbe.* When the failures that open a circuit are spread over most of the
  window, their counter expires before the cooldown ends, and the circuit goes from open to
  closed without the half-open phase that lets one call through at a time.

What holds is as telling: over-selling is ruled out by the conditional UPDATE alone, a
cancellation cannot overwrite a shipment because of the `modified` check alone, and
overlapping deliveries never give an event up early although they overwrite each other's
attempt counts; a circuit that opens wrongly, because a success was recorded between a
failure's count and its opening, closes by itself; and the jobs of a
subscription never act on a period that a payment has just begun, by the `modified` check
alone.

A failed video or scan that a person retries can be begun twice. `retry_failed` looks
at the status and then stamps the row, without a lock (`transcode.py:519-536`,
`av.py:1195-1201`), so two people who both saw "failed" send two messages. One is
enough when a scan that cannot be made is to be locked away: `_dead_letter` commits
"failed" (`av.py:1149-1155`) and `_quarantine` "infected" only after that, so a retry that
lands in between is overwritten while its message waits. The file is then put in
quarantine; an administrator who releases it clears the status, and the backfill begins a
second scan. Either way `OneRun` is broken, and by the first, for a video, `OneWriter`
with it: with `overtaken` taken out of `OneRun`, TLC shows the first with
`MaxRequests = MaxRetries = 2` and the second with `MaxRetries = 2` alone. Nothing in the
repository says that a retry is safe against this.

Some behaviour is against no text of the repository and is therefore no finding, but a reader
of the models will see it. Two drafts created together can take the same units (known to
`split_engine.py:39-43`); afterwards every save of either fails the check of quantities, a
carrier's messages included. A "Delivered" that arrives before the "In Transit" it follows
is refused for good. Two copies of one webhook body that arrive together give two jobs
(`logistics_webhook.py:177-178`).

## Not modelled

- Inside the modelled components: payment rows (no property here reads them), coupons,
  cart contents, addresses, the Desk-only order status "completed", the `webhook_failures`
  counter, signatures and payloads, the variation write of `update_stock`, the breaker's
  notice key (it thins out the log) and the attempts within one carrier call.
- Of subscriptions: hiding and restoring the storefront, role downgrades, entitlement caches,
  a second trial, yearly against monthly periods. They follow the status and do not change it.
- Of the media pipeline: chunked upload, posters and image derivatives, `files.replace` and
  the scan after it, deletion and trash, several File rows of one address.
- Order approval, because it does not run. The only caller that starts one reads
  `doc.seller_profile` (`order_approval_hooks.py:54`), a field Order does not have, and
  swallows the error (77-81), so no order ever waits for approval. A chain of two levels
  would stop after the first: `approval_workflow.py:286-298` saves "Pending L1" as "Pending
  L2", which the doctype's table of transitions refuses (`order_approval.py:22-49`). A model
  of the intended workflow would say nothing about this code.
- Of shipments: what the section above names.
- Duplicate receipt of a webhook (a POST that times out may have arrived): delivery is at
  least once by design, and the delivery id lets the receiver tell.
- Event-condition-action rules change whatever a user's rule names: there is no fixed
  state machine. Permissions, identity forms and the front office are predicates and
  single-row forms.
- Generated doctypes, patches, templates, translations and the media codecs.
- The remaining components of the inventory are planned below.

## Plan

In this order; each module gets its MC module, a passing run, and a proof module where an
inductive invariant exists.

1. *Done:* OrderStock with its abstract OrderLifecycle, OutboundFeed, OutboundDelivery,
   CircuitBreaker, Subscription, Shipment and MediaJobs, with proofs of every
   invariant and action property that is checked.
2. `PaymentLedger` and `CouponReservation`: lookups followed by inserts under
   concurrent requests, composed with the order statuses of OrderStock. Order approval when
   approvals start, composed with OrderStock, so that a rejection's units are followed too.
3. `TupleSync`: documents, jobs in any order, failures, and drift repair, as an
   implementation of an abstract relation that follows the documents.
4. `ChunkedUpload`, delegation and ownership, the SEO queue and notifications (both
   smaller contracts of MediaJobs' kind), bulk import.
5. The variation write of the catalog API with open reservations; probes with an owner
   in CircuitBreaker.
6. More abstract specifications beside `OrderLifecycle`: a `StockLedger` (a pool of units
   on the shelf, set aside, gone) that OrderStock implements as long as no order is given
   back twice, and an at-least-once delivery that OutboundDelivery implements.
