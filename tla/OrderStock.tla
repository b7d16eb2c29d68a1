----------------------------- MODULE OrderStock -----------------------------
(***************************************************************************)
(* Orders and the stock ledger they move: src/tradehub_core/api/order.py,  *)
(* api/cart.py (create_order), utils/stock.py and the absolute stock write *)
(* of api/v1/catalog.py.                                                   *)
(*                                                                         *)
(* Every endpoint is one database transaction under REPEATABLE READ: its   *)
(* guards are plain reads of the snapshot taken when the request starts,   *)
(* its UPDATEs work on the rows as they are when it commits, and the row   *)
(* locks it takes are held to its commit.  A request is therefore two      *)
(* steps, Begin (snapshot and guards) and the handler's commit; Abort is   *)
(* a rollback (a throw, a deadlock, a lost connection).  A handler whose   *)
(* outcome does not depend on its snapshot is a single step.               *)
(*                                                                         *)
(* Left out: the payment rows the same handlers write (no property here    *)
(* reads them), notifications, and the Desk-only status "completed".       *)
(*                                                                         *)
(* An operator named ...Mutant is the definition after it with one         *)
(* plausible bug; no specification uses it.  Each shows that a property    *)
(* of this module fails when the code does.                                *)
(***************************************************************************)
EXTENDS Integers, FiniteSets, Functions

CONSTANTS
    Sessions,     \* web workers serving requests
    Orders,       \* order names that can be given out
    Listings,
    Tracked,      \* listings with track_inventory = 1
    Backordered,  \* listings with allow_backorders = 1
    Varied,       \* listings whose order items name a variation
    Baskets,      \* what an order can contain: functions Listings -> quantity
    InitStock,    \* stock_qty of every listing at the start
    InitVariant,  \* variant_stock of the variation row at the start
    SellerCounts, \* absolute stock figures the seller's ERP sends
    MaxRequests   \* bound: refund requests accepted over all orders

ASSUME OrderStockAssumption ==
    /\ IsFiniteSet(Orders)
    /\ Tracked \subseteq Listings
    /\ Baskets \subseteq [Listings -> Nat]
    /\ InitStock \in Nat /\ InitVariant \in Nat
    /\ SellerCounts \subseteq Nat
    /\ MaxRequests \in Nat

VARIABLES
    order,     \* tabOrder
    listing,   \* tabListing and its tabListing Variant Item row
    open,      \* requests that have read their snapshot and not committed
    received,  \* history: units ever put on the shelf, per listing
    requests   \* history: refund requests accepted, per order

vars == <<order, listing, open, received, requests>>

Status  == {"none", "awaiting", "confirmed", "shipped", "cancelled"}
Refund  == {"none", "pending", "approved", "rejected"}
Handler == {"cancel", "remit", "confirm", "ship", "refund", "approve", "reject"}

OrderRow   == [status: Status, deducted: BOOLEAN, remitted: BOOLEAN,
               refund: Refund, refundTx: Nat, items: [Listings -> Nat]]
ListingRow == [stock: Nat, reserved: Nat, available: Nat, variant: Nat]
Request    == [session: Sessions, handler: Handler, name: Orders,
               snap: OrderRow, seen: [Listings -> Nat], fresh: BOOLEAN]

\* An order name not given out yet
NoRow == [status |-> "none", deducted |-> FALSE, remitted |-> FALSE,
          refund |-> "none", refundTx |-> 0, items |-> [l \in Listings |-> 0]]

MaxRefundAttempts == 3

-----------------------------------------------------------------------------
(* utils/stock.py *)

\* A plain subtraction instead of GREATEST(0, ...)
ClampMutant(x) == x

\* GREATEST(0, x)
Clamp(x) == IF x > 0 THEN x ELSE 0

\* What _recalculate_available makes of a listing table
View(rows) == [l \in Listings |-> Clamp(rows[l].stock - rows[l].reserved)]

\* _recalculate_available after an UPDATE turned the row old into row.  Its plain
\* read returns the transaction's own version of the row, but an UPDATE that
\* changes no column makes none: then it returns the snapshot's, seen.
Recalculated(row, old, seen) ==
    [row EXCEPT !.available =
        IF row.stock = old.stock /\ row.reserved = old.reserved
        THEN seen ELSE Clamp(row.stock - row.reserved)]

\* _update_variant_stock: nothing when the item names no variation row
VariantMoved(row, l, delta) ==
    IF l \in Varied THEN [row EXCEPT !.variant = Clamp(@ + delta)] ELSE row

\* The listing table after op(row, quantity) on every tracked item of the order
OnItems(op(_, _, _), items, rows, seen) ==
    [l \in Listings |->
        IF l \in Tracked /\ items[l] > 0
        THEN Recalculated(op(rows[l], l, items[l]), rows[l], seen[l])
        ELSE rows[l]]

ReserveItem(row, l, q) ==
    VariantMoved([row EXCEPT !.reserved = @ + q], l, -q)

ReleaseItem(row, l, q) ==
    VariantMoved([row EXCEPT !.reserved = Clamp(@ - q)], l, q)

\* MOGEM-665: the variation row melted twice per order
DeductItemMutant(row, l, q) ==
    VariantMoved([row EXCEPT !.stock = Clamp(@ - q), !.reserved = Clamp(@ - q)], l, -q)

DeductItem(row, l, q) ==
    [row EXCEPT !.stock = Clamp(@ - q), !.reserved = Clamp(@ - q)]

ReturnItem(row, l, q) ==
    VariantMoved([row EXCEPT !.stock = @ + q], l, q)

\* The check before N1: stock alone, not what others reserved
ReservableMutant(items, rows) ==
    \A l \in Tracked \ Backordered :
        items[l] > 0 => rows[l].stock >= items[l]

\* The conditional UPDATE of reserve_stock_for_order matches a row for every item
Reservable(items, rows) ==
    \A l \in Tracked \ Backordered :
        items[l] > 0 => rows[l].stock - rows[l].reserved >= items[l]

\* Always as if the units had left the shelf / had only been reserved
RestoredAsDeductedMutant(row, rows, seen) ==
    OnItems(ReturnItem, row.items, rows, seen)
RestoredAsReservedMutant(row, rows, seen) ==
    OnItems(ReleaseItem, row.items, rows, seen)

\* restore_stock_for_refund picks its direction from the stock_deducted flag
Restored(row, rows, seen) ==
    IF row.deducted THEN OnItems(ReturnItem, row.items, rows, seen)
                    ELSE OnItems(ReleaseItem, row.items, rows, seen)

-----------------------------------------------------------------------------
(* Requests *)

\* The early returns of each handler, evaluated on its snapshot
CancelAdmits(row) ==
    row.status \notin {"cancelled", "shipped"} /\ row.refund # "pending"
RemitAdmits(row)   == row.status = "awaiting" /\ ~row.remitted
ConfirmAdmits(row) == row.status = "awaiting"
\* A blacklist of final statuses where the code has a whitelist
ShipAdmitsMutant(row) == row.status \notin {"shipped", "cancelled"}
ShipAdmits(row)    == row.status = "confirmed"
RefundAdmits(row)  ==
    row.refund \notin {"pending", "approved"} /\ row.refundTx < MaxRefundAttempts
DecideAdmits(row)  == row.refund = "pending"

Admits(h, row) ==
    CASE h = "cancel"  -> CancelAdmits(row)
      [] h = "remit"   -> RemitAdmits(row)
      [] h = "confirm" -> ConfirmAdmits(row)
      [] h = "ship"    -> ShipAdmits(row)
      [] h = "refund"  -> RefundAdmits(row)
      [] OTHER         -> DecideAdmits(row)

\* What the handler still uses of its snapshot when it writes: cancel_order the
\* whole document, submit_refund_request the number of refund rows it saw.
Carried(h, row) ==
    CASE h = "cancel" -> row
      [] h = "refund" -> [NoRow EXCEPT !.refundTx = row.refundTx]
      [] OTHER        -> NoRow

\* The handlers that move stock after other requests may have moved it
Seen(h) == IF h \in {"cancel", "remit", "approve"} THEN View(listing)
           ELSE [l \in Listings |-> 0]

Begin(s, h, o) ==
    /\ \A r \in open : r.session # s
    /\ order[o].status # "none"
    /\ Admits(h, order[o])
    /\ open' = open \union {[session |-> s, handler |-> h, name |-> o,
                             snap |-> Carried(h, order[o]), seen |-> Seen(h),
                             fresh |-> TRUE]}
    /\ UNCHANGED <<order, listing, received, requests>>

Abort(r) ==
    /\ open' = open \ {r}
    /\ UNCHANGED <<order, listing, received, requests>>

\* The other requests once r committed a write that moved the row's `modified`;
\* only cancel_order, which saves a whole document, ever looks at it.
Touched(r) ==
    {[q EXCEPT !.fresh = @ /\ ~(q.handler = "cancel" /\ q.name = r.name)] :
        q \in open \ {r}}

-----------------------------------------------------------------------------
(* Handlers *)

\* One order of a checkout.  A checkout of several sellers is several of these
\* in one transaction: consecutive steps, or none.
CreateOrder(o, items, instant) ==
    /\ order[o].status = "none"
    /\ Reservable(items, listing)
    /\ LET reserved == OnItems(ReserveItem, items, listing, View(listing))
       IN  listing' = IF instant
                      THEN OnItems(DeductItem, items, reserved, View(listing))
                      ELSE reserved
    /\ order' = [order EXCEPT ![o] =
            [status |-> IF instant THEN "confirmed" ELSE "awaiting",
             deducted |-> instant, remitted |-> FALSE,
             refund |-> "none", refundTx |-> 0, items |-> items]]
    /\ UNCHANGED <<open, received, requests>>

\* A blind set_value instead of Document.save
CancelOrderMutant(r) ==
    /\ r.handler = "cancel"
    /\ listing' = Restored(r.snap, listing, r.seen)
    /\ order' = [order EXCEPT ![r.name].status = "cancelled",
                              ![r.name].deducted = FALSE]
    /\ open' = Touched(r)
    /\ UNCHANGED <<received, requests>>

\* Document.save refuses a row whose `modified` moved since it was read, and
\* writes every field of the document it loaded.
CancelOrder(r) ==
    /\ r.handler = "cancel" /\ r.fresh
    /\ listing' = Restored(r.snap, listing, r.seen)
    /\ order' = [order EXCEPT ![r.name] =
            [r.snap EXCEPT !.status = "cancelled", !.deducted = FALSE]]
    /\ open' = Touched(r)
    /\ UNCHANGED <<received, requests>>

\* stock_deducted is read after the transaction's own write to the row, so
\* deduct_stock_for_order sees the committed value.
SubmitRemittance(r) ==
    /\ r.handler = "remit"
    /\ listing' = IF order[r.name].deducted THEN listing
                  ELSE OnItems(DeductItem, order[r.name].items, listing, r.seen)
    /\ order' = [order EXCEPT ![r.name].remitted = TRUE,
                              ![r.name].deducted = TRUE]
    /\ open' = Touched(r)
    /\ UNCHANGED <<received, requests>>

SellerConfirmPayment(r) ==
    /\ r.handler = "confirm"
    /\ order' = [order EXCEPT ![r.name].status = "confirmed"]
    /\ open' = Touched(r)
    /\ UNCHANGED <<listing, received, requests>>

SellerShipOrder(r) ==
    /\ r.handler = "ship"
    /\ order' = [order EXCEPT ![r.name].status = "shipped"]
    /\ open' = Touched(r)
    /\ UNCHANGED <<listing, received, requests>>

RequestsAccepted == SumFunction(requests)

\* create_payment_transaction inserts a refund row only when the snapshot
\* shows none for this order.
SubmitRefundRequest(r) ==
    /\ r.handler = "refund"
    /\ RequestsAccepted < MaxRequests
    /\ order' = [order EXCEPT
            ![r.name].refund = "pending",
            ![r.name].refundTx = IF r.snap.refundTx = 0 THEN @ + 1 ELSE @]
    /\ open' = Touched(r)
    /\ requests' = [requests EXCEPT ![r.name] = @ + 1]
    /\ UNCHANGED <<listing, received>>

\* Without the WHERE refund_status = 'Pending'
SellerHandleRefundMutant(r) ==
    /\ r.handler \in {"approve", "reject"}
    /\ \/ /\ r.handler = "approve"
          /\ listing' = Restored(order[r.name], listing, r.seen)
          /\ order' = [order EXCEPT ![r.name].refund = "approved",
                                    ![r.name].deducted = FALSE]
       \/ /\ r.handler = "reject"
          /\ order' = [order EXCEPT ![r.name].refund = "rejected"]
          /\ UNCHANGED listing
    /\ open' = open \ {r}
    /\ UNCHANGED <<received, requests>>

\* The UPDATE ... WHERE refund_status = 'Pending' must still match, and does
\* not move `modified`.
SellerHandleRefund(r) ==
    /\ r.handler \in {"approve", "reject"}
    /\ order[r.name].refund = "pending"
    /\ \/ /\ r.handler = "approve"
          /\ listing' = Restored(order[r.name], listing, r.seen)
          /\ order' = [order EXCEPT ![r.name].refund = "approved",
                                    ![r.name].deducted = FALSE]
       \/ /\ r.handler = "reject"
          /\ order' = [order EXCEPT ![r.name].refund = "rejected"]
          /\ UNCHANGED listing
    /\ open' = open \ {r}
    /\ UNCHANGED <<received, requests>>

\* update_stock with a listing SKU: an absolute figure, whatever is reserved
SellerSetsStock(l, n) ==
    /\ l \in Tracked
    /\ n # listing[l].stock
    /\ listing' = [listing EXCEPT ![l] =
            Recalculated([@ EXCEPT !.stock = n], @, View(listing)[l])]
    /\ received' = [received EXCEPT ![l] = @ + n - listing[l].stock]
    /\ UNCHANGED <<order, open, requests>>

-----------------------------------------------------------------------------

Init ==
    /\ order = [o \in Orders |-> NoRow]
    /\ listing = [l \in Listings |-> [stock |-> InitStock, reserved |-> 0,
                                      available |-> InitStock,
                                      variant |-> InitVariant]]
    /\ open = {}
    /\ received = [l \in Listings |-> InitStock]
    /\ requests = [o \in Orders |-> 0]

Commit(r) ==
    \/ CancelOrder(r)
    \/ SubmitRemittance(r)
    \/ SellerConfirmPayment(r)
    \/ SellerShipOrder(r)
    \/ SubmitRefundRequest(r)
    \/ SellerHandleRefund(r)

Next ==
    \/ \E o \in Orders, items \in Baskets, instant \in BOOLEAN :
            CreateOrder(o, items, instant)
    \/ \E s \in Sessions, h \in Handler, o \in Orders : Begin(s, h, o)
    \/ \E r \in open : Commit(r) \/ Abort(r)
    \/ \E l \in Listings, n \in SellerCounts : SellerSetsStock(l, n)

Spec == Init /\ [][Next]_vars

-----------------------------------------------------------------------------
(* Properties *)

TypeOK ==
    /\ order \in [Orders -> OrderRow]
    /\ listing \in [Listings -> ListingRow]
    /\ open \subseteq Request
    /\ received \in [Listings -> Int]
    /\ requests \in [Orders -> Nat]

\* Units of listing l in the orders for which P holds
Units(l, P(_)) ==
    SumFunction([o \in Orders |-> IF P(order[o]) THEN order[o].items[l] ELSE 0])

\* The order has taken its units off the shelf and not been cancelled
Deducted(row) == row.deducted /\ row.status # "cancelled"
\* The order still counts on units set aside for it
HoldsReservation(row) ==
    /\ row.status \notin {"none", "cancelled"}
    /\ ~row.deducted
    /\ row.refund # "approved"
\* The order has been neither cancelled nor refunded
HoldsUnits(row) ==
    Deducted(row) \/ HoldsReservation(row)

\* No reservation outlives its order: whatever is still reserved is owed to an
\* order that is neither shipped from stock, cancelled nor refunded.  A leaked
\* reservation makes stock unsellable for good (the comment in cancel_order).
NoLeakedReservation ==
    \A l \in Tracked : listing[l].reserved <= Units(l, HoldsReservation)

\* No unit disappears: what is on the shelf and what orders that are not cancelled
\* have taken from it add up to at least what the seller put there.  The comment in
\* cancel_order wants no other outcome ("permanent stock loss"); it holds as long as
\* no remittance runs beside a cancellation of its order (RemittanceApart).
NoVanishedStock ==
    \A l \in Tracked :
        listing[l].stock + Units(l, Deducted) >= received[l]

\* No remittance of an order is worked on while a cancellation of it is.  Nothing
\* in the code sees to that.
RemittanceApart ==
    \A r, q \in open :
        r.name = q.name => ~(r.handler = "remit" /\ q.handler = "cancel")

\* No unit of a variation disappears either, whatever races: its row has no
\* reservation of its own, and a remittance leaves it alone.
NoVanishedVariant ==
    \A l \in Tracked \intersect Varied :
        listing[l].variant + Units(l, HoldsUnits) >= InitVariant

\* No over-sell (N1 in reserve_stock_for_order): a step that reserves more of a
\* listing leaves everything reserved covered by stock.
NoOversell ==
    [][\A l \in Tracked \ Backordered :
            listing'[l].reserved > listing[l].reserved
                => listing'[l].reserved <= listing'[l].stock]_vars

\* An order is shipped only out of a confirmed payment, or, when a cancellation
\* slips in between, out of "cancelled": never while it awaits payment.
NoUnpaidShipment ==
    [][\A o \in Orders :
            order[o].status = "awaiting" => order'[o].status # "shipped"]_vars

\* No cancellation overwrites a shipment, whichever of the two requests read first.
\* (A second confirmation may: ConfirmedOnlyWhileAwaiting, below.)
ShippedNeverCancelled ==
    [][\A o \in Orders :
            order[o].status = "shipped" => order'[o].status # "cancelled"]_vars

\* Two sellers deciding one refund: only one decision takes effect.
RefundDecidedOnce ==
    [][\A o \in Orders :
            order'[o].refund \in {"approved", "rejected"}
            /\ order'[o].refund # order[o].refund
                => order[o].refund = "pending"]_vars

\* Readers of status and refund see one request after the other: every commit, however
\* late after its checks, is a step of OrderLifecycle or changes neither.
Lifecycle == INSTANCE OrderLifecycle WITH
    status <- [o \in Orders |-> order[o].status],
    refund <- [o \in Orders |-> order[o].refund]
FollowsLifecycle == Lifecycle!Spec

-----------------------------------------------------------------------------
(* What comments and messages of the code say and the code does not do     *)

\* cancel_order refuses a pending refund to rule out "double stock return", the same
\* units going back twice: an order that still waits for its units finds them
\* reserved.
ReservationsBacked ==
    \A l \in Tracked : listing[l].reserved >= Units(l, HoldsReservation)

\* _recalculate_available: "available_qty = stock_qty - reserved_qty, minimum 0",
\* the figure the storefront sells from.
AvailableInSync ==
    \A l \in Listings :
        listing[l].available = Clamp(listing[l].stock - listing[l].reserved)

\* F-056 in submit_refund_request: at most three refund requests per order.
RefundAttemptsLimited == \A o \in Orders : requests[o] <= MaxRefundAttempts

\* seller_confirm_payment: "Payment can only be confirmed for orders awaiting
\* payment", so a cancelled order never becomes a confirmed one.
ConfirmedOnlyWhileAwaiting ==
    [][\A o \in Orders :
            order'[o].status = "confirmed" /\ order[o].status # "confirmed"
                => order[o].status \in {"none", "awaiting"}]_vars
=============================================================================
