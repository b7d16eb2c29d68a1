------------------------------ MODULE Shipment ------------------------------
(***************************************************************************)
(* The shipments one order is split into: their status                     *)
(* (logistics/services/shipment_service.py, tracking_service.py), the      *)
(* units they take from the order (split_engine.py) and what the order     *)
(* says of them (logistics/hooks.py).                                      *)
(*                                                                         *)
(* A request of the desk or the API and a job for a carrier's webhook are  *)
(* transactions: Begin takes the snapshot they read, Create, Save, Apply   *)
(* and Delete commit, Abort rolls back.  A webhook may ask for any status: *)
(* carriers repeat and reorder their messages.                             *)
(*                                                                         *)
(* An operator named ...Mutant is the definition after it with one         *)
(* plausible bug; no specification uses it.                                *)
(***************************************************************************)
EXTENDS Integers, FiniteSets, Functions

CONSTANTS
    Shipments,  \* names of shipments
    Ordered,    \* units of the order's one item
    MaxOpen     \* bound: transactions that run at the same time

ASSUME ShipmentAssumption ==
    /\ IsFiniteSet(Shipments)
    /\ Ordered \in Nat \ {0}
    /\ MaxOpen \in Nat

VARIABLES
    rows,   \* tabShipment; "none" is no row
    told,   \* shipments with a Shipment Event
    order,  \* fulfillment_status and shipment_count of the order
    open,   \* transactions that have read their snapshot and not committed
    calm    \* history: no two transactions have overlapped, no job went on after an error

vars == <<rows, told, order, open, calm>>

Early == {"Draft", "Pending", "Ready for Pickup"}
Underway == {"Picked Up", "In Transit", "At Warehouse", "Out for Delivery", "Failed"}

\* TERMINAL_STATUSES
Closed == {"Delivered", "Returned", "Cancelled"}

Status == Early \cup Underway \cup Closed

\* ALLOWED_TRANSITIONS
Allowed(status) ==
    CASE status = "Draft"            -> {"Pending", "Cancelled"}
      [] status = "Pending"          -> {"Ready for Pickup", "Cancelled"}
      [] status = "Ready for Pickup" -> {"Picked Up", "Cancelled"}
      [] status = "Picked Up"        -> {"In Transit", "Cancelled"}
      [] status = "In Transit"       ->
            {"At Warehouse", "Out for Delivery", "Delivered", "Failed", "Cancelled"}
      [] status = "At Warehouse"     -> {"In Transit", "Out for Delivery", "Cancelled"}
      [] status = "Out for Delivery" -> {"Delivered", "Failed", "Returned"}
      [] status = "Failed"           -> {"In Transit", "Returned", "Cancelled"}
      [] OTHER                       -> {}

Row == [status: Status \cup {"none"}, qty: 0..Ordered]
NoRow == [status |-> "none", qty |-> 0]
Fulfillment == [level: {"Unfulfilled", "Partially Fulfilled", "Fulfilled"}, count: Nat]

\* The snapshot: the row of the shipment, what each shipment takes, the order
Transaction == [kind: {"create", "update", "delete"}, name: Shipments, row: Row,
                taken: [Shipments -> 0..Ordered], order: Fulfillment]

TypeOK ==
    /\ rows \in [Shipments -> Row]
    /\ told \subseteq Shipments
    /\ order \in Fulfillment
    /\ open \subseteq Transaction
    /\ calm \in BOOLEAN

(* What shipments take from the order *)

\* Shipments that are cancelled or returned have given their units back
Active(row) == row.status \notin {"none", "Cancelled", "Returned"}

Takes(row) == IF Active(row) THEN row.qty ELSE 0

Units(taken) == SumFunction(taken)

\* get_remaining_qty and validate_split_invariants, for a row s beside the
\* shipments that take so much
Fits(row, s, taken) ==
    LET rest == Units([taken EXCEPT ![s] = 0])
    IN /\ row.qty >= 1
       /\ Active(row) => row.qty <= (IF rest < Ordered THEN Ordered - rest ELSE 0)

\* What update_order_fulfillment computes
FulfillmentOf(taken) ==
    LET units == Units(taken)
    IN [level |-> CASE units <= 0 -> "Unfulfilled"
                    [] units \in 1..(Ordered - 1) -> "Partially Fulfilled"
                    [] OTHER -> "Fulfilled",
        count |-> Cardinality({s \in Shipments : taken[s] > 0})]

Taken(table) == [s \in Shipments |-> Takes(table[s])]

-----------------------------------------------------------------------------
(* Transactions *)

Init ==
    /\ rows = [s \in Shipments |-> NoRow]
    /\ told = {}
    /\ order = FulfillmentOf(Taken(rows))
    /\ open = {}
    /\ calm = TRUE

\* A shipment with an event cannot be deleted: the event links to it
Admits(kind, s) ==
    CASE kind = "create" -> rows[s].status = "none" /\ s \notin told
      [] kind = "delete" -> rows[s].status # "none" /\ s \notin told
      [] OTHER           -> rows[s].status # "none"

Begin(kind, s) ==
    /\ Cardinality(open) < MaxOpen
    /\ Admits(kind, s)
    /\ open' = open \cup {[kind |-> kind, name |-> s, row |-> rows[s],
                           taken |-> Taken(rows), order |-> order]}
    /\ calm' = (calm /\ open = {})
    /\ UNCHANGED <<rows, told, order>>

\* A refused transition or quantity, a lost connection, a webhook for the status
\* the shipment has
Abort(t) ==
    /\ open' = open \ {t}
    /\ UNCHANGED <<rows, told, order, calm>>

\* As if a save did not read the row again before it writes
WrittenMutant(t, row) ==
    /\ rows' = [rows EXCEPT ![t.name] = row]
    /\ open' = open \ {t}

\* t writes row and leaves, and so does who would save the old one: check_if_latest
\* refuses it
Written(t, row) ==
    /\ rows' = [rows EXCEPT ![t.name] = row]
    /\ open' = {u \in open \ {t} : u.name = t.name => u.kind = "delete"}

\* As if the hook ran before the row is written
RefreshMutant(t, row) ==
    order' = IF FulfillmentOf(t.taken) = t.order THEN order ELSE FulfillmentOf(t.taken)

\* update_order_fulfillment, after t has written row; it writes nothing when the
\* snapshot already says so
Refresh(t, row) ==
    LET new == FulfillmentOf([t.taken EXCEPT ![t.name] = Takes(row)])
    IN order' = IF new = t.order THEN order ELSE new

\* create_shipment_draft_from_order
Create(t, qty) ==
    LET row == [status |-> "Draft", qty |-> qty]
    IN /\ t.kind = "create"
       /\ Fits(row, t.name, t.taken)
       /\ Written(t, row)
       /\ Refresh(t, row)
       /\ UNCHANGED <<told, calm>>

\* Whether t may save row
Savable(t, row) ==
    /\ row.status \in Allowed(t.row.status) \cup {t.row.status}
    /\ Fits(row, t.name, t.taken)

\* The desk, update_shipment_status and cancel_shipment
Save(t, row) ==
    /\ t.kind = "update"
    /\ Savable(t, row)
    /\ Written(t, row)
    /\ Refresh(t, row)
    /\ told' = IF row.status = t.row.status THEN told ELSE told \cup {t.name}
    /\ UNCHANGED calm

\* _apply_transition.  When a hook raises after the row is written, the job
\* logs the error, goes on and commits the row.
Apply(t, status, raises) ==
    LET row == [t.row EXCEPT !.status = status]
    IN /\ t.kind = "update" /\ status # t.row.status
       /\ Savable(t, row)
       /\ Written(t, row)
       /\ IF raises
          THEN calm' = FALSE /\ UNCHANGED <<told, order>>
          ELSE /\ Refresh(t, row)
               /\ told' = told \cup {t.name}
               /\ UNCHANGED calm

Delete(t) ==
    /\ t.kind = "delete" /\ rows[t.name].status # "none"
    /\ Written(t, NoRow)
    /\ Refresh(t, NoRow)
    /\ UNCHANGED <<told, calm>>

-----------------------------------------------------------------------------
Next ==
    \/ \E kind \in {"create", "update", "delete"}, s \in Shipments : Begin(kind, s)
    \/ \E t \in open : Abort(t) \/ Delete(t)
    \/ \E t \in open, qty \in 1..Ordered : Create(t, qty)
    \/ \E t \in open, status \in Status, qty \in 1..Ordered :
            Save(t, [status |-> status, qty |-> qty])
    \/ \E t \in open, status \in Status, raises \in BOOLEAN : Apply(t, status, raises)

Spec == Init /\ [][Next]_vars

-----------------------------------------------------------------------------
(* Properties *)

\* The order says what its shipments carry, and every shipment that has moved
\* has an event
OrderExact ==
    /\ order = FulfillmentOf(Taken(rows))
    /\ told = {s \in Shipments : rows[s].status \notin {"none", "Draft"}}

\* As long as requests and jobs come one after another, whatever they are, the
\* order is exact and no unit is shipped twice (update_order_fulfillment,
\* on_shipment_status_change, validate_split_invariants).  Once two overlap the
\* order can be wrong and its units shipped twice: see the README.
ExactWhenAlone == calm => OrderExact /\ Units(Taken(rows)) <= Ordered

\* Before the carrier has it, with the carrier, closed
Phase(status) == IF status \in Early THEN 0 ELSE IF status \in Underway THEN 1 ELSE 2

\* However requests, webhooks and repeated messages interleave, a shipment that
\* the carrier has taken never returns to before that, and a closed one keeps
\* its status until it is deleted (transition_status, validate_state_transition)
NeverBack ==
    [][\A s \in Shipments :
          rows[s].status # "none" /\ rows'[s].status # "none" =>
              /\ Phase(rows'[s].status) >= Phase(rows[s].status)
              /\ rows[s].status \in Closed => rows'[s].status = rows[s].status]_vars
=============================================================================
