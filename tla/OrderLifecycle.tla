--------------------------- MODULE OrderLifecycle ---------------------------
(***************************************************************************)
(* What the order endpoints promise of an order's status and refund to     *)
(* whoever reads the row, as if each request were one step.  OrderStock    *)
(* implements it.                                                          *)
(*                                                                         *)
(* The guards are those that still hold when a request commits, not those  *)
(* it checked on its snapshot: a confirmation may come late and land on    *)
(* any order, a shipment on a cancelled one, a refund request on a refund  *)
(* decided meanwhile.  A cancellation, a refund decision and a checkout    *)
(* are never late.                                                         *)
(***************************************************************************)

CONSTANT Orders

VARIABLES status, refund

vars == <<status, refund>>

Init ==
    /\ status = [o \in Orders |-> "none"]
    /\ refund = [o \in Orders |-> "none"]

Placed(o) == status[o] # "none"

Place(o) ==
    /\ ~Placed(o)
    /\ \E s \in {"awaiting", "confirmed"} : status' = [status EXCEPT ![o] = s]
    /\ UNCHANGED refund

Confirm(o) ==
    /\ Placed(o)
    /\ status' = [status EXCEPT ![o] = "confirmed"]
    /\ UNCHANGED refund

\* Never an order that awaits payment
Ship(o) ==
    /\ status[o] \in {"confirmed", "cancelled", "shipped"}
    /\ status' = [status EXCEPT ![o] = "shipped"]
    /\ UNCHANGED refund

\* Never a shipped order, nor one whose refund is being decided
Cancel(o) ==
    /\ status[o] \in {"awaiting", "confirmed"} /\ refund[o] # "pending"
    /\ status' = [status EXCEPT ![o] = "cancelled"]
    /\ UNCHANGED refund

AskRefund(o) ==
    /\ Placed(o)
    /\ refund' = [refund EXCEPT ![o] = "pending"]
    /\ UNCHANGED status

DecideRefund(o) ==
    /\ refund[o] = "pending"
    /\ \E d \in {"approved", "rejected"} : refund' = [refund EXCEPT ![o] = d]
    /\ UNCHANGED status

Next ==
    \E o \in Orders :
        Place(o) \/ Confirm(o) \/ Ship(o) \/ Cancel(o) \/ AskRefund(o) \/ DecideRefund(o)

Spec == Init /\ [][Next]_vars
=============================================================================
