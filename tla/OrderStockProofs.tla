-------------------------- MODULE OrderStockProofs --------------------------
(***************************************************************************)
(* Theorems about OrderStock, for any number of sessions, orders, listings *)
(* and any quantities.  IInv is the inductive invariant: types, plus what  *)
(* the requests still in flight may rely on.                               *)
(***************************************************************************)
EXTENDS OrderStock, SumLemmas, TLAPS

\* What a ship request read stays true of the order, up to a cancellation
ShipInv ==
    \A r \in open :
        r.handler = "ship"
            => order[r.name].status \in {"confirmed", "shipped", "cancelled"}

\* The document a cancellation is about to save is the row as it is now
CancelInv ==
    \A r \in open :
        r.handler = "cancel" /\ r.fresh
            => /\ r.snap = order[r.name]
               /\ r.snap.status # "none" /\ CancelAdmits(r.snap)

IInv == TypeOK /\ ShipInv /\ CancelInv

Rows  == [Listings -> ListingRow]
Items == [Listings -> Nat]
-----------------------------------------------------------------------------
(* The ledger operators map listing tables to listing tables               *)

\* GREATEST(0, ...) never goes below its argument.
LEMMA ClampType == \A x \in Int : Clamp(x) \in Nat /\ Clamp(x) >= x
  BY DEF Clamp

\* available_qty is all that _recalculate_available writes.
LEMMA RecalculatedType ==
  ASSUME NEW row \in ListingRow, NEW old, NEW seen \in Nat
  PROVE  /\ Recalculated(row, old, seen) \in ListingRow
         /\ Recalculated(row, old, seen).stock = row.stock
         /\ Recalculated(row, old, seen).reserved = row.reserved
  <1>1. row.stock - row.reserved \in Int
    BY DEF ListingRow
  <1>2. Clamp(row.stock - row.reserved) \in Nat
    BY <1>1, ClampType
  <1>3. QED
    BY <1>2 DEF Recalculated, ListingRow

LEMMA ViewType ==
  ASSUME NEW rows \in Rows
  PROVE  View(rows) \in Items
  <1>1. ASSUME NEW l \in Listings
        PROVE  Clamp(rows[l].stock - rows[l].reserved) \in Nat
    <2>1. rows[l].stock - rows[l].reserved \in Int
      BY DEF Rows, ListingRow
    <2>2. QED
      BY <2>1, ClampType
  <1>2. QED
    BY <1>1 DEF View, Items

LEMMA SeenType ==
  ASSUME NEW h, listing \in Rows
  PROVE  Seen(h) \in Items
  BY ViewType DEF Seen, Items

\* _update_variant_stock leaves the listing's own quantities alone.
LEMMA VariantMovedType ==
  ASSUME NEW row \in ListingRow, NEW l, NEW delta \in Int
  PROVE  /\ VariantMoved(row, l, delta) \in ListingRow
         /\ VariantMoved(row, l, delta).stock = row.stock
         /\ VariantMoved(row, l, delta).reserved = row.reserved
  <1>1. Clamp(row.variant + delta) \in Nat
    BY ClampType DEF ListingRow
  <1>2. QED
    BY <1>1 DEF VariantMoved, ListingRow

LEMMA ItemOpsType ==
  ASSUME NEW row \in ListingRow, NEW l, NEW q \in Nat
  PROVE  /\ ReserveItem(row, l, q) \in ListingRow
         /\ ReleaseItem(row, l, q) \in ListingRow
         /\ DeductItem(row, l, q) \in ListingRow
         /\ ReturnItem(row, l, q) \in ListingRow
  <1>1. [row EXCEPT !.reserved = @ + q] \in ListingRow
    BY DEF ListingRow
  <1>2. /\ Clamp(row.reserved - q) \in Nat
        /\ Clamp(row.stock - q) \in Nat
    BY ClampType DEF ListingRow
  <1>3. [row EXCEPT !.reserved = Clamp(@ - q)] \in ListingRow
    BY <1>2 DEF ListingRow
  <1>4. [row EXCEPT !.stock = @ + q] \in ListingRow
    BY DEF ListingRow
  <1>5. [row EXCEPT !.stock = Clamp(@ - q), !.reserved = Clamp(@ - q)] \in ListingRow
    BY <1>2 DEF ListingRow
  <1>6. q \in Int /\ -q \in Int
    OBVIOUS
  <1>7. QED
    BY <1>1, <1>3, <1>4, <1>5, <1>6, VariantMovedType
       DEF ReserveItem, ReleaseItem, DeductItem, ReturnItem

LEMMA OnItemsType ==
  ASSUME NEW rows \in Rows, NEW items \in Items, NEW seen \in Items
  PROVE  /\ OnItems(ReserveItem, items, rows, seen) \in Rows
         /\ OnItems(ReleaseItem, items, rows, seen) \in Rows
         /\ OnItems(DeductItem, items, rows, seen) \in Rows
         /\ OnItems(ReturnItem, items, rows, seen) \in Rows
  <1>1. \A l \in Listings :
          rows[l] \in ListingRow /\ items[l] \in Nat /\ seen[l] \in Nat
    BY DEF Rows, Items
  <1>2. \A l \in Listings :
          /\ Recalculated(ReserveItem(rows[l], l, items[l]), rows[l], seen[l]) \in ListingRow
          /\ Recalculated(ReleaseItem(rows[l], l, items[l]), rows[l], seen[l]) \in ListingRow
          /\ Recalculated(DeductItem(rows[l], l, items[l]), rows[l], seen[l]) \in ListingRow
          /\ Recalculated(ReturnItem(rows[l], l, items[l]), rows[l], seen[l]) \in ListingRow
    BY <1>1, ItemOpsType, RecalculatedType
  <1>3. QED
    BY <1>1, <1>2 DEF OnItems, Rows

LEMMA RestoredType ==
  ASSUME NEW row \in OrderRow, NEW rows \in Rows, NEW seen \in Items
  PROVE  Restored(row, rows, seen) \in Rows
  <1>1. row.items \in Items
    BY DEF OrderRow, Items
  <1>2. QED
    BY <1>1, OnItemsType DEF Restored

LEMMA TouchedType ==
  ASSUME open \subseteq Request, NEW r \in open
  PROVE  Touched(r) \subseteq Request
  <1>1. ASSUME NEW q \in Request, NEW b \in BOOLEAN
        PROVE  [q EXCEPT !.fresh = b] \in Request
    BY <1>1 DEF Request
  <1>2. ASSUME NEW q \in open \ {r}
        PROVE  [q EXCEPT !.fresh = @ /\ ~(q.handler = "cancel" /\ q.name = r.name)]
                    \in Request
    <2>1. q \in Request
      OBVIOUS
    <2>2. (q.fresh /\ ~(q.handler = "cancel" /\ q.name = r.name)) \in BOOLEAN
      OBVIOUS
    <2>3. QED
      BY <2>1, <2>2, <1>1
  <1>3. QED
    BY <1>2 DEF Touched

LEMMA NoRowType == NoRow \in OrderRow
  BY DEF NoRow, OrderRow, Status, Refund

LEMMA CarriedType ==
  ASSUME NEW h \in Handler, NEW row \in OrderRow
  PROVE  Carried(h, row) \in OrderRow
  <1>1. row.refundTx \in Nat
    BY DEF OrderRow
  <1>2. [NoRow EXCEPT !.refundTx = row.refundTx] \in OrderRow
    BY <1>1, NoRowType DEF OrderRow
  <1>3. QED
    BY <1>2, NoRowType DEF Carried

-----------------------------------------------------------------------------
(* Type correctness                                                        *)

LEMMA InitType == Init => TypeOK
  <1> SUFFICES ASSUME Init PROVE TypeOK
    OBVIOUS
  <1>1. order \in [Orders -> OrderRow]
    BY NoRowType DEF Init
  <1>2. listing \in [Listings -> ListingRow]
    BY OrderStockAssumption DEF Init, ListingRow
  <1>3. received \in [Listings -> Int] /\ requests \in [Orders -> Nat]
    BY OrderStockAssumption DEF Init
  <1>4. QED
    BY <1>1, <1>2, <1>3 DEF Init, TypeOK

LEMMA NextType == TypeOK /\ [Next]_vars => TypeOK'
  <1> SUFFICES ASSUME TypeOK, [Next]_vars PROVE TypeOK'
    OBVIOUS
  <1>a. /\ order \in [Orders -> OrderRow]
        /\ listing \in Rows
        /\ \A r \in open : /\ r \in Request /\ r.name \in Orders
                            /\ r.snap \in OrderRow /\ r.seen \in Items
        /\ View(listing) \in Items
    BY ViewType DEF TypeOK, Rows, Request, Items
  <1>1. ASSUME NEW o \in Orders, NEW items \in Baskets, NEW instant \in BOOLEAN,
               CreateOrder(o, items, instant)
        PROVE  TypeOK'
    <2>1. items \in Items
      BY OrderStockAssumption DEF Items
    <2>2. OnItems(ReserveItem, items, listing, View(listing)) \in Rows
      BY <1>a, <2>1, OnItemsType
    <2>3. OnItems(DeductItem, items, OnItems(ReserveItem, items, listing, View(listing)),
                  View(listing)) \in Rows
      BY <1>a, <2>1, <2>2, OnItemsType
    <2>4. listing' \in [Listings -> ListingRow]
      BY <1>1, <2>2, <2>3 DEF CreateOrder, Rows
    <2>5. [status |-> IF instant THEN "confirmed" ELSE "awaiting",
           deducted |-> instant, remitted |-> FALSE, refund |-> "none",
           refundTx |-> 0, items |-> items] \in OrderRow
      BY <2>1 DEF OrderRow, Status, Refund, Items
    <2>6. order' \in [Orders -> OrderRow]
      BY <1>1, <1>a, <2>5 DEF CreateOrder
    <2>7. QED
      BY <1>1, <2>4, <2>6 DEF CreateOrder, TypeOK
  <1>2. ASSUME NEW s \in Sessions, NEW h \in Handler, NEW o \in Orders, Begin(s, h, o)
        PROVE  TypeOK'
    <2>1. Carried(h, order[o]) \in OrderRow
      BY <1>a, CarriedType
    <2>2. [session |-> s, handler |-> h, name |-> o,
           snap |-> Carried(h, order[o]), seen |-> Seen(h), fresh |-> TRUE] \in Request
      BY <2>1, <1>a, SeenType DEF Request, Items
    <2>3. open' \subseteq Request
      BY <1>2, <2>2 DEF Begin, TypeOK
    <2>4. QED
      BY <1>2, <2>3 DEF Begin, TypeOK
  <1>3. ASSUME NEW r \in open, CancelOrder(r)
        PROVE  TypeOK'
    <2>1. [r.snap EXCEPT !.status = "cancelled", !.deducted = FALSE] \in OrderRow
      BY <1>a DEF OrderRow, Status
    <2>2. order' \in [Orders -> OrderRow]
      BY <1>3, <1>a, <2>1 DEF CancelOrder
    <2>3. listing' \in [Listings -> ListingRow]
      BY <1>3, <1>a, RestoredType DEF CancelOrder, Rows
    <2>4. open' \subseteq Request
      BY <1>3, TouchedType DEF CancelOrder, TypeOK
    <2>5. QED
      BY <1>3, <2>2, <2>3, <2>4 DEF CancelOrder, TypeOK
  <1>4. ASSUME NEW r \in open, SubmitRemittance(r)
        PROVE  TypeOK'
    <2>1. order[r.name].items \in Items
      BY <1>a DEF OrderRow, Items
    <2>2. listing' \in [Listings -> ListingRow]
      BY <1>4, <1>a, <2>1, OnItemsType DEF SubmitRemittance, Rows
    <2>3. [[order[r.name] EXCEPT !.remitted = TRUE] EXCEPT !.deducted = TRUE] \in OrderRow
      BY <1>a DEF OrderRow
    <2>4. order' \in [Orders -> OrderRow]
      BY <1>4, <1>a, <2>3 DEF SubmitRemittance
    <2>5. open' \subseteq Request
      BY <1>4, TouchedType DEF SubmitRemittance, TypeOK
    <2>6. QED
      BY <1>4, <2>2, <2>4, <2>5 DEF SubmitRemittance, TypeOK
  <1>5. ASSUME NEW r \in open, SellerConfirmPayment(r)
        PROVE  TypeOK'
    <2>1. [order[r.name] EXCEPT !.status = "confirmed"] \in OrderRow
      BY <1>a DEF OrderRow, Status
    <2>2. order' \in [Orders -> OrderRow]
      BY <1>5, <1>a, <2>1 DEF SellerConfirmPayment
    <2>3. open' \subseteq Request
      BY <1>5, TouchedType DEF SellerConfirmPayment, TypeOK
    <2>4. QED
      BY <1>5, <2>2, <2>3 DEF SellerConfirmPayment, TypeOK
  <1>6. ASSUME NEW r \in open, SellerShipOrder(r)
        PROVE  TypeOK'
    <2>1. [order[r.name] EXCEPT !.status = "shipped"] \in OrderRow
      BY <1>a DEF OrderRow, Status
    <2>2. order' \in [Orders -> OrderRow]
      BY <1>6, <1>a, <2>1 DEF SellerShipOrder
    <2>3. open' \subseteq Request
      BY <1>6, TouchedType DEF SellerShipOrder, TypeOK
    <2>4. QED
      BY <1>6, <2>2, <2>3 DEF SellerShipOrder, TypeOK
  <1>7. ASSUME NEW r \in open, SubmitRefundRequest(r)
        PROVE  TypeOK'
    <2>1. ASSUME NEW n \in Nat
          PROVE  [[order[r.name] EXCEPT !.refund = "pending"] EXCEPT !.refundTx = n]
                    \in OrderRow
      BY <1>a DEF OrderRow, Refund
    <2>2. (IF r.snap.refundTx = 0 THEN order[r.name].refundTx + 1
                                  ELSE order[r.name].refundTx) \in Nat
      BY <1>a DEF OrderRow
    <2>3. order' \in [Orders -> OrderRow]
      BY <1>7, <1>a, <2>1, <2>2 DEF SubmitRefundRequest
    <2>4. open' \subseteq Request
      BY <1>7, TouchedType DEF SubmitRefundRequest, TypeOK
    <2>5. requests' \in [Orders -> Nat]
      BY <1>7, <1>a DEF SubmitRefundRequest, TypeOK
    <2>6. QED
      BY <1>7, <2>3, <2>4, <2>5 DEF SubmitRefundRequest, TypeOK
  <1>8. ASSUME NEW r \in open, SellerHandleRefund(r)
        PROVE  TypeOK'
    <2>1. /\ [[order[r.name] EXCEPT !.refund = "approved"] EXCEPT !.deducted = FALSE]
                \in OrderRow
          /\ [order[r.name] EXCEPT !.refund = "rejected"] \in OrderRow
      BY <1>a DEF OrderRow, Refund
    <2>2. order' \in [Orders -> OrderRow]
      BY <1>8, <1>a, <2>1 DEF SellerHandleRefund
    <2>3. Restored(order[r.name], listing, r.seen) \in Rows
      BY <1>a, RestoredType
    <2>4. listing' \in [Listings -> ListingRow]
      BY <1>8, <1>a, <2>3 DEF SellerHandleRefund, Rows
    <2>5. QED
      BY <1>8, <2>2, <2>4 DEF SellerHandleRefund, TypeOK
  <1>9. ASSUME NEW r \in open, Abort(r)
        PROVE  TypeOK'
    BY <1>9 DEF Abort, TypeOK
  <1>10. ASSUME NEW l \in Listings, NEW n \in SellerCounts, SellerSetsStock(l, n)
         PROVE  TypeOK'
    <2>1. n \in Nat
      BY OrderStockAssumption
    <2>2. [listing[l] EXCEPT !.stock = n] \in ListingRow
      BY <2>1 DEF TypeOK, ListingRow
    <2>3. listing' \in [Listings -> ListingRow]
      BY <1>10, <1>a, <2>2, RecalculatedType DEF SellerSetsStock, TypeOK, Items
    <2>4. received[l] + n - listing[l].stock \in Int
      BY <2>1 DEF TypeOK, ListingRow
    <2>5. received' \in [Listings -> Int]
      BY <1>10, <2>4 DEF SellerSetsStock, TypeOK
    <2>6. QED
      BY <1>10, <2>3, <2>5 DEF SellerSetsStock, TypeOK
  <1>11. CASE UNCHANGED vars
    BY <1>11 DEF vars, TypeOK
  <1>12. QED
    BY <1>1, <1>2, <1>3, <1>4, <1>5, <1>6, <1>7, <1>8, <1>9, <1>10, <1>11
       DEF Next, Commit

\* Every reachable state is well typed: in particular no ledger figure is ever
\* negative, the promise of the GREATEST(0, ...) updates in utils/stock.py.
THEOREM TypeCorrect == Spec => []TypeOK
  BY InitType, NextType, PTL DEF Spec

-----------------------------------------------------------------------------
(* What requests in flight rely on                                         *)

\* A committed write leaves the requests it invalidates with fresh = FALSE, and
\* every other request as it was.
LEMMA TouchedRequests ==
  ASSUME TypeOK, NEW r \in open, NEW q \in Touched(r)
  PROVE  \E p \in open :
            /\ q.handler = p.handler /\ q.name = p.name /\ q.snap = p.snap
            /\ q.handler = "cancel" /\ q.fresh => p.fresh /\ p.name # r.name
  <1>1. PICK p \in open \ {r} :
            q = [p EXCEPT !.fresh = @ /\ ~(p.handler = "cancel" /\ p.name = r.name)]
    BY DEF Touched
  <1>2. p \in Request
    BY DEF TypeOK
  <1>3. /\ q.handler = p.handler /\ q.name = p.name /\ q.snap = p.snap
        /\ q.fresh = (p.fresh /\ ~(p.handler = "cancel" /\ p.name = r.name))
    BY <1>1, <1>2 DEF Request
  <1>4. QED
    BY <1>3

\* No handler puts an existing order back to awaiting payment
LEMMA ShipInvStep == TypeOK /\ ShipInv /\ [Next]_vars => ShipInv'
  <1> SUFFICES ASSUME TypeOK, ShipInv, [Next]_vars PROVE ShipInv'
    OBVIOUS
  <1>a. /\ order \in [Orders -> OrderRow]
        /\ \A r \in open : r \in Request /\ r.name \in Orders
    BY DEF TypeOK, Request
  <1>b. ASSUME NEW r \in open, open' = Touched(r),
               \A o \in Orders :
                  order[o].status \in {"confirmed", "shipped", "cancelled"}
                    => order'[o].status \in {"confirmed", "shipped", "cancelled"}
        PROVE  ShipInv'
    BY <1>a, <1>b, TouchedRequests DEF ShipInv
  <1>1. ASSUME NEW o \in Orders, NEW items \in Baskets, NEW instant \in BOOLEAN,
               CreateOrder(o, items, instant)
        PROVE  ShipInv'
    BY <1>1, <1>a DEF CreateOrder, ShipInv
  <1>2. ASSUME NEW s \in Sessions, NEW h \in Handler, NEW o \in Orders, Begin(s, h, o)
        PROVE  ShipInv'
    <2>1. h = "ship" => order[o].status = "confirmed"
      BY <1>2 DEF Begin, Admits, ShipAdmits
    <2>2. QED
      BY <1>2, <2>1 DEF Begin, ShipInv
  <1>3. ASSUME NEW r \in open, CancelOrder(r)
        PROVE  ShipInv'
    <2>1. r.snap \in OrderRow
      BY DEF TypeOK, Request
    <2>2. [r.snap EXCEPT !.status = "cancelled", !.deducted = FALSE].status = "cancelled"
      BY <2>1 DEF OrderRow
    <2>3. QED
      BY <1>3, <1>a, <1>b, <2>2 DEF CancelOrder
  <1>4. ASSUME NEW r \in open, SubmitRemittance(r)
        PROVE  ShipInv'
    <2>1. \A o \in Orders : order'[o].status = order[o].status
      BY <1>4, <1>a DEF SubmitRemittance, OrderRow
    <2>2. QED
      BY <1>4, <1>b, <2>1 DEF SubmitRemittance
  <1>5. ASSUME NEW r \in open, SellerConfirmPayment(r)
        PROVE  ShipInv'
    <2>1. \A o \in Orders : order'[o].status \in {order[o].status, "confirmed"}
      BY <1>5, <1>a DEF SellerConfirmPayment, OrderRow
    <2>2. QED
      BY <1>5, <1>b, <2>1 DEF SellerConfirmPayment
  <1>6. ASSUME NEW r \in open, SellerShipOrder(r)
        PROVE  ShipInv'
    <2>1. \A o \in Orders : order'[o].status \in {order[o].status, "shipped"}
      BY <1>6, <1>a DEF SellerShipOrder, OrderRow
    <2>2. QED
      BY <1>6, <1>b, <2>1 DEF SellerShipOrder
  <1>7. ASSUME NEW r \in open, SubmitRefundRequest(r)
        PROVE  ShipInv'
    <2>1. \A o \in Orders : order'[o].status = order[o].status
      BY <1>7, <1>a DEF SubmitRefundRequest, OrderRow
    <2>2. QED
      BY <1>7, <1>b, <2>1 DEF SubmitRefundRequest
  <1>8. ASSUME NEW r \in open, SellerHandleRefund(r)
        PROVE  ShipInv'
    <2>1. \A o \in Orders : order'[o].status = order[o].status
      <3>1. CASE order' = [order EXCEPT ![r.name].refund = "approved",
                                        ![r.name].deducted = FALSE]
        BY <3>1, <1>a DEF OrderRow
      <3>2. CASE order' = [order EXCEPT ![r.name].refund = "rejected"]
        BY <3>2, <1>a DEF OrderRow
      <3>3. QED
        BY <1>8, <3>1, <3>2 DEF SellerHandleRefund
    <2>2. open' \subseteq open
      BY <1>8 DEF SellerHandleRefund
    <2>3. QED
      BY <1>a, <2>1, <2>2 DEF ShipInv
  <1>9. ASSUME NEW r \in open, Abort(r)
        PROVE  ShipInv'
    BY <1>9 DEF Abort, ShipInv
  <1>10. ASSUME NEW l \in Listings, NEW n \in SellerCounts, SellerSetsStock(l, n)
         PROVE  ShipInv'
    BY <1>10 DEF SellerSetsStock, ShipInv
  <1>11. CASE UNCHANGED vars
    BY <1>11 DEF vars, ShipInv
  <1>12. QED
    BY <1>1, <1>2, <1>3, <1>4, <1>5, <1>6, <1>7, <1>8, <1>9, <1>10, <1>11
       DEF Next, Commit

\* Every write either moves `modified` or needs a pending refund, which a fresh
\* cancellation excludes.
LEMMA CancelInvStep == TypeOK /\ CancelInv /\ [Next]_vars => CancelInv'
  <1> SUFFICES ASSUME TypeOK, CancelInv, [Next]_vars PROVE CancelInv'
    OBVIOUS
  <1>a. /\ order \in [Orders -> OrderRow]
        /\ \A r \in open : r \in Request /\ r.name \in Orders
    BY DEF TypeOK, Request
  <1>b. ASSUME NEW r \in open, open' = Touched(r),
               \A o \in Orders : o # r.name => order'[o] = order[o]
        PROVE  CancelInv'
    <2> SUFFICES ASSUME NEW q \in open', q.handler = "cancel", q.fresh
                 PROVE  /\ q.snap = order'[q.name]
                        /\ q.snap.status # "none" /\ CancelAdmits(q.snap)
      BY DEF CancelInv, CancelAdmits
    <2>1. PICK p \in open :
              /\ q.handler = p.handler /\ q.name = p.name /\ q.snap = p.snap
              /\ p.fresh /\ p.name # r.name
      BY <1>b, TouchedRequests
    <2>2. /\ p.snap = order[p.name]
          /\ p.snap.status # "none" /\ CancelAdmits(p.snap)
      BY <2>1 DEF CancelInv
    <2>3. p.name \in Orders
      BY <1>a
    <2>4. QED
      BY <1>b, <2>1, <2>2, <2>3
  <1>c. ASSUME open' \subseteq open,
               \A p \in open : p.handler = "cancel" /\ p.fresh
                                => order'[p.name] = order[p.name]
        PROVE  CancelInv'
    BY <1>c DEF CancelInv, CancelAdmits
  <1>1. ASSUME NEW o \in Orders, NEW items \in Baskets, NEW instant \in BOOLEAN,
               CreateOrder(o, items, instant)
        PROVE  CancelInv'
    <2>1. \A p \in open : p.handler = "cancel" /\ p.fresh => p.name # o
      BY <1>1 DEF CreateOrder, CancelInv
    <2>2. QED
      BY <1>1, <1>a, <1>c, <2>1 DEF CreateOrder
  <1>2. ASSUME NEW s \in Sessions, NEW h \in Handler, NEW o \in Orders, Begin(s, h, o)
        PROVE  CancelInv'
    <2>1. h = "cancel" => Carried(h, order[o]) = order[o] /\ CancelAdmits(order[o])
      BY <1>2 DEF Begin, Admits, Carried
    <2>2. order[o].status # "none" /\ order' = order
      BY <1>2 DEF Begin
    <2>3. QED
      BY <1>2, <2>1, <2>2 DEF Begin, CancelInv, CancelAdmits
  <1>3. ASSUME NEW r \in open, CancelOrder(r)
        PROVE  CancelInv'
    BY <1>3, <1>a, <1>b DEF CancelOrder
  <1>4. ASSUME NEW r \in open, SubmitRemittance(r)
        PROVE  CancelInv'
    BY <1>4, <1>a, <1>b DEF SubmitRemittance
  <1>5. ASSUME NEW r \in open, SellerConfirmPayment(r)
        PROVE  CancelInv'
    BY <1>5, <1>a, <1>b DEF SellerConfirmPayment
  <1>6. ASSUME NEW r \in open, SellerShipOrder(r)
        PROVE  CancelInv'
    BY <1>6, <1>a, <1>b DEF SellerShipOrder
  <1>7. ASSUME NEW r \in open, SubmitRefundRequest(r)
        PROVE  CancelInv'
    BY <1>7, <1>a, <1>b DEF SubmitRefundRequest
  <1>8. ASSUME NEW r \in open, SellerHandleRefund(r)
        PROVE  CancelInv'
    <2>1. order[r.name].refund = "pending" /\ open' \subseteq open
      BY <1>8 DEF SellerHandleRefund
    <2>2. \A p \in open : p.handler = "cancel" /\ p.fresh => p.name # r.name
      BY <2>1 DEF CancelInv, CancelAdmits
    <2>3. \A o \in Orders : o # r.name => order'[o] = order[o]
      BY <1>8, <1>a DEF SellerHandleRefund
    <2>4. QED
      BY <1>a, <1>c, <2>1, <2>2, <2>3
  <1>9. ASSUME NEW r \in open, Abort(r)
        PROVE  CancelInv'
    BY <1>9, <1>c DEF Abort
  <1>10. ASSUME NEW l \in Listings, NEW n \in SellerCounts, SellerSetsStock(l, n)
         PROVE  CancelInv'
    BY <1>10, <1>c DEF SellerSetsStock
  <1>11. CASE UNCHANGED vars
    BY <1>11, <1>c DEF vars
  <1>12. QED
    BY <1>1, <1>2, <1>3, <1>4, <1>5, <1>6, <1>7, <1>8, <1>9, <1>10, <1>11
       DEF Next, Commit

\* The types and what open requests rest on hold throughout.
LEMMA Inductive == Spec => []IInv
  <1>1. Init => IInv
    BY InitType DEF IInv, Init, ShipInv, CancelInv
  <1>2. IInv /\ [Next]_vars => IInv'
    BY NextType, ShipInvStep, CancelInvStep DEF IInv
  <1>3. QED
    BY <1>1, <1>2, PTL DEF Spec

-----------------------------------------------------------------------------
(* Theorems on the order life cycle                                        *)

\* An order awaiting payment is never shipped: no handler returns an order to
\* "awaiting", so what a ship request read cannot be undone under it.
THEOREM UnpaidNeverShipped == Spec => NoUnpaidShipment
  <1> DEFINE Step == \A o \in Orders :
                order[o].status = "awaiting" => order'[o].status # "shipped"
  <1>1. IInv /\ [Next]_vars => [Step]_vars
    <2> SUFFICES ASSUME IInv, Next, NEW o \in Orders,
                        order[o].status = "awaiting", order'[o].status = "shipped"
                 PROVE  FALSE
      BY DEF IInv
    <2>a. /\ order \in [Orders -> OrderRow]
          /\ \A r \in open : r.name \in Orders /\ r.snap \in OrderRow
      BY DEF IInv, TypeOK, Request
    <2>1. ASSUME NEW p \in Orders, NEW items \in Baskets, NEW instant \in BOOLEAN,
                 CreateOrder(p, items, instant)
          PROVE  FALSE
      BY <2>1, <2>a DEF CreateOrder
    <2>2. ASSUME NEW r \in open, CancelOrder(r)
          PROVE  FALSE
      <3>1. [r.snap EXCEPT !.status = "cancelled", !.deducted = FALSE].status
                = "cancelled"
        BY <2>a DEF OrderRow
      <3>2. QED
        BY <2>2, <2>a, <3>1 DEF CancelOrder
    <2>3. ASSUME NEW r \in open, SubmitRemittance(r)
          PROVE  FALSE
      BY <2>3, <2>a DEF SubmitRemittance, OrderRow
    <2>4. ASSUME NEW r \in open, SellerConfirmPayment(r)
          PROVE  FALSE
      BY <2>4, <2>a DEF SellerConfirmPayment, OrderRow
    <2>5. ASSUME NEW r \in open, SellerShipOrder(r)
          PROVE  FALSE
      <3>1. order[r.name].status # "awaiting"
        BY <2>5 DEF SellerShipOrder, IInv, ShipInv
      <3>2. QED
        BY <2>5, <2>a, <3>1 DEF SellerShipOrder
    <2>6. ASSUME NEW r \in open, SubmitRefundRequest(r)
          PROVE  FALSE
      BY <2>6, <2>a DEF SubmitRefundRequest, OrderRow
    <2>7. ASSUME NEW r \in open, SellerHandleRefund(r)
          PROVE  FALSE
      <3>1. CASE order' = [order EXCEPT ![r.name].refund = "approved",
                                        ![r.name].deducted = FALSE]
        BY <3>1, <2>a DEF OrderRow
      <3>2. CASE order' = [order EXCEPT ![r.name].refund = "rejected"]
        BY <3>2, <2>a DEF OrderRow
      <3>3. QED
        BY <2>7, <3>1, <3>2 DEF SellerHandleRefund
    <2>8. QED
      BY <2>1, <2>2, <2>3, <2>4, <2>5, <2>6, <2>7
         DEF Next, Commit, Begin, Abort, SellerSetsStock
  <1>2. QED
    BY <1>1, Inductive, PTL DEF Spec, NoUnpaidShipment

\* No cancellation overwrites a shipment: shipping moves `modified`, so a
\* cancellation that read the order before it fails in Document.save.
THEOREM ShippedStaysUncancelled == Spec => ShippedNeverCancelled
  <1> DEFINE Step == \A o \in Orders :
                order[o].status = "shipped" => order'[o].status # "cancelled"
  <1>1. IInv /\ [Next]_vars => [Step]_vars
    <2> SUFFICES ASSUME IInv, Next, NEW o \in Orders,
                        order[o].status = "shipped", order'[o].status = "cancelled"
                 PROVE  FALSE
      BY DEF IInv
    <2>a. /\ order \in [Orders -> OrderRow]
          /\ \A r \in open : r.name \in Orders /\ r.snap \in OrderRow
      BY DEF IInv, TypeOK, Request
    <2>1. ASSUME NEW p \in Orders, NEW items \in Baskets, NEW instant \in BOOLEAN,
                 CreateOrder(p, items, instant)
          PROVE  FALSE
      BY <2>1, <2>a DEF CreateOrder
    <2>2. ASSUME NEW r \in open, CancelOrder(r)
          PROVE  FALSE
      <3>1. order[r.name].status # "shipped"
        BY <2>2 DEF CancelOrder, IInv, CancelInv, CancelAdmits
      <3>2. QED
        BY <2>2, <2>a, <3>1 DEF CancelOrder
    <2>3. ASSUME NEW r \in open, SubmitRemittance(r)
          PROVE  FALSE
      BY <2>3, <2>a DEF SubmitRemittance, OrderRow
    <2>4. ASSUME NEW r \in open, SellerConfirmPayment(r)
          PROVE  FALSE
      BY <2>4, <2>a DEF SellerConfirmPayment, OrderRow
    <2>5. ASSUME NEW r \in open, SellerShipOrder(r)
          PROVE  FALSE
      BY <2>5, <2>a DEF SellerShipOrder, OrderRow
    <2>6. ASSUME NEW r \in open, SubmitRefundRequest(r)
          PROVE  FALSE
      BY <2>6, <2>a DEF SubmitRefundRequest, OrderRow
    <2>7. ASSUME NEW r \in open, SellerHandleRefund(r)
          PROVE  FALSE
      <3>1. CASE order' = [order EXCEPT ![r.name].refund = "approved",
                                        ![r.name].deducted = FALSE]
        BY <3>1, <2>a DEF OrderRow
      <3>2. CASE order' = [order EXCEPT ![r.name].refund = "rejected"]
        BY <3>2, <2>a DEF OrderRow
      <3>3. QED
        BY <2>7, <3>1, <3>2 DEF SellerHandleRefund
    <2>8. QED
      BY <2>1, <2>2, <2>3, <2>4, <2>5, <2>6, <2>7
         DEF Next, Commit, Begin, Abort, SellerSetsStock
  <1>2. QED
    BY <1>1, Inductive, PTL DEF Spec, ShippedNeverCancelled

\* A refund is decided only while it is pending: the conditional UPDATE decides
\* it, and the document a cancellation saves carries no older decision.
THEOREM RefundDecisionUnique == Spec => RefundDecidedOnce
  <1> DEFINE Step == \A o \in Orders :
                order'[o].refund \in {"approved", "rejected"}
                /\ order'[o].refund # order[o].refund
                    => order[o].refund = "pending"
  <1>1. IInv /\ [Next]_vars => [Step]_vars
    <2> SUFFICES ASSUME IInv, Next, NEW o \in Orders,
                        order'[o].refund \in {"approved", "rejected"},
                        order'[o].refund # order[o].refund
                 PROVE  order[o].refund = "pending"
      BY DEF IInv
    <2>a. /\ order \in [Orders -> OrderRow]
          /\ \A r \in open : r.name \in Orders /\ r.snap \in OrderRow
      BY DEF IInv, TypeOK, Request
    <2>1. ASSUME NEW p \in Orders, NEW items \in Baskets, NEW instant \in BOOLEAN,
                 CreateOrder(p, items, instant)
          PROVE  FALSE
      BY <2>1, <2>a DEF CreateOrder
    <2>2. ASSUME NEW r \in open, CancelOrder(r)
          PROVE  FALSE
      <3>1. order[r.name].refund = r.snap.refund
        BY <2>2 DEF CancelOrder, IInv, CancelInv
      <3>2. [r.snap EXCEPT !.status = "cancelled", !.deducted = FALSE].refund
                = r.snap.refund
        BY <2>a DEF OrderRow
      <3>3. QED
        BY <2>2, <2>a, <3>1, <3>2 DEF CancelOrder
    <2>3. ASSUME NEW r \in open, SubmitRemittance(r)
          PROVE  FALSE
      BY <2>3, <2>a DEF SubmitRemittance, OrderRow
    <2>4. ASSUME NEW r \in open, SellerConfirmPayment(r)
          PROVE  FALSE
      BY <2>4, <2>a DEF SellerConfirmPayment, OrderRow
    <2>5. ASSUME NEW r \in open, SellerShipOrder(r)
          PROVE  FALSE
      BY <2>5, <2>a DEF SellerShipOrder, OrderRow
    <2>6. ASSUME NEW r \in open, SubmitRefundRequest(r)
          PROVE  FALSE
      BY <2>6, <2>a DEF SubmitRefundRequest, OrderRow
    <2>7. ASSUME NEW r \in open, SellerHandleRefund(r)
          PROVE  order[o].refund = "pending"
      BY <2>7, <2>a DEF SellerHandleRefund
    <2>8. QED
      BY <2>1, <2>2, <2>3, <2>4, <2>5, <2>6, <2>7
         DEF Next, Commit, Begin, Abort, SellerSetsStock
  <1>2. QED
    BY <1>1, Inductive, PTL DEF Spec, RefundDecidedOnce

-----------------------------------------------------------------------------
(* No over-sell                                                            *)

\* What one item operation does to stock and reservation of a listing
LEMMA ItemEffects ==
  ASSUME NEW rows \in Rows, NEW items \in Items, NEW seen \in Items, NEW l \in Listings
  PROVE  /\ OnItems(ReserveItem, items, rows, seen)[l].stock = rows[l].stock
         /\ OnItems(ReserveItem, items, rows, seen)[l].reserved =
                IF l \in Tracked /\ items[l] > 0
                THEN rows[l].reserved + items[l] ELSE rows[l].reserved
         /\ OnItems(ReleaseItem, items, rows, seen)[l].reserved <= rows[l].reserved
         /\ OnItems(DeductItem, items, rows, seen)[l].reserved =
                IF l \in Tracked /\ items[l] > 0
                THEN Clamp(rows[l].reserved - items[l]) ELSE rows[l].reserved
         /\ OnItems(ReturnItem, items, rows, seen)[l].reserved = rows[l].reserved
  <1> DEFINE row == rows[l]
             q == items[l]
  <1>1. row \in ListingRow /\ q \in Nat /\ q \in Int /\ -q \in Int /\ seen[l] \in Nat
    BY DEF Rows, Items
  <1>2. ASSUME NEW x \in ListingRow
        PROVE  /\ Recalculated(x, row, seen[l]).stock = x.stock
               /\ Recalculated(x, row, seen[l]).reserved = x.reserved
    BY <1>1, RecalculatedType
  <1>3. /\ ReserveItem(row, l, q) \in ListingRow
        /\ ReleaseItem(row, l, q) \in ListingRow
        /\ DeductItem(row, l, q) \in ListingRow
        /\ ReturnItem(row, l, q) \in ListingRow
    BY <1>1, ItemOpsType
  <1>4. /\ [row EXCEPT !.reserved = @ + q] \in ListingRow
        /\ [row EXCEPT !.reserved = Clamp(@ - q)] \in ListingRow
        /\ [row EXCEPT !.stock = @ + q] \in ListingRow
    BY <1>1, ClampType DEF ListingRow
  <1>5. /\ ReserveItem(row, l, q).stock = row.stock
        /\ ReserveItem(row, l, q).reserved = row.reserved + q
    BY <1>1, <1>4, VariantMovedType DEF ReserveItem, ListingRow
  <1>6. ReleaseItem(row, l, q).reserved = Clamp(row.reserved - q)
    BY <1>1, <1>4, VariantMovedType DEF ReleaseItem, ListingRow
  <1>7. DeductItem(row, l, q).reserved = Clamp(row.reserved - q)
    BY <1>1 DEF DeductItem, ListingRow
  <1>8. ReturnItem(row, l, q).reserved = row.reserved
    BY <1>1, <1>4, VariantMovedType DEF ReturnItem, ListingRow
  <1>9. Clamp(row.reserved - q) <= row.reserved /\ row.reserved <= row.reserved
    BY <1>1 DEF Clamp, ListingRow
  <1>10. QED
    BY <1>2, <1>3, <1>5, <1>6, <1>7, <1>8, <1>9 DEF OnItems

\* Giving units back never raises a reservation.
LEMMA RestoredReserved ==
  ASSUME NEW rows \in Rows, NEW row \in OrderRow, NEW seen \in Items,
         NEW l \in Listings
  PROVE  Restored(row, rows, seen)[l].reserved <= rows[l].reserved
  <1>1. row.items \in Items
    BY DEF OrderRow, Items
  <1>2. rows[l].reserved <= rows[l].reserved
    BY DEF Rows, ListingRow
  <1>3. QED
    BY <1>1, <1>2, ItemEffects DEF Restored

\* Whatever other requests did between an endpoint's snapshot and its commit, the
\* step that reserves more of a listing leaves all of it covered by stock (N1).
THEOREM NeverOversold == Spec => NoOversell
  <1> DEFINE Step == \A l \in Tracked \ Backordered :
                        listing'[l].reserved > listing[l].reserved
                            => listing'[l].reserved <= listing'[l].stock
  <1>1. TypeOK /\ [Next]_vars => [Step]_vars
    <2> SUFFICES ASSUME TypeOK, Next, NEW l \in Tracked \ Backordered,
                        listing'[l].reserved > listing[l].reserved
                 PROVE  listing'[l].reserved <= listing'[l].stock
      BY DEF vars
    <2>a. /\ listing \in Rows
          /\ l \in Listings /\ l \in Tracked
          /\ listing[l] \in ListingRow
          /\ View(listing) \in Items
          /\ \A r \in open : /\ r.snap \in OrderRow /\ order[r.name] \in OrderRow
                              /\ r.seen \in Items
      BY OrderStockAssumption, ViewType DEF TypeOK, Rows, Request, Items
    <2>b. listing[l].reserved \in Nat /\ listing[l].stock \in Nat
      BY <2>a DEF ListingRow
    <2>1. ASSUME NEW o \in Orders, NEW items \in Baskets, NEW instant \in BOOLEAN,
                 CreateOrder(o, items, instant)
          PROVE  listing'[l].reserved <= listing'[l].stock
      <3> DEFINE held == OnItems(ReserveItem, items, listing, View(listing))
      <3>1. items \in Items /\ items[l] \in Nat
        BY <2>a, OrderStockAssumption DEF Items
      <3>2. held \in Rows
        BY <2>a, <3>1, OnItemsType
      <3>3. CASE items[l] > 0
        <4>1. held[l].stock = listing[l].stock
              /\ held[l].reserved = listing[l].reserved + items[l]
          BY <2>a, <3>1, <3>3, ItemEffects
        <4>2. listing[l].stock - listing[l].reserved >= items[l]
          BY <2>1, <3>3 DEF CreateOrder, Reservable
        <4>3. held[l].reserved <= held[l].stock
          BY <4>1, <4>2, <3>1, <2>b
        <4>4. CASE instant
          <5>1. listing' = OnItems(DeductItem, items, held, View(listing))
            BY <2>1, <4>4 DEF CreateOrder
          <5>2. listing'[l].reserved = Clamp(held[l].reserved - items[l])
            BY <5>1, <2>a, <3>1, <3>2, <3>3, ItemEffects
          <5>3. Clamp(held[l].reserved - items[l]) = listing[l].reserved
            BY <4>1, <3>1, <2>b DEF Clamp
          <5>4. QED
            BY <5>2, <5>3, <2>b
        <4>5. CASE ~instant
          <5>1. listing' = held
            BY <2>1, <4>5 DEF CreateOrder
          <5>2. QED
            BY <5>1, <4>3
        <4>6. QED
          BY <4>4, <4>5
      <3>4. CASE ~(items[l] > 0)
        <4>1. held[l].reserved = listing[l].reserved
          BY <2>a, <3>1, <3>4, ItemEffects
        <4>2. OnItems(DeductItem, items, held, View(listing))[l].reserved = held[l].reserved
          BY <2>a, <3>1, <3>2, <3>4, ItemEffects
        <4>3. listing' \in {held, OnItems(DeductItem, items, held, View(listing))}
          BY <2>1 DEF CreateOrder
        <4>4. listing'[l].reserved = listing[l].reserved
          BY <4>1, <4>2, <4>3
        <4>5. QED
          BY <4>4, <2>b
      <3>5. QED
        BY <3>3, <3>4
    <2>2. ASSUME NEW r \in open, CancelOrder(r)
          PROVE  FALSE
      <3>1. Restored(r.snap, listing, r.seen)[l].reserved <= listing[l].reserved
        BY <2>a, RestoredReserved
      <3>2. listing' \in Rows /\ listing'[l].reserved \in Nat
        BY <2>2, <2>a, RestoredType DEF CancelOrder, Rows, ListingRow
      <3>3. QED
        BY <2>2, <3>1, <3>2, <2>b DEF CancelOrder
    <2>3. ASSUME NEW r \in open, SubmitRemittance(r)
          PROVE  FALSE
      <3> DEFINE items == order[r.name].items
      <3>1. items \in Items /\ items[l] \in Nat
        BY <2>a DEF OrderRow, Items
      <3>2. Clamp(listing[l].reserved - items[l]) \in 0 .. listing[l].reserved
        BY <3>1, <2>b DEF Clamp
      <3>3. OnItems(DeductItem, items, listing, r.seen)[l].reserved \in
                {listing[l].reserved, Clamp(listing[l].reserved - items[l])}
        BY <3>1, <2>a, ItemEffects
      <3>4. listing' \in {listing, OnItems(DeductItem, items, listing, r.seen)}
        BY <2>3 DEF SubmitRemittance
      <3>5. listing'[l].reserved \in 0 .. listing[l].reserved
        <4> HIDE DEF items
        <4>1. QED
          BY <3>2, <3>3, <3>4, <2>b
      <3>6. QED
        BY <3>5, <2>b
    <2>4. ASSUME NEW r \in open, SellerHandleRefund(r)
          PROVE  FALSE
      <3>1. Restored(order[r.name], listing, r.seen)[l].reserved <= listing[l].reserved
        BY <2>a, RestoredReserved
      <3>2. Restored(order[r.name], listing, r.seen)[l].reserved \in Nat
        BY <2>a, RestoredType DEF Rows, ListingRow
      <3>3. listing' \in {listing, Restored(order[r.name], listing, r.seen)}
        BY <2>4 DEF SellerHandleRefund
      <3>4. QED
        BY <3>1, <3>2, <3>3, <2>b
    <2>5. ASSUME NEW k \in Listings, NEW n \in SellerCounts, SellerSetsStock(k, n)
          PROVE  FALSE
      <3> DEFINE counted == [listing[k] EXCEPT !.stock = n]
      <3>1. counted \in ListingRow /\ counted.reserved = listing[k].reserved
        BY <2>a, OrderStockAssumption DEF Rows, ListingRow
      <3>2. Recalculated(counted, listing[k], View(listing)[k]).reserved = listing[k].reserved
        <4>1. View(listing)[k] \in Nat
          BY <2>a DEF Items
        <4> HIDE DEF counted
        <4>2. QED
          BY <3>1, <4>1, RecalculatedType
      <3>3. listing' = [listing EXCEPT ![k] = Recalculated(counted, listing[k], View(listing)[k])]
        BY <2>5 DEF SellerSetsStock
      <3>4. listing'[l].reserved = listing[l].reserved
        BY <3>2, <3>3, <2>a DEF Rows
      <3>5. QED
        BY <3>4, <2>b
    <2>6. CASE UNCHANGED listing
      BY <2>6, <2>b
    <2>7. QED
      BY <2>1, <2>2, <2>3, <2>4, <2>5, <2>6
         DEF Next, Commit, Begin, Abort, SellerConfirmPayment, SellerShipOrder,
             SubmitRefundRequest
  <1>2. QED
    BY <1>1, TypeCorrect, PTL DEF Spec, NoOversell

-----------------------------------------------------------------------------
(* OrderStock implements OrderLifecycle                                    *)

StatusOf == [o \in Orders |-> order[o].status]
RefundOf == [o \in Orders |-> order[o].refund]

\* A request is about an order that was placed, and so is a refund
PlacedInv ==
    /\ \A r \in open : order[r.name].status # "none"
    /\ \A o \in Orders : order[o].status = "none" => order[o].refund = "none"

\* What a write to one row shows of its status and refund
LEMMA RowWritten ==
  ASSUME order \in [Orders -> OrderRow], NEW n \in Orders, NEW row \in OrderRow,
         order' = [order EXCEPT ![n] = row]
  PROVE  /\ StatusOf' = [StatusOf EXCEPT ![n] = row.status]
         /\ RefundOf' = [RefundOf EXCEPT ![n] = row.refund]
  BY DEF StatusOf, RefundOf

\* What a commit of request r may make of the row it writes
Writes(r, row) ==
    LET old == order[r.name]
    IN  \/ row.status = old.status /\ row.refund = old.refund
        \/ /\ r.handler = "cancel" /\ CancelAdmits(old)
           /\ row.status = "cancelled" /\ row.refund = old.refund
        \/ row.status = "confirmed" /\ row.refund = old.refund
        \/ r.handler = "ship" /\ row.status = "shipped" /\ row.refund = old.refund
        \/ row.status = old.status /\ row.refund = "pending"
        \/ /\ old.refund = "pending"
           /\ row.status = old.status /\ row.refund \in {"approved", "rejected"}

\* Every commit writes one order's row, in one of the ways of Writes.
LEMMA CommitWrites ==
  ASSUME TypeOK, CancelInv, NEW r \in open, Commit(r)
  PROVE  \E row \in OrderRow :
            order' = [order EXCEPT ![r.name] = row] /\ Writes(r, row)
  <1> DEFINE old == order[r.name]
  <1>a. /\ order \in [Orders -> OrderRow] /\ r.name \in Orders
        /\ old \in OrderRow /\ r.snap \in OrderRow
    BY DEF TypeOK, Request
  <1>1. CASE CancelOrder(r)
    <2> DEFINE row == [r.snap EXCEPT !.status = "cancelled", !.deducted = FALSE]
    <2>1. row \in OrderRow /\ row.status = "cancelled" /\ row.refund = r.snap.refund
      BY <1>a DEF OrderRow, Status
    <2>2. r.snap = old /\ CancelAdmits(old)
      BY <1>1 DEF CancelOrder, CancelInv, CancelAdmits
    <2>3. order' = [order EXCEPT ![r.name] = row]
      BY <1>1 DEF CancelOrder
    <2>4. r.handler = "cancel"
      BY <1>1 DEF CancelOrder
    <2> QED
      <3> HIDE DEF row
      <3> QED BY <2>1, <2>2, <2>3, <2>4 DEF Writes
  <1>2. CASE SubmitRemittance(r)
    <2> DEFINE row == [old EXCEPT !.remitted = TRUE, !.deducted = TRUE]
    <2>1. row \in OrderRow /\ row.status = old.status /\ row.refund = old.refund
      BY <1>a DEF OrderRow
    <2>2. order' = [order EXCEPT ![r.name] = row]
      BY <1>2, <1>a DEF SubmitRemittance, OrderRow
    <2> QED
      <3> HIDE DEF row
      <3> QED BY <2>1, <2>2 DEF Writes
  <1>3. CASE SellerConfirmPayment(r)
    <2> DEFINE row == [old EXCEPT !.status = "confirmed"]
    <2>1. row \in OrderRow /\ row.status = "confirmed" /\ row.refund = old.refund
      BY <1>a DEF OrderRow, Status
    <2>2. order' = [order EXCEPT ![r.name] = row]
      BY <1>3, <1>a DEF SellerConfirmPayment, OrderRow
    <2> QED
      <3> HIDE DEF row
      <3> QED BY <2>1, <2>2 DEF Writes
  <1>4. CASE SellerShipOrder(r)
    <2> DEFINE row == [old EXCEPT !.status = "shipped"]
    <2>1. row \in OrderRow /\ row.status = "shipped" /\ row.refund = old.refund
      BY <1>a DEF OrderRow, Status
    <2>2. order' = [order EXCEPT ![r.name] = row] /\ r.handler = "ship"
      BY <1>4, <1>a DEF SellerShipOrder, OrderRow
    <2> QED
      <3> HIDE DEF row
      <3> QED BY <2>1, <2>2 DEF Writes
  <1>5. CASE SubmitRefundRequest(r)
    <2> DEFINE n   == IF r.snap.refundTx = 0 THEN old.refundTx + 1 ELSE old.refundTx
               row == [old EXCEPT !.refund = "pending", !.refundTx = n]
    <2>1. n \in Nat
      BY <1>a DEF OrderRow
    <2>2. row \in OrderRow /\ row.status = old.status /\ row.refund = "pending"
      <3> HIDE DEF n
      <3> QED BY <1>a, <2>1 DEF OrderRow, Refund
    <2>3. order' = [order EXCEPT ![r.name] = row]
      BY <1>5, <1>a DEF SubmitRefundRequest, OrderRow
    <2> QED
      <3> HIDE DEF row
      <3> QED BY <2>2, <2>3 DEF Writes
  <1>6. CASE SellerHandleRefund(r)
    <2>1. old.refund = "pending"
      BY <1>6 DEF SellerHandleRefund
    <2>2. CASE order' = [order EXCEPT ![r.name].refund = "approved",
                                      ![r.name].deducted = FALSE]
      <3> DEFINE row == [old EXCEPT !.refund = "approved", !.deducted = FALSE]
      <3>1. row \in OrderRow /\ row.status = old.status /\ row.refund = "approved"
        BY <1>a DEF OrderRow, Refund
      <3>2. order' = [order EXCEPT ![r.name] = row]
        BY <2>2, <1>a DEF OrderRow
      <3> QED
        <4> HIDE DEF row
        <4> QED BY <2>1, <3>1, <3>2 DEF Writes
    <2>3. CASE order' = [order EXCEPT ![r.name].refund = "rejected"]
      <3> DEFINE row == [old EXCEPT !.refund = "rejected"]
      <3>1. row \in OrderRow /\ row.status = old.status /\ row.refund = "rejected"
        BY <1>a DEF OrderRow, Refund
      <3>2. order' = [order EXCEPT ![r.name] = row]
        BY <2>3, <1>a DEF OrderRow
      <3> QED
        <4> HIDE DEF row
        <4> QED BY <2>1, <3>1, <3>2 DEF Writes
    <2> QED
      BY <1>6, <2>2, <2>3 DEF SellerHandleRefund
  <1> QED
    BY <1>1, <1>2, <1>3, <1>4, <1>5, <1>6 DEF Commit

\* No commit takes an order back to before its checkout.
LEMMA PlacedInvStep ==
  TypeOK /\ CancelInv /\ PlacedInv /\ [Next]_vars => PlacedInv'
  <1> SUFFICES ASSUME TypeOK, CancelInv, PlacedInv, [Next]_vars PROVE PlacedInv'
    OBVIOUS
  <1>a. /\ order \in [Orders -> OrderRow]
        /\ \A r \in open : r \in Request /\ r.name \in Orders
    BY DEF TypeOK, Request
  <1>b. ASSUME \A q \in open' : \E p \in open : q.name = p.name,
               \A p \in open : order'[p.name].status # "none",
               \A o \in Orders : order'[o].status = "none"
                                    => order'[o].refund = "none"
        PROVE  PlacedInv'
    BY <1>b DEF PlacedInv
  <1>1. ASSUME NEW o \in Orders, NEW items \in Baskets, NEW instant \in BOOLEAN,
               CreateOrder(o, items, instant)
        PROVE  PlacedInv'
    <2>1. \A p \in open : p.name # o
      BY <1>1 DEF CreateOrder, PlacedInv
    <2>2. QED
      BY <1>1, <1>a, <2>1 DEF CreateOrder, PlacedInv
  <1>2. ASSUME NEW s \in Sessions, NEW h \in Handler, NEW o \in Orders, Begin(s, h, o)
        PROVE  PlacedInv'
    BY <1>2 DEF Begin, PlacedInv
  <1>3. ASSUME NEW r \in open, Commit(r)
        PROVE  PlacedInv'
    <2>1. PICK row \in OrderRow :
              order' = [order EXCEPT ![r.name] = row] /\ Writes(r, row)
      BY <1>3, CommitWrites
    <2>2. row.status # "none"
      BY <2>1 DEF Writes, PlacedInv
    <2>3. \A p \in open : order'[p.name].status # "none"
      BY <1>a, <2>1, <2>2 DEF PlacedInv
    <2>4. \A o \in Orders : order'[o].status = "none" => order'[o].refund = "none"
      BY <1>a, <2>1, <2>2 DEF PlacedInv
    <2>5. open' = Touched(r) \/ open' = open \ {r}
      BY <1>3 DEF Commit, CancelOrder, SubmitRemittance, SellerConfirmPayment,
                  SellerShipOrder, SubmitRefundRequest, SellerHandleRefund
    <2>6. \A q \in open' : \E p \in open : q.name = p.name
      BY <2>5, TouchedRequests
    <2>7. QED
      BY <1>b, <2>3, <2>4, <2>6
  <1>4. ASSUME NEW r \in open, Abort(r)
        PROVE  PlacedInv'
    BY <1>4 DEF Abort, PlacedInv
  <1>5. ASSUME NEW l \in Listings, NEW n \in SellerCounts, SellerSetsStock(l, n)
        PROVE  PlacedInv'
    BY <1>5 DEF SellerSetsStock, PlacedInv
  <1>6. CASE UNCHANGED vars
    BY <1>6 DEF vars, PlacedInv
  <1>7. QED
    BY <1>1, <1>2, <1>3, <1>4, <1>5, <1>6 DEF Next

\* What a commit writes is a step of the life cycle, or changes nothing it sees.
LEMMA CommitIsLifecycleStep ==
  ASSUME TypeOK, ShipInv, CancelInv, PlacedInv, NEW r \in open, Commit(r)
  PROVE  [Lifecycle!Next]_(Lifecycle!vars)
  <1> DEFINE o   == r.name
             old == order[o]
  <1>1. PICK row \in OrderRow : order' = [order EXCEPT ![o] = row] /\ Writes(r, row)
    BY CommitWrites
  <1>2. /\ o \in Orders /\ old \in OrderRow /\ order \in [Orders -> OrderRow]
        /\ old.status \in Status \ {"none"}
    BY DEF TypeOK, Request, OrderRow, PlacedInv
  <1>3. /\ StatusOf' = [StatusOf EXCEPT ![o] = row.status]
        /\ RefundOf' = [RefundOf EXCEPT ![o] = row.refund]
    BY <1>1, <1>2, RowWritten
  <1>4. /\ StatusOf[o] = old.status /\ RefundOf[o] = old.refund
        /\ row.status = old.status => StatusOf' = StatusOf
        /\ row.refund = old.refund => RefundOf' = RefundOf
    BY <1>2, <1>3 DEF StatusOf, RefundOf
  <1>5. /\ Lifecycle!vars = <<StatusOf, RefundOf>>
        /\ Lifecycle!vars' = <<StatusOf', RefundOf'>>
    BY DEF Lifecycle!vars, StatusOf, RefundOf
  <1>6. CASE row.status = old.status /\ row.refund = old.refund
    BY <1>4, <1>5, <1>6
  <1>7. CASE /\ CancelAdmits(old)
             /\ row.status = "cancelled" /\ row.refund = old.refund
    <2>1. old.status \in {"awaiting", "confirmed"} /\ old.refund # "pending"
      BY <1>2, <1>7 DEF CancelAdmits, Status
    <2>2. Lifecycle!Cancel(o)
      BY <1>3, <1>4, <1>7, <2>1 DEF Lifecycle!Cancel, StatusOf, RefundOf
    <2> QED
      BY <1>2, <2>2 DEF Lifecycle!Next
  <1>8. CASE row.status = "confirmed" /\ row.refund = old.refund
    <2>1. Lifecycle!Confirm(o)
      BY <1>2, <1>3, <1>4, <1>8
         DEF Lifecycle!Confirm, Lifecycle!Placed, StatusOf, RefundOf
    <2> QED
      BY <1>2, <2>1 DEF Lifecycle!Next
  <1>9. CASE r.handler = "ship" /\ row.status = "shipped" /\ row.refund = old.refund
    <2>1. Lifecycle!Ship(o)
      BY <1>3, <1>4, <1>9 DEF Lifecycle!Ship, StatusOf, RefundOf, ShipInv
    <2> QED
      BY <1>2, <2>1 DEF Lifecycle!Next
  <1>10. CASE row.status = old.status /\ row.refund = "pending"
    <2>1. Lifecycle!AskRefund(o)
      BY <1>2, <1>3, <1>4, <1>10
         DEF Lifecycle!AskRefund, Lifecycle!Placed, StatusOf, RefundOf
    <2> QED
      BY <1>2, <2>1 DEF Lifecycle!Next
  <1>11. CASE /\ old.refund = "pending"
              /\ row.status = old.status /\ row.refund \in {"approved", "rejected"}
    <2>1. Lifecycle!DecideRefund(o)
      BY <1>3, <1>4, <1>11 DEF Lifecycle!DecideRefund, StatusOf, RefundOf
    <2> QED
      BY <1>2, <2>1 DEF Lifecycle!Next
  <1> QED
    BY <1>1, <1>6, <1>7, <1>8, <1>9, <1>10, <1>11 DEF Writes

\* Every step of every endpoint, however its requests interleave, is a step of the
\* order life cycle as a reader of status and refund sees it, or none.
THEOREM ImplementsLifecycle == Spec => FollowsLifecycle
  <1>1. Init => Lifecycle!Init
    BY DEF Init, NoRow, Lifecycle!Init
  <1>2. IInv /\ PlacedInv /\ [Next]_vars => [Lifecycle!Next]_(Lifecycle!vars)
    <2> SUFFICES ASSUME IInv, PlacedInv, [Next]_vars
                 PROVE  [Lifecycle!Next]_(Lifecycle!vars)
      OBVIOUS
    <2>1. ASSUME NEW o \in Orders, NEW items \in Baskets, NEW instant \in BOOLEAN,
                 CreateOrder(o, items, instant)
          PROVE  [Lifecycle!Next]_(Lifecycle!vars)
      <3>1. PICK s \in {"awaiting", "confirmed"} :
                order' = [order EXCEPT ![o] =
                    [status |-> s, deducted |-> instant, remitted |-> FALSE,
                     refund |-> "none", refundTx |-> 0, items |-> items]]
        BY <2>1 DEF CreateOrder
      <3>2. order[o].status = "none"
        BY <2>1 DEF CreateOrder
      <3>3. order[o].refund = "none"
        BY <3>2 DEF PlacedInv
      <3>4. order \in [Orders -> OrderRow]
        BY DEF IInv, TypeOK
      <3>5. Lifecycle!Place(o)
        BY <3>1, <3>2, <3>3, <3>4 DEF Lifecycle!Place, Lifecycle!Placed
      <3> QED
        BY <3>5 DEF Lifecycle!Next
    <2>2. ASSUME NEW r \in open, Commit(r)
          PROVE  [Lifecycle!Next]_(Lifecycle!vars)
      BY <2>2, CommitIsLifecycleStep DEF IInv
    <2>3. CASE order' = order
      BY <2>3 DEF Lifecycle!vars
    <2> QED
      BY <2>1, <2>2, <2>3 DEF Next, Begin, Abort, SellerSetsStock, vars
  <1>3. Init => PlacedInv
    BY DEF Init, PlacedInv, NoRow
  <1>4. IInv /\ PlacedInv /\ [Next]_vars => PlacedInv'
    BY PlacedInvStep DEF IInv
  <1>5. QED
    BY <1>1, <1>2, <1>3, <1>4, Inductive, PTL
       DEF Spec, FollowsLifecycle, Lifecycle!Spec
-----------------------------------------------------------------------------
(* The ledger balances                                                     *)

\* A name not given out has taken nothing from the shelf
UnplacedInv == \A o \in Orders : order[o].status = "none" => ~order[o].deducted

Amount(b, q) == IF b THEN q ELSE 0

\* What an operation on q units makes of the row of listing l
SetAside(l, row, new, q) ==
    /\ new.stock = row.stock /\ new.reserved = row.reserved + q
    /\ l \in Varied => new.variant >= row.variant - q
TakenOff(l, row, new, q) ==
    /\ new.stock >= row.stock - q /\ new.reserved = Clamp(row.reserved - q)
    /\ new.variant = row.variant
Released(l, row, new, q) ==
    /\ new.stock = row.stock /\ new.reserved = Clamp(row.reserved - q)
    /\ l \in Varied => new.variant >= row.variant + q
PutBack(l, row, new, q) ==
    /\ new.stock = row.stock + q /\ new.reserved = row.reserved
    /\ l \in Varied => new.variant >= row.variant + q

\* The item operations of utils/stock.py are those four, item by item.
LEMMA ItemMoves ==
  ASSUME NEW rows \in Rows, NEW items \in Items, NEW seen \in Items,
         NEW l \in Tracked, l \in Listings
  PROVE  /\ SetAside(l, rows[l], OnItems(ReserveItem, items, rows, seen)[l], items[l])
         /\ TakenOff(l, rows[l], OnItems(DeductItem, items, rows, seen)[l], items[l])
         /\ Released(l, rows[l], OnItems(ReleaseItem, items, rows, seen)[l], items[l])
         /\ PutBack(l, rows[l], OnItems(ReturnItem, items, rows, seen)[l], items[l])
  <1> DEFINE row == rows[l]
             q == items[l]
  <1>1. row \in ListingRow /\ q \in Nat /\ q \in Int /\ -q \in Int /\ seen[l] \in Nat
    BY DEF Rows, Items
  <1>2. ASSUME NEW x \in ListingRow
        PROVE  /\ Recalculated(x, row, seen[l]).stock = x.stock
               /\ Recalculated(x, row, seen[l]).reserved = x.reserved
               /\ Recalculated(x, row, seen[l]).variant = x.variant
    BY DEF Recalculated, ListingRow
  <1>3. /\ ReserveItem(row, l, q) \in ListingRow
        /\ ReleaseItem(row, l, q) \in ListingRow
        /\ DeductItem(row, l, q) \in ListingRow
        /\ ReturnItem(row, l, q) \in ListingRow
    BY <1>1, ItemOpsType
  <1>4. /\ [row EXCEPT !.reserved = @ + q] \in ListingRow
        /\ [row EXCEPT !.reserved = Clamp(@ - q)] \in ListingRow
        /\ [row EXCEPT !.stock = @ + q] \in ListingRow
    BY <1>1, ClampType DEF ListingRow
  <1>5. ASSUME NEW x \in ListingRow, NEW d \in Int
        PROVE  /\ VariantMoved(x, l, d).stock = x.stock
               /\ VariantMoved(x, l, d).reserved = x.reserved
               /\ l \in Varied => VariantMoved(x, l, d).variant >= x.variant + d
    <2>1. Clamp(x.variant + d) \in Nat /\ Clamp(x.variant + d) >= x.variant + d
      BY ClampType DEF ListingRow
    <2> QED BY <2>1 DEF VariantMoved, ListingRow
  <1>6. SetAside(l, row, ReserveItem(row, l, q), q)
    BY <1>1, <1>4, <1>5 DEF SetAside, ReserveItem, ListingRow
  <1>7. Released(l, row, ReleaseItem(row, l, q), q)
    BY <1>1, <1>4, <1>5 DEF Released, ReleaseItem, ListingRow
  <1>8. TakenOff(l, row, DeductItem(row, l, q), q)
    <2>1. row.stock - q \in Int /\ row.reserved - q \in Int
      BY <1>1 DEF ListingRow
    <2>2. Clamp(row.stock - q) >= row.stock - q
      BY <2>1, ClampType
    <2> QED BY <1>1, <2>2 DEF TakenOff, DeductItem, ListingRow
  <1>9. PutBack(l, row, ReturnItem(row, l, q), q)
    BY <1>1, <1>4, <1>5 DEF PutBack, ReturnItem, ListingRow
  <1>10. CASE q > 0
    <2>1. /\ OnItems(ReserveItem, items, rows, seen)[l] = Recalculated(ReserveItem(row, l, q), row, seen[l])
          /\ OnItems(DeductItem, items, rows, seen)[l] = Recalculated(DeductItem(row, l, q), row, seen[l])
          /\ OnItems(ReleaseItem, items, rows, seen)[l] = Recalculated(ReleaseItem(row, l, q), row, seen[l])
          /\ OnItems(ReturnItem, items, rows, seen)[l] = Recalculated(ReturnItem(row, l, q), row, seen[l])
      BY <1>10 DEF OnItems
    <2> QED BY <1>2, <1>3, <1>6, <1>7, <1>8, <1>9, <2>1
              DEF SetAside, TakenOff, Released, PutBack
  <1>11. CASE ~(q > 0)
    <2>1. q = 0 /\ Clamp(row.reserved - 0) = row.reserved
      BY <1>1, <1>11 DEF Clamp, ListingRow
    <2>2. /\ OnItems(ReserveItem, items, rows, seen)[l] = row
          /\ OnItems(DeductItem, items, rows, seen)[l] = row
          /\ OnItems(ReleaseItem, items, rows, seen)[l] = row
          /\ OnItems(ReturnItem, items, rows, seen)[l] = row
      BY <1>11 DEF OnItems
    <2>3. row.stock \in Nat /\ row.reserved \in Nat /\ row.variant \in Nat
      BY <1>1 DEF ListingRow
    <2> QED BY <2>1, <2>2, <2>3 DEF SetAside, TakenOff, Released, PutBack
  <1> QED BY <1>1, <1>10, <1>11

\* The units of the order were taken off the shelf, though it may be cancelled since
OffShelf(row) == row.deducted

\* What a write to one order row does to the units the orders hold, have taken,
\* or hold or have taken.
LEMMA UnitsChange ==
  ASSUME order \in [Orders -> OrderRow], NEW n \in Orders, NEW row \in OrderRow,
         order' = [order EXCEPT ![n] = row], NEW l \in Listings
  PROVE  /\ Units(l, HoldsReservation)' = Units(l, HoldsReservation)
              - Amount(HoldsReservation(order[n]), order[n].items[l])
              + Amount(HoldsReservation(row), row.items[l])
         /\ Units(l, OffShelf)' = Units(l, OffShelf)
              - Amount(OffShelf(order[n]), order[n].items[l])
              + Amount(OffShelf(row), row.items[l])
         /\ Units(l, HoldsUnits)' = Units(l, HoldsUnits)
              - Amount(HoldsUnits(order[n]), order[n].items[l])
              + Amount(HoldsUnits(row), row.items[l])
  <1>1. \A o \in Orders : order[o].items[l] \in Nat /\ order'[o].items[l] \in Nat
    BY DEF OrderRow
  <1>2. order'[n] = row /\ \A o \in Orders \ {n} : order'[o] = order[o]
    OBVIOUS
  <1>3. IsFiniteSet(Orders)
    BY OrderStockAssumption
  <1>4. Units(l, HoldsReservation)' = Units(l, HoldsReservation)
              - Amount(HoldsReservation(order[n]), order[n].items[l])
              + Amount(HoldsReservation(row), row.items[l])
    <2> DEFINE f == [o \in Orders |-> IF HoldsReservation(order[o]) THEN order[o].items[l] ELSE 0]
               h == [o \in Orders |-> IF HoldsReservation(order'[o]) THEN order'[o].items[l] ELSE 0]
    <2>1. f \in [Orders -> Int] /\ h \in [Orders -> Int]
      BY <1>1
    <2>2. \A o \in Orders \ {n} : h[o] = f[o]
      BY <1>2
    <2>3. /\ f[n] = Amount(HoldsReservation(order[n]), order[n].items[l])
          /\ h[n] = Amount(HoldsReservation(row), row.items[l])
      BY <1>2 DEF Amount
    <2>4. Units(l, HoldsReservation) = SumFunction(f) /\ Units(l, HoldsReservation)' = SumFunction(h)
      BY DEF Units
    <2> HIDE DEF f, h
    <2>5. SumFunction(h) = SumFunction(f) - f[n] + h[n]
      BY <1>3, <2>1, <2>2, SumChange
    <2> QED BY <2>3, <2>4, <2>5
  <1>5. Units(l, OffShelf)' = Units(l, OffShelf)
              - Amount(OffShelf(order[n]), order[n].items[l])
              + Amount(OffShelf(row), row.items[l])
    <2> DEFINE f == [o \in Orders |-> IF OffShelf(order[o]) THEN order[o].items[l] ELSE 0]
               h == [o \in Orders |-> IF OffShelf(order'[o]) THEN order'[o].items[l] ELSE 0]
    <2>1. f \in [Orders -> Int] /\ h \in [Orders -> Int]
      BY <1>1
    <2>2. \A o \in Orders \ {n} : h[o] = f[o]
      BY <1>2
    <2>3. /\ f[n] = Amount(OffShelf(order[n]), order[n].items[l])
          /\ h[n] = Amount(OffShelf(row), row.items[l])
      BY <1>2 DEF Amount
    <2>4. Units(l, OffShelf) = SumFunction(f) /\ Units(l, OffShelf)' = SumFunction(h)
      BY DEF Units
    <2> HIDE DEF f, h
    <2>5. SumFunction(h) = SumFunction(f) - f[n] + h[n]
      BY <1>3, <2>1, <2>2, SumChange
    <2> QED BY <2>3, <2>4, <2>5
  <1>6. Units(l, HoldsUnits)' = Units(l, HoldsUnits)
              - Amount(HoldsUnits(order[n]), order[n].items[l])
              + Amount(HoldsUnits(row), row.items[l])
    <2> DEFINE f == [o \in Orders |-> IF HoldsUnits(order[o]) THEN order[o].items[l] ELSE 0]
               h == [o \in Orders |-> IF HoldsUnits(order'[o]) THEN order'[o].items[l] ELSE 0]
    <2>1. f \in [Orders -> Int] /\ h \in [Orders -> Int]
      BY <1>1
    <2>2. \A o \in Orders \ {n} : h[o] = f[o]
      BY <1>2
    <2>3. /\ f[n] = Amount(HoldsUnits(order[n]), order[n].items[l])
          /\ h[n] = Amount(HoldsUnits(row), row.items[l])
      BY <1>2 DEF Amount
    <2>4. Units(l, HoldsUnits) = SumFunction(f) /\ Units(l, HoldsUnits)' = SumFunction(h)
      BY DEF Units
    <2> HIDE DEF f, h
    <2>5. SumFunction(h) = SumFunction(f) - f[n] + h[n]
      BY <1>3, <2>1, <2>2, SumChange
    <2> QED BY <2>3, <2>4, <2>5
  <1> QED BY <1>4, <1>5, <1>6

\* A commit leaves the figures of a listing and the claims of its order alone, ...
Kept(l, old, row) ==
    /\ /\ listing'[l].stock = listing[l].stock
       /\ listing'[l].reserved = listing[l].reserved
       /\ listing'[l].variant = listing[l].variant
    /\ row.deducted = old.deducted
    /\ HoldsReservation(old) => HoldsReservation(row)
    /\ row.status = "cancelled" => old.status = "cancelled"

\* ... or takes its units off the shelf, ...
Taken(l, old, row) ==
    /\ TakenOff(l, listing[l], listing'[l], old.items[l])
    /\ ~old.deducted /\ row.deducted /\ row.status = old.status

\* ... or gives them back, from where they are.
GivenBack(l, old, row) ==
    /\ ~row.deducted /\ ~HoldsReservation(row)
    /\ IF old.deducted THEN PutBack(l, listing[l], listing'[l], old.items[l])
                       ELSE Released(l, listing[l], listing'[l], old.items[l])

\* Restoring an order, for a cancellation or a refund, moves its units back.
LEMMA RestoredMoves ==
  ASSUME NEW row \in OrderRow, listing \in Rows, NEW seen \in Items,
         NEW l \in Tracked, l \in Listings, listing' = Restored(row, listing, seen)
  PROVE  IF row.deducted THEN PutBack(l, listing[l], listing'[l], row.items[l])
                         ELSE Released(l, listing[l], listing'[l], row.items[l])
  <1>1. row.items \in Items
    BY DEF OrderRow, Items
  <1> QED
    BY <1>1, ItemMoves DEF Restored

\* Every commit is one of the three, whatever happened since its snapshot.
LEMMA CommitMoves ==
  ASSUME TypeOK, CancelInv, PlacedInv, NEW r \in open, Commit(r),
         NEW l \in Tracked, l \in Listings
  PROVE  \E row \in OrderRow :
            /\ order' = [order EXCEPT ![r.name] = row]
            /\ row.items = order[r.name].items
            /\ received' = received
            /\ \/ Kept(l, order[r.name], row)
               \/ Taken(l, order[r.name], row)
               \/ GivenBack(l, order[r.name], row)
  <1> DEFINE old == order[r.name]
             Goal(row) == /\ order' = [order EXCEPT ![r.name] = row]
                          /\ row.items = old.items
                          /\ received' = received
                          /\ Kept(l, old, row) \/ Taken(l, old, row) \/ GivenBack(l, old, row)
  <1>a. /\ order \in [Orders -> OrderRow] /\ r.name \in Orders
        /\ old \in OrderRow /\ r.snap \in OrderRow /\ r.seen \in Items
        /\ listing \in Rows /\ old.items \in Items
    BY DEF TypeOK, Request, Rows, Items, OrderRow
  <1>b. old.status # "none" /\ old.status \in Status
    BY <1>a DEF PlacedInv, OrderRow
  <1> SUFFICES \E row \in OrderRow : Goal(row)
    OBVIOUS
  <1>1. CASE CancelOrder(r)
    <2> DEFINE row == [r.snap EXCEPT !.status = "cancelled", !.deducted = FALSE]
    <2>1. row \in OrderRow /\ row.status = "cancelled" /\ ~row.deducted /\ row.items = r.snap.items
      BY <1>a DEF OrderRow, Status
    <2>2. r.snap = old
      BY <1>1 DEF CancelOrder, CancelInv
    <2>3. /\ order' = [order EXCEPT ![r.name] = row] /\ received' = received
          /\ listing' = Restored(old, listing, r.seen)
      BY <1>1, <2>2 DEF CancelOrder
    <2> HIDE DEF row
    <2>4. GivenBack(l, old, row)
      BY <1>a, <2>1, <2>3, RestoredMoves DEF GivenBack, HoldsReservation
    <2> QED BY <2>1, <2>2, <2>3, <2>4
  <1>2. CASE SubmitRemittance(r)
    <2> DEFINE row == [old EXCEPT !.remitted = TRUE, !.deducted = TRUE]
    <2>1. /\ row \in OrderRow /\ row.deducted /\ row.items = old.items
          /\ row.status = old.status /\ row.refund = old.refund
      BY <1>a DEF OrderRow
    <2>2. order' = [order EXCEPT ![r.name] = row] /\ received' = received
      BY <1>2, <1>a DEF SubmitRemittance, OrderRow
    <2>3. CASE old.deducted
      <3>1. listing' = listing
        BY <1>2, <2>3 DEF SubmitRemittance
      <3> HIDE DEF row
      <3>2. Kept(l, old, row)
        BY <1>a, <2>1, <2>3, <3>1 DEF Kept, HoldsReservation, OrderRow
      <3> QED BY <2>1, <2>2, <3>2
    <2>4. CASE ~old.deducted
      <3>1. listing' = OnItems(DeductItem, old.items, listing, r.seen)
        BY <1>2, <2>4 DEF SubmitRemittance
      <3>2. TakenOff(l, listing[l], listing'[l], old.items[l])
        BY <1>a, <3>1, ItemMoves
      <3> HIDE DEF row
      <3>3. Taken(l, old, row)
        BY <2>1, <2>4, <3>2 DEF Taken
      <3> QED BY <2>1, <2>2, <3>3
    <2> QED BY <2>3, <2>4
  <1>3. ASSUME NEW row \in OrderRow, order' = [order EXCEPT ![r.name] = row],
               listing' = listing, received' = received,
               row.deducted = old.deducted, row.items = old.items,
               row.status \in {old.status, "confirmed", "shipped"},
               row.refund \in {old.refund, "pending", "rejected"}
        PROVE  Goal(row)
    <2>1. HoldsReservation(old) => HoldsReservation(row)
      BY <1>3 DEF HoldsReservation
    <2> QED BY <1>3, <2>1 DEF Kept
  <1>4. CASE SellerConfirmPayment(r)
    <2> DEFINE row == [old EXCEPT !.status = "confirmed"]
    <2>1. /\ row \in OrderRow /\ row.deducted = old.deducted /\ row.items = old.items
          /\ row.status = "confirmed" /\ row.refund = old.refund
      BY <1>a DEF OrderRow, Status
    <2>2. order' = [order EXCEPT ![r.name] = row] /\ received' = received /\ listing' = listing
      BY <1>4, <1>a DEF SellerConfirmPayment, OrderRow
    <2> HIDE DEF row
    <2> QED BY <1>3, <2>1, <2>2
  <1>5. CASE SellerShipOrder(r)
    <2> DEFINE row == [old EXCEPT !.status = "shipped"]
    <2>1. /\ row \in OrderRow /\ row.deducted = old.deducted /\ row.items = old.items
          /\ row.status = "shipped" /\ row.refund = old.refund
      BY <1>a DEF OrderRow, Status
    <2>2. order' = [order EXCEPT ![r.name] = row] /\ received' = received /\ listing' = listing
      BY <1>5, <1>a DEF SellerShipOrder, OrderRow
    <2> HIDE DEF row
    <2> QED BY <1>3, <2>1, <2>2
  <1>6. CASE SubmitRefundRequest(r)
    <2> DEFINE n   == IF r.snap.refundTx = 0 THEN old.refundTx + 1 ELSE old.refundTx
               row == [old EXCEPT !.refund = "pending", !.refundTx = n]
    <2>1. n \in Nat
      BY <1>a DEF OrderRow
    <2>2. /\ row \in OrderRow /\ row.deducted = old.deducted /\ row.items = old.items
          /\ row.status = old.status /\ row.refund = "pending"
      <3> HIDE DEF n
      <3> QED BY <1>a, <2>1 DEF OrderRow, Refund
    <2>3. order' = [order EXCEPT ![r.name] = row] /\ received' = received /\ listing' = listing
      BY <1>6, <1>a DEF SubmitRefundRequest, OrderRow
    <2> HIDE DEF row
    <2> QED BY <1>3, <2>2, <2>3
  <1>7. CASE SellerHandleRefund(r)
    <2>1. CASE /\ listing' = Restored(old, listing, r.seen)
               /\ order' = [order EXCEPT ![r.name].refund = "approved",
                                         ![r.name].deducted = FALSE]
      <3> DEFINE row == [old EXCEPT !.refund = "approved", !.deducted = FALSE]
      <3>1. row \in OrderRow /\ row.items = old.items /\ ~row.deducted /\ row.refund = "approved"
        BY <1>a DEF OrderRow, Refund
      <3>2. order' = [order EXCEPT ![r.name] = row] /\ received' = received
        BY <1>7, <2>1, <1>a DEF SellerHandleRefund, OrderRow
      <3> HIDE DEF row
      <3>3. GivenBack(l, old, row)
        BY <1>a, <2>1, <3>1, RestoredMoves DEF GivenBack, HoldsReservation
      <3> QED BY <3>1, <3>2, <3>3
    <2>2. CASE order' = [order EXCEPT ![r.name].refund = "rejected"] /\ listing' = listing
      <3> DEFINE row == [old EXCEPT !.refund = "rejected"]
      <3>1. /\ row \in OrderRow /\ row.deducted = old.deducted /\ row.items = old.items
            /\ row.status = old.status /\ row.refund = "rejected"
        BY <1>a DEF OrderRow, Refund
      <3>2. order' = [order EXCEPT ![r.name] = row] /\ received' = received
        BY <1>7, <2>2, <1>a DEF SellerHandleRefund, OrderRow
      <3> HIDE DEF row
      <3> QED BY <1>3, <2>2, <3>1, <3>2
    <2> QED
      BY <1>7, <2>1, <2>2 DEF SellerHandleRefund
  <1> QED
    BY <1>1, <1>2, <1>4, <1>5, <1>6, <1>7 DEF Commit

\* What is said of the figures of a tracked listing: no reservation has outlived
\* its order, no unit has left the shelf or the variation row unaccounted for
Balanced(l) ==
    /\ listing[l].reserved <= Units(l, HoldsReservation)
    /\ listing[l].stock + Units(l, OffShelf) >= received[l]
    /\ l \in Varied => listing[l].variant + Units(l, HoldsUnits) >= InitVariant

\* The sums over an order table are natural numbers.
LEMMA UnitsType ==
  ASSUME NEW table \in [Orders -> OrderRow], NEW l \in Listings
  PROVE  /\ SumFunction([o \in Orders |-> IF HoldsReservation(table[o]) THEN table[o].items[l] ELSE 0]) \in Nat
         /\ SumFunction([o \in Orders |-> IF OffShelf(table[o]) THEN table[o].items[l] ELSE 0]) \in Nat
         /\ SumFunction([o \in Orders |-> IF HoldsUnits(table[o]) THEN table[o].items[l] ELSE 0]) \in Nat
  <1> DEFINE f == [o \in Orders |-> IF HoldsReservation(table[o]) THEN table[o].items[l] ELSE 0]
             g == [o \in Orders |-> IF OffShelf(table[o]) THEN table[o].items[l] ELSE 0]
             h == [o \in Orders |-> IF HoldsUnits(table[o]) THEN table[o].items[l] ELSE 0]
  <1>1. f \in [Orders -> Nat] /\ g \in [Orders -> Nat] /\ h \in [Orders -> Nat]
    BY DEF OrderRow
  <1>2. IsFiniteSet(Orders)
    BY OrderStockAssumption
  <1> HIDE DEF f, g, h
  <1>3. SumFunction(f) \in Nat /\ SumFunction(g) \in Nat /\ SumFunction(h) \in Nat
    BY <1>1, <1>2, SumNat
  <1> QED BY <1>3 DEF f, g, h

\* A commit keeps the ledger balanced, whatever was committed since its snapshot.
LEMMA CommitBalanced ==
  ASSUME TypeOK, CancelInv, PlacedInv, NEW r \in open, Commit(r),
         NEW l \in Tracked, l \in Listings, Balanced(l)
  PROVE  Balanced(l)'
  <1> DEFINE old == order[r.name]
             q   == old.items[l]
  <1>1. PICK row \in OrderRow :
            /\ order' = [order EXCEPT ![r.name] = row]
            /\ row.items = old.items
            /\ received' = received
            /\ Kept(l, old, row) \/ Taken(l, old, row) \/ GivenBack(l, old, row)
    BY CommitMoves
  <1>2. /\ order \in [Orders -> OrderRow] /\ r.name \in Orders /\ old \in OrderRow
        /\ q \in Nat /\ listing[l] \in ListingRow /\ received[l] \in Int
    BY DEF TypeOK, Request, OrderRow
  <1>3. /\ listing[l].reserved \in Nat /\ listing[l].stock \in Nat /\ listing[l].variant \in Nat
        /\ InitVariant \in Nat
    BY <1>2, OrderStockAssumption DEF ListingRow
  <1> DEFINE held   == Units(l, HoldsReservation)
             taken  == Units(l, OffShelf)
             both   == Units(l, HoldsUnits)
  <1>4. /\ held' = held - Amount(HoldsReservation(old), q) + Amount(HoldsReservation(row), q)
        /\ taken' = taken - Amount(OffShelf(old), q) + Amount(OffShelf(row), q)
        /\ both' = both - Amount(HoldsUnits(old), q) + Amount(HoldsUnits(row), q)
    BY <1>1, <1>2, UnitsChange
  <1>5. /\ held \in Nat /\ taken \in Nat /\ both \in Nat
        /\ held' \in Nat /\ taken' \in Nat /\ both' \in Nat
    <2>1. order' \in [Orders -> OrderRow]
      BY <1>1, <1>2
    <2> QED BY <1>2, <2>1, UnitsType DEF Units
  <1>6. \A b \in BOOLEAN : Amount(b, q) \in 0..q
    BY <1>2 DEF Amount
  <1>7. /\ HoldsReservation(old) \in BOOLEAN /\ HoldsReservation(row) \in BOOLEAN
        /\ HoldsUnits(old) \in BOOLEAN /\ HoldsUnits(row) \in BOOLEAN
        /\ OffShelf(old) \in BOOLEAN /\ OffShelf(row) \in BOOLEAN
    BY <1>2 DEF HoldsReservation, HoldsUnits, Deducted, OffShelf, OrderRow
  <1> HIDE DEF q, held, taken, both
  <1>8. listing'[l] \in ListingRow
    BY NextType DEF TypeOK, Next
  <1>9. CASE Kept(l, old, row)
    <2>1. /\ HoldsReservation(old) => HoldsReservation(row)
          /\ HoldsUnits(old) => HoldsUnits(row)
          /\ OffShelf(old) = OffShelf(row)
      BY <1>9 DEF Kept, HoldsUnits, Deducted, OffShelf
    <2>2. held' >= held /\ taken' = taken /\ both' >= both
      BY <1>2, <1>4, <1>5, <1>7, <2>1 DEF Amount
    <2>3. /\ listing'[l].stock = listing[l].stock
          /\ listing'[l].reserved = listing[l].reserved
          /\ listing'[l].variant = listing[l].variant
      BY <1>9 DEF Kept
    <2> QED
      BY <1>1, <1>2, <1>3, <1>5, <2>2, <2>3 DEF Balanced, held, taken, both
  <1>10. CASE Taken(l, old, row)
    <2>1. /\ Amount(HoldsReservation(row), q) = 0 /\ Amount(OffShelf(old), q) = 0
          /\ Amount(OffShelf(row), q) = q
          /\ HoldsUnits(old) => HoldsUnits(row)
      BY <1>10 DEF Taken, HoldsReservation, HoldsUnits, Deducted, OffShelf, Amount
    <2>2. held' >= held - q /\ taken' = taken + q
      BY <1>2, <1>4, <1>5, <1>6, <1>7, <2>1
    <2>5. both' >= both
      BY <1>2, <1>4, <1>5, <1>7, <2>1 DEF Amount
    <2>3. /\ listing'[l].stock >= listing[l].stock - q
          /\ listing'[l].reserved \in {0, listing[l].reserved - q}
          /\ listing'[l].variant = listing[l].variant
      BY <1>10 DEF Taken, TakenOff, Clamp, q
    <2>4. listing'[l].stock \in Nat
      BY <1>8 DEF ListingRow
    <2> QED
      BY <1>1, <1>2, <1>3, <1>5, <2>2, <2>3, <2>4, <2>5 DEF Balanced, held, taken, both
  <1>11. CASE GivenBack(l, old, row)
    <2>1. /\ Amount(HoldsReservation(row), q) = 0 /\ Amount(OffShelf(row), q) = 0
          /\ Amount(HoldsUnits(row), q) = 0
      BY <1>11 DEF GivenBack, HoldsReservation, HoldsUnits, Deducted, OffShelf, Amount
    <2>2. both' >= both - q
      BY <1>2, <1>4, <1>5, <1>6, <1>7, <2>1
    <2>3. CASE old.deducted
      <3>1. held' = held /\ taken' = taken - q
        BY <1>2, <1>4, <1>5, <2>1, <2>3 DEF HoldsReservation, Deducted, OffShelf, Amount
      <3>2. PutBack(l, listing[l], listing'[l], q)
        BY <1>11, <2>3 DEF GivenBack, q
      <3> QED
        BY <1>1, <1>2, <1>3, <1>5, <1>8, <2>2, <3>1, <3>2
           DEF Balanced, held, taken, both, PutBack, ListingRow
    <2>4. CASE ~old.deducted
      <3>1. held' >= held - q /\ taken' = taken
        BY <1>2, <1>4, <1>5, <1>6, <1>7, <2>1, <2>4 DEF OffShelf, Amount
      <3>2. Released(l, listing[l], listing'[l], q)
        BY <1>11, <2>4 DEF GivenBack, q
      <3>3. listing'[l].reserved \in {0, listing[l].reserved - q}
        BY <3>2 DEF Released, Clamp
      <3> QED
        BY <1>1, <1>2, <1>3, <1>5, <1>8, <2>2, <3>1, <3>2, <3>3
           DEF Balanced, held, taken, both, Released, ListingRow
    <2> QED BY <2>3, <2>4
  <1> QED BY <1>1, <1>9, <1>10, <1>11
\* A checkout keeps the ledger balanced: what it sets aside or takes is what its
\* order holds or has taken.
LEMMA CreateBalanced ==
  ASSUME TypeOK, UnplacedInv, NEW o \in Orders, NEW items \in Baskets,
         NEW instant \in BOOLEAN, CreateOrder(o, items, instant),
         NEW l \in Tracked, l \in Listings, Balanced(l)
  PROVE  Balanced(l)'
  <1> DEFINE q   == items[l]
             row == [status |-> IF instant THEN "confirmed" ELSE "awaiting",
                     deducted |-> instant, remitted |-> FALSE,
                     refund |-> "none", refundTx |-> 0, items |-> items]
             aside == OnItems(ReserveItem, items, listing, View(listing))
             held  == Units(l, HoldsReservation)
             taken == Units(l, OffShelf)
             both  == Units(l, HoldsUnits)
  <1>1. items \in Items /\ q \in Nat
    BY OrderStockAssumption DEF Items
  <1>2. /\ order \in [Orders -> OrderRow] /\ listing \in Rows /\ View(listing) \in Items
        /\ aside \in Rows
    BY <1>1, ViewType, OnItemsType DEF TypeOK, Rows
  <1>3. /\ row \in OrderRow /\ row.items = items /\ row.deducted = instant
        /\ row.status \in {"confirmed", "awaiting"} /\ row.refund = "none"
    BY <1>1 DEF OrderRow, Status, Refund, Items
  <1>4. /\ order' = [order EXCEPT ![o] = row] /\ received' = received
        /\ listing' = IF instant THEN OnItems(DeductItem, items, aside, View(listing)) ELSE aside
        /\ order[o].status = "none" /\ ~order[o].deducted
    BY DEF CreateOrder, UnplacedInv
  <1>5. SetAside(l, listing[l], aside[l], q)
    BY <1>1, <1>2, ItemMoves
  <1>6. instant => TakenOff(l, aside[l], listing'[l], q)
    <2> HIDE DEF aside, q
    <2> QED BY <1>1, <1>2, <1>4, ItemMoves DEF q
  <1>7. listing[l] \in ListingRow /\ aside[l] \in ListingRow /\ listing'[l] \in ListingRow
    <2>1. TypeOK'
      BY NextType DEF Next
    <2> HIDE DEF aside
    <2> QED BY <1>2, <2>1 DEF TypeOK, Rows
  <1> HIDE DEF row, aside
  <1>8. /\ ~HoldsReservation(order[o]) /\ ~OffShelf(order[o]) /\ ~HoldsUnits(order[o])
        /\ HoldsReservation(row) = ~instant /\ OffShelf(row) = instant /\ HoldsUnits(row)
    BY <1>3, <1>4 DEF HoldsReservation, Deducted, OffShelf, HoldsUnits
  <1>9. /\ held \in Nat /\ taken \in Nat /\ both \in Nat
        /\ held' \in Nat /\ taken' \in Nat /\ both' \in Nat
    <2>1. order' \in [Orders -> OrderRow]
      BY <1>2, <1>3, <1>4
    <2> QED BY <1>2, <2>1, UnitsType DEF Units
  <1>10. /\ held' = held - Amount(HoldsReservation(order[o]), order[o].items[l])
                 + Amount(HoldsReservation(row), q)
         /\ taken' = taken - Amount(OffShelf(order[o]), order[o].items[l])
                 + Amount(OffShelf(row), q)
         /\ both' = both - Amount(HoldsUnits(order[o]), order[o].items[l])
                 + Amount(HoldsUnits(row), q)
    BY <1>2, <1>3, <1>4, UnitsChange
  <1> HIDE DEF held, taken, both, q
  <1>11. /\ both' = both + q
         /\ instant => held' = held /\ taken' = taken + q
         /\ ~instant => held' = held + q /\ taken' = taken
    <2>1. /\ Amount(HoldsReservation(order[o]), order[o].items[l]) = 0
          /\ Amount(OffShelf(order[o]), order[o].items[l]) = 0
          /\ Amount(HoldsUnits(order[o]), order[o].items[l]) = 0
          /\ Amount(HoldsUnits(row), q) = q
          /\ instant => Amount(HoldsReservation(row), q) = 0 /\ Amount(OffShelf(row), q) = q
          /\ ~instant => Amount(HoldsReservation(row), q) = q /\ Amount(OffShelf(row), q) = 0
      BY <1>8 DEF Amount
    <2> QED BY <1>1, <1>9, <1>10, <2>1
  <1>12. /\ listing[l].stock \in Nat /\ listing[l].reserved \in Nat /\ listing[l].variant \in Nat
         /\ aside[l].stock = listing[l].stock /\ aside[l].reserved = listing[l].reserved + q
         /\ l \in Varied => aside[l].variant >= listing[l].variant - q
         /\ aside[l].variant \in Nat /\ listing'[l].variant \in Nat /\ listing'[l].stock \in Nat
         /\ received[l] \in Int /\ InitVariant \in Nat
    BY <1>5, <1>7, OrderStockAssumption DEF SetAside, ListingRow, TypeOK
  <1>13. CASE instant
    <2>1. /\ listing'[l].stock >= listing[l].stock - q
          /\ listing'[l].reserved = listing[l].reserved
          /\ listing'[l].variant = aside[l].variant
      BY <1>1, <1>6, <1>12, <1>13 DEF TakenOff, Clamp
    <2> QED
      BY <1>1, <1>4, <1>9, <1>11, <1>12, <1>13, <2>1 DEF Balanced, held, taken, both
  <1>14. CASE ~instant
    <2>1. listing'[l] = aside[l]
      BY <1>4, <1>14
    <2> QED
      BY <1>1, <1>4, <1>9, <1>11, <1>12, <1>14, <2>1 DEF Balanced, held, taken, both
  <1> QED BY <1>13, <1>14

\* The seller's absolute figure keeps the ledger balanced: it is counted as
\* received or taken back, whatever is reserved.
LEMMA SetsStockBalanced ==
  ASSUME TypeOK, NEW k \in Listings, NEW n \in SellerCounts, SellerSetsStock(k, n),
         NEW l \in Tracked, l \in Listings, Balanced(l)
  PROVE  Balanced(l)'
  <1> DEFINE counted == [listing[k] EXCEPT !.stock = n]
             new == Recalculated(counted, listing[k], View(listing)[k])
  <1>1. listing[k] \in ListingRow /\ listing[l] \in ListingRow /\ n \in Nat
    BY OrderStockAssumption DEF TypeOK
  <1>2. /\ counted.stock = n /\ counted.reserved = listing[k].reserved
        /\ counted.variant = listing[k].variant
    BY <1>1 DEF ListingRow
  <1>3. counted \in ListingRow
    BY <1>1 DEF ListingRow
  <1>4. new.stock = n /\ new.reserved = listing[k].reserved /\ new.variant = listing[k].variant
    <2> HIDE DEF counted
    <2> QED BY <1>2, <1>3 DEF Recalculated, ListingRow
  <1>5. /\ listing' = [listing EXCEPT ![k] = new] /\ order' = order
        /\ received' = [received EXCEPT ![k] = received[k] + n - listing[k].stock]
    BY DEF SellerSetsStock
  <1> HIDE DEF counted, new
  <1>6. /\ listing'[l].reserved = listing[l].reserved
        /\ listing'[l].variant = listing[l].variant
    BY <1>1, <1>4, <1>5 DEF TypeOK
  <1>7. listing'[l].stock - received'[l] = listing[l].stock - received[l]
        /\ listing'[l].stock \in Nat /\ received'[l] \in Int
    <2>1. CASE l = k
      BY <1>1, <1>4, <1>5, <2>1 DEF TypeOK, ListingRow
    <2>2. CASE l # k
      BY <1>1, <1>5, <2>2 DEF TypeOK, ListingRow
    <2> QED BY <2>1, <2>2
  <1>8. Units(l, OffShelf) \in Nat
    BY UnitsType DEF Units, TypeOK
  <1>9. /\ Units(l, HoldsReservation)' = Units(l, HoldsReservation)
        /\ Units(l, OffShelf)' = Units(l, OffShelf)
        /\ Units(l, HoldsUnits)' = Units(l, HoldsUnits)
    BY <1>5 DEF Units
  <1>10. listing[l].stock \in Nat /\ received[l] \in Int
    BY <1>1 DEF TypeOK, ListingRow
  <1> QED
    BY <1>6, <1>7, <1>8, <1>9, <1>10 DEF Balanced

LedgerInv == \A l \in Tracked : Balanced(l)

\* Only a checkout gives out a name, and no commit takes one back.
LEMMA UnplacedInvStep ==
  TypeOK /\ CancelInv /\ PlacedInv /\ UnplacedInv /\ [Next]_vars => UnplacedInv'
  <1> SUFFICES ASSUME TypeOK, CancelInv, PlacedInv, UnplacedInv, [Next]_vars
               PROVE  UnplacedInv'
    OBVIOUS
  <1>a. order \in [Orders -> OrderRow] /\ \A r \in open : r.name \in Orders
    BY DEF TypeOK, Request
  <1>1. ASSUME NEW o \in Orders, NEW items \in Baskets, NEW instant \in BOOLEAN,
               CreateOrder(o, items, instant)
        PROVE  UnplacedInv'
    BY <1>1, <1>a DEF CreateOrder, UnplacedInv
  <1>2. ASSUME NEW r \in open, Commit(r)
        PROVE  UnplacedInv'
    <2>1. PICK row \in OrderRow :
              order' = [order EXCEPT ![r.name] = row] /\ Writes(r, row)
      BY <1>2, CommitWrites
    <2>2. row.status # "none"
      BY <2>1 DEF Writes, PlacedInv
    <2> QED
      BY <1>a, <2>1, <2>2 DEF UnplacedInv
  <1>3. CASE order' = order
    BY <1>3 DEF UnplacedInv
  <1> QED
    BY <1>1, <1>2, <1>3 DEF Next, Begin, Abort, SellerSetsStock, vars

\* Every step leaves the ledger of a tracked listing balanced.
LEMMA LedgerInvStep ==
  TypeOK /\ CancelInv /\ PlacedInv /\ UnplacedInv /\ LedgerInv /\ [Next]_vars => LedgerInv'
  <1> SUFFICES ASSUME TypeOK, CancelInv, PlacedInv, UnplacedInv, [Next]_vars,
                      NEW l \in Tracked, Balanced(l)
               PROVE  Balanced(l)'
    BY DEF LedgerInv
  <1>a. l \in Listings
    BY OrderStockAssumption
  <1>1. ASSUME NEW o \in Orders, NEW items \in Baskets, NEW instant \in BOOLEAN,
               CreateOrder(o, items, instant)
        PROVE  Balanced(l)'
    BY <1>a, <1>1, CreateBalanced
  <1>2. ASSUME NEW r \in open, Commit(r)
        PROVE  Balanced(l)'
    BY <1>a, <1>2, CommitBalanced
  <1>3. ASSUME NEW k \in Listings, NEW n \in SellerCounts, SellerSetsStock(k, n)
        PROVE  Balanced(l)'
    BY <1>a, <1>3, SetsStockBalanced
  <1>4. CASE UNCHANGED <<order, listing, received>>
    BY <1>4 DEF Balanced, Units
  <1> QED
    BY <1>1, <1>2, <1>3, <1>4 DEF Next, Begin, Abort, vars

\* Before any order everything received is on the shelf.
LEMMA InitLedger == Init => UnplacedInv /\ LedgerInv
  <1> SUFFICES ASSUME Init, NEW l \in Tracked PROVE UnplacedInv /\ Balanced(l)
    BY DEF LedgerInv, Init, UnplacedInv, NoRow
  <1>1. /\ l \in Listings /\ InitStock \in Nat /\ InitVariant \in Nat
        /\ order \in [Orders -> OrderRow]
    BY InitType, OrderStockAssumption DEF TypeOK
  <1>2. /\ Units(l, HoldsReservation) \in Nat
        /\ Units(l, OffShelf) \in Nat
        /\ Units(l, HoldsUnits) \in Nat
    BY <1>1, UnitsType DEF Units
  <1>3. /\ listing[l].stock = InitStock /\ listing[l].reserved = 0
        /\ listing[l].variant = InitVariant /\ received[l] = InitStock
    BY <1>1 DEF Init
  <1>4. Balanced(l)
    BY <1>1, <1>2, <1>3 DEF Balanced
  <1> QED
    BY <1>4 DEF Init, UnplacedInv, NoRow

LEMMA LedgerInductive == Spec => []LedgerInv
  <1>1. Init => PlacedInv
    BY DEF Init, PlacedInv, NoRow
  <1>2. IInv /\ PlacedInv /\ [Next]_vars => PlacedInv'
    BY PlacedInvStep DEF IInv
  <1>3. IInv /\ PlacedInv /\ UnplacedInv /\ [Next]_vars => UnplacedInv'
    BY UnplacedInvStep DEF IInv
  <1>4. IInv /\ PlacedInv /\ UnplacedInv /\ LedgerInv /\ [Next]_vars => LedgerInv'
    BY LedgerInvStep DEF IInv
  <1> QED
    BY <1>1, <1>2, <1>3, <1>4, InitLedger, Inductive, PTL DEF Spec

\* Whatever cancellations, remittances and refunds race, what is still reserved of a
\* listing is owed to an order that holds a reservation: none leaks.
THEOREM NoReservationLeaks == Spec => []NoLeakedReservation
  <1>1. LedgerInv => NoLeakedReservation
    BY DEF LedgerInv, Balanced, NoLeakedReservation
  <1> QED
    BY <1>1, LedgerInductive, PTL

-----------------------------------------------------------------------------
(* Where remittances and cancellations of one order do not overlap         *)

\* A remittance in flight has not been overtaken by a cancellation, ...
RemitInv ==
    \A r \in open : r.handler = "remit" => order[r.name].status # "cancelled"

\* ... so no cancelled order is paid.
CancelledInv ==
    \A o \in Orders : order[o].status = "cancelled" => ~order[o].deducted

\* Only a cancellation cancels, and none is open beside a remittance of its order.
LEMMA RemitInvStep ==
  TypeOK /\ CancelInv /\ RemittanceApart /\ RemitInv /\ [Next]_vars => RemitInv'
  <1> SUFFICES ASSUME TypeOK, CancelInv, RemittanceApart, RemitInv, [Next]_vars
               PROVE  RemitInv'
    OBVIOUS
  <1>a. /\ order \in [Orders -> OrderRow]
        /\ \A r \in open : r \in Request /\ r.name \in Orders
    BY DEF TypeOK, Request
  <1>1. ASSUME NEW o \in Orders, NEW items \in Baskets, NEW instant \in BOOLEAN,
               CreateOrder(o, items, instant)
        PROVE  RemitInv'
    BY <1>1, <1>a DEF CreateOrder, RemitInv
  <1>2. ASSUME NEW s \in Sessions, NEW h \in Handler, NEW o \in Orders, Begin(s, h, o)
        PROVE  RemitInv'
    <2>1. Admits(h, order[o]) /\ h = "remit" => order[o].status # "cancelled"
      BY DEF Admits, RemitAdmits
    <2> QED
      BY <1>2, <2>1 DEF Begin, RemitInv
  <1>3. ASSUME NEW r \in open, Commit(r)
        PROVE  RemitInv'
    <2>1. open' = Touched(r) \/ open' = open \ {r}
      BY <1>3 DEF Commit, CancelOrder, SubmitRemittance, SellerConfirmPayment,
                  SellerShipOrder, SubmitRefundRequest, SellerHandleRefund
    <2>2. \A q \in open' : \E p \in open : q.handler = p.handler /\ q.name = p.name
      BY <2>1, TouchedRequests
    <2>3. ASSUME NEW p \in open, p.handler = "remit"
          PROVE  order'[p.name].status # "cancelled"
      <3>1. p.name \in Orders /\ order[p.name].status # "cancelled"
        BY <1>a, <2>3 DEF RemitInv
      <3>2. CASE r.handler = "cancel"
        <4>1. r.name # p.name
          BY <2>3, <3>2 DEF RemittanceApart
        <4>2. order'[p.name] = order[p.name]
          BY <1>3, <1>a, <3>1, <4>1, CommitWrites
        <4> QED
          BY <3>1, <4>2
      <3>3. CASE r.handler # "cancel"
        <4>1. PICK row \in OrderRow :
                  order' = [order EXCEPT ![r.name] = row] /\ Writes(r, row)
          BY <1>3, CommitWrites
        <4>2. row.status \in {order[r.name].status, "confirmed", "shipped"}
          BY <3>3, <4>1 DEF Writes
        <4> QED
          BY <1>a, <3>1, <4>1, <4>2
      <3> QED BY <3>2, <3>3
    <2> QED
      BY <2>2, <2>3 DEF RemitInv
  <1>4. ASSUME NEW r \in open, Abort(r)
        PROVE  RemitInv'
    BY <1>4 DEF Abort, RemitInv
  <1>5. ASSUME NEW l \in Listings, NEW n \in SellerCounts, SellerSetsStock(l, n)
        PROVE  RemitInv'
    BY <1>5 DEF SellerSetsStock, RemitInv
  <1>6. CASE UNCHANGED vars
    BY <1>6 DEF vars, RemitInv
  <1> QED
    BY <1>1, <1>2, <1>3, <1>4, <1>5, <1>6 DEF Next

\* A cancellation clears the flag, and only a remittance and an instant payment set it.
LEMMA CancelledInvStep ==
  TypeOK /\ RemitInv /\ CancelledInv /\ [Next]_vars => CancelledInv'
  <1> SUFFICES ASSUME TypeOK, RemitInv, CancelledInv, [Next]_vars PROVE CancelledInv'
    OBVIOUS
  <1>a. /\ order \in [Orders -> OrderRow]
        /\ \A r \in open : r \in Request /\ r.name \in Orders /\ r.snap \in OrderRow
    BY DEF TypeOK, Request
  <1>1. ASSUME NEW o \in Orders, NEW items \in Baskets, NEW instant \in BOOLEAN,
               CreateOrder(o, items, instant)
        PROVE  CancelledInv'
    BY <1>1, <1>a DEF CreateOrder, CancelledInv
  <1>2. ASSUME NEW r \in open, Commit(r)
        PROVE  CancelledInv'
    <2>1. CASE CancelOrder(r)
      <3> DEFINE row == [r.snap EXCEPT !.status = "cancelled", !.deducted = FALSE]
      <3>1. order' = [order EXCEPT ![r.name] = row] /\ ~row.deducted
        BY <1>a, <2>1 DEF CancelOrder, OrderRow
      <3> HIDE DEF row
      <3> QED BY <1>a, <3>1 DEF CancelledInv
    <2>2. CASE SubmitRemittance(r)
      <3>1. order[r.name].status # "cancelled"
        BY <2>2 DEF SubmitRemittance, RemitInv
      <3> QED
        BY <1>a, <2>2, <3>1 DEF SubmitRemittance, CancelledInv, OrderRow
    <2>3. CASE SellerConfirmPayment(r)
      BY <1>a, <2>3 DEF SellerConfirmPayment, CancelledInv, OrderRow
    <2>4. CASE SellerShipOrder(r)
      BY <1>a, <2>4 DEF SellerShipOrder, CancelledInv, OrderRow
    <2>5. CASE SubmitRefundRequest(r)
      BY <1>a, <2>5 DEF SubmitRefundRequest, CancelledInv, OrderRow
    <2>6. CASE SellerHandleRefund(r)
      <3>1. \A o \in Orders : /\ order'[o].status = order[o].status
                              /\ order'[o].deducted => order[o].deducted
        <4>1. CASE order' = [order EXCEPT ![r.name].refund = "approved",
                                          ![r.name].deducted = FALSE]
          BY <1>a, <4>1 DEF OrderRow
        <4>2. CASE order' = [order EXCEPT ![r.name].refund = "rejected"]
          BY <1>a, <4>2 DEF OrderRow
        <4> QED
          BY <2>6, <4>1, <4>2 DEF SellerHandleRefund
      <3> QED
        BY <3>1 DEF CancelledInv
    <2> QED
      BY <1>2, <2>1, <2>2, <2>3, <2>4, <2>5, <2>6 DEF Commit
  <1>3. CASE order' = order
    BY <1>3 DEF CancelledInv
  <1> QED
    BY <1>1, <1>2, <1>3 DEF Next, Begin, Abort, SellerSetsStock, vars

\* As long as no remittance of an order runs beside a cancellation of it, no other
\* race loses a unit: the shelf and what orders that are not cancelled have taken add
\* up to at least what the seller put there.
THEOREM NoStockVanishes == Spec /\ []RemittanceApart => []NoVanishedStock
  <1>1. Init => RemitInv /\ CancelledInv
    BY DEF Init, RemitInv, CancelledInv, NoRow
  <1>2. IInv /\ RemittanceApart /\ RemitInv /\ [Next]_vars => RemitInv'
    BY RemitInvStep DEF IInv
  <1>3. IInv /\ RemitInv /\ CancelledInv /\ [Next]_vars => CancelledInv'
    BY CancelledInvStep DEF IInv
  <1>4. CancelledInv /\ LedgerInv => NoVanishedStock
    <2> SUFFICES ASSUME CancelledInv, LedgerInv, NEW l \in Tracked
                 PROVE  listing[l].stock + Units(l, Deducted) >= received[l]
      BY DEF NoVanishedStock
    <2>1. Units(l, Deducted) = Units(l, OffShelf)
      <3>1. \A o \in Orders : Deducted(order[o]) <=> OffShelf(order[o])
        BY DEF CancelledInv, Deducted, OffShelf
      <3>2. [o \in Orders |-> IF Deducted(order[o]) THEN order[o].items[l] ELSE 0]
              = [o \in Orders |-> IF OffShelf(order[o]) THEN order[o].items[l] ELSE 0]
        BY <3>1
      <3> QED BY <3>2 DEF Units
    <2> QED
      BY <2>1 DEF LedgerInv, Balanced
  <1> QED
    BY <1>1, <1>2, <1>3, <1>4, LedgerInductive, Inductive, PTL DEF Spec

\* No race at all loses a unit of a variation, whose row has no reservation.
THEOREM NoVariantVanishes == Spec => []NoVanishedVariant
  <1>1. LedgerInv => NoVanishedVariant
    BY DEF LedgerInv, Balanced, NoVanishedVariant
  <1> QED
    BY <1>1, LedgerInductive, PTL
=============================================================================
