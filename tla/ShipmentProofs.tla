--------------------------- MODULE ShipmentProofs ---------------------------
(***************************************************************************)
(* Proofs about Shipment, for any number of shipments, units and           *)
(* transactions that run at the same time: its types, that a shipment      *)
(* never goes back, and that an order is exact while nothing overlaps.     *)
(*                                                                         *)
(* The argument: a transaction that may still save a row has it as it is   *)
(* (Fresh), so what was allowed from the snapshot is allowed from the row; *)
(* and as long as nothing has overlapped, the one transaction there is has *)
(* the whole snapshot as it is (Alone), so what it computes from it is     *)
(* what the tables say once it has written, and what fits beside the       *)
(* shipments it read fits beside the shipments there are.                  *)
(***************************************************************************)
EXTENDS Shipment, SumLemmas, TLAPS, FiniteSetTheorems

Fresh(t) ==
    /\ t.kind = "create" => rows[t.name].status = "none"
    /\ t.kind = "update" => t.row = rows[t.name] /\ t.row.status # "none"

\* Nothing has been written, and no event added, since t began
Current(t) ==
    /\ t.taken = Taken(rows)
    /\ t.order = order
    /\ t.row = rows[t.name]
    /\ t.kind = "delete" => t.name \notin told

Alone == calm => /\ \A t, u \in open : t = u
                 /\ \A t \in open : Current(t)
                 /\ OrderExact
                 /\ Units(Taken(rows)) <= Ordered

IInv == TypeOK /\ (\A t \in open : Fresh(t)) /\ Alone

-----------------------------------------------------------------------------
(* Types *)

\* What an order is made to say has the shape of a row of the order.
LEMMA FulfillmentType ==
    ASSUME NEW taken
    PROVE  FulfillmentOf(taken) \in Fulfillment
<1>1. IsFiniteSet({s \in Shipments : taken[s] > 0})
  BY FS_Subset, ShipmentAssumption
<1>2. Cardinality({s \in Shipments : taken[s] > 0}) \in Nat
  BY <1>1, FS_CardinalityType
<1> QED
  BY <1>2 DEF FulfillmentOf, Fulfillment

\* What the shipments of a table take is between nothing and the whole order.
LEMMA TakenType ==
    ASSUME NEW table \in [Shipments -> Row]
    PROVE  Taken(table) \in [Shipments -> 0..Ordered]
BY ShipmentAssumption DEF Taken, Takes, Row

\* A table in which one row is written is a table.
LEMMA WrittenType ==
    ASSUME TypeOK, NEW t \in open, NEW row \in Row, Written(t, row)
    PROVE  rows' \in [Shipments -> Row] /\ open' \subseteq Transaction
BY DEF TypeOK, Written, Transaction

\* What the hook leaves of the order has the shape of a row of the order.
LEMMA RefreshType ==
    ASSUME TypeOK, NEW t \in open, NEW row \in Row, Refresh(t, row)
    PROVE  order' \in Fulfillment
BY FulfillmentType DEF TypeOK, Refresh

\* Types and the freshness of snapshots hold initially.
LEMMA InitInv == Init => IInv
<1> SUFFICES ASSUME Init PROVE IInv
  OBVIOUS
<1>1. NoRow \in Row
  BY ShipmentAssumption DEF NoRow, Row
<1>2. order \in Fulfillment
  BY FulfillmentType DEF Init
<1>3. TypeOK
  BY <1>1, <1>2 DEF Init, TypeOK
<1>4. OrderExact
  BY DEF Init, OrderExact, NoRow
<1>5. Units(Taken(rows)) <= Ordered
  <2>1. Taken(rows) \in [Shipments -> Int] /\ \A s \in Shipments : Taken(rows)[s] = 0
    BY DEF Init, Taken, Takes, Active, NoRow
  <2>2. Units(Taken(rows)) = 0
    BY <2>1, SumConstantZero, ShipmentAssumption DEF Units
  <2> QED
    BY <2>2, ShipmentAssumption
<1> QED
  BY <1>3, <1>4, <1>5 DEF Init, IInv, Alone

-----------------------------------------------------------------------------
(* Steps *)

\* Who else may still save a row once t has written one has it as it is.
LEMMA FreshWritten ==
    ASSUME TypeOK, \A u \in open : Fresh(u),
           NEW t \in open, NEW row \in Row, Written(t, row)
    PROVE  (\A u \in open : Fresh(u))'
<1> SUFFICES ASSUME NEW u \in open' PROVE Fresh(u)'
  OBVIOUS
<1>1. u \in open /\ (u.name = t.name => u.kind = "delete")
  BY DEF Written
<1>2. u.name # t.name => rows'[u.name] = rows[u.name]
  BY <1>1 DEF Written, TypeOK, Transaction
<1> QED
  BY <1>1, <1>2 DEF Fresh

\* What the shipments take once t has written row.
LEMMA TakenWritten ==
    ASSUME TypeOK, NEW t \in open, NEW row \in Row, Written(t, row)
    PROVE  Taken(rows') = [Taken(rows) EXCEPT ![t.name] = Takes(row)]
BY DEF TypeOK, Taken, Written, Transaction

\* While nothing has overlapped, a transaction that writes a row and runs the
\* hook leaves an order that says what the shipments take.
LEMMA RefreshExact ==
    ASSUME IInv, calm, NEW t \in open, NEW row \in Row, Written(t, row), Refresh(t, row)
    PROVE  order' = FulfillmentOf(Taken(rows')) /\ open' = {}
<1>1. t.taken = Taken(rows) /\ t.order = order
  BY DEF IInv, Alone, Current
<1>2. [t.taken EXCEPT ![t.name] = Takes(row)] = Taken(rows')
  BY <1>1, TakenWritten DEF IInv
<1>3. order' = FulfillmentOf(Taken(rows'))
  BY <1>1, <1>2 DEF Refresh
<1>4. open' = {}
  BY DEF IInv, Alone, Written
<1> QED
  BY <1>3, <1>4

\* While nothing has overlapped, a row that takes nothing, or that fits beside the
\* shipments of the snapshot, leaves no more than the order's units taken.
LEMMA WriteFits ==
    ASSUME IInv, calm, NEW t \in open, NEW row \in Row, Written(t, row),
           Takes(row) = 0 \/ Fits(row, t.name, t.taken)
    PROVE  Units(Taken(rows')) <= Ordered
<1> DEFINE n    == t.name
           now  == Taken(rows)
           rest == [now EXCEPT ![n] = 0]
           new  == [now EXCEPT ![n] = Takes(row)]
<1>1. n \in Shipments /\ now \in [Shipments -> Nat] /\ Takes(row) \in Nat
  BY TakenType DEF IInv, TypeOK, Transaction, Takes, Row
<1>2. t.taken = now /\ Units(now) <= Ordered
  BY DEF IInv, Alone, Current
<1>3. Taken(rows') = new
  BY TakenWritten DEF IInv
<1> HIDE DEF now, n
<1>4. /\ now \in [Shipments -> Int] /\ rest \in [Shipments -> Int] /\ new \in [Shipments -> Int]
      /\ rest[n] = 0 /\ new[n] = Takes(row) /\ now[n] \in Nat
      /\ \A s \in Shipments \ {n} : rest[s] = now[s] /\ new[s] = rest[s]
  BY <1>1
<1> HIDE DEF rest, new
<1>5. /\ Units(rest) = Units(now) - now[n] + 0
      /\ Units(new) = Units(rest) - 0 + Takes(row)
  BY <1>1, <1>4, SumChange, ShipmentAssumption DEF Units
<1>6. Units(now) \in Int /\ Units(rest) \in Int
  BY <1>4, SumInt, ShipmentAssumption DEF Units
<1>7. CASE Takes(row) = 0
  BY <1>1, <1>2, <1>3, <1>4, <1>5, <1>6, <1>7, ShipmentAssumption
<1>8. CASE Takes(row) # 0 /\ Fits(row, n, now)
  <2>1. Takes(row) <= (IF Units(rest) < Ordered THEN Ordered - Units(rest) ELSE 0)
    BY <1>8 DEF Fits, Takes, rest
  <2> QED
    BY <1>1, <1>3, <1>5, <1>6, <1>8, <2>1, ShipmentAssumption
<1> QED
  BY <1>2, <1>7, <1>8 DEF n

\* No transition leads to a draft.
LEMMA AllowedTarget ==
    ASSUME NEW old, NEW new \in Allowed(old)
    PROVE  new # "none" /\ new # "Draft"
BY DEF Allowed

\* The invariant is kept by a step that writes row, runs the hook and leaves
\* the right shipments with an event.
LEMMA WriteStep ==
    ASSUME IInv, NEW t \in open, NEW row \in Row, Written(t, row), Refresh(t, row),
           told' \subseteq Shipments, calm' = calm,
           calm => told' = {s \in Shipments : rows'[s].status \notin {"none", "Draft"}},
           Takes(row) = 0 \/ Fits(row, t.name, t.taken)
    PROVE  IInv'
<1>1. TypeOK'
  BY WrittenType, RefreshType DEF IInv, TypeOK
<1>2. (\A u \in open : Fresh(u))'
  BY FreshWritten DEF IInv
<1>3. Alone'
  <2> SUFFICES ASSUME calm PROVE Alone'
    BY DEF Alone
  <2>1. order' = FulfillmentOf(Taken(rows')) /\ open' = {}
    BY RefreshExact
  <2>2. OrderExact'
    BY <2>1 DEF OrderExact
  <2>3. Units(Taken(rows')) <= Ordered
    BY WriteFits
  <2> QED
    BY <2>1, <2>2, <2>3 DEF Alone
<1> QED
  BY <1>1, <1>2, <1>3 DEF IInv

\* Every step keeps the invariant.
LEMMA StepInv == IInv /\ [Next]_vars => IInv'
<1> SUFFICES ASSUME IInv, [Next]_vars PROVE IInv'
  OBVIOUS
<1>1. ASSUME NEW kind \in {"create", "update", "delete"}, NEW s \in Shipments, Begin(kind, s)
      PROVE  IInv'
  <2>1. PICK t \in Transaction :
          t = [kind |-> kind, name |-> s, row |-> rows[s], taken |-> Taken(rows), order |-> order]
    BY TakenType DEF IInv, TypeOK, Transaction
  <2>2. TypeOK'
    BY <1>1, <2>1 DEF IInv, TypeOK, Begin
  <2>3. Fresh(t)'
    BY <1>1, <2>1 DEF Begin, Admits, Fresh
  <2>4. (\A u \in open : Fresh(u))'
    BY <1>1, <2>1, <2>3 DEF IInv, Begin, Fresh
  <2>5. Alone'
    <3> SUFFICES ASSUME calm' PROVE Alone'
      BY DEF Alone
    <3>1. calm /\ open' = {t}
      BY <1>1, <2>1 DEF Begin
    <3>2. Current(t)'
      BY <1>1, <2>1 DEF Begin, Admits, Current
    <3>3. OrderExact'
      BY <1>1, <3>1 DEF IInv, Alone, Begin, OrderExact
    <3>4. Units(Taken(rows')) <= Ordered
      BY <1>1, <3>1 DEF IInv, Alone, Begin
    <3> QED
      BY <3>1, <3>2, <3>3, <3>4 DEF Alone
  <2> QED
    BY <2>2, <2>4, <2>5 DEF IInv
<1>2. ASSUME NEW t \in open, Abort(t) PROVE IInv'
  <2>1. TypeOK'
    BY <1>2 DEF IInv, TypeOK, Abort
  <2>2. (\A u \in open : Fresh(u))'
    BY <1>2 DEF IInv, Abort, Fresh
  <2>3. Alone'
    BY <1>2 DEF IInv, Alone, Abort, Current, OrderExact
  <2> QED
    BY <2>1, <2>2, <2>3 DEF IInv
<1>3. ASSUME NEW t \in open, Delete(t) PROVE IInv'
  <2>1. NoRow \in Row
    BY ShipmentAssumption DEF NoRow, Row
  <2>2. ASSUME calm
        PROVE  told' = {s \in Shipments : rows'[s].status \notin {"none", "Draft"}}
    <3>1. t.name \notin told /\ OrderExact /\ told' = told
      BY <1>3, <2>2 DEF IInv, Alone, Current, Delete
    <3>2. rows' = [rows EXCEPT ![t.name] = NoRow]
      BY <1>3 DEF Delete, Written
    <3> QED
      BY <3>1, <3>2 DEF OrderExact, NoRow, IInv, TypeOK, Transaction
  <2> QED
    BY <1>3, <2>1, <2>2, WriteStep DEF Delete, IInv, TypeOK, Takes, Active, NoRow
<1>4. ASSUME NEW t \in open, NEW qty \in 1..Ordered, Create(t, qty) PROVE IInv'
  <2> DEFINE row == [status |-> "Draft", qty |-> qty]
  <2>1. row \in Row
    BY ShipmentAssumption DEF Row, Status, Early
  <2>2. ASSUME calm
        PROVE  told' = {s \in Shipments : rows'[s].status \notin {"none", "Draft"}}
    <3>1. rows[t.name].status = "none" /\ OrderExact /\ told' = told
      BY <1>4, <2>2 DEF IInv, Alone, Fresh, Create
    <3>2. rows' = [rows EXCEPT ![t.name] = row]
      BY <1>4 DEF Create, Written
    <3> QED
      BY <3>1, <3>2 DEF OrderExact, IInv, TypeOK, Transaction
  <2> QED
    BY <1>4, <2>1, <2>2, WriteStep DEF Create, IInv, TypeOK
<1>5. ASSUME NEW t \in open, NEW status \in Status, NEW qty \in 1..Ordered,
             Save(t, [status |-> status, qty |-> qty])
      PROVE  IInv'
  <2> DEFINE row == [status |-> status, qty |-> qty]
  <2>1. row \in Row
    BY ShipmentAssumption DEF Row
  <2>2. told' \subseteq Shipments
    BY <1>5 DEF Save, IInv, TypeOK, Transaction
  <2>3. ASSUME calm
        PROVE  told' = {s \in Shipments : rows'[s].status \notin {"none", "Draft"}}
    <3>1. t.row = rows[t.name] /\ t.row.status # "none" /\ OrderExact
      BY <1>5, <2>3 DEF IInv, Alone, Fresh, Save
    <3>2. rows' = [rows EXCEPT ![t.name] = row]
      BY <1>5 DEF Save, Written
    <3>3. status # t.row.status => status # "none" /\ status # "Draft"
      BY <1>5, AllowedTarget DEF Save, Savable
    <3>4. told' = IF status = t.row.status THEN told ELSE told \cup {t.name}
      BY <1>5 DEF Save
    <3> QED
      BY <3>1, <3>2, <3>3, <3>4 DEF OrderExact, IInv, TypeOK, Transaction
  <2> QED
    BY <1>5, <2>1, <2>2, <2>3, WriteStep DEF Save, Savable
<1>6. ASSUME NEW t \in open, NEW status \in Status, NEW raises \in BOOLEAN,
             Apply(t, status, raises)
      PROVE  IInv'
  <2> DEFINE row == [t.row EXCEPT !.status = status]
  <2>1. row \in Row
    BY DEF IInv, TypeOK, Transaction, Row
  <2>2. Written(t, row) /\ row.status = status
    BY <1>6 DEF Apply, IInv, TypeOK, Transaction, Row
  <2>3. CASE raises
    <3>1. TypeOK'
      BY <1>6, <2>1, <2>2, <2>3, WrittenType DEF Apply, IInv, TypeOK
    <3>2. (\A u \in open : Fresh(u))'
      BY <2>1, <2>2, FreshWritten DEF IInv
    <3>3. calm' = FALSE
      BY <1>6, <2>3 DEF Apply
    <3> QED
      BY <3>1, <3>2, <3>3 DEF IInv, Alone
  <2>4. CASE ~raises
    <3>1. Refresh(t, row) /\ told' = told \cup {t.name} /\ calm' = calm
      BY <1>6, <2>4 DEF Apply
    <3>2. ASSUME calm
          PROVE  told' = {s \in Shipments : rows'[s].status \notin {"none", "Draft"}}
      <4>1. OrderExact
        BY <3>2 DEF IInv, Alone
      <4>2. rows' = [rows EXCEPT ![t.name] = row]
        BY <2>2 DEF Written
      <4>3. status # "none" /\ status # "Draft"
        BY <1>6, <2>2, AllowedTarget DEF Apply, Savable
      <4> QED
        BY <2>2, <3>1, <4>1, <4>2, <4>3 DEF OrderExact, IInv, TypeOK, Transaction
    <3>3. told' \subseteq Shipments
      BY <3>1 DEF IInv, TypeOK, Transaction
    <3>4. Fits(row, t.name, t.taken)
      BY <1>6 DEF Apply, Savable
    <3> QED
      BY <2>1, <2>2, <3>1, <3>2, <3>3, <3>4, WriteStep
  <2> QED
    BY <2>3, <2>4
<1>7. CASE UNCHANGED vars
  BY <1>7 DEF vars, IInv, TypeOK, Alone, OrderExact, Fresh, Current
<1> QED
  BY <1>1, <1>2, <1>3, <1>4, <1>5, <1>6, <1>7 DEF Next

-----------------------------------------------------------------------------
(* Theorems *)

\* The invariant holds of every state.
LEMMA Invariance == Spec => []IInv
BY InitInv, StepInv, PTL DEF Spec

\* Rows, events, the order and what transactions have read keep their types.
THEOREM TypeCorrect == Spec => []TypeOK
<1>1. IInv => TypeOK
  BY DEF IInv
<1> QED
  BY <1>1, Invariance, PTL

\* While requests and jobs come one after another, the order says what its
\* shipments carry, every shipment that has moved has an event, and no unit is
\* shipped twice.
THEOREM OrderIsExact == Spec => []ExactWhenAlone
<1>1. IInv => ExactWhenAlone
  BY DEF IInv, Alone, ExactWhenAlone
<1> QED
  BY <1>1, Invariance, PTL

\* What a row is saved with after a transition that is allowed.
LEMMA AllowedForward ==
    ASSUME NEW old \in Status, NEW new \in Allowed(old) \cup {old}
    PROVE  /\ Phase(new) >= Phase(old)
           /\ old \in Closed => new = old
<1>1. CASE new = old
  BY <1>1 DEF Phase
<1>2. CASE new \in Allowed(old)
  <2>1. old \notin Closed
    BY <1>2 DEF Allowed, Closed
  <2>2. CASE old \in Early
    <3>1. Phase(old) = 0 /\ Phase(new) \in 0..2
      BY <2>2 DEF Phase
    <3> QED
      BY <2>1, <3>1
  <2>3. CASE old \in Underway
    <3>1. new \notin Early /\ old \notin Early
      BY <1>2, <2>3 DEF Allowed, Underway, Early
    <3>2. Phase(old) = 1 /\ Phase(new) \in 1..2
      BY <2>3, <3>1 DEF Phase
    <3> QED
      BY <2>1, <3>2
  <2> QED
    BY <2>1, <2>2, <2>3 DEF Status
<1> QED
  BY <1>1, <1>2

\* However requests and webhooks interleave, a shipment the carrier has taken
\* never returns to before that, and a closed one keeps its status.
THEOREM ShipmentNeverBack == Spec => NeverBack
<1> DEFINE Forward(s) == rows[s].status # "none" /\ rows'[s].status # "none" =>
                             /\ Phase(rows'[s].status) >= Phase(rows[s].status)
                             /\ rows[s].status \in Closed => rows'[s].status = rows[s].status
<1>1. ASSUME IInv, [Next]_vars PROVE [\A s \in Shipments : Forward(s)]_vars
  <2> SUFFICES ASSUME NEW s \in Shipments, rows'[s] # rows[s],
                      rows[s].status # "none", rows'[s].status # "none"
               PROVE  Forward(s)
    <3>1. ASSUME NEW s \in Shipments, rows'[s] = rows[s] PROVE Forward(s)
      BY <3>1 DEF Phase
    <3> QED
      BY <3>1
  <2>1. rows[s].status \in Status
    BY <1>1 DEF IInv, TypeOK, Row
  <2>2. ASSUME NEW t \in open, NEW row \in Row, t.kind = "update", Savable(t, row), Written(t, row)
        PROVE  Forward(s)
    <3>1. t.name = s /\ rows'[s] = row /\ t.row = rows[s]
      BY <1>1, <2>2 DEF Written, IInv, TypeOK, Transaction, Fresh
    <3>2. row.status \in Allowed(rows[s].status) \cup {rows[s].status}
      BY <2>2, <3>1 DEF Savable
    <3> QED
      BY <2>1, <3>1, <3>2, AllowedForward
  <2>3. ASSUME NEW t \in open, NEW qty \in 1..Ordered, Create(t, qty) PROVE FALSE
    BY <1>1, <2>3 DEF Create, Written, IInv, TypeOK, Transaction, Fresh
  <2>4. ASSUME NEW t \in open, Delete(t) PROVE FALSE
    BY <1>1, <2>4 DEF Delete, Written, NoRow, IInv, TypeOK, Transaction
  <2>5. ASSUME NEW t \in open, NEW status \in Status, NEW qty \in 1..Ordered,
               Save(t, [status |-> status, qty |-> qty])
        PROVE  Forward(s)
    <3>1. [status |-> status, qty |-> qty] \in Row
      BY ShipmentAssumption DEF Row
    <3> QED
      BY <2>2, <2>5, <3>1 DEF Save
  <2>6. ASSUME NEW t \in open, NEW status \in Status, NEW raises \in BOOLEAN,
               Apply(t, status, raises)
        PROVE  Forward(s)
    <3>1. [t.row EXCEPT !.status = status] \in Row
      BY <1>1 DEF IInv, TypeOK, Transaction, Row
    <3> QED
      BY <2>2, <2>6, <3>1 DEF Apply
  <2> QED
    BY <1>1, <2>3, <2>4, <2>5, <2>6 DEF Next, Begin, Abort, vars
<1> QED
  BY <1>1, Invariance, PTL DEF Spec, NeverBack
=============================================================================
