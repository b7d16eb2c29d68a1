--------------------------- MODULE OutboundProofs ---------------------------
(***************************************************************************)
(* Theorems about the two halves of integration/outbound.py.               *)
(*                                                                         *)
(* First OutboundFeed, for any number of requests and listings and any     *)
(* baskets.  IInv says what the row lock is for: the uncommitted moves of  *)
(* a listing all belong to its holder, and are later, in id and in figure, *)
(* than everything committed of it.                                        *)
(*                                                                         *)
(* Then OutboundDelivery, for any number of events and workers, any        *)
(* interleaving of their deliveries and any losses.  DeliveryInv adds to   *)
(* the types what a delivery in flight may rely on: the attempts it read   *)
(* were all failures, and not yet all that are allowed.  RecentInv says    *)
(* the same of the failures since the last retry.                          *)
(***************************************************************************)
EXTENDS OutboundFeed, OutboundDelivery, FiniteSetTheorems, SequenceTheorems, TLAPS

FiniteInv == \A r \in Requests : IsFiniteSet(pending[r])

LockInv == \A r \in Requests : \A e \in pending[r] : holder[e.listing] = r

PendingInv ==
    \A r \in Requests : \A e \in pending[r] :
        /\ figure[e.listing] < e.figure
        /\ e.figure <= figure[e.listing] + Cardinality(MovesOf(r, e.listing))
        /\ e.id < nextId

LogInv ==
    \A f \in log : f.id < nextId /\ f.figure <= figure[f.listing]

OrderInv ==
    \A r \in Requests : \A e \in pending[r], f \in log :
        e.listing = f.listing /\ e.id # 0 => f.id < e.id

IInv == TypeOK /\ FiniteInv /\ LockInv /\ PendingInv /\ LogInv /\ OrderInv

USE OutboundFeedAssumption
-----------------------------------------------------------------------------

\* A request has finitely many moves of a listing.
LEMMA MovesOfFinite ==
  ASSUME FiniteInv, NEW r \in Requests, NEW l
  PROVE  IsFiniteSet(MovesOf(r, l)) /\ Cardinality(MovesOf(r, l)) \in Nat
  <1>1. MovesOf(r, l) \subseteq pending[r] /\ IsFiniteSet(pending[r])
    BY DEF MovesOf, FiniteInv
  <1>2. IsFiniteSet(MovesOf(r, l))
    BY <1>1, FS_Subset
  <1>3. QED
    BY <1>2, FS_CardinalityType

LEMMA ReleasedType ==
  ASSUME TypeOK, NEW r \in Requests
  PROVE  Released(r) \in [Listings -> Requests \union {NoRequest}]
  BY DEF Released, TypeOK

\* Giving back the locks of r leaves the other requests theirs
LEMMA ReleasedLocks ==
  ASSUME IInv, NEW r \in Requests, pending' = [pending EXCEPT ![r] = {}],
         holder' = Released(r)
  PROVE  /\ pending' \in [Requests -> SUBSET Move]
         /\ holder' \in [Listings -> Requests \union {NoRequest}]
         /\ FiniteInv' /\ LockInv'
         /\ \A q \in Requests \ {r} : pending'[q] = pending[q]
         /\ pending'[r] = {}
  <1>1. /\ pending' \in [Requests -> SUBSET Move]
        /\ \A q \in Requests \ {r} : pending'[q] = pending[q]
        /\ pending'[r] = {}
    BY DEF IInv, TypeOK
  <1>2. FiniteInv'
    BY <1>1, FS_EmptySet DEF IInv, FiniteInv
  <1>3. LockInv'
    <2> SUFFICES ASSUME NEW q \in Requests, NEW e \in pending'[q]
                 PROVE  holder'[e.listing] = q
      BY DEF LockInv
    <2>1. q # r /\ e \in pending[q] /\ e.listing \in Listings
      BY <1>1 DEF IInv, TypeOK, Move
    <2>2. holder[e.listing] = q
      BY <2>1 DEF IInv, LockInv
    <2>3. QED
      BY <2>1, <2>2 DEF Released
  <1>4. QED
    BY <1>1, <1>2, <1>3, ReleasedType DEF IInv

LEMMA InitIInv == Init => IInv
  BY FS_EmptySet DEF Init, IInv, TypeOK, FiniteInv, LockInv, PendingInv, LogInv, OrderInv

LEMMA BeginIInv ==
  ASSUME IInv, NEW r \in Requests, NEW moves \in Moves, Begin(r, moves)
  PROVE  IInv'
  <1>1. todo' \in [Requests -> Seq(Listings)]
    BY DEF Begin, IInv, TypeOK
  <1>2. \A q \in Requests, l \in Listings : MovesOf(q, l)' = MovesOf(q, l)
    BY DEF Begin, MovesOf
  <1>3. PendingInv'
    <2> SUFFICES ASSUME NEW q \in Requests, NEW e \in pending'[q]
                 PROVE  /\ figure'[e.listing] < e.figure
                        /\ e.figure <= figure'[e.listing]
                                + Cardinality(MovesOf(q, e.listing)')
                        /\ e.id < nextId'
      BY DEF PendingInv
    <2>1. e \in pending[q] /\ e.listing \in Listings
      BY DEF Begin, IInv, TypeOK, Move
    <2>2. QED
      BY <1>2, <2>1 DEF Begin, IInv, PendingInv
  <1>4. QED
    BY <1>1, <1>3 DEF Begin, IInv, TypeOK, FiniteInv, LockInv, LogInv, OrderInv

\* A move waits for the row lock, so its figure and id lie above all before them.
LEMMA MoveStockIInv ==
  ASSUME IInv, NEW r \in Requests, MoveStock(r)
  PROVE  IInv'
  <1> USE DEF IInv
  <1>0. PICK l \in Listings : l = Head(todo[r])
    BY HeadTailProperties DEF MoveStock, TypeOK
  <1> DEFINE c == Cardinality(MovesOf(r, l))
  <1>1. PICK id \in {nextId, 0} :
          /\ pending' = [pending EXCEPT ![r] = @ \union
                {[id |-> id, listing |-> l, figure |-> FigureAfter(l, c + 1)]}]
          /\ nextId' = IF id = 0 THEN nextId ELSE nextId + 1
    BY <1>0 DEF MoveStock
  <1> DEFINE new == [id |-> id, listing |-> l, figure |-> FigureAfter(l, c + 1)]
  <1>2. /\ todo[r] # <<>> /\ FreeFor(l, r)
        /\ holder' = [holder EXCEPT ![l] = r]
        /\ todo' = [todo EXCEPT ![r] = Tail(@)]
        /\ UNCHANGED <<figure, silent, log, cursor>>
    BY <1>0 DEF MoveStock
  <1>3. l \in Listings /\ Tail(todo[r]) \in Seq(Listings)
    BY <1>0, <1>2, HeadTailProperties DEF TypeOK
  <1>4. c \in Nat /\ IsFiniteSet(MovesOf(r, l))
    BY MovesOfFinite
  <1>5. figure[l] \in Nat /\ nextId \in Nat \ {0}
    BY <1>3 DEF TypeOK
  <1>6. /\ new \in Move /\ new.figure = figure[l] + c + 1
        /\ new.listing = l /\ new.id = id
    BY <1>3, <1>4, <1>5 DEF Move, FigureAfter
  <1>7. /\ pending' \in [Requests -> SUBSET Move]
        /\ \A q \in Requests \ {r} : pending'[q] = pending[q]
        /\ pending'[r] = pending[r] \union {new}
    BY <1>1, <1>6 DEF TypeOK
  <1> HIDE DEF new
  <1>8. TypeOK'
    <2>1. /\ todo' \in [Requests -> Seq(Listings)]
          /\ holder' \in [Listings -> Requests \union {NoRequest}]
          /\ nextId' \in Nat \ {0}
      BY <1>1, <1>2, <1>3, <1>5 DEF TypeOK
    <2>2. QED
      BY <1>2, <1>7, <2>1 DEF TypeOK
  <1>9. FiniteInv'
    <2>1. IsFiniteSet(pending[r])
      BY DEF FiniteInv
    <2>2. IsFiniteSet(pending[r] \union {new})
      BY <2>1, FS_AddElement
    <2>3. QED
      BY <1>7, <2>2 DEF FiniteInv
  <1>10. LockInv'
    <2> SUFFICES ASSUME NEW q \in Requests, NEW e \in pending'[q]
                 PROVE  holder'[e.listing] = q
      BY DEF LockInv
    <2>1. CASE q = r /\ e = new
      BY <1>2, <1>3, <1>6, <2>1 DEF TypeOK
    <2>2. CASE e \in pending[q]
      <3>1. holder[e.listing] = q /\ e.listing \in Listings
        BY <2>2 DEF LockInv, TypeOK, Move
      <3>2. e.listing = l => q = r
        BY <1>2, <3>1 DEF FreeFor
      <3>3. QED
        BY <1>2, <3>1, <3>2 DEF TypeOK
    <2>3. QED
      BY <1>7, <2>1, <2>2
  \* The new move is one more than the moves of r of this listing so far
  <1>11. /\ Cardinality(MovesOf(r, l)') = c + 1
         /\ \A q \in Requests, k \in Listings :
                q # r \/ k # l => MovesOf(q, k)' = MovesOf(q, k)
    <2>1. new \notin MovesOf(r, l)
      <3> SUFFICES ASSUME new \in pending[r] PROVE FALSE
        BY DEF MovesOf
      <3>1. new.figure <= figure[l] + c
        BY <1>6 DEF PendingInv
      <3>2. QED
        BY <1>4, <1>5, <1>6, <3>1
    <2>2. MovesOf(r, l)' = MovesOf(r, l) \union {new}
      BY <1>6, <1>7 DEF MovesOf
    <2>3. Cardinality(MovesOf(r, l) \union {new}) = c + 1
      BY <1>4, <2>1, FS_AddElement
    <2>4. ASSUME NEW q \in Requests, NEW k \in Listings, q # r \/ k # l
          PROVE  MovesOf(q, k)' = MovesOf(q, k)
      <3>1. CASE q # r
        BY <1>7, <3>1 DEF MovesOf
      <3>2. CASE q = r /\ k # l
        BY <1>6, <1>7, <3>2 DEF MovesOf
      <3>3. QED
        BY <2>4, <3>1, <3>2
    <2>5. QED
      BY <2>2, <2>3, <2>4
  <1>12. PendingInv'
    <2> SUFFICES ASSUME NEW q \in Requests, NEW e \in pending'[q]
                 PROVE  /\ figure'[e.listing] < e.figure
                        /\ e.figure <= figure'[e.listing]
                                + Cardinality(MovesOf(q, e.listing)')
                        /\ e.id < nextId'
      BY DEF PendingInv
    <2>1. CASE q = r /\ e = new
      <3>1. e.listing = l /\ e.figure = figure[l] + c + 1 /\ e.id = id
        BY <1>6, <2>1
      <3>2. Cardinality(MovesOf(q, e.listing)') = c + 1
        BY <1>11, <2>1, <3>1
      <3>3. figure'[e.listing] = figure[l] /\ e.id < nextId'
        BY <1>1, <1>2, <1>5, <3>1
      <3>4. QED
        BY <1>4, <1>5, <3>1, <3>2, <3>3
    <2>2. CASE e \in pending[q]
      <3>1. /\ e.listing \in Listings /\ e.id \in Nat /\ e.figure \in Nat
            /\ figure[e.listing] \in Nat /\ Cardinality(MovesOf(q, e.listing)) \in Nat
        BY <2>2, MovesOfFinite DEF TypeOK, Move
      <3>2. /\ figure[e.listing] < e.figure
            /\ e.figure <= figure[e.listing] + Cardinality(MovesOf(q, e.listing))
            /\ e.id < nextId
        BY <2>2 DEF PendingInv
      <3>3. \/ Cardinality(MovesOf(q, e.listing)') = Cardinality(MovesOf(q, e.listing))
            \/ Cardinality(MovesOf(q, e.listing)') = Cardinality(MovesOf(q, e.listing)) + 1
        <4>1. CASE q = r /\ e.listing = l
          BY <1>11, <4>1
        <4>2. CASE q # r \/ e.listing # l
          BY <1>11, <3>1, <4>2
        <4>3. QED
          BY <4>1, <4>2
      <3>4. nextId' >= nextId
        BY <1>1, <1>5
      <3>5. QED
        BY <1>1, <1>2, <1>5, <3>1, <3>2, <3>3, <3>4
    <2>3. QED
      BY <1>7, <2>1, <2>2
  <1>13. LogInv'
    <2> SUFFICES ASSUME NEW f \in log
                 PROVE  f.id < nextId' /\ f.figure <= figure'[f.listing]
      BY <1>2 DEF LogInv
    <2>1. f.id \in Nat /\ f.id < nextId /\ f.figure <= figure[f.listing]
      BY DEF LogInv, TypeOK, Event
    <2>2. QED
      BY <1>1, <1>2, <1>5, <2>1
  <1>14. OrderInv'
    <2> SUFFICES ASSUME NEW q \in Requests, NEW e \in pending'[q], NEW f \in log,
                        e.listing = f.listing, e.id # 0
                 PROVE  f.id < e.id
      BY <1>2 DEF OrderInv
    <2>1. CASE q = r /\ e = new
      BY <1>1, <1>5, <1>6, <2>1 DEF LogInv, TypeOK, Event
    <2>2. CASE e \in pending[q]
      BY <2>2 DEF OrderInv
    <2>3. QED
      BY <1>7, <2>1, <2>2
  <1>15. QED
    BY <1>8, <1>9, <1>10, <1>12, <1>13, <1>14

\* A committed figure is never below those it follows
LEMMA CommitIInv ==
  ASSUME IInv, NEW r \in Requests, Commit(r)
  PROVE  IInv'
  <1> USE DEF IInv
  <1>1. /\ pending' \in [Requests -> SUBSET Move]
        /\ holder' \in [Listings -> Requests \union {NoRequest}]
        /\ FiniteInv' /\ LockInv'
        /\ \A q \in Requests \ {r} : pending'[q] = pending[q]
        /\ pending'[r] = {}
    BY ReleasedLocks DEF Commit
  <1>2. /\ figure' = [l \in Listings |-> figure[l] + Cardinality(MovesOf(r, l))]
        /\ log' = log \union Published(pending[r])
        /\ UNCHANGED <<todo, nextId, cursor>>
    BY DEF Commit
  <1>3. \A l \in Listings : figure[l] \in Nat /\ Cardinality(MovesOf(r, l)) \in Nat
    BY MovesOfFinite DEF TypeOK
  <1>4. /\ figure' \in [Listings -> Nat]
        /\ \A l \in Listings : figure'[l] = figure[l] + Cardinality(MovesOf(r, l))
    BY <1>2, <1>3
  <1>5. silent' \in [Listings -> Nat]
    <2>1. ASSUME NEW l \in Listings PROVE Cardinality(Unsaid(r, l)) \in Nat
      <3>1. Unsaid(r, l) \subseteq MovesOf(r, l) /\ IsFiniteSet(MovesOf(r, l))
        BY MovesOfFinite DEF Unsaid
      <3>2. IsFiniteSet(Unsaid(r, l))
        BY <3>1, FS_Subset
      <3>3. QED
        BY <3>2, FS_CardinalityType
    <2>2. \A l \in Listings : silent[l] \in Nat
      BY DEF TypeOK
    <2>3. QED
      BY <2>1, <2>2 DEF Commit
  <1>6. Published(pending[r]) \subseteq Event
    BY DEF Published, TypeOK, Move, Event
  <1>7. TypeOK'
    BY <1>1, <1>2, <1>4, <1>5, <1>6 DEF TypeOK
  <1>8. \* No other request has moves of a listing that r has moved
        \A q \in Requests \ {r} : \A e \in pending[q] :
            /\ e.listing \in Listings /\ MovesOf(r, e.listing) = {}
            /\ figure'[e.listing] = figure[e.listing]
            /\ MovesOf(q, e.listing)' = MovesOf(q, e.listing)
    <2> SUFFICES ASSUME NEW q \in Requests \ {r}, NEW e \in pending[q]
                 PROVE  /\ e.listing \in Listings /\ MovesOf(r, e.listing) = {}
                        /\ figure'[e.listing] = figure[e.listing]
                        /\ MovesOf(q, e.listing)' = MovesOf(q, e.listing)
      OBVIOUS
    <2>1. e.listing \in Listings /\ holder[e.listing] = q
      BY DEF TypeOK, Move, LockInv
    <2>2. MovesOf(r, e.listing) = {}
      BY <2>1 DEF MovesOf, LockInv
    <2>3. figure'[e.listing] = figure[e.listing]
      <3>1. Cardinality(MovesOf(r, e.listing)) = 0
        BY <2>2, FS_EmptySet
      <3>2. QED
        BY <1>3, <1>4, <2>1, <3>1
    <2>4. QED
      BY <1>1, <2>1, <2>2, <2>3 DEF MovesOf
  <1>9. PendingInv'
    <2> SUFFICES ASSUME NEW q \in Requests, NEW e \in pending'[q]
                 PROVE  /\ figure'[e.listing] < e.figure
                        /\ e.figure <= figure'[e.listing]
                                + Cardinality(MovesOf(q, e.listing)')
                        /\ e.id < nextId'
      BY DEF PendingInv
    <2>1. q # r /\ e \in pending[q]
      BY <1>1
    <2>2. QED
      BY <1>2, <1>8, <2>1 DEF PendingInv
  <1>10. LogInv'
    <2> SUFFICES ASSUME NEW f \in log'
                 PROVE  f.id < nextId' /\ f.figure <= figure'[f.listing]
      BY DEF LogInv
    <2>1. CASE f \in log
      <3>1. f.listing \in Listings /\ f.figure \in Nat /\ f.figure <= figure[f.listing]
        BY <2>1 DEF LogInv, TypeOK, Event
      <3>2. QED
        BY <1>2, <1>3, <1>4, <2>1, <3>1 DEF LogInv
    <2>2. CASE f \in pending[r]
      <3>1. f.listing \in Listings
        BY <2>2 DEF TypeOK, Move
      <3>2. QED
        BY <1>2, <1>4, <2>2, <3>1 DEF PendingInv
    <2>3. QED
      BY <1>2, <2>1, <2>2 DEF Published
  <1>11. OrderInv'
    <2> SUFFICES ASSUME NEW q \in Requests, NEW e \in pending'[q], NEW f \in log',
                        e.listing = f.listing, e.id # 0
                 PROVE  f.id < e.id
      BY DEF OrderInv
    <2>1. q # r /\ e \in pending[q]
      BY <1>1
    <2>2. f \notin pending[r]
      BY <1>8, <2>1 DEF MovesOf
    <2>3. f \in log
      BY <1>2, <2>2 DEF Published
    <2>4. QED
      BY <2>1, <2>3 DEF OrderInv
  <1>12. QED
    BY <1>1, <1>7, <1>9, <1>10, <1>11

\* A rollback drops its moves and locks, and keeps the ids used up.
LEMMA RollbackIInv ==
  ASSUME IInv, NEW r \in Requests, Rollback(r)
  PROVE  IInv'
  <1> USE DEF IInv
  <1>1. /\ pending' \in [Requests -> SUBSET Move]
        /\ holder' \in [Listings -> Requests \union {NoRequest}]
        /\ FiniteInv' /\ LockInv'
        /\ \A q \in Requests \ {r} : pending'[q] = pending[q]
        /\ pending'[r] = {}
    BY ReleasedLocks DEF Rollback
  <1>2. todo' \in [Requests -> Seq(Listings)] /\ UNCHANGED <<figure, silent, nextId, log, cursor>>
    BY DEF Rollback, TypeOK
  <1>3. \A q \in Requests \ {r}, l \in Listings : MovesOf(q, l)' = MovesOf(q, l)
    BY <1>1 DEF MovesOf
  <1>4. PendingInv'
    <2> SUFFICES ASSUME NEW q \in Requests, NEW e \in pending'[q]
                 PROVE  /\ figure'[e.listing] < e.figure
                        /\ e.figure <= figure'[e.listing]
                                + Cardinality(MovesOf(q, e.listing)')
                        /\ e.id < nextId'
      BY DEF PendingInv
    <2>1. q # r /\ e \in pending[q] /\ e.listing \in Listings
      BY <1>1 DEF TypeOK, Move
    <2>2. QED
      BY <1>2, <1>3, <2>1 DEF PendingInv
  <1>5. OrderInv'
    BY <1>1, <1>2 DEF OrderInv
  <1>6. QED
    BY <1>1, <1>2, <1>4, <1>5 DEF TypeOK, LogInv

\* The seller's write needs a free lock, so nothing is pending of the listing.
LEMMA SellerSetsStockIInv ==
  ASSUME IInv, NEW k \in Listings, SellerSetsStock(k)
  PROVE  IInv'
  <1> USE DEF IInv
  <1>1. /\ figure' \in [Listings -> Nat] /\ silent' \in [Listings -> Nat]
        /\ \A l \in Listings \ {k} : figure'[l] = figure[l]
        /\ figure'[k] = figure[k] + 1 /\ figure[k] \in Nat
    BY DEF SellerSetsStock, TypeOK
  <1>2. UNCHANGED <<holder, todo, pending, nextId, log, cursor>> /\ holder[k] = NoRequest
    BY DEF SellerSetsStock
  <1>3. \A r \in Requests : \A e \in pending[r] :
            /\ e.listing \in Listings \ {k}
            /\ MovesOf(r, e.listing)' = MovesOf(r, e.listing)
    BY <1>2 DEF LockInv, TypeOK, Move, MovesOf
  <1>4. PendingInv'
    <2> SUFFICES ASSUME NEW q \in Requests, NEW e \in pending[q]
                 PROVE  /\ figure'[e.listing] < e.figure
                        /\ e.figure <= figure'[e.listing]
                                + Cardinality(MovesOf(q, e.listing)')
                        /\ e.id < nextId'
      BY <1>2 DEF PendingInv
    <2>1. QED
      BY <1>1, <1>2, <1>3 DEF PendingInv
  <1>5. LogInv'
    <2> SUFFICES ASSUME NEW f \in log
                 PROVE  f.id < nextId' /\ f.figure <= figure'[f.listing]
      BY <1>2 DEF LogInv
    <2>1. f.listing \in Listings /\ f.figure \in Nat /\ f.id < nextId
          /\ f.figure <= figure[f.listing]
      BY DEF LogInv, TypeOK, Event
    <2>2. QED
      BY <1>1, <1>2, <2>1
  <1>6. QED
    BY <1>1, <1>2, <1>4, <1>5 DEF TypeOK, FiniteInv, LockInv, OrderInv

LEMMA PollIInv ==
  ASSUME IInv, Poll
  PROVE  IInv'
  <1> USE DEF IInv
  <1>1. cursor' \in Nat
    BY DEF Poll, Page, TypeOK, Event
  <1>2. UNCHANGED <<figure, silent, holder, todo, pending, nextId, log>>
    BY DEF Poll
  <1>3. PendingInv'
    BY <1>2 DEF PendingInv, MovesOf
  <1>4. QED
    BY <1>1, <1>2, <1>3 DEF TypeOK, FiniteInv, LockInv, LogInv, OrderInv

LEMMA NextIInv == IInv /\ [Next]_vars => IInv'
  <1>1. ASSUME IInv, UNCHANGED vars PROVE IInv'
    <2>1. PendingInv'
      BY <1>1 DEF vars, IInv, PendingInv, MovesOf
    <2>2. QED
      BY <1>1, <2>1 DEF vars, IInv, TypeOK, FiniteInv, LockInv, LogInv, OrderInv
  <1>2. QED
    BY <1>1, BeginIInv, MoveStockIInv, CommitIInv, RollbackIInv, SellerSetsStockIInv,
       PollIInv DEF Next

LEMMA Invariance == Spec => []IInv
  BY InitIInv, NextIInv, PTL DEF Spec

-----------------------------------------------------------------------------

\* Listings, locks, transactions and the feed keep their types; no event without an
\* id is ever published.
THEOREM TypeCorrect == Spec => []TypeOK
  <1>1. IInv => TypeOK
    BY DEF IInv
  <1>2. QED
    BY <1>1, Invariance, PTL

\* The row lock makes the events of one listing visible in the order of their ids.
THEOREM FeedInOrder == Spec => ListingInOrder
  <1> DEFINE Step == \A e \in log' \ log, f \in log :
                        e.listing = f.listing => f.id < e.id /\ f.figure < e.figure
  <1>1. ASSUME IInv, NEW r \in Requests, Commit(r) PROVE Step
    <2> SUFFICES ASSUME NEW e \in log' \ log, NEW f \in log, e.listing = f.listing
                 PROVE  f.id < e.id /\ f.figure < e.figure
      OBVIOUS
    <2>1. e \in pending[r] /\ e.id > 0
      BY <1>1 DEF Commit, Published
    <2>2. /\ e.listing \in Listings /\ e.id \in Nat /\ e.figure \in Nat
          /\ f.figure \in Nat /\ figure[e.listing] \in Nat
      BY <1>1, <2>1 DEF IInv, TypeOK, Move, Event
    <2>3. f.id < e.id
      BY <1>1, <2>1, <2>2 DEF IInv, OrderInv
    <2>4. f.figure <= figure[e.listing] /\ figure[e.listing] < e.figure
      BY <1>1, <2>1 DEF IInv, LogInv, PendingInv
    <2>5. QED
      BY <2>2, <2>3, <2>4
  <1>2. IInv /\ [Next]_vars => [Step]_vars
    <2> SUFFICES ASSUME IInv, [Next]_vars PROVE Step
      OBVIOUS
    <2>1. CASE log' = log
      BY <2>1
    <2>2. CASE \E r \in Requests : Commit(r)
      BY <2>2, <1>1
    <2>3. QED
      BY <2>1, <2>2 DEF Next, vars, Begin, MoveStock, Rollback, SellerSetsStock, Poll
  <1>3. QED
    BY <1>2, Invariance, PTL DEF Spec, ListingInOrder

-----------------------------------------------------------------------------
(* The newest figure published is the current one                          *)

\* The figures a reader of the log has seen of a listing
Told(l) == {e.figure : e \in {x \in log : x.listing = l}} \union {0}

\* Of the uncommitted moves of a listing, those after the last that has an event
\* are as many as the figures from it to the newest
SaidInv ==
    \A r \in Requests, l \in Listings :
        Published(MovesOf(r, l)) # {}
            => \E p \in Published(MovesOf(r, l)) :
                    /\ \A x \in Published(MovesOf(r, l)) : x.figure <= p.figure
                    /\ p.figure + Cardinality(Unsaid(r, l))
                            = figure[l] + Cardinality(MovesOf(r, l))

\* The figure before the silent ones has been told, and is the newest told
CurrentInv ==
    \A l \in Listings :
        /\ figure[l] - silent[l] \in Told(l)
        /\ \A n \in Told(l) : n <= figure[l] - silent[l]

\* The moves after the last event are finitely many, as the moves are.
LEMMA UnsaidFinite ==
  ASSUME FiniteInv, NEW r \in Requests, NEW l
  PROVE  IsFiniteSet(Unsaid(r, l)) /\ Cardinality(Unsaid(r, l)) \in Nat
  <1>1. Unsaid(r, l) \subseteq MovesOf(r, l) /\ IsFiniteSet(MovesOf(r, l))
    BY MovesOfFinite DEF Unsaid
  <1>2. IsFiniteSet(Unsaid(r, l))
    BY <1>1, FS_Subset
  <1> QED
    BY <1>2, FS_CardinalityType

\* One more move: with an event it is the last that has one, without one it is one
\* more after the last.
LEMMA MoveStockSaid ==
  ASSUME IInv, SaidInv, NEW r \in Requests, MoveStock(r)
  PROVE  SaidInv'
  <1> USE DEF IInv
  <1>0. PICK l \in Listings : l = Head(todo[r])
    BY HeadTailProperties DEF MoveStock, TypeOK
  <1> DEFINE c == Cardinality(MovesOf(r, l))
  <1>1. PICK id \in {nextId, 0} :
          pending' = [pending EXCEPT ![r] = @ \union
                {[id |-> id, listing |-> l, figure |-> FigureAfter(l, c + 1)]}]
    BY <1>0 DEF MoveStock
  <1> DEFINE new == [id |-> id, listing |-> l, figure |-> FigureAfter(l, c + 1)]
  <1>2. c \in Nat /\ IsFiniteSet(MovesOf(r, l)) /\ figure[l] \in Nat /\ figure' = figure
        /\ nextId \in Nat \ {0}
    BY MovesOfFinite DEF MoveStock, TypeOK
  <1>3. new.figure = figure[l] + c + 1 /\ new.listing = l /\ new.id = id
    BY <1>2 DEF FigureAfter
  <1>4. /\ \A q \in Requests \ {r} : pending'[q] = pending[q]
        /\ pending'[r] = pending[r] \union {new}
    BY <1>1 DEF TypeOK
  <1> HIDE DEF new
  <1>5. /\ MovesOf(r, l)' = MovesOf(r, l) \union {new}
        /\ \A q \in Requests, k \in Listings :
                q # r \/ k # l => MovesOf(q, k)' = MovesOf(q, k)
    BY <1>3, <1>4 DEF MovesOf
  <1>6. ASSUME NEW e \in MovesOf(r, l)
        PROVE  e.figure \in Nat /\ e.figure < new.figure
    <2>1. e \in pending[r] /\ e.listing = l
      BY DEF MovesOf
    <2>2. e.figure \in Nat /\ e.figure <= figure[l] + c
      BY <2>1 DEF PendingInv, TypeOK, Move
    <2> HIDE DEF c
    <2> QED
      BY <1>2, <1>3, <2>2
  <1>7. new \notin MovesOf(r, l)
    BY <1>2, <1>3, <1>6
  <1>8. Cardinality(MovesOf(r, l)') = c + 1
    BY <1>2, <1>5, <1>7, FS_AddElement
  <1> DEFINE Said(q, k) ==
                Published(MovesOf(q, k)) # {}
                    => \E p \in Published(MovesOf(q, k)) :
                            /\ \A x \in Published(MovesOf(q, k)) : x.figure <= p.figure
                            /\ p.figure + Cardinality(Unsaid(q, k))
                                    = figure[k] + Cardinality(MovesOf(q, k))
  <1>9. ASSUME NEW q \in Requests, NEW k \in Listings, q # r \/ k # l
        PROVE  Said(q, k)'
    <2>1. MovesOf(q, k)' = MovesOf(q, k)
      BY <1>5, <1>9
    <2>2. Unsaid(q, k)' = Unsaid(q, k)
      BY <2>1 DEF Unsaid
    <2>3. Said(q, k)
      BY DEF SaidInv
    <2> QED
      BY <1>2, <2>1, <2>2, <2>3
  <1>10. CASE id = nextId
    <2>1. Published(MovesOf(r, l)') = Published(MovesOf(r, l)) \union {new}
      BY <1>2, <1>3, <1>5, <1>10 DEF Published
    <2>2. \A x \in Published(MovesOf(r, l)') : x.figure <= new.figure
      <3>1. new.figure \in Nat
        BY <1>2, <1>3
      <3> HIDE DEF c
      <3> QED BY <1>6, <2>1, <3>1 DEF Published
    <2>3. Unsaid(r, l)' = {}
      <3> SUFFICES ASSUME NEW e \in MovesOf(r, l)', new.figure < e.figure PROVE FALSE
        BY <2>1 DEF Unsaid
      <3> QED BY <1>2, <1>3, <1>5, <1>6
    <2>4. Cardinality(Unsaid(r, l)') = 0
      BY <2>3, FS_EmptySet
    <2>5. Said(r, l)'
      BY <1>2, <1>3, <1>8, <2>1, <2>2, <2>4
    <2> QED
      BY <1>9, <2>5 DEF SaidInv
  <1>11. CASE id = 0
    <2>1. Published(MovesOf(r, l)') = Published(MovesOf(r, l))
      BY <1>3, <1>5, <1>11 DEF Published
    <2>2. Unsaid(r, l)' = Unsaid(r, l) \union {new}
      BY <1>5, <1>6, <2>1 DEF Unsaid, Published
    <2>3. IsFiniteSet(Unsaid(r, l)) /\ Cardinality(Unsaid(r, l)) \in Nat /\ new \notin Unsaid(r, l)
      BY <1>7, UnsaidFinite DEF Unsaid
    <2>4. Cardinality(Unsaid(r, l)') = Cardinality(Unsaid(r, l)) + 1
      BY <2>2, <2>3, FS_AddElement
    <2>5. Said(r, l)'
      <3> SUFFICES ASSUME Published(MovesOf(r, l)) # {}
                   PROVE  \E p \in Published(MovesOf(r, l)) :
                            /\ \A x \in Published(MovesOf(r, l)) : x.figure <= p.figure
                            /\ p.figure + Cardinality(Unsaid(r, l)')
                                    = figure[l] + Cardinality(MovesOf(r, l)')
        BY <1>2, <2>1
      <3>1. PICK p \in Published(MovesOf(r, l)) :
                /\ \A x \in Published(MovesOf(r, l)) : x.figure <= p.figure
                /\ p.figure + Cardinality(Unsaid(r, l)) = figure[l] + c
        BY DEF SaidInv
      <3>2. p.figure \in Nat
        BY <1>6 DEF Published
      <3>3. p.figure + Cardinality(Unsaid(r, l)') = figure[l] + Cardinality(MovesOf(r, l)')
        BY <1>2, <1>8, <2>3, <2>4, <3>1, <3>2
      <3> QED BY <3>1, <3>3
    <2> QED
      BY <1>9, <2>5 DEF SaidInv
  <1> QED
    BY <1>1, <1>10, <1>11

\* Whoever writes a figure holds its row, so nobody else has moves of it.
LEMMA SaidStep == IInv /\ SaidInv /\ [Next]_vars => SaidInv'
  <1> SUFFICES ASSUME IInv, SaidInv, [Next]_vars PROVE SaidInv'
    OBVIOUS
  <1> DEFINE Same(q, l) == MovesOf(q, l)' = MovesOf(q, l) /\ figure'[l] = figure[l]
             None(q, l) == MovesOf(q, l)' = {}
  <1>1. ASSUME \A q \in Requests, l \in Listings : Same(q, l) \/ None(q, l)
        PROVE  SaidInv'
    <2> SUFFICES ASSUME NEW q \in Requests, NEW l \in Listings,
                        Published(MovesOf(q, l)') # {}
                 PROVE  \E p \in Published(MovesOf(q, l)') :
                            /\ \A x \in Published(MovesOf(q, l)') : x.figure <= p.figure
                            /\ p.figure + Cardinality(Unsaid(q, l)')
                                    = figure'[l] + Cardinality(MovesOf(q, l)')
      BY DEF SaidInv
    <2>1. Same(q, l)
      BY <1>1 DEF Published
    <2>2. Unsaid(q, l)' = Unsaid(q, l)
      BY <2>1 DEF Unsaid
    <2> QED
      BY <2>1, <2>2 DEF SaidInv
  <1>2. ASSUME NEW r \in Requests, Commit(r) \/ Rollback(r) PROVE SaidInv'
    <2>1. /\ \A q \in Requests \ {r} : pending'[q] = pending[q]
          /\ pending'[r] = {}
      BY <1>2 DEF Commit, Rollback, IInv, TypeOK
    <2>2. ASSUME NEW q \in Requests \ {r}, NEW l \in Listings, MovesOf(q, l) # {}
          PROVE  figure'[l] = figure[l]
      <3>1. holder[l] = q
        BY <2>2 DEF IInv, LockInv, MovesOf
      <3>2. MovesOf(r, l) = {}
        BY <3>1 DEF IInv, LockInv, MovesOf
      <3>3. Cardinality(MovesOf(r, l)) = 0 /\ figure[l] \in Nat
        BY <3>2, FS_EmptySet DEF IInv, TypeOK
      <3> QED
        BY <1>2, <3>3 DEF Commit, Rollback
    <2>3. ASSUME NEW q \in Requests, NEW l \in Listings PROVE Same(q, l) \/ None(q, l)
      BY <2>1, <2>2 DEF MovesOf
    <2> QED
      BY <1>1, <2>3
  <1>3. ASSUME NEW k \in Listings, SellerSetsStock(k) PROVE SaidInv'
    <2>1. \A q \in Requests : MovesOf(q, k) = {}
      BY <1>3 DEF SellerSetsStock, IInv, LockInv, MovesOf
    <2>2. pending' = pending /\ \A l \in Listings \ {k} : figure'[l] = figure[l]
      BY <1>3 DEF SellerSetsStock, IInv, TypeOK
    <2> QED
      BY <1>1, <2>1, <2>2 DEF MovesOf
  <1>4. CASE pending' = pending /\ figure' = figure
    BY <1>1, <1>4 DEF MovesOf
  <1> QED
    BY <1>2, <1>3, <1>4, MoveStockSaid DEF Next, Begin, Poll, vars

\* A commit leaves the newest figure it published, or what was newest before.
LEMMA CommitCurrent ==
  ASSUME IInv, SaidInv, CurrentInv, NEW r \in Requests, Commit(r)
  PROVE  CurrentInv'
  <1> SUFFICES ASSUME NEW l \in Listings
               PROVE  /\ figure'[l] - silent'[l] \in Told(l)'
                      /\ \A n \in Told(l)' : n <= figure'[l] - silent'[l]
    BY DEF CurrentInv
  <1> DEFINE moves == MovesOf(r, l)
             m == Cardinality(moves)
             u == Cardinality(Unsaid(r, l))
  <1>1. m \in Nat /\ u \in Nat /\ figure[l] \in Nat /\ silent[l] \in Nat
    BY MovesOfFinite, UnsaidFinite DEF IInv, TypeOK
  <1>2. /\ figure'[l] = figure[l] + m
        /\ silent'[l] = (IF Published(moves) = {} THEN silent[l] ELSE 0) + u
        /\ log' = log \union Published(pending[r])
    BY DEF Commit
  <1>3. Told(l)' = Told(l) \union {e.figure : e \in Published(moves)}
    BY <1>2 DEF Told, Published, MovesOf
  <1>4. CASE Published(moves) = {}
    <2>1. Unsaid(r, l) = moves
      BY <1>4 DEF Unsaid
    <2>2. figure'[l] - silent'[l] = figure[l] - silent[l]
      BY <1>1, <1>2, <1>4, <2>1
    <2>3. Told(l)' = Told(l)
      BY <1>3, <1>4
    <2> QED
      BY <2>2, <2>3 DEF CurrentInv
  <1>5. CASE Published(moves) # {}
    <2>1. PICK p \in Published(moves) :
              /\ \A x \in Published(moves) : x.figure <= p.figure
              /\ p.figure + u = figure[l] + m
      BY <1>5 DEF SaidInv
    <2>2. p.figure \in Nat /\ figure[l] < p.figure
      <3>1. p \in pending[r] /\ p.listing = l
        BY <2>1 DEF Published, MovesOf
      <3> QED BY <3>1 DEF IInv, TypeOK, Move, PendingInv
    <2> HIDE DEF m, u
    <2>3. figure'[l] - silent'[l] = p.figure
      BY <1>1, <1>2, <1>5, <2>1, <2>2
    <2>4. \A n \in Told(l) : n \in Nat /\ n <= figure[l]
      BY <1>1 DEF Told, IInv, LogInv, TypeOK, Event
    <2>5. \A n \in Told(l)' : n <= p.figure
      BY <1>1, <1>3, <2>1, <2>2, <2>4
    <2>6. p.figure \in Told(l)'
      BY <1>3, <2>1
    <2> QED
      BY <2>3, <2>5, <2>6
  <1> QED
    BY <1>4, <1>5

\* A commit publishes the figures that SaidInv speaks of; nothing else publishes.
LEMMA CurrentStep == IInv /\ SaidInv /\ CurrentInv /\ [Next]_vars => CurrentInv'
  <1> SUFFICES ASSUME IInv, SaidInv, CurrentInv, [Next]_vars PROVE CurrentInv'
    OBVIOUS
  <1>1. ASSUME NEW k \in Listings, SellerSetsStock(k) PROVE CurrentInv'
    <2>1. /\ \A l \in Listings : figure'[l] - silent'[l] = figure[l] - silent[l]
          /\ log' = log
      BY <1>1 DEF SellerSetsStock, IInv, TypeOK
    <2>2. \A l \in Listings : Told(l)' = Told(l)
      BY <2>1 DEF Told
    <2> QED
      BY <2>1, <2>2 DEF CurrentInv
  <1>2. CASE UNCHANGED <<figure, silent, log>>
    BY <1>2 DEF CurrentInv, Told
  <1> QED
    BY <1>1, <1>2, CommitCurrent DEF Next, Begin, MoveStock, Rollback, Poll, vars

\* Whatever locks, rollbacks and lost emissions do, the newest figure published of a
\* listing is its stock, short of the figures committed after it without an event.
THEOREM NewestAlwaysCurrent == Spec => []NewestIsCurrent
  <1>1. Init => SaidInv /\ CurrentInv
    BY DEF Init, SaidInv, CurrentInv, Published, MovesOf, Told
  <1>2. IInv /\ CurrentInv => NewestIsCurrent
    <2> SUFFICES ASSUME IInv, CurrentInv, NEW l \in Listings
                 PROVE  figure[l] = Newest(l) + silent[l]
      BY DEF NewestIsCurrent
    <2> DEFINE now == figure[l] - silent[l]
    <2>1. figure[l] \in Nat /\ silent[l] \in Nat /\ now \in Int
      BY DEF IInv, TypeOK
    <2>2. now \in Told(l) /\ \A n \in Told(l) : n \in Int /\ now >= n
      BY <2>1 DEF CurrentInv, Told, IInv, TypeOK, Event
    <2>3. Newest(l) = CHOOSE x \in Told(l) : \A y \in Told(l) : x >= y
      BY DEF Newest, Max, Told
    <2> HIDE DEF now
    <2>4. \A x \in Told(l) : (\A y \in Told(l) : x >= y) => x = now
      BY <2>1, <2>2
    <2>5. Newest(l) = now
      BY <2>2, <2>3, <2>4
    <2> QED
      BY <2>1, <2>5 DEF now
  <1> QED
    BY <1>1, <1>2, SaidStep, CurrentStep, Invariance, PTL DEF Spec

-----------------------------------------------------------------------------
(* Delivery *)

\* A row that may still be sent has attempts left, each of them a recorded failure
RowInv ==
    \A e \in Events :
        Deliverable(e) => /\ event[e].attempts < MaxAttempts
                          /\ event[e].attempts <= failures[e]

\* So had the row that a delivery in flight read, however old the reading is
FlightInv ==
    \A d \in flight :
        /\ d.attempts < MaxAttempts
        /\ d.attempts <= failures[d.event]

DeadInv ==
    \A e \in Events : event[e].status = "dead" => failures[e] >= MaxAttempts

DeliveryInv == DeliveryTypeOK /\ RowInv /\ FlightInv /\ DeadInv

HIDE OutboundFeedAssumption
USE OutboundDeliveryAssumption
-----------------------------------------------------------------------------

LEMMA LineType ==
  ASSUME NEW line \in [Events -> Nat], NEW e \in Events
  PROVE  Joined(line, e) \in [Events -> Nat] /\ Left(line, e) \in [Events -> Nat]
  BY DEF Joined, Left

\* One more failure of e: its count passes any number below MaxAttempts it had reached
LEMMA CountedOnce ==
  ASSUME NEW count \in [Events -> 0..MaxAttempts], NEW e \in Events
  PROVE  LET more == [count EXCEPT ![e] = OneMore(@)]
         IN  /\ more \in [Events -> 0..MaxAttempts]
             /\ \A x \in Events : more[x] >= count[x]
             /\ \A n \in Nat : n < MaxAttempts /\ n <= count[e] => more[e] >= n + 1
  <1>1. /\ OneMore(count[e]) \in 0..MaxAttempts /\ OneMore(count[e]) >= count[e]
        /\ \A n \in Nat : n < MaxAttempts /\ n <= count[e] => OneMore(count[e]) >= n + 1
    BY DEF OneMore
  <1>2. \A x \in Events : count[x] >= count[x]
    OBVIOUS
  <1>3. QED
    BY <1>1, <1>2

LEMMA OldestIn ==
  ASSUME NEW S, NEW line
  PROVE  Oldest(S, line) \subseteq S
  BY DEF Oldest

LEMMA InitDelivery == DeliveryInit => DeliveryInv
  BY DEF DeliveryInit, DeliveryInv, DeliveryTypeOK, RowInv, FlightInv, DeadInv, Deliverable, EventRow, Status

\* A delivery begins with a reading of a row that may still be sent
LEMMA ReadIInv ==
  ASSUME DeliveryInv, NEW p \in Processes, NEW e \in Events, Read(p, e),
         UNCHANGED <<event, failures>>
  PROVE  flight' \subseteq Delivery /\ RowInv' /\ FlightInv' /\ DeadInv'
  <1>1. CASE UNCHANGED flight
    BY <1>1 DEF DeliveryInv, DeliveryTypeOK, RowInv, FlightInv, DeadInv, Deliverable
  <1>2. CASE /\ Deliverable(e)
             /\ flight' = flight \union {[by |-> p, event |-> e,
                                         attempts |-> event[e].attempts, post |-> webhook]}
    <2>1. [by |-> p, event |-> e, attempts |-> event[e].attempts, post |-> webhook] \in Delivery
      BY DEF DeliveryInv, DeliveryTypeOK, EventRow, Delivery
    <2>2. flight' \subseteq Delivery
      BY <1>2, <2>1 DEF DeliveryInv, DeliveryTypeOK
    <2>3. event[e].attempts < MaxAttempts /\ event[e].attempts <= failures[e]
      BY <1>2 DEF DeliveryInv, RowInv
    <2>4. FlightInv'
      BY <1>2, <2>3 DEF DeliveryInv, FlightInv
    <2>5. QED
      BY <2>2, <2>4 DEF DeliveryInv, DeliveryTypeOK, RowInv, DeadInv, Deliverable
  <1>3. QED
    BY <1>1, <1>2 DEF Read

\* The answer is recorded over whatever the row says by now
LEMMA FinishIInv ==
  ASSUME DeliveryInv, NEW d \in flight, Finish(d)
  PROVE  DeliveryInv'
  <1> DEFINE e == d.event
  <1>1. /\ e \in Events /\ d.attempts \in 0..MaxAttempts
        /\ d.attempts < MaxAttempts /\ d.attempts <= failures[e]
    BY DEF DeliveryInv, DeliveryTypeOK, FlightInv, Delivery
  <1>2. d.attempts + 1 \in 0..MaxAttempts
    BY <1>1
  <1>3. failures[e] \in 0..MaxAttempts /\ recent[e] \in 0..MaxAttempts
    BY <1>1 DEF DeliveryInv, DeliveryTypeOK
  <1>4. /\ flight' \subseteq Delivery /\ flight' \subseteq flight
        /\ UNCHANGED <<aged, jobs, webhook, sweep, retrying, overtaken, retries, losses>>
    BY DEF Finish, DeliveryInv, DeliveryTypeOK
  <1>5. CASE UNCHANGED <<event, due, failures, recent>>
    BY <1>4, <1>5 DEF DeliveryInv, DeliveryTypeOK, RowInv, FlightInv, DeadInv, Deliverable
  <1>6. CASE /\ MarkSent(d) \/ MarkSkipped(d)
             /\ due' = Left(due, e)
    <2>1. due' \in [Events -> Nat]
      BY <1>1, <1>6, LineType DEF DeliveryInv, DeliveryTypeOK
    <2>2. /\ event' \in [Events -> EventRow]
          /\ \A x \in Events \ {e} : event'[x] = event[x]
          /\ event'[e].status \in {"sent", "skipped"} /\ UNCHANGED <<failures, recent>>
      BY <1>1, <1>2, <1>6
      DEF MarkSent, MarkSkipped, DeliveryInv, DeliveryTypeOK, EventRow, Status
    <2>3. QED
      BY <1>4, <2>1, <2>2 DEF DeliveryInv, DeliveryTypeOK, RowInv, FlightInv, DeadInv, Deliverable
  <1>7. CASE MarkFailed(d) /\ due' = Left(due, e)
    <2>1. due' \in [Events -> Nat]
      BY <1>1, <1>7, LineType DEF DeliveryInv, DeliveryTypeOK
    <2> DEFINE s == IF d.attempts + 1 >= MaxAttempts THEN "dead" ELSE "failed"
    <2>2. [status |-> s, attempts |-> d.attempts + 1] \in EventRow
      BY <1>2 DEF EventRow, Status
    <2>3. event' = [event EXCEPT ![e] = [status |-> s, attempts |-> d.attempts + 1]]
      BY <1>7 DEF MarkFailed
    <2>4. /\ event' \in [Events -> EventRow]
          /\ \A x \in Events \ {e} : event'[x] = event[x]
          /\ event'[e] = [status |-> s, attempts |-> d.attempts + 1]
      BY <1>1, <2>2, <2>3 DEF DeliveryInv, DeliveryTypeOK
    <2>5. /\ failures' \in [Events -> 0..MaxAttempts]
          /\ \A x \in Events : failures'[x] >= failures[x]
          /\ failures'[e] >= d.attempts + 1
      BY <1>1, <1>3, <1>7, CountedOnce DEF MarkFailed, DeliveryInv, DeliveryTypeOK
    <2>6. recent' \in [Events -> 0..MaxAttempts]
      BY <1>1, <1>7, CountedOnce DEF MarkFailed, DeliveryInv, DeliveryTypeOK
    <2>7. RowInv'
      <3> SUFFICES ASSUME NEW x \in Events, Deliverable(x)'
                   PROVE  /\ event'[x].attempts < MaxAttempts
                          /\ event'[x].attempts <= failures'[x]
        BY DEF RowInv
      <3>1. CASE x = e
        BY <1>1, <2>4, <2>5, <3>1 DEF Deliverable
      <3>2. CASE x # e
        <4>1. Deliverable(x)
          BY <2>4, <3>2 DEF Deliverable
        <4>2. event[x].attempts \in Nat /\ failures[x] \in Nat /\ failures'[x] \in Nat
          BY <2>5 DEF DeliveryInv, DeliveryTypeOK, EventRow
        <4>3. QED
          BY <2>4, <2>5, <3>2, <4>1, <4>2 DEF DeliveryInv, RowInv
      <3>3. QED
        BY <3>1, <3>2
    <2>8. FlightInv'
      <3> SUFFICES ASSUME NEW c \in flight'
                   PROVE  c.attempts < MaxAttempts /\ c.attempts <= failures'[c.event]
        BY DEF FlightInv
      <3>1. /\ c.event \in Events /\ c.attempts \in Nat
            /\ c.attempts < MaxAttempts /\ c.attempts <= failures[c.event]
        BY <1>4 DEF DeliveryInv, DeliveryTypeOK, FlightInv, Delivery
      <3>2. failures[c.event] \in Nat /\ failures'[c.event] \in Nat
        BY <2>5, <3>1 DEF DeliveryInv, DeliveryTypeOK
      <3>3. QED
        BY <2>5, <3>1, <3>2
    <2>9. DeadInv'
      <3> SUFFICES ASSUME NEW x \in Events, event'[x].status = "dead"
                   PROVE  failures'[x] >= MaxAttempts
        BY DEF DeadInv
      <3>1. CASE x = e
        BY <1>1, <2>4, <2>5, <3>1
      <3>2. CASE x # e
        <4>1. failures[x] \in Nat /\ failures'[x] \in Nat /\ failures[x] >= MaxAttempts
          BY <2>4, <2>5, <3>2 DEF DeliveryInv, DeliveryTypeOK, DeadInv
        <4>2. QED
          BY <2>5, <4>1
      <3>3. QED
        BY <3>1, <3>2
    <2>10. QED
      BY <1>4, <2>1, <2>4, <2>5, <2>6, <2>7, <2>8, <2>9 DEF DeliveryInv, DeliveryTypeOK
  <1>8. QED
    BY <1>5, <1>6, <1>7 DEF Finish
-----------------------------------------------------------------------------

\* A row replaced by one that cannot be sent and is not given up, or that starts anew
LEMMA ReplacedRow ==
  ASSUME DeliveryInv, NEW e \in Events, NEW s \in Status \ {"failed", "dead"},
         event' = [event EXCEPT ![e] = [status |-> s, attempts |-> 0]],
         failures' = failures, flight' = flight
  PROVE  event' \in [Events -> EventRow] /\ RowInv' /\ FlightInv' /\ DeadInv'
  <1>1. [status |-> s, attempts |-> 0] \in EventRow
    BY DEF EventRow
  <1>2. /\ event' \in [Events -> EventRow]
        /\ \A x \in Events \ {e} : event'[x] = event[x]
        /\ event'[e] = [status |-> s, attempts |-> 0]
    BY <1>1 DEF DeliveryInv, DeliveryTypeOK
  <1>3. failures[e] \in Nat
    BY DEF DeliveryInv, DeliveryTypeOK
  <1>4. QED
    BY <1>2, <1>3 DEF DeliveryInv, DeliveryTypeOK, RowInv, FlightInv, DeadInv, Deliverable

LEMMA NextDelivery == DeliveryInv /\ [DeliveryNext]_deliveryVars => DeliveryInv'
  <1> SUFFICES ASSUME DeliveryInv, [DeliveryNext]_deliveryVars PROVE DeliveryInv'
    OBVIOUS
  <1> USE DEF DeliveryInv
  <1>1. ASSUME NEW e \in Events, Emit(e) PROVE DeliveryInv'
    <2>1. jobs' \in [Events -> Nat]
      BY <1>1 DEF Emit, history, DeliveryTypeOK
    <2>2. (IF webhook THEN "queued" ELSE "skipped") \in Status \ {"failed", "dead"}
      BY DEF Status
    <2>3. QED
      BY <1>1, <2>1, <2>2, ReplacedRow DEF Emit, history, DeliveryTypeOK
  <1>2. ASSUME NEW e \in Events, NEW w \in Workers, TakeJob(w, e) PROVE DeliveryInv'
    <2>1. jobs' \in [Events -> Nat]
      BY <1>2 DEF TakeJob, DeliveryTypeOK
    <2>2. w \in Processes /\ Read(w, e) /\ UNCHANGED <<event, failures>>
      BY <1>2 DEF TakeJob, Processes, history
    <2>3. QED
      BY <1>2, <2>1, <2>2, ReadIInv DEF TakeJob, DeliveryTypeOK, history
  <1>3. ASSUME NEW e \in Events, SweepNext(e) PROVE DeliveryInv'
    <2>1. Sweeper \in Processes /\ Read(Sweeper, e) /\ UNCHANGED <<event, failures>>
      BY <1>3 DEF SweepNext, Processes, history
    <2>2. sweep' \subseteq Events
      BY <1>3 DEF SweepNext, DeliveryTypeOK
    <2>3. QED
      BY <1>3, <2>1, <2>2, ReadIInv DEF SweepNext, DeliveryTypeOK, history
  <1>4. ASSUME NEW e \in Events, BeginRetry(e) PROVE DeliveryInv'
    <2>1. retrying' \subseteq Events /\ retries' \in Nat
      BY <1>4 DEF BeginRetry, DeliveryTypeOK
    <2>2. QED
      BY <1>4, <2>1 DEF BeginRetry, DeliveryTypeOK, RowInv, FlightInv, DeadInv, Deliverable
  <1>5. ASSUME NEW e \in Events, Requeue(e) PROVE DeliveryInv'
    <2>1. due' \in [Events -> Nat]
      BY <1>5, LineType DEF Requeue, DeliveryTypeOK
    <2>2. /\ jobs' \in [Events -> Nat] /\ retrying' \subseteq Events
          /\ recent' \in [Events -> 0..MaxAttempts] /\ overtaken' \subseteq Events
      BY <1>5 DEF Requeue, DeliveryTypeOK
    <2>3. "queued" \in Status \ {"failed", "dead"}
      BY DEF Status
    <2>4. event' \in [Events -> EventRow] /\ RowInv' /\ FlightInv' /\ DeadInv'
      <3>1. CASE Exists(e)
        BY <1>5, <2>3, <3>1, ReplacedRow DEF Requeue
      <3>2. CASE ~Exists(e)
        BY <1>5, <3>2 DEF Requeue, DeliveryTypeOK, RowInv, FlightInv, DeadInv, Deliverable
      <3>3. QED
        BY <3>1, <3>2
    <2>5. QED
      BY <1>5, <2>1, <2>2, <2>4 DEF Requeue, DeliveryTypeOK
  <1>6. ASSUME NEW e \in Events, Trash(e) PROVE DeliveryInv'
    <2>1. due' \in [Events -> Nat] /\ aged' \in [Events -> Nat]
      BY <1>6, LineType DEF Trash, history, DeliveryTypeOK
    <2>2. "deleted" \in Status \ {"failed", "dead"}
      BY DEF Status
    <2>3. QED
      BY <1>6, <2>1, <2>2, ReplacedRow DEF Trash, history, DeliveryTypeOK
  <1>7. ASSUME NEW e \in Events, BackoffElapses(e) \/ Ages(e) PROVE DeliveryInv'
    <2>1. due' \in [Events -> Nat] /\ aged' \in [Events -> Nat]
      BY <1>7, LineType DEF BackoffElapses, Ages, DeliveryTypeOK
    <2>2. UNCHANGED <<event, jobs, webhook, flight, sweep, retrying, history>>
      BY <1>7 DEF BackoffElapses, Ages
    <2>3. QED
      BY <2>1, <2>2 DEF history, DeliveryTypeOK, RowInv, FlightInv, DeadInv, Deliverable
  <1>8. ASSUME NEW e \in Events, LoseJob(e) PROVE DeliveryInv'
    <2>1. jobs' \in [Events -> Nat] /\ losses' \in Nat
      BY <1>8 DEF LoseJob, DeliveryTypeOK
    <2>2. QED
      BY <1>8, <2>1 DEF LoseJob, DeliveryTypeOK, RowInv, FlightInv, DeadInv, Deliverable
  <1>9. ASSUME NEW d \in flight, Killed(d) PROVE DeliveryInv'
    <2>1. sweep' \subseteq Events /\ losses' \in Nat /\ flight' \subseteq flight
      BY <1>9 DEF Killed, DeliveryTypeOK
    <2>2. QED
      BY <1>9, <2>1 DEF Killed, DeliveryTypeOK, RowInv, FlightInv, DeadInv, Deliverable
  <1>10. ASSUME StartSweep PROVE DeliveryInv'
    <2>1. Listed \subseteq Events
      BY OldestIn DEF Listed, Due, Stale
    <2>2. PICK e \in Listed : Read(Sweeper, e) /\ sweep' = Listed \ {e}
      BY <1>10 DEF StartSweep
    <2>3. Sweeper \in Processes /\ e \in Events /\ UNCHANGED <<event, failures>>
      BY <1>10, <2>1 DEF StartSweep, Processes, history
    <2>4. flight' \subseteq Delivery /\ RowInv' /\ FlightInv' /\ DeadInv'
      BY <2>2, <2>3, ReadIInv
    <2>5. QED
      BY <1>10, <2>1, <2>2, <2>4 DEF StartSweep, DeliveryTypeOK, history
  <1>11. ASSUME NEW b \in WebhookSettings, SetWebhook(b) PROVE DeliveryInv'
    <2>1. webhook' \in BOOLEAN
      BY <1>11 DEF SetWebhook
    <2>2. QED
      BY <1>11, <2>1 DEF SetWebhook, history, DeliveryTypeOK, RowInv, FlightInv, DeadInv, Deliverable
  <1>12. CASE UNCHANGED deliveryVars
    BY <1>12 DEF deliveryVars, history, DeliveryTypeOK, RowInv, FlightInv, DeadInv, Deliverable
  <1>13. QED
    BY <1>1, <1>2, <1>3, <1>4, <1>5, <1>6, <1>7, <1>8, <1>9, <1>10, <1>11, <1>12,
       FinishIInv DEF DeliveryNext

LEMMA DeliveryInvariance == DeliverySpec => []DeliveryInv
  BY InitDelivery, NextDelivery, PTL DEF DeliverySpec

-----------------------------------------------------------------------------

\* Rows, queue and deliveries keep their types; no row ever counts more attempts
\* than there are back-off intervals.
THEOREM DeliveryTypeCorrect == DeliverySpec => []DeliveryTypeOK
  <1>1. DeliveryInv => DeliveryTypeOK
    BY DEF DeliveryInv
  <1>2. QED
    BY <1>1, DeliveryInvariance, PTL

\* An event is given up only after MaxAttempts failures were really recorded for it.
THEOREM GivenUpLate == DeliverySpec => []DeadAfterAllAttempts
  <1>1. DeliveryInv => DeadAfterAllAttempts
    BY DEF DeliveryInv, RowInv, DeadInv, DeadAfterAllAttempts, Deliverable
  <1>2. QED
    BY <1>1, DeliveryInvariance, PTL

-----------------------------------------------------------------------------

\* What a row and a delivery in flight count, unless the event was retried under a
\* delivery, was recorded since its last retry
RecentInv ==
    /\ \A e \in Events \ overtaken : Deliverable(e) => event[e].attempts <= recent[e]
    /\ \A d \in flight : d.event \notin overtaken => d.attempts <= recent[d.event]
    /\ RetryCountsAnew

LEMMA ReadRecent ==
  ASSUME DeliveryInv, RecentInv, NEW p \in Processes, NEW e \in Events, Read(p, e),
         UNCHANGED <<event, recent, overtaken>>
  PROVE  RecentInv'
  <1>1. \A d \in flight' \ flight :
            d.event = e /\ d.attempts = event[e].attempts /\ Deliverable(e)
    BY DEF Read
  <1>2. \A d \in flight' : d.event \notin overtaken => d.attempts <= recent[d.event]
    BY <1>1 DEF RecentInv
  <1>3. QED
    BY <1>2 DEF RecentInv, RetryCountsAnew, Deliverable

LEMMA FinishRecent ==
  ASSUME DeliveryInv, RecentInv, NEW d \in flight, Finish(d)
  PROVE  RecentInv'
  <1> DEFINE e == d.event
  <1>1. /\ e \in Events /\ d.attempts \in Nat /\ d.attempts < MaxAttempts
        /\ e \notin overtaken => d.attempts <= recent[e]
    BY DEF DeliveryInv, DeliveryTypeOK, FlightInv, Delivery, RecentInv
  <1>2. flight' \subseteq flight /\ UNCHANGED overtaken
    BY DEF Finish
  <1>3. CASE UNCHANGED <<event, recent>>
    BY <1>2, <1>3 DEF RecentInv, RetryCountsAnew, Deliverable
  <1>4. CASE MarkSent(d) \/ MarkSkipped(d)
    <2>1. /\ \A x \in Events \ {e} : event'[x] = event[x]
          /\ event'[e].status \in {"sent", "skipped"} /\ UNCHANGED recent
      BY <1>1, <1>4 DEF MarkSent, MarkSkipped, DeliveryInv, DeliveryTypeOK, EventRow
    <2>2. QED
      BY <1>2, <2>1 DEF RecentInv, RetryCountsAnew, Deliverable
  <1>5. CASE MarkFailed(d)
    <2>1. /\ \A x \in Events \ {e} : event'[x] = event[x]
          /\ event'[e].attempts = d.attempts + 1
          /\ event'[e].status = IF d.attempts + 1 >= MaxAttempts THEN "dead" ELSE "failed"
      BY <1>1, <1>5 DEF MarkFailed, DeliveryInv, DeliveryTypeOK
    <2>2. /\ recent' \in [Events -> 0..MaxAttempts]
          /\ \A x \in Events : recent'[x] >= recent[x]
          /\ e \notin overtaken => recent'[e] >= d.attempts + 1
      BY <1>1, <1>5, CountedOnce DEF MarkFailed, DeliveryInv, DeliveryTypeOK
    <2>3. ASSUME NEW x \in Events \ overtaken
          PROVE  /\ Deliverable(x)' => event'[x].attempts <= recent'[x]
                 /\ event'[x].status = "dead" => recent'[x] >= MaxAttempts
      <3>1. CASE x = e
        BY <1>1, <2>1, <2>2, <3>1 DEF Deliverable
      <3>2. CASE x # e
        <4>1. event'[x] = event[x] /\ recent'[x] >= recent[x]
          BY <2>1, <2>2, <3>2
        <4>2. event[x].attempts \in Nat /\ recent[x] \in Nat /\ recent'[x] \in Nat
          BY <2>2 DEF DeliveryInv, DeliveryTypeOK, EventRow
        <4>3. QED
          BY <4>1, <4>2 DEF RecentInv, RetryCountsAnew, Deliverable
      <3>3. QED
        BY <3>1, <3>2
    <2>4. ASSUME NEW c \in flight', c.event \notin overtaken
          PROVE  c.attempts <= recent'[c.event]
      <3>1. c.event \in Events /\ c.attempts \in Nat /\ c.attempts <= recent[c.event]
        BY <1>2, <2>4 DEF DeliveryInv, DeliveryTypeOK, Delivery, RecentInv
      <3>2. recent[c.event] \in Nat /\ recent'[c.event] \in Nat
        BY <2>2, <3>1 DEF DeliveryInv, DeliveryTypeOK
      <3>3. QED
        BY <2>2, <3>1, <3>2
    <2>5. QED
      BY <1>2, <2>3, <2>4 DEF RecentInv, RetryCountsAnew
  <1>6. QED
    BY <1>3, <1>4, <1>5 DEF Finish

\* A retry with no delivery under way sets row and count to zero together
LEMMA RequeueRecent ==
  ASSUME DeliveryInv, RecentInv, NEW e \in Events, Requeue(e)
  PROVE  RecentInv'
  <1>1. /\ \A x \in Events \ {e} : event'[x] = event[x] /\ recent'[x] = recent[x]
        /\ recent'[e] = 0 /\ UNCHANGED flight
        /\ overtaken' \ {e} = overtaken \ {e}
        /\ e \notin overtaken' => \A d \in flight : d.event # e
    BY DEF Requeue, DeliveryInv, DeliveryTypeOK
  <1>2. event'[e].status # "dead" /\ (Deliverable(e)' => event'[e].attempts = 0)
    BY DEF Requeue, Exists, Deliverable, DeliveryInv, DeliveryTypeOK
  <1>3. \A x \in Events \ overtaken' :
            /\ Deliverable(x)' => event'[x].attempts <= recent'[x]
            /\ event'[x].status = "dead" => recent'[x] >= MaxAttempts
    BY <1>1, <1>2 DEF RecentInv, RetryCountsAnew, Deliverable
  <1>4. \A d \in flight' : d.event \notin overtaken' => d.attempts <= recent'[d.event]
    BY <1>1 DEF RecentInv, DeliveryInv, DeliveryTypeOK, Delivery
  <1>5. QED
    BY <1>3, <1>4 DEF RecentInv, RetryCountsAnew

LEMMA RecentStep == DeliveryInv /\ RecentInv /\ [DeliveryNext]_deliveryVars => RecentInv'
  <1> SUFFICES ASSUME DeliveryInv, RecentInv, [DeliveryNext]_deliveryVars PROVE RecentInv'
    OBVIOUS
  <1>1. CASE \E e \in Events : Emit(e) \/ Trash(e)
    <2>1. PICK e \in Events : Emit(e) \/ Trash(e)
      BY <1>1
    <2>2. /\ \A x \in Events \ {e} : event'[x] = event[x]
          /\ event'[e].status # "dead" /\ event'[e].attempts = 0
          /\ recent[e] \in Nat
          /\ UNCHANGED <<flight, recent, overtaken>>
      BY <2>1 DEF Emit, Trash, history, DeliveryInv, DeliveryTypeOK
    <2>3. QED
      BY <2>2 DEF RecentInv, RetryCountsAnew, Deliverable
  <1>2. CASE \E e \in Events : (\E w \in Workers : TakeJob(w, e)) \/ SweepNext(e)
    <2>1. PICK e \in Events, p \in Processes : Read(p, e) /\ UNCHANGED <<event, recent, overtaken>>
      BY <1>2 DEF TakeJob, SweepNext, history, Processes
    <2>2. QED
      BY <2>1, ReadRecent
  <1>3. CASE StartSweep
    <2>1. Listed \subseteq Events /\ Sweeper \in Processes
      BY OldestIn DEF Listed, Due, Stale, Processes
    <2>2. PICK e \in Listed : Read(Sweeper, e) /\ UNCHANGED <<event, recent, overtaken>>
      BY <1>3 DEF StartSweep, history
    <2>3. QED
      BY <2>1, <2>2, ReadRecent
  <1>4. CASE \E e \in Events : Requeue(e)
    BY <1>4, RequeueRecent
  <1>5. CASE \E d \in flight : Finish(d)
    BY <1>5, FinishRecent
  <1>6. CASE flight' \subseteq flight /\ UNCHANGED <<event, recent, overtaken>>
    BY <1>6 DEF RecentInv, RetryCountsAnew, Deliverable
  <1>7. QED
    BY <1>1, <1>2, <1>3, <1>4, <1>5, <1>6 DEF DeliveryNext, deliveryVars, history, BeginRetry,
       BackoffElapses, Ages, LoseJob, Killed, SetWebhook

\* An event is given up only after MaxAttempts failures recorded since its last retry,
\* unless a delivery was under way when it was retried.
THEOREM RetryAllowsAllAttempts == DeliverySpec => []RetryCountsAnew
  <1>1. DeliveryInit => RecentInv
    BY DEF DeliveryInit, RecentInv, RetryCountsAnew, Deliverable
  <1>2. RecentInv => RetryCountsAnew
    BY DEF RecentInv
  <1>3. QED
    BY <1>1, <1>2, RecentStep, DeliveryInvariance, PTL DEF DeliverySpec
=============================================================================
