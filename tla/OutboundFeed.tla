---------------------------- MODULE OutboundFeed ----------------------------
(***************************************************************************)
(* The feed of stock events: emit_stock_change (integration/outbound.py)   *)
(* inside the transactions of utils/stock.py, and the polling endpoint     *)
(* changes of api/v1/catalog.py.                                           *)
(*                                                                         *)
(* An order's transaction moves the stock of its listings one after the    *)
(* other, keeps the row lock of each to its end, and inserts one event per *)
(* move.  Ids come from a counter that no rollback gives back, so a        *)
(* transaction may make visible an id lower than one already polled.       *)
(*                                                                         *)
(* A figure stands for the stock, reserved and available quantities of a   *)
(* listing: each move makes a new one.  OrderStock says what they are.     *)
(* Events deleted with their listing are left to OutboundDelivery.         *)
(*                                                                         *)
(* An operator named ...Mutant is the definition after it with one         *)
(* plausible bug; no specification uses it.                                *)
(***************************************************************************)
EXTENDS Integers, Sequences, FiniteSets, FiniteSetsExt

CONSTANTS
    Requests,   \* transactions that may be open together
    Listings,
    Moves,      \* what a request does: sequences of listings, one per move
    NoRequest,
    PageLimit,  \* the limit of a poll, at most MAX_CHANGES_PAGE
    MaxId,      \* bound: ids given out
    MaxFigure   \* bound: figures of a listing

ASSUME OutboundFeedAssumption ==
    /\ NoRequest \notin Requests
    /\ Moves \subseteq Seq(Listings)
    /\ PageLimit \in Nat \ {0}
    /\ MaxId \in Nat /\ MaxFigure \in Nat

VARIABLES
    figure,    \* tabListing, committed
    silent,    \* history: figures of a listing committed since its last event
    holder,    \* the request that holds the row lock of a listing
    todo,      \* the moves a request has still to make
    pending,   \* the moves and events of a request, uncommitted
    nextId,
    log,       \* tabCatalog Outbound Event, committed
    cursor     \* since: the poller's next_since

vars == <<figure, silent, holder, todo, pending, nextId, log, cursor>>

Event == [id: Nat \ {0}, listing: Listings, figure: Nat]
\* A move whose event could not be inserted has id 0: the error is only logged
Move  == [id: Nat, listing: Listings, figure: Nat]

PublishedMutant(moves) == moves
Published(moves) == {e \in moves : e.id > 0}
MovesOf(r, l) == {e \in pending[r] : e.listing = l}

-----------------------------------------------------------------------------

Begin(r, moves) ==
    /\ todo[r] = <<>> /\ pending[r] = {}
    /\ todo' = [todo EXCEPT ![r] = moves]
    /\ UNCHANGED <<figure, silent, holder, pending, nextId, log, cursor>>

\* The figure of the row as the transaction sees it after n moves of its own;
\* the mutant reads it before the UPDATE.
FigureAfterMutant(l, n) == figure[l] + n - 1
FigureAfter(l, n) == figure[l] + n

\* _lock_listing_row before each read-modify-write
FreeForMutant(l, r) == TRUE
FreeFor(l, r) == holder[l] \in {NoRequest, r}

\* One move under the row lock: UPDATE, _recalculate_available, emit_stock_change
MoveStock(r) ==
    /\ todo[r] # <<>>
    /\ nextId <= MaxId
    /\ LET l == Head(todo[r])
           n == Cardinality(MovesOf(r, l)) + 1
       IN  /\ FreeFor(l, r)
           /\ figure[l] + n <= MaxFigure
           /\ holder' = [holder EXCEPT ![l] = r]
           /\ \E id \in {nextId, 0} :
                /\ pending' = [pending EXCEPT ![r] = @ \union
                        {[id |-> id, listing |-> l, figure |-> FigureAfter(l, n)]}]
                /\ nextId' = IF id = 0 THEN nextId ELSE nextId + 1
    /\ todo' = [todo EXCEPT ![r] = Tail(@)]
    /\ UNCHANGED <<figure, silent, log, cursor>>

Released(r) == [l \in Listings |-> IF holder[l] = r THEN NoRequest ELSE holder[l]]

\* Figures a request has made of a listing after its last event of it
Unsaid(r, l) ==
    {e \in MovesOf(r, l) :
        \A p \in Published(MovesOf(r, l)) : p.figure < e.figure}

Commit(r) ==
    /\ todo[r] = <<>> /\ pending[r] # {}
    /\ figure' = [l \in Listings |-> figure[l] + Cardinality(MovesOf(r, l))]
    /\ silent' = [l \in Listings |->
            (IF Published(MovesOf(r, l)) = {} THEN silent[l] ELSE 0)
                + Cardinality(Unsaid(r, l))]
    /\ log' = log \union Published(pending[r])
    /\ pending' = [pending EXCEPT ![r] = {}]
    /\ holder' = Released(r)
    /\ UNCHANGED <<todo, nextId, cursor>>

\* A throw, a deadlock with another request, a lost connection
Rollback(r) ==
    /\ todo[r] # <<>> \/ pending[r] # {}
    /\ todo' = [todo EXCEPT ![r] = <<>>]
    /\ pending' = [pending EXCEPT ![r] = {}]
    /\ holder' = Released(r)
    /\ UNCHANGED <<figure, silent, nextId, log, cursor>>

\* update_stock recalculates without a reason: no event, no echo
SellerSetsStock(l) ==
    /\ holder[l] = NoRequest
    /\ figure[l] < MaxFigure
    /\ figure' = [figure EXCEPT ![l] = @ + 1]
    /\ silent' = [silent EXCEPT ![l] = @ + 1]
    /\ UNCHANGED <<holder, todo, pending, nextId, log, cursor>>

\* changes(since = cursor, limit): the first PageLimit ids above the cursor
Page == {e \in log : /\ e.id > cursor
                     /\ Cardinality({x \in log : cursor < x.id /\ x.id < e.id}) < PageLimit}

Poll ==
    /\ \E e \in Page : /\ \A x \in Page : x.id <= e.id
                      /\ cursor' = e.id
    /\ UNCHANGED <<figure, silent, holder, todo, pending, nextId, log>>

-----------------------------------------------------------------------------

Init ==
    /\ figure = [l \in Listings |-> 0] /\ silent = [l \in Listings |-> 0]
    /\ holder = [l \in Listings |-> NoRequest]
    /\ todo = [r \in Requests |-> <<>>]
    /\ pending = [r \in Requests |-> {}]
    /\ nextId = 1
    /\ log = {}
    /\ cursor = 0

Next ==
    \/ \E r \in Requests :
        \/ \E moves \in Moves : Begin(r, moves)
        \/ MoveStock(r)
        \/ Commit(r)
        \/ Rollback(r)
    \/ \E l \in Listings : SellerSetsStock(l)
    \/ Poll

Spec == Init /\ [][Next]_vars

-----------------------------------------------------------------------------
(* Properties *)

TypeOK ==
    /\ figure \in [Listings -> Nat] /\ silent \in [Listings -> Nat]
    /\ holder \in [Listings -> Requests \union {NoRequest}]
    /\ todo \in [Requests -> Seq(Listings)]
    /\ pending \in [Requests -> SUBSET Move]
    /\ nextId \in Nat \ {0}
    /\ log \subseteq Event
    /\ cursor \in Nat

Newest(l) == Max({e.figure : e \in {x \in log : x.listing = l}} \union {0})

\* The newest figure published of a listing is its stock, short of the figures that
\* were committed after it without an event: the seller's own, and lost emissions.
NewestIsCurrent == \A l \in Listings : figure[l] = Newest(l) + silent[l]

\* The events of one listing become visible in the order of their ids and of their
\* figures, so a reader that goes by ids never puts an old figure over a new one.
ListingInOrder ==
    [][\A e \in log' \ log, f \in log :
            e.listing = f.listing => f.id < e.id /\ f.figure < e.figure]_vars

-----------------------------------------------------------------------------

\* "Who cannot receive webhooks gets everything from `changes`": no event becomes
\* visible behind the cursor, where no poll will look again.
NothingSkipped == [][\A e \in log' \ log : e.id > cursor]_vars
=============================================================================
