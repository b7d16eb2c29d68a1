---------------------------- MODULE MCOrderStock ----------------------------
(* TLC instances of OrderStock. *)
EXTENDS OrderStock, TLC

CONSTANTS l1, l2

\* One unit, two units, or one of the tracked and one of the backordered listing
MCBaskets ==
    {[l \in Listings |-> IF l = l1 THEN 1 ELSE 0],
     [l \in Listings |-> IF l = l1 THEN 2 ELSE 0]}
    \union (IF l2 \in Listings THEN {[l \in Listings |-> 1]} ELSE {})

Symmetry == Permutations(Sessions) \union Permutations(Orders)
=============================================================================
