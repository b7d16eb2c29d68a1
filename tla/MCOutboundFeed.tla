--------------------------- MODULE MCOutboundFeed ---------------------------
(* TLC instances of OutboundFeed. *)
EXTENDS OutboundFeed, TLC

CONSTANTS l1, l2

\* A deferred order of each listing or of both, either way round, and an order
\* paid at once, which reserves and deducts
MCMoves == {<<l1>>, <<l2>>, <<l1, l2>>, <<l2, l1>>, <<l1, l1>>}

Symmetry == Permutations(Requests)
=============================================================================
