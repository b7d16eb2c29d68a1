------------------------- MODULE MCOutboundDelivery -------------------------
(* TLC instances of OutboundDelivery. *)
EXTENDS OutboundDelivery
=============================================================================
