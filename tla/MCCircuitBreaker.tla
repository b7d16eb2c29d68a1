-------------------------- MODULE MCCircuitBreaker --------------------------
(* TLC instances of CircuitBreaker. *)
EXTENDS CircuitBreaker
=============================================================================
