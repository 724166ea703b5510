--------------------------- MODULE MCCircuitBreaker ---------------------------
(* One breaker with three callers; see the README for the bounds. *)
EXTENDS CircuitBreaker, TLC

CONSTANTS c1, c2, c3

MCCallers == {c1, c2, c3}
=============================================================================
