-------------------------- MODULE MCCircuitBreaker --------------------------
(* Three goroutines of the probe; any three will do.                       *)
EXTENDS CircuitBreaker, TLC

CONSTANTS c1, c2, c3

AnyOrder == Permutations(Callers)
=============================================================================
