-------------------------- MODULE MCCircuitBreaker --------------------------
(***************************************************************************)
(* A small instance of CircuitBreaker: two coroutines and two threads.     *)
(***************************************************************************)
EXTENDS CircuitBreaker

CONSTANTS a1, a2, t1, t2

TwoCoroutines == {a1, a2}
TwoThreads    == {t1, t2}

=============================================================================
