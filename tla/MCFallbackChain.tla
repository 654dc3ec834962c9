-------------------------- MODULE MCFallbackChain --------------------------
(***************************************************************************)
(* A small instance of FallbackChain: two concurrent requests.             *)
(***************************************************************************)
EXTENDS FallbackChain

CONSTANTS r1, r2

TwoRequests == {r1, r2}

=============================================================================
