-------------------------- MODULE MCZenResilience --------------------------
(***************************************************************************)
(* A small instance of ZenResilience: three requests, one of them          *)
(* impatient.                                                              *)
(***************************************************************************)
EXTENDS ZenResilience

CONSTANTS r1, r2, r3

ThreeRequests == {r1, r2, r3}
OneImpatient  == {r3}

=============================================================================
