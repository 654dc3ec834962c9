------------------------- MODULE MCFallbackBreaker -------------------------
(***************************************************************************)
(* A small instance of FallbackBreaker: two clients, one of them impatient.*)
(***************************************************************************)
EXTENDS FallbackBreaker

CONSTANTS c1, c2

TwoClients   == {c1, c2}
OneImpatient == {c1}

=============================================================================
