------------------------- MODULE MCConnectionBridge -------------------------
(***************************************************************************)
(* A small instance of ConnectionBridge: two clients and an admin, a       *)
(* server that is an npx package and one that is deployed.                 *)
(***************************************************************************)
EXTENDS ConnectionBridge

CONSTANTS c1, c2, context7, zen, p1, p2, p3

TwoClients == {c1, c2}
TwoServers == {context7, zen}
OneNpx     == {context7}
ThreeProcesses == {p1, p2, p3}

=============================================================================
