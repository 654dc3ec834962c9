------------------------ MODULE MCHealthMonitoring ------------------------
(***************************************************************************)
(* A small instance of HealthMonitoring.                                   *)
(***************************************************************************)
EXTENDS HealthMonitoring

CONSTANTS s1, s2

TwoStoppers == {s1, s2}

=============================================================================
