------------------------- MODULE MCMetricsCollector -------------------------
(***************************************************************************)
(* A small instance of MetricsCollector: batches of two events.            *)
(***************************************************************************)
EXTENDS MetricsCollector

CONSTANTS e1, e2, e3, e4, e5

FiveEvents == {e1, e2, e3, e4, e5}

=============================================================================
