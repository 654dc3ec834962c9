--------------------------- MODULE MCHybridRouter ---------------------------
(***************************************************************************)
(* A small instance of HybridRouter: two requests, two strategies, and a   *)
(* rollout that is off or partial.                                         *)
(***************************************************************************)
EXTENDS HybridRouter

CONSTANTS r1, r2

TwoRequests == {r1, r2}

\* The decisions of the other strategies are among those of these two and of a
\* partial rollout.
TwoStrategies == {"round_robin", "capability_based"}

OffPartial == {0, 50}

=============================================================================
