---------------------------- MODULE CircuitGate ----------------------------
(***************************************************************************)
(* What a circuit breaker promises its clients, without counters of        *)
(* failures, timers or retries: a gate that is closed (traffic flows),     *)
(* open (nobody passes) or half open (recovery is being tested).           *)
(*                                                                         *)
(* An open gate is left only by letting one client through to test the     *)
(* service, and a half-open gate closes only on Needed confirmations in a  *)
(* row that came in since it became half open; nobody but the operator may *)
(* do otherwise.  When the gate opens is left to the implementation, but   *)
(* only bad news may open it.                                              *)
(*                                                                         *)
(* A client that comes back without news, because it was cancelled, leaves *)
(* the confirmations as they are; the gate does not see why it came back.  *)
(***************************************************************************)
EXTENDS Integers

CONSTANTS Clients, Needed

VARIABLES
    gate,    \* "closed", "open" or "half_open"
    votes,   \* confirmations in a row since the gate became half open
    inside   \* the clients that have passed and not yet come back

gateVars == <<gate, votes, inside>>

Init == gate = "closed" /\ votes = 0 /\ inside = {}

Pass(c) ==
    /\ c \notin inside
    /\ gate # "open"
    /\ inside' = inside \union {c}
    /\ UNCHANGED <<gate, votes>>

Probe(c) ==
    /\ c \notin inside
    /\ gate = "open"
    /\ gate' = "half_open"
    /\ votes' = 0
    /\ inside' = inside \union {c}

Back(c) == c \in inside /\ inside' = inside \ {c}

GoodNews(c) ==
    /\ Back(c)
    /\ \/ gate # "half_open" /\ UNCHANGED <<gate, votes>>
       \/ /\ gate = "half_open" /\ votes + 1 < Needed
          /\ votes' = votes + 1
          /\ UNCHANGED gate
       \/ /\ gate = "half_open" /\ votes + 1 >= Needed
          /\ gate' = "closed"
          /\ votes' = 0

BadNews ==
    /\ gate' \in {gate, "open"}
    /\ votes' = 0

NoNews(c) == Back(c) /\ UNCHANGED <<gate, votes>>

Override ==
    /\ gate' \in {"closed", "open"}
    /\ votes' = 0
    /\ UNCHANGED inside

Next ==
    \/ \E c \in Clients : \/ Pass(c) \/ Probe(c) \/ GoodNews(c) \/ NoNews(c)
                          \/ Back(c) /\ BadNews
    \/ BadNews /\ UNCHANGED inside
    \/ Override

Spec == Init /\ [][Next]_gateVars

=============================================================================
