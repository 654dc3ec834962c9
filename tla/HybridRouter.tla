---------------------------- MODULE HybridRouter ----------------------------
(***************************************************************************)
(* Routing requests to OpenRouter or to an MCP server                      *)
(* (src/mcp_integration/hybrid_router.py), together with the OpenRouter    *)
(* client (openrouter_client.py) and the breaker named "openrouter" that   *)
(* the two share.                                                          *)
(*                                                                         *)
(* The breaker is the gate of CircuitGate, its steps written as functions: *)
(* an orchestration opens its connection from within the breaker and       *)
(* through the breaker, so that two calls, one inside the other, may report*)
(* in one uninterrupted step.                                              *)
(***************************************************************************)
EXTENDS Integers

CONSTANTS
    Requests,          \* coroutines that call the router, one request at a time
    Strategies,        \* the strategies a router may be configured with
    Percentages,       \* values of openrouter_traffic_percentage; 0 is no rollout
    SuccessThreshold,  \* of the breaker
    MaxRetries         \* of the breaker's call_async

ASSUME RouterAssumption ==
    /\ Strategies \subseteq {"openrouter_primary", "mcp_primary", "round_robin",
                             "load_balanced", "capability_based"}
    /\ Percentages \subseteq 0..100
    /\ SuccessThreshold \in Nat \ {0}
    /\ MaxRetries \in Nat

Operator == "operator"    \* whoever connects and disconnects the router
ASSUME OperatorAssumption == Operator \notin Requests

Callers == Requests \union {Operator}

VARIABLES
    breaker,     \* the shared breaker: gate, and successes since half open
    session,     \* openrouter_client.session is set
    mcp_state,   \* mcp_client.connection_state
    strategy,    \* self.strategy, fixed when the router is created
    percentage,  \* self.openrouter_traffic_percentage
    parity,      \* self._request_counter % 2, all that ROUND_ROBIN reads of it
    call         \* what each caller is doing

routing == <<strategy, percentage, parity>>
vars    == <<breaker, session, mcp_state, routing, call>>

\* A caller is "orchestrating" while its steps run, and "connecting" in the
\* connection it opens first; the "backing_off" ones sleep between attempts of
\* the one or the other.  answer is how its last request ended:
\* with the work done ("fine"), with error responses, or with an exception.
Idle == [pc |-> "idle", fallback |-> FALSE, mcp_failed |-> FALSE,
         attempt |-> 0, connect_attempt |-> 0, answer |-> "fine"]

Ended(c, answer) ==
    [Idle EXCEPT !.answer = answer,
                 !.mcp_failed = call[c].mcp_failed /\ answer # "fine"]

Init ==
    /\ breaker = [gate |-> "closed", votes |-> 0]
    /\ session = FALSE
    /\ mcp_state = "disconnected"
    /\ strategy \in Strategies
    /\ percentage \in Percentages
    /\ parity = 0
    /\ call = [c \in Callers |-> Idle]

-----------------------------------------------------------------------------
(* The breaker, as its clients see it.                                     *)

\* What a caller finds at the door: it is let through, and an open gate whose
\* time has come becomes half open by it.  Whether it has come is left open.
Through(b) == IF b.gate = "open" THEN [gate |-> "half_open", votes |-> 0] ELSE b

Confirmed(b) ==
    IF b.gate # "half_open" THEN b
    ELSE IF b.votes + 1 >= SuccessThreshold THEN [gate |-> "closed", votes |-> 0]
    ELSE [b EXCEPT !.votes = @ + 1]

\* A failure may be the one that opens the gate.
Disappointed(b) == { [gate |-> g, votes |-> 0] : g \in {b.gate, "open"} }

Blocked == breaker.gate = "open"

-----------------------------------------------------------------------------
(* The decision.                                                           *)

\* _is_openrouter_available, with the breaker enabled: half open will do.
OpenRouterAvailable == breaker.gate # "open"

\* _is_mcp_available: a client whose connect failed is FAILED, not DISCONNECTED.
McpAvailable == mcp_state # "disconnected"

Decision(service, fallback) == [service |-> service, fallback |-> fallback]

FirstOpenRouter_Fault == IF OpenRouterAvailable THEN Decision("openrouter", McpAvailable)
                                                ELSE Decision("mcp", FALSE)

FirstOpenRouter == IF OpenRouterAvailable THEN Decision("openrouter", TRUE)
                                          ELSE Decision("mcp", FALSE)

FirstMcp == Decision("mcp", OpenRouterAvailable)

\* The share of the traffic, by a hash of the request's id.
RolledOut == { IF hash < percentage THEN FirstOpenRouter ELSE FirstMcp : hash \in {0, 99} }

\* The tail of ROUND_ROBIN and LOAD_BALANCED: the other service if the chosen
\* one is not available, without another look at that one.
Balanced(choice) ==
    Decision(IF choice = "openrouter"
               THEN IF OpenRouterAvailable THEN "openrouter" ELSE "mcp"
               ELSE IF McpAvailable THEN "mcp" ELSE "openrouter",
             TRUE)

\* LOAD_BALANCED looks at counts of past requests, CAPABILITY_BASED at the kind
\* of the steps: either may go either way.
ByStrategy ==
    CASE strategy = "openrouter_primary" -> {FirstOpenRouter}
      [] strategy = "mcp_primary"        -> {FirstMcp}
      [] strategy = "round_robin"        ->
             { Balanced(IF (parity + 2) % 2 = 0 THEN "openrouter" ELSE "mcp") }
      [] strategy = "load_balanced"      -> { Balanced(s) : s \in {"openrouter", "mcp"} }
      [] strategy = "capability_based"   ->
             { FirstMcp, [FirstOpenRouter EXCEPT !.fallback = TRUE] }

RoutingDecisions == IF percentage > 0 THEN RolledOut ELSE ByStrategy

\* Each request takes a number for its id; ROUND_ROBIN, which alone reads the
\* counter, takes another unless the rollout decides.
CountRequest ==
    parity' = IF strategy = "round_robin" /\ percentage > 0 THEN 1 - parity ELSE parity

-----------------------------------------------------------------------------
(* A request and the OpenRouter client.                                    *)

\* Let in, a caller runs its steps, or opens a session first; the session is
\* set before it is known to work.  Refused, it does not learn so: the client
\* turns CircuitBreakerOpenError into responses that say "unavailable".
EnterOpenRouter(c, record) ==
    \/ /\ breaker' = Through(breaker)
       /\ session' = TRUE
       /\ call' = [call EXCEPT ![c] = [record EXCEPT !.pc = IF session THEN "orchestrating"
                                                                     ELSE "connecting"]]
    \/ /\ Blocked
       /\ call' = [call EXCEPT ![c] = [record EXCEPT !.pc = "idle", !.answer = "errors"]]
       /\ UNCHANGED <<breaker, session>>

\* The router asks the chosen service.
Ask(c, decision) ==
    LET record == [Idle EXCEPT !.fallback = decision.fallback]
    IN  \/ /\ decision.service = "openrouter"
           /\ EnterOpenRouter(c, record)
        \/ /\ decision.service = "mcp"
           /\ call' = [call EXCEPT ![c] = [record EXCEPT !.pc = "asking_mcp"]]
           /\ UNCHANGED <<breaker, session>>

Orchestrate(c) ==
    /\ call[c].pc = "idle"
    /\ \E decision \in RoutingDecisions : Ask(c, decision)
    /\ CountRequest
    /\ UNCHANGED <<mcp_state, strategy, percentage>>

\* What the OpenRouter client does to validate a query is local.
Validate(c) ==
    /\ call[c].pc = "idle"
    /\ \E decision \in RoutingDecisions :
          call' = [call EXCEPT ![c] =
                     IF decision.service = "openrouter" THEN Idle
                     ELSE [Idle EXCEPT !.pc = "validating", !.fallback = decision.fallback]]
    /\ CountRequest
    /\ UNCHANGED <<breaker, session, mcp_state, strategy, percentage>>

\* What follows an exception of the OpenRouter client: the MCP server if there
\* is a fallback left, else the end.
GiveUpOpenRouter(c) ==
    IF call[c].fallback THEN [Idle EXCEPT !.pc = "asking_mcp"] ELSE Ended(c, "failed")

\* The loop of call_async, for the orchestration and for the connection.
AttemptsLeft_Fault(n) == n <= MaxRetries
AttemptsLeft(n) == n < MaxRetries

NextAttempt_Fault(n) == n
NextAttempt(n) == n + 1

\* An exception out of the protected function: recorded by breaker b, then
\* another attempt unless it was the last.
CallRaises(c, b) ==
    /\ breaker' \in Disappointed(b)
    /\ call' = [call EXCEPT ![c] =
                  IF AttemptsLeft(call[c].attempt)
                    THEN [call[c] EXCEPT !.pc = "backing_off", !.connect_attempt = 0]
                    ELSE GiveUpOpenRouter(c)]

\* The steps are over.  A step that fails becomes an error response; the call
\* returns, and is a success to the breaker and to the router.
StepsRaise_Fault == TRUE
StepsRaise == FALSE

StepsEnd(c) ==
    /\ call[c].pc = "orchestrating"
    /\ \/ /\ breaker' = Confirmed(breaker)
          /\ \E answer \in {"fine", "errors"} : call' = [call EXCEPT ![c] = Ended(c, answer)]
       \/ StepsRaise /\ CallRaises(c, breaker)
    /\ UNCHANGED <<session, mcp_state, routing>>

\* The router's connect goes on with the MCP client, which has a session from
\* before its handshake until that fails.
ConnectMcp(b) ==
    /\ breaker' = b
    /\ mcp_state' = "connecting"
    /\ call' = [call EXCEPT ![Operator] = [Idle EXCEPT !.pc = "connecting_mcp"]]

\* connect returned, to the router or to the orchestration it was part of; the
\* latter goes on if there is a session, whatever was returned.
ConnectReturns(c, b) ==
    \/ c = Operator /\ ConnectMcp(b)
    \/ /\ c # Operator
       /\ IF session THEN /\ breaker' = b
                          /\ call' = [call EXCEPT ![c].pc = "orchestrating",
                                                  ![c].connect_attempt = 0]
                     ELSE CallRaises(c, b)
       /\ UNCHANGED mcp_state

\* Any HTTP answer will do: a bad one makes connect return False.
ConnectAnswered(c) ==
    /\ call[c].pc = "connecting"
    /\ ConnectReturns(c, Confirmed(breaker))
    /\ UNCHANGED <<session, routing>>

\* No answer: connect raises, and after its last attempt so does the
\* orchestration it was part of, to the same breaker.
ConnectRaises(c) ==
    /\ call[c].pc = "connecting"
    /\ \E b \in Disappointed(breaker) :
          \/ /\ AttemptsLeft(call[c].connect_attempt)
             /\ breaker' = b
             /\ call' = [call EXCEPT ![c].pc = "connect_backing_off"]
             /\ UNCHANGED mcp_state
          \/ /\ ~AttemptsLeft(call[c].connect_attempt)
             /\ \/ c = Operator /\ ConnectMcp(b)
                \/ c # Operator /\ CallRaises(c, b) /\ UNCHANGED mcp_state
    /\ UNCHANGED <<session, routing>>

\* The sleep of connect ends; an open breaker makes connect return False.
ConnectRetries(c) ==
    /\ call[c].pc = "connect_backing_off"
    /\ \/ /\ breaker' = Through(breaker)
          /\ session' = TRUE
          /\ call' = [call EXCEPT ![c].pc = "connecting", ![c].connect_attempt = NextAttempt(@)]
          /\ UNCHANGED mcp_state
       \/ /\ Blocked
          /\ ConnectReturns(c, breaker)
          /\ UNCHANGED session
    /\ UNCHANGED <<routing>>

\* The sleep of the orchestration ends.
CallRetries(c) ==
    /\ call[c].pc = "backing_off"
    /\ EnterOpenRouter(c, [call[c] EXCEPT !.attempt = NextAttempt(@)])
    /\ UNCHANGED <<mcp_state, routing>>

-----------------------------------------------------------------------------
(* A request and the MCP client, whose own retries are part of the call.   *)

McpSession == mcp_state \in {"connecting", "connected"}

McpAnswers(c) ==
    /\ call[c].pc \in {"asking_mcp", "validating"}
    /\ McpSession
    /\ call' = [call EXCEPT ![c] = Ended(c, "fine")]
    /\ UNCHANGED <<breaker, session, mcp_state, routing>>

\* The fallback is asked at once, if the decision left one: the local
\* validation answers, the orchestration goes through the breaker.
McpFails(c) ==
    /\ \/ /\ call[c].pc = "asking_mcp"
          /\ call[c].fallback
          /\ EnterOpenRouter(c, [call[c] EXCEPT !.fallback = FALSE, !.mcp_failed = TRUE])
       \/ /\ call[c].pc = "validating"
          /\ call[c].fallback
          /\ call' = [call EXCEPT ![c] = Idle]
          /\ UNCHANGED <<breaker, session>>
       \/ /\ call[c].pc \in {"asking_mcp", "validating"}
          /\ ~call[c].fallback
          /\ call' = [call EXCEPT ![c] = [Idle EXCEPT !.mcp_failed = TRUE, !.answer = "failed"]]
          /\ UNCHANGED <<breaker, session>>
    /\ UNCHANGED <<mcp_state, routing>>

\* The coroutine is cancelled: no exception the client, the breaker or the
\* router would notice.
Cancel(c) ==
    /\ call[c].pc # "idle"
    /\ call' = [call EXCEPT ![c] = Idle]
    /\ UNCHANGED <<breaker, session, mcp_state, routing>>

-----------------------------------------------------------------------------
(* The operator: connect and disconnect, one service after the other, and  *)
(* the share of the rollout.                                               *)

Connect ==
    /\ call[Operator].pc = "idle"
    /\ \/ /\ breaker' = Through(breaker)
          /\ session' = TRUE
          /\ call' = [call EXCEPT ![Operator] = [Idle EXCEPT !.pc = "connecting"]]
          /\ UNCHANGED mcp_state
       \/ Blocked /\ ConnectMcp(breaker) /\ UNCHANGED session
    /\ UNCHANGED <<routing>>

McpConnected ==
    /\ call[Operator].pc = "connecting_mcp"
    /\ mcp_state' \in {"connected", "failed"}
    /\ call' = [call EXCEPT ![Operator] = Idle]
    /\ UNCHANGED <<breaker, session, routing>>

Disconnect ==
    /\ call[Operator].pc = "idle"
    /\ session' = FALSE
    /\ call' = [call EXCEPT ![Operator].pc = "disconnecting_mcp"]
    /\ UNCHANGED <<breaker, mcp_state, routing>>

DisconnectMcp ==
    /\ call[Operator].pc = "disconnecting_mcp"
    /\ mcp_state' = "disconnected"
    /\ call' = [call EXCEPT ![Operator] = Idle]
    /\ UNCHANGED <<breaker, session, routing>>

\* set_traffic_percentage
SetTraffic ==
    /\ percentage' \in Percentages \ {percentage}
    /\ UNCHANGED <<breaker, session, mcp_state, strategy, parity, call>>

-----------------------------------------------------------------------------
(* A caller that waits for a service, or sleeps, goes on. *)
OpenRouterStep(c) ==
    \/ StepsEnd(c)
    \/ ConnectAnswered(c) \/ ConnectRaises(c)
    \/ ConnectRetries(c) \/ CallRetries(c)

McpStep(c) == McpAnswers(c) \/ McpFails(c)

OperatorStep == McpConnected \/ DisconnectMcp

Next ==
    \/ \E c \in Requests : Orchestrate(c) \/ Validate(c) \/ McpStep(c) \/ Cancel(c)
    \/ \E c \in Callers : OpenRouterStep(c)
    \/ Connect \/ Disconnect \/ OperatorStep
    \/ SetTraffic

Spec == Init /\ [][Next]_vars

\* The event loop wakes sleepers, and clients have timeouts: whatever a caller
\* waits for ends.
FairSpec ==
    /\ Spec
    /\ \A c \in Callers : WF_vars(OpenRouterStep(c))
    /\ \A c \in Requests : WF_vars(McpStep(c))
    /\ WF_vars(OperatorStep)

-----------------------------------------------------------------------------
(* Properties.                                                             *)

\* The variables have values of their types, and no retry is beyond the last.
TypeOK ==
    /\ breaker \in [gate : {"closed", "open", "half_open"}, votes : 0..SuccessThreshold]
    /\ session \in BOOLEAN
    /\ mcp_state \in {"disconnected", "connecting", "connected", "failed"}
    /\ strategy \in Strategies /\ percentage \in Percentages /\ parity \in {0, 1}
    /\ call \in [Callers ->
          [pc : {"idle", "orchestrating", "connecting", "backing_off", "connect_backing_off",
                 "asking_mcp", "validating", "connecting_mcp", "disconnecting_mcp"},
           fallback : BOOLEAN, mcp_failed : BOOLEAN,
           attempt : 0..MaxRetries, connect_attempt : 0..MaxRetries,
           answer : {"fine", "errors", "failed"}]]

\* A request is failed only after the MCP server was asked in vain, as first
\* choice or as fallback, although a decision taken while OpenRouter was not
\* available leaves no fallback and may be stale when the answer comes.
FailsOnlyWithMcp ==
    \A c \in Requests : call[c].answer = "failed" => call[c].mcp_failed

\* Requests that find a session never open the breaker, whatever OpenRouter
\* does: only a connection that is being opened can.
OnlyConnectingTrips ==
    [][ breaker.gate # "open" /\ breaker'.gate = "open"
          => \E c \in Callers : call[c].pc = "connecting" /\ call'[c].pc # "connecting" ]_vars

\* Every request ends, through nested retries, fallbacks and refusals.
RequestsEnd == \A c \in Requests : call[c].pc # "idle" ~> call[c].pc = "idle"

=============================================================================
