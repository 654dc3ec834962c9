------------------------ MODULE McpIntegrationProofs ------------------------
(***************************************************************************)
(* Proofs about the two components of src/mcp_integration: HybridRouter,   *)
(* for any requests, strategies, shares of the rollout and numbers of      *)
(* retries, and ConnectionBridge, for any clients, servers and processes.  *)
(***************************************************************************)
EXTENDS HybridRouter, ConnectionBridge, TLAPS

Breakers == [gate : {"closed", "open", "half_open"}, votes : 0..SuccessThreshold]

Records ==
    [pc : {"idle", "orchestrating", "connecting", "backing_off", "connect_backing_off",
           "asking_mcp", "validating", "connecting_mcp", "disconnecting_mcp"},
     fallback : BOOLEAN, mcp_failed : BOOLEAN,
     attempt : 0..MaxRetries, connect_attempt : 0..MaxRetries,
     answer : {"fine", "errors", "failed"}]

\* Whoever sleeps has an attempt left.
RetryLeft(r) ==
    /\ r.pc = "backing_off" => r.attempt < MaxRetries
    /\ r.pc = "connect_backing_off" => r.connect_attempt < MaxRetries

AtOpenRouter(r) == r.pc \in {"orchestrating", "connecting", "backing_off", "connect_backing_off"}

\* A request that is at OpenRouter and has no fallback comes from the MCP server.
McpAsked(r) ==
    /\ AtOpenRouter(r) /\ ~r.fallback => r.mcp_failed
    /\ r.answer = "failed" => r.mcp_failed

IInv ==
    /\ TypeOK
    /\ \A c \in Callers : RetryLeft(call[c])
    /\ \A c \in Requests : McpAsked(call[c])

-----------------------------------------------------------------------------
(* What the operators give. *)

LEMMA BreakerSteps ==
    ASSUME NEW b \in Breakers
    PROVE  /\ Through(b) \in Breakers /\ Through(b).gate # "open"
           /\ Confirmed(b) \in Breakers /\ (Confirmed(b).gate = "open" => b.gate = "open")
           /\ Disappointed(b) \subseteq Breakers
<1>1. 0 \in 0..SuccessThreshold
  BY RouterAssumption
<1>2. Through(b) \in Breakers /\ Through(b).gate # "open"
  BY <1>1 DEF Through, Breakers
<1>3. Disappointed(b) \subseteq Breakers
  BY <1>1 DEF Disappointed, Breakers
<1>4. CASE b.gate = "half_open" /\ b.votes + 1 < SuccessThreshold
  <2>1. Confirmed(b) = [b EXCEPT !.votes = b.votes + 1] /\ b.votes + 1 \in 0..SuccessThreshold
    BY <1>4, RouterAssumption DEF Confirmed, Breakers
  <2> QED BY <1>2, <1>3, <1>4, <2>1 DEF Breakers
<1>5. CASE ~(b.gate = "half_open" /\ b.votes + 1 < SuccessThreshold)
  <2>1. Confirmed(b) \in {b, [gate |-> "closed", votes |-> 0]}
    BY <1>5, RouterAssumption DEF Confirmed, Breakers
  <2> QED BY <1>1, <1>2, <1>3, <2>1 DEF Breakers
<1> QED BY <1>4, <1>5

LEMMA Decisions ==
    ASSUME strategy \in Strategies, NEW d \in RoutingDecisions
    PROVE  /\ d.fallback \in BOOLEAN
           /\ d.service = "openrouter" => d.fallback
<1> DEFINE Sound(e) == e.fallback \in BOOLEAN /\ (e.service = "openrouter" => e.fallback)
<1>1. Sound(FirstOpenRouter) /\ Sound([FirstOpenRouter EXCEPT !.fallback = TRUE])
  BY DEF FirstOpenRouter, Decision
<1>2. Sound(FirstMcp)
  BY DEF FirstMcp, Decision, OpenRouterAvailable
<1>3. \A s : Sound(Balanced(s))
  BY DEF Balanced, Decision
<1>4. \A e \in RolledOut : Sound(e)
  BY <1>1, <1>2 DEF RolledOut
<1>5. \A e \in ByStrategy : Sound(e)
  BY <1>1, <1>2, <1>3, RouterAssumption DEF ByStrategy
<1> QED BY <1>4, <1>5 DEF RoutingDecisions

LEMMA IdleRecord ==
    /\ Idle \in Records /\ Idle.pc = "idle" /\ Idle.answer = "fine"
    /\ ~Idle.fallback /\ ~Idle.mcp_failed /\ Idle.attempt = 0 /\ Idle.connect_attempt = 0
BY RouterAssumption DEF Idle, Records

\* One caller takes a step.
LEMMA CallerMoves ==
    ASSUME IInv, UNCHANGED <<strategy, percentage>>,
           breaker' \in Breakers, session' \in BOOLEAN, parity' \in {0, 1},
           mcp_state' \in {"disconnected", "connecting", "connected", "failed"},
           NEW c \in Callers, NEW r \in Records, call' = [call EXCEPT ![c] = r],
           RetryLeft(r), c \in Requests => McpAsked(r)
    PROVE  IInv'
<1>1. call' \in [Callers -> Records]
  BY DEF IInv, TypeOK, Records
<1>2. TypeOK'
  BY <1>1 DEF IInv, TypeOK, Records, Breakers
<1>3. \A d \in Callers : call'[d] = IF d = c THEN r ELSE call[d]
  BY DEF IInv, TypeOK
<1> QED BY <1>2, <1>3 DEF IInv, Callers

-----------------------------------------------------------------------------
(* The steps. *)

\* A request goes to OpenRouter, or is refused there.
LEMMA EnterIInv ==
    ASSUME IInv, UNCHANGED <<mcp_state, strategy, percentage>>, parity' \in {0, 1},
           NEW c \in Callers, NEW record \in Records, EnterOpenRouter(c, record),
           c \in Requests => /\ ~record.fallback => record.mcp_failed
                             /\ record.answer = "failed" => record.mcp_failed
    PROVE  IInv'
<1>1. /\ breaker \in Breakers /\ session \in BOOLEAN
      /\ mcp_state' \in {"disconnected", "connecting", "connected", "failed"}
  BY DEF IInv, TypeOK, Breakers
<1>2. CASE /\ breaker' = Through(breaker)
           /\ session' = TRUE
           /\ call' = [call EXCEPT ![c] = [record EXCEPT !.pc = IF session THEN "orchestrating"
                                                                         ELSE "connecting"]]
  <2> DEFINE r == [record EXCEPT !.pc = IF session THEN "orchestrating" ELSE "connecting"]
  <2>1. /\ r \in Records /\ r.pc \in {"orchestrating", "connecting"}
        /\ r.fallback = record.fallback /\ r.mcp_failed = record.mcp_failed
        /\ r.answer = record.answer
    BY DEF Records
  <2>2. RetryLeft(r) /\ (c \in Requests => McpAsked(r))
    BY <2>1 DEF RetryLeft, McpAsked
  <2> HIDE DEF r
  <2>3. call' = [call EXCEPT ![c] = r] /\ breaker' \in Breakers
    BY <1>1, <1>2, BreakerSteps DEF r
  <2> QED BY <1>1, <1>2, <2>1, <2>2, <2>3, CallerMoves
<1>3. CASE /\ call' = [call EXCEPT ![c] = [record EXCEPT !.pc = "idle", !.answer = "errors"]]
           /\ UNCHANGED <<breaker, session>>
  <2> DEFINE r == [record EXCEPT !.pc = "idle", !.answer = "errors"]
  <2>1. r \in Records /\ r.pc = "idle" /\ r.answer = "errors"
    BY DEF Records
  <2>2. RetryLeft(r) /\ McpAsked(r)
    BY <2>1 DEF RetryLeft, McpAsked, AtOpenRouter
  <2> HIDE DEF r
  <2>3. call' = [call EXCEPT ![c] = r]
    BY <1>3 DEF r
  <2> QED BY <1>1, <1>3, <2>1, <2>2, <2>3, CallerMoves
<1> QED BY <1>2, <1>3 DEF EnterOpenRouter

LEMMA AskIInv ==
    ASSUME IInv, NEW c \in Requests, Orchestrate(c) \/ Validate(c)
    PROVE  IInv'
<1>1. PICK d \in RoutingDecisions :
          \/ Ask(c, d)
          \/ /\ call' = [call EXCEPT ![c] =
                           IF d.service = "openrouter" THEN Idle
                           ELSE [Idle EXCEPT !.pc = "validating", !.fallback = d.fallback]]
             /\ UNCHANGED <<breaker, session>>
  BY DEF Orchestrate, Validate
<1>2. d.fallback \in BOOLEAN /\ (d.service = "openrouter" => d.fallback)
  BY Decisions DEF IInv, TypeOK
<1>3. /\ UNCHANGED <<mcp_state, strategy, percentage>> /\ parity' \in {0, 1} /\ c \in Callers
      /\ breaker \in Breakers /\ session \in BOOLEAN
      /\ mcp_state \in {"disconnected", "connecting", "connected", "failed"}
  <2>1. CountRequest /\ parity \in {0, 1}
    BY DEF Orchestrate, Validate, IInv, TypeOK
  <2>2. parity' = 1 - parity \/ parity' = parity
    BY <2>1 DEF CountRequest
  <2>3. parity' \in {0, 1}
    BY <2>1, <2>2
  <2> QED BY <2>3 DEF Orchestrate, Validate, IInv, TypeOK, Breakers, Callers
<1> DEFINE asking == [Idle EXCEPT !.fallback = d.fallback]
           R(pc)  == [asking EXCEPT !.pc = pc]
<1>4. /\ asking \in Records /\ asking.answer = "fine" /\ asking.fallback = d.fallback
      /\ \A pc \in {"asking_mcp", "validating"} : R(pc) \in Records /\ R(pc).pc = pc
                                                  /\ R(pc).answer = "fine"
  <2>1. /\ asking \in Records /\ asking.answer = "fine"
        /\ asking.fallback = d.fallback
    BY <1>2, IdleRecord DEF Records
  <2> HIDE DEF asking
  <2> QED BY <2>1 DEF Records
<1>5. CASE d.service = "openrouter" /\ EnterOpenRouter(c, asking)
  BY <1>2, <1>3, <1>4, <1>5, EnterIInv
<1>6. ASSUME NEW r \in Records, call' = [call EXCEPT ![c] = r],
             UNCHANGED <<breaker, session>>, RetryLeft(r), McpAsked(r)
      PROVE  IInv'
  BY <1>3, <1>6, CallerMoves
<1>7. ASSUME NEW pc \in {"asking_mcp", "validating"}
      PROVE  RetryLeft(R(pc)) /\ McpAsked(R(pc))
  BY <1>4 DEF RetryLeft, McpAsked, AtOpenRouter
<1>8. RetryLeft(Idle) /\ McpAsked(Idle)
  BY IdleRecord DEF RetryLeft, McpAsked, AtOpenRouter
<1>9. CASE call' = [call EXCEPT ![c] = R("asking_mcp")] /\ UNCHANGED <<breaker, session>>
  BY <1>4, <1>6, <1>7, <1>9
<1>10. CASE call' = [call EXCEPT ![c] = R("validating")] /\ UNCHANGED <<breaker, session>>
  BY <1>4, <1>6, <1>7, <1>10
<1>11. CASE call' = [call EXCEPT ![c] = Idle] /\ UNCHANGED <<breaker, session>>
  BY <1>6, <1>8, <1>11, IdleRecord
<1>12. [Idle EXCEPT !.pc = "validating", !.fallback = d.fallback] = R("validating")
  BY DEF Idle
<1> QED BY <1>1, <1>5, <1>9, <1>10, <1>11, <1>12 DEF Ask

\* The work at OpenRouter fails for good, or is tried once more.
LEMMA RaisesIInv ==
    ASSUME IInv, NEW c \in Requests, NEW b \in Breakers, CallRaises(c, b),
           AtOpenRouter(call[c]), UNCHANGED <<mcp_state, routing>>, session' \in BOOLEAN
    PROVE  IInv'
<1>1. /\ call[c] \in Records /\ McpAsked(call[c]) /\ c \in Callers
      /\ mcp_state' \in {"disconnected", "connecting", "connected", "failed"}
      /\ UNCHANGED <<strategy, percentage>> /\ parity' \in {0, 1}
  BY DEF IInv, TypeOK, Records, Callers, routing
<1>2. breaker' \in Breakers
  BY BreakerSteps DEF CallRaises
<1>3. ASSUME NEW r \in Records, call' = [call EXCEPT ![c] = r], RetryLeft(r), McpAsked(r)
      PROVE  IInv'
  BY <1>1, <1>2, <1>3, CallerMoves
<1>4. CASE AttemptsLeft(call[c].attempt)
  <2> DEFINE r == [call[c] EXCEPT !.pc = "backing_off", !.connect_attempt = 0]
  <2>1. /\ r \in Records /\ r.pc = "backing_off" /\ r.attempt < MaxRetries
        /\ r.fallback = call[c].fallback /\ r.mcp_failed = call[c].mcp_failed
        /\ r.answer = call[c].answer
    <3>1. 0 \in 0..MaxRetries
      BY RouterAssumption
    <3>2. call[c].attempt < MaxRetries
      BY <1>4 DEF AttemptsLeft
    <3> QED BY <1>1, <3>1, <3>2 DEF Records
  <2>2. call' = [call EXCEPT ![c] = r]
    BY <1>4 DEF CallRaises
  <2> HIDE DEF r
  <2>3. RetryLeft(r) /\ McpAsked(r)
    BY <1>1, <2>1 DEF RetryLeft, McpAsked, AtOpenRouter
  <2> QED BY <1>3, <2>1, <2>2, <2>3
<1>5. CASE ~AttemptsLeft(call[c].attempt) /\ call[c].fallback
  <2> DEFINE r == [Idle EXCEPT !.pc = "asking_mcp"]
  <2>1. r \in Records /\ r.pc = "asking_mcp" /\ r.answer = "fine"
    BY IdleRecord DEF Records
  <2>2. call' = [call EXCEPT ![c] = r]
    BY <1>5 DEF CallRaises, GiveUpOpenRouter
  <2> HIDE DEF r
  <2>3. RetryLeft(r) /\ McpAsked(r)
    BY <2>1 DEF RetryLeft, McpAsked, AtOpenRouter
  <2> QED BY <1>3, <2>1, <2>2, <2>3
<1>6. CASE ~AttemptsLeft(call[c].attempt) /\ ~call[c].fallback
  <2> DEFINE r == Ended(c, "failed")
  <2>1. call[c].mcp_failed
    BY <1>1, <1>6 DEF McpAsked
  <2>2. r \in Records /\ r.pc = "idle" /\ r.mcp_failed
    BY <1>1, <2>1, IdleRecord DEF Ended, Records
  <2>3. call' = [call EXCEPT ![c] = r]
    BY <1>6 DEF CallRaises, GiveUpOpenRouter
  <2> HIDE DEF r
  <2>4. RetryLeft(r) /\ McpAsked(r)
    BY <2>2 DEF RetryLeft, McpAsked
  <2> QED BY <1>3, <2>2, <2>3, <2>4
<1> QED BY <1>4, <1>5, <1>6

LEMMA ConnectMcpIInv ==
    ASSUME IInv, NEW b \in Breakers, ConnectMcp(b), UNCHANGED routing, session' \in BOOLEAN
    PROVE  IInv'
<1> DEFINE r == [Idle EXCEPT !.pc = "connecting_mcp"]
<1>1. r \in Records /\ r.pc = "connecting_mcp"
  BY IdleRecord DEF Records
<1>2. call' = [call EXCEPT ![Operator] = r] /\ breaker' \in Breakers /\ mcp_state' = "connecting"
  BY DEF ConnectMcp
<1> HIDE DEF r
<1>3. RetryLeft(r) /\ Operator \in Callers /\ Operator \notin Requests
  BY <1>1, OperatorAssumption DEF RetryLeft, Callers
<1>4. UNCHANGED <<strategy, percentage>> /\ parity' \in {0, 1}
  BY DEF IInv, TypeOK, routing
<1> QED BY <1>1, <1>2, <1>3, <1>4, CallerMoves

\* connect returns, to an orchestration that goes on with the session there is.
LEMMA ReturnsIInv ==
    ASSUME IInv, NEW c \in Callers, NEW b \in Breakers, ConnectReturns(c, b),
           call[c].pc \in {"connecting", "connect_backing_off"},
           UNCHANGED <<session, routing>>
    PROVE  IInv'
<1>1. /\ call[c] \in Records /\ session' \in BOOLEAN
      /\ mcp_state \in {"disconnected", "connecting", "connected", "failed"}
      /\ UNCHANGED <<strategy, percentage>> /\ parity' \in {0, 1}
  BY DEF IInv, TypeOK, Records, routing
<1>2. CASE c = Operator /\ ConnectMcp(b)
  BY <1>1, <1>2, ConnectMcpIInv
<1>3. CASE c \in Requests /\ session /\ breaker' = b /\ UNCHANGED mcp_state
           /\ call' = [call EXCEPT ![c].pc = "orchestrating", ![c].connect_attempt = 0]
  <2> DEFINE r == [call[c] EXCEPT !.pc = "orchestrating", !.connect_attempt = 0]
  <2>1. /\ r \in Records /\ r.pc = "orchestrating"
        /\ r.fallback = call[c].fallback /\ r.mcp_failed = call[c].mcp_failed
        /\ r.answer = call[c].answer
    <3>1. 0 \in 0..MaxRetries
      BY RouterAssumption
    <3> QED BY <1>1, <3>1 DEF Records
  <2>2. call' = [call EXCEPT ![c] = r]
    BY <1>3
  <2> HIDE DEF r
  <2>3. RetryLeft(r) /\ McpAsked(r)
    BY <1>3, <2>1 DEF RetryLeft, McpAsked, AtOpenRouter, IInv
  <2> QED BY <1>1, <1>3, <2>1, <2>2, <2>3, CallerMoves
<1>4. CASE c \in Requests /\ CallRaises(c, b) /\ UNCHANGED mcp_state
  BY <1>1, <1>4, RaisesIInv DEF AtOpenRouter
<1> QED BY <1>2, <1>3, <1>4 DEF ConnectReturns, Callers

LEMMA OpenRouterIInv ==
    ASSUME IInv, NEW c \in Callers, OpenRouterStep(c)
    PROVE  IInv'
<1>1. /\ call[c] \in Records /\ RetryLeft(call[c]) /\ breaker \in Breakers
      /\ session \in BOOLEAN
      /\ mcp_state \in {"disconnected", "connecting", "connected", "failed"}
      /\ c \in Requests => McpAsked(call[c])
  BY DEF IInv, TypeOK, Records, Breakers
<1>2. /\ UNCHANGED <<strategy, percentage, routing>> /\ parity' \in {0, 1}
  BY DEF OpenRouterStep, StepsEnd, ConnectAnswered, ConnectRaises, ConnectRetries,
         CallRetries, routing, IInv, TypeOK
<1>3. ASSUME NEW r \in Records, call' = [call EXCEPT ![c] = r], RetryLeft(r),
             c \in Requests => McpAsked(r), breaker' \in Breakers,
             session' \in BOOLEAN, UNCHANGED mcp_state
      PROVE  IInv'
  BY <1>1, <1>2, <1>3, CallerMoves
<1>4. CASE StepsEnd(c)
  <2>1. PICK answer \in {"fine", "errors"} : call' = [call EXCEPT ![c] = Ended(c, answer)]
    BY <1>4 DEF StepsEnd, StepsRaise
  <2>2. Ended(c, answer) \in Records /\ Ended(c, answer).pc = "idle"
        /\ Ended(c, answer).answer = answer
    BY <1>1, IdleRecord DEF Ended, Records
  <2>3. RetryLeft(Ended(c, answer)) /\ McpAsked(Ended(c, answer))
    BY <2>2 DEF RetryLeft, McpAsked, AtOpenRouter
  <2>4. breaker' \in Breakers
    BY <1>1, <1>4, BreakerSteps DEF StepsEnd, StepsRaise
  <2> QED BY <1>1, <1>3, <1>4, <2>1, <2>2, <2>3, <2>4 DEF StepsEnd
<1>5. CASE ConnectAnswered(c)
  <2>1. Confirmed(breaker) \in Breakers
    BY <1>1, BreakerSteps
  <2> QED BY <1>5, <2>1, ReturnsIInv DEF ConnectAnswered
<1>6. CASE ConnectRaises(c)
  <2>1. PICK b \in Disappointed(breaker) :
          \/ /\ AttemptsLeft(call[c].connect_attempt)
             /\ breaker' = b
             /\ call' = [call EXCEPT ![c].pc = "connect_backing_off"]
             /\ UNCHANGED mcp_state
          \/ /\ ~AttemptsLeft(call[c].connect_attempt)
             /\ \/ c = Operator /\ ConnectMcp(b)
                \/ c # Operator /\ CallRaises(c, b) /\ UNCHANGED mcp_state
    BY <1>6 DEF ConnectRaises
  <2>2. b \in Breakers /\ session' = session /\ call[c].pc = "connecting"
    BY <1>1, <1>6, BreakerSteps DEF ConnectRaises
  <2>3. CASE /\ AttemptsLeft(call[c].connect_attempt)
             /\ breaker' = b
             /\ call' = [call EXCEPT ![c].pc = "connect_backing_off"]
             /\ UNCHANGED mcp_state
    <3> DEFINE r == [call[c] EXCEPT !.pc = "connect_backing_off"]
    <3>1. /\ r \in Records /\ r.pc = "connect_backing_off"
          /\ r.connect_attempt = call[c].connect_attempt
          /\ r.fallback = call[c].fallback /\ r.mcp_failed = call[c].mcp_failed
          /\ r.answer = call[c].answer
      BY <1>1 DEF Records
    <3>2. call' = [call EXCEPT ![c] = r]
      BY <2>3
    <3> HIDE DEF r
    <3>3. RetryLeft(r) /\ (c \in Requests => McpAsked(r))
      BY <1>1, <2>2, <2>3, <3>1 DEF RetryLeft, McpAsked, AtOpenRouter, AttemptsLeft
    <3> QED BY <1>1, <1>3, <2>2, <2>3, <3>1, <3>2, <3>3
  <2>4. CASE c = Operator /\ ConnectMcp(b)
    BY <1>1, <1>2, <2>2, <2>4, ConnectMcpIInv
  <2>5. CASE c # Operator /\ CallRaises(c, b) /\ UNCHANGED mcp_state
    BY <1>1, <1>2, <2>2, <2>5, RaisesIInv DEF Callers, AtOpenRouter
  <2> QED BY <2>1, <2>3, <2>4, <2>5
<1>7. CASE ConnectRetries(c)
  <2>1. CASE /\ breaker' = Through(breaker) /\ session' = TRUE /\ UNCHANGED mcp_state
             /\ call' = [call EXCEPT ![c].pc = "connecting",
                                     ![c].connect_attempt = NextAttempt(@)]
    <3> DEFINE r == [call[c] EXCEPT !.pc = "connecting",
                                    !.connect_attempt = call[c].connect_attempt + 1]
    <3>1. call[c].connect_attempt + 1 \in 0..MaxRetries
      <4>1. call[c].connect_attempt < MaxRetries /\ call[c].connect_attempt \in 0..MaxRetries
        BY <1>1, <1>7 DEF ConnectRetries, RetryLeft, Records
      <4> QED BY <4>1, RouterAssumption
    <3>2. /\ r \in Records /\ r.pc = "connecting"
          /\ r.fallback = call[c].fallback /\ r.mcp_failed = call[c].mcp_failed
          /\ r.answer = call[c].answer
      BY <1>1, <3>1 DEF Records
    <3>3. call' = [call EXCEPT ![c] = r]
      BY <1>1, <2>1 DEF NextAttempt, Records
    <3> HIDE DEF r
    <3>4. RetryLeft(r) /\ (c \in Requests => McpAsked(r))
      BY <1>1, <1>7, <3>2 DEF ConnectRetries, RetryLeft, McpAsked, AtOpenRouter
    <3> QED BY <1>1, <1>3, <2>1, <3>2, <3>3, <3>4, BreakerSteps
  <2>2. CASE ConnectReturns(c, breaker) /\ UNCHANGED session
    BY <1>1, <1>2, <1>7, <2>2, ReturnsIInv DEF ConnectRetries
  <2> QED BY <1>7, <2>1, <2>2 DEF ConnectRetries
<1>8. CASE CallRetries(c)
  <2> DEFINE r == [call[c] EXCEPT !.attempt = call[c].attempt + 1]
  <2>1. call[c].attempt + 1 \in 0..MaxRetries
    <3>1. call[c].attempt < MaxRetries /\ call[c].attempt \in 0..MaxRetries
      BY <1>1, <1>8 DEF CallRetries, RetryLeft, Records
    <3> QED BY <3>1, RouterAssumption
  <2>2. /\ r \in Records /\ r.fallback = call[c].fallback
        /\ r.mcp_failed = call[c].mcp_failed /\ r.answer = call[c].answer
    BY <1>1, <2>1 DEF Records
  <2>3. EnterOpenRouter(c, r)
    BY <1>8 DEF CallRetries, NextAttempt
  <2> HIDE DEF r
  <2>4. c \in Requests => /\ ~r.fallback => r.mcp_failed
                          /\ r.answer = "failed" => r.mcp_failed
    BY <1>1, <1>8, <2>2 DEF CallRetries, McpAsked, AtOpenRouter
  <2> QED BY <1>2, <1>8, <2>2, <2>3, <2>4, EnterIInv DEF CallRetries
<1> QED BY <1>4, <1>5, <1>6, <1>7, <1>8 DEF OpenRouterStep

LEMMA McpIInv ==
    ASSUME IInv, NEW c \in Requests, McpStep(c) \/ Cancel(c)
    PROVE  IInv'
<1>1. /\ call[c] \in Records /\ c \in Callers /\ breaker \in Breakers /\ session \in BOOLEAN
      /\ mcp_state \in {"disconnected", "connecting", "connected", "failed"}
      /\ UNCHANGED <<mcp_state, strategy, percentage>> /\ parity' \in {0, 1}
  BY DEF McpStep, McpAnswers, McpFails, Cancel, routing, IInv, TypeOK, Records, Breakers, Callers
<1>2. ASSUME NEW r \in Records, call' = [call EXCEPT ![c] = r],
             r.pc = "idle", r.answer = "failed" => r.mcp_failed, UNCHANGED <<breaker, session>>
      PROVE  IInv'
  <2>1. RetryLeft(r) /\ McpAsked(r)
    BY <1>2 DEF RetryLeft, McpAsked, AtOpenRouter
  <2> QED BY <1>1, <1>2, <2>1, CallerMoves
<1>3. CASE McpAnswers(c)
  <2>1. Ended(c, "fine") \in Records /\ Ended(c, "fine").pc = "idle"
        /\ Ended(c, "fine").answer = "fine"
    BY <1>1, IdleRecord DEF Ended, Records
  <2> QED BY <1>2, <1>3, <2>1 DEF McpAnswers
<1>4. CASE /\ call[c].pc = "asking_mcp"
           /\ EnterOpenRouter(c, [call[c] EXCEPT !.fallback = FALSE, !.mcp_failed = TRUE])
  <2> DEFINE r == [call[c] EXCEPT !.fallback = FALSE, !.mcp_failed = TRUE]
  <2>1. r \in Records /\ r.mcp_failed
    BY <1>1 DEF Records
  <2>2. EnterOpenRouter(c, r)
    BY <1>4
  <2> HIDE DEF r
  <2> QED BY <1>1, <2>1, <2>2, EnterIInv
<1>5. CASE call' = [call EXCEPT ![c] = Idle] /\ UNCHANGED <<breaker, session>>
  BY <1>2, <1>5, IdleRecord
<1>6. CASE /\ call' = [call EXCEPT ![c] = [Idle EXCEPT !.mcp_failed = TRUE, !.answer = "failed"]]
           /\ UNCHANGED <<breaker, session>>
  <2> DEFINE r == [Idle EXCEPT !.mcp_failed = TRUE, !.answer = "failed"]
  <2>1. r \in Records /\ r.pc = "idle" /\ r.mcp_failed
    BY IdleRecord DEF Records
  <2>2. call' = [call EXCEPT ![c] = r]
    BY <1>6
  <2> HIDE DEF r
  <2> QED BY <1>2, <1>6, <2>1, <2>2
<1> QED BY <1>3, <1>4, <1>5, <1>6 DEF McpStep, McpFails, Cancel

LEMMA OperatorIInv ==
    ASSUME IInv, Connect \/ Disconnect \/ OperatorStep
    PROVE  IInv'
<1>1. /\ call[Operator] \in Records /\ Operator \in Callers /\ Operator \notin Requests
      /\ breaker \in Breakers /\ session \in BOOLEAN
      /\ mcp_state \in {"disconnected", "connecting", "connected", "failed"}
      /\ UNCHANGED <<strategy, percentage>> /\ parity' \in {0, 1}
  BY OperatorAssumption
     DEF Connect, Disconnect, OperatorStep, McpConnected, DisconnectMcp, routing, IInv, TypeOK,
         Records, Breakers, Callers
<1>2. ASSUME NEW r \in Records, call' = [call EXCEPT ![Operator] = r],
             r.pc \in {"idle", "connecting", "disconnecting_mcp"},
             breaker' \in Breakers, session' \in BOOLEAN,
             mcp_state' \in {"disconnected", "connecting", "connected", "failed"}
      PROVE  IInv'
  BY <1>1, <1>2, CallerMoves DEF RetryLeft
<1>3. CASE /\ breaker' = Through(breaker) /\ session' = TRUE /\ UNCHANGED mcp_state
           /\ call' = [call EXCEPT ![Operator] = [Idle EXCEPT !.pc = "connecting"]]
  <2>1. /\ [Idle EXCEPT !.pc = "connecting"] \in Records
        /\ [Idle EXCEPT !.pc = "connecting"].pc = "connecting"
    BY IdleRecord DEF Records
  <2> QED BY <1>1, <1>2, <1>3, <2>1, BreakerSteps
<1>4. CASE Connect /\ ConnectMcp(breaker) /\ UNCHANGED session
  BY <1>1, <1>4, ConnectMcpIInv DEF Connect
<1>5. CASE Disconnect
  <2> DEFINE r == [call[Operator] EXCEPT !.pc = "disconnecting_mcp"]
  <2>1. r \in Records /\ r.pc = "disconnecting_mcp"
    BY <1>1 DEF Records
  <2>2. call' = [call EXCEPT ![Operator] = r]
    BY <1>5 DEF Disconnect
  <2> HIDE DEF r
  <2> QED BY <1>1, <1>2, <1>5, <2>1, <2>2 DEF Disconnect
<1>6. CASE OperatorStep
  BY <1>1, <1>2, <1>6, IdleRecord DEF OperatorStep, McpConnected, DisconnectMcp
<1> QED BY <1>3, <1>4, <1>5, <1>6 DEF Connect

LEMMA InitIInv == Init => IInv
<1> SUFFICES ASSUME Init PROVE IInv
  OBVIOUS
<1>1. breaker \in Breakers
  BY RouterAssumption DEF Init, Breakers
<1>2. \A c \in Callers : call[c] = Idle
  BY DEF Init
<1>3. TypeOK
  BY <1>1, IdleRecord DEF Init, TypeOK, Breakers, Records
<1> QED BY <1>2, <1>3, IdleRecord DEF IInv, RetryLeft, McpAsked, AtOpenRouter, Callers

LEMMA NextIInv == IInv /\ [Next]_vars => IInv'
<1> SUFFICES ASSUME IInv, [Next]_vars PROVE IInv'
  OBVIOUS
<1>1. CASE \E c \in Requests : Orchestrate(c) \/ Validate(c) \/ McpStep(c) \/ Cancel(c)
  BY <1>1, AskIInv, McpIInv
<1>2. CASE \E c \in Callers : OpenRouterStep(c)
  BY <1>2, OpenRouterIInv
<1>3. CASE Connect \/ Disconnect \/ OperatorStep
  BY <1>3, OperatorIInv
<1>4. CASE SetTraffic
  BY <1>4 DEF SetTraffic, IInv, TypeOK
<1>5. CASE UNCHANGED vars
  BY <1>5 DEF vars, routing, IInv, TypeOK
<1> QED BY <1>1, <1>2, <1>3, <1>4, <1>5 DEF Next

LEMMA Invariance == Spec => []IInv
BY InitIInv, NextIInv, PTL DEF Spec

-----------------------------------------------------------------------------

\* Through retries inside retries, fallbacks and cancellations, the variables
\* keep their types, and no attempt is beyond the last.
THEOREM TypeCorrect == Spec => []TypeOK
<1>1. IInv => TypeOK
  BY DEF IInv
<1> QED BY <1>1, Invariance, PTL

\* For any number of requests, any strategy and any rollout: a request that
\* fails has asked the MCP server, although its decision may be out of date.
THEOREM NoneFailsUnasked == Spec => []FailsOnlyWithMcp
<1>1. IInv => FailsOnlyWithMcp
  BY DEF IInv, McpAsked, FailsOnlyWithMcp
<1> QED BY <1>1, Invariance, PTL

LEMMA OpensStep ==
    ASSUME IInv, [Next]_vars, breaker.gate # "open", breaker'.gate = "open"
    PROVE  \E c \in Callers : call[c].pc = "connecting" /\ call'[c].pc # "connecting"
<1>1. /\ breaker \in Breakers /\ call \in [Callers -> Records] /\ breaker' # breaker
      /\ breaker' # Through(breaker) /\ breaker' # Confirmed(breaker)
  BY BreakerSteps DEF IInv, TypeOK, Breakers, Records
<1>2. PICK c \in Callers : OpenRouterStep(c)
  BY <1>1 DEF Next, vars, Orchestrate, Validate, Ask, EnterOpenRouter, McpStep, McpAnswers,
              McpFails, Cancel, Connect, ConnectMcp, Disconnect, OperatorStep, McpConnected,
              DisconnectMcp, SetTraffic
<1>3. CASE ConnectRaises(c)
  <2>1. PICK b \in Disappointed(breaker) :
          \/ call' = [call EXCEPT ![c].pc = "connect_backing_off"]
          \/ c = Operator /\ ConnectMcp(b)
          \/ CallRaises(c, b)
    BY <1>3 DEF ConnectRaises
  <2>2. call[c].pc = "connecting"
    BY <1>3 DEF ConnectRaises
  <2>3. CASE call' = [call EXCEPT ![c].pc = "connect_backing_off"]
    BY <1>1, <2>2, <2>3 DEF Records
  <2>4. CASE c = Operator /\ ConnectMcp(b)
    <3>1. [Idle EXCEPT !.pc = "connecting_mcp"].pc # "connecting"
      BY IdleRecord DEF Records
    <3> QED BY <1>1, <2>2, <2>4, <3>1 DEF ConnectMcp
  <2>5. CASE CallRaises(c, b)
    <3>1. /\ [call[c] EXCEPT !.pc = "backing_off", !.connect_attempt = 0].pc # "connecting"
          /\ [Idle EXCEPT !.pc = "asking_mcp"].pc # "connecting"
          /\ Ended(c, "failed").pc # "connecting"
      BY <1>1, IdleRecord DEF Ended, Records
    <3> QED BY <1>1, <2>2, <2>5, <3>1 DEF CallRaises, GiveUpOpenRouter
  <2> QED BY <2>1, <2>3, <2>4, <2>5
<1>4. CASE ConnectAnswered(c)
  <2>1. CASE c = Operator /\ ConnectMcp(Confirmed(breaker))
    BY <1>1, <2>1 DEF ConnectMcp
  <2>2. CASE CallRaises(c, Confirmed(breaker))
    <3>1. /\ [call[c] EXCEPT !.pc = "backing_off", !.connect_attempt = 0].pc # "connecting"
          /\ [Idle EXCEPT !.pc = "asking_mcp"].pc # "connecting"
          /\ Ended(c, "failed").pc # "connecting"
      BY <1>1, IdleRecord DEF Ended, Records
    <3>2. call[c].pc = "connecting"
      BY <1>4 DEF ConnectAnswered
    <3> QED BY <1>1, <2>2, <3>1, <3>2 DEF CallRaises, GiveUpOpenRouter
  <2> QED BY <1>1, <1>4, <2>1, <2>2 DEF ConnectAnswered, ConnectReturns
<1>5. CASE StepsEnd(c)
  BY <1>1, <1>5 DEF StepsEnd, StepsRaise
<1>6. CASE ConnectRetries(c) \/ CallRetries(c)
  BY <1>1, <1>6 DEF ConnectRetries, CallRetries, EnterOpenRouter, Blocked
<1> QED BY <1>2, <1>3, <1>4, <1>5, <1>6 DEF OpenRouterStep

\* Whatever OpenRouter does to requests that find a session: the breaker opens
\* only in a step in which the connection somebody opens gets no answer.
THEOREM ConnectionsTrip == Spec => OnlyConnectingTrips
<1>1. IInv /\ [Next]_vars =>
        [breaker.gate # "open" /\ breaker'.gate = "open"
          => \E c \in Callers : call[c].pc = "connecting" /\ call'[c].pc # "connecting"]_vars
  BY OpensStep
<1> QED BY <1>1, Invariance, PTL DEF Spec, OnlyConnectingTrips

-----------------------------------------------------------------------------
(* What RequestsEnd rests on: how much a request has ahead of it.          *)

\* Per attempt of the orchestration: two steps per attempt of its connection,
\* the steps themselves, and the sleep.
Round == 2 * MaxRetries + 4

Phase(r) ==
    CASE r.pc = "connecting"          -> 2 * (MaxRetries - r.connect_attempt) + 3
      [] r.pc = "connect_backing_off" -> 2 * (MaxRetries - r.connect_attempt) + 2
      [] r.pc = "orchestrating"       -> 1
      [] OTHER                        -> 0

AtService(r) ==
    IF r.pc \in {"asking_mcp", "validating"} THEN 1
    ELSE 2 + (MaxRetries - r.attempt) * Round + Phase(r)

\* A request that still has its fallback may go through a whole service more.
Whole == 2 + (MaxRetries + 1) * Round

Ahead(r) ==
    IF r.pc = "idle" THEN 0 ELSE (IF r.fallback THEN Whole ELSE 0) + AtService(r)

AheadIsBounded == \A c \in Requests : Ahead(call[c]) \in 0 .. 2 * Whole - 1

\* Whatever the others do, the operator included, no step takes a request away
\* from its end: not a connection lost, not a refusal, not a retry within a retry.
EachStepGetsNearer ==
    [][ \A c \in Requests :
          call[c].pc # "idle" /\ call'[c] # call[c]
             => Ahead(call'[c]) < Ahead(call[c]) ]_vars

LEMMA AheadFact ==
    ASSUME NEW r \in Records
    PROVE  /\ Round \in Nat /\ Whole \in Nat
           /\ Phase(r) \in 0 .. Round - 1
           /\ (MaxRetries - r.attempt) * Round \in Nat
           /\ (MaxRetries - (r.attempt + 1)) * Round = (MaxRetries - r.attempt) * Round - Round
           /\ AtService(r) \in 1 .. Whole - 1
           /\ Ahead(r) \in 0 .. 2 * Whole - 1
<1>1. /\ MaxRetries \in Nat /\ Round \in Nat /\ Round = 2 * MaxRetries + 4
      /\ r.attempt \in 0..MaxRetries /\ r.connect_attempt \in 0..MaxRetries
  BY RouterAssumption DEF Round, Records
<1>2. Phase(r) \in 0 .. Round - 1
  BY <1>1 DEF Phase
<1>3. \A a \in 0..MaxRetries :
         /\ (MaxRetries - a) * Round \in Nat
         /\ (MaxRetries - a) * Round = MaxRetries * Round - a * Round
         /\ a * Round \in Nat
         /\ (MaxRetries - (a + 1)) * Round = (MaxRetries - a) * Round - Round
  BY <1>1
<1>4. /\ Whole = 2 + MaxRetries * Round + Round
      /\ Whole \in Nat /\ MaxRetries * Round \in Nat
  BY <1>1 DEF Whole
<1>5. AtService(r) \in 1 .. Whole - 1
  <2>1. CASE r.pc \in {"asking_mcp", "validating"}
    BY <1>1, <1>4, <2>1 DEF AtService
  <2>2. CASE r.pc \notin {"asking_mcp", "validating"}
    <3> DEFINE n == (MaxRetries - r.attempt) * Round
               m == MaxRetries * Round
    <3>1. n \in Nat /\ m \in Nat /\ n <= m /\ Whole = 2 + m + Round
      BY <1>1, <1>3, <1>4
    <3>2. AtService(r) = 2 + n + Phase(r)
      BY <2>2 DEF AtService
    <3> HIDE DEF n, m
    <3> QED BY <1>1, <1>2, <3>1, <3>2
  <2> QED BY <2>1, <2>2
<1>6. Ahead(r) \in 0 .. 2 * Whole - 1
  BY <1>4, <1>5 DEF Ahead
<1> QED BY <1>1, <1>2, <1>3, <1>4, <1>5, <1>6

\* The five ways on.
LEMMA WaysOn ==
    ASSUME NEW r \in Records, NEW s \in Records, r.pc # "idle",
           \/ s.pc = "idle"
           \/ r.fallback /\ ~s.fallback
           \/ /\ s.fallback = r.fallback /\ AtOpenRouter(r) /\ AtOpenRouter(s)
              /\ \/ s.attempt = r.attempt /\ Phase(s) < Phase(r)
                 \/ s.attempt = r.attempt + 1
    PROVE  Ahead(s) < Ahead(r)
<1>1. /\ Round \in Nat /\ Whole \in Nat
      /\ Phase(r) \in 0 .. Round - 1 /\ Phase(s) \in 0 .. Round - 1
      /\ (MaxRetries - r.attempt) * Round \in Nat
      /\ (MaxRetries - (r.attempt + 1)) * Round = (MaxRetries - r.attempt) * Round - Round
      /\ AtService(r) \in 1 .. Whole - 1 /\ AtService(s) \in 1 .. Whole - 1
  BY AheadFact
<1>2. r.fallback \in BOOLEAN /\ s.fallback \in BOOLEAN
  BY DEF Records
<1>3. CASE s.pc = "idle"
  BY <1>1, <1>3 DEF Ahead
<1>4. CASE s.pc # "idle" /\ r.fallback /\ ~s.fallback
  BY <1>1, <1>4 DEF Ahead
<1>5. CASE /\ s.fallback = r.fallback /\ AtOpenRouter(r) /\ AtOpenRouter(s)
           /\ \/ s.attempt = r.attempt /\ Phase(s) < Phase(r)
              \/ s.attempt = r.attempt + 1
  <2> DEFINE n == (MaxRetries - r.attempt) * Round
             m == (MaxRetries - s.attempt) * Round
  <2>1. AtService(r) = 2 + n + Phase(r) /\ AtService(s) = 2 + m + Phase(s)
    BY <1>5 DEF AtService, AtOpenRouter
  <2>2. n \in Nat /\ ((m = n /\ Phase(s) < Phase(r)) \/ m = n - Round)
    BY <1>1, <1>5
  <2> HIDE DEF n, m
  <2>3. AtService(s) < AtService(r)
    BY <1>1, <2>1, <2>2
  <2>4. s.pc # "idle"
    BY <1>5 DEF AtOpenRouter
  <2> QED BY <1>1, <1>5, <2>3, <2>4 DEF Ahead
<1> QED BY <1>3, <1>4, <1>5

\* A request whose call raised sleeps, turns to the MCP server, or ends.
LEMMA RaisingGetsNearer ==
    ASSUME IInv, IInv', NEW c \in Requests, NEW b, CallRaises(c, b),
           call[c].pc \in {"connecting", "connect_backing_off", "orchestrating"}
    PROVE  Ahead(call'[c]) < Ahead(call[c])
<1> DEFINE r == call[c]
           s == call'[c]
<1>1. r \in Records /\ s \in Records /\ call \in [Callers -> Records] /\ c \in Callers
  BY DEF IInv, TypeOK, Records, Callers
<1>2. \/ s = [r EXCEPT !.pc = "backing_off", !.connect_attempt = 0]
      \/ s = GiveUpOpenRouter(c)
  BY <1>1 DEF CallRaises
<1>3. CASE s = [r EXCEPT !.pc = "backing_off", !.connect_attempt = 0]
  <2>1. /\ s.pc = "backing_off" /\ s.attempt = r.attempt /\ s.fallback = r.fallback
    BY <1>1, <1>3 DEF Records
  <2>2. Phase(s) = 0 /\ Phase(r) > 0
    BY <1>1, <2>1, RouterAssumption DEF Phase, Records
  <2> QED BY <1>1, <2>1, <2>2, WaysOn DEF AtOpenRouter
<1>4. CASE s = GiveUpOpenRouter(c)
  <2>1. s.pc = "idle" \/ (r.fallback /\ ~s.fallback)
    BY <1>4 DEF GiveUpOpenRouter, Ended, Idle
  <2> QED BY <1>1, <2>1, WaysOn
<1> QED BY <1>2, <1>3, <1>4

LEMMA OpenRouterGetsNearer ==
    ASSUME IInv, IInv', NEW c \in Requests, OpenRouterStep(c)
    PROVE  Ahead(call'[c]) < Ahead(call[c])
<1> DEFINE r == call[c]
           s == call'[c]
<1>1. /\ r \in Records /\ s \in Records /\ call \in [Callers -> Records]
      /\ c \in Callers /\ c # Operator
  BY OperatorAssumption DEF IInv, TypeOK, Records, Callers
<1>2. /\ r.connect_attempt \in 0..MaxRetries /\ MaxRetries \in Nat
  BY <1>1, RouterAssumption DEF Records
<1>3. ASSUME NEW b, ConnectReturns(c, b), r.pc \in {"connecting", "connect_backing_off"}
      PROVE  Ahead(s) < Ahead(r)
  <2>1. CASE call' = [call EXCEPT ![c].pc = "orchestrating", ![c].connect_attempt = 0]
    <3>1. s = [r EXCEPT !.pc = "orchestrating", !.connect_attempt = 0]
      BY <1>1, <2>1
    <3>2. s.pc = "orchestrating" /\ s.attempt = r.attempt /\ s.fallback = r.fallback
      BY <1>1, <3>1 DEF Records
    <3>3. Phase(s) = 1 /\ Phase(r) > 1
      BY <1>2, <1>3, <3>2 DEF Phase
    <3> QED BY <1>1, <1>3, <3>2, <3>3, WaysOn DEF AtOpenRouter
  <2>2. CASE CallRaises(c, b)
    BY <1>3, <2>2, RaisingGetsNearer
  <2> QED BY <1>1, <1>3, <2>1, <2>2 DEF ConnectReturns
<1>4. CASE StepsEnd(c)
  <2>1. r.pc = "orchestrating" /\ s.pc = "idle"
    BY <1>1, <1>4 DEF StepsEnd, StepsRaise, Ended, Idle
  <2> QED BY <1>1, <2>1, WaysOn
<1>5. CASE ConnectAnswered(c)
  BY <1>3, <1>5 DEF ConnectAnswered
<1>6. CASE ConnectRaises(c)
  <2>1. CASE call' = [call EXCEPT ![c].pc = "connect_backing_off"]
    <3>1. r.pc = "connecting" /\ s = [r EXCEPT !.pc = "connect_backing_off"]
      BY <1>1, <1>6, <2>1 DEF ConnectRaises
    <3>2. /\ s.pc = "connect_backing_off" /\ s.connect_attempt = r.connect_attempt
          /\ s.attempt = r.attempt /\ s.fallback = r.fallback
      BY <1>1, <3>1 DEF Records
    <3>3. Phase(s) < Phase(r)
      BY <1>2, <3>1, <3>2 DEF Phase
    <3> QED BY <1>1, <3>1, <3>2, <3>3, WaysOn DEF AtOpenRouter
  <2>2. ASSUME NEW b, CallRaises(c, b) PROVE Ahead(s) < Ahead(r)
    BY <1>6, <2>2, RaisingGetsNearer DEF ConnectRaises
  <2> QED BY <1>1, <1>6, <2>1, <2>2 DEF ConnectRaises
<1>7. CASE ConnectRetries(c)
  <2>1. CASE call' = [call EXCEPT ![c].pc = "connecting", ![c].connect_attempt = NextAttempt(@)]
    <3>1. /\ r.pc = "connect_backing_off"
          /\ s = [r EXCEPT !.pc = "connecting", !.connect_attempt = r.connect_attempt + 1]
      BY <1>1, <1>7, <2>1 DEF ConnectRetries, NextAttempt
    <3>2. /\ s.pc = "connecting" /\ s.connect_attempt = r.connect_attempt + 1
          /\ s.attempt = r.attempt /\ s.fallback = r.fallback
      BY <1>1, <3>1 DEF Records
    <3>3. Phase(s) < Phase(r)
      BY <1>2, <3>1, <3>2 DEF Phase
    <3> QED BY <1>1, <3>1, <3>2, <3>3, WaysOn DEF AtOpenRouter
  <2>2. CASE ConnectReturns(c, breaker)
    BY <1>3, <1>7, <2>2 DEF ConnectRetries
  <2> QED BY <1>7, <2>1, <2>2 DEF ConnectRetries
<1>8. CASE CallRetries(c)
  <2> DEFINE t == [r EXCEPT !.attempt = r.attempt + 1]
  <2>1. r.pc = "backing_off" /\ EnterOpenRouter(c, t)
    BY <1>8 DEF CallRetries, NextAttempt
  <2>2. \/ s = [t EXCEPT !.pc = "orchestrating"] \/ s = [t EXCEPT !.pc = "connecting"]
        \/ s = [t EXCEPT !.pc = "idle", !.answer = "errors"]
    BY <1>1, <2>1 DEF EnterOpenRouter
  <2>3. /\ s.attempt = r.attempt + 1 /\ s.fallback = r.fallback
        /\ s.pc \in {"orchestrating", "connecting", "idle"}
    BY <1>1, <2>2 DEF Records
  <2> QED BY <1>1, <2>1, <2>3, WaysOn DEF AtOpenRouter
<1> QED BY <1>4, <1>5, <1>6, <1>7, <1>8 DEF OpenRouterStep

LEMMA McpGetsNearer ==
    ASSUME IInv, IInv', NEW c \in Requests, McpStep(c) \/ Cancel(c)
    PROVE  Ahead(call'[c]) < Ahead(call[c])
<1>1. /\ call[c] \in Records /\ call'[c] \in Records /\ call \in [Callers -> Records]
      /\ c \in Callers
  BY DEF IInv, TypeOK, Records, Callers
<1>2. CASE McpAnswers(c) \/ Cancel(c)
  <2>1. call[c].pc # "idle"
    BY <1>2 DEF McpAnswers, Cancel
  <2>2. call'[c] = Ended(c, "fine") \/ call'[c] = Idle
    BY <1>1, <1>2 DEF McpAnswers, Cancel
  <2>3. Ended(c, "fine").pc = "idle" /\ Idle.pc = "idle"
    BY IdleRecord DEF Ended, Records
  <2>4. call'[c].pc = "idle"
    BY <2>2, <2>3
  <2> QED BY <1>1, <2>1, <2>4, WaysOn
<1>3. CASE McpFails(c)
  <2> DEFINE t == [call[c] EXCEPT !.fallback = FALSE, !.mcp_failed = TRUE]
  <2>1. call[c].pc # "idle"
    BY <1>3 DEF McpFails
  <2>2. CASE call[c].fallback /\ EnterOpenRouter(c, t)
    <3>1. \/ call'[c] = [t EXCEPT !.pc = "orchestrating"]
          \/ call'[c] = [t EXCEPT !.pc = "connecting"]
          \/ call'[c] = [t EXCEPT !.pc = "idle", !.answer = "errors"]
      BY <1>1, <2>2 DEF EnterOpenRouter
    <3>2. ~call'[c].fallback
      BY <1>1, <3>1 DEF Records
    <3> QED BY <1>1, <2>1, <2>2, <3>2, WaysOn
  <2>3. CASE ~(call[c].fallback /\ EnterOpenRouter(c, t))
    <3>1. \/ call'[c] = Idle
          \/ call'[c] = [Idle EXCEPT !.mcp_failed = TRUE, !.answer = "failed"]
      BY <1>1, <1>3, <2>3 DEF McpFails
    <3>2. /\ Idle.pc = "idle"
          /\ [Idle EXCEPT !.mcp_failed = TRUE, !.answer = "failed"].pc = "idle"
      BY IdleRecord DEF Records
    <3>3. call'[c].pc = "idle"
      BY <3>1, <3>2
    <3> QED BY <1>1, <2>1, <3>3, WaysOn
  <2> QED BY <2>2, <2>3
<1> QED BY <1>2, <1>3 DEF McpStep

\* The steps of others leave a request where it is.
LEMMA OthersStep ==
    ASSUME IInv, NEW c \in Requests, NEW d \in Callers, d # c,
           \/ OpenRouterStep(d) \/ McpStep(d) \/ Cancel(d)
           \/ Orchestrate(d) \/ Validate(d)
    PROVE  call'[c] = call[c]
<1>1. call \in [Callers -> Records] /\ c \in Callers /\ c # Operator
  BY OperatorAssumption DEF IInv, TypeOK, Records, Callers
<1>2. \A x : call' = [call EXCEPT ![d] = x] => call'[c] = call[c]
  BY <1>1
<1>3. \A r : EnterOpenRouter(d, r) => call'[c] = call[c]
  BY <1>2 DEF EnterOpenRouter
<1>4. \A b : CallRaises(d, b) => call'[c] = call[c]
  BY <1>2 DEF CallRaises
<1>5. \A b : ConnectMcp(b) => call'[c] = call[c]
  BY <1>1 DEF ConnectMcp
<1>6. \A b : ConnectReturns(d, b) => call'[c] = call[c]
  BY <1>1, <1>4, <1>5 DEF ConnectReturns
<1>7. CASE OpenRouterStep(d)
  <2>1. CASE StepsEnd(d)
    BY <1>2, <2>1 DEF StepsEnd, StepsRaise
  <2>2. CASE ConnectAnswered(d)
    BY <1>6, <2>2 DEF ConnectAnswered
  <2>3. CASE ConnectRaises(d)
    BY <1>1, <1>4, <1>5, <2>3 DEF ConnectRaises
  <2>4. CASE ConnectRetries(d)
    BY <1>1, <1>6, <2>4 DEF ConnectRetries
  <2>5. CASE CallRetries(d)
    BY <1>3, <2>5 DEF CallRetries
  <2> QED BY <1>7, <2>1, <2>2, <2>3, <2>4, <2>5 DEF OpenRouterStep
<1>8. CASE McpStep(d) \/ Cancel(d)
  BY <1>2, <1>3, <1>8 DEF McpStep, McpAnswers, McpFails, Cancel
<1>9. CASE Orchestrate(d) \/ Validate(d)
  BY <1>2, <1>3, <1>9 DEF Orchestrate, Validate, Ask
<1> QED BY <1>7, <1>8, <1>9

LEMMA OperatorLeaves ==
    ASSUME IInv, NEW c \in Requests,
           Connect \/ Disconnect \/ OperatorStep \/ SetTraffic \/ UNCHANGED vars
    PROVE  call'[c] = call[c]
<1>1. call \in [Callers -> Records] /\ c \in Callers /\ c # Operator
  BY OperatorAssumption DEF IInv, TypeOK, Records, Callers
<1> QED BY <1>1 DEF Connect, ConnectMcp, Disconnect, OperatorStep, McpConnected,
                    DisconnectMcp, SetTraffic, vars

LEMMA NearerStep ==
    ASSUME IInv, IInv', [Next]_vars, NEW c \in Requests, call[c].pc # "idle",
           call'[c] # call[c]
    PROVE  Ahead(call'[c]) < Ahead(call[c])
<1>1. ASSUME NEW d \in Callers,
             \/ OpenRouterStep(d)
             \/ d \in Requests /\ \/ McpStep(d) \/ Cancel(d)
                                  \/ Orchestrate(d) \/ Validate(d)
      PROVE  Ahead(call'[c]) < Ahead(call[c])
  <2>1. d = c
    BY <1>1, OthersStep
  <2>2. ~Orchestrate(c) /\ ~Validate(c)
    BY DEF Orchestrate, Validate
  <2> QED BY <1>1, <2>1, <2>2, OpenRouterGetsNearer, McpGetsNearer
<1> QED BY <1>1, OperatorLeaves DEF Next, Callers

\* For any number of requests and retries, and whatever the breaker, the other
\* requests and the operator do: a request has at most 2 * Whole - 1 steps ahead
\* of it, and each step it takes leaves it fewer.  That it takes them is what
\* fairness adds (RequestsEnd).
THEOREM RequestsRunOutOfSteps == Spec => []AheadIsBounded /\ EachStepGetsNearer
<1>1. IInv => AheadIsBounded
  <2> SUFFICES ASSUME IInv, NEW c \in Requests PROVE Ahead(call[c]) \in 0 .. 2 * Whole - 1
    BY DEF AheadIsBounded
  <2>1. call[c] \in Records
    BY DEF IInv, TypeOK, Records, Callers
  <2> QED BY <2>1, AheadFact
<1>2. IInv /\ IInv' /\ [Next]_vars =>
        [ \A c \in Requests :
            call[c].pc # "idle" /\ call'[c] # call[c]
               => Ahead(call'[c]) < Ahead(call[c]) ]_vars
  BY NearerStep
<1> QED BY <1>1, <1>2, Invariance, PTL DEF Spec, EachStepGetsNearer

-----------------------------------------------------------------------------
(* The connection bridge. *)

Connections ==
    [process : Processes \union {NoProcess},
     health_status : {"none", "connected", "unhealthy"}, recent : BOOLEAN]

UserRecords ==
    [pc : {"idle", "starting", "deploying", "closing", "shutting_down"},
     server : Servers \union {""}, process : Processes \union {NoProcess},
     goal : {"", "connect", "disconnect", "shutdown"}, left : SUBSET Servers]

\* Whoever is suspended in a call for a server knows which, and the admin
\* connects to none.
Sensible(c, r) ==
    /\ r.pc \in {"starting", "deploying", "closing"} => r.server \in Servers
    /\ c = Admin => r.pc \notin {"starting", "deploying"} /\ r.goal # "connect"

UsersOK == caller \in [Users -> UserRecords] /\ \A c \in Users : Sensible(c, caller[c])

\* A server without an entry has no process.
NoEntryNoProcess == \A s \in Servers : ~Connected(s) => connection[s].process = NoProcess

ConnectionsOK ==
    /\ running \subseteq Processes
    /\ registered \in [Servers -> Processes \union {NoProcess}]
    /\ connection \in [Servers -> Connections]
    /\ NoEntryNoProcess
    /\ StopsItsOwn

BridgeInv == UsersOK /\ ConnectionsOK

\* Nobody loses sight of a running process.
KeepsTending == \A p \in running' : Tended(p) => Tended(p)'

-----------------------------------------------------------------------------
(* What the operators give. *)

LEMMA AtRestFact ==
    AtRest \in UserRecords /\ AtRest.pc = "idle" /\ AtRest.left = {} /\ AtRest.goal = ""
BY DEF AtRest, UserRecords

LEMMA NoConnectionFact ==
    /\ NoConnection \in Connections
    /\ NoConnection.process = NoProcess /\ NoConnection.health_status = "none"
BY DEF NoConnection, Connections

LEMMA FreshFact ==
    ASSUME NEW p \in Processes \union {NoProcess}
    PROVE  Fresh(p) \in Connections /\ Fresh(p).process = p /\ Fresh(p).health_status # "none"
BY DEF Fresh, Connections

\* A check leaves the process of a connection, and the entry, where they are.
LEMMA CheckedFact ==
    ASSUME NEW conn \in Connections
    PROVE  /\ Checked(conn) \in Connections
           /\ Checked(conn).process = conn.process
           /\ conn.health_status # "none" => Checked(conn).health_status # "none"
BY DEF Checked, Connections

\* One user moves on, to a sensible record.
LEMMA UserMoves ==
    ASSUME UsersOK, NEW c \in Users, NEW r \in UserRecords, Sensible(c, r),
           caller' = [caller EXCEPT ![c] = r]
    PROVE  /\ UsersOK'
           /\ caller'[c] = r
           /\ \A d \in Users \ {c} : caller'[d] = caller[d]
BY DEF UsersOK, Sensible

\* A user who was not starting a process moves on, and the register keeps what runs.
LEMMA TendingKept ==
    ASSUME UsersOK, NEW c \in Users, NEW r, caller' = [caller EXCEPT ![c] = r],
           caller[c].pc # "starting",
           \A s \in Servers : registered[s] \in running' => registered'[s] = registered[s]
    PROVE  KeepsTending
<1>1. \A d \in Users : caller[d].pc = "starting" => caller'[d] = caller[d]
  BY DEF UsersOK
<1> QED BY <1>1 DEF KeepsTending, Tended

\* The entry of one server is replaced by none or by a fresh one of no process,
\* and the other entries keep their process and their health.
LEMMA OnlyUrlsAdded ==
    ASSUME ConnectionsOK, UNCHANGED <<running, registered>>,
           connection' \in [Servers -> Connections],
           \A t \in Servers : \/ connection'[t].process = NoProcess
                              \/ /\ connection'[t].process = connection[t].process
                                 /\ connection'[t].health_status # "none"
    PROVE  ConnectionsOK'
BY BridgeAssumption DEF ConnectionsOK, NoEntryNoProcess, StopsItsOwn, Connected

-----------------------------------------------------------------------------
(* The steps: each keeps the invariant, and all but two kinds keep what runs *)
(* in somebody's sight.                                                    *)

\* conns are the connections once the entry of s, if there was one, is gone.
LEMMA EstablishKeeps ==
    ASSUME BridgeInv, NEW c \in Clients, NEW s \in Servers, caller[c].pc # "starting",
           NEW conns \in [Servers -> Connections], conns[s].process = NoProcess,
           \A t \in Servers \ {s} : conns[t] = connection[t],
           Establish(c, s, conns)
    PROVE  BridgeInv' /\ KeepsTending
<1> USE AtRestFact DEF BridgeInv
<1> c \in Users /\ c # Admin /\ NoProcess \notin running /\ NoProcess \notin Processes
  BY BridgeAssumption DEF ConnectionsOK, Users
<1>2. Fresh(NoProcess) \in Connections /\ Fresh(NoProcess).process = NoProcess
  BY FreshFact
<1>3. ASSUME caller' = [caller EXCEPT ![c] = AtRest],
             connection' \in {conns, [conns EXCEPT ![s] = Fresh(NoProcess)]},
             UNCHANGED <<running, registered>>
      PROVE  BridgeInv' /\ KeepsTending
  <2>1. ConnectionsOK'
    <3>1. connection' \in [Servers -> Connections]
      BY <1>2, <1>3
    <3>2. connection'[s].process = NoProcess
      BY <1>2, <1>3
    <3>3. \A t \in Servers \ {s} : connection'[t] = connection[t]
      BY <1>3
    <3> QED BY <1>3, <3>1, <3>2, <3>3, OnlyUrlsAdded
            DEF ConnectionsOK, NoEntryNoProcess, Connected
  <2>2. UsersOK'
    BY <1>3, UserMoves DEF Sensible
  <2>3. KeepsTending
    BY <1>3, TendingKept
  <2> QED BY <2>1, <2>2, <2>3
<1>4. ASSUME caller' = [caller EXCEPT ![c] = [AtRest EXCEPT !.pc = "deploying", !.server = s]],
             connection' = conns, UNCHANGED <<running, registered>>
      PROVE  BridgeInv' /\ KeepsTending
  <2> DEFINE r == [AtRest EXCEPT !.pc = "deploying", !.server = s]
  <2>1. r \in UserRecords /\ Sensible(c, r)
    BY DEF UserRecords, Sensible
  <2>2. UsersOK' /\ KeepsTending
    BY <1>4, <2>1, UserMoves, TendingKept
  <2>3. ConnectionsOK'
    BY <1>4, OnlyUrlsAdded DEF ConnectionsOK, NoEntryNoProcess, Connected
  <2> QED BY <2>2, <2>3
<1>5. ASSUME Reusable(s), caller' = [caller EXCEPT ![c] = AtRest],
             connection' = [conns EXCEPT ![s] = Fresh(registered[s])],
             UNCHANGED <<running, registered>>
      PROVE  BridgeInv' /\ KeepsTending
  <2>1. UsersOK' /\ KeepsTending
    BY <1>5, UserMoves, TendingKept DEF Sensible
  <2>2. /\ Fresh(registered[s]) \in Connections
        /\ Fresh(registered[s]).process = registered[s]
        /\ Fresh(registered[s]).health_status # "none"
    BY FreshFact DEF ConnectionsOK
  <2>3. /\ connection' \in [Servers -> Connections]
        /\ connection'[s] = Fresh(registered[s])
        /\ \A t \in Servers \ {s} : connection'[t] = connection[t]
    BY <1>5, <2>2
  <2>4. ConnectionsOK'
    BY <1>5, <2>2, <2>3 DEF ConnectionsOK, NoEntryNoProcess, StopsItsOwn, Connected
  <2> QED BY <2>1, <2>4
<1>6. ASSUME ~Reusable(s), registered' = [registered EXCEPT ![s] = NoProcess],
             connection' = conns,
             NEW r \in UserRecords, Sensible(c, r), caller' = [caller EXCEPT ![c] = r],
             \/ UNCHANGED running
             \/ r.pc = "starting" /\ r.process \in Unused
                  /\ running' = running \union {r.process}
      PROVE  BridgeInv' /\ KeepsTending
  <2>1. UsersOK' /\ caller'[c] = r
    BY <1>6, UserMoves
  <2>2. /\ \A t \in Servers : connection[t].process \notin running' \ running
        /\ \A t \in Servers : registered[t] \notin running' \ running
        /\ running' \subseteq Processes
    BY <1>6 DEF Unused, ConnectionsOK
  <2>3. /\ registered' \in [Servers -> Processes \union {NoProcess}]
        /\ \A t \in Servers \ {s} : registered'[t] = registered[t]
    BY <1>6 DEF ConnectionsOK
  <2>4. NoProcess \notin running'
    BY <2>2
  <2>5. StopsItsOwn'
    BY <1>6, <2>2, <2>3, <2>4 DEF ConnectionsOK, StopsItsOwn
  <2>6. ConnectionsOK'
    BY <1>6, <2>2, <2>3, <2>5 DEF ConnectionsOK, NoEntryNoProcess, Connected
  <2>7. registered[s] \notin running'
    BY <1>6, <2>2 DEF Reusable
  <2>8. KeepsTending
    BY <1>6, <2>3, <2>7, TendingKept
  <2> QED BY <2>1, <2>6, <2>8
<1>7. ASSUME NEW p \in Unused
      PROVE  LET r == [AtRest EXCEPT !.pc = "starting", !.server = s, !.process = p]
             IN  r \in UserRecords /\ Sensible(c, r) /\ r.pc = "starting" /\ r.process = p
  BY <1>7 DEF UserRecords, Sensible, Unused
<1>8. Sensible(c, AtRest)
  BY DEF Sensible
<1>9. CASE /\ ~Reusable(s)
           /\ registered' = [registered EXCEPT ![s] = NoProcess]
           /\ connection' = conns
           /\ \/ \E p \in Unused :
                    /\ running' = running \union {p}
                    /\ caller' = [caller EXCEPT ![c] =
                                    [AtRest EXCEPT !.pc = "starting", !.server = s, !.process = p]]
              \/ caller' = [caller EXCEPT ![c] = AtRest] /\ UNCHANGED running
  <2>1. CASE caller' = [caller EXCEPT ![c] = AtRest] /\ UNCHANGED running
    BY <1>6, <1>8, <1>9, <2>1
  <2>2. ASSUME NEW p \in Unused, running' = running \union {p},
               caller' = [caller EXCEPT ![c] =
                            [AtRest EXCEPT !.pc = "starting", !.server = s, !.process = p]]
        PROVE  BridgeInv' /\ KeepsTending
    <3> DEFINE r == [AtRest EXCEPT !.pc = "starting", !.server = s, !.process = p]
    <3>1. r \in UserRecords /\ Sensible(c, r) /\ r.pc = "starting" /\ r.process = p
      BY <1>7
    <3>2. caller' = [caller EXCEPT ![c] = r]
      BY <2>2
    <3> HIDE DEF r
    <3> QED BY <1>6, <1>9, <2>2, <3>1, <3>2
  <2> QED BY <1>9, <2>1, <2>2
<1> QED BY <1>3, <1>4, <1>5, <1>9 DEF Establish

\* The process of a name is stopped, which is the connection's, if that one runs;
\* or it cannot be, and keeps its name.
LEMMA CloseKeeps ==
    ASSUME BridgeInv, NEW c \in Users, NEW s \in Servers, caller[c].pc # "starting",
           NEW goal \in {"connect", "disconnect", "shutdown"}, NEW left \in SUBSET Servers,
           c = Admin => goal # "connect",
           connection' \in [Servers -> Connections],
           \A t \in Servers :
              /\ connection'[t].process = connection[t].process
              /\ Connected(t) => connection'[t].health_status # "none",
           Close(c, s, goal, left)
    PROVE  BridgeInv' /\ KeepsTending
<1> DEFINE r == [AtRest EXCEPT !.pc = "closing", !.server = s, !.goal = goal, !.left = left]
<1>1. r \in UserRecords /\ Sensible(c, r)
  BY AtRestFact DEF UserRecords, Sensible
<1>2. caller' = [caller EXCEPT ![c] = r]
  BY DEF Close
<1>3. /\ running' \in {running, running \ {registered[s]}}
      /\ \/ /\ running' = running \ {registered[s]}
            /\ registered' = [registered EXCEPT ![s] = NoProcess]
         \/ registered' = registered
  BY DEF Close, StopProcess
<1> HIDE DEF r
<1>4. UsersOK'
  BY <1>1, <1>2, UserMoves DEF BridgeInv
<1>5. /\ registered' \in [Servers -> Processes \union {NoProcess}]
      /\ \A t \in Servers \ {s} : registered'[t] = registered[t]
      /\ registered'[s] = registered[s] \/ registered[s] \notin running'
  BY <1>3 DEF BridgeInv, ConnectionsOK
<1>6. StopsItsOwn'
  BY <1>3, <1>5 DEF BridgeInv, ConnectionsOK, StopsItsOwn
<1>7. ConnectionsOK'
  BY <1>3, <1>5, <1>6 DEF BridgeInv, ConnectionsOK, NoEntryNoProcess, Connected
<1>8. KeepsTending
  BY <1>2, <1>3, <1>5, TendingKept DEF BridgeInv
<1> QED BY <1>4, <1>7, <1>8 DEF BridgeInv

\* Processes die, entries are checked and grow old, and the register forgets
\* names of processes that do not run.
LEMMA ChecksKeep ==
    ASSUME BridgeInv, UNCHANGED caller, running' \subseteq running,
           registered' \in [Servers -> Processes \union {NoProcess}],
           \A t \in Servers : registered[t] \in running => registered'[t] = registered[t],
           connection' \in [Servers -> Connections],
           \A t \in Servers :
              /\ connection'[t].process = connection[t].process
              /\ Connected(t) => connection'[t].health_status # "none"
    PROVE  BridgeInv' /\ KeepsTending
<1>1. UsersOK'
  BY DEF BridgeInv, UsersOK
<1>2. StopsItsOwn'
  BY DEF BridgeInv, ConnectionsOK, StopsItsOwn
<1>3. ConnectionsOK'
  BY <1>2 DEF BridgeInv, ConnectionsOK, NoEntryNoProcess, Connected
<1>4. KeepsTending
  BY DEF KeepsTending, Tended
<1> QED BY <1>1, <1>3, <1>4 DEF BridgeInv

LEMMA WithoutKeeps ==
    ASSUME ConnectionsOK, NEW s, connection' \in {connection, Without(s)},
           UNCHANGED <<running, registered>>
    PROVE  ConnectionsOK'
<1>1. /\ connection' \in [Servers -> Connections]
      /\ \A t \in Servers : connection'[t] \in {connection[t], NoConnection}
  BY NoConnectionFact DEF ConnectionsOK, Without
<1> QED BY <1>1, NoConnectionFact, OnlyUrlsAdded DEF ConnectionsOK, NoEntryNoProcess, Connected

LEMMA ConnectKeeps ==
    ASSUME BridgeInv, NEW c \in Clients, NEW s \in Servers, ConnectToServer(c, s)
    PROVE  BridgeInv' /\ KeepsTending
<1>1. c \in Users /\ c # Admin /\ caller[c].pc # "starting"
  BY BridgeAssumption DEF Users, ConnectToServer
<1>2. ASSUME Connected(s), connection' = [connection EXCEPT ![s] = Checked(@)]
      PROVE  /\ connection' \in [Servers -> Connections]
             /\ \A t \in Servers :
                  /\ connection'[t].process = connection[t].process
                  /\ Connected(t) => connection'[t].health_status # "none"
  <2>1. /\ Checked(connection[s]) \in Connections
        /\ Checked(connection[s]).process = connection[s].process
        /\ Checked(connection[s]).health_status # "none"
    BY <1>2, CheckedFact DEF BridgeInv, ConnectionsOK, Connected
  <2> QED BY <1>2, <2>1 DEF BridgeInv, ConnectionsOK, Connected
<1>3. CASE /\ Connected(s) /\ Healthy(s)
           /\ connection' = [connection EXCEPT ![s] = Checked(@)]
           /\ UNCHANGED <<running, registered, caller>>
  BY <1>2, <1>3, ChecksKeep DEF BridgeInv, ConnectionsOK
<1>4. CASE /\ Connected(s) /\ ~Healthy(s)
           /\ connection' = [connection EXCEPT ![s] = Checked(@)]
           /\ Close(c, s, "connect", {})
  BY <1>1, <1>2, <1>4, CloseKeeps
<1>5. CASE ~Connected(s) /\ Establish(c, s, connection)
  BY <1>1, <1>5, EstablishKeeps DEF BridgeInv, ConnectionsOK, NoEntryNoProcess
<1> QED BY <1>3, <1>4, <1>5 DEF ConnectToServer

\* The admin lets go of an entry.
LEMMA DropKeeps ==
    ASSUME BridgeInv, NEW s, NEW r \in UserRecords, Sensible(Admin, r), Drop(s, r)
    PROVE  BridgeInv' /\ KeepsTending
<1>1. Admin \in Users /\ caller[Admin].pc # "starting"
  BY DEF Users, BridgeInv, UsersOK, Sensible
<1>2. UsersOK'
  BY <1>1, UserMoves DEF Drop, BridgeInv
<1>3. ConnectionsOK'
  BY WithoutKeeps DEF Drop, BridgeInv
<1>4. KeepsTending
  BY <1>1, TendingKept DEF Drop, BridgeInv
<1> QED BY <1>2, <1>3, <1>4 DEF BridgeInv

LEMMA ShuttingDownFact ==
    ASSUME NEW left \in SUBSET Servers
    PROVE  ShuttingDown(left) \in UserRecords /\ Sensible(Admin, ShuttingDown(left))
BY AtRestFact DEF ShuttingDown, UserRecords, Sensible

LEMMA AdminKeeps == ASSUME BridgeInv, AdminStep PROVE BridgeInv' /\ KeepsTending
<1>1. /\ Admin \in Users /\ caller[Admin] \in UserRecords /\ caller[Admin].pc # "starting"
      /\ caller[Admin].left \in SUBSET Servers
  BY DEF Users, BridgeInv, UsersOK, Sensible, UserRecords
<1>2. Sensible(Admin, AtRest)
  BY AtRestFact DEF Sensible
<1>3. ASSUME NEW s \in Servers, NEW goal \in {"disconnect", "shutdown"},
             NEW left \in SUBSET Servers, Close(Admin, s, goal, left), UNCHANGED connection
      PROVE  BridgeInv' /\ KeepsTending
  <2>1. /\ connection' \in [Servers -> Connections]
        /\ \A t \in Servers : /\ connection'[t].process = connection[t].process
                              /\ Connected(t) => connection'[t].health_status # "none"
    BY <1>3 DEF BridgeInv, ConnectionsOK, Connected
  <2> QED BY <1>1, <1>3, <2>1, CloseKeeps
<1>4. ASSUME NEW s \in Servers, DisconnectServer(s) PROVE BridgeInv' /\ KeepsTending
  BY <1>2, <1>3, <1>4, AtRestFact, DropKeeps DEF DisconnectServer
<1>5. CASE Shutdown
  <2> DEFINE r == ShuttingDown({s \in Servers : Connected(s)})
  <2>1. r \in UserRecords /\ Sensible(Admin, r)
    BY ShuttingDownFact
  <2>2. caller' = [caller EXCEPT ![Admin] = r] /\ UNCHANGED <<running, registered, connection>>
    BY <1>5 DEF Shutdown
  <2> HIDE DEF r
  <2>3. UsersOK' /\ KeepsTending
    BY <1>1, <2>1, <2>2, UserMoves, TendingKept DEF BridgeInv
  <2>4. ConnectionsOK'
    BY <2>2, WithoutKeeps DEF BridgeInv
  <2> QED BY <2>3, <2>4 DEF BridgeInv
<1>6. CASE ShutdownNext
  <2>1. PICK s \in caller[Admin].left :
          LET left == caller[Admin].left \ {s}
          IN  \/ Drop(s, ShuttingDown(left))
              \/ Close(Admin, s, "shutdown", left) /\ UNCHANGED connection
    BY <1>6 DEF ShutdownNext
  <2>2. s \in Servers /\ caller[Admin].left \ {s} \in SUBSET Servers
    BY <1>1
  <2>3. CASE Drop(s, ShuttingDown(caller[Admin].left \ {s}))
    BY <2>2, <2>3, ShuttingDownFact, DropKeeps
  <2>4. CASE Close(Admin, s, "shutdown", caller[Admin].left \ {s}) /\ UNCHANGED connection
    BY <1>3, <2>2, <2>4
  <2> QED BY <2>1, <2>3, <2>4
<1>7. CASE Status
  <2>1. \A t \in Servers :
          /\ connection'[t] = IF Connected(t) THEN Checked(connection[t]) ELSE connection[t]
          /\ connection'[t] \in Connections
          /\ connection'[t].process = connection[t].process
          /\ Connected(t) => connection'[t].health_status # "none"
    BY <1>7, CheckedFact DEF Status, BridgeInv, ConnectionsOK, Connected
  <2>2. connection' \in [Servers -> Connections]
    BY <1>7, <2>1 DEF Status
  <2>3. /\ registered' \in [Servers -> Processes \union {NoProcess}]
        /\ \A t \in Servers : registered[t] \in running => registered'[t] = registered[t]
    BY <1>7 DEF Status, Forgotten, BridgeInv, ConnectionsOK
  <2> QED BY <1>7, <2>1, <2>2, <2>3, ChecksKeep DEF Status
<1> QED BY <1>4, <1>5, <1>6, <1>7 DEF AdminStep

LEMMA EnvironmentKeeps ==
    ASSUME BridgeInv, \/ \E p \in Processes : Die(p)
                      \/ \E s \in Servers : CheckAges(s)
                      \/ UNCHANGED bridgeVars
    PROVE  BridgeInv' /\ KeepsTending
<1>1. /\ running' \subseteq running
      /\ UNCHANGED <<registered, caller>>
      /\ connection' \in [Servers -> Connections]
      /\ \A t \in Servers : /\ connection'[t].process = connection[t].process
                            /\ connection'[t].health_status = connection[t].health_status
  <2>1. CASE (\E p \in Processes : Die(p)) \/ UNCHANGED bridgeVars
    BY <2>1 DEF Die, bridgeVars, BridgeInv, ConnectionsOK
  <2>2. ASSUME NEW s \in Servers, CheckAges(s)
        PROVE  /\ connection' = [connection EXCEPT ![s] = [connection[s] EXCEPT !.recent = FALSE]]
               /\ UNCHANGED <<running, registered, caller>>
    BY <2>2 DEF CheckAges
  <2>3. \A s \in Servers :
          LET aged == [connection[s] EXCEPT !.recent = FALSE]
          IN  /\ aged \in Connections
              /\ aged.process = connection[s].process
              /\ aged.health_status = connection[s].health_status
    BY DEF BridgeInv, ConnectionsOK, Connections
  <2> QED BY <2>1, <2>2, <2>3 DEF BridgeInv, ConnectionsOK
<1> QED BY <1>1, ChecksKeep DEF BridgeInv, ConnectionsOK, Connected

-----------------------------------------------------------------------------
(* The steps that may lose a running process, and the theorems. *)

\* The start-up sleep that a caller leaves is the one of p, or of a process that
\* takes the place of p in the register.
Excused(p) ==
    \E c \in Users :
       /\ caller[c].pc = "starting" /\ caller'[c].pc # "starting"
       /\ LET s == caller[c].server
          IN  \/ caller[c].process = p
              \/ registered[s] = p /\ registered'[s] = caller[c].process

LosesOnlyExcused == \A p \in running' : Tended(p) /\ ~Tended(p)' => Excused(p)

LEMMA KeepingIsExcused == KeepsTending => LosesOnlyExcused
BY DEF KeepsTending, LosesOnlyExcused

LEMMA StartedKeeps ==
    ASSUME BridgeInv, NEW c \in Users, Started(c)
    PROVE  BridgeInv' /\ LosesOnlyExcused
<1> DEFINE p == caller[c].process
           s == caller[c].server
<1>1. /\ caller[c].pc = "starting" /\ s \in Servers /\ p \in Processes \union {NoProcess}
      /\ c # Admin
  BY DEF Started, BridgeInv, UsersOK, UserRecords, Sensible
<1>2. caller' = [caller EXCEPT ![c] = AtRest] /\ UNCHANGED running
  BY DEF Started
<1>3. UsersOK' /\ caller'[c] = AtRest /\ \A d \in Users \ {c} : caller'[d] = caller[d]
  BY <1>1, <1>2, AtRestFact, UserMoves DEF Sensible, BridgeInv
<1>4. CASE p \in running
  <2>1. /\ registered' = [registered EXCEPT ![s] = p]
        /\ connection' = [connection EXCEPT ![s] = Fresh(p)]
    BY <1>4 DEF Started, Registers
  <2>2. Fresh(p) \in Connections /\ Fresh(p).process = p /\ Fresh(p).health_status # "none"
    BY <1>1, FreshFact
  <2> HIDE DEF p, s
  <2>3. /\ registered' \in [Servers -> Processes \union {NoProcess}]
        /\ connection' \in [Servers -> Connections]
        /\ registered'[s] = p /\ connection'[s] = Fresh(p)
        /\ \A t \in Servers \ {s} :
             registered'[t] = registered[t] /\ connection'[t] = connection[t]
    BY <1>1, <2>1, <2>2 DEF BridgeInv, ConnectionsOK
  <2>4. ConnectionsOK'
    BY <1>2, <2>2, <2>3 DEF BridgeInv, ConnectionsOK, NoEntryNoProcess, StopsItsOwn, Connected
  <2>5. ASSUME NEW q \in running', Tended(q), ~Tended(q)' PROVE q = registered[s]
    BY <1>1, <1>3, <2>3, <2>5 DEF Tended, p
  <2>6. LosesOnlyExcused
    BY <1>1, <1>3, <2>3, <2>5, AtRestFact DEF LosesOnlyExcused, Excused, p, s
  <2> QED BY <1>3, <2>4, <2>6 DEF BridgeInv
<1>5. CASE p \notin running
  <2>1. UNCHANGED <<registered, connection>>
    BY <1>5 DEF Started
  <2>2. ConnectionsOK'
    BY <1>2, <2>1, WithoutKeeps DEF BridgeInv
  <2>3. LosesOnlyExcused
    BY <1>2, <1>3, <1>5, <2>1 DEF LosesOnlyExcused, Tended
  <2> QED BY <1>3, <2>2, <2>3 DEF BridgeInv
<1> QED BY <1>4, <1>5

LEMMA DeployedKeeps ==
    ASSUME BridgeInv, NEW c \in Users, Deployed(c)
    PROVE  BridgeInv' /\ KeepsTending
<1>1. Sensible(c, AtRest) /\ caller[c].pc # "starting"
  BY AtRestFact DEF Sensible, Deployed
<1>2. UsersOK' /\ KeepsTending
  BY <1>1, AtRestFact, UserMoves, TendingKept DEF Deployed, BridgeInv
<1>3. Fresh(NoProcess) \in Connections /\ Fresh(NoProcess).process = NoProcess
  BY FreshFact
<1>4. /\ connection' \in [Servers -> Connections]
      /\ \A t \in Servers : connection'[t] \in {connection[t], Fresh(NoProcess)}
  BY <1>3 DEF Deployed, BridgeInv, ConnectionsOK
<1>5. ConnectionsOK'
  BY <1>3, <1>4, OnlyUrlsAdded
     DEF Deployed, BridgeInv, ConnectionsOK, NoEntryNoProcess, Connected
<1> QED BY <1>2, <1>5 DEF BridgeInv

LEMMA ClosedKeeps ==
    ASSUME BridgeInv, NEW c \in Users, Closed(c)
    PROVE  BridgeInv' /\ KeepsTending
<1> DEFINE s == caller[c].server
<1>1. /\ caller[c].pc = "closing" /\ s \in Servers /\ caller[c].left \in SUBSET Servers
      /\ caller[c].goal = "connect" => c # Admin
  BY DEF Closed, BridgeInv, UsersOK, UserRecords, Sensible
<1> HIDE DEF s
<1>2. CASE caller[c].goal = "connect" /\ Establish(c, s, Without(s))
  <2>1. /\ Without(s) \in [Servers -> Connections]
        /\ Without(s)[s].process = NoProcess
        /\ \A t \in Servers \ {s} : Without(s)[t] = connection[t]
    BY <1>1, NoConnectionFact DEF Without, BridgeInv, ConnectionsOK
  <2>2. c \in Clients
    BY <1>1, <1>2 DEF Users
  <2> QED BY <1>1, <1>2, <2>1, <2>2, EstablishKeeps
<1>3. CASE /\ caller' = [caller EXCEPT ![c] = AtRest]
           /\ UNCHANGED <<running, registered, connection>>
  <2>1. Sensible(c, AtRest)
    BY AtRestFact DEF Sensible
  <2>2. UsersOK' /\ KeepsTending
    BY <1>1, <1>3, <2>1, AtRestFact, UserMoves, TendingKept DEF BridgeInv
  <2>3. ConnectionsOK'
    BY <1>3, WithoutKeeps DEF BridgeInv
  <2> QED BY <2>2, <2>3 DEF BridgeInv
<1>4. CASE Drop(s, ShuttingDown(caller[c].left))
  BY <1>1, <1>4, ShuttingDownFact, DropKeeps
<1> QED BY <1>2, <1>3, <1>4 DEF Closed, s

LEMMA CancelKeeps ==
    ASSUME BridgeInv, NEW c \in Users, CancelCall(c)
    PROVE  BridgeInv' /\ LosesOnlyExcused
<1>1. /\ caller' = [caller EXCEPT ![c] = AtRest]
      /\ connection' \in {connection, Without(caller[c].server)}
      /\ UNCHANGED <<running, registered>>
  BY DEF CancelCall
<1>2. UsersOK' /\ caller'[c] = AtRest /\ \A d \in Users \ {c} : caller'[d] = caller[d]
  BY <1>1, AtRestFact, UserMoves DEF Sensible, BridgeInv
<1>3. ConnectionsOK'
  BY <1>1, WithoutKeeps DEF BridgeInv
<1>4. ASSUME NEW p \in running', Tended(p), ~Tended(p)'
      PROVE  caller[c].pc = "starting" /\ caller[c].process = p
  BY <1>1, <1>2, <1>4 DEF Tended
<1>5. LosesOnlyExcused
  BY <1>2, <1>4, AtRestFact DEF LosesOnlyExcused, Excused
<1> QED BY <1>2, <1>3, <1>5 DEF BridgeInv

LEMMA BridgeStep ==
    ASSUME BridgeInv, [BridgeNext]_bridgeVars
    PROVE  BridgeInv' /\ LosesOnlyExcused
<1>1. ASSUME NEW c \in Users, Proceed(c) \/ CancelCall(c)
      PROVE  BridgeInv' /\ LosesOnlyExcused
  BY <1>1, StartedKeeps, DeployedKeeps, ClosedKeeps, CancelKeeps, KeepingIsExcused DEF Proceed
<1>2. CASE \E c \in Clients, s \in Servers : ConnectToServer(c, s)
  BY <1>2, ConnectKeeps, KeepingIsExcused
<1>3. CASE AdminStep
  BY <1>3, AdminKeeps, KeepingIsExcused
<1>4. CASE \/ \E p \in Processes : Die(p)
           \/ \E s \in Servers : CheckAges(s)
           \/ UNCHANGED bridgeVars
  BY <1>4, EnvironmentKeeps, KeepingIsExcused
<1> QED BY <1>1, <1>2, <1>3, <1>4 DEF BridgeNext

LEMMA BridgeInitially == BridgeInit => BridgeInv
<1> SUFFICES ASSUME BridgeInit PROVE BridgeInv
  OBVIOUS
<1>1. UsersOK
  BY AtRestFact DEF BridgeInit, UsersOK, Sensible
<1>2. ConnectionsOK
  BY NoConnectionFact DEF BridgeInit, ConnectionsOK, NoEntryNoProcess, StopsItsOwn
<1> QED BY <1>1, <1>2 DEF BridgeInv

LEMMA BridgeInvariance == BridgeSpec => []BridgeInv
<1>1. BridgeInv /\ [BridgeNext]_bridgeVars => BridgeInv'
  BY BridgeStep
<1> QED BY <1>1, BridgeInitially, PTL DEF BridgeSpec

\* For any clients, servers and processes, however calls interleave, are
\* cancelled and find their processes dead, the variables keep their types.
THEOREM BridgeTypeCorrect == BridgeSpec => []BridgeTypeOK
<1>1. BridgeInv => BridgeTypeOK
  BY DEF BridgeInv, UsersOK, ConnectionsOK, BridgeTypeOK, Connections, UserRecords
<1> QED BY <1>1, BridgeInvariance, PTL

\* For any of them: if the process of a connection runs, it is the one that is
\* registered under the name of its server, so that a clean-up, which stops by
\* name, stops the right one.
THEOREM CleanUpStopsItsOwn == BridgeSpec => []StopsItsOwn
<1>1. BridgeInv => StopsItsOwn
  BY DEF BridgeInv, ConnectionsOK
<1> QED BY <1>1, BridgeInvariance, PTL

\* For any of them: a running process goes out of everybody's sight only when
\* the caller that starts it is cancelled, or when another caller that was
\* starting one for the same server at the same time registers its own.
THEOREM LostOnlyByRaceOrCancel == BridgeSpec => LostByRaceOrCancel
<1>1. BridgeInv /\ [BridgeNext]_bridgeVars => [LosesOnlyExcused]_bridgeVars
  BY BridgeStep
<1> QED BY <1>1, BridgeInvariance, PTL
        DEF BridgeSpec, LostByRaceOrCancel, LosesOnlyExcused, Excused

-----------------------------------------------------------------------------
(* What DeadConnectionsGo rests on. *)

\* A connection that is handed out without a look at its process (line 369).
Trusted(conn) == conn.recent /\ conn.health_status = "connected"

\* The trust a connection had when its process died is never renewed: a dead
\* connection that is not trusted is not trusted again, whoever checks it.
DeadIsNotTrustedAnew ==
    [][ \A s \in Servers :
          /\ connection[s].process \in Processes \ (running \union running')
          /\ connection'[s].process = connection[s].process
          /\ Trusted(connection'[s])
          => Trusted(connection[s]) ]_bridgeVars

LEMMA ConnectionMoves ==
    ASSUME BridgeInv, [BridgeNext]_bridgeVars, NEW t \in Servers
    PROVE  \/ connection'[t] = connection[t]
           \/ connection'[t] = Checked(connection[t])
           \/ ~connection'[t].recent
<1> DEFINE Moves(k) == \/ k[t] = connection[t]
                       \/ k[t] = Checked(connection[t])
                       \/ ~k[t].recent
<1>1. connection \in [Servers -> Connections]
  BY DEF BridgeInv, ConnectionsOK
<1>2. ~NoConnection.recent /\ \A p : ~Fresh(p).recent
  BY DEF NoConnection, Fresh
<1>3. ASSUME NEW k \in [Servers -> Connections], Moves(k), NEW s, NEW x, ~x.recent
      PROVE  Moves([k EXCEPT ![s] = x])
  BY <1>3
<1>4. \A s : Without(s) \in [Servers -> Connections] /\ Moves(Without(s))
  BY <1>1, <1>2, <1>3, NoConnectionFact DEF Without
<1>5. ASSUME NEW c, NEW s, NEW k \in [Servers -> Connections], Moves(k), Establish(c, s, k)
      PROVE  Moves(connection')
  BY <1>2, <1>3, <1>5 DEF Establish
<1>6. ASSUME NEW s, connection' = [connection EXCEPT ![s] = Checked(@)]
      PROVE  Moves(connection')
  BY <1>1, <1>6
<1>7. ASSUME NEW c \in Clients, NEW s \in Servers, ConnectToServer(c, s)
      PROVE  Moves(connection')
  BY <1>1, <1>5, <1>6, <1>7 DEF ConnectToServer
<1>8. ASSUME NEW c \in Users, Proceed(c) \/ CancelCall(c) PROVE Moves(connection')
  <2>1. CASE Started(c)
    BY <1>1, <1>2, <1>3, <2>1 DEF Started
  <2>2. CASE Deployed(c)
    BY <1>1, <1>2, <1>3, <2>2 DEF Deployed
  <2>3. CASE Closed(c)
    BY <1>4, <1>5, <2>3 DEF Closed, Drop
  <2>4. CASE CancelCall(c)
    BY <1>4, <2>4 DEF CancelCall
  <2> QED BY <1>8, <2>1, <2>2, <2>3, <2>4 DEF Proceed
<1>9. CASE AdminStep
  <2>1. ASSUME NEW s \in Servers, DisconnectServer(s) PROVE Moves(connection')
    BY <1>4, <2>1 DEF DisconnectServer, Drop
  <2>2. CASE Shutdown \/ ShutdownNext
    BY <1>4, <2>2 DEF Shutdown, ShutdownNext, Drop
  <2>3. CASE Status
    BY <2>3 DEF Status
  <2> QED BY <1>9, <2>1, <2>2, <2>3 DEF AdminStep
<1>10. CASE \/ \E p \in Processes : Die(p)
            \/ \E s \in Servers : CheckAges(s)
            \/ UNCHANGED bridgeVars
  <2>1. ASSUME NEW s \in Servers, CheckAges(s) PROVE Moves(connection')
    <3>1. ~[connection[s] EXCEPT !.recent = FALSE].recent
      BY <1>1 DEF Connections
    <3> QED BY <1>1, <1>3, <2>1, <3>1 DEF CheckAges
  <2> QED BY <1>10, <2>1 DEF Die, bridgeVars
<1> QED BY <1>7, <1>8, <1>9, <1>10 DEF BridgeNext

\* For any clients, servers and processes: how long a dead connection can still
\* be handed out is settled when its process dies, by the age of its last check.
THEOREM DeathEndsTrust == BridgeSpec => DeadIsNotTrustedAnew
<1>1. ASSUME BridgeInv, [BridgeNext]_bridgeVars, NEW s \in Servers,
             connection[s].process \in Processes \ (running \union running'),
             Trusted(connection'[s])
      PROVE  Trusted(connection[s])
  <2>1. connection[s].process \notin running \union {NoProcess}
    BY <1>1, BridgeAssumption
  <2>2. connection[s] \in Connections
    BY <1>1 DEF BridgeInv, ConnectionsOK
  <2>3. CASE connection'[s] = Checked(connection[s])
    <3>1. CASE ~connection[s].recent
      <4>1. Checked(connection[s]).health_status = "unhealthy"
        BY <2>1, <2>2, <3>1 DEF Checked, Connections
      <4> QED BY <1>1, <2>3, <4>1 DEF Trusted
    <3> QED BY <1>1, <2>3, <3>1 DEF Checked
  <2> QED BY <1>1, <2>3, ConnectionMoves DEF Trusted
<1>2. BridgeInv /\ [BridgeNext]_bridgeVars =>
        [ \A s \in Servers :
            /\ connection[s].process \in Processes \ (running \union running')
            /\ connection'[s].process = connection[s].process
            /\ Trusted(connection'[s])
            => Trusted(connection[s]) ]_bridgeVars
  BY <1>1
<1> QED BY <1>2, BridgeInvariance, PTL DEF BridgeSpec, DeadIsNotTrustedAnew

=============================================================================
