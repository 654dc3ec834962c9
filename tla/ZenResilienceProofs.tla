------------------------ MODULE ZenResilienceProofs ------------------------
(***************************************************************************)
(* The breaker of the Zen MCP integration: its safety invariants, and that *)
(* it implements CircuitGate, for any number of requests and any           *)
(* configuration; and that it only gets nearer to closing while the client *)
(* is healthy.                                                             *)
(***************************************************************************)
EXTENDS ZenResilience, TLAPS

\* The counters fit the state: neither invariant is inductive without the type
\* of the other's counter.
IInv == TypeOK /\ ClosedBelowThreshold /\ HalfOpenUndecided

Slots == [pc : {"idle", "calling", "sleeping"}, attempt : 0..MaxRetries]

BreakerInv ==
    /\ state \in {"closed", "open", "half_open"}
    /\ failure_count \in 0..FailureCap
    /\ success_count \in 0..SuccessThreshold
    /\ failure_age \in 0..(RecoveryTimeout + 1)
    /\ ClosedBelowThreshold
    /\ HalfOpenUndecided

ReqTypeOK == req \in [Requests -> Slots]

LEMMA Split == IInv <=> BreakerInv /\ ReqTypeOK /\ client \in {"healthy", "faulty"}
BY DEF IInv, TypeOK, BreakerInv, ReqTypeOK, Slots

LEMMA Initially == Init => IInv
<1> SUFFICES ASSUME Init PROVE IInv
    OBVIOUS
<1>1. BreakerInv
  BY ZenAssumption DEF Init, BreakerInv, ClosedBelowThreshold, HalfOpenUndecided
<1>2. Idle \in Slots
  BY ZenAssumption DEF Idle, Slots
<1>3. ReqTypeOK
  BY <1>2 DEF Init, ReqTypeOK
<1> QED BY <1>1, <1>3, Split DEF Init

-----------------------------------------------------------------------------
(* What the steps do to the requests.                                      *)

LEMMA AnswerKeeps ==
    ASSUME ReqTypeOK, NEW r \in Requests, Answered(r)
    PROVE  ReqTypeOK'
<1>1. Idle \in Slots
  BY ZenAssumption DEF Idle, Slots
<1> QED BY <1>1 DEF ReqTypeOK, Answered

LEMMA AttemptKeeps ==
    ASSUME ReqTypeOK, NEW r \in Requests, NEW n \in 0..MaxRetries, AttemptFails(r, n)
    PROVE  ReqTypeOK'
<1>1. CASE req' = [req EXCEPT ![r] = [pc |-> "sleeping", attempt |-> n]]
  <2>1. [pc |-> "sleeping", attempt |-> n] \in Slots
    BY DEF Slots
  <2> QED BY <1>1, <2>1 DEF ReqTypeOK
<1>2. CASE Answered(r)
  BY <1>2, AnswerKeeps
<1> QED BY <1>1, <1>2 DEF AttemptFails

\* A request sleeps between two attempts only, never after its last one.
SleepersRetry == \A r \in Requests : req[r].pc = "sleeping" => req[r].attempt < MaxRetries

LEMMA NextAttempt ==
    ASSUME ReqTypeOK, SleepersRetry, NEW r \in Requests,
           req[r].pc \in {"idle", "sleeping"}
    PROVE  Attempt(r) \in 0..MaxRetries
BY ZenAssumption DEF ReqTypeOK, Slots, SleepersRetry, Attempt

-----------------------------------------------------------------------------
(* What the steps do to the breaker.                                       *)

LEMMA AllowKeeps == BreakerInv /\ Allow => BreakerInv'
<1> SUFFICES ASSUME BreakerInv, Allow PROVE BreakerInv'
    OBVIOUS
<1>1. CASE UNCHANGED breaker
  BY <1>1 DEF breaker, BreakerInv, ClosedBelowThreshold, HalfOpenUndecided
<1>2. CASE state' = "half_open" /\ success_count' = 0
           /\ UNCHANGED <<failure_count, failure_age>>
  BY <1>2, ZenAssumption DEF BreakerInv, ClosedBelowThreshold, HalfOpenUndecided
<1> QED BY <1>1, <1>2 DEF Allow

LEMMA SuccessKeeps == BreakerInv /\ OnSuccess => BreakerInv'
<1> SUFFICES ASSUME BreakerInv, OnSuccess PROVE BreakerInv'
    OBVIOUS
<1>1. CASE /\ state = "half_open"
           /\ success_count' = success_count + 1
           /\ IF Closes(success_count')
              THEN state' = "closed" /\ failure_count' = CountOnClosing
              ELSE UNCHANGED <<state, failure_count>>
           /\ UNCHANGED failure_age
  <2>1. success_count' \in 0..SuccessThreshold
    BY <1>1, ZenAssumption DEF BreakerInv, HalfOpenUndecided
  <2>2. CASE Closes(success_count')
    BY <1>1, <2>1, <2>2, ZenAssumption
       DEF CountOnClosing, BreakerInv, ClosedBelowThreshold, HalfOpenUndecided
  <2>3. CASE ~Closes(success_count')
    BY <1>1, <2>1, <2>3, ZenAssumption
       DEF Closes, BreakerInv, ClosedBelowThreshold, HalfOpenUndecided
  <2> QED BY <2>2, <2>3
<1>2. CASE /\ state = "closed" /\ failure_count' = 0
           /\ UNCHANGED <<state, success_count, failure_age>>
  BY <1>2, ZenAssumption DEF BreakerInv, ClosedBelowThreshold, HalfOpenUndecided
<1>3. CASE UNCHANGED breaker
  BY <1>3 DEF breaker, BreakerInv, ClosedBelowThreshold, HalfOpenUndecided
<1> QED BY <1>1, <1>2, <1>3 DEF OnSuccess

LEMMA FailureKeeps == BreakerInv /\ OnFailure => BreakerInv'
<1> SUFFICES ASSUME BreakerInv, OnFailure PROVE BreakerInv'
    OBVIOUS
<1> DEFINE n == IF failure_count < FailureCap THEN failure_count + 1 ELSE failure_count
<1>1. n \in 0..FailureCap
  BY ZenAssumption DEF BreakerInv
<1>2. /\ failure_count' = n /\ failure_age' = 0 /\ UNCHANGED success_count
      /\ state' = IF Opens(n) THEN "open" ELSE state
  BY DEF OnFailure
<1> HIDE DEF n
<1>3. state' = "closed" => n < FailureThreshold
  BY <1>1, <1>2, ZenAssumption DEF Opens
<1>4. state' # "half_open" /\ state' \in {"closed", "open", "half_open"}
  BY <1>2 DEF Opens, BreakerInv
<1> QED BY <1>1, <1>2, <1>3, <1>4, ZenAssumption
           DEF BreakerInv, ClosedBelowThreshold, HalfOpenUndecided

-----------------------------------------------------------------------------
(* The invariant.                                                          *)

FullInv == IInv /\ SleepersRetry

LEMMA SleepersKept ==
    ASSUME ReqTypeOK, SleepersRetry, NEW r \in Requests, NEW v,
           req' = [req EXCEPT ![r] = v],
           v.pc = "sleeping" => v.attempt < MaxRetries
    PROVE  SleepersRetry'
BY DEF ReqTypeOK, SleepersRetry

LEMMA FailedSleepers ==
    ASSUME ReqTypeOK, SleepersRetry, NEW r \in Requests, NEW n \in 0..MaxRetries,
           AttemptFails(r, n)
    PROVE  SleepersRetry'
<1>1. CASE MayRetry(n)
  BY <1>1, SleepersKept DEF AttemptFails, MayRetry
<1>2. CASE ~MayRetry(n)
  BY <1>2, SleepersKept DEF AttemptFails, Answered, Idle
<1> QED BY <1>1, <1>2

LEMMA StepKeeps == FullInv /\ [Next]_vars => FullInv'
<1> SUFFICES ASSUME FullInv, [Next]_vars PROVE FullInv'
    OBVIOUS
<1>0. BreakerInv /\ ReqTypeOK /\ client \in {"healthy", "faulty"} /\ SleepersRetry
  BY Split DEF FullInv
<1>1. ASSUME NEW r \in Requests, Admitted(r) PROVE FullInv'
  <2>1. /\ Allow /\ client' = client
        /\ req' = [req EXCEPT ![r] = [pc |-> "calling", attempt |-> Attempt(r)]]
        /\ Attempt(r) \in 0..MaxRetries
    BY <1>0, <1>1, NextAttempt DEF Admitted
  <2>2. [pc |-> "calling", attempt |-> Attempt(r)] \in Slots
    BY <2>1 DEF Slots
  <2>3. ReqTypeOK'
    BY <1>0, <2>1, <2>2 DEF ReqTypeOK
  <2>4. SleepersRetry'
    BY <1>0, <2>1, SleepersKept
  <2>5. BreakerInv'
    BY <1>0, <2>1, AllowKeeps
  <2> QED BY <1>0, <2>1, <2>3, <2>4, <2>5, Split DEF FullInv, IInv, TypeOK, BreakerInv, ReqTypeOK, Slots
<1>2. ASSUME NEW r \in Requests, Blocked(r) PROVE FullInv'
  <2>1. /\ AttemptFails(r, Attempt(r)) /\ UNCHANGED <<breaker, client>>
        /\ Attempt(r) \in 0..MaxRetries
    BY <1>0, <1>2, NextAttempt DEF Blocked
  <2>2. ReqTypeOK' /\ SleepersRetry'
    BY <1>0, <2>1, AttemptKeeps, FailedSleepers
  <2>3. BreakerInv'
    BY <1>0, <2>1 DEF breaker, BreakerInv, ClosedBelowThreshold, HalfOpenUndecided
  <2> QED BY <1>0, <2>1, <2>2, <2>3 DEF FullInv, IInv, TypeOK, BreakerInv, ReqTypeOK, Slots
<1>3. ASSUME NEW r \in Requests, Succeeds(r) PROVE FullInv'
  <2>1. OnSuccess /\ Answered(r) /\ client' = client
    BY <1>3 DEF Succeeds
  <2>2. ReqTypeOK' /\ SleepersRetry'
    BY <1>0, <2>1, AnswerKeeps, SleepersKept DEF Answered, Idle
  <2>3. BreakerInv'
    BY <1>0, <2>1, SuccessKeeps
  <2> QED BY <1>0, <2>1, <2>2, <2>3 DEF FullInv, IInv, TypeOK, BreakerInv, ReqTypeOK, Slots
<1>4. ASSUME NEW r \in Requests, Fails(r) PROVE FullInv'
  <2>1. /\ OnFailure /\ AttemptFails(r, req[r].attempt) /\ client' = client
        /\ req[r].attempt \in 0..MaxRetries
    BY <1>0, <1>4 DEF Fails, ReqTypeOK, Slots
  <2>2. ReqTypeOK' /\ SleepersRetry'
    BY <1>0, <2>1, AttemptKeeps, FailedSleepers
  <2>3. BreakerInv'
    BY <1>0, <2>1, FailureKeeps
  <2> QED BY <1>0, <2>1, <2>2, <2>3 DEF FullInv, IInv, TypeOK, BreakerInv, ReqTypeOK, Slots
<1>5. ASSUME NEW r \in Requests, Cancel(r) PROVE FullInv'
  <2>1. Answered(r) /\ UNCHANGED <<breaker, client>>
    BY <1>5 DEF Cancel
  <2>2. ReqTypeOK' /\ SleepersRetry'
    BY <1>0, <2>1, AnswerKeeps, SleepersKept DEF Answered, Idle
  <2>3. BreakerInv'
    BY <1>0, <2>1 DEF breaker, BreakerInv, ClosedBelowThreshold, HalfOpenUndecided
  <2> QED BY <1>0, <2>1, <2>2, <2>3 DEF FullInv, IInv, TypeOK, BreakerInv, ReqTypeOK, Slots
<1>6. CASE Tick
  BY <1>6, ZenAssumption DEF Tick, FullInv, IInv, TypeOK, ClosedBelowThreshold,
                             HalfOpenUndecided, SleepersRetry
<1>7. CASE ClientChanges \/ UNCHANGED vars
  BY <1>7 DEF ClientChanges, vars, breaker, FullInv, IInv, TypeOK, ClosedBelowThreshold,
              HalfOpenUndecided, SleepersRetry
<1> QED BY <1>1, <1>2, <1>3, <1>4, <1>5, <1>6, <1>7 DEF Next, Enter, Return

\* Every reachable state satisfies the inductive invariant.
THEOREM Invariance == Spec => []FullInv
<1>1. Init => FullInv
  BY Initially DEF FullInv, SleepersRetry, Init, Idle
<1> QED BY <1>1, StepKeeps, PTL DEF Spec

\* All variables keep their types, every attempt within max_retries.
THEOREM TypeCorrect == Spec => []TypeOK
<1>1. FullInv => TypeOK
  BY DEF FullInv, IInv
<1> QED BY <1>1, Invariance, PTL

\* The counters always fit the state.
THEOREM CountersFitState == Spec => []CountersFit
<1>1. FullInv => CountersFit
  BY DEF FullInv, IInv, CountersFit
<1> QED BY <1>1, Invariance, PTL

-----------------------------------------------------------------------------
(* The breaker implements CircuitGate.                                     *)

inside == { r \in Requests : req[r].pc = "calling" }
votes  == IF state = "half_open" THEN success_count ELSE 0

LEMMA GateInit == Init => Gate!Init
BY DEF Init, Gate!Init, Idle

\* A request whose attempt ends leaves the set of those inside.
LEMMA LeavesInside ==
    ASSUME ReqTypeOK, NEW r \in Requests, NEW v, v.pc # "calling",
           req' = [req EXCEPT ![r] = v]
    PROVE  inside' = inside \ {r}
BY DEF ReqTypeOK, inside

LEMMA FailedLeaves ==
    ASSUME ReqTypeOK, NEW r \in Requests, NEW n, AttemptFails(r, n)
    PROVE  inside' = inside \ {r}
BY LeavesInside, Idle.pc # "calling", [pc |-> "sleeping", attempt |-> n].pc # "calling"
   DEF AttemptFails, Answered, Idle

LEMMA AnsweredLeaves ==
    ASSUME ReqTypeOK, NEW r \in Requests, Answered(r)
    PROVE  inside' = inside \ {r}
BY LeavesInside, Idle.pc # "calling" DEF Answered, Idle

LEMMA SuccessIsGoodNews ==
    ASSUME BreakerInv, OnSuccess, NEW r \in inside, inside' = inside \ {r}
    PROVE  Gate!GoodNews(r)
<1>1. Gate!Back(r)
  BY DEF Gate!Back, inside
<1>2. CASE state # "half_open"
  <2>1. UNCHANGED <<state, votes>>
    BY <1>2 DEF OnSuccess, breaker, votes
  <2> QED BY <1>1, <1>2, <2>1 DEF Gate!GoodNews, votes
<1>3. CASE state = "half_open"
  <2>1. /\ success_count' = success_count + 1
        /\ state' = IF success_count + 1 >= SuccessThreshold THEN "closed" ELSE state
        /\ success_count \in Nat
    BY <1>3, ZenAssumption DEF OnSuccess, Closes, breaker, BreakerInv
  <2> QED BY <1>1, <1>3, <2>1, ZenAssumption DEF Gate!GoodNews
<1> QED BY <1>2, <1>3

LEMMA FailureIsBadNews == OnFailure => Gate!BadNews
BY DEF OnFailure, Opens, Gate!BadNews

\* Every step of the integration is a step of the gate or one the gate cannot
\* see.
LEMMA GateStep == FullInv /\ [Next]_vars => [Gate!Next]_(Gate!gateVars)
<1> SUFFICES ASSUME FullInv, [Next]_vars PROVE [Gate!Next]_(Gate!gateVars)
    OBVIOUS
<1>0. BreakerInv /\ ReqTypeOK
  BY Split DEF FullInv
<1>1. ASSUME NEW r \in Requests, Admitted(r) PROVE Gate!Next
  <2>1. r \notin inside /\ inside' = inside \union {r}
    BY <1>0, <1>1 DEF Admitted, ReqTypeOK, inside
  <2>2. CASE state # "open" /\ UNCHANGED breaker
    <3>1. Gate!Pass(r)
      BY <2>1, <2>2 DEF Gate!Pass, breaker, inside
    <3> QED BY <3>1 DEF Gate!Next
  <2>3. CASE state = "open" /\ state' = "half_open" /\ success_count' = 0
    <3>1. Gate!Probe(r)
      BY <2>1, <2>3 DEF Gate!Probe, inside
    <3> QED BY <3>1 DEF Gate!Next
  <2> QED BY <1>1, <2>2, <2>3 DEF Admitted, Allow
<1>2. ASSUME NEW r \in Requests, Blocked(r) PROVE UNCHANGED Gate!gateVars
  <2>1. inside' = inside
    BY <1>0, <1>2, FailedLeaves DEF Blocked, inside
  <2> QED BY <1>2, <2>1 DEF Blocked, breaker, Gate!gateVars, inside
<1>3. ASSUME NEW r \in Requests, Succeeds(r) PROVE Gate!Next
  <2>1. r \in inside /\ inside' = inside \ {r}
    BY <1>0, <1>3, AnsweredLeaves DEF Succeeds, inside
  <2>2. Gate!GoodNews(r)
    BY <1>0, <1>3, <2>1, SuccessIsGoodNews DEF Succeeds
  <2> QED BY <2>2 DEF Gate!Next
<1>4. ASSUME NEW r \in Requests, Fails(r) PROVE Gate!Next
  <2>1. r \in inside /\ inside' = inside \ {r}
    BY <1>0, <1>4, FailedLeaves DEF Fails, inside
  <2>2. Gate!Back(r) /\ Gate!BadNews
    BY <1>4, <2>1, FailureIsBadNews DEF Fails, Gate!Back, inside
  <2> QED BY <2>2 DEF Gate!Next
<1>5. ASSUME NEW r \in Requests, Cancel(r) PROVE [Gate!Next]_(Gate!gateVars)
  <2>1. UNCHANGED breaker /\ inside' = inside \ {r}
    BY <1>0, <1>5, AnsweredLeaves DEF Cancel
  <2>2. CASE r \in inside
    <3>1. Gate!NoNews(r)
      BY <2>1, <2>2 DEF Gate!NoNews, Gate!Back, breaker, inside
    <3> QED BY <3>1 DEF Gate!Next
  <2>3. CASE r \notin inside
    BY <2>1, <2>3 DEF breaker, Gate!gateVars, inside
  <2> QED BY <2>2, <2>3
<1>6. CASE Tick \/ ClientChanges \/ UNCHANGED vars
  BY <1>6 DEF Tick, ClientChanges, vars, breaker, Gate!gateVars
<1> QED BY <1>1, <1>2, <1>3, <1>4, <1>5, <1>6 DEF Next, Enter, Return

\* The breaker of the Zen integration is a CircuitGate for every configuration
\* and any number of requests.
THEOREM ImplementsGate == Spec => GateSpec
BY Invariance, GateInit, GateStep, PTL DEF Spec, GateSpec, Gate!Spec

-----------------------------------------------------------------------------
(* The way back to a closed breaker.                                       *)

\* How far the breaker is from closing: what is left of the recovery timeout,
\* the probe, and the successes that are still missing.
Away ==
    CASE state = "closed"    -> 0
      [] state = "half_open" -> SuccessThreshold - success_count
      [] state = "open"      -> SuccessThreshold + 1 + (RecoveryTimeout + 1 - failure_age)

\* No step leads away from closing; a tick and a probe of an open breaker, and
\* every success of a half-open one, lead closer.
GetsNearer ==
    /\ Away' <= Away
    /\ Tick /\ state = "open" => Away' < Away
    /\ \A r \in Requests :
          /\ Admitted(r) /\ state = "open" => Away' < Away
          /\ Succeeds(r) /\ state = "half_open" => Away' < Away

LEMMA AwayFact ==
    ASSUME BreakerInv
    PROVE  /\ Away \in Nat
           /\ state = "half_open" => Away > 0
BY ZenAssumption DEF Away, BreakerInv, HalfOpenUndecided

LEMMA BreakerRests == ASSUME UNCHANGED breaker PROVE Away' = Away
BY DEF breaker, Away

LEMMA AdmissionNears ==
    ASSUME BreakerInv, Allow PROVE Away' <= Away /\ (state = "open" => Away' < Away)
<1>1. CASE state # "open" /\ UNCHANGED breaker
  BY <1>1, AwayFact, BreakerRests
<1>2. CASE state = "open" /\ state' = "half_open" /\ success_count' = 0
  <2>1. Away' = SuccessThreshold
    BY <1>2, ZenAssumption DEF Away
  <2>2. Away >= SuccessThreshold + 1
    BY <1>2, ZenAssumption DEF Away, BreakerInv
  <2> QED BY <2>1, <2>2, AwayFact, ZenAssumption
<1> QED BY <1>1, <1>2 DEF Allow

LEMMA SuccessNears ==
    ASSUME BreakerInv, OnSuccess PROVE Away' <= Away /\ (state = "half_open" => Away' < Away)
<1>1. CASE state = "half_open" /\ success_count' = success_count + 1
           /\ state' \in {"closed", "half_open"}
  BY <1>1, ZenAssumption DEF Away, BreakerInv, HalfOpenUndecided
<1>2. CASE state = "closed" /\ state' = state
  BY <1>2 DEF Away
<1>3. CASE state = "open" /\ UNCHANGED breaker
  BY <1>3, AwayFact, BreakerRests
<1> QED BY <1>1, <1>2, <1>3 DEF OnSuccess

LEMMA TickNears ==
    ASSUME BreakerInv, Tick PROVE Away' <= Away /\ (state = "open" => Away' < Away)
BY ZenAssumption DEF Tick, Away, BreakerInv

\* While the client is healthy no step takes the breaker further from closing,
\* retries that are blocked and late successes included; and as long as it is
\* not closed, a tick, a probe or a success takes it closer.  This is the safety
\* half of RecoversForGood.
HealedOnlyNears == [][ client = "healthy" => GetsNearer ]_vars

THEOREM HealthyClosesStepByStep == Spec => HealedOnlyNears
<1>1. ASSUME FullInv, [Next]_vars, client = "healthy" PROVE GetsNearer
  <2>1. BreakerInv /\ Away \in Nat
    BY <1>1, AwayFact, Split DEF FullInv
  <2>2. \A r \in Requests : (Admitted(r) => Allow) /\ (Succeeds(r) => OnSuccess)
    BY DEF Admitted, Succeeds
  <2>3. Away' <= Away
    <3>1. CASE \E r \in Requests : Admitted(r)
      BY <2>1, <2>2, <3>1, AdmissionNears
    <3>2. CASE \E r \in Requests : Succeeds(r)
      BY <2>1, <2>2, <3>2, SuccessNears
    <3>3. ASSUME NEW r \in Requests, Fails(r) PROVE FALSE
      BY <1>1, <3>3 DEF Fails
    <3>4. CASE Tick
      BY <2>1, <3>4, TickNears
    <3>5. CASE (\E r \in Requests : Blocked(r) \/ Cancel(r)) \/ ClientChanges \/ UNCHANGED vars
      <4>1. UNCHANGED breaker
        BY <3>5 DEF Blocked, Cancel, ClientChanges, vars
      <4> QED BY <2>1, <4>1, BreakerRests
    <3> QED BY <1>1, <3>1, <3>2, <3>3, <3>4, <3>5 DEF Next, Enter, Return
  <2> QED BY <2>1, <2>2, <2>3, AdmissionNears, SuccessNears, TickNears DEF GetsNearer
<1>2. FullInv /\ [Next]_vars => [client = "healthy" => GetsNearer]_vars
  BY <1>1
<1> QED BY <1>2, Invariance, PTL DEF Spec, HealedOnlyNears

=============================================================================
