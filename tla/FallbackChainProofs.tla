------------------------ MODULE FallbackChainProofs ------------------------
(***************************************************************************)
(* The breaker, the retry budgets and the emergency mode of the fallback   *)
(* chain, for any number of requests and any thresholds.                   *)
(***************************************************************************)
EXTENDS FallbackChain, TLAPS

\* The breaker's flag and its count of failures are set by different handlers
\* and agree after each of them.
IInv == TypeOK /\ OpenIffThreshold

Slots == [pc : {"idle", "detecting", "backoff", "recovering"},
          kind : ErrorKinds \union {"timeout", "none"},
          query : Requests \union {NoQuery}]

LEMMA Bounds ==
    /\ MaxRetryAttempts \in Nat /\ MaxRetryAttempts > 0
    /\ BreakerThreshold \in Nat /\ BreakerThreshold > 0
    /\ MinOperations \in Nat /\ EmergencyDuration \in Nat
    /\ FailureCap \in Nat /\ FailureCap >= BreakerThreshold /\ AgeCap \in Nat
BY ChainAssumption

LEMMA Initially == Init => IInv
<1> SUFFICES ASSUME Init PROVE IInv
    OBVIOUS
<1>1. retry_attempts \in [Keys -> 0..MaxRetryAttempts]
  BY Bounds DEF Init
<1>2. req \in [Requests -> Slots]
  BY DEF Init, Idle, Slots
<1>3. TypeOK
  <2>1. /\ circuit_breaker_open \in BOOLEAN /\ emergency_mode \in BOOLEAN
        /\ detector \in {"healthy", "faulty", "hung"}
    BY DEF Init
  <2>2. /\ circuit_breaker_failure_count \in 0..FailureCap /\ operations \in 0..MinOperations
        /\ failure_age \in 0..AgeCap /\ emergency_age \in 0..AgeCap
    BY Bounds DEF Init
  <2> QED BY <1>1, <1>2, <2>1, <2>2 DEF TypeOK, Slots
<1>4. OpenIffThreshold
  BY Bounds DEF Init, OpenIffThreshold
<1> QED BY <1>3, <1>4 DEF IInv

\* Everything that answers a request keeps its part of the types.
LEMMA AnswerKeeps ==
    ASSUME TypeOK, NEW r \in Requests, Answered(r)
    PROVE  req' \in [Requests -> Slots] /\ operations' \in 0..MinOperations
<1>1. Idle \in Slots
  BY DEF Idle, Slots
<1>2. req' \in [Requests -> Slots]
  BY <1>1 DEF Answered, TypeOK, Slots
<1>3. operations' \in 0..MinOperations
  BY ChainAssumption DEF Answered, TypeOK
<1> QED BY <1>2, <1>3

\* Entering emergency mode, or not, on the way out.
LEMMA FallBackKeeps ==
    ASSUME TypeOK, NEW r \in Requests, NEW kind, FallBack(r, kind)
    PROVE  /\ req' \in [Requests -> Slots] /\ operations' \in 0..MinOperations
           /\ emergency_mode' \in BOOLEAN /\ emergency_age' \in 0..AgeCap
           /\ emergency_mode => emergency_mode'
<1>1. Answered(r)
  BY DEF FallBack
<1>2. \/ emergency_mode' = TRUE /\ emergency_age' = IF emergency_mode THEN emergency_age
                                                    ELSE 0
      \/ UNCHANGED emergency
  BY DEF FallBack
<1>3. /\ emergency_mode' \in BOOLEAN /\ emergency_age' \in 0..AgeCap
      /\ emergency_mode => emergency_mode'
  <2>1. CASE emergency_mode' = TRUE /\ emergency_age' = IF emergency_mode THEN emergency_age
                                                                          ELSE 0
    BY <2>1, Bounds DEF TypeOK
  <2>2. CASE UNCHANGED emergency
    BY <2>2 DEF TypeOK, emergency
  <2> QED BY <1>2, <2>1, <2>2
<1> QED BY <1>1, <1>3, AnswerKeeps

\* The breaker counts a failure and opens in the same step.
LEMMA CountKeeps ==
    ASSUME IInv, NEW kind, CountFailure(kind)
    PROVE  /\ circuit_breaker_open' \in BOOLEAN
           /\ circuit_breaker_failure_count' \in 0..FailureCap
           /\ failure_age' \in 0..AgeCap
           /\ OpenIffThreshold'
<1>1. CASE kind = "other"
  BY <1>1 DEF CountFailure, breaker, IInv, TypeOK, OpenIffThreshold
<1>2. CASE kind # "other"
  <2> DEFINE failures == IF circuit_breaker_failure_count < FailureCap
                         THEN circuit_breaker_failure_count + 1
                         ELSE circuit_breaker_failure_count
  <2>1. /\ failures \in 0..FailureCap
        /\ failures >= circuit_breaker_failure_count
    BY ChainAssumption DEF IInv, TypeOK
  <2>2. /\ circuit_breaker_failure_count' = failures
        /\ failure_age' = 0
        /\ circuit_breaker_open' = (circuit_breaker_open \/ Opens(failures))
    BY <1>2 DEF CountFailure
  <2> HIDE DEF failures
  <2>3. circuit_breaker_open' <=> failures >= BreakerThreshold
    <3>1. circuit_breaker_open => failures >= BreakerThreshold
      BY <2>1, Bounds DEF IInv, TypeOK, OpenIffThreshold
    <3> QED BY <2>2, <3>1 DEF Opens
  <2> QED BY <2>1, <2>2, <2>3, Bounds DEF OpenIffThreshold
<1> QED BY <1>1, <1>2

\* A failed detection charges a budget that is not spent, or falls back.
LEMMA HandlingKeeps ==
    ASSUME TypeOK, NEW r \in Requests, NEW kind \in ErrorKinds \union {"timeout"},
           NEW query \in Requests \union {NoQuery}, HandleFailure(r, kind, query)
    PROVE  /\ retry_attempts' \in [Keys -> 0..MaxRetryAttempts]
           /\ req' \in [Requests -> Slots] /\ operations' \in 0..MinOperations
           /\ emergency_mode' \in BOOLEAN /\ emergency_age' \in 0..AgeCap
           /\ emergency_mode => emergency_mode'
<1>1. CASE BudgetLeft(<<kind, query>>)
           /\ retry_attempts' = [retry_attempts EXCEPT ![<<kind, query>>] = @ + 1]
           /\ req' = [req EXCEPT ![r] = [pc |-> "backoff", kind |-> kind, query |-> query]]
           /\ UNCHANGED <<emergency, operations>>
  <2>1. <<kind, query>> \in Keys
    BY DEF Keys
  <2>2. retry_attempts[<<kind, query>>] + 1 \in 0..MaxRetryAttempts
    BY <1>1, <2>1, ChainAssumption DEF BudgetLeft, TypeOK
  <2>3. retry_attempts' \in [Keys -> 0..MaxRetryAttempts]
    BY <1>1, <2>1, <2>2 DEF TypeOK
  <2>4. [pc |-> "backoff", kind |-> kind, query |-> query] \in Slots
    BY DEF Slots
  <2>5. req' \in [Requests -> Slots]
    BY <1>1, <2>4 DEF TypeOK, Slots
  <2> QED BY <1>1, <2>3, <2>5 DEF TypeOK, emergency
<1>2. CASE FallBack(r, kind) /\ UNCHANGED retry_attempts
  BY <1>2, FallBackKeeps DEF TypeOK
<1> QED BY <1>1, <1>2 DEF HandleFailure

\* A request that moves on keeps its kind and query.
LEMMA MovesOn ==
    ASSUME TypeOK, NEW r \in Requests, NEW p \in {"detecting", "recovering"},
           req' = [req EXCEPT ![r].pc = p]
    PROVE  req' \in [Requests -> Slots]
<1>1. [req[r] EXCEPT !.pc = p] \in Slots
  BY DEF TypeOK, Slots
<1> QED BY <1>1 DEF TypeOK, Slots

LEMMA ArriveKeeps == ASSUME IInv, NEW r \in Requests, Arrive(r) PROVE IInv'
<1>1. CASE ServeEmergency(r) \/ ServeBreakerOpen(r)
  <2>1. /\ Answered(r) /\ UNCHANGED <<breaker, emergency_age, retry_attempts, detector>>
        /\ emergency_mode' \in BOOLEAN
    BY <1>1 DEF ServeEmergency, ServeBreakerOpen, emergency, IInv, TypeOK
  <2>2. req' \in [Requests -> Slots] /\ operations' \in 0..MinOperations
    BY <2>1, AnswerKeeps DEF IInv
  <2> QED BY <2>1, <2>2 DEF IInv, TypeOK, OpenIffThreshold, breaker, Slots
<1>2. CASE StartDetection(r)
  <2>1. /\ circuit_breaker_open' = FALSE /\ emergency_mode' = FALSE
        /\ circuit_breaker_failure_count' = CountOnExpiry
        /\ UNCHANGED <<failure_age, emergency_age, retry_attempts, operations, detector>>
        /\ req' = [req EXCEPT ![r].pc = "detecting"]
    BY <1>2 DEF StartDetection
  <2>2. req' \in [Requests -> Slots]
    BY <2>1, MovesOn DEF IInv
  <2>3. /\ circuit_breaker_failure_count' \in 0..FailureCap
        /\ circuit_breaker_failure_count' < BreakerThreshold
    BY <2>1, Bounds DEF CountOnExpiry, IInv, TypeOK, OpenIffThreshold
  <2>4. OpenIffThreshold'
    BY <2>1, <2>3, Bounds DEF OpenIffThreshold
  <2> QED BY <2>1, <2>2, <2>3, <2>4 DEF IInv, TypeOK, Slots
<1> QED BY <1>1, <1>2 DEF Arrive

LEMMA FirstDetectionKeeps ==
    ASSUME IInv, NEW r \in Requests, FirstDetection(r) PROVE IInv'
<1>1. CASE DetectionAnswers(r)
  <2>1. /\ Answered(r)
        /\ UNCHANGED <<breaker, emergency, retry_attempts, detector>>
    BY <1>1 DEF DetectionAnswers
  <2>2. req' \in [Requests -> Slots] /\ operations' \in 0..MinOperations
    BY <2>1, AnswerKeeps DEF IInv
  <2> QED BY <2>1, <2>2 DEF IInv, TypeOK, OpenIffThreshold, breaker, emergency, Slots
<1>2. CASE DetectionTimesOut(r)
  <2>1. HandleFailure(r, "timeout", r) /\ UNCHANGED <<breaker, detector>>
    BY <1>2 DEF DetectionTimesOut
  <2>2. /\ retry_attempts' \in [Keys -> 0..MaxRetryAttempts]
        /\ req' \in [Requests -> Slots] /\ operations' \in 0..MinOperations
        /\ emergency_mode' \in BOOLEAN /\ emergency_age' \in 0..AgeCap
    BY <2>1, HandlingKeeps DEF IInv
  <2> QED BY <2>1, <2>2 DEF IInv, TypeOK, OpenIffThreshold, breaker, Slots
<1>3. CASE DetectionFails(r)
  <2>1. PICK kind \in ErrorKinds : CountFailure(kind) /\ HandleFailure(r, kind, NoQuery)
    BY <1>3 DEF DetectionFails
  <2>2. /\ retry_attempts' \in [Keys -> 0..MaxRetryAttempts]
        /\ req' \in [Requests -> Slots] /\ operations' \in 0..MinOperations
        /\ emergency_mode' \in BOOLEAN /\ emergency_age' \in 0..AgeCap
    BY <2>1, HandlingKeeps DEF IInv
  <2>3. /\ circuit_breaker_open' \in BOOLEAN
        /\ circuit_breaker_failure_count' \in 0..FailureCap
        /\ failure_age' \in 0..AgeCap
        /\ OpenIffThreshold'
    BY <2>1, CountKeeps
  <2>4. detector' \in {"healthy", "faulty", "hung"}
    BY <1>3 DEF DetectionFails, IInv, TypeOK
  <2> QED BY <2>2, <2>3, <2>4 DEF IInv, TypeOK, Slots
<1> QED BY <1>1, <1>2, <1>3 DEF FirstDetection

LEMMA RecoveryKeeps == ASSUME IInv, NEW r \in Requests, Recovery(r) PROVE IInv'
<1>1. CASE BeginRecovery(r)
  <2>1. /\ req' = [req EXCEPT ![r].pc = "recovering"]
        /\ UNCHANGED <<breaker, emergency, retry_attempts, operations, detector>>
    BY <1>1 DEF BeginRecovery
  <2>2. req' \in [Requests -> Slots]
    BY <2>1, MovesOn DEF IInv
  <2> QED BY <2>1, <2>2 DEF IInv, TypeOK, OpenIffThreshold, breaker, emergency, Slots
<1>2. CASE RecoveryAnswers(r)
  <2>1. /\ Answered(r) /\ UNCHANGED <<breaker, emergency, detector>>
        /\ retry_attempts' = [retry_attempts EXCEPT ![<<req[r].kind, req[r].query>>] = 0]
    BY <1>2 DEF RecoveryAnswers
  <2>2. req' \in [Requests -> Slots] /\ operations' \in 0..MinOperations
    BY <2>1, AnswerKeeps DEF IInv
  <2>3. retry_attempts' \in [Keys -> 0..MaxRetryAttempts]
    <3>1. 0 \in 0..MaxRetryAttempts /\ retry_attempts \in [Keys -> 0..MaxRetryAttempts]
      BY Bounds DEF IInv, TypeOK
    <3> DEFINE key == <<req[r].kind, req[r].query>>
               new == [retry_attempts EXCEPT ![key] = 0]
    <3>2. \A k \in Keys : new[k] \in 0..MaxRetryAttempts
      BY <3>1
    <3> QED BY <2>1, <3>1, <3>2
  <2> QED BY <2>1, <2>2, <2>3 DEF IInv, TypeOK, OpenIffThreshold, breaker, emergency, Slots
<1>3. CASE RecoveryFails(r)
  <2>1. FallBack(r, req[r].kind) /\ UNCHANGED <<breaker, retry_attempts, detector>>
    BY <1>3 DEF RecoveryFails
  <2>2. /\ req' \in [Requests -> Slots] /\ operations' \in 0..MinOperations
        /\ emergency_mode' \in BOOLEAN /\ emergency_age' \in 0..AgeCap
    BY <2>1, FallBackKeeps DEF IInv
  <2> QED BY <2>1, <2>2 DEF IInv, TypeOK, OpenIffThreshold, breaker, Slots
<1> QED BY <1>1, <1>2, <1>3 DEF Recovery

LEMMA StepKeeps == IInv /\ [Next]_vars => IInv'
<1> SUFFICES ASSUME IInv, [Next]_vars PROVE IInv'
    OBVIOUS
<1>1. ASSUME NEW r \in Requests, Arrive(r) PROVE IInv'
  BY <1>1, ArriveKeeps
<1>2. ASSUME NEW r \in Requests, FirstDetection(r) PROVE IInv'
  BY <1>2, FirstDetectionKeeps
<1>3. ASSUME NEW r \in Requests, Recovery(r) PROVE IInv'
  BY <1>3, RecoveryKeeps
<1>4. ASSUME NEW r \in Requests, Cancel(r) PROVE IInv'
  <2>1. /\ Answered(r)
        /\ UNCHANGED <<breaker, emergency, retry_attempts, detector>>
    BY <1>4 DEF Cancel
  <2>2. req' \in [Requests -> Slots] /\ operations' \in 0..MinOperations
    BY <2>1, AnswerKeeps DEF IInv
  <2> QED BY <2>1, <2>2 DEF IInv, TypeOK, OpenIffThreshold, breaker, emergency, Slots
<1>5. CASE ResetCircuitBreaker
  <2>1. /\ circuit_breaker_open' = FALSE /\ circuit_breaker_failure_count' = 0
        /\ UNCHANGED <<failure_age, emergency_mode, emergency_age, retry_attempts,
                       operations, req, detector>>
    BY <1>5 DEF ResetCircuitBreaker, emergency
  <2>2. OpenIffThreshold' /\ circuit_breaker_failure_count' \in 0..FailureCap
    BY <2>1, Bounds DEF OpenIffThreshold
  <2> QED BY <2>1, <2>2 DEF IInv, TypeOK
<1>6. CASE ExitEmergencyMode
  BY <1>6 DEF ExitEmergencyMode, IInv, TypeOK, OpenIffThreshold, breaker
<1>7. CASE Tick
  <2>1. failure_age' \in 0..AgeCap /\ emergency_age' \in 0..AgeCap
    BY <1>7, Bounds DEF Tick, Older, IInv, TypeOK
  <2> QED BY <1>7, <2>1 DEF Tick, IInv, TypeOK, OpenIffThreshold
<1>8. CASE DetectorChanges \/ UNCHANGED vars
  BY <1>8 DEF DetectorChanges, vars, IInv, TypeOK, OpenIffThreshold, breaker, emergency
<1> QED BY <1>1, <1>2, <1>3, <1>4, <1>5, <1>6, <1>7, <1>8 DEF Next, Operator

\* Every reachable state satisfies the inductive invariant.
THEOREM Invariance == Spec => []IInv
BY Initially, StepKeeps, PTL DEF Spec

\* All of the chain's variables keep their types; no retry budget is overdrawn,
\* however many requests share it.
THEOREM TypeCorrect == Spec => []TypeOK
<1>1. IInv => TypeOK
  BY DEF IInv
<1> QED BY <1>1, Invariance, PTL

\* The breaker is open exactly when its failures have reached the threshold.
THEOREM OpenAtThreshold == Spec => []OpenIffThreshold
<1>1. IInv => OpenIffThreshold
  BY DEF IInv
<1> QED BY <1>1, Invariance, PTL

\* No step of a request cuts emergency mode short.
LEMMA EmergencyKept ==
    ASSUME IInv, [Next]_vars, emergency_mode, ~emergency_mode'
    PROVE  emergency_age > EmergencyDuration \/ ExitEmergencyMode
<1>1. ASSUME NEW r \in Requests, Arrive(r) PROVE emergency_age > EmergencyDuration
  <2>1. ~EmergencyActive
    BY <1>1 DEF Arrive, ServeEmergency, ServeBreakerOpen, StartDetection, emergency
  <2> QED BY <2>1, Bounds DEF EmergencyActive, IInv, TypeOK
<1>2. ASSUME NEW r \in Requests, FirstDetection(r) PROVE FALSE
  <2>1. CASE DetectionAnswers(r)
    BY <2>1 DEF DetectionAnswers, emergency
  <2>2. CASE DetectionTimesOut(r)
    BY <2>2, HandlingKeeps DEF DetectionTimesOut, IInv
  <2>3. CASE DetectionFails(r)
    BY <2>3, HandlingKeeps DEF DetectionFails, IInv
  <2> QED BY <1>2, <2>1, <2>2, <2>3 DEF FirstDetection
<1>3. ASSUME NEW r \in Requests, Recovery(r) PROVE FALSE
  <2>1. CASE BeginRecovery(r) \/ RecoveryAnswers(r)
    BY <2>1 DEF BeginRecovery, RecoveryAnswers, emergency
  <2>2. CASE RecoveryFails(r)
    BY <2>2, FallBackKeeps DEF RecoveryFails, IInv
  <2> QED BY <1>3, <2>1, <2>2 DEF Recovery
<1>4. CASE \/ \E r \in Requests : Cancel(r)
          \/ ResetCircuitBreaker \/ Tick \/ DetectorChanges \/ UNCHANGED vars
  BY <1>4 DEF Cancel, ResetCircuitBreaker, Tick, DetectorChanges, vars, emergency
<1> QED BY <1>1, <1>2, <1>3, <1>4 DEF Next, Operator

\* Emergency mode lasts its whole duration unless the operator ends it.
THEOREM EmergencyRunsItsCourse == Spec => EmergencyLasts
<1>1. IInv /\ [Next]_vars =>
        [ emergency_mode /\ ~emergency_mode'
          => emergency_age > EmergencyDuration \/ ExitEmergencyMode ]_vars
  BY EmergencyKept
<1> QED BY <1>1, Invariance, PTL DEF Spec, EmergencyLasts

-----------------------------------------------------------------------------
(* Requests come to an end, and so do the breaker and the emergency mode.  *)

\* The steps that a request still takes at most.
StepsLeft(r) ==
    CASE req[r].pc = "idle"       -> 0
      [] req[r].pc = "recovering" -> 1
      [] req[r].pc = "backoff"    -> 2
      [] req[r].pc = "detecting"  -> 3

\* Whatever happens to a request under way takes it closer to its answer: the
\* detection system is asked again once, and not another time.
RequestsOnlyAdvance ==
    [][ \A r \in Requests :
          /\ req[r].pc # "idle" /\ req'[r] # req[r] => StepsLeft(r)' < StepsLeft(r)
          /\ FirstDetection(r) \/ Recovery(r) => StepsLeft(r)' < StepsLeft(r) ]_vars

\* A breaker that is open and an emergency mode that is on get older, without
\* being renewed, until they no longer block anything.
Expires ==
    /\ circuit_breaker_open' => circuit_breaker_open /\ failure_age' >= failure_age
    /\ emergency_mode' => emergency_mode /\ emergency_age' >= emergency_age
    /\ Tick /\ BreakerBlocks => failure_age' > failure_age
    /\ Tick /\ EmergencyActive => emergency_age' > emergency_age

HealedOnlyExpires == [][ detector = "healthy" => Expires ]_vars

\* What becomes of the one request of a step; the others stay where they are.
LEMMA OneAdvances ==
    ASSUME IInv, NEW r \in Requests, NEW s, req' = [req EXCEPT ![r] = s],
           \/ s.pc = "idle" /\ req[r].pc # "idle"
           \/ s.pc = "recovering" /\ req[r].pc = "backoff"
           \/ s.pc = "backoff" /\ req[r].pc = "detecting"
    PROVE  /\ StepsLeft(r)' < StepsLeft(r)
           /\ \A q \in Requests : q # r => req'[q] = req[q]
<1>1. req \in [Requests -> Slots] /\ req'[r] = s
  BY DEF IInv, TypeOK, Slots
<1>2. req[r].pc \in {"idle", "detecting", "backoff", "recovering"}
  BY <1>1 DEF Slots
<1> QED BY <1>1, <1>2 DEF StepsLeft

\* A step of a request that has been asked something moves it on.
LEMMA UnderWayAdvances ==
    ASSUME IInv, NEW r \in Requests, FirstDetection(r) \/ Recovery(r) \/ Cancel(r)
    PROVE  /\ StepsLeft(r)' < StepsLeft(r)
           /\ \A q \in Requests : q # r => req'[q] = req[q]
<1>1. Idle.pc = "idle"
  BY DEF Idle
<1>2. CASE DetectionAnswers(r) \/ RecoveryAnswers(r) \/ Cancel(r)
  BY <1>1, <1>2, OneAdvances DEF DetectionAnswers, RecoveryAnswers, Cancel, Answered
<1>3. ASSUME NEW kind, NEW query, req[r].pc = "detecting", HandleFailure(r, kind, query)
      PROVE  /\ StepsLeft(r)' < StepsLeft(r)
             /\ \A q \in Requests : q # r => req'[q] = req[q]
  <2>1. CASE req' = [req EXCEPT ![r] = [pc |-> "backoff", kind |-> kind, query |-> query]]
    BY <1>3, <2>1, OneAdvances
  <2>2. CASE req' = [req EXCEPT ![r] = Idle]
    BY <1>1, <1>3, <2>2, OneAdvances
  <2> QED BY <1>3, <2>1, <2>2 DEF HandleFailure, FallBack, Answered
<1>4. CASE DetectionTimesOut(r)
  BY <1>3, <1>4 DEF DetectionTimesOut
<1>5. CASE DetectionFails(r)
  BY <1>3, <1>5 DEF DetectionFails
<1>6. CASE BeginRecovery(r)
  <2> DEFINE s == [req[r] EXCEPT !.pc = "recovering"]
  <2>1. req' = [req EXCEPT ![r] = s] /\ s.pc = "recovering"
    BY <1>6 DEF BeginRecovery, IInv, TypeOK
  <2> QED BY <1>6, <2>1, OneAdvances DEF BeginRecovery
<1>7. CASE RecoveryFails(r)
  BY <1>1, <1>7, OneAdvances DEF RecoveryFails, FallBack, Answered
<1> QED BY <1>2, <1>4, <1>5, <1>6, <1>7 DEF FirstDetection, Recovery

\* A request that arrives was idle.
LEMMA ArrivalsAreIdle ==
    ASSUME IInv, NEW r \in Requests, Arrive(r)
    PROVE  req[r].pc = "idle" /\ \A q \in Requests : q # r => req'[q] = req[q]
BY DEF Arrive, ServeEmergency, ServeBreakerOpen, StartDetection, Answered, IInv, TypeOK

\* A request takes three steps at most from its admission to its answer, however
\* many others share its retry budget (HandleFailure) and whatever the detection
\* system does meanwhile.  This is the safety half of AnsweredUnlessHung.
THEOREM ThreeStepsAtMost == Spec => RequestsOnlyAdvance
<1>1. ASSUME IInv, [Next]_vars, NEW r \in Requests
      PROVE  /\ req[r].pc # "idle" /\ req'[r] # req[r] => StepsLeft(r)' < StepsLeft(r)
             /\ FirstDetection(r) \/ Recovery(r) => StepsLeft(r)' < StepsLeft(r)
  <2>1. FirstDetection(r) \/ Recovery(r) => StepsLeft(r)' < StepsLeft(r)
    BY <1>1, UnderWayAdvances
  <2>2. ASSUME req[r].pc # "idle", req'[r] # req[r] PROVE StepsLeft(r)' < StepsLeft(r)
    <3>1. CASE \E q \in Requests : FirstDetection(q) \/ Recovery(q) \/ Cancel(q)
      BY <1>1, <2>2, <3>1, UnderWayAdvances
    <3>2. CASE \E q \in Requests : Arrive(q)
      BY <1>1, <2>2, <3>2, ArrivalsAreIdle
    <3>3. Operator \/ Tick \/ DetectorChanges \/ UNCHANGED vars => req' = req
      BY DEF Operator, ResetCircuitBreaker, ExitEmergencyMode, Tick, DetectorChanges, vars
    <3> QED BY <1>1, <2>2, <3>1, <3>2, <3>3 DEF Next
  <2> QED BY <2>1, <2>2
<1>2. IInv /\ [Next]_vars =>
        [ \A r \in Requests :
            /\ req[r].pc # "idle" /\ req'[r] # req[r] => StepsLeft(r)' < StepsLeft(r)
            /\ FirstDetection(r) \/ Recovery(r) => StepsLeft(r)' < StepsLeft(r) ]_vars
  BY <1>1
<1> QED BY <1>2, Invariance, PTL DEF Spec, RequestsOnlyAdvance

LEMMA HealthyExpires == ASSUME IInv, [Next]_vars, detector = "healthy" PROVE Expires
<1>1. /\ failure_age \in 0..AgeCap /\ emergency_age \in 0..AgeCap /\ AgeCap \in Nat
      /\ AgeCap > BreakerTimeout /\ AgeCap > EmergencyDuration
      /\ BreakerTimeout \in Nat /\ EmergencyDuration \in Nat
  BY ChainAssumption DEF IInv, TypeOK
<1>2. /\ Tick /\ BreakerBlocks => failure_age' > failure_age
      /\ Tick /\ EmergencyActive => emergency_age' > emergency_age
  BY <1>1 DEF Tick, BreakerBlocks, EmergencyActive, Older
<1>3. ASSUME UNCHANGED <<failure_age, emergency_age>>,
             circuit_breaker_open' => circuit_breaker_open,
             emergency_mode' => emergency_mode
      PROVE  Expires
  BY <1>1, <1>2, <1>3 DEF Expires
<1>4. CASE \E r \in Requests : Arrive(r)
  BY <1>3, <1>4 DEF Arrive, ServeEmergency, ServeBreakerOpen, StartDetection, breaker, emergency
<1>5. ASSUME NEW r \in Requests, DetectionTimesOut(r) \/ DetectionFails(r) \/ RecoveryFails(r)
      PROVE  FALSE
  BY <1>5 DEF DetectionTimesOut, DetectionFails, RecoveryFails
<1>6. CASE \/ \E r \in Requests : \/ DetectionAnswers(r) \/ BeginRecovery(r)
                                  \/ RecoveryAnswers(r) \/ Cancel(r)
           \/ Operator \/ DetectorChanges \/ UNCHANGED vars
  <2>1. CASE \E r \in Requests : \/ DetectionAnswers(r) \/ BeginRecovery(r)
                                 \/ RecoveryAnswers(r) \/ Cancel(r)
    <3>1. UNCHANGED <<breaker, emergency>>
      BY <2>1 DEF DetectionAnswers, BeginRecovery, RecoveryAnswers, Cancel
    <3> QED BY <1>3, <3>1 DEF breaker, emergency
  <2>2. CASE ResetCircuitBreaker
    BY <1>3, <2>2 DEF ResetCircuitBreaker, emergency
  <2>3. CASE ExitEmergencyMode
    BY <1>3, <2>3 DEF ExitEmergencyMode, breaker
  <2>4. CASE DetectorChanges \/ UNCHANGED vars
    BY <1>3, <2>4 DEF DetectorChanges, vars, breaker, emergency
  <2> QED BY <1>6, <2>1, <2>2, <2>3, <2>4 DEF Operator
<1>7. CASE Tick
  <2>1. failure_age' >= failure_age /\ emergency_age' >= emergency_age
    BY <1>1, <1>7 DEF Tick, Older
  <2> QED BY <1>2, <1>7, <2>1 DEF Tick, Expires
<1> QED BY <1>4, <1>5, <1>6, <1>7 DEF Next, FirstDetection, Recovery

\* While the detection system is healthy, requests that are still in backoff or
\* recovery neither reopen the breaker, renew its time-out nor enter or prolong
\* the emergency mode.  This is the safety half of RecoversForGood.
THEOREM HealthyRenewsNothing == Spec => HealedOnlyExpires
<1>1. IInv /\ [Next]_vars => [detector = "healthy" => Expires]_vars
  BY HealthyExpires
<1> QED BY <1>1, Invariance, PTL DEF Spec, HealedOnlyExpires

=============================================================================
