------------------------ MODULE CircuitBreakerProofs ------------------------
(***************************************************************************)
(* What the breaker guarantees for every configuration __post_init__       *)
(* accepts, any number of callers and any jitter.                          *)
(*                                                                         *)
(* The breaker's own variables change in five ways only (AllowRequest,     *)
(* RecordSuccess, RecordFailure, an override, Tick), so the invariance     *)
(* proof is done once for each of them and reused by the actions of the    *)
(* callers and of the monitor.                                             *)
(*                                                                         *)
(* HealthMonitoring, the other component of circuit_breaker.py, has its    *)
(* theorems at the end.                                                    *)
(***************************************************************************)
EXTENDS CircuitBreaker, HealthMonitoring, FiniteSetTheorems, TLAPS

\* The part of TypeOK that is about the breaker itself.
BreakerTypeOK ==
    /\ current_state \in {Closed, Open, HalfOpen}
    /\ consecutive_failures \in 0..CountCap
    /\ consecutive_successes \in 0..CountCap
    /\ next_retry \in Int /\ next_retry >= NoRetry

CallerTypeOK ==
    /\ call \in [Callers -> [pc : {"idle", "running", "sleeping"},
                             attempt : 0..MaxRetries]]
    /\ monitor \in {"waiting", "saw_closed"}
    /\ service \in {"healthy", "faulty"}

\* The three facts tying the counters and the retry time to the state.  Given
\* the types they are inductive together: each state is entered with the
\* counter that decides its end reset, or below its threshold.
BreakerInv ==
    /\ BreakerTypeOK
    /\ ClosedBelowThreshold
    /\ HalfOpenUndecided
    /\ OpenHasRetryTime

\* A coroutine that sleeps between attempts has one left.
RetriesLeft ==
    \A c \in Callers : call[c].pc = "sleeping" => call[c].attempt < MaxRetries

IInv == BreakerInv /\ CallerTypeOK /\ RetriesLeft

-----------------------------------------------------------------------------
\* The three states are three different values.
LEMMA States == Closed # Open /\ Closed # HalfOpen /\ Open # HalfOpen
BY DEF Closed, Open, HalfOpen

\* Counting stays within the bound, and below the bound it counts.
LEMMA BumpFact ==
    ASSUME NEW n \in 0..CountCap
    PROVE  /\ Bump(n) \in 0..CountCap
           /\ n < CountCap => Bump(n) = n + 1
           /\ n = CountCap => Bump(n) = n
BY ConfigAssumption DEF Bump

\* Whatever the backoff and the jitter, a retry time is set, not None.
LEMMA DelayFact == \A n : RetryDelays(n) \subseteq Nat
BY ConfigAssumption DEF RetryDelays

LEMMA InitEstablishes == Init => IInv
BY ConfigAssumption, States
   DEF Init, IInv, BreakerInv, BreakerTypeOK, CallerTypeOK, RetriesLeft, Idle,
       ClosedBelowThreshold, HalfOpenUndecided, OpenHasRetryTime, NoRetry

LEMMA AllowRequestKeeps == BreakerInv /\ AllowRequest => BreakerInv'
BY ConfigAssumption, States
   DEF BreakerInv, BreakerTypeOK, AllowRequest, ToHalfOpen, breakerVars,
       ClosedBelowThreshold, HalfOpenUndecided, OpenHasRetryTime, NoRetry

LEMMA RecordSuccessKeeps == BreakerInv /\ RecordSuccess => BreakerInv'
<1> SUFFICES ASSUME BreakerInv, RecordSuccess PROVE BreakerInv'
    OBVIOUS
<1> DEFINE s == Bump(consecutive_successes)
<1>1. s \in 0..CountCap
  BY BumpFact DEF BreakerInv, BreakerTypeOK
<1>2. /\ consecutive_failures' = 0
      /\ consecutive_successes' = s
      /\ current_state' = IF current_state = HalfOpen /\ s >= SuccessThreshold
                          THEN Closed ELSE current_state
      /\ next_retry' = IF current_state = HalfOpen /\ s >= SuccessThreshold
                       THEN NoRetry ELSE next_retry
  BY DEF RecordSuccess, Recovers
<1> HIDE DEF s
<1>3. BreakerTypeOK'
  BY <1>1, <1>2, ConfigAssumption, States DEF BreakerInv, BreakerTypeOK, NoRetry
<1>4. ClosedBelowThreshold' /\ HalfOpenUndecided' /\ OpenHasRetryTime'
  BY <1>1, <1>2, ConfigAssumption, States
     DEF BreakerInv, BreakerTypeOK, ClosedBelowThreshold, HalfOpenUndecided,
         OpenHasRetryTime
<1> QED BY <1>3, <1>4 DEF BreakerInv

LEMMA RecordFailureKeeps == BreakerInv /\ RecordFailure => BreakerInv'
<1> SUFFICES ASSUME BreakerInv, RecordFailure PROVE BreakerInv'
    OBVIOUS
<1> DEFINE f == Bump(consecutive_failures)
<1>1. /\ f \in 0..CountCap
      /\ consecutive_failures < CountCap => f = consecutive_failures + 1
      /\ consecutive_failures = CountCap => f = CountCap
  BY BumpFact DEF BreakerInv, BreakerTypeOK
<1>2. /\ consecutive_failures' = f
      /\ consecutive_successes' = 0
      /\ next_retry' \in Nat
      /\ current_state' = IF current_state # Open /\ f >= FailureThreshold
                          THEN Open ELSE current_state
  BY DelayFact DEF RecordFailure, Trips
<1> HIDE DEF f
<1>3. BreakerTypeOK'
  BY <1>1, <1>2, ConfigAssumption, States DEF BreakerInv, BreakerTypeOK, NoRetry
<1>4. ClosedBelowThreshold' /\ HalfOpenUndecided' /\ OpenHasRetryTime'
  BY <1>1, <1>2, ConfigAssumption, States
     DEF BreakerInv, BreakerTypeOK, ClosedBelowThreshold, HalfOpenUndecided,
         OpenHasRetryTime, NoRetry
<1> QED BY <1>3, <1>4 DEF BreakerInv

LEMMA OverrideKeeps == BreakerInv /\ Operator => BreakerInv'
<1> SUFFICES ASSUME BreakerInv, Operator PROVE BreakerInv'
    OBVIOUS
<1>1. CASE Reset
  BY <1>1, ConfigAssumption, States
     DEF Reset, BreakerInv, BreakerTypeOK, ClosedBelowThreshold,
         HalfOpenUndecided, OpenHasRetryTime, NoRetry
<1>2. CASE ForceOpen
  BY <1>2, ConfigAssumption, States
     DEF ForceOpen, ForcedWait, BreakerInv, BreakerTypeOK, ClosedBelowThreshold,
         HalfOpenUndecided, OpenHasRetryTime, NoRetry
<1>3. CASE ForceClose
  BY <1>3, ConfigAssumption, States
     DEF ForceClose, BreakerInv, BreakerTypeOK, ClosedBelowThreshold,
         HalfOpenUndecided, OpenHasRetryTime, NoRetry
<1> QED BY <1>1, <1>2, <1>3 DEF Operator

LEMMA TickKeeps == BreakerInv /\ Tick => BreakerInv'
BY ConfigAssumption, States
   DEF Tick, BreakerInv, BreakerTypeOK, ClosedBelowThreshold,
       HalfOpenUndecided, OpenHasRetryTime, NoRetry

LEMMA StutterKeeps == BreakerInv /\ UNCHANGED breakerVars => BreakerInv'
BY DEF BreakerInv, BreakerTypeOK, breakerVars, ClosedBelowThreshold,
       HalfOpenUndecided, OpenHasRetryTime

-----------------------------------------------------------------------------
\* No step of a caller, the monitor, the clock, the service or the operator
\* breaks the invariant.
LEMMA StepKeeps == IInv /\ [Next]_vars => IInv'
<1> SUFFICES ASSUME IInv, [Next]_vars PROVE IInv'
    OBVIOUS
<1> USE DEF IInv
<1>1. ASSUME NEW c \in Callers, Admit(c) PROVE IInv'
  <2>1. BreakerInv'
    BY <1>1, AllowRequestKeeps DEF Admit
  <2>2. call[c].pc = "idle" \/ call[c].attempt < MaxRetries
    BY <1>1 DEF Admit, RetriesLeft
  <2>3. CallerTypeOK' /\ RetriesLeft'
    BY <1>1, <2>1, <2>2, ConfigAssumption
       DEF Admit, NextAttempt, CallerTypeOK, RetriesLeft, BreakerInv, BreakerTypeOK
  <2> QED BY <2>1, <2>3
<1>2. ASSUME NEW c \in Callers, Reject(c) \/ Cancel(c) PROVE IInv'
  <2>1. BreakerInv'
    BY <1>2, StutterKeeps DEF Reject, Cancel
  <2>2. CallerTypeOK' /\ RetriesLeft'
    BY <1>2, ConfigAssumption DEF Reject, Cancel, CallerTypeOK, RetriesLeft, Idle
  <2> QED BY <2>1, <2>2
<1>3. ASSUME NEW c \in Callers, Succeed(c) PROVE IInv'
  <2>1. BreakerInv'
    BY <1>3, RecordSuccessKeeps DEF Succeed
  <2>2. CallerTypeOK' /\ RetriesLeft'
    BY <1>3, ConfigAssumption DEF Succeed, CallerTypeOK, RetriesLeft, Idle
  <2> QED BY <2>1, <2>2
<1>4. ASSUME NEW c \in Callers, Fail(c) PROVE IInv'
  <2>1. BreakerInv'
    BY <1>4, RecordFailureKeeps DEF Fail
  <2>2. CallerTypeOK' /\ RetriesLeft'
    BY <1>4, ConfigAssumption DEF Fail, MayRetry, CallerTypeOK, RetriesLeft, Idle
  <2> QED BY <2>1, <2>2
<1>5. CASE HealthCheckFails \/ ServiceChanges
  <2>1. BreakerInv'
    BY <1>5, StutterKeeps DEF HealthCheckFails, ServiceChanges
  <2>2. CallerTypeOK' /\ RetriesLeft'
    BY <1>5 DEF HealthCheckFails, ServiceChanges, CallerTypeOK, RetriesLeft
  <2> QED BY <2>1, <2>2
<1>6. CASE HealthRecordFailure
  <2>1. BreakerInv'
    BY <1>6, RecordFailureKeeps DEF HealthRecordFailure
  <2>2. CallerTypeOK' /\ RetriesLeft'
    BY <1>6 DEF HealthRecordFailure, CallerTypeOK, RetriesLeft
  <2> QED BY <2>1, <2>2
<1>7. CASE Tick
  BY <1>7, TickKeeps DEF Tick, CallerTypeOK, RetriesLeft
<1>8. CASE Operator
  <2>1. UNCHANGED <<call, monitor, service>>
    BY <1>8 DEF Operator, Reset, ForceOpen, ForceClose
  <2> QED BY <1>8, <2>1, OverrideKeeps DEF CallerTypeOK, RetriesLeft
<1>9. CASE UNCHANGED vars
  BY <1>9, StutterKeeps DEF vars, breakerVars, CallerTypeOK, RetriesLeft
<1> QED
  BY <1>1, <1>2, <1>3, <1>4, <1>5, <1>6, <1>7, <1>8, <1>9
     DEF Next, Traffic, Attempt, Finish

\* The inductive invariant holds in every reachable state.
THEOREM Invariance == Spec => []IInv
BY InitEstablishes, StepKeeps, PTL DEF Spec

\* Every variable keeps its type; the attempts of a call stay within
\* max_retries because a sleeping coroutine has one left.
THEOREM TypeCorrect == Spec => []TypeOK
<1>1. IInv => TypeOK
  BY DEF IInv, BreakerInv, BreakerTypeOK, CallerTypeOK, TypeOK
<1> QED BY <1>1, Invariance, PTL

\* The counters and the retry time always fit the state.
THEOREM CountersFitState == Spec => []CountersFit
<1>1. IInv => CountersFit
  BY DEF IInv, BreakerInv, CountersFit
<1> QED BY <1>1, Invariance, PTL

\* An open breaker is left by a due probe or by the operator, by nothing else.
THEOREM OpenIsLeftByProbe == Spec => OpenLeftByProbe
<1> DEFINE Leave == current_state = Open /\ current_state' # Open
                    => (current_state' = HalfOpen /\ next_retry <= 0) \/ Operator
<1>1. ASSUME [Next]_vars PROVE [Leave]_vars
  <2>1. ASSUME RecordSuccess \/ RecordFailure PROVE Leave
    BY <2>1, States DEF RecordSuccess, Recovers, RecordFailure, Trips
  <2>2. ASSUME NEW c \in Callers, Attempt(c) \/ Finish(c) \/ Cancel(c) PROVE Leave
    <3>1. ASSUME AllowRequest PROVE Leave
      BY <3>1, States DEF AllowRequest, ToHalfOpen, RetryDue, breakerVars
    <3>2. CASE Admit(c) BY <3>2, <3>1 DEF Admit
    <3>3. CASE Succeed(c) \/ Fail(c) BY <3>3, <2>1 DEF Succeed, Fail
    <3>4. CASE Reject(c) \/ Cancel(c) BY <3>4 DEF Reject, Cancel, breakerVars
    <3> QED BY <2>2, <3>2, <3>3, <3>4 DEF Attempt, Finish
  <2>3. CASE HealthRecordFailure
    BY <2>3, <2>1 DEF HealthRecordFailure
  <2>4. CASE HealthCheckFails \/ Tick \/ ServiceChanges
    BY <2>4 DEF HealthCheckFails, Tick, ServiceChanges, breakerVars
  <2> QED BY <1>1, <2>2, <2>3, <2>4 DEF Next, Traffic
<1> QED BY <1>1, PTL DEF Spec, OpenLeftByProbe

-----------------------------------------------------------------------------
(* The breaker implements CircuitGate.                                     *)

inside == { c \in Callers : Running(c) }
votes  == IF current_state = HalfOpen THEN consecutive_successes ELSE 0

LEMMA GateInit == Init => Gate!Init
BY DEF Init, Gate!Init, Running, Idle, Closed, HalfOpen

\* A caller that stops running leaves the set of those inside.
LEMMA LeavesInside ==
    ASSUME CallerTypeOK, NEW c \in Callers, Running(c), NEW v,
           v.pc # "running", call' = [call EXCEPT ![c] = v]
    PROVE  c \in inside /\ inside' = inside \ {c}
BY DEF CallerTypeOK, inside, Running

\* A success, a failure and an admission, as the gate sees them.
LEMMA SuccessIsGoodNews ==
    ASSUME BreakerInv, RecordSuccess, NEW c \in Callers,
           c \in inside, inside' = inside \ {c}
    PROVE  Gate!GoodNews(c)
<1> DEFINE s == Bump(consecutive_successes)
<1>1. current_state = HalfOpen => s = consecutive_successes + 1
  BY BumpFact, ConfigAssumption
     DEF BreakerInv, BreakerTypeOK, HalfOpenUndecided
<1>2. /\ consecutive_successes' = s
      /\ current_state' = IF current_state = HalfOpen /\ s >= SuccessThreshold
                          THEN Closed ELSE current_state
  BY DEF RecordSuccess, Recovers
<1> HIDE DEF s
<1>3. Gate!Back(c)
  BY DEF Gate!Back, inside
<1>4. CASE current_state # HalfOpen
  <2>1. UNCHANGED <<current_state, votes>>
    BY <1>2, <1>4 DEF votes
  <2> QED BY <2>1, <1>3, <1>4 DEF Gate!GoodNews, votes, HalfOpen
<1>5. CASE current_state = HalfOpen /\ s < SuccessThreshold
  BY <1>1, <1>2, <1>3, <1>5, ConfigAssumption
     DEF Gate!GoodNews, HalfOpen, BreakerInv, BreakerTypeOK
<1>6. CASE current_state = HalfOpen /\ ~(s < SuccessThreshold)
  BY <1>1, <1>2, <1>3, <1>6, States, ConfigAssumption
     DEF Gate!GoodNews, HalfOpen, Closed, BreakerInv, BreakerTypeOK
<1> QED BY <1>4, <1>5, <1>6

LEMMA FailureIsBadNews == RecordFailure => Gate!BadNews
BY DEF RecordFailure, Trips, Gate!BadNews, Open

LEMMA StutterHidesNothing == UNCHANGED breakerVars => UNCHANGED <<current_state, votes>>
BY DEF breakerVars, votes

\* Every step of the breaker is a step of the gate or one the gate cannot see.
LEMMA GateStep == IInv /\ [Next]_vars => [Gate!Next]_(Gate!gateVars)
<1> SUFFICES ASSUME IInv, [Next]_vars PROVE [Gate!Next]_(Gate!gateVars)
    OBVIOUS
<1> USE DEF IInv
<1>1. ASSUME NEW c \in Callers, Admit(c) PROVE Gate!Next
  <2>1. c \notin inside /\ inside' = inside \union {c}
    BY <1>1 DEF Admit, CallerTypeOK, inside, Running
  <2>2. CASE current_state \in {Closed, HalfOpen} /\ UNCHANGED breakerVars
    <3>1. Gate!Pass(c)
      BY <2>1, <2>2, StutterHidesNothing
         DEF Gate!Pass, inside, votes, Closed, HalfOpen
    <3> QED BY <3>1 DEF Gate!Next
  <2>3. CASE current_state = Open /\ ToHalfOpen
    <3>1. Gate!Probe(c)
      BY <2>1, <2>3 DEF Gate!Probe, ToHalfOpen, inside, Open, HalfOpen
    <3> QED BY <3>1 DEF Gate!Next
  <2> QED BY <1>1, <2>2, <2>3 DEF Admit, AllowRequest
<1>2. ASSUME NEW c \in Callers, Cancel(c) \/ Reject(c) PROVE [Gate!Next]_(Gate!gateVars)
  <2>1. UNCHANGED <<current_state, votes>>
    BY <1>2, StutterHidesNothing DEF Cancel, Reject
  <2>2. CASE Running(c)
    <3>1. c \in inside /\ inside' = inside \ {c}
      BY <1>2, <2>2, LeavesInside, Idle.pc # "running" DEF Cancel, Reject, Idle
    <3>2. Gate!NoNews(c)
      BY <2>1, <3>1 DEF Gate!NoNews, Gate!Back, inside, votes
    <3> QED BY <3>2 DEF Gate!Next
  <2>3. CASE ~Running(c)
    <3>1. inside' = inside
      BY <1>2, <2>3 DEF Cancel, Reject, CallerTypeOK, inside, Running, Idle
    <3> QED BY <2>1, <3>1 DEF Gate!gateVars, inside, votes
  <2> QED BY <2>2, <2>3
<1>3. ASSUME NEW c \in Callers, Succeed(c) PROVE Gate!Next
  <2>1. c \in inside /\ inside' = inside \ {c}
    BY <1>3, LeavesInside, Idle.pc # "running" DEF Succeed, Idle
  <2>2. Gate!GoodNews(c)
    BY <1>3, <2>1, SuccessIsGoodNews DEF Succeed
  <2> QED BY <2>2 DEF Gate!Next
<1>4. ASSUME NEW c \in Callers, Fail(c) PROVE Gate!Next
  <2>1. c \in inside /\ inside' = inside \ {c}
    BY <1>4 DEF Fail, Running, CallerTypeOK, inside, Idle
  <2>2. Gate!Back(c) /\ Gate!BadNews
    BY <1>4, <2>1, FailureIsBadNews DEF Fail, Gate!Back, inside
  <2> QED BY <2>2 DEF Gate!Next
<1>5. CASE HealthRecordFailure
  <2>1. inside' = inside
    BY <1>5 DEF HealthRecordFailure, inside, Running
  <2>2. Gate!BadNews
    BY <1>5, FailureIsBadNews DEF HealthRecordFailure
  <2> QED BY <2>1, <2>2 DEF Gate!Next, inside
<1>6. CASE HealthCheckFails \/ ServiceChanges \/ Tick \/ UNCHANGED vars
  <2>1. UNCHANGED <<current_state, votes, inside>>
    BY <1>6, StutterHidesNothing
       DEF HealthCheckFails, ServiceChanges, Tick, vars, breakerVars, votes,
           inside, Running
  <2> QED BY <2>1 DEF Gate!gateVars, votes, inside
<1>7. CASE Operator
  <2>1. current_state' \in {Closed, Open} /\ inside' = inside
    BY <1>7 DEF Operator, Reset, ForceOpen, ForceClose, inside, Running
  <2>2. Gate!Override
    BY <2>1, States DEF Gate!Override, inside, Closed, Open
  <2> QED BY <2>2 DEF Gate!Next
<1> QED
  BY <1>1, <1>2, <1>3, <1>4, <1>5, <1>6, <1>7 DEF Next, Traffic, Attempt, Finish

\* The breaker of the source is a CircuitGate for every configuration and any
\* number of callers.
THEOREM ImplementsGate == Spec => GateSpec
BY Invariance, GateInit, GateStep, PTL DEF Spec, GateSpec, Gate!Spec

-----------------------------------------------------------------------------
(* The way back to a closed breaker.                                       *)

\* How far the breaker is from closing: the ticks until its next probe, the
\* probe, and the successes that are still missing.
Away ==
    CASE current_state = Closed   -> 0
      [] current_state = HalfOpen -> SuccessThreshold - consecutive_successes
      [] current_state = Open     -> SuccessThreshold + 1 + next_retry

\* No step leads away from closing; a tick and a probe of an open breaker, and
\* every success of a half-open one, lead closer.
GetsNearer ==
    /\ Away' <= Away
    /\ Tick /\ current_state = Open => Away' < Away
    /\ \A c \in Callers :
          /\ Admit(c) /\ current_state = Open => Away' < Away
          /\ Succeed(c) /\ current_state = HalfOpen => Away' < Away

LEMMA AwayFact ==
    ASSUME BreakerInv
    PROVE  /\ Away \in Nat
           /\ current_state = Closed => Away = 0
           /\ current_state = HalfOpen => Away = SuccessThreshold - consecutive_successes
                                          /\ Away > 0
           /\ current_state = Open => Away = SuccessThreshold + 1 + next_retry
                                      /\ next_retry \in Nat
BY ConfigAssumption, States
   DEF Away, BreakerInv, BreakerTypeOK, HalfOpenUndecided, OpenHasRetryTime, NoRetry

LEMMA BreakerRests == ASSUME UNCHANGED breakerVars PROVE Away' = Away
BY DEF breakerVars, Away

\* An admission is a step forward for an open breaker and none for another.
LEMMA AdmissionNears ==
    ASSUME BreakerInv, AllowRequest
    PROVE  Away' <= Away /\ (current_state = Open => Away' < Away)
<1>1. BreakerInv'
  BY AllowRequestKeeps
<1>2. CASE current_state \in {Closed, HalfOpen} /\ UNCHANGED breakerVars
  BY <1>2, AwayFact, BreakerRests, States
<1>3. CASE current_state = Open /\ ToHalfOpen /\ UNCHANGED <<consecutive_failures, next_retry>>
  <2>1. Away = SuccessThreshold + 1 + next_retry /\ next_retry \in Nat
    BY <1>3, AwayFact
  <2>2. current_state' = HalfOpen /\ consecutive_successes' = 0
    BY <1>3 DEF ToHalfOpen
  <2>3. Away' = SuccessThreshold
    BY <2>2, States, ConfigAssumption DEF Away
  <2> QED BY <2>1, <2>3, ConfigAssumption
<1> QED BY <1>2, <1>3 DEF AllowRequest

\* A success that comes late, while the breaker is open, changes nothing.
LEMMA SuccessNears ==
    ASSUME BreakerInv, RecordSuccess
    PROVE  Away' <= Away /\ (current_state = HalfOpen => Away' < Away)
<1>1. BreakerInv'
  BY RecordSuccessKeeps
<1>2. consecutive_successes \in 0..CountCap /\ current_state \in {Closed, Open, HalfOpen}
  BY DEF BreakerInv, BreakerTypeOK
<1>3. CASE current_state = Closed
  <2>1. Away' = 0
    BY <1>3, States DEF RecordSuccess, Recovers, Away
  <2> QED BY <1>3, <2>1, AwayFact, States
<1>4. CASE current_state = Open
  <2>1. Away' = Away
    BY <1>4, States DEF RecordSuccess, Recovers, Away
  <2> QED BY <1>4, <2>1, AwayFact, States
<1>5. CASE current_state = HalfOpen
  <2>1. Away = SuccessThreshold - consecutive_successes /\ Away > 0
    BY <1>5, AwayFact
  <2>2. CASE current_state' = Closed
    <3>1. Away' = 0
      BY <2>2, States DEF Away
    <3> QED BY <2>1, <3>1
  <2>3. CASE current_state' # Closed
    <3>1. current_state' = HalfOpen /\ consecutive_successes' = Bump(consecutive_successes)
      BY <1>5, <2>3 DEF RecordSuccess
    <3>2. Away' = SuccessThreshold - Bump(consecutive_successes)
      BY <3>1, States DEF Away
    <3>3. consecutive_successes < CountCap
      BY <1>2, <1>5, ConfigAssumption DEF BreakerInv, HalfOpenUndecided
    <3>4. Bump(consecutive_successes) = consecutive_successes + 1
      BY <1>2, <3>3, BumpFact
    <3> QED BY <1>2, <2>1, <3>2, <3>4, ConfigAssumption
  <2> QED BY <2>2, <2>3
<1> QED BY <1>2, <1>3, <1>4, <1>5

LEMMA TickNears ==
    ASSUME BreakerInv, Tick PROVE Away' <= Away /\ (current_state = Open => Away' < Away)
<1>1. next_retry \in Int /\ next_retry' = next_retry - 1
      /\ current_state' = current_state /\ consecutive_successes' = consecutive_successes
  BY DEF Tick, BreakerInv, BreakerTypeOK
<1>2. CASE current_state = Open
  <2>1. Away' = SuccessThreshold + 1 + (next_retry - 1)
    BY <1>1, <1>2, States DEF Away
  <2> QED BY <1>1, <1>2, <2>1, AwayFact, ConfigAssumption
<1>3. CASE current_state # Open
  <2>1. Away' = Away
    BY <1>1, <1>3 DEF Away
  <2> QED BY <1>3, <2>1, AwayFact
<1> QED BY <1>2, <1>3

\* While the service is healthy nothing that a caller, the clock or a result of
\* an earlier state does takes the breaker further from closing, whatever the
\* retry time it was left with; only the operator does, and the failure of a
\* health check that was on its way.  This is the safety half of RecoversForGood.
HealedOnlyNears ==
    [][ service = "healthy" /\ ~Operator /\ ~HealthRecordFailure => GetsNearer ]_vars

THEOREM HealthyClosesStepByStep == Spec => HealedOnlyNears
<1>1. ASSUME IInv, [Next]_vars, service = "healthy", ~Operator, ~HealthRecordFailure
      PROVE  GetsNearer
  <2>1. BreakerInv /\ Away \in Nat
    BY <1>1, AwayFact DEF IInv
  <2>2. \A c \in Callers : Admit(c) => AllowRequest
    BY DEF Admit
  <2>3. \A c \in Callers : Succeed(c) => RecordSuccess
    BY DEF Succeed
  <2>4. Away' <= Away
    <3>1. CASE \E c \in Callers : Admit(c)
      BY <2>1, <2>2, <3>1, AdmissionNears
    <3>2. CASE \E c \in Callers : Succeed(c)
      BY <2>1, <2>3, <3>2, SuccessNears
    <3>3. CASE Tick
      BY <2>1, <3>3, TickNears
    <3>4. ASSUME NEW c \in Callers, Fail(c) PROVE FALSE
      BY <1>1, <3>4 DEF Fail
    <3>5. CASE UNCHANGED breakerVars
      BY <2>1, <3>5, BreakerRests
    <3>6. (\E c \in Callers : Reject(c) \/ Cancel(c)) \/ HealthCheckFails \/ ServiceChanges
          \/ UNCHANGED vars => UNCHANGED breakerVars
      BY DEF Reject, Cancel, HealthCheckFails, ServiceChanges, vars
    <3> QED BY <1>1, <3>1, <3>2, <3>3, <3>4, <3>5, <3>6 DEF Next, Traffic, Attempt, Finish
  <2> QED BY <2>1, <2>2, <2>3, <2>4, AdmissionNears, SuccessNears, TickNears DEF GetsNearer
<1>2. IInv /\ [Next]_vars
      => [service = "healthy" /\ ~Operator /\ ~HealthRecordFailure => GetsNearer]_vars
  BY <1>1
<1> QED BY <1>2, Invariance, PTL DEF Spec, HealedOnlyNears

-----------------------------------------------------------------------------
(* Starting and stopping the health-check loop.                            *)

Checkers == { i \in Loops : loop[i] \in {"checking", "sleeping"} }

\* Until a stop sets the event, which nothing clears, the only loop there can
\* be is the one that is remembered; afterwards no loop begins to check.
OneLoopTillStopped ==
    ~shutdown_event =>
        /\ \A i \in Loops : loop[i] # "done" => i = health_check_task
        /\ \A s \in Stoppers : stopping[s] = NoTask

AtMostOneChecker == \A i, j \in Checkers : i = j

\* A loop that somebody waits for has been cancelled.
AwaitedAreCancelled == \A s \in Stoppers : stopping[s] # NoTask => stopping[s] \in cancelled

MonitoringInv ==
    /\ MonitoringTypeOK
    /\ OneLoopTillStopped
    /\ AtMostOneChecker
    /\ AwaitedAreCancelled

LEMMA NoTaskIsNoLoop == NoTask \notin Loops
BY MonitoringAssumption DEF NoTask, Loops

LEMMA MonitoringInitially == MonitoringInit => MonitoringInv
BY NoTaskIsNoLoop
   DEF MonitoringInit, MonitoringInv, MonitoringTypeOK, OneLoopTillStopped,
       AtMostOneChecker, Checkers, AwaitedAreCancelled

\* A loop is started only if none is remembered: before the first stop there is
\* no other then, and afterwards the new one never gets to check.
LEMMA StartKeeps == ASSUME MonitoringInv, Start PROVE MonitoringInv'
<1> USE NoTaskIsNoLoop
<1> PICK i \in Loops :
       /\ Unused(i)
       /\ loop' = [loop EXCEPT ![i] = "scheduled"]
       /\ cancelled' = cancelled \ {i}
       /\ health_check_task' = i
  BY DEF Start
<1>1. health_check_task = NoTask /\ UNCHANGED <<shutdown_event, stopping>>
  BY DEF Start, MayStart
<1>2. MonitoringTypeOK'
  BY <1>1 DEF MonitoringInv, MonitoringTypeOK
<1>3. \A j \in Loops : loop'[j] = IF j = i THEN "scheduled" ELSE loop[j]
  BY DEF MonitoringInv, MonitoringTypeOK
<1>4. OneLoopTillStopped'
  BY <1>1, <1>3 DEF MonitoringInv, OneLoopTillStopped
<1>5. AtMostOneChecker'
  BY <1>3 DEF MonitoringInv, AtMostOneChecker, Checkers
<1>6. AwaitedAreCancelled'
  BY <1>1 DEF MonitoringInv, AwaitedAreCancelled, Unused
<1> QED BY <1>2, <1>4, <1>5, <1>6 DEF MonitoringInv

LEMMA StopKeeps ==
    ASSUME MonitoringInv, NEW s \in Stoppers, BeginStop(s) \/ EndStop(s)
    PROVE  MonitoringInv'
<1>1. CASE BeginStop(s)
  <2>1. /\ health_check_task # NoTask /\ shutdown_event'
        /\ cancelled' = cancelled \union {health_check_task}
        /\ stopping' = [stopping EXCEPT ![s] = health_check_task]
        /\ UNCHANGED <<health_check_task, loop>>
    BY <1>1 DEF BeginStop, MayStop, SetShutdown
  <2>2. MonitoringTypeOK'
    BY <2>1 DEF MonitoringInv, MonitoringTypeOK, BeginStop, SetShutdown
  <2>3. OneLoopTillStopped' /\ AtMostOneChecker'
    BY <2>1 DEF MonitoringInv, OneLoopTillStopped, AtMostOneChecker, Checkers
  <2>4. AwaitedAreCancelled'
    BY <2>1 DEF MonitoringInv, MonitoringTypeOK, AwaitedAreCancelled
  <2> QED BY <2>2, <2>3, <2>4 DEF MonitoringInv
<1>2. CASE EndStop(s)
  <2>1. /\ stopping[s] # NoTask /\ health_check_task' = NoTask
        /\ stopping' = [stopping EXCEPT ![s] = NoTask]
        /\ UNCHANGED <<shutdown_event, loop, cancelled>>
    BY <1>2 DEF EndStop
  <2>2. shutdown_event
    BY <2>1 DEF MonitoringInv, MonitoringTypeOK, OneLoopTillStopped
  <2>3. MonitoringTypeOK'
    BY <2>1 DEF MonitoringInv, MonitoringTypeOK
  <2>4. OneLoopTillStopped' /\ AtMostOneChecker' /\ AwaitedAreCancelled'
    BY <2>1, <2>2
       DEF MonitoringInv, MonitoringTypeOK, OneLoopTillStopped, AtMostOneChecker, Checkers,
           AwaitedAreCancelled
  <2> QED BY <2>3, <2>4 DEF MonitoringInv
<1> QED BY <1>1, <1>2

\* A loop begins to check only while the event is not set, when it is the only one.
LEMMA LoopKeeps ==
    ASSUME MonitoringInv, NEW i \in Loops, LoopStep(i)
    PROVE  MonitoringInv'
<1>1. UNCHANGED <<health_check_task, shutdown_event, cancelled, stopping>>
  BY DEF LoopStep, LoopEnds, LoopGoesOn
<1>2. /\ loop[i] # "done"
      /\ loop' = [loop EXCEPT ![i] = loop'[i]]
      /\ loop'[i] \in {"checking", "sleeping", "done"}
      /\ loop'[i] = "done" \/ i \in Checkers \/ ~shutdown_event
  BY DEF LoopStep, LoopEnds, LoopGoesOn, Alive, Ends, Checkers, MonitoringInv, MonitoringTypeOK
<1>3. \A j \in Loops \ {i} : loop'[j] = loop[j]
  BY <1>2 DEF MonitoringInv, MonitoringTypeOK
<1>4. MonitoringTypeOK'
  BY <1>1, <1>2 DEF MonitoringInv, MonitoringTypeOK
<1>5. OneLoopTillStopped'
  BY <1>1, <1>2, <1>3 DEF MonitoringInv, OneLoopTillStopped
<1>6. AtMostOneChecker'
  <2>1. CASE loop'[i] = "done" \/ i \in Checkers
    BY <1>3, <2>1 DEF MonitoringInv, AtMostOneChecker, Checkers
  <2>2. CASE ~shutdown_event
    BY <1>2, <1>3, <2>2 DEF MonitoringInv, OneLoopTillStopped, AtMostOneChecker, Checkers
  <2> QED BY <1>2, <2>1, <2>2
<1>7. AwaitedAreCancelled'
  BY <1>1 DEF MonitoringInv, AwaitedAreCancelled
<1> QED BY <1>4, <1>5, <1>6, <1>7 DEF MonitoringInv

LEMMA MonitoringInvariance == MonitoringSpec => []MonitoringInv
<1>1. MonitoringInv /\ [MonitoringNext]_monitoringVars => MonitoringInv'
  <2> SUFFICES ASSUME MonitoringInv, [MonitoringNext]_monitoringVars PROVE MonitoringInv'
    OBVIOUS
  <2>1. CASE StartIgnored \/ UNCHANGED monitoringVars
    BY <2>1
       DEF StartIgnored, monitoringVars, MonitoringInv, MonitoringTypeOK, OneLoopTillStopped,
           AtMostOneChecker, Checkers, AwaitedAreCancelled
  <2> QED BY <2>1, StartKeeps, StopKeeps, LoopKeeps DEF MonitoringNext
<1> QED BY <1>1, MonitoringInitially, PTL DEF MonitoringSpec

\* For any number of stoppers and loops the task, the event and the loops keep
\* their types: a stop waits for a loop, or for none.
THEOREM MonitoringTypeCorrect == MonitoringSpec => []MonitoringTypeOK
<1>1. MonitoringInv => MonitoringTypeOK
  BY DEF MonitoringInv
<1> QED BY <1>1, MonitoringInvariance, PTL

\* For any number of them, starts and stops that overlap never have two loops
\* check the service side by side, although a stop that wakes up late may make
\* the breaker forget a loop that has just been started.
THEOREM NeverTwoCheckers == MonitoringSpec => []OneChecker
<1>1. MonitoringInv => OneChecker
  <2> SUFFICES ASSUME MonitoringInv PROVE Cardinality(Checkers) <= 1
    BY DEF OneChecker, Checkers
  <2>1. CASE Checkers = {}
    BY <2>1, FS_EmptySet
  <2>2. CASE Checkers # {}
    <3>1. PICK i \in Checkers : Checkers = {i}
      BY <2>2 DEF MonitoringInv, AtMostOneChecker
    <3>2. Cardinality({i}) = 1
      BY FS_Singleton
    <3> QED BY <3>1, <3>2
  <2> QED BY <2>1, <2>2
<1> QED BY <1>1, MonitoringInvariance, PTL

\* What lets every stop return: nobody ever waits for a loop that has not been
\* cancelled, whoever starts and stops meanwhile.
THEOREM StopsWaitForCancelled == MonitoringSpec => []AwaitedAreCancelled
<1>1. MonitoringInv => AwaitedAreCancelled
  BY DEF MonitoringInv
<1> QED BY <1>1, MonitoringInvariance, PTL

=============================================================================
