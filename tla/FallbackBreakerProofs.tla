----------------------- MODULE FallbackBreakerProofs -----------------------
(***************************************************************************)
(* HALF_OPEN can always be decided: its quota of requests is never used up *)
(* before it closes or reopens, whatever the thresholds, as long as        *)
(* success_threshold is within the quota.  The last part measures the way  *)
(* back to CLOSED.                                                         *)
(***************************************************************************)
EXTENDS FallbackBreaker, TLAPS

\* While half open, every request answered so far was a success and part of
\* the current run of successes, which is still short of the threshold.
HalfOpenCount ==
    state = "half_open" =>
        /\ requests_in_half_open <= consecutive_successes
        /\ requests_in_half_open < SuccessThreshold

IInv == TypeOK /\ HalfOpenCount

\* Counting stays within the bound, and counts below it.
LEMMA BumpFact ==
    ASSUME NEW n \in 0..CountCap
    PROVE  /\ Bump(n) \in 0..CountCap
           /\ n < CountCap => Bump(n) = n + 1
           /\ n = CountCap => Bump(n) = n
BY FallbackAssumption DEF Bump

LEMMA InitEstablishes == Init => IInv
BY FallbackAssumption DEF Init, IInv, TypeOK, HalfOpenCount, Patterns

\* A success counts in both runs at once, and closes the breaker when they
\* reach the threshold.
LEMMA SuccessKeeps == ASSUME IInv, NEW c \in Callers, OnSuccess(c) PROVE IInv'
<1> DEFINE s == Bump(consecutive_successes)
           r == Bump(requests_in_half_open)
<1>1. /\ s \in 0..CountCap /\ r \in 0..CountCap /\ Bump(recorded) \in 0..CountCap
      /\ requests_in_half_open < CountCap => r = requests_in_half_open + 1
      /\ consecutive_successes < CountCap => s = consecutive_successes + 1
      /\ consecutive_successes = CountCap => s = CountCap
  BY BumpFact DEF IInv, TypeOK
<1>2. /\ consecutive_failures' = 0 /\ failing_run' = 0
      /\ consecutive_successes' = s
      /\ requests_in_half_open' = IF state = "half_open" THEN r ELSE requests_in_half_open
      /\ recorded' = Bump(recorded)
      /\ IF SuccessCloses(s) THEN Enter("closed") ELSE Stay
      /\ caller' = [caller EXCEPT ![c] = "idle"]
      /\ UNCHANGED <<current_pattern, service>>
  BY DEF OnSuccess, Answered
<1> HIDE DEF s, r
<1>3. /\ state' \in {state, "closed"}
      /\ time_in_state' \in {0, time_in_state}
      /\ state' = "half_open" => state = "half_open" /\ ~(s >= SuccessThreshold)
  BY <1>2 DEF SuccessCloses, Enter, Stay
<1>4. TypeOK'
  BY <1>1, <1>2, <1>3, FallbackAssumption DEF IInv, TypeOK
<1>5. HalfOpenCount'
  BY <1>1, <1>2, <1>3, FallbackAssumption DEF IInv, TypeOK, HalfOpenCount
<1> QED BY <1>4, <1>5 DEF IInv

\* No failure is absorbed in HALF_OPEN: it reopens the breaker.
LEMMA FailureKeeps == ASSUME IInv, NEW c \in Callers, OnFailure(c) PROVE IInv'
<1> DEFINE f == Bump(consecutive_failures)
           next == AfterFailure(f, current_pattern')
<1>1. /\ f \in 0..CountCap /\ Bump(recorded) \in 0..CountCap
      /\ Bump(failing_run) \in 0..CountCap
  BY BumpFact DEF IInv, TypeOK
<1>2. current_pattern' \in Patterns
  BY DEF OnFailure, PatternsAfterFailure, Patterns
<1>3. /\ next \in {"open", "degraded", state}
      /\ next = state => state # "half_open"
  BY DEF AfterFailure
<1>4. /\ consecutive_successes' = 0 /\ consecutive_failures' = f
      /\ recorded' = Bump(recorded) /\ failing_run' = Bump(failing_run)
      /\ IF next # state THEN Enter(next)
         ELSE Stay
      /\ caller' = [caller EXCEPT ![c] = "idle"]
      /\ UNCHANGED <<requests_in_half_open, service>>
  BY DEF OnFailure
<1> HIDE DEF f, next
<1>5. /\ state' = next
      /\ time_in_state' \in {0, time_in_state}
  BY <1>4 DEF Enter, Stay
<1>6. TypeOK'
  BY <1>1, <1>2, <1>3, <1>4, <1>5, FallbackAssumption DEF IInv, TypeOK
<1>7. HalfOpenCount'
  BY <1>3, <1>5 DEF HalfOpenCount, IInv, TypeOK
<1> QED BY <1>6, <1>7 DEF IInv

LEMMA StepKeeps == IInv /\ [Next]_vars => IInv'
<1> SUFFICES ASSUME IInv, [Next]_vars PROVE IInv'
    OBVIOUS
<1> USE DEF IInv
<1>1. ASSUME NEW c \in Callers, BeginProbe(c) PROVE IInv'
  BY <1>1, FallbackAssumption
     DEF BeginProbe, Enter, AnsweredOnProbe, TypeOK, HalfOpenCount, analyzer
<1>2. ASSUME NEW c \in Callers, GetIn(c) \/ Blocked(c) \/ Cancel(c) PROVE IInv'
  BY <1>2 DEF GetIn, Blocked, Cancel, TypeOK, HalfOpenCount, counters, analyzer
<1>3. ASSUME NEW c \in Callers, OnSuccess(c) PROVE IInv'
  BY <1>3, SuccessKeeps
<1>4. ASSUME NEW c \in Callers, OnFailure(c) PROVE IInv'
  BY <1>4, FailureKeeps
<1>5. CASE Operator
  BY <1>5, FallbackAssumption
     DEF Operator, ForceOpen, ForceClose, ResetMetrics, Enter, TypeOK, HalfOpenCount,
         counters, analyzer
<1>6. CASE Tick \/ ServiceChanges
  BY <1>6, FallbackAssumption
     DEF Tick, ServiceChanges, TypeOK, HalfOpenCount, counters, analyzer
<1>7. CASE UNCHANGED vars
  BY <1>7 DEF vars, TypeOK, HalfOpenCount, counters, analyzer
<1> QED BY <1>1, <1>2, <1>3, <1>4, <1>5, <1>6, <1>7 DEF Next

\* Every variable of the adaptive breaker keeps its type.
THEOREM TypeCorrect == Spec => []TypeOK
<1>1. IInv => TypeOK
  BY DEF IInv
<1> QED BY <1>1, InitEstablishes, StepKeeps, PTL DEF Spec

\* The quota of HALF_OPEN is never used up before HALF_OPEN is decided.
THEOREM HalfOpenAdmits == Spec => []HalfOpenNeverFull
<1>1. IInv => HalfOpenNeverFull
  BY FallbackAssumption DEF IInv, TypeOK, HalfOpenCount, HalfOpenNeverFull
<1> QED BY <1>1, InitEstablishes, StepKeeps, PTL DEF Spec

\* Nobody starts running while the breaker is open or forced open.
THEOREM DoorStaysShut == Spec => NobodyRunsThrough
<1> DEFINE Shut == \A c \in Callers : ~Running(c) /\ Running(c)'
                                     => state \notin {"open", "forced_open"}
<1>1. ASSUME IInv, [Next]_vars PROVE [Shut]_vars
  <2>1. ASSUME NEW d \in Callers, GetIn(d) PROVE Shut
    BY <2>1 DEF GetIn, MayEnter
  <2>2. ASSUME NEW d \in Callers,
               BeginProbe(d) \/ Blocked(d) \/ OnSuccess(d) \/ OnFailure(d) \/ Cancel(d)
        PROVE  Shut
    <3>1. caller' \in {[caller EXCEPT ![d] = "idle"], [caller EXCEPT ![d] = "recovering"]}
      BY <2>2 DEF BeginProbe, Blocked, OnSuccess, OnFailure, Cancel
    <3> QED BY <1>1, <3>1 DEF IInv, TypeOK, Running
  <2>3. ASSUME Operator \/ Tick \/ ServiceChanges PROVE Shut
    BY <2>3 DEF Operator, ForceOpen, ForceClose, ResetMetrics, Tick, ServiceChanges, Running
  <2> QED BY <1>1, <2>1, <2>2, <2>3 DEF Next
<1> QED BY <1>1, InitEstablishes, StepKeeps, PTL DEF Spec, NobodyRunsThrough

\* Late results find no way out of FORCED_OPEN: a success closes HALF_OPEN and
\* DEGRADED only, a failure moves every other state but this one.
THEOREM ForcedOpenOutlasts == Spec => ForcedOpenLasts
<1> DEFINE Lasts == state = "forced_open" /\ state' # "forced_open"
                    => \/ state' = "half_open" /\ time_in_state >= ForcedOpenTimeout
                       \/ ForceClose
<1>1. ASSUME [Next]_vars PROVE [Lasts]_vars
  <2>1. ASSUME NEW c \in Callers, BeginProbe(c) PROVE Lasts
    BY <2>1 DEF BeginProbe, ProbeIsDue, Enter
  <2>2. ASSUME NEW c \in Callers, OnSuccess(c) PROVE Lasts
    BY <2>2 DEF OnSuccess, SuccessCloses, Stay
  <2>3. ASSUME NEW c \in Callers, OnFailure(c) PROVE Lasts
    BY <2>3 DEF OnFailure, AfterFailure, Stay
  <2>4. ASSUME NEW c \in Callers, GetIn(c) \/ Blocked(c) \/ Cancel(c) PROVE Lasts
    BY <2>4 DEF GetIn, Blocked, Cancel
  <2>5. CASE Operator \/ Tick \/ ServiceChanges
    BY <2>5 DEF Operator, ForceOpen, ResetMetrics, Enter, Tick, ServiceChanges
  <2> QED BY <1>1, <2>1, <2>2, <2>3, <2>4, <2>5 DEF Next
<1> QED BY <1>1, PTL DEF Spec, ForcedOpenLasts

-----------------------------------------------------------------------------
(* The way back to a closed breaker.                                       *)

\* The successes that are missing; a run of them that is long enough already,
\* because entering HALF_OPEN does not reset it, still takes one more.
ToGo(needed) == IF consecutive_successes < needed THEN needed - consecutive_successes ELSE 1

\* How far the breaker is from closing.
Away ==
    CASE state = "closed"    -> 0
      [] state = "half_open" -> ToGo(SuccessThreshold)
      [] state = "degraded"  -> ToGo(DegradedSuccesses)
      [] OTHER               -> SuccessThreshold + 1 + (AgeCap - time_in_state)

\* No step leads away from closing; a tick and a probe of an open breaker, and
\* every success of a half-open or degraded one, lead closer.
GetsNearer ==
    /\ Away' <= Away
    /\ Tick /\ state \in {"open", "forced_open"} => Away' < Away
    /\ \A c \in Callers :
          /\ BeginProbe(c) => Away' < Away
          /\ OnSuccess(c) /\ state \in {"half_open", "degraded"} => Away' < Away

\* Whatever pattern the last failure left, the wait for a probe ends.
ProbeComesDue ==
    state \in {"open", "forced_open"} => time_in_state < AgeCap \/ ProbeIsDue

LEMMA WaitsEnd == IInv => ProbeComesDue
<1> SUFFICES ASSUME IInv, state \in {"open", "forced_open"}, time_in_state = AgeCap
             PROVE  ProbeIsDue
  BY FallbackAssumption DEF ProbeComesDue, IInv, TypeOK
<1>1. CASE state = "forced_open"
  BY <1>1, FallbackAssumption DEF ProbeIsDue
<1>2. CASE state = "open"
  <2>1. TimeoutMult[current_pattern] \in 0..20
    BY DEF TimeoutMult, IInv, TypeOK, Patterns
  <2>2. BaseTimeout \in Nat /\ AgeCap \in Nat /\ AgeCap >= 2 * BaseTimeout
    BY FallbackAssumption
  <2>3. BaseTimeout * TimeoutMult[current_pattern] <= BaseTimeout * 20
    <3>1. \A b \in Nat, m \in 0..20 : b * m <= b * 20
      OBVIOUS
    <3> QED BY <2>1, <2>2, <3>1
  <2>4. BaseTimeout * TimeoutMult[current_pattern] \in Int
    BY <2>1, <2>2
  <2>5. 10 * AgeCap >= BaseTimeout * TimeoutMult[current_pattern]
    BY <2>2, <2>3, <2>4
  <2> QED BY <1>2, <2>5 DEF ProbeIsDue, TimedOut
<1> QED BY <1>1, <1>2

LEMMA ToGoFact ==
    ASSUME IInv, NEW needed \in Nat \ {0}
    PROVE  ToGo(needed) \in 1..needed
BY DEF ToGo, IInv, TypeOK

LEMMA AwayFact ==
    ASSUME IInv
    PROVE  /\ Away \in Nat
           /\ state = "closed" => Away = 0
           /\ state = "half_open" => Away = ToGo(SuccessThreshold)
           /\ state = "degraded" => Away = ToGo(DegradedSuccesses)
           /\ state \in {"open", "forced_open"} =>
                  Away = SuccessThreshold + 1 + (AgeCap - time_in_state)
           /\ SuccessThreshold \in Nat \ {0} /\ DegradedSuccesses \in Nat \ {0}
<1>1. /\ SuccessThreshold \in Nat \ {0} /\ DegradedSuccesses \in Nat \ {0}
      /\ AgeCap \in Nat /\ time_in_state \in 0..AgeCap
      /\ state \in {"closed", "half_open", "open", "forced_open", "degraded"}
  BY FallbackAssumption DEF IInv, TypeOK
<1>2. ToGo(SuccessThreshold) \in Nat /\ ToGo(DegradedSuccesses) \in Nat
  BY <1>1, ToGoFact
<1> QED BY <1>1, <1>2 DEF Away

LEMMA ProbeNears ==
    ASSUME IInv, NEW c \in Callers, BeginProbe(c) PROVE Away' \in Nat /\ Away' < Away
<1>1. /\ state \in {"open", "forced_open"} /\ state' = "half_open"
      /\ consecutive_successes' = consecutive_successes
  BY DEF BeginProbe, ProbeIsDue, Enter
<1>2. ToGo(SuccessThreshold) \in 1..SuccessThreshold
  BY AwayFact, ToGoFact
<1>3. Away' = ToGo(SuccessThreshold)
  BY <1>1 DEF Away, ToGo
<1>4. Away = SuccessThreshold + 1 + (AgeCap - time_in_state)
  BY <1>1, AwayFact
<1> QED BY <1>2, <1>3, <1>4, FallbackAssumption DEF IInv, TypeOK

LEMMA OneLessToGo ==
    ASSUME IInv, NEW needed \in Nat \ {0}, needed <= CountCap,
           consecutive_successes' = Bump(consecutive_successes),
           Bump(consecutive_successes) < needed
    PROVE  ToGo(needed)' < ToGo(needed)
<1>1. consecutive_successes \in 0..CountCap /\ CountCap \in Nat
  BY FallbackAssumption DEF IInv, TypeOK
<1>2. Bump(consecutive_successes) = consecutive_successes + 1
  BY <1>1, BumpFact
<1> QED BY <1>1, <1>2 DEF ToGo

LEMMA SuccessNears ==
    ASSUME IInv, NEW c \in Callers, OnSuccess(c)
    PROVE  Away' <= Away /\ (state \in {"half_open", "degraded"} => Away' < Away)
<1> DEFINE successes == Bump(consecutive_successes)
<1>1. /\ consecutive_successes' = successes
      /\ IF SuccessCloses(successes) THEN Enter("closed") ELSE Stay
  BY DEF OnSuccess
<1>2. CountCap >= SuccessThreshold /\ CountCap >= DegradedSuccesses
      /\ consecutive_successes \in 0..CountCap /\ successes \in 0..CountCap
      /\ state \in {"closed", "half_open", "open", "forced_open", "degraded"}
  BY FallbackAssumption, BumpFact DEF IInv, TypeOK
<1> HIDE DEF successes
<1>3. CASE SuccessCloses(successes)
  <2>1. Away' = 0 /\ state \in {"half_open", "degraded"}
    BY <1>1, <1>3 DEF Enter, SuccessCloses, Away
  <2>2. Away > 0
    BY <2>1, AwayFact, ToGoFact
  <2> QED BY <2>1, <2>2, AwayFact
<1>4. CASE ~SuccessCloses(successes)
  <2>1. state' = state /\ time_in_state' = time_in_state
    BY <1>1, <1>4 DEF Stay
  <2>2. CASE state = "half_open"
    <3>1. successes < SuccessThreshold
      BY <1>2, <1>4, <2>2, AwayFact DEF SuccessCloses
    <3>2. ToGo(SuccessThreshold)' < ToGo(SuccessThreshold)
      BY <1>1, <1>2, <3>1, AwayFact, OneLessToGo DEF successes
    <3>3. Away = ToGo(SuccessThreshold) /\ Away' = ToGo(SuccessThreshold)'
      BY <2>1, <2>2 DEF Away
    <3>4. ToGo(SuccessThreshold) \in Nat /\ ToGo(SuccessThreshold)' \in Int
      BY <1>1, <1>2, AwayFact, ToGoFact DEF ToGo
    <3> QED BY <3>2, <3>3, <3>4
  <2>3. CASE state = "degraded"
    <3>1. successes < DegradedSuccesses
      BY <1>2, <1>4, <2>3, AwayFact DEF SuccessCloses
    <3>2. ToGo(DegradedSuccesses)' < ToGo(DegradedSuccesses)
      BY <1>1, <1>2, <3>1, AwayFact, OneLessToGo DEF successes
    <3>3. Away = ToGo(DegradedSuccesses) /\ Away' = ToGo(DegradedSuccesses)'
      BY <2>1, <2>3 DEF Away
    <3>4. ToGo(DegradedSuccesses) \in Nat /\ ToGo(DegradedSuccesses)' \in Int
      BY <1>1, <1>2, AwayFact, ToGoFact DEF ToGo
    <3> QED BY <3>2, <3>3, <3>4
  <2>4. CASE state \in {"closed", "open", "forced_open"}
    <3>1. Away' = Away
      BY <2>1, <2>4 DEF Away
    <3> QED BY <2>4, <3>1, AwayFact
  <2> QED BY <1>2, <2>2, <2>3, <2>4
<1> QED BY <1>3, <1>4

LEMMA TickNears ==
    ASSUME IInv, Tick
    PROVE  Away' <= Away /\ (state \in {"open", "forced_open"} => Away' < Away)
<1>1. /\ state' = state /\ consecutive_successes' = consecutive_successes
      /\ time_in_state' = time_in_state + 1
      /\ AgeCap \in Nat /\ time_in_state \in 0..AgeCap
      /\ state \in {"closed", "half_open", "open", "forced_open", "degraded"}
  BY FallbackAssumption DEF Tick, counters, IInv, TypeOK
<1>2. CASE state \in {"open", "forced_open"}
  <2>1. Away' = SuccessThreshold + 1 + (AgeCap - (time_in_state + 1))
    BY <1>1, <1>2 DEF Away
  <2> QED BY <1>1, <1>2, <2>1, AwayFact
<1>3. CASE state \notin {"open", "forced_open"}
  <2>1. Away' = Away
    BY <1>1, <1>3 DEF Away, ToGo
  <2> QED BY <1>3, <2>1, AwayFact
<1> QED BY <1>2, <1>3

\* While the service is healthy and the operator leaves the breaker alone, no
\* step of a caller or of the clock takes it further from closing: not the late
\* success of a call admitted before it opened, nor the pause in the middle of
\* an admission; and whatever pattern of failures it opened on, the probe comes
\* due.  This is the safety half of RecoversForGood.
HealedOnlyNears == [][ service = "healthy" /\ ~Operator => GetsNearer ]_vars

THEOREM HealthyClosesStepByStep == Spec => []ProbeComesDue /\ HealedOnlyNears
<1>1. ASSUME IInv, [Next]_vars, service = "healthy", ~Operator PROVE GetsNearer
  <2>1. Away \in Nat
    BY <1>1, AwayFact
  <2>2. Away' <= Away
    <3>1. ASSUME NEW c \in Callers, BeginProbe(c) PROVE Away' <= Away
      BY <1>1, <2>1, <3>1, ProbeNears
    <3>2. CASE \E c \in Callers : OnSuccess(c)
      BY <1>1, <3>2, SuccessNears
    <3>3. ASSUME NEW c \in Callers, OnFailure(c) PROVE FALSE
      BY <1>1, <3>3 DEF OnFailure
    <3>4. CASE Tick
      BY <1>1, <3>4, TickNears
    <3>5. ASSUME UNCHANGED <<state, consecutive_successes, time_in_state>>
          PROVE  Away' <= Away
      <4>1. Away' = Away
        BY <3>5 DEF Away, ToGo
      <4> QED BY <2>1, <4>1
    <3>6. CASE (\E c \in Callers : GetIn(c) \/ Blocked(c) \/ Cancel(c)) \/ ServiceChanges
               \/ UNCHANGED vars
      BY <3>5, <3>6 DEF GetIn, Blocked, Cancel, ServiceChanges, counters, vars
    <3> QED BY <1>1, <3>1, <3>2, <3>3, <3>4, <3>6 DEF Next
  <2> QED BY <1>1, <2>2, ProbeNears, SuccessNears, TickNears DEF GetsNearer
<1>2. IInv /\ [Next]_vars => [service = "healthy" /\ ~Operator => GetsNearer]_vars
  BY <1>1
<1> QED BY <1>2, WaitsEnd, InitEstablishes, StepKeeps, PTL DEF Spec, HealedOnlyNears

=============================================================================
