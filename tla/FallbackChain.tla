--------------------------- MODULE FallbackChain ---------------------------
(***************************************************************************)
(* ConservativeFallbackChain of src/core/conservative_fallback_chain.py    *)
(* with its RecoveryManager: requests ask the detection system which       *)
(* functions to load; when it fails they back off, ask once more and then  *)
(* fall back to a fixed set of functions.  A breaker and an emergency mode *)
(* answer without asking at all.                                           *)
(*                                                                         *)
(* Requests are coroutines of one event loop: a step runs from one await   *)
(* that suspends to the next.  Kinds of error are merged where the chain   *)
(* treats them alike: "network" also stands for errors whose text says     *)
(* timeout, "overload" for every critical one, "other" for the rest;       *)
(* "timeout" is the 5 s limit on the first detection.                      *)
(***************************************************************************)
EXTENDS Integers

CONSTANTS
    Requests,
    NoQuery,            \* the empty query
    MaxRetryAttempts,   \* max_retry_attempts, 3
    BreakerThreshold,   \* circuit_breaker_threshold, 5
    BreakerTimeout,     \* circuit_breaker_timeout, in ticks
    EmergencyDuration,  \* emergency_mode_duration, in ticks
    MinOperations,      \* operations before performance may raise an emergency, 5
    FailureCap,         \* bound: breaker failures are counted up to this
    AgeCap              \* bound: ages are counted up to this

ASSUME ChainAssumption ==
    /\ NoQuery \notin Requests
    /\ {MaxRetryAttempts, BreakerThreshold, BreakerTimeout, EmergencyDuration,
        MinOperations} \subseteq Nat \ {0}
    /\ FailureCap \in Nat /\ FailureCap >= BreakerThreshold
    /\ AgeCap \in Nat /\ AgeCap > BreakerTimeout /\ AgeCap > EmergencyDuration

ErrorKinds == {"network", "overload", "other"}

VARIABLES
    circuit_breaker_open,
    circuit_breaker_failure_count,
    failure_age,          \* ticks since circuit_breaker_last_failure
    emergency_mode,
    emergency_age,        \* ticks since emergency_mode_start
    retry_attempts,       \* RecoveryManager.retry_attempts, by kind and query
    operations,           \* operations the performance monitor has recorded
    req,                  \* where each request stands
    detector              \* the detection system: "healthy", "faulty" or "hung"

breaker   == <<circuit_breaker_open, circuit_breaker_failure_count, failure_age>>
emergency == <<emergency_mode, emergency_age>>
vars == <<breaker, emergency, retry_attempts, operations, req, detector>>

\* The query a request asks about is told apart by the request itself.
Keys == (ErrorKinds \union {"timeout"}) \X (Requests \union {NoQuery})

Idle == [pc |-> "idle", kind |-> "none", query |-> NoQuery]

Init ==
    /\ circuit_breaker_open = FALSE
    /\ circuit_breaker_failure_count = 0
    /\ failure_age = 0
    /\ emergency_mode = FALSE
    /\ emergency_age = 0
    /\ retry_attempts = [k \in Keys |-> 0]
    /\ operations = 0
    /\ req = [r \in Requests |-> Idle]
    /\ detector = "healthy"

\* The finally clause of get_function_categories, for a request that is done.
Answered(r) ==
    /\ req' = [req EXCEPT ![r] = Idle]
    /\ operations' = IF operations < MinOperations THEN operations + 1 ELSE operations

-----------------------------------------------------------------------------
(* (Definitions named ..._Fault are the code with one plausible mistake;   *)
(* nothing uses them.)                                                     *)
(*                                                                         *)
(* Arrival: emergency mode, then the breaker, then detection.              *)

EmergencyActive_Fault == emergency_mode /\ emergency_age < EmergencyDuration
EmergencyActive == emergency_mode /\ emergency_age <= EmergencyDuration

BreakerBlocks_Fault == circuit_breaker_open
BreakerBlocks == circuit_breaker_open /\ failure_age <= BreakerTimeout

ServeEmergency(r) ==
    /\ req[r].pc = "idle"
    /\ EmergencyActive
    /\ Answered(r)
    /\ UNCHANGED <<breaker, emergency, retry_attempts, detector>>

ServeBreakerOpen(r) ==
    /\ req[r].pc = "idle"
    /\ ~EmergencyActive
    /\ BreakerBlocks
    /\ emergency_mode' = FALSE
    /\ Answered(r)
    /\ UNCHANGED <<breaker, emergency_age, retry_attempts, detector>>

\* An expired breaker forgets its failures.
CountOnExpiry_Fault == circuit_breaker_failure_count
CountOnExpiry == IF circuit_breaker_open THEN 0 ELSE circuit_breaker_failure_count

StartDetection(r) ==
    /\ req[r].pc = "idle"
    /\ ~EmergencyActive
    /\ ~BreakerBlocks
    /\ emergency_mode' = FALSE
    /\ circuit_breaker_open' = FALSE
    /\ circuit_breaker_failure_count' = CountOnExpiry
    /\ req' = [req EXCEPT ![r].pc = "detecting"]
    /\ UNCHANGED <<failure_age, emergency_age, retry_attempts, operations, detector>>

-----------------------------------------------------------------------------
(* Failure: breaker, recovery and fallback.                                *)

\* _update_circuit_breaker; errors of kind "other" do not count.
Opens(failures) == failures >= BreakerThreshold

CountFailure(kind) ==
    IF kind = "other" THEN UNCHANGED breaker
    ELSE LET failures == IF circuit_breaker_failure_count < FailureCap
                         THEN circuit_breaker_failure_count + 1
                         ELSE circuit_breaker_failure_count
         IN  /\ circuit_breaker_failure_count' = failures
             /\ failure_age' = 0
             /\ circuit_breaker_open' = (circuit_breaker_open \/ Opens(failures))

\* The last resort: a critical error, or the performance of the operations so
\* far (their times and error rates are not modelled, only that there must be
\* MinOperations of them), enters emergency mode; anything else is answered
\* with the functions of a fixed level.
FallBack(r, kind) ==
    /\ \E poor_performance \in {b \in BOOLEAN : b => operations >= MinOperations} :
          IF kind = "overload" \/ poor_performance
          THEN /\ emergency_mode' = TRUE
               /\ emergency_age' = IF emergency_mode THEN emergency_age ELSE 0
          ELSE UNCHANGED emergency
    /\ Answered(r)

\* _handle_detection_failure up to the first await: the retry budget of the
\* kind of error and the query is charged, or found to be spent.
BudgetLeft_Fault(key) == retry_attempts[key] <= MaxRetryAttempts
BudgetLeft(key) == retry_attempts[key] < MaxRetryAttempts

HandleFailure(r, kind, query) ==
    \/ /\ BudgetLeft(<<kind, query>>)
       /\ retry_attempts' = [retry_attempts EXCEPT ![<<kind, query>>] = @ + 1]
       /\ req' = [req EXCEPT ![r] = [pc |-> "backoff", kind |-> kind, query |-> query]]
       /\ UNCHANGED <<emergency, operations>>
    \/ /\ ~BudgetLeft(<<kind, query>>)
       /\ FallBack(r, kind)
       /\ UNCHANGED retry_attempts

DetectionAnswers(r) ==
    /\ req[r].pc = "detecting"
    /\ detector = "healthy"
    /\ Answered(r)
    /\ UNCHANGED <<breaker, emergency, retry_attempts, detector>>

\* asyncio.wait_for gives up: the error context keeps the query, and the
\* breaker is not told.
DetectionTimesOut(r) ==
    /\ req[r].pc = "detecting"
    /\ detector = "hung"
    /\ HandleFailure(r, "timeout", r)
    /\ UNCHANGED <<breaker, detector>>

\* The detection system raised: classify_error looks for the query in the
\* context, where get_function_categories does not put it.
DetectionFails(r) ==
    /\ req[r].pc = "detecting"
    /\ detector = "faulty"
    /\ \E kind \in ErrorKinds : CountFailure(kind) /\ HandleFailure(r, kind, NoQuery)
    /\ UNCHANGED detector

\* The backoff is over and the detection system is asked again, directly and
\* with no limit of time.
BeginRecovery(r) ==
    /\ req[r].pc = "backoff"
    /\ req' = [req EXCEPT ![r].pc = "recovering"]
    /\ UNCHANGED <<breaker, emergency, retry_attempts, operations, detector>>

RecoveryAnswers(r) ==
    /\ req[r].pc = "recovering"
    /\ detector = "healthy"
    /\ retry_attempts' = [retry_attempts EXCEPT ![<<req[r].kind, req[r].query>>] = 0]
    /\ Answered(r)
    /\ UNCHANGED <<breaker, emergency, detector>>

RecoveryFails_Fault(r) ==
    /\ req[r].pc = "recovering" /\ detector = "faulty"
    /\ req' = [req EXCEPT ![r].pc = "backoff"]
    /\ UNCHANGED <<breaker, emergency, retry_attempts, operations, detector>>

RecoveryFails(r) ==
    /\ req[r].pc = "recovering"
    /\ detector = "faulty"
    /\ FallBack(r, req[r].kind)
    /\ UNCHANGED <<breaker, retry_attempts, detector>>

\* asyncio.CancelledError goes through the finally clause only.
Cancel(r) ==
    /\ req[r].pc # "idle"
    /\ Answered(r)
    /\ UNCHANGED <<breaker, emergency, retry_attempts, detector>>

-----------------------------------------------------------------------------
(* The operator, the clock and the detection system.                       *)

ResetCircuitBreaker ==
    /\ circuit_breaker_open' = FALSE
    /\ circuit_breaker_failure_count' = 0
    /\ UNCHANGED <<failure_age, emergency, retry_attempts, operations, req, detector>>

ExitEmergencyMode ==
    /\ emergency_mode' = FALSE
    /\ UNCHANGED <<breaker, emergency_age, retry_attempts, operations, req, detector>>

Older(n) == IF n < AgeCap THEN n + 1 ELSE n

Tick ==
    /\ failure_age' = Older(failure_age)
    /\ emergency_age' = Older(emergency_age)
    /\ UNCHANGED <<circuit_breaker_open, circuit_breaker_failure_count, emergency_mode,
                   retry_attempts, operations, req, detector>>

DetectorChanges ==
    /\ detector' \in {"healthy", "faulty", "hung"} \ {detector}
    /\ UNCHANGED <<breaker, emergency, retry_attempts, operations, req>>

Operator == ResetCircuitBreaker \/ ExitEmergencyMode

Arrive(r) == ServeEmergency(r) \/ ServeBreakerOpen(r) \/ StartDetection(r)

FirstDetection(r) == DetectionAnswers(r) \/ DetectionTimesOut(r) \/ DetectionFails(r)

Recovery(r) == BeginRecovery(r) \/ RecoveryAnswers(r) \/ RecoveryFails(r)

Next ==
    \/ \E r \in Requests : Arrive(r) \/ FirstDetection(r) \/ Recovery(r) \/ Cancel(r)
    \/ Operator \/ Tick \/ DetectorChanges

Spec == Init /\ [][Next]_vars

\* Requests keep coming, time passes, the 5 s limit and the backoff expire;
\* a detection system that is not hung answers or raises.
Fairness ==
    /\ WF_vars(Tick)
    /\ \A r \in Requests :
          /\ WF_vars(Arrive(r))
          /\ WF_vars(FirstDetection(r))
          /\ WF_vars(Recovery(r))

FairSpec == Spec /\ Fairness

-----------------------------------------------------------------------------
(* Properties.                                                             *)

\* The chain's flags, counters and requests hold values of their types; in
\* particular no retry budget is ever overdrawn.
TypeOK ==
    /\ circuit_breaker_open \in BOOLEAN /\ emergency_mode \in BOOLEAN
    /\ circuit_breaker_failure_count \in 0..FailureCap
    /\ failure_age \in 0..AgeCap /\ emergency_age \in 0..AgeCap
    /\ retry_attempts \in [Keys -> 0..MaxRetryAttempts]
    /\ operations \in 0..MinOperations
    /\ req \in [Requests -> [pc : {"idle", "detecting", "backoff", "recovering"},
                             kind : ErrorKinds \union {"timeout", "none"},
                             query : Requests \union {NoQuery}]]
    /\ detector \in {"healthy", "faulty", "hung"}

\* The breaker is open exactly when the failures since its last reset have
\* reached the threshold: neither late failures of requests admitted before,
\* nor expiry, nor the operator's reset can set the two apart.
OpenIffThreshold ==
    circuit_breaker_open <=> circuit_breaker_failure_count >= BreakerThreshold

\* Emergency mode, once entered, lasts its whole duration whatever other
\* requests do meanwhile, unless the operator ends it.
EmergencyLasts ==
    [][ emergency_mode /\ ~emergency_mode'
        => emergency_age > EmergencyDuration \/ ExitEmergencyMode ]_vars

\* Once the detection system is healthy for good, breaker and emergency mode
\* end and stay ended.
RecoversForGood ==
    <>[](detector = "healthy") => <>[](~circuit_breaker_open /\ ~emergency_mode)

\* Every request is answered if the detection system does not hang for ever.
AnsweredUnlessHung ==
    <>[](detector # "hung") => \A r \in Requests : req[r].pc # "idle" ~> req[r].pc = "idle"

=============================================================================
