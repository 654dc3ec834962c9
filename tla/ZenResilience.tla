--------------------------- MODULE ZenResilience ---------------------------
(***************************************************************************)
(* Prompt enhancement through the Zen MCP server: ZenMCPIntegration of     *)
(* src/core/zen_mcp_error_handling.py, which composes a RetryStrategy, a   *)
(* CircuitBreakerStrategy and a fallback (CompositeResilienceHandler of    *)
(* src/utils/resilience.py).  The handler wraps the client with the        *)
(* breaker first and the retries second, so every attempt goes through the *)
(* breaker, and an attempt the breaker blocks is retried like any other.   *)
(*                                                                         *)
(* Requests are coroutines of one event loop: a step runs from one await   *)
(* that suspends to the next, and other requests run while the client is   *)
(* awaited or a retry sleeps.                                              *)
(***************************************************************************)
EXTENDS Integers

CONSTANTS
    Requests,
    Impatient,         \* the requests that may be cancelled while they wait
    FailureThreshold,  \* CircuitBreakerConfig.failure_threshold
    SuccessThreshold,  \* CircuitBreakerConfig.success_threshold
    RecoveryTimeout,   \* CircuitBreakerConfig.recovery_timeout, in ticks
    MaxRetries,        \* RetryConfig.max_retries
    FailureCap         \* bound: failure_count is counted up to this

\* The __post_init__ checks of the two configurations; FailureCap is a bound of
\* the model, high enough for the comparison with the threshold.
ASSUME ZenAssumption ==
    /\ Impatient \subseteq Requests
    /\ FailureThreshold \in Nat /\ FailureThreshold > 0
    /\ SuccessThreshold \in Nat /\ SuccessThreshold > 0
    /\ RecoveryTimeout \in Nat /\ RecoveryTimeout > 0
    /\ MaxRetries \in Nat
    /\ FailureCap \in Nat /\ FailureCap >= FailureThreshold

VARIABLES
    state,          \* CircuitBreakerStrategy.state
    failure_count,
    success_count,
    failure_age,    \* ticks since last_failure_time, up to RecoveryTimeout + 1
    req,            \* where each request stands, and its attempt
    client          \* the Zen MCP client: "healthy" or "faulty"

breaker == <<state, failure_count, success_count, failure_age>>
vars == <<breaker, req, client>>

Idle == [pc |-> "idle", attempt |-> 0]

Init ==
    /\ state = "closed" /\ failure_count = 0 /\ success_count = 0
    /\ failure_age = RecoveryTimeout + 1
    /\ req = [r \in Requests |-> Idle]
    /\ client = "healthy"

-----------------------------------------------------------------------------
(* (Definitions named ..._Fault are the code with one plausible mistake;   *)
(* nothing uses them.)                                                     *)
(*                                                                         *)
(* CircuitBreakerStrategy.                                                 *)

ShouldAttemptReset_Fault == failure_age > RecoveryTimeout + 1
ShouldAttemptReset == failure_age > RecoveryTimeout

Allow_Fault == UNCHANGED breaker

\* execute, before the client is awaited.
Allow ==
    \/ state # "open" /\ UNCHANGED breaker
    \/ /\ state = "open"
       /\ ShouldAttemptReset
       /\ state' = "half_open"
       /\ success_count' = 0
       /\ UNCHANGED <<failure_count, failure_age>>

CountOnClosing_Fault == failure_count
CountOnClosing == 0

Closes_Fault(successes) == successes > SuccessThreshold
Closes_Early_Fault(successes) == successes + 1 >= SuccessThreshold
Closes(successes) == successes >= SuccessThreshold

OnSuccess ==
    \/ /\ state = "half_open"
       /\ success_count' = success_count + 1
       /\ IF Closes(success_count')
          THEN state' = "closed" /\ failure_count' = CountOnClosing
          ELSE UNCHANGED <<state, failure_count>>
       /\ UNCHANGED failure_age
    \/ /\ state = "closed"
       /\ failure_count' = 0
       /\ UNCHANGED <<state, success_count, failure_age>>
    \/ state = "open" /\ UNCHANGED breaker

Opens(failures) == state = "half_open" \/ (state = "closed" /\ failures >= FailureThreshold)

OnFailure ==
    LET failures == IF failure_count < FailureCap THEN failure_count + 1 ELSE failure_count
    IN  /\ failure_count' = failures
        /\ failure_age' = 0
        /\ state' = IF Opens(failures) THEN "open" ELSE state
        /\ UNCHANGED success_count

-----------------------------------------------------------------------------
(* Requests: the retry loop around the breaker, and the fallback.          *)

Attempt(r) == IF req[r].pc = "idle" THEN 0 ELSE req[r].attempt + 1

MayRetry_Fault(attempt) == attempt <= MaxRetries
MayRetry(attempt) == attempt < MaxRetries

\* The request has its answer, from the client or from the fallback.
Answered(r) == req' = [req EXCEPT ![r] = Idle]

AttemptFails(r, attempt) ==
    IF MayRetry(attempt)
    THEN req' = [req EXCEPT ![r] = [pc |-> "sleeping", attempt |-> attempt]]
    ELSE Answered(r)

Admitted(r) ==
    /\ req[r].pc \in {"idle", "sleeping"}
    /\ Allow
    /\ req' = [req EXCEPT ![r] = [pc |-> "calling", attempt |-> Attempt(r)]]
    /\ UNCHANGED client

\* CircuitBreakerOpenError is an exception like any other to RetryStrategy.
Blocked(r) ==
    /\ req[r].pc \in {"idle", "sleeping"}
    /\ state = "open" /\ ~ShouldAttemptReset
    /\ AttemptFails(r, Attempt(r))
    /\ UNCHANGED <<breaker, client>>

Succeeds(r) ==
    /\ req[r].pc = "calling"
    /\ OnSuccess
    /\ Answered(r)
    /\ UNCHANGED client

Fails(r) ==
    /\ req[r].pc = "calling"
    /\ client = "faulty"
    /\ OnFailure
    /\ AttemptFails(r, req[r].attempt)
    /\ UNCHANGED client

\* asyncio.CancelledError is no Exception: breaker, retries and fallback let it by.
Cancel(r) ==
    /\ r \in Impatient
    /\ req[r].pc # "idle"
    /\ Answered(r)
    /\ UNCHANGED <<breaker, client>>

Tick ==
    /\ failure_age <= RecoveryTimeout
    /\ failure_age' = failure_age + 1
    /\ UNCHANGED <<state, failure_count, success_count, req, client>>

ClientChanges ==
    /\ client' \in {"healthy", "faulty"} \ {client}
    /\ UNCHANGED <<breaker, req>>

Enter(r)  == Admitted(r) \/ Blocked(r)
Return(r) == Succeeds(r) \/ Fails(r)

Next ==
    \/ \E r \in Requests : Enter(r) \/ Return(r) \/ Cancel(r)
    \/ Tick \/ ClientChanges

Spec == Init /\ [][Next]_vars

\* Prompts keep coming, the client returns or raises, sleeps end, time passes;
\* nothing is assumed of requests that may be cancelled.
Fairness ==
    /\ WF_vars(Tick)
    /\ \A r \in Requests \ Impatient : WF_vars(Enter(r)) /\ WF_vars(Return(r))

FairSpec == Spec /\ Fairness

-----------------------------------------------------------------------------
(* Properties.                                                             *)

\* The breaker's counters and the requests hold values of their types: in
\* particular a half-open breaker is decided by its last success, and no
\* request makes more than max_retries + 1 attempts.
TypeOK ==
    /\ state \in {"closed", "open", "half_open"}
    /\ failure_count \in 0..FailureCap
    /\ success_count \in 0..SuccessThreshold
    /\ failure_age \in 0..(RecoveryTimeout + 1)
    /\ req \in [Requests -> [pc : {"idle", "calling", "sleeping"}, attempt : 0..MaxRetries]]
    /\ client \in {"healthy", "faulty"}

\* Failures that came in while the breaker was open or half open never leave it
\* closed with a run that should open it, and a half-open breaker has not yet
\* seen the successes that close it, whatever is counted late (lines 278 to 311).
ClosedBelowThreshold == state = "closed" => failure_count < FailureThreshold

HalfOpenUndecided == state = "half_open" => success_count < SuccessThreshold

CountersFit == ClosedBelowThreshold /\ HalfOpenUndecided

\* Once the client is healthy for good the breaker closes and stays closed.
RecoversForGood == <>[](client = "healthy") => <>[](state = "closed")

\* This breaker, simpler than that of src/utils, is a CircuitGate as well.
Gate == INSTANCE CircuitGate WITH
            Clients <- Requests,
            Needed  <- SuccessThreshold,
            gate    <- state,
            votes   <- IF state = "half_open" THEN success_count ELSE 0,
            inside  <- { r \in Requests : req[r].pc = "calling" }

GateSpec == Gate!Spec

=============================================================================
