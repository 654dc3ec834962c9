--------------------------- MODULE CircuitBreaker ---------------------------
(***************************************************************************)
(* The general-purpose circuit breaker of src/utils/circuit_breaker.py:    *)
(* one CircuitBreaker object, the coroutines (call_async) and threads      *)
(* (call_sync) that go through it, its health-check loop and the operator. *)
(*                                                                         *)
(* Every block the code runs under self._lock is one step.  The protected  *)
(* function runs outside the lock, so between the admission of a call and  *)
(* the recording of its outcome any other step may happen: the outcome is  *)
(* applied to whatever state the breaker is in by then.                    *)
(*                                                                         *)
(* Time is relative: next_retry_time is kept as the number of ticks still  *)
(* to wait, state_since as the number of ticks spent in the state.         *)
(***************************************************************************)
EXTENDS Integers

CONSTANTS
    AsyncCallers,      \* coroutines using call_async: they retry
    SyncCallers,       \* threads using call_sync: they do not
    FailureThreshold,  \* config.failure_threshold
    SuccessThreshold,  \* config.success_threshold
    RecoveryTimeout,   \* config.recovery_timeout, in ticks
    MaxRetries,        \* config.max_retries
    BaseDelay,         \* config.base_delay, in ticks
    MaxDelay,          \* config.max_delay, in ticks
    Multiplier,        \* config.backoff_multiplier
    Jitter,            \* 0 without jitter, else the 10% of secure_jitter in ticks
    CountCap           \* bound: the failure and success runs are counted up to this

Callers == AsyncCallers \union SyncCallers

\* CircuitBreakerConfig.__post_init__ rejects anything else; CountCap is a
\* bound of the model, above every threshold a counter is compared with.
ASSUME ConfigAssumption ==
    /\ AsyncCallers \intersect SyncCallers = {}
    /\ FailureThreshold \in Nat \ {0}
    /\ SuccessThreshold \in Nat \ {0}
    /\ RecoveryTimeout \in Nat \ {0}
    /\ MaxRetries \in Nat
    /\ BaseDelay \in Nat \ {0}
    /\ MaxDelay \in Nat \ {0}
    /\ Multiplier \in Nat \ {0, 1}
    /\ Jitter \in Nat /\ Jitter <= BaseDelay /\ Jitter <= MaxDelay
    /\ CountCap \in Nat
    /\ CountCap >= FailureThreshold
    /\ CountCap >= SuccessThreshold

VARIABLES
    current_state,          \* CircuitBreakerMetrics.current_state
    consecutive_failures,   \* run of failures, saturating at CountCap
    consecutive_successes,  \* run of successes, saturating at CountCap
    next_retry,             \* ticks until next_retry_time, NoRetry for None
    call,                   \* what each caller is doing
    monitor,                \* where the health-check loop stands
    service                 \* the protected service: "healthy" or "faulty"

breakerVars == <<current_state, consecutive_failures, consecutive_successes,
                 next_retry>>
vars == <<breakerVars, call, monitor, service>>

Closed   == "closed"
Open     == "open"
HalfOpen == "half_open"

NoRetry == -1

\* A counter is only ever compared with a threshold or used as the exponent
\* of a delay that has reached MaxDelay, so counting further changes nothing.
Bump(n) == IF n < CountCap THEN n + 1 ELSE n

\* The delays _record_failure may compute for the n-th failure in a row:
\* min(base_delay * multiplier^(n-1), max_delay), spread by the jitter.
Backoff(n) == LET full == BaseDelay * Multiplier^(n - 1)
              IN  IF full < MaxDelay THEN full ELSE MaxDelay

RetryDelays(n) ==
    { d \in 0..(MaxDelay + Jitter) :
        Backoff(n) - Jitter <= d /\ d <= Backoff(n) + Jitter }

Idle == [pc |-> "idle", attempt |-> 0]

Init ==
    /\ current_state = Closed
    /\ consecutive_failures = 0
    /\ consecutive_successes = 0
    /\ next_retry = NoRetry
    /\ call = [c \in Callers |-> Idle]
    /\ monitor = "waiting"
    /\ service = "healthy"

(***************************************************************************)
(* Definitions named ..._Fault are the code with one plausible mistake in  *)
(* it.  Nothing below uses them: put in the place of the definition that   *)
(* follows, each makes one of the properties fail.                         *)
(***************************************************************************)
-----------------------------------------------------------------------------
(* The bookkeeping the lock protects.                                      *)

\* _should_allow_request compares the clock with next_retry_time.
RetryDue_Fault == next_retry < 0     \* waits for None although a time is set
RetryDue == next_retry <= 0

\* _transition_to_state(HALF_OPEN).
ToHalfOpen_Fault == current_state' = HalfOpen /\ UNCHANGED consecutive_successes
ToHalfOpen == current_state' = HalfOpen /\ consecutive_successes' = 0

AllowRequest_Fault ==
    /\ current_state = Open => RetryDue
    /\ UNCHANGED breakerVars

\* An expired OPEN moves to HALF_OPEN and lets the request in; HALF_OPEN lets
\* every request in.
AllowRequest ==
    \/ current_state \in {Closed, HalfOpen} /\ UNCHANGED breakerVars
    \/ /\ current_state = Open
       /\ RetryDue
       /\ ToHalfOpen
       /\ UNCHANGED <<consecutive_failures, next_retry>>

Recovers_Fault(successes) == current_state # Closed /\ successes >= SuccessThreshold
Recovers_Early_Fault(successes) == current_state = HalfOpen
                                   /\ successes + 1 >= SuccessThreshold
Recovers(successes) == current_state = HalfOpen /\ successes >= SuccessThreshold

RecordSuccess ==
    LET successes == Bump(consecutive_successes)
        recovered == Recovers(successes)
    IN  /\ consecutive_failures' = 0
        /\ consecutive_successes' = successes
        /\ current_state' = IF recovered THEN Closed ELSE current_state
        /\ next_retry' = IF recovered THEN NoRetry ELSE next_retry

Trips_Fault(failures) == current_state # Open /\ failures > FailureThreshold
Trips(failures) == current_state # Open /\ failures >= FailureThreshold

RecordFailure ==
    LET failures == Bump(consecutive_failures)
    IN  /\ consecutive_failures' = failures
        /\ consecutive_successes' = 0
        /\ next_retry' \in RetryDelays(failures)
        /\ current_state' = IF Trips(failures) THEN Open ELSE current_state

-----------------------------------------------------------------------------
(* Callers: call_sync and the retry loop of call_async.                    *)

Running(c) == call[c].pc = "running"

\* The loop variable of _execute_with_retries, and whether it goes round again.
NextAttempt(c) == IF call[c].pc = "idle" THEN 0 ELSE call[c].attempt + 1

MayRetry_Fault(c) == c \in AsyncCallers /\ call[c].attempt <= MaxRetries
MayRetry(c) == c \in AsyncCallers /\ call[c].attempt < MaxRetries

\* A call enters _request_context and is let through; coming from the sleep
\* between two attempts it is the next attempt.
Admit(c) ==
    /\ call[c].pc \in {"idle", "sleeping"}
    /\ AllowRequest
    /\ call' = [call EXCEPT ![c] = [pc |-> "running", attempt |-> NextAttempt(c)]]
    /\ UNCHANGED <<monitor, service>>

\* CircuitBreakerOpenError, which ends the retry loop as well.
Reject(c) ==
    /\ call[c].pc \in {"idle", "sleeping"}
    /\ current_state = Open
    /\ ~RetryDue
    /\ call' = [call EXCEPT ![c] = Idle]
    /\ UNCHANGED <<breakerVars, monitor, service>>

Succeed(c) ==
    /\ Running(c)
    /\ RecordSuccess
    /\ call' = [call EXCEPT ![c] = Idle]
    /\ UNCHANGED <<monitor, service>>

\* The function raised: the failure is recorded, then call_async sleeps
\* before the next attempt unless it was the last one.
Fail(c) ==
    /\ Running(c)
    /\ service = "faulty"
    /\ RecordFailure
    /\ call' = [call EXCEPT ![c] = IF MayRetry(c) THEN [@ EXCEPT !.pc = "sleeping"]
                                                 ELSE Idle]
    /\ UNCHANGED <<monitor, service>>

\* asyncio.CancelledError is no Exception: the context manager records
\* neither a success nor a failure for a cancelled coroutine.
Cancel(c) ==
    /\ c \in AsyncCallers
    /\ call[c].pc \in {"running", "sleeping"}
    /\ call' = [call EXCEPT ![c] = Idle]
    /\ UNCHANGED <<breakerVars, monitor, service>>

-----------------------------------------------------------------------------
(* The health-check loop.  It reads the state, and takes the lock to record*)
(* the failure afterwards: a thread may run in between.                    *)

HealthCheckFails ==
    /\ monitor = "waiting"
    /\ service = "faulty"
    /\ current_state = Closed
    /\ monitor' = "saw_closed"
    /\ UNCHANGED <<breakerVars, call, service>>

HealthRecordFailure ==
    /\ monitor = "saw_closed"
    /\ RecordFailure
    /\ monitor' = "waiting"
    /\ UNCHANGED <<call, service>>

-----------------------------------------------------------------------------
(* The operator, the clock and the service.                                *)

Reset ==
    /\ current_state' = Closed
    /\ consecutive_failures' = 0
    /\ consecutive_successes' = 0
    /\ next_retry' = NoRetry
    /\ UNCHANGED <<call, monitor, service>>

ForcedWait_Fault == NoRetry
ForcedWait == RecoveryTimeout

ForceOpen ==
    /\ current_state' = Open
    /\ next_retry' = ForcedWait
    /\ UNCHANGED <<consecutive_failures, consecutive_successes>>
    /\ UNCHANGED <<call, monitor, service>>

\* _transition_to_state returns early when the breaker is closed already.
ForceClose ==
    /\ current_state # Closed
    /\ current_state' = Closed
    /\ consecutive_failures' = 0
    /\ next_retry' = NoRetry
    /\ UNCHANGED <<consecutive_successes, call, monitor, service>>

Tick ==
    /\ next_retry > 0
    /\ next_retry' = next_retry - 1
    /\ UNCHANGED <<current_state, consecutive_failures, consecutive_successes,
                   call, monitor, service>>

ServiceChanges ==
    /\ service' \in {"healthy", "faulty"} \ {service}
    /\ UNCHANGED <<breakerVars, call, monitor>>

-----------------------------------------------------------------------------
Attempt(c) == Admit(c) \/ Reject(c)
Finish(c)  == Succeed(c) \/ Fail(c)

Traffic ==
    \/ \E c \in Callers : Attempt(c) \/ Finish(c) \/ Cancel(c)
    \/ HealthCheckFails
    \/ HealthRecordFailure
    \/ Tick
    \/ ServiceChanges

Operator == Reset \/ ForceOpen \/ ForceClose

Next == Traffic \/ Operator

Spec == Init /\ [][Next]_vars

\* What the event loop and the scheduler grant: time passes, a thread inside
\* or at the door of the breaker moves on, the monitor finishes its check.
\* Coroutines may be cancelled for ever, so nothing is assumed of them.
Fairness ==
    /\ WF_vars(Tick)
    /\ WF_vars(HealthRecordFailure)
    /\ \A c \in SyncCallers : WF_vars(Attempt(c)) /\ WF_vars(Finish(c))
    /\ \A c \in AsyncCallers :
          WF_vars(Finish(c)) /\ WF_vars(call[c].pc = "sleeping" /\ Attempt(c))

FairSpec == Spec /\ Fairness

-----------------------------------------------------------------------------
(* Properties.                                                             *)

\* The breaker's metrics and its callers hold values of their types.
TypeOK ==
    /\ current_state \in {Closed, Open, HalfOpen}
    /\ consecutive_failures \in 0..CountCap
    /\ consecutive_successes \in 0..CountCap
    /\ next_retry \in Int /\ next_retry >= NoRetry
    /\ call \in [Callers -> [pc : {"idle", "running", "sleeping"},
                             attempt : 0..MaxRetries]]
    /\ monitor \in {"waiting", "saw_closed"}
    /\ service \in {"healthy", "faulty"}

\* A closed breaker carries no run of failures that should have opened it, a
\* half-open one has not counted the successes that close it, and an open one
\* has an appointed time for its next probe (without one _should_allow_request,
\* line 294, lets the next request straight through): whatever results of
\* earlier states arrive late, and whatever the operator forces.
ClosedBelowThreshold ==
    current_state = Closed => consecutive_failures < FailureThreshold

HalfOpenUndecided ==
    current_state = HalfOpen => consecutive_successes < SuccessThreshold

OpenHasRetryTime == current_state = Open => next_retry # NoRetry

CountersFit == ClosedBelowThreshold /\ HalfOpenUndecided /\ OpenHasRetryTime

\* Only the operator closes an open breaker: the late success of a call
\* admitted before it opened never does, and a probe is admitted only when
\* the appointed time has come.
OpenLeftByProbe ==
    [][ current_state = Open /\ current_state' # Open
        => \/ current_state' = HalfOpen /\ next_retry <= 0
           \/ Operator ]_vars

\* Once the service has recovered for good and the operator leaves the
\* breaker alone, the breaker closes and stays closed.
RecoversForGood ==
    /\ <>[](service = "healthy")
    /\ <>[][~Operator]_vars
    => <>[](current_state = Closed)

\* The breaker is a CircuitGate: seen through its state, the successes it has
\* counted while half open and the set of calls inside, it opens only on bad
\* news, is left only by a probe, and closes only on success_threshold
\* successes in a row since it became half open, or at the operator's word.
Gate == INSTANCE CircuitGate WITH
            Clients <- Callers,
            Needed  <- SuccessThreshold,
            gate    <- current_state,
            votes   <- IF current_state = HalfOpen THEN consecutive_successes ELSE 0,
            inside  <- { c \in Callers : Running(c) }

GateSpec == Gate!Spec

=============================================================================
