-------------------------- MODULE FallbackBreaker --------------------------
(***************************************************************************)
(* The adaptive breaker of src/core/fallback_circuit_breaker.py.  It has   *)
(* no lock: coroutines of one event loop share it, and a step runs from    *)
(* one await that really suspends to the next.  There are two of those:    *)
(* the protected function, and the pause of the recovery strategy, in the  *)
(* middle of the admission of the caller that moves it to HALF_OPEN.       *)
(*                                                                         *)
(* The request history is abstracted to what detect_failure_pattern tells  *)
(* apart: whether there are MinHistory records, and whether the latest     *)
(* ones are SustainedRun failures; the ratios choose among the patterns    *)
(* that are left.                                                          *)
(***************************************************************************)
EXTENDS Integers

CONSTANTS
    Callers,            \* coroutines using execute
    Impatient,          \* those whose owner may cancel them
    BaseFailures,       \* adaptive_threshold.base_failure_threshold
    SuccessThreshold,   \* adaptive_threshold.base_success_threshold
    BaseTimeout,        \* adaptive_threshold.base_timeout, in ticks
    ForcedOpenTimeout,  \* forced_open_timeout, in ticks
    MaxHalfOpen,        \* max_requests_in_half_open, 5
    DegradedSuccesses,  \* successes that end the degraded mode, 5
    DegradedFailures,   \* failures that end it, 3
    MinHistory,         \* records needed to detect a pattern, 10
    SustainedRun,       \* failures in a row that make the pattern sustained, 8
    CountCap,           \* bound: runs are counted up to this
    AgeCap              \* bound: the time spent in a state is counted up to this

\* The three factories keep SuccessThreshold within max_requests_in_half_open.
ASSUME FallbackAssumption ==
    /\ Impatient \subseteq Callers
    /\ {BaseFailures, SuccessThreshold, BaseTimeout, ForcedOpenTimeout, MaxHalfOpen,
        DegradedSuccesses, DegradedFailures, MinHistory, SustainedRun} \subseteq Nat \ {0}
    /\ SuccessThreshold <= MaxHalfOpen
    /\ CountCap \in Nat /\ AgeCap \in Nat
    /\ CountCap >= SuccessThreshold /\ CountCap >= DegradedSuccesses
    /\ CountCap >= DegradedFailures /\ 10 * CountCap >= 15 * BaseFailures
    /\ CountCap >= MinHistory /\ CountCap >= SustainedRun
    /\ AgeCap >= 2 * BaseTimeout /\ AgeCap >= ForcedOpenTimeout

Patterns == {"intermittent", "sustained", "cascading", "timeout_heavy", "overload"}

\* pattern_modifiers, in tenths.
FailureMult == [intermittent |-> 15, sustained |-> 7, cascading |-> 5,
                timeout_heavy |-> 8, overload |-> 6]
TimeoutMult == [intermittent |-> 8, sustained |-> 12, cascading |-> 15,
                timeout_heavy |-> 20, overload |-> 18]

VARIABLES
    state,                  \* AdvancedCircuitBreakerState
    consecutive_failures,
    consecutive_successes,
    requests_in_half_open,
    current_pattern,
    recorded,               \* records in the analyzer's history
    failing_run,            \* failures at the end of that history
    time_in_state,          \* ticks since state_start_time
    caller,                 \* "idle", "recovering" (in attempt_recovery) or "running"
    service                 \* "healthy" or "faulty"

counters == <<consecutive_failures, consecutive_successes, requests_in_half_open>>
analyzer == <<current_pattern, recorded, failing_run>>
vars == <<state, counters, analyzer, time_in_state, caller, service>>

Bump(n) == IF n < CountCap THEN n + 1 ELSE n

Init ==
    /\ state = "closed"
    /\ consecutive_failures = 0
    /\ consecutive_successes = 0
    /\ requests_in_half_open = 0
    /\ current_pattern = "intermittent"
    /\ recorded = 0
    /\ failing_run = 0
    /\ time_in_state = 0
    /\ caller = [c \in Callers |-> "idle"]
    /\ service = "healthy"

-----------------------------------------------------------------------------
(* Thresholds and patterns.  (Definitions named ..._Fault are the code with*)
(* one plausible mistake; nothing uses them.)                              *)

\* get_adjusted_thresholds: the failure threshold is truncated to an integer.
FailureThreshold(p) == (BaseFailures * FailureMult[p]) \div 10
TimedOut(p) == 10 * time_in_state >= BaseTimeout * TimeoutMult[p]

\* What detect_failure_pattern may answer when a failure has just been recorded.
PatternsAfterFailure(records, run) ==
    IF records < MinHistory THEN {"intermittent"}
    ELSE IF run >= SustainedRun THEN {"timeout_heavy", "sustained"}
    ELSE {"timeout_heavy", "cascading", "overload", "intermittent"}

\* _transition_to_state, and a step that leaves the state alone.
Enter(s) ==
    /\ state' = s
    /\ time_in_state' = 0

Stay == UNCHANGED <<state, time_in_state>>

\* Entering HALF_OPEN resets the count of requests answered there, and leaves
\* the run of successes as it is.
AnsweredOnProbe_Fault == requests_in_half_open
AnsweredOnProbe == 0

-----------------------------------------------------------------------------
(* Admission: _should_allow_request after _update_state.                   *)

ProbeIsDue ==
    \/ state = "open" /\ TimedOut(current_pattern)
    \/ state = "forced_open" /\ time_in_state >= ForcedOpenTimeout

\* The caller that finds the wait over moves the breaker to HALF_OPEN and
\* pauses in attempt_recovery, whose answer is only logged.
BeginProbe(c) ==
    /\ caller[c] = "idle"
    /\ ProbeIsDue
    /\ Enter("half_open")
    /\ requests_in_half_open' = AnsweredOnProbe
    /\ caller' = [caller EXCEPT ![c] = "recovering"]
    /\ UNCHANGED <<consecutive_failures, consecutive_successes, analyzer, service>>

\* The states in which a request may be let in; in DEGRADED it is the clock
\* that lets half of them in.
MayEnter_Fault(c) == caller[c] = "recovering" \/ state \in {"closed", "degraded", "half_open"}
MayEnter(c) ==
    \/ state \in {"closed", "degraded"}
    \/ state = "half_open" /\ requests_in_half_open < MaxHalfOpen

MustEnter ==
    \/ state = "closed"
    \/ state = "half_open" /\ requests_in_half_open < MaxHalfOpen

\* At the door: a caller that has just arrived and for which no probe is due,
\* or the one that comes out of the recovery pause and looks at the state anew.
AtTheDoor(c) ==
    \/ caller[c] = "idle" /\ ~ProbeIsDue
    \/ caller[c] = "recovering"

GetIn(c) ==
    /\ AtTheDoor(c)
    /\ MayEnter(c)
    /\ caller' = [caller EXCEPT ![c] = "running"]
    /\ UNCHANGED <<state, counters, analyzer, time_in_state, service>>

\* CircuitBreakerOpenError.
Blocked(c) ==
    /\ AtTheDoor(c)
    /\ ~MustEnter
    /\ caller' = [caller EXCEPT ![c] = "idle"]
    /\ UNCHANGED <<state, counters, analyzer, time_in_state, service>>

-----------------------------------------------------------------------------
(* Outcomes.                                                               *)

Running(c) == caller[c] = "running"

SuccessCloses_Fault(successes) == state = "half_open" /\ successes >= SuccessThreshold
SuccessCloses_AnyState_Fault(successes) ==
    state # "closed" /\ successes >= SuccessThreshold
SuccessCloses(successes) ==
    \/ state = "half_open" /\ successes >= SuccessThreshold
    \/ state = "degraded" /\ successes >= DegradedSuccesses

Answered_Fault(n) == n - 1
Answered(n) == Bump(n)

OnSuccess(c) ==
    LET successes == Bump(consecutive_successes)
    IN  /\ Running(c)
        /\ consecutive_failures' = 0
        /\ consecutive_successes' = successes
        /\ requests_in_half_open' = IF state = "half_open"
                                    THEN Answered(requests_in_half_open)
                                    ELSE requests_in_half_open
        /\ recorded' = Bump(recorded)
        /\ failing_run' = 0
        /\ IF SuccessCloses(successes) THEN Enter("closed") ELSE Stay
        /\ caller' = [caller EXCEPT ![c] = "idle"]
        /\ UNCHANGED <<current_pattern, service>>

\* Where a failure takes the breaker, p being the pattern it shows.
AfterFailure(failures, p) ==
    CASE state = "closed" /\ failures >= FailureThreshold(p) ->
           IF p \in {"cascading", "sustained"} THEN "open" ELSE "degraded"
      [] state = "half_open" -> "open"
      [] state = "degraded" /\ failures >= DegradedFailures -> "open"
      [] OTHER -> state

OnFailure(c) ==
    LET failures == Bump(consecutive_failures)
    IN  /\ Running(c)
        /\ service = "faulty"
        /\ consecutive_successes' = 0
        /\ consecutive_failures' = failures
        /\ recorded' = Bump(recorded)
        /\ failing_run' = Bump(failing_run)
        /\ current_pattern' \in PatternsAfterFailure(recorded', failing_run')
        /\ LET next == AfterFailure(failures, current_pattern')
           IN  IF next # state THEN Enter(next)
               ELSE Stay
        /\ caller' = [caller EXCEPT ![c] = "idle"]
        /\ UNCHANGED <<requests_in_half_open, service>>

\* asyncio.CancelledError passes execute by: nothing is recorded.
Cancel(c) ==
    /\ c \in Impatient
    /\ caller[c] # "idle"
    /\ caller' = [caller EXCEPT ![c] = "idle"]
    /\ UNCHANGED <<state, counters, analyzer, time_in_state, service>>

-----------------------------------------------------------------------------
(* The operator, the clock and the service.                                *)

ForceOpen ==
    /\ Enter("forced_open")
    /\ UNCHANGED <<counters, analyzer, caller, service>>

ForceClose ==
    /\ Enter("closed")
    /\ consecutive_failures' = 0
    /\ consecutive_successes' = 0
    /\ UNCHANGED <<requests_in_half_open, analyzer, caller, service>>

\* reset_metrics gives the breaker a new analyzer.
ResetMetrics ==
    /\ recorded' = 0
    /\ failing_run' = 0
    /\ UNCHANGED <<state, counters, current_pattern, time_in_state, caller, service>>

Tick ==
    /\ time_in_state < AgeCap
    /\ time_in_state' = time_in_state + 1
    /\ UNCHANGED <<state, counters, analyzer, caller, service>>

ServiceChanges ==
    /\ service' \in {"healthy", "faulty"} \ {service}
    /\ UNCHANGED <<state, counters, analyzer, time_in_state, caller>>

Operator == ForceOpen \/ ForceClose \/ ResetMetrics

Next ==
    \/ \E c \in Callers : \/ BeginProbe(c) \/ GetIn(c) \/ Blocked(c)
                          \/ OnSuccess(c) \/ OnFailure(c) \/ Cancel(c)
    \/ Operator \/ Tick \/ ServiceChanges

Spec == Init /\ [][Next]_vars

\* Time passes, pauses end, functions return, and a patient client that keeps
\* coming back meets the half of the seconds in which DEGRADED lets it in.
Fairness ==
    /\ WF_vars(Tick)
    /\ \A c \in Callers \ Impatient :
          /\ WF_vars(BeginProbe(c))
          /\ WF_vars(caller[c] = "recovering" /\ (GetIn(c) \/ Blocked(c)))
          /\ SF_vars(GetIn(c))
          /\ WF_vars(OnSuccess(c) \/ OnFailure(c))

FairSpec == Spec /\ Fairness

-----------------------------------------------------------------------------
(* Properties.                                                             *)

\* The breaker's counters and its callers hold values of their types.
TypeOK ==
    /\ state \in {"closed", "half_open", "open", "forced_open", "degraded"}
    /\ {consecutive_failures, consecutive_successes, requests_in_half_open,
        recorded, failing_run} \subseteq 0..CountCap
    /\ current_pattern \in Patterns
    /\ time_in_state \in 0..AgeCap
    /\ caller \in [Callers -> {"idle", "recovering", "running"}]
    /\ service \in {"healthy", "faulty"}

\* HALF_OPEN has no timeout: were its quota of requests used up before it is
\* decided, no request could ever get in again to decide it.  It never is, so
\* long as success_threshold is within the quota.
HalfOpenNeverFull == state = "half_open" => requests_in_half_open < MaxHalfOpen

\* The administrator's FORCED_OPEN outlasts every late success and failure of
\* the calls it found running: it ends by its own timeout or by force_close.
ForcedOpenLasts ==
    [][ state = "forced_open" /\ state' # "forced_open"
        => \/ state' = "half_open" /\ time_in_state >= ForcedOpenTimeout
           \/ ForceClose ]_vars

\* A caller that pauses in attempt_recovery may find the breaker opened or
\* forced open when it wakes up: nobody starts running through a closed door.
NobodyRunsThrough ==
    [][ \A c \in Callers :
          ~Running(c) /\ Running(c)'
          => state \notin {"open", "forced_open"} ]_vars

\* Once the service has recovered for good and the operator leaves the breaker
\* alone, the breaker ends up closed, from DEGRADED and FORCED_OPEN as well.
RecoversForGood ==
    /\ <>[](service = "healthy")
    /\ <>[][~Operator]_vars
    => <>[](state = "closed")

=============================================================================
