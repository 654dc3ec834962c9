-------------------------- MODULE HealthMonitoring --------------------------
(***************************************************************************)
(* Starting and stopping the health-check loop of a breaker                *)
(* (src/utils/circuit_breaker.py).  start_health_monitoring does not       *)
(* suspend; stop_health_monitoring cancels the task, waits for it to end   *)
(* and forgets it, so several stops may be waiting at once and a start may *)
(* come in between.                                                        *)
(***************************************************************************)
EXTENDS Integers, FiniteSets

CONSTANTS
    Stoppers,    \* coroutines that may call stop_health_monitoring
    MaxLoops     \* bound: health-check loops there are at the same time

ASSUME MonitoringAssumption == MaxLoops \in Nat \ {0}

Loops  == 1..MaxLoops
NoTask == 0

VARIABLES
    health_check_task,  \* _health_check_task: a loop, or NoTask
    shutdown_event,     \* _shutdown_event.is_set()
    loop,               \* what each loop is doing
    cancelled,          \* the loops whose task has been cancelled
    stopping            \* the loop each stopper waits for, or NoTask

monitoringVars == <<health_check_task, shutdown_event, loop, cancelled, stopping>>

Alive(i) == loop[i] \in {"scheduled", "checking", "sleeping"}

\* A loop that has ended and that nobody waits for or remembers stands for a new one.
Unused(i) ==
    /\ loop[i] = "done"
    /\ health_check_task # i
    /\ \A s \in Stoppers : stopping[s] # i

MonitoringInit ==
    /\ health_check_task = NoTask
    /\ shutdown_event = FALSE
    /\ loop = [i \in Loops |-> "done"]
    /\ cancelled = {}
    /\ stopping = [s \in Stoppers |-> NoTask]

\* start_health_monitoring on a breaker with a health check: a task that is
\* remembered, ended or not, makes it return at once.
MayStart == health_check_task = NoTask

Start ==
    /\ MayStart
    /\ \E i \in Loops :
          /\ Unused(i)
          /\ loop' = [loop EXCEPT ![i] = "scheduled"]
          /\ cancelled' = cancelled \ {i}
          /\ health_check_task' = i
    /\ UNCHANGED <<shutdown_event, stopping>>

StartIgnored ==
    /\ ~MayStart
    /\ UNCHANGED <<health_check_task, shutdown_event, loop, cancelled, stopping>>

MayStop_Fault == TRUE
MayStop == health_check_task # NoTask

SetShutdown_Fault == FALSE
SetShutdown == TRUE

BeginStop(s) ==
    /\ stopping[s] = NoTask
    /\ MayStop
    /\ shutdown_event' = SetShutdown
    /\ cancelled' = cancelled \union {health_check_task}
    /\ stopping' = [stopping EXCEPT ![s] = health_check_task]
    /\ UNCHANGED <<health_check_task, loop>>

Ended_Fault(s) == loop[stopping[s]] = "done" /\ health_check_task = stopping[s]
Ended(s) == loop[stopping[s]] = "done"

\* The awaited task has ended; whatever task there is now is forgotten.
EndStop(s) ==
    /\ stopping[s] # NoTask
    /\ Ended(s)
    /\ health_check_task' = NoTask
    /\ stopping' = [stopping EXCEPT ![s] = NoTask]
    /\ UNCHANGED <<shutdown_event, loop, cancelled>>

-----------------------------------------------------------------------------
(* The loop.  A cancelled one ends at the await it stands at, or before it *)
(* ever runs; others look at the event before each check.                  *)

Ends(i) == i \in cancelled \/ (loop[i] # "checking" /\ shutdown_event)

LoopEnds(i) ==
    /\ Alive(i)
    /\ Ends(i)
    /\ loop' = [loop EXCEPT ![i] = "done"]
    /\ UNCHANGED <<health_check_task, shutdown_event, cancelled, stopping>>

LoopGoesOn(i) ==
    /\ Alive(i)
    /\ ~Ends(i)
    /\ loop' = [loop EXCEPT ![i] = IF @ = "checking" THEN "sleeping" ELSE "checking"]
    /\ UNCHANGED <<health_check_task, shutdown_event, cancelled, stopping>>

LoopStep(i) == LoopEnds(i) \/ LoopGoesOn(i)

MonitoringNext ==
    \/ Start \/ StartIgnored
    \/ \E s \in Stoppers : BeginStop(s) \/ EndStop(s)
    \/ \E i \in Loops : LoopStep(i)

MonitoringSpec == MonitoringInit /\ [][MonitoringNext]_monitoringVars

\* The event loop runs every task that is ready: checks time out, sleeps end.
FairMonitoringSpec ==
    /\ MonitoringSpec
    /\ \A i \in Loops : WF_monitoringVars(LoopStep(i))
    /\ \A s \in Stoppers : WF_monitoringVars(EndStop(s))

-----------------------------------------------------------------------------
(* Properties.                                                             *)

\* The task, the event and the loops hold values of their types.
MonitoringTypeOK ==
    /\ health_check_task \in Loops \union {NoTask}
    /\ shutdown_event \in BOOLEAN
    /\ loop \in [Loops -> {"scheduled", "checking", "sleeping", "done"}]
    /\ cancelled \subseteq Loops
    /\ stopping \in [Stoppers -> Loops \union {NoTask}]

\* Two stops that overlap with a start may make the breaker forget a loop it
\* has just created; even so no two loops ever check the service side by side.
OneChecker == Cardinality({ i \in Loops : loop[i] \in {"checking", "sleeping"} }) <= 1

\* A stop returns, whatever the loop was doing when it was cancelled.
StopReturns == \A s \in Stoppers : stopping[s] # NoTask ~> stopping[s] = NoTask

=============================================================================
