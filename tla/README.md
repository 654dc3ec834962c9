# A formal model of PromptCraft

This directory holds TLA+ models of the parts of PromptCraft-Hybrid whose
correctness depends on the order of events: the circuit breakers, the
fallback chain, the routing between OpenRouter and MCP servers, the retries
around the Zen MCP server, the connections to MCP servers and their processes,
the vector stores and their cache, the rotation of service tokens, the health
monitor and the metrics pipeline. TLC checks small instances of each module;
TLAPS proves the safety properties that matter most for every value of the
constants.

Paths below are relative to `src/`, the repository; the program's own package
is `src/src/`. "Line" always means a line of the commit these models were
written against.

- [The system](#the-system)
- [What each module models](#what-each-module-models)
- [Reading the models](#reading-the-models)
- [The runs](#the-runs)
- [The proofs](#the-proofs)
- [What the runs found](#what-the-runs-found)
- [What the models say about the code](#what-the-models-say-about-the-code)
- [What is not modelled](#what-is-not-modelled)
- [The plan](#the-plan)
- [Running the checks](#running-the-checks)

## The system

PromptCraft takes a user's query, detects what kind of task it is, loads the
functions that task needs, improves the prompt with the help of external
services (the Zen MCP server, OpenRouter, other MCP servers, a Qdrant vector
store) and answers over HTTP or a Gradio page. It is an asyncio program: nearly
everything runs as coroutines of one event loop, and a handler is interrupted
only at an `await` that really suspends. Threads appear in one place that
matters here, the general circuit breaker, which guards its state with an
`RLock` because synchronous callers share it with coroutines.

The services fail, hang and come back. The core of the system is therefore the
machinery that decides, request by request, whether to call a service, to try
again, or to answer without it. That machinery keeps a little state that many
concurrent requests read before an `await` and write after it, and this is
where the models begin.

### Components

| Component | Source | State it keeps | Operations | What makes it correct |
|---|---|---|---|---|
| Circuit breaker | `utils/circuit_breaker.py` | state, runs of failures and successes, time of the next probe, attempt of each caller | `call_async` (with retries), `call_sync`, health-check iteration, `reset`, `force_open`, `force_close` | nobody passes while open; closes only on evidence gathered while half open; counters fit the state whatever arrives late; recovers |
| Health monitoring | same file | the task, the shutdown event | `start_health_monitoring`, `stop_health_monitoring`, the loop | one loop at a time; a stop returns; started means running |
| Adaptive fallback breaker | `core/fallback_circuit_breaker.py` | five states, two runs, half-open quota, failure pattern, history | `execute`, `force_open`, `force_close`, `reset_metrics` | half open can always be decided; forced open outlasts late results; recovers from every state |
| Conservative fallback chain | `core/conservative_fallback_chain.py` | breaker flag, count and age, emergency mode, retry budgets | `get_function_categories`, recovery, `reset_circuit_breaker`, `exit_emergency_mode` | breaker open exactly at its threshold; emergency mode runs its course; every request answered |
| Zen MCP resilience | `core/zen_mcp_error_handling.py`, `utils/resilience.py` | breaker state and counters, attempt of each request | `enhance_prompt` | retries do not pass an open breaker; every prompt answered; recovers |
| Metrics collector and storage | `metrics/collector.py`, `metrics/storage.py` | event buffer, batches under way, background task, rows | `record_*`, flush by size, by timer and on request, `start`, `stop` | no event is handed to the store twice or lost on the way to it; `stop` leaves nothing behind |
| Hybrid routing | `mcp_integration/hybrid_router.py`, `openrouter_client.py` | strategy, rollout, request counter; the session of the OpenRouter client; the breaker the two share | `orchestrate_agents`, `validate_query`, `connect`, `disconnect`, `set_traffic_percentage` | a failed primary is answered by the fallback; every request ends through retries inside retries |
| MCP connection bridge | `mcp_integration/connection_bridge.py` | active connections, registered processes | `connect_to_server`, `disconnect_server`, `shutdown`, `get_connection_status` | a clean-up stops its own process; no running process is forgotten; dead connections go |
| Token rotation | `automation/token_rotation_scheduler.py`, `auth/service_token_manager.py` | plans in memory, rows of tokens | the daemon's cycle; create, rotate, revoke, emergency revocation | what is due comes up for rotation in the end; what is revoked stays so; plans do not pile up |
| Vector store | `core/vector_store.py`, the cache of `core/performance_optimizer.py` | connection, breaker of each store, documents, cached answers | search, insert, update, delete, connect, disconnect | breakers open and close as they should; answers become fresh |
| Connection pool, batcher | `core/performance_optimizer.py` | bounded queue, count of connections, pending items | acquire, release, add, flush, shutdown | not modelled: tests alone use them |
| Dynamic function loading | `core/dynamic_function_loader.py` and the modules it drives | sessions, caches, user preferences | create, load, command, end | a session ends once; a late load does not revive it |
| MCP clients | `mcp_integration/mcp_client.py`, `zen_client/` | connection states, server processes | connect, call, retry, reconnect | one session at a time; a lost connection is found |
| Everything else | agents, auth, security, database, query processing, A/B testing, monitoring, API, UI, configuration | see `PROJECT.json` | | |

The first ten rows are modelled. `PROJECT.json` lists every component with its
sources, its status and, where it is not modelled, why.

### How they interact

- A caller goes through a breaker by asking for admission, awaiting the
  service, and recording the outcome. The three breakers differ in their
  details, but each of them applies an outcome to *whatever state it is in when
  the call returns*, not to the state that admitted the call.
- In the general breaker the retry loop is outside and asks for admission
  again at every attempt. In the Zen integration the composite handler wraps
  the client with the breaker and the result with the retries, so that the
  error of an open breaker is retried as any other.
- The fallback chain asks the task-detection system under a limit of 5 s;
  when that fails it backs off, asks once more and then answers from a fixed
  set. Its own breaker and its emergency mode answer without asking.
- The health monitor shares the general breaker's counters with its callers.
- The metrics collector hands full buffers to tasks of their own, which write
  to the store while recorders, the background loop and `stop()` go on.
- The router decides between OpenRouter and the MCP client from the state of a
  breaker that it shares with the OpenRouter client; a request at OpenRouter
  may open the client's connection, which goes through the same breaker, so
  that two calls, one within the other, report to it.
- Coroutines share one bridge and overwrite each other's connections; the
  processes die by themselves.
- The rotation daemon plans from what it reads of the tokens' table, which
  administrators change in transactions of their own.
- All vector stores of the process share one cache of answers, which no change
  of the documents invalidates.

### Hard behaviours

The hazards are listed one by one in `PROJECT.json`, each at its line with the
properties that would catch it. They are of these kinds:

- *late results*: outcomes of calls admitted in an earlier state of a breaker;
- *suspension in the middle of a decision*: the adaptive breaker pauses after
  it has entered HALF_OPEN and before it admits the prober;
- *retries around, and inside, breakers*, and retry budgets shared by requests;
- *start and stop in any order*, with the stop waiting for a task;
- *failure of one step of several*: the store fails after the buffer is empty;
- *recovery that needs somebody to look*: no breaker here has a timer, it is
  the next request that notices that the time has come;
- *waiting without a limit*: the second detection of the fallback chain;
- *decisions out of date*: a fallback that was not available when the router
  decided, a cached health result of a connection whose process has died, a
  cached answer about documents that have changed;
- *check and act apart*: two callers start a process for one server, two
  transactions rotate one token;
- *loss of memory*: plans that vanish with the daemon, made-up results that
  are recorded as completed.

## What each module models

One action is one uninterrupted stretch of the code: a block under the lock in
the general breaker, and the stretch between two awaits that suspend elsewhere.

| Module | Models | Actions and the code they stand for |
|---|---|---|
| `CircuitGate` | what a breaker promises its clients, without counters of failures or timers | `Pass`, `Probe`, `GoodNews`, `BadNews`, `NoNews`, `Override` |
| `CircuitBreaker` | the general breaker | `Admit`/`Reject` = `_request_context` up to the call, `Succeed`/`Fail`/`Cancel` = its end, with the retry loop; `HealthCheckFails`, `HealthRecordFailure` = the two lock blocks of a monitor iteration; `Reset`, `ForceOpen`, `ForceClose` |
| `HealthMonitoring` | the life of the health loop | `Start`, `StartIgnored`; `BeginStop` and `EndStop` = `stop_health_monitoring` before and after its await; `LoopEnds`, `LoopGoesOn` |
| `FallbackBreaker` | the adaptive breaker | `BeginProbe` = `execute` up to the pause of the recovery strategy, `GetIn`/`Blocked` = the admission, `OnSuccess`, `OnFailure`, `Cancel`, the overrides |
| `FallbackChain` | the fallback chain | `ServeEmergency`, `ServeBreakerOpen`, `StartDetection` = arrival; `DetectionAnswers`, `DetectionTimesOut`, `DetectionFails` = the first detection; `BeginRecovery`, `RecoveryAnswers`, `RecoveryFails` = the recovery; the operator's two resets |
| `ZenResilience` | the Zen integration | `Admitted`, `Blocked` = an attempt at the breaker; `Succeeds`, `Fails` = its end; `Cancel` |
| `MetricsCollector` | the collector over its store | `Record`, `RunBatch`, `FlushOnRequest`, `BackgroundFlush`, `Start`, `StartIgnored`, `BeginStop`, `EndStop` |
| `HybridRouter` | the router, the OpenRouter client and their breaker | `Orchestrate`, `Validate` = a request up to its first wait, the decision of `_make_routing_decision` included; `StepsEnd` = the end of an orchestration; `ConnectAnswered`, `ConnectRaises`, `ConnectRetries`, `CallRetries` = the two retry loops; `McpAnswers`, `McpFails` with the fallback; `Connect`, `McpConnected`, `Disconnect`, `DisconnectMcp`, `SetTraffic` = the operator |
| `ConnectionBridge` | connections and NPX processes | `ConnectToServer` = `connect_to_server` up to its first sleep, `Started`, `Deployed`, `Closed` = what follows a sleep, `CancelCall` = what a cancellation there leaves; `AdminStep` = `DisconnectServer`, `Shutdown`, `ShutdownNext`, `Status`; `Die` = a process ends |
| `TokenRotation` | the daemon and the tokens' table | `Analyze`, `Schedule`, `TooLate`, `ListDue`, `Start`, `NotRotated`, `Sleep` = the daemon's cycle; `BeginRotation`/`Rotate`, `BeginRevocation`/`Revoke`, `RollBack` = the two ends of an administrator's transaction; `BeginEmergency` = a revocation of all tokens, which can only be rolled back; `Restart` |
| `VectorStore` | Qdrant and mock stores, their breakers, the cache | `SearchHits`, `SearchRefused`, `QdrantSearches`, `QdrantSearchFails` = one call; `MockSearchBegins`/`MockSearches`/`MockSearchFails`, `MockInsertBegins`/`MockInserts` = the two sides of a mock's sleep; `QdrantInserts`, `Update`, `Delete`, `Connect`, `Disconnect`, `Tick` |

`CircuitBreaker` and `ZenResilience` both instantiate `CircuitGate` under a
refinement mapping: two breakers of the source, written independently, keep
one promise. `FallbackBreaker` does not implement it: it closes on successes
counted before it became half open. The chain's breaker and those of the vector
stores have no half-open state at all. `HybridRouter` uses the same gate as
functions of its state, since nested calls report to it twice in one step.

For each of the ten modelled components there is a module `MC...` that only
fixes the sets of the instance, and `.cfg` files that say which instance and
which properties a run uses. Their theorems are in modules `...Proofs`, one for
each component but two: those of `HealthMonitoring` are in
`CircuitBreakerProofs`, with which it shares its source file, and those of
`ConnectionBridge` in `McpIntegrationProofs`, beside those of `HybridRouter`. Two
components proved about in one module have names of their own for what would
clash (`MonitoringSpec`, `BridgeSpec`, ...).

## Reading the models

*Names* are those of the source where TLA+ allows it: variables are the
attributes of the object, actions the methods, or what happens in them.

*Time* is relative. A time stamp is kept as the number of ticks since it was
taken, or still to go, saturating where a further tick would change no
comparison. `Tick` may happen at any moment, so a tick is shorter than any
other step or longer than many.

*Environment.* `service`, `detector`, `client` and `store_up` say how the
outside behaves, and change at any moment. A faulty service may still answer;
a healthy one does. A hung detector does neither.

*Cancellation.* A coroutine that waits may be cancelled by its owner; where
the liveness properties need somebody who does not give up, the constant
`Impatient` names those who may.

*Counters* are bounded by constants called `...Cap`, each with an assumption
that puts it above everything the counter is compared with; at the cap
counting further changes nothing. They are bounds of the representation, not of
the behaviour: every run still explores behaviours of unlimited length.

*Identities* (processes, rows of tokens, loops) come from a set and are used
again once nothing refers to them. With no process left a start fails; with no
row left the successor of a rotated token is out of the model's sight. Both are
abstractions of an unlimited supply that a run can hold.

*Transactions* of the tokens' table are the step of their first read and the
step of their commit. What the database isolates at READ COMMITTED lies between
the two.

*Definitions named `..._Fault`* are the definition that follows them with one
plausible mistake. Nothing uses them; they are put in its place to see that a
property notices.

## The runs

All runs that should pass use the specification with fairness, so that one
exploration serves safety and liveness. None has a state constraint. Deadlock
is checked in all of them.

| Run | Instance | Distinct states | Shows |
|---|---|---|---|
| `breaker` | one coroutine with two retries, two threads; thresholds 2; delays 1 to 3 with jitter 1 | 34,512 | counters fit the state (`CountersFit`), the open state is left by a due probe or the operator only, nobody passes while open, it implements `CircuitGate`, closes for good after recovery |
| `fallback_breaker` | a patient and an impatient client; thresholds 2; patterns after 2 records | 53,070 | the half-open quota is never used up undecided, FORCED_OPEN outlasts late results, the pause lets nobody through a closed door, it recovers from every state |
| `monitoring_stops` | two stoppers, three loops | 635 | loops do not run side by side, stops return |
| `chain` | two requests; thresholds 2; one retry | 119,619 | open exactly at the threshold, no budget overdrawn, emergency mode runs its course, recovers, answers unless detection hangs for ever |
| `collector` | five events in batches of two | 193,092 | no event is written twice or lost on the way to the store (a batch the store refuses has *arrived*: see `collector_retry`), `stop` leaves nothing behind, a running collector drains |
| `zen` | three prompts, one impatient; thresholds 2; two retries | 10,904 | it implements `CircuitGate`, and recovers although its retries go through the breaker |
| `router` | two requests and the operator; two strategies, rollout off or partial; one retry | 386,338 | a request fails only after the MCP server was tried, requests that find a session never open the breaker, every request ends |
| `bridge` | two clients and the administrator; an npx server and a deployed one; three processes | 43,591 | a clean-up stops the process of its connection, running processes are lost in two ways only, dead connections go |
| `tokens` | two lines of tokens, one flagged; two rows; two administrators; two rotations to a line | 371,474 | plans do not pile up, revoked lines stay revoked, what is due comes up for rotation again and again |
| `vectors` | a Qdrant store and a mock; two tasks; two documents of one id; a cache of one answer | 78,624 | an open breaker has its failures, answers become fresh when the documents rest |

Two more runs look for the violation of what a comment or a document says;
see [below](#what-the-runs-found).

### Why these bounds

The hazards need at most three actors: one that was admitted before a change
of state and returns after it, one that causes the change, and one that arrives
in between; operator, monitor and environment come on top. Thresholds of two
tell "one more" from "enough" and a run of failures from a single one; with a
threshold of one the half-open state would be decided by its first answer, and
a counter that is not reset would never show. Two retries leave a request that
has slept, one that is on its last attempt, and one in between. Five
events in batches of two give two full batches in flight and one event left in
the buffer. The delays of the general breaker are chosen so that backoff
doubles once, is then capped, and is moved by the jitter.

*Router.* The decisions of the other strategies are among those of
`round_robin`, `capability_based` and a partial rollout. One retry of each of
the two nested loops gives first attempts, last attempts and every mixture; a
second request supplies the state that changes under the first one's feet.

*Bridge.* Two clients that start a process each for one server, and one process
more that a restart needs; the second server is there for the processes that
are not npx packages and for a shutdown that has something left to do.

*Tokens.* One line is due for ever (its flag is inherited), one becomes due by
age. Two administrators have a rotation and a revocation, or two rotations, of
one token open side by side. `MaxRotations` stands for the ten or so successors
whose names fit into 255 characters; with two there is a first rotation, a last
one, and a token that cannot be rotated any more. A row is used again when it is
inactive and no plan or transaction refers to it, so that two rows suffice for a
token, its successor, and a plan that outlived its token. The daemon sleeps 24
hours, its default: with that interval each plan is for the 2 AM before the next
cycle.

*Vectors.* Threshold two; the one entry of the cache makes the keys of the two
collections evict each other; a tick of life lets an entry be looked at young
and old. The two documents have one id and different collections: they clash in
the mock, which keeps documents by id, and not in Qdrant. The two queries of
one collection differ in their threshold, which the key of the cache leaves
out. With two tasks in flight at most two failures can arrive at a breaker that
is open already, which bounds the counter.

### Fairness

| Assumed | Because |
|---|---|
| time passes (`Tick`) | clocks advance |
| a call that has begun returns (`Finish`, `Return`, `OnSuccess`/`OnFailure`, `FirstDetection`, `Recovery`) | the breaker imposes no limit, so this is an assumption on the service; where the code does impose one (the 5 s of the first detection) the step that takes the limit is part of the action, and a hung detector leaves the second detection without any enabled step |
| a sleep or a pause ends | the event loop wakes the coroutine |
| somebody keeps asking (`Attempt` of the threads, `Enter`, `Arrive`, `BeginProbe`) | only requests make breakers recover: without traffic an open breaker stays open, in the model as in the code. So `RecoversForGood` is about a program whose callers keep calling |
| the patient client of `FallbackBreaker` meets an open door again and again (strong fairness of `GetIn`) | DEGRADED lets requests in during alternate seconds, so admission is enabled infinitely often but not continuously |
| tasks that were created run, and the background loop wakes up | the event loop |
| a client of the bridge connects to every server again and again (strong fairness) | clients use servers; while one is suspended it cannot begin another call, so the step is not continuously enabled |
| the daemon goes on (`DaemonStep`) | it is one loop, and the database has timeouts. `FairSpec` of `TokenRotation` adds that restarts, failed analyses and plans that come too late for 2 AM (`Misfortune`) happen finitely often: with one of them every day no plan would ever be tried. That a rotation itself fails is no such misfortune: in the daemon it always does |
| every vector store is searched again and again | answers expire only when a search looks at them |
| nothing about operators and administrators, cancellation, recorders, `start`, `stop`, and the environment | they may or may not happen |

`RecoversForGood` assumes that the service is healthy from some point on and,
where overrides could be repeated for ever, that they stop.

## The proofs

Every statement is proved for any number of callers and any configuration the
code accepts. The assumptions are those of the component's module
(`ConfigAssumption`, `MonitoringAssumption`, `FallbackAssumption`,
`ChainAssumption`, `ZenAssumption`, `CollectorAssumption`, `RouterAssumption`,
`OperatorAssumption`, `BridgeAssumption`, `RotationAssumption`,
`StoreAssumption`): what `__post_init__` checks, what the enumerations of the
code are, that an administrator is no client and a token no plan, or, in the
adaptive breaker, what its factories keep (`SuccessThreshold <= MaxHalfOpen`,
without which HALF_OPEN could in fact be stuck).

Every safety property a run checks, invariant or action property, is a theorem,
and so are the two refinements of `CircuitGate`.

| Module | Theorems | The argument |
|---|---|---|
| `CircuitBreakerProofs` | `TypeCorrect`, `CountersFitState`, `OpenIsLeftByProbe`, `ImplementsGate` | The counters and the retry time fit the state (`BreakerInv`), and a coroutine that sleeps has an attempt left (`RetriesLeft`). The breaker's own variables change in five ways only, each handled once; the actions reuse them. For the refinement, a success is good news and a failure bad news for the gate, and everything else is invisible to it. |
| the same, about `HealthMonitoring` | `MonitoringTypeCorrect`, `NeverTwoCheckers` | That one loop checks at a time is not inductive: of two stops the later one to end may forget a loop that was started in between, and another could be started beside it. What prevents it is the event: until it is set the only loop is the one remembered and nobody waits (`OneLoopTillStopped`); once it is set no loop begins to check. |
| `FallbackBreakerProofs` | `TypeCorrect`, `HalfOpenAdmits`, `DoorStaysShut`, `ForcedOpenOutlasts` | `HalfOpenNeverFull` is not inductive. The strengthening `HalfOpenCount` says that while half open every answer so far was a success and belongs to the current run, which is short of the threshold; the quota is at least the threshold. |
| `FallbackChainProofs` | `TypeCorrect`, `OpenAtThreshold`, `EmergencyRunsItsCourse` | Flag and count are set by different handlers; they agree after each. The budget check precedes each charge to a budget. No step of a request ends emergency mode before its time. |
| `ZenResilienceProofs` | `TypeCorrect`, `CountersFitState`, `ImplementsGate` | Three lemmas say what admission, success and failure do to the breaker, three what they do to the requests; a sleeping request has an attempt left (`SleepersRetry`), which makes the type of the attempt inductive. |
| `MetricsCollectorProofs` | `TypeCorrect`, `NothingTwice`, `StopLeavesNothing` | Memory (`buffer`, `batches`) and what has left it (`stored`, `dropped`) are disjoint and together are what was recorded; a new event is nowhere yet. `StopFlushes` needs in addition that a stopper that has begun has set the flag. The size of the buffer needs that it is finite. |
| `McpIntegrationProofs`, about `HybridRouter` | `TypeCorrect`, `NoneFailsUnasked`, `ConnectionsTrip` | `FailsOnlyWithMcp` speaks of requests that have ended. The strengthening `McpAsked` speaks of those that are under way: one that is at OpenRouter without a fallback comes from the MCP server, because every decision for OpenRouter leaves a fallback (`Decisions`) and the fallback is taken away only on the way back. Whoever sleeps has an attempt left (`RetryLeft`). A gate that was not open is open after a step only if somebody's connection got no answer; the steps in which a refused connection raises find the gate open already. |
| the same, about `ConnectionBridge` | `BridgeTypeCorrect`, `CleanUpStopsItsOwn`, `LostOnlyByRaceOrCancel` | `StopsItsOwn` is kept by the steps that establish and drop connections, given that a server without a connection keeps no process in its entry (`NoEntryNoProcess`) and that the call each user is suspended in is one of those its state allows (`Sensible`). For the lost processes every step is shown either to keep the tending of all running processes (`KeepsTending`) or to be one of the two excused ones. |
| `TokenRotationProofs` | `TypeCorrect`, `PlansStayFew`, `RevokedStaysGone` | `PlansDoNotPileUp` is not inductive: how many plans a token may have depends on how far the daemon is in its cycle (`Staged`), since the analysis may plan again what the last cycle planned and this one executes. An active token has a name (`Named`), so that a rotation has one to lengthen. For `RevokedForGood` each step is looked at with a line that has no active token and no rotation under way: a new token is of another line, a successor of the line of a rotation that has begun. |
| `VectorStoreProofs` | `OpenStaysOverThreshold`, `TypeCorrect`, `CollectionsApart` | Count and breaker go up together and a success closes the breaker whatever the count is. An operation in flight is at a mock (`Placed`), so that what it does to a breaker it does to a store's. The cache is a sequence that every look at it filters by age and key: `KeptFact` says that a filtered sequence is a part of the old one, in its order, so that it has no more than one entry for a key still and never more than `MaxSize`. A cached answer has documents of its key's collection because what a search stores does, and no filter makes an entry up. |

The recursive function behind the filters (`Kept`) has no parameter that is an
operator, which the provers could not instantiate; and what it computes is shown
by taking the least length for which it would be wrong (`LeastNat`), since the
library's induction theorems have such a parameter.

### The safety halves of the liveness properties

Liveness under fairness is beyond the proof system. What each liveness property
rests on is not: that something which only decreases measures the way to the
goal, or that the goal cannot be lost sight of. These theorems state it for all
values of the constants; the runs check, on their instances, that fairness then
does lead there.

| Liveness | Theorem | States |
|---|---|---|
| `RecoversForGood` of three breakers | `HealthyClosesStepByStep` in `CircuitBreakerProofs`, `FallbackBreakerProofs`, `ZenResilienceProofs` | While the service is healthy (and, where there is one, the operator does nothing) no step increases `Away`, which counts the ticks to the next probe, the probe, and the successes that are missing; ticks, probes and successes that count decrease it. In the general breaker one step is exempt, the failure of a health check that was on its way. In the adaptive breaker the probe of an open state comes due whatever the pattern of failures. |
| `RecoversForGood` of the chain | `HealthyRenewsNothing` | While the detection system is healthy, the breaker's wait and the emergency mode only run out; requests still in backoff do not renew them. |
| `AnsweredUnlessHung` | `ThreeStepsAtMost` | What happens to a request under way takes it nearer to its answer, from detection through backoff to recovery. |
| `StopReturns` | `StopsWaitForCancelled` | Nobody waits for a health loop that was not cancelled. |
| `Drains` | `EventsGoOneWay` | Events go from the buffer to a batch to the store and never back, and the loop's flush settles all that is buffered. |
| `RequestsEnd` | `RequestsRunOutOfSteps` | `Ahead`, a bound on the steps of a request through its retries inside retries and its fallback, is at most `2 * Whole - 1` and is decreased by each of them. |
| `DeadConnectionsGo` | `DeathEndsTrust` | A connection whose process is dead is not trusted again, once it is not. |
| `DueIsTried` | `PlansAreTried` | A token on the daemon's list stays on it until it has a plan, and keeps a plan until its execution starts, unless one of the misfortunes happens that `FairSpec` allows finitely often. |
| `FreshAfterCalm` | `StaleAnswersRunOut` | While the documents rest, what is in the cache and not true was there before and is no younger; a tick makes it older. |

TLC found each of them to hold on the instance of the component's run before it
was proved.

*Only model-checked:* the liveness properties themselves (`RecoversForGood`,
`AnsweredUnlessHung`, `StopReturns`, `Drains`, `RequestsEnd`,
`DeadConnectionsGo`, `DueIsTried`, `FreshAfterCalm`): fairness is about
`ENABLED`, which the installed provers do not handle. Two properties are stated
to be violated, and are not theorems of anything.

## What the runs found

Each of these is a run that is expected to end in a violation, with the
sentence of the repository it contradicts.

- `collector_retry`. `collector.py:294` says "Return events to buffer on
  failure" and line 319 "Re-add events to buffer for retry". Both stand in
  handlers of an exception that the store never raises: it reports failure by
  returning 0 (`storage.py:164`), so a batch that could not be written is lost
  (`KeptForRetry`).
- `vectors_recovery`. An open breaker of a vector store never closes: the only
  reset asks for fewer failures than it takes to open it, only a success lowers
  the count, and an open breaker lets nothing through
  (`vector_store.py:295`). `docs/vector-store-integration-guide.md:280` says
  "Automatic recovery attempts are made periodically". The run is of one task;
  with more, a search that was in flight when the breaker opened may still
  close it.

## What the models say about the code

What follows came up while the models were written and checked. No run is
spent on these: no document says otherwise, the part is abstracted, the code
plainly has it so, or reading it showed as much as a run would.

*Breakers.*
An open general breaker lets its first probe through after the backoff of the
last failure; `recovery_timeout` is read by `force_open` only
(`circuit_breaker.py:84`).
`stop_health_monitoring` sets an event that nothing clears (lines 570 and 541):
a loop that is started after a stop ends before its first check, so that
monitoring cannot be started again.
The adaptive breaker does not reset its run of successes on entering HALF_OPEN
(`fallback_circuit_breaker.py:366` and `564`); successes of the CLOSED state, or
of calls that were running when it opened, count, and one answer may close it.
Its half-open quota counts answers and not requests in flight.
The Zen breaker has wrapped the client's errors before the retries see them
(`zen_mcp_error_handling.py:223`), so the types a `RetryConfig` may name never
match.
`CountersFit` of the Zen breaker is proved (`CountersFitState`) and not a
property of a run.

`force_open` of the general breaker sets a time to wait, and a failure of a call
admitted earlier replaces it by its own, which may be shorter
(`circuit_breaker.py:593`).
The adaptive breaker's run of failures survives the step into DEGRADED, so that
the first failure there may open it (`fallback_circuit_breaker.py:419`).

*Fallback chain.*
Recovery after an exception is to "Extract query from context"
(`conservative_fallback_chain.py:278`), but the error context does not carry the
query: it detects the empty one, and all failing requests share one retry budget
per kind of error.
The second detection is awaited without a limit of time
(`conservative_fallback_chain.py:460`), so a detection system that hangs twice
leaves the request unanswered, against `docs/conservative_fallback_system.md:540`
"5-second hard timeout maintained".
Timeouts of the detection do not count for the breaker (line 762): a system that
only hangs never opens it.

*Metrics.*
Batches that the store refuses are lost, as `collector_retry` shows; `WrittenOnce`
and `Drains` count them as arrived (`dropped`). `start()` of a collector that was stopped does nothing
(`collector.py:51`).

*Routing.*
Nobody asks a service whose breaker is open, and only a request makes the
breaker half open: with the strategy `OPENROUTER_PRIMARY`, OpenRouter is never
tested again once its breaker has opened (`hybrid_router.py:746`).
A step that fails at OpenRouter becomes an error response and the orchestration
a success, for the breaker and for the router: no fallback is tried, although
line 163 promises a seamless one.
A request that opens its connection reports twice, so that one request may
close a half-open breaker that asks for two successes.
`ROUND_ROBIN` takes two numbers of the counter per request and reads the parity
of the second: the services never alternate.

*Bridge.*
Two callers that connect to one server at the same time, or a caller that is
cancelled while it waits for its process, leave a process that nobody can stop
(`LostByRaceOrCancel` says that nothing else does).
A process that is registered counts as tended there, whether or not its server
has a connection. Where a concurrent clean-up deleted the connection,
`disconnect_server` and `shutdown` (`connection_bridge.py:522`) do not reach the
process any more; only a new connect to its server does.
A process whose stop failed stays registered (line 141).
A dead connection is handed out for up to five minutes, as long as its last
check is recent; `DeadConnectionsGo` is about what comes after.
`connect_to_server` raises `KeyError` when two clean-ups of one connection
overlap.
The lock of the discovery is held across a sleep of three seconds.

*Tokens.*
Nothing in the repository starts the daemon, and if it were started it would
rotate nothing. It plans with `token_id=row.id`, a UUID
(`token_rotation_scheduler.py:159`, where the plan declares a `str`, line 35),
and `rotate_service_token` compares that with a `varchar` and a `text`
(`service_token_manager.py:297` to `299`): the driver refuses the parameter, the
exception is caught, `None` returned and the plan marked "failed". The next
analysis finds the token again, day after day; that is what `DueIsTried` is
about, and all it can be about. With the database out of reach a made-up result
stands in, and the plan is reported as completed (`token_rotation_scheduler.py:303`).
This is a matter of what the driver does with types, outside `src/`; the model
takes it as the code's libraries have it (`NotRotated`) and no run restates it.
`emergency_revoke_all_tokens` never commits either: it adds an
`AuthenticationEvent` without a `user_email` (`service_token_manager.py:247`),
which `database/models.py:437` requires. It is rolled back and returns `None`.
A successor inherits `requires_rotation`, so a flagged line is due for ever, and
each rotation makes the name 24 characters longer: after about ten it does not
fit any more and is not rotated again.
Two rotations of one token, begun side by side, give it two active successors. A
rotation that has begun survives a revocation of its token; `RevokedForGood`
exempts those.
Executed plans are never removed from `_rotation_plans`.
`cleanup_expired_tokens` uses SQLite's `datetime('now')` on PostgreSQL.

*Vector stores.*
The key of the cache has neither the store nor the score threshold, and only ten
dimensions of the first embedding (`performance_optimizer.py:424` to `429`): a
search may be answered from another store, or with documents less similar than
it asked for. `True(e)` in `FreshAfterCalm` therefore asks for the answer of
*some* store to *some* query of that key.
Insertions whose documents fail one by one count as a success of the breaker.
`HydeProcessor` never calls `connect`, so that a Qdrant store answers every
query with nothing. A search of an empty collection of a mock is neither a
success nor a failure. Connecting again does not reset the breaker.

*Not modelled, but read.*
The stdio client of `zen_client` cannot connect: connecting calls a method that
asks for the connected flag (`client.py:291` and `409`). The message router
cannot either. `ZenMCPClient.health_check` never reports FAILED
(`mcp_client.py:1176`), so `MCPConnectionManager` never reconnects; overlapping
connects leak a session or close each other's. `ConnectionPool` waits for a
returned connection while it holds the lock that a release needs
(`performance_optimizer.py:621`).

## What is not modelled

Within the modelled components: totals, rates, log lines and reports, which no
decision reads; the contents of answers and events; the arithmetic of failure
ratios, which becomes a choice among the patterns the ratios allow; the registry
of breakers and the process-wide collector; what discovery finds, the choice of
models, notifications and reports of the rotation; the collections of a vector
store, its metrics and its factory. The lengths of the Zen retries' sleeps, of
the router's and of the chain's backoff are left open.

Other components: agents are stateless and their registry is filled at import;
authentication, roles and the database layer leave concurrency to PostgreSQL;
query processing is a sequential pipeline whose behaviour is its data; A/B
testing and analytics are statistics in floating point; the UI and the HTTP
handlers call what is modelled here. The parallel executor runs simulated
subagents, the connection pool and the batcher are used by tests alone, and
behind the stdio client and the message router nothing can run. The greater part
of the repository's lines are such code: pages, reports, prompts, scripts and
tests. `PROJECT.json` says so component by component.

## The plan

Modules are written in order of how much of the system depends on them and how
hard their interleavings are to test.

Done:

1. `CircuitGate`, `CircuitBreaker`, `CircuitBreakerProofs`
2. `FallbackBreaker`, `FallbackBreakerProofs`
3. `FallbackChain`, `FallbackChainProofs`
4. `HealthMonitoring`, proved about in `CircuitBreakerProofs`
5. `MetricsCollector`, `MetricsCollectorProofs`
6. `ZenResilience`, `ZenResilienceProofs`
7. `HybridRouter`, `McpIntegrationProofs`
8. `ConnectionBridge`, proved about in `McpIntegrationProofs`
9. `TokenRotation`, `TokenRotationProofs`
10. `VectorStore`, `VectorStoreProofs`

To do:

11. The session of `ZenMCPClient` under overlapping connects and disconnects,
    with `MCPConnectionManager`; abstractly a session that at most one owner
    closes.
12. The loader's sessions interleaved at their awaits, with end and user
    commands in between.

## Running the checks

From this directory:

    tlc -workers 2 -config MCCircuitBreaker.cfg MCCircuitBreaker
    tlapm CircuitBreakerProofs.tla

The longest runs are `vectors`, about a minute and a half, and `router`, about a
minute; most of the others take less than half of one. A proof module takes
between a few seconds and some minutes from nothing.
