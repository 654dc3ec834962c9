-------------------------- MODULE MetricsCollector --------------------------
(***************************************************************************)
(* MetricsCollector of src/metrics/collector.py with the store it writes   *)
(* to (src/metrics/storage.py): events are buffered and written in         *)
(* batches, when the buffer is full, by a background loop, or on request.  *)
(*                                                                         *)
(* The collector's coroutines share one event loop and nothing suspends    *)
(* while the buffer lock is held, nor while the store writes, so recording *)
(* and flushing are one step each.  What interleaves are the batches       *)
(* handed to tasks of their own, the background loop and stop().           *)
(***************************************************************************)
EXTENDS Integers, FiniteSets

CONSTANTS
    Events,       \* the events that are ever recorded
    BatchSize     \* _batch_size, 10

ASSUME CollectorAssumption == BatchSize \in Nat \ {0}

VARIABLES
    recorded,     \* auxiliary: the events recorded so far
    late,         \* auxiliary: those recorded after stop() was called
    buffer,       \* _event_buffer
    batches,      \* the batches handed to tasks that have not run yet
    stored,       \* the rows of metric_events
    dropped,      \* auxiliary: events of batches that could not be stored
    store_up,     \* the database can be written
    flush_task,   \* _flush_task: "none", "sleeping" or "done"
    shutdown,     \* _shutdown
    stopper       \* the caller of stop(): "idle", "waiting" or "returned"

events == <<recorded, late, buffer, batches, stored, dropped>>
life   == <<flush_task, shutdown, stopper>>
vars   == <<events, store_up, life>>

Init ==
    /\ recorded = {} /\ late = {} /\ buffer = {} /\ batches = {}
    /\ stored = {} /\ dropped = {}
    /\ store_up = TRUE
    /\ flush_task = "none" /\ shutdown = FALSE /\ stopper = "idle"

-----------------------------------------------------------------------------
(* (Definitions named ..._Fault are the code with one plausible mistake;   *)
(* nothing uses them.)                                                     *)

\* store_events_batch: one transaction; an exception is caught and reported
\* as 0 stored rows, never raised, so the collector takes nothing back.
StoreBatch(batch) ==
    IF store_up THEN stored' = stored \union batch /\ UNCHANGED dropped
                ELSE dropped' = dropped \union batch /\ UNCHANGED stored

\* flush_events, after which the buffer is empty.
BufferAfterFlush_Fault == buffer
BufferAfterFlush == {}

FlushEvents ==
    /\ buffer' = BufferAfterFlush
    /\ StoreBatch(buffer)
    /\ UNCHANGED <<recorded, late, batches>>

IsFull_Fault(b) == Cardinality(b) > BatchSize
IsFull(b) == Cardinality(b) >= BatchSize

\* The copy of the buffer that is handed to a task.
HandedOver_Fault(e) == buffer
HandedOver(e) == buffer \union {e}

\* _add_event_to_buffer: a full buffer is handed to a task.
Record(e) ==
    /\ e \notin recorded
    /\ recorded' = recorded \union {e}
    /\ late' = IF shutdown THEN late \union {e} ELSE late
    /\ IF IsFull(buffer \union {e})
       THEN buffer' = {} /\ batches' = batches \union {HandedOver(e)}
       ELSE buffer' = buffer \union {e} /\ UNCHANGED batches
    /\ UNCHANGED <<stored, dropped, store_up, life>>

\* _flush_events_batch
RunBatch(batch) ==
    /\ batch \in batches
    /\ batches' = batches \ {batch}
    /\ StoreBatch(batch)
    /\ UNCHANGED <<recorded, late, buffer, store_up, life>>

\* get_current_metrics, or a caller of flush_events
FlushOnRequest == FlushEvents /\ UNCHANGED <<store_up, life>>

-----------------------------------------------------------------------------
(* The background loop, start() and stop().                                *)

Start ==
    /\ flush_task = "none"
    /\ flush_task' = "sleeping"
    /\ UNCHANGED <<events, store_up, shutdown, stopper>>

\* A task that is remembered, ended or not, is not replaced: once stopped, a
\* collector cannot be started again.
StartIgnored == flush_task # "none" /\ UNCHANGED vars

Wakes_Fault == FALSE
Wakes == ~shutdown

BackgroundFlush ==
    /\ flush_task = "sleeping"
    /\ IF Wakes THEN FlushEvents /\ UNCHANGED flush_task
                ELSE flush_task' = "done" /\ UNCHANGED events
    /\ UNCHANGED <<store_up, shutdown, stopper>>

BeginStop ==
    /\ stopper # "waiting"
    /\ shutdown' = TRUE
    /\ stopper' = "waiting"
    /\ UNCHANGED <<events, store_up, flush_task>>

FinishStop_Fault ==
    /\ UNCHANGED <<events, shutdown, store_up, flush_task>>
    /\ stopper' = "returned"

\* stop() has waited for the background loop, if there is one, and flushes.
\* (Cancelling its caller ends the loop sooner and is swallowed.)
FinishStop ==
    /\ FlushEvents
    /\ stopper' = "returned"
    /\ UNCHANGED <<store_up, flush_task, shutdown>>

EndStop ==
    /\ stopper = "waiting"
    /\ flush_task # "sleeping"
    /\ FinishStop

-----------------------------------------------------------------------------
StoreChanges ==
    /\ store_up' = ~store_up
    /\ UNCHANGED <<events, life>>

Life == Start \/ StartIgnored \/ BackgroundFlush \/ BeginStop \/ EndStop

Next ==
    \/ \E e \in Events : Record(e)
    \/ \E batch \in batches : RunBatch(batch)
    \/ FlushOnRequest \/ Life \/ StoreChanges

Spec == Init /\ [][Next]_vars

\* The event loop runs the tasks it was given and the background loop wakes up
\* after each interval; nothing makes anyone record, start, stop or flush.
FairSpec ==
    /\ Spec
    /\ WF_vars(\E batch \in batches : RunBatch(batch))
    /\ WF_vars(BackgroundFlush)
    /\ WF_vars(EndStop)

-----------------------------------------------------------------------------
(* Properties.                                                             *)

\* Sets of events, of which the buffer never holds a whole batch however
\* flushes and recorders meet, and the states of the loop and of stop().
TypeOK ==
    /\ recorded \subseteq Events /\ late \subseteq recorded
    /\ {buffer, stored, dropped} \subseteq SUBSET recorded
    /\ Cardinality(buffer) < BatchSize
    /\ batches \subseteq SUBSET recorded
    /\ {store_up, shutdown} \subseteq BOOLEAN
    /\ flush_task \in {"none", "sleeping", "done"}
    /\ stopper \in {"idle", "waiting", "returned"}

\* A full buffer is handed to a task of its own (line 311) while others record
\* and flush.  No event comes into two batches, or stays buffered while a batch
\* has it, so that none is written twice; and none gets lost on the way to the
\* store.  What the store itself fails to take is KeptForRetry's matter.
Accounted == recorded = buffer \union (UNION batches) \union stored \union dropped

InOnePlace ==
    /\ buffer \intersect (UNION batches) = {}
    /\ stored \intersect dropped = {}
    /\ (buffer \union (UNION batches)) \intersect (stored \union dropped) = {}
    /\ \A b, c \in batches : b # c => b \intersect c = {}

WrittenOnce == Accounted /\ InOnePlace

\* collector.py:294 "Return events to buffer on failure" and :319 "Re-add events
\* to buffer for retry": until it is stored, an event is buffered or in a batch.
\* It is not, as the failure these lines wait for is never raised (StoreBatch).
KeptForRetry == recorded \subseteq buffer \union (UNION batches) \union stored

\* Once stop() has returned, the only events that can
\* still be buffered are those recorded after it was called.
StopFlushes == stopper = "returned" => buffer \subseteq late

\* What a collector that has been started, and not yet stopped, records does not
\* stay in memory, whether or not it is stopped meanwhile.
Drains ==
    \A e \in Events :
        (e \in buffer \union (UNION batches) /\ flush_task = "sleeping" /\ ~shutdown)
        ~> e \in stored \union dropped

=============================================================================
