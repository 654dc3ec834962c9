----------------------- MODULE MetricsCollectorProofs -----------------------
(***************************************************************************)
(* Between the recorders and the store the collector neither loses nor     *)
(* duplicates an event (the store does lose): proofs of its safety         *)
(* invariants for any set of events and any batch size, and of the way     *)
(* events take from the buffer to the store.                               *)
(***************************************************************************)
EXTENDS MetricsCollector, FiniteSetTheorems, TLAPS

\* Events that have left memory and events still in it are kept apart: what a
\* step takes from the buffer or a batch is nowhere else.
IInv ==
    /\ TypeOK
    /\ IsFiniteSet(buffer)
    /\ Accounted
    /\ InOnePlace
    /\ stopper # "idle" => shutdown
    /\ StopFlushes

\* A flush empties the buffer, which is below a batch whatever the batch size.
LEMMA EmptyIsSmall == IsFiniteSet({}) /\ Cardinality({}) < BatchSize
BY FS_EmptySet, CollectorAssumption

LEMMA Initially == Init => IInv
<1> SUFFICES ASSUME Init PROVE IInv
    OBVIOUS
<1>1. TypeOK
  BY EmptyIsSmall DEF Init, TypeOK
<1>2. IsFiniteSet(buffer)
  BY EmptyIsSmall DEF Init
<1>3. Accounted /\ InOnePlace /\ StopFlushes
  BY DEF Init, Accounted, InOnePlace, StopFlushes
<1> QED BY <1>1, <1>2, <1>3 DEF IInv, Init

\* What storing a batch of recorded events does to the two sets it may end in.
LEMMA StoringKeeps ==
    ASSUME IInv, NEW batch \in SUBSET recorded, StoreBatch(batch)
    PROVE  /\ stored' \subseteq recorded /\ dropped' \subseteq recorded
           /\ stored' \union dropped' = stored \union dropped \union batch
           /\ batch \intersect (stored \union dropped) = {}
              => stored' \intersect dropped' = {}
BY DEF StoreBatch, IInv, TypeOK, InOnePlace

LEMMA FlushKeeps ==
    ASSUME IInv, FlushEvents, UNCHANGED <<store_up, shutdown>>,
           flush_task' \in {"none", "sleeping", "done"},
           stopper' \in {stopper, "returned"},
           stopper' # "idle" => shutdown'
    PROVE  IInv'
<1>1. /\ buffer' = {} /\ UNCHANGED <<recorded, late, batches>>
      /\ StoreBatch(buffer) /\ buffer \subseteq recorded
  BY DEF FlushEvents, BufferAfterFlush, IInv, TypeOK
<1>2. buffer \intersect (stored \union dropped) = {}
  BY DEF IInv, InOnePlace
<1>3. /\ stored' \subseteq recorded /\ dropped' \subseteq recorded
      /\ stored' \union dropped' = stored \union dropped \union buffer
      /\ stored' \intersect dropped' = {}
  BY <1>1, <1>2, StoringKeeps
<1>4. TypeOK'
  BY <1>1, <1>3, EmptyIsSmall DEF IInv, TypeOK
<1>5. Accounted'
  BY <1>1, <1>3 DEF IInv, Accounted
<1>6. InOnePlace'
  BY <1>1, <1>3 DEF IInv, InOnePlace
<1> QED BY <1>1, <1>4, <1>5, <1>6, EmptyIsSmall DEF IInv, StopFlushes

LEMMA RecordKeeps == ASSUME IInv, NEW e \in Events, Record(e) PROVE IInv'
<1>1. /\ e \notin recorded /\ recorded' = recorded \union {e}
      /\ late' \subseteq recorded' /\ late \subseteq late'
      /\ shutdown => late' = late \union {e}
      /\ UNCHANGED <<stored, dropped, store_up, life>>
  BY DEF Record, IInv, TypeOK
<1>2. /\ e \notin buffer \union (UNION batches) \union stored \union dropped
      /\ buffer \subseteq recorded /\ batches \subseteq SUBSET recorded
  BY <1>1 DEF IInv, Accounted, TypeOK
<1>3. CASE IsFull(buffer \union {e})
  <2>1. buffer' = {} /\ batches' = batches \union {buffer \union {e}}
    BY <1>3 DEF Record, HandedOver
  <2>2. TypeOK'
    BY <1>1, <1>2, <2>1, EmptyIsSmall DEF IInv, TypeOK, life
  <2>3. Accounted'
    <3>1. (UNION batches') = (UNION batches) \union buffer \union {e}
      BY <2>1
    <3> QED BY <1>1, <2>1, <3>1 DEF IInv, Accounted
  <2>4. InOnePlace'
    <3>1. \A b \in batches : b \intersect (buffer \union {e}) = {}
      BY <1>2 DEF IInv, InOnePlace
    <3>2. \A b, c \in batches' : b # c => b \intersect c = {}
      BY <2>1, <3>1 DEF IInv, InOnePlace
    <3>3. (UNION batches') = (UNION batches) \union buffer \union {e}
      BY <2>1
    <3> QED BY <1>1, <1>2, <2>1, <3>2, <3>3 DEF IInv, InOnePlace
  <2> QED BY <1>1, <2>1, <2>2, <2>3, <2>4, EmptyIsSmall DEF IInv, StopFlushes, life
<1>4. CASE ~IsFull(buffer \union {e})
  <2>1. buffer' = buffer \union {e} /\ batches' = batches
    BY <1>4 DEF Record
  <2>2. IsFiniteSet(buffer') /\ Cardinality(buffer') < BatchSize
    <3>1. IsFiniteSet(buffer')
      BY <2>1, FS_AddElement DEF IInv
    <3>2. Cardinality(buffer') \in Nat
      BY <3>1, FS_CardinalityType
    <3> QED BY <1>4, <2>1, <3>1, <3>2, CollectorAssumption DEF IsFull
  <2>3. TypeOK'
    BY <1>1, <1>2, <2>1, <2>2 DEF IInv, TypeOK, life
  <2>4. Accounted'
    BY <1>1, <2>1 DEF IInv, Accounted
  <2>5. InOnePlace'
    BY <1>1, <1>2, <2>1 DEF IInv, InOnePlace
  <2> QED BY <1>1, <2>1, <2>2, <2>3, <2>4, <2>5 DEF IInv, StopFlushes, life
<1> QED BY <1>3, <1>4

LEMMA RunBatchKeeps ==
    ASSUME IInv, NEW batch \in batches, RunBatch(batch) PROVE IInv'
<1>1. /\ batches' = batches \ {batch} /\ StoreBatch(batch)
      /\ batch \subseteq recorded
      /\ UNCHANGED <<recorded, late, buffer, store_up, life>>
  BY DEF RunBatch, IInv, TypeOK
<1>2. /\ batch \intersect (stored \union dropped) = {}
      /\ batch \intersect (buffer \union (UNION batches')) = {}
      /\ (UNION batches) = batch \union (UNION batches')
  BY <1>1 DEF IInv, InOnePlace
<1>3. /\ stored' \subseteq recorded /\ dropped' \subseteq recorded
      /\ stored' \union dropped' = stored \union dropped \union batch
      /\ stored' \intersect dropped' = {}
  BY <1>1, <1>2, StoringKeeps
<1>4. TypeOK'
  BY <1>1, <1>3 DEF IInv, TypeOK, life
<1>5. Accounted'
  BY <1>1, <1>2, <1>3 DEF IInv, Accounted
<1>6. InOnePlace'
  BY <1>1, <1>2, <1>3 DEF IInv, InOnePlace
<1> QED BY <1>1, <1>4, <1>5, <1>6 DEF IInv, StopFlushes, life

LEMMA StepKeeps == IInv /\ [Next]_vars => IInv'
<1> SUFFICES ASSUME IInv, [Next]_vars PROVE IInv'
    OBVIOUS
<1>1. ASSUME NEW e \in Events, Record(e) PROVE IInv'
  BY <1>1, RecordKeeps
<1>2. ASSUME NEW batch \in batches, RunBatch(batch) PROVE IInv'
  BY <1>2, RunBatchKeeps
<1>3. CASE FlushOnRequest
  BY <1>3, FlushKeeps DEF FlushOnRequest, life, IInv, TypeOK
<1>4. CASE BackgroundFlush
  <2>1. CASE Wakes
    BY <1>4, <2>1, FlushKeeps DEF BackgroundFlush, IInv, TypeOK
  <2>2. CASE ~Wakes
    BY <1>4, <2>2 DEF BackgroundFlush, events, IInv, TypeOK, Accounted, InOnePlace,
                      StopFlushes
  <2> QED BY <2>1, <2>2
<1>5. CASE EndStop
  <2>1. IInv /\ FlushEvents /\ stopper' = "returned"
        /\ UNCHANGED <<store_up, flush_task, shutdown>>
    BY <1>5 DEF EndStop, FinishStop
  <2> QED BY <1>5, <2>1, FlushKeeps DEF EndStop, IInv, TypeOK
<1>6. CASE Start \/ BeginStop
  <2>1. /\ UNCHANGED <<recorded, late, buffer, batches, stored, dropped, store_up>>
        /\ flush_task' \in {flush_task, "sleeping"}
        /\ shutdown' \in BOOLEAN /\ (shutdown => shutdown')
        /\ stopper' = stopper \/ (stopper' = "waiting" /\ shutdown')
    BY <1>6 DEF Start, BeginStop, events, IInv, TypeOK
  <2>2. TypeOK'
    BY <2>1 DEF IInv, TypeOK
  <2>3. Accounted' /\ InOnePlace'
    BY <2>1 DEF IInv, Accounted, InOnePlace
  <2> QED BY <2>1, <2>2, <2>3 DEF IInv, StopFlushes
<1>7. CASE StoreChanges \/ StartIgnored \/ UNCHANGED vars
  BY <1>7 DEF StoreChanges, StartIgnored, vars, events, life, IInv, TypeOK, Accounted, InOnePlace,
              StopFlushes
<1> QED BY <1>1, <1>2, <1>3, <1>4, <1>5, <1>6, <1>7 DEF Next, Life

\* Every reachable state satisfies the inductive invariant.
THEOREM Invariance == Spec => []IInv
BY Initially, StepKeeps, PTL DEF Spec

\* The collector's variables keep their types, the buffer below a whole batch.
THEOREM TypeCorrect == Spec => []TypeOK
<1>1. IInv => TypeOK
  BY DEF IInv
<1> QED BY <1>1, Invariance, PTL

\* However recorders, flushes and batches meet, no event is in two of them, nor
\* lost before it reaches the store: each is handed to the store once.
THEOREM NothingTwice == Spec => []WrittenOnce
<1>1. IInv => WrittenOnce
  BY DEF IInv, WrittenOnce
<1> QED BY <1>1, Invariance, PTL

\* After stop() only later events can be left in the buffer.
THEOREM StopLeavesNothing == Spec => []StopFlushes
<1>1. IInv => StopFlushes
  BY DEF IInv
<1> QED BY <1>1, Invariance, PTL

-----------------------------------------------------------------------------
(* Events move on.                                                         *)

\* An event has left memory: it is stored, or was dropped by a store that failed.
Settled(e) == e \in stored \union dropped

\* From the buffer an event goes into a batch or is settled, from a batch it is
\* settled, and there it stays, a row written for good; and the background loop
\* that wakes up settles all that is buffered.
MovesOn ==
    \A e \in recorded :
        /\ e \in buffer => e \in buffer' \/ e \in UNION batches' \/ Settled(e)'
        /\ e \in UNION batches => (e \in UNION batches' \/ Settled(e)') /\ e \notin buffer'
        /\ Settled(e) => Settled(e)' /\ e \notin buffer' \union UNION batches'
        /\ e \in stored => e \in stored'
        /\ BackgroundFlush /\ ~shutdown /\ e \in buffer => Settled(e)'

EventsMoveOn == [][MovesOn]_vars

\* What is stored settles, and nothing else changes its place.
LEMMA StoringSettles ==
    ASSUME NEW batch, StoreBatch(batch)
    PROVE  /\ stored \subseteq stored' /\ dropped \subseteq dropped'
           /\ batch \subseteq stored' \union dropped'
BY DEF StoreBatch

LEMMA FlushMovesOn == ASSUME IInv, FlushEvents PROVE MovesOn
<1>1. buffer' = {} /\ batches' = batches /\ StoreBatch(buffer)
  BY DEF FlushEvents, BufferAfterFlush
<1>2. (buffer \union (UNION batches)) \intersect (stored \union dropped) = {}
  BY DEF IInv, InOnePlace
<1> QED BY <1>1, <1>2, StoringSettles DEF MovesOn, Settled

LEMMA RecordMovesOn == ASSUME IInv, NEW e \in Events, Record(e) PROVE MovesOn
<1>1. /\ e \notin recorded /\ UNCHANGED <<stored, dropped, life>>
  BY DEF Record
<1>2. (buffer \union (UNION batches)) \intersect (stored \union dropped) = {}
      /\ buffer \intersect (UNION batches) = {}
  BY DEF IInv, InOnePlace
<1>3. ~(BackgroundFlush /\ ~shutdown /\ buffer # {})
  <2> SUFFICES ASSUME BackgroundFlush, ~shutdown, buffer # {} PROVE FALSE
    OBVIOUS
  <2>1. FlushEvents
    BY DEF BackgroundFlush, Wakes
  <2>2. recorded' = recorded
    BY <2>1 DEF FlushEvents
  <2> QED BY <1>1, <2>2 DEF Record
<1>4. CASE buffer' = {} /\ batches' = batches \union {buffer \union {e}}
  <2>1. (UNION batches') = (UNION batches) \union buffer \union {e}
    BY <1>4
  <2> QED BY <1>1, <1>2, <1>3, <1>4, <2>1 DEF MovesOn, Settled
<1>5. CASE buffer' = buffer \union {e} /\ UNCHANGED batches
  BY <1>1, <1>2, <1>3, <1>5 DEF MovesOn, Settled
<1> QED BY <1>4, <1>5 DEF Record, HandedOver

LEMMA RunBatchMovesOn == ASSUME IInv, NEW batch \in batches, RunBatch(batch) PROVE MovesOn
<1>1. batches' = batches \ {batch} /\ StoreBatch(batch) /\ buffer' = buffer
  BY DEF RunBatch
<1>2. /\ (buffer \union (UNION batches)) \intersect (stored \union dropped) = {}
      /\ buffer \intersect (UNION batches) = {}
  BY DEF IInv, InOnePlace
<1>3. (UNION batches') \subseteq (UNION batches)
      /\ \A e \in UNION batches : e \in UNION batches' \/ e \in batch
  BY <1>1
<1>4. ~(BackgroundFlush /\ ~shutdown /\ buffer # {})
  <2> SUFFICES ASSUME BackgroundFlush, ~shutdown, buffer # {} PROVE FALSE
    OBVIOUS
  <2> QED BY <1>1 DEF BackgroundFlush, Wakes, FlushEvents, BufferAfterFlush
<1> QED BY <1>1, <1>2, <1>3, <1>4, StoringSettles DEF MovesOn, Settled

\* Events leave memory in one direction: no flush, batch, stop or failing store
\* puts one back into the buffer, where a second flush would write it again, and
\* no row is ever taken out.  This is the safety half of Drains.
THEOREM EventsGoOneWay == Spec => EventsMoveOn
<1>1. ASSUME IInv, [Next]_vars PROVE MovesOn
  <2>1. CASE FlushOnRequest \/ EndStop
    BY <1>1, <2>1, FlushMovesOn DEF FlushOnRequest, EndStop, FinishStop
  <2>2. CASE BackgroundFlush /\ Wakes
    BY <1>1, <2>2, FlushMovesOn DEF BackgroundFlush
  <2>3. ASSUME UNCHANGED events, ~(BackgroundFlush /\ ~shutdown) PROVE MovesOn
    BY <1>1, <2>3 DEF events, MovesOn, Settled, IInv, InOnePlace
  <2>4. CASE BackgroundFlush /\ ~Wakes
    BY <2>3, <2>4 DEF BackgroundFlush, Wakes
  <2>5. CASE Start \/ StartIgnored \/ BeginStop \/ StoreChanges \/ UNCHANGED vars
    <3>1. UNCHANGED events
      BY <2>5 DEF Start, StartIgnored, BeginStop, StoreChanges, vars
    <3>2. CASE BackgroundFlush /\ ~shutdown
      BY <1>1, <3>2, FlushMovesOn DEF BackgroundFlush, Wakes
    <3> QED BY <2>3, <3>1, <3>2
  <2> QED BY <1>1, <2>1, <2>2, <2>4, <2>5, RecordMovesOn, RunBatchMovesOn DEF Next, Life
<1>2. IInv /\ [Next]_vars => [MovesOn]_vars
  BY <1>1
<1> QED BY <1>2, Invariance, PTL DEF Spec, EventsMoveOn

=============================================================================
