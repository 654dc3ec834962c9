---------------------------- MODULE VectorStore ----------------------------
(***************************************************************************)
(* The stores HyDE searches (src/core/vector_store.py), with the circuit   *)
(* breaker each has, behind the cache of answers they share                *)
(* (src/core/performance_optimizer.py).                                    *)
(*                                                                         *)
(* The Qdrant client is synchronous, so that what a QdrantVectorStore does *)
(* is one step.  An EnhancedMockVectorStore sleeps in the middle of a      *)
(* search and of an insertion, and other requests run meanwhile.           *)
(***************************************************************************)
EXTENDS Integers, Sequences, FiniteSets, Functions

CONSTANTS
    Clients,    \* tasks that use the stores
    Qdrant,     \* instances of QdrantVectorStore, clients of one server
    Mocks,      \* instances of EnhancedMockVectorStore
    Server,     \* where the documents of the Qdrant stores are
    Docs,       \* [id, collection, score]: the score for every search
    Queries,    \* [collection, threshold]: searches alike in limit, strategy,
                \* filters and the first ten dimensions of the embedding
    Threshold,  \* CIRCUIT_BREAKER_THRESHOLD
    MaxCache,   \* MAX_CACHE_SIZE
    TTL         \* CACHE_TTL_SECONDS, in ticks

ASSUME StoreAssumption ==
    /\ Qdrant \intersect Mocks = {}
    /\ Server \notin Mocks
    /\ Threshold \in Nat \ {0}
    /\ MaxCache \in Nat \ {0}
    /\ TTL \in Nat
    /\ \A d \in Docs : d.score \in Nat
    /\ \A q \in Queries : q.threshold \in Nat

VARIABLES
    connected,  \* the Qdrant stores with a client
    content,    \* the documents at each place
    failures,   \* _circuit_breaker_failures
    open,       \* the stores with _circuit_breaker_open
    cache,      \* _vector_cache, least recently used first
    task        \* the operation each client has in flight, at a mock

breaker == <<failures, open>>
vars    == <<connected, content, breaker, cache, task>>

Stores   == Qdrant \union Mocks
Places   == Mocks \union {Server}
Place(s) == IF s \in Qdrant THEN Server ELSE s

\* Ids are unique in a mock, and in a collection of the server.
Clash(p, d, e) == d.id = e.id /\ (p = Server => d.collection = e.collection)
Contents(p) == { D \in SUBSET Docs : \A d, e \in D : Clash(p, d, e) => d = e }

Idle == [op |-> "idle"]
Tasks == {Idle} \union [op : {"search"}, store : Mocks, query : Queries]
                \union [op : {"insert"}, store : Mocks, docs : SUBSET Docs]

Init ==
    /\ connected = {}
    /\ content \in [Places -> SUBSET Docs]
    /\ \A p \in Places : content[p] \in Contents(p)
    /\ failures = [s \in Stores |-> 0]
    /\ open = {}
    /\ cache = <<>>
    /\ task = [c \in Clients |-> Idle]

-----------------------------------------------------------------------------
(* The circuit breaker of a store. *)

\* The reset of line 295 needs an open breaker with few failures.
Lets(s) == s \notin open \/ failures[s] < Threshold

Consult(s) ==
    /\ Lets(s)
    /\ open' = open \ {s}
    /\ UNCHANGED failures

\* As a success that only lowers the count would be.
Succeed_Fault(s) ==
    /\ failures' = [failures EXCEPT ![s] = IF @ = 0 THEN 0 ELSE @ - 1]
    /\ UNCHANGED open
Succeed(s) ==
    /\ failures' = [failures EXCEPT ![s] = IF @ = 0 THEN 0 ELSE @ - 1]
    /\ open' = open \ {s}

\* was are the breakers open before.
Fail(s, was) ==
    /\ failures' = [failures EXCEPT ![s] = @ + 1]
    /\ open' = IF failures'[s] >= Threshold THEN was \union {s} ELSE was

-----------------------------------------------------------------------------
(* The cache. *)

\* Neither the store nor the threshold is in the key.
Key(q) == q.collection

Live(e) == e.age <= TTL

\* What is left of a sequence when only the entries of S are kept, in their
\* order.  (SelectSeq says the same, but takes an operator, which no proof about
\* it can instantiate.)
Kept(entries, S) ==
    LET kept[n \in 0..Len(entries)] ==
            IF n = 0 THEN <<>>
            ELSE IF entries[n] \in S THEN Append(kept[n - 1], entries[n]) ELSE kept[n - 1]
    IN  kept[Len(entries)]

LiveOnes(entries)  == Kept(entries, { e \in Range(entries) : Live(e) })
Those(entries, k)  == Kept(entries, { e \in Range(entries) : e.key = k })
Others(entries, k) == Kept(entries, { e \in Range(entries) : e.key # k })

\* What get leaves: the expired are gone, the entry it finds is the last.  A
\* get that renews the entry it finds is the fault.
Got_Fault(k) ==
    LET found == Those(LiveOnes(cache), k)
    IN  Others(LiveOnes(cache), k) \o [i \in DOMAIN found |-> [found[i] EXCEPT !.age = 0]]
Got(k) == Others(LiveOnes(cache), k) \o Those(LiveOnes(cache), k)

\* put, with the least recently used evicted when there is no room.
Put_Fault(entries, k, answer) ==
    LET others == Others(entries, k)
        full == others = entries /\ Len(entries) > MaxCache
    IN  Append(IF full THEN Tail(entries) ELSE others,
               [key |-> k, answer |-> answer, age |-> 0])
Put(entries, k, answer) ==
    LET others == Others(entries, k)
        full == others = entries /\ Len(entries) >= MaxCache
    IN  Append(IF full THEN Tail(entries) ELSE others,
               [key |-> k, answer |-> answer, age |-> 0])

\* An empty answer is cached too, but is no hit (line 435).
Hit(e, q) == Live(e) /\ e.key = Key(q) /\ e.answer # {}
Misses(q) == \A e \in Range(cache) : ~Hit(e, q)

-----------------------------------------------------------------------------
(* Searches. *)

InCollection(p, q) == { d \in content[p] : d.collection = q.collection }
Answer(p, q) == { d \in InCollection(p, q) : d.score >= q.threshold }

\* The cache comes before the client and the breaker of the store are looked at.
SearchHits(q) ==
    /\ \E e \in Range(cache) : Hit(e, q)
    /\ cache' = Got(Key(q))
    /\ UNCHANGED <<connected, content, breaker, task>>

\* No client, or an open breaker: the answer is empty, and cached.
SearchRefused(s, q) ==
    /\ Misses(q)
    /\ (s \in Qdrant /\ s \notin connected) \/ ~Lets(s)
    /\ cache' = Put(Got(Key(q)), Key(q), {})
    /\ UNCHANGED <<connected, content, breaker, task>>

QdrantSearches(s, q) ==
    /\ Misses(q)
    /\ s \in connected
    /\ Lets(s)
    /\ cache' = Put(Got(Key(q)), Key(q), Answer(Server, q))
    /\ Succeed(s)
    /\ UNCHANGED <<connected, content, task>>

QdrantSearchFails(s, q) ==
    /\ Misses(q)
    /\ s \in connected
    /\ Lets(s)
    /\ cache' = Got(Key(q))
    /\ Fail(s, open \ {s})
    /\ UNCHANGED <<connected, content, task>>

MockSearchBegins(c, s, q) ==
    /\ task[c] = Idle
    /\ Misses(q)
    /\ Consult(s)
    /\ cache' = Got(Key(q))
    /\ task' = [task EXCEPT ![c] = [op |-> "search", store |-> s, query |-> q]]
    /\ UNCHANGED <<connected, content>>

\* A search of an empty collection is neither a success nor a failure.
MockSearches(c) ==
    LET s == task[c].store
        q == task[c].query
    IN  /\ task[c].op = "search"
        /\ cache' = Put(cache, Key(q), Answer(s, q))
        /\ IF InCollection(s, q) = {} THEN UNCHANGED breaker ELSE Succeed(s)
        /\ task' = [task EXCEPT ![c] = Idle]
        /\ UNCHANGED <<connected, content>>

MockSearchFails(c) ==
    /\ task[c].op = "search"
    /\ Fail(task[c].store, open)
    /\ task' = [task EXCEPT ![c] = Idle]
    /\ UNCHANGED <<connected, content, cache>>

-----------------------------------------------------------------------------
(* Changes of the documents; none of them touches the cache. *)

Batches(p) == Contents(p) \ {{}}

Store(p, docs) ==
    content' = [content EXCEPT ![p] =
        docs \union { e \in @ : \A d \in docs : ~Clash(p, d, e) }]

\* Collections fail one by one, and the operation succeeds nevertheless.
QdrantInserts(s, docs, failed) ==
    /\ s \in connected
    /\ Lets(s)
    /\ Store(Server, { d \in docs : d.collection \notin failed })
    /\ Succeed(s)
    /\ UNCHANGED <<connected, cache, task>>

MockInsertBegins(c, s, docs) ==
    /\ task[c] = Idle
    /\ Consult(s)
    /\ task' = [task EXCEPT ![c] = [op |-> "insert", store |-> s, docs |-> docs]]
    /\ UNCHANGED <<connected, content, cache>>

MockInserts(c) ==
    /\ task[c].op = "insert"
    /\ \E done \in SUBSET task[c].docs : Store(task[c].store, done)
    /\ Succeed(task[c].store)
    /\ task' = [task EXCEPT ![c] = Idle]
    /\ UNCHANGED <<connected, cache>>

\* Neither the breaker nor, at a mock, the connection is looked at.  A mock
\* updates only what it has.
Update(s, d) ==
    /\ s \in Qdrant => s \in connected
    /\ s \in Mocks => \E e \in content[s] : e.id = d.id
    /\ Store(Place(s), {d})
    /\ UNCHANGED <<connected, breaker, cache, task>>

Delete(s, d) ==
    /\ s \in Qdrant => s \in connected
    /\ d \in content[Place(s)]
    /\ content' = [content EXCEPT ![Place(s)] = @ \ {d}]
    /\ UNCHANGED <<connected, breaker, cache, task>>

-----------------------------------------------------------------------------

\* A client is there after a failed test of the connection as well.
Connect(s) ==
    /\ connected' = connected \union {s}
    /\ UNCHANGED <<content, breaker, cache, task>>

Disconnect(s) ==
    /\ s \in connected
    /\ connected' = connected \ {s}
    /\ UNCHANGED <<content, breaker, cache, task>>

Tick ==
    /\ \E e \in Range(cache) : Live(e)
    /\ cache' = [i \in DOMAIN cache |->
                    IF Live(cache[i]) THEN [cache[i] EXCEPT !.age = @ + 1] ELSE cache[i]]
    /\ UNCHANGED <<connected, content, breaker, task>>

Search(s) ==
    \E q \in Queries :
        \/ SearchHits(q)
        \/ SearchRefused(s, q)
        \/ QdrantSearches(s, q)
        \/ QdrantSearchFails(s, q)
        \/ s \in Mocks /\ \E c \in Clients : MockSearchBegins(c, s, q)

Finish(c) == MockSearches(c) \/ MockSearchFails(c) \/ MockInserts(c)

Write(s) ==
    \/ \E docs \in Batches(Server), failed \in SUBSET { d.collection : d \in Docs } :
           QdrantInserts(s, docs, failed)
    \/ \E c \in Clients, docs \in Batches(s) : s \in Mocks /\ MockInsertBegins(c, s, docs)
    \/ \E d \in Docs : Update(s, d) \/ Delete(s, d)

Next ==
    \/ \E s \in Stores : Search(s) \/ Write(s)
    \/ \E c \in Clients : Finish(c)
    \/ \E s \in Qdrant : Connect(s) \/ Disconnect(s)
    \/ Tick

Spec == Init /\ [][Next]_vars

\* Tasks run, time passes, and every store is searched again and again.
FairSpec ==
    /\ Spec
    /\ \A c \in Clients : WF_vars(Finish(c))
    /\ \A s \in Stores : WF_vars(Search(s))
    /\ WF_vars(Tick)

-----------------------------------------------------------------------------
(* Properties. *)

\* The variables have values of their types; a place has no two documents of one
\* id, and the cache no two entries of one key, nor more than MaxCache.
TypeOK ==
    /\ connected \subseteq Qdrant
    /\ \A p \in Places : content[p] \in Contents(p)
    /\ failures \in [Stores -> Nat]
    /\ open \subseteq Stores
    /\ Range(cache) \subseteq
           [key : { Key(q) : q \in Queries }, answer : SUBSET Docs, age : 0..TTL + 1]
    /\ Len(cache) = Cardinality({ e.key : e \in Range(cache) })
    /\ Len(cache) <= MaxCache
    /\ task \in [Clients -> Tasks]

\* vector_store.py:295 resets an open breaker with fewer failures than the
\* threshold.  Although stores are searched concurrently, and a success both
\* lowers the count and closes the breaker, there never is one: with nothing in
\* flight, an open breaker stays open.
OpenHasFailures == \A s \in open : failures[s] >= Threshold

True(e) == \E p \in Places, q \in Queries : Key(q) = e.key /\ e.answer = Answer(p, q)
StaleHit == \E q \in Queries : SearchHits(q) /\ \E e \in Range(cache) : Hit(e, q) /\ ~True(e)

\* No change of the documents reaches the cache, and a search that began before
\* one may end after it; but once the documents stay as they are, a cached
\* answer is, sooner or later, always what a search of some store finds, even
\* if it is asked for without a pause (line 129).
FreshAfterCalm ==
    <>[][content' = content]_vars => <>[][~StaleHit]_vars

Failing == \E s \in Stores, q \in Queries : QdrantSearchFails(s, q)
Faulty  == Failing \/ \E c \in Clients : MockSearchFails(c)

\* docs/vector-store-integration-guide.md:280 "Automatic recovery attempts are
\* made periodically": an open breaker closes some time after the last failure,
\* every store being searched for ever (line 295).
Recovers ==
    <>[][~Faulty]_vars => \A s \in Stores : s \in open ~> s \notin open

=============================================================================
