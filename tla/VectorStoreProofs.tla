------------------------- MODULE VectorStoreProofs -------------------------
(***************************************************************************)
(* VectorStore, for any stores, clients, documents, searches, threshold    *)
(* and size of the cache: first the breakers, then the operators on the    *)
(* sequence that is the cache, then the whole state.                       *)
(***************************************************************************)
EXTENDS VectorStore, FiniteSetTheorems, TLAPS

\* An operation in flight is at a mock.
Placed(c) == task[c].op \in {"search", "insert"} => task[c].store \in Mocks

Counted == failures \in [Stores -> Nat] /\ open \subseteq Stores

IInv == Counted /\ OpenHasFailures /\ task = [c \in Clients |-> task[c]]
                /\ \A c \in Clients : Placed(c)

-----------------------------------------------------------------------------

LEMMA InitIInv == Init => IInv
BY DEF Init, IInv, Counted, OpenHasFailures, Placed, Idle

\* What the breaker of one store does keeps the breakers in order.
LEMMA ConsultKeeps ==
    ASSUME Counted, OpenHasFailures, NEW s \in Stores, Consult(s)
    PROVE  Counted' /\ OpenHasFailures'
BY DEF Counted, OpenHasFailures, Consult

LEMMA SucceedKeeps ==
    ASSUME Counted, OpenHasFailures, NEW s \in Stores, Succeed(s)
    PROVE  Counted' /\ OpenHasFailures'
<1>1. \A r \in Stores : failures[r] \in Nat
  BY DEF Counted
<1>2. (IF failures[s] = 0 THEN 0 ELSE failures[s] - 1) \in Nat
  BY <1>1
<1>3. Counted'
  BY <1>2 DEF Counted, Succeed
<1>4. \A r \in Stores \ {s} : failures'[r] = failures[r]
  BY DEF Counted, Succeed
<1> QED BY <1>3, <1>4 DEF Counted, OpenHasFailures, Succeed

\* Here the count and the breaker go up together.
LEMMA FailKeeps ==
    ASSUME Counted, OpenHasFailures, NEW s \in Stores, NEW was \in SUBSET open, Fail(s, was)
    PROVE  Counted' /\ OpenHasFailures'
<1>1. Threshold \in Nat /\ \A r \in Stores : failures[r] \in Nat
  BY StoreAssumption DEF Counted
<1>2. /\ failures' = [failures EXCEPT ![s] = failures[s] + 1]
      /\ open' = IF failures'[s] >= Threshold THEN was \union {s} ELSE was
  BY DEF Fail
<1>3. Counted'
  BY <1>1, <1>2 DEF Counted
<1>4. \A r \in Stores : failures'[r] >= failures[r] /\ failures'[r] \in Nat
  BY <1>1, <1>2 DEF Counted
<1>5. \A r \in was : failures'[r] >= Threshold
  BY <1>1, <1>4 DEF OpenHasFailures, Counted
<1> QED BY <1>2, <1>3, <1>5 DEF OpenHasFailures

-----------------------------------------------------------------------------

\* Steps of the clients at the mocks.
LEMMA TaskStep ==
    ASSUME IInv, NEW c \in Clients,
           \/ Finish(c)
           \/ \E s \in Mocks, q \in Queries : MockSearchBegins(c, s, q)
           \/ \E s \in Mocks : \E docs \in Batches(s) : MockInsertBegins(c, s, docs)
    PROVE  IInv'
<1>1. Mocks \subseteq Stores /\ Idle.op = "idle"
  BY DEF Stores, Idle
<1>2. ASSUME NEW t, task' = [task EXCEPT ![c] = t],
             t.op \in {"search", "insert"} => t.store \in Mocks,
             Counted', OpenHasFailures'
      PROVE  IInv'
  BY <1>2 DEF IInv, Placed
<1>3. CASE Finish(c)
  <2>1. task[c].store \in Stores
    BY <1>1, <1>3 DEF Finish, MockSearches, MockSearchFails, MockInserts, IInv, Placed
  <2>2. task' = [task EXCEPT ![c] = Idle]
    BY <1>3 DEF Finish, MockSearches, MockSearchFails, MockInserts
  <2>3. CASE MockSearches(c)
    BY <1>1, <1>2, <2>1, <2>2, <2>3, SucceedKeeps
       DEF MockSearches, breaker, IInv, Counted, OpenHasFailures
  <2>4. CASE MockSearchFails(c)
    BY <1>1, <1>2, <2>1, <2>2, <2>4, FailKeeps DEF MockSearchFails, IInv
  <2>5. CASE MockInserts(c)
    BY <1>1, <1>2, <2>1, <2>2, <2>5, SucceedKeeps DEF MockInserts, IInv
  <2> QED BY <1>3, <2>3, <2>4, <2>5 DEF Finish
<1>4. ASSUME NEW s \in Mocks, NEW q \in Queries, MockSearchBegins(c, s, q)
      PROVE  IInv'
  BY <1>1, <1>2, <1>4, ConsultKeeps DEF MockSearchBegins, IInv
<1>5. ASSUME NEW s \in Mocks, NEW docs \in Batches(s), MockInsertBegins(c, s, docs)
      PROVE  IInv'
  BY <1>1, <1>2, <1>5, ConsultKeeps DEF MockInsertBegins, IInv
<1> QED BY <1>3, <1>4, <1>5

LEMMA StoreStep ==
    ASSUME IInv, NEW s \in Stores, Search(s) \/ Write(s)
    PROVE  IInv'
<1>1. ASSUME task' = task, Counted', OpenHasFailures' PROVE IInv'
  BY <1>1 DEF IInv, Placed
<1>2. ASSUME UNCHANGED <<breaker, task>> PROVE IInv'
  BY <1>1, <1>2 DEF breaker, IInv, Counted, OpenHasFailures
<1>3. ASSUME NEW q \in Queries, SearchHits(q) \/ SearchRefused(s, q) PROVE IInv'
  BY <1>2, <1>3 DEF SearchHits, SearchRefused
<1>4. ASSUME NEW q \in Queries, QdrantSearches(s, q) PROVE IInv'
  BY <1>1, <1>4, SucceedKeeps DEF QdrantSearches, IInv
<1>5. ASSUME NEW q \in Queries, QdrantSearchFails(s, q) PROVE IInv'
  BY <1>1, <1>5, FailKeeps DEF QdrantSearchFails, IInv
<1>6. ASSUME NEW docs, NEW failed, QdrantInserts(s, docs, failed) PROVE IInv'
  BY <1>1, <1>6, SucceedKeeps DEF QdrantInserts, IInv
<1>7. ASSUME NEW d \in Docs, Update(s, d) \/ Delete(s, d) PROVE IInv'
  BY <1>2, <1>7 DEF Update, Delete
<1> QED BY <1>3, <1>4, <1>5, <1>6, <1>7, TaskStep DEF Search, Write

LEMMA NextIInv == IInv /\ [Next]_vars => IInv'
<1> SUFFICES ASSUME IInv, [Next]_vars PROVE IInv'
  OBVIOUS
<1>1. CASE \E s \in Stores : Search(s) \/ Write(s)
  BY <1>1, StoreStep
<1>2. CASE \E c \in Clients : Finish(c)
  BY <1>2, TaskStep
<1>3. CASE (\E s \in Qdrant : Connect(s) \/ Disconnect(s)) \/ Tick \/ UNCHANGED vars
  <2>1. UNCHANGED <<breaker, task>>
    BY <1>3 DEF Connect, Disconnect, Tick, vars
  <2> QED BY <2>1 DEF breaker, IInv, Counted, OpenHasFailures, Placed
<1> QED BY <1>1, <1>2, <1>3 DEF Next

\* For any number of stores and of searches in flight: an open breaker has as
\* many failures as the threshold, so that the reset of line 295, which wants
\* fewer, is never reached; only a success that was under way closes a breaker.
THEOREM OpenStaysOverThreshold == Spec => []OpenHasFailures
<1>1. Init => IInv
  BY InitIInv
<1>2. IInv /\ [Next]_vars => IInv'
  BY NextIInv
<1>3. IInv => OpenHasFailures
  BY DEF IInv
<1> QED BY <1>1, <1>2, <1>3, PTL DEF Spec

-----------------------------------------------------------------------------
(* What Kept returns. *)

\* The least-counterexample principle, which stands for induction here.
LEMMA LeastNat ==
    ASSUME NEW T \in SUBSET Nat, T # {}
    PROVE  \E m \in T : \A k \in T : m <= k
<1> DEFINE R == StrictSubsetOrdering(Nat)
           U == { 1..k : k \in T }
<1>1. IsWellFoundedOn(R, FiniteSubsetsOf(Nat))
  BY FS_StrictSubsetOrderingWellFounded
<1>2. U \subseteq FiniteSubsetsOf(Nat) /\ U # {}
  <2>1. \A k \in T : 1..k \subseteq Nat /\ IsFiniteSet(1..k)
    BY FS_Interval
  <2> QED BY <2>1 DEF FiniteSubsetsOf
<1>3. PICK x \in U : \A y \in U : <<y, x>> \notin R
  BY <1>1, <1>2, WFMin
<1>4. PICK m \in T : x = 1..m
  OBVIOUS
<1>5. ASSUME NEW k \in T, k < m PROVE FALSE
  <2>1. 1..k \subseteq 1..m /\ m \in 1..m /\ m \notin 1..k
    BY <1>5
  <2>2. <<1..k, x>> \in R
    BY <1>4, <2>1 DEF StrictSubsetOrdering
  <2> QED BY <1>3, <2>2
<1> QED BY <1>5

\* The recursive function Kept looks for exists, and Kept is its last value.
LEMMA KeptEquation ==
    ASSUME NEW s, NEW S, Len(s) \in Nat
    PROVE  \E kept :
             /\ kept = [n \in 0..Len(s) |->
                         IF n = 0 THEN <<>>
                         ELSE IF s[n] \in S THEN Append(kept[n - 1], s[n]) ELSE kept[n - 1]]
             /\ Kept(s, S) = kept[Len(s)]
<1> DEFINE Step(f, n) == IF n = 0 THEN <<>>
                         ELSE IF s[n] \in S THEN Append(f[n - 1], s[n]) ELSE f[n - 1]
           Done(m) == \E f : f = [n \in 0..m |-> Step(f, n)]
<1>1. Done(0)
  <2>1. [n \in 0..0 |-> <<>>] = [n \in 0..0 |-> Step([i \in 0..0 |-> <<>>], n)]
    OBVIOUS
  <2> QED BY <2>1
<1>2. ASSUME NEW m \in Nat \ {0}, Done(m - 1) PROVE Done(m)
  <2>1. PICK f : f = [n \in 0..(m - 1) |-> Step(f, n)]
    BY <1>2
  <2> DEFINE g == [n \in 0..m |-> IF n = m THEN Step(f, m) ELSE f[n]]
  <2>2. ASSUME NEW n \in 0..m PROVE g[n] = Step(g, n)
    <3>1. CASE n = m
      <4>1. g[n] = Step(f, n) /\ (n # 0 => g[n - 1] = f[n - 1])
        BY <3>1
      <4> QED BY <4>1
    <3>2. CASE n # m
      <4>1. n \in 0..(m - 1) /\ g[n] = f[n] /\ (n # 0 => g[n - 1] = f[n - 1])
        BY <3>2
      <4>2. f[n] = Step(f, n)
        <5> HIDE DEF Step
        <5> QED BY <2>1, <4>1
      <4> QED BY <4>1, <4>2
    <3> QED BY <3>1, <3>2
  <2>3. g = [n \in 0..m |-> Step(g, n)]
    BY <2>2
  <2> QED BY <2>3
<1>3. Done(Len(s))
  <2> DEFINE T == { m \in Nat : ~Done(m) }
  <2> HIDE DEF Done
  <2>1. CASE T # {}
    <3>1. PICK m \in T : \A k \in T : m <= k
      BY <2>1, LeastNat
    <3>2. m # 0 /\ m - 1 \in Nat /\ m - 1 \notin T
      BY <1>1, <3>1
    <3> QED BY <1>2, <3>1, <3>2
  <2> QED BY <2>1
<1> DEFINE kept == CHOOSE f : f = [n \in 0..Len(s) |-> Step(f, n)]
<1>4. kept = [n \in 0..Len(s) |-> Step(kept, n)]
  BY <1>3
<1>5. Kept(s, S) = kept[Len(s)]
  BY DEF Kept
<1> QED BY <1>4, <1>5

\* A sequence of entries with one of each key.
OneEach(s) == \A i, j \in 1..Len(s) : s[i].key = s[j].key => i = j

\* t holds elements of S only, from the first n of s.
Selects(t, s, n, S) ==
    /\ Len(t) <= n
    /\ Len(t) = n => \A i \in 1..n : t[i] = s[i]
    /\ \A i \in 1..Len(t) : \E j \in 1..n : t[i] = s[j] /\ s[j] \in S
    /\ OneEach(s) => OneEach(t)

LEMMA SelectsMore ==
    ASSUME NEW E, NEW s \in Seq(E), NEW S, NEW n \in 1..Len(s),
           NEW t \in Seq(E), Selects(t, s, n - 1, S), s[n] \in S
    PROVE  Append(t, s[n]) \in Seq(E) /\ Selects(Append(t, s[n]), s, n, S)
<1> DEFINE u == Append(t, s[n])
<1>1. /\ s[n] \in E /\ Len(s) \in Nat /\ Len(t) \in Nat /\ n \in Nat \ {0} /\ n <= Len(s)
  OBVIOUS
<1>2. /\ u \in Seq(E) /\ Len(u) = Len(t) + 1 /\ u[Len(t) + 1] = s[n]
      /\ \A i \in 1..Len(t) : u[i] = t[i]
  BY <1>1
<1> HIDE DEF u
<1>3. \A i \in 1..Len(u) : i \in 1..Len(t) \/ i = Len(t) + 1
  BY <1>1, <1>2
<1>4. Len(u) <= n
  BY <1>1, <1>2 DEF Selects
<1>5. Len(u) = n => \A i \in 1..n : u[i] = s[i]
  BY <1>1, <1>2 DEF Selects
<1>6. \A i \in 1..Len(u) : \E j \in 1..n : u[i] = s[j] /\ s[j] \in S
  <2>1. \A i \in 1..Len(t) : \E j \in 1..(n - 1) : u[i] = s[j] /\ s[j] \in S
    BY <1>2 DEF Selects
  <2> QED BY <1>1, <1>2, <1>3, <2>1
<1>7. ASSUME OneEach(s) PROVE OneEach(u)
  <2>1. OneEach(t)
    BY <1>7 DEF Selects
  <2>2. ASSUME NEW i \in 1..Len(t) PROVE u[i].key # s[n].key
    <3>1. PICK j \in 1..(n - 1) : u[i] = s[j]
      BY <1>2 DEF Selects
    <3>2. j \in 1..Len(s) /\ n \in 1..Len(s) /\ j # n
      BY <1>1
    <3> QED BY <1>7, <3>1, <3>2 DEF OneEach
  <2>3. ASSUME NEW i \in 1..Len(u), NEW j \in 1..Len(u), u[i].key = u[j].key PROVE i = j
    <3>1. CASE i \in 1..Len(t) /\ j \in 1..Len(t)
      BY <1>2, <2>1, <2>3, <3>1 DEF OneEach
    <3> QED BY <1>1, <1>2, <1>3, <2>2, <2>3, <3>1
  <2> QED BY <2>3 DEF OneEach
<1> QED BY <1>2, <1>4, <1>5, <1>6, <1>7 DEF Selects, u

\* What Kept returns, for every sequence and every set.
LEMMA KeptFact ==
    ASSUME NEW E, NEW s \in Seq(E), NEW S
    PROVE  /\ Kept(s, S) \in Seq(E)
           /\ Selects(Kept(s, S), s, Len(s), S)
           /\ Len(Kept(s, S)) = Len(s) => Kept(s, S) = s
<1> DEFINE Step(f, n) == IF n = 0 THEN <<>>
                         ELSE IF s[n] \in S THEN Append(f[n - 1], s[n]) ELSE f[n - 1]
<1>0. Len(s) \in Nat
  OBVIOUS
<1>1. PICK kept : kept = [n \in 0..Len(s) |-> Step(kept, n)] /\ Kept(s, S) = kept[Len(s)]
  BY <1>0, KeptEquation
<1>2. \A n \in 0..Len(s) : kept[n] = Step(kept, n)
  <2> HIDE DEF Step
  <2> QED BY <1>1
<1> DEFINE Done(n) == kept[n] \in Seq(E) /\ Selects(kept[n], s, n, S)
           T == { n \in 0..Len(s) : ~Done(n) }
<1>3. ASSUME NEW n \in 0..Len(s), n # 0 => Done(n - 1) PROVE Done(n)
  <2>1. CASE n = 0
    <3>1. kept[n] = <<>>
      BY <1>2, <2>1
    <3> QED BY <2>1, <3>1 DEF Selects, OneEach
  <2>2. CASE n # 0 /\ s[n] \in S
    <3>1. kept[n] = Append(kept[n - 1], s[n])
      BY <1>2, <2>2
    <3> QED BY <1>3, <2>2, <3>1, SelectsMore
  <2>3. CASE n # 0 /\ s[n] \notin S
    <3>1. kept[n] = kept[n - 1]
      BY <1>2, <2>3
    <3>2. Len(kept[n]) # n
      BY <1>3, <2>3, <3>1 DEF Selects
    <3> QED BY <1>3, <2>3, <3>1, <3>2 DEF Selects
  <2> QED BY <2>1, <2>2, <2>3
<1> HIDE DEF Done
<1>4. CASE T # {}
  <2>1. PICK m \in T : \A k \in T : m <= k
    <3>1. T \in SUBSET Nat
      BY <1>0
    <3> HIDE DEF T
    <3> QED BY <1>4, <3>1, LeastNat
  <2>2. m # 0 => m - 1 \in 0..Len(s) /\ m - 1 \notin T
    BY <2>1
  <2> QED BY <1>3, <2>1, <2>2
<1>5. CASE T = {}
  <2>1. Kept(s, S) \in Seq(E) /\ Selects(Kept(s, S), s, Len(s), S)
    <3>1. Done(Len(s))
      BY <1>0, <1>5
    <3> QED BY <1>1, <3>1 DEF Done
  <2>2. ASSUME Len(Kept(s, S)) = Len(s) PROVE Kept(s, S) = s
    BY <2>1, <2>2 DEF Selects
  <2> QED BY <2>1, <2>2
<1> QED BY <1>4, <1>5

-----------------------------------------------------------------------------
(* The cache. *)

Keys == { Key(q) : q \in Queries }

\* The documents an answer holds are of the collection that is its key.
Entries == { e \in [key : Keys, answer : SUBSET Docs, age : 0..TTL + 1] :
                 \A d \in e.answer : d.collection = e.key }

CacheOK(s) == s \in Seq(Entries) /\ OneEach(s) /\ Len(s) <= MaxCache

LEMMA RangeOf ==
    ASSUME NEW E, NEW s \in Seq(E)
    PROVE  Range(s) = { s[i] : i \in 1..Len(s) }
BY DEF Range

\* Filtering keeps a cache a cache.
LEMMA KeptCache ==
    ASSUME NEW s \in Seq(Entries), OneEach(s), NEW S
    PROVE  /\ Kept(s, S) \in Seq(Entries)
           /\ OneEach(Kept(s, S))
           /\ Len(Kept(s, S)) <= Len(s)
           /\ Len(Kept(s, S)) = Len(s) => Kept(s, S) = s
           /\ \A i \in 1..Len(Kept(s, S)) : Kept(s, S)[i] \in S
BY KeptFact DEF Selects

LEMMA OthersFact ==
    ASSUME NEW s \in Seq(Entries), OneEach(s), NEW k
    PROVE  /\ Others(s, k) \in Seq(Entries)
           /\ OneEach(Others(s, k))
           /\ Len(Others(s, k)) <= Len(s)
           /\ Len(Others(s, k)) = Len(s) => Others(s, k) = s
           /\ \A i \in 1..Len(Others(s, k)) : Others(s, k)[i].key # k
BY KeptCache DEF Others

\* Of one key there is one entry at most, and then one fewer of the others.
LEMMA ThoseFact ==
    ASSUME NEW s \in Seq(Entries), OneEach(s), NEW k
    PROVE  /\ Those(s, k) \in Seq(Entries)
           /\ \A i \in 1..Len(Those(s, k)) : Those(s, k)[i].key = k
           /\ Len(Those(s, k)) = 0 \/ Len(Those(s, k)) = 1
           /\ Len(Others(s, k)) + Len(Those(s, k)) <= Len(s)
<1> DEFINE S == { e \in Range(s) : e.key = k }
           t == Kept(s, S)
           o == Others(s, k)
<1>1. /\ t \in Seq(Entries) /\ OneEach(t) /\ t = Those(s, k)
      /\ \A i \in 1..Len(t) : t[i] \in S
  BY KeptCache DEF Those
<1>2. /\ o \in Seq(Entries) /\ Len(o) <= Len(s) /\ (Len(o) = Len(s) => o = s)
      /\ \A i \in 1..Len(o) : o[i].key # k
  BY OthersFact
<1>3. \A i \in 1..Len(t) : t[i].key = k /\ t[i] \in Range(s)
  BY <1>1
<1> HIDE DEF t, o, S
<1>4. Len(t) \in Nat /\ Len(o) \in Nat /\ Len(s) \in Nat
  BY <1>1, <1>2
<1>5. Len(t) = 0 \/ Len(t) = 1
  <2>1. CASE Len(t) >= 2
    <3>1. 1 \in 1..Len(t) /\ 2 \in 1..Len(t)
      BY <1>4, <2>1
    <3> QED BY <1>1, <1>3, <3>1 DEF OneEach
  <2>2. \A n \in Nat : n = 0 \/ n = 1 \/ n >= 2
    OBVIOUS
  <2> QED BY <1>4, <2>1, <2>2
<1>6. Len(t) = 1 => Len(o) # Len(s)
  <2> SUFFICES ASSUME Len(t) = 1, Len(o) = Len(s) PROVE FALSE
    OBVIOUS
  <2>1. PICK j \in 1..Len(s) : t[1] = s[j]
    BY <1>3, RangeOf
  <2> QED BY <1>2, <1>3, <2>1
<1>7. Len(o) + Len(t) <= Len(s)
  BY <1>1, <1>2, <1>5, <1>6
<1> QED BY <1>1, <1>3, <1>5, <1>7 DEF o

LEMMA GotKeeps ==
    ASSUME CacheOK(cache), NEW k
    PROVE  CacheOK(Got(k))
<1> DEFINE l == LiveOnes(cache)
           o == Others(l, k)
           t == Those(l, k)
           g == o \o t
<1>0. Got(k) = g
  BY DEF Got
<1>1. l \in Seq(Entries) /\ OneEach(l) /\ Len(l) <= Len(cache) /\ Len(cache) <= MaxCache
  BY KeptCache DEF CacheOK, LiveOnes
<1>2. cache \in Seq(Entries)
  BY DEF CacheOK
<1> HIDE DEF l
<1>3. /\ o \in Seq(Entries) /\ OneEach(o)
      /\ \A i \in 1..Len(o) : o[i].key # k
  BY <1>1, OthersFact
<1>4. /\ t \in Seq(Entries)
      /\ \A i \in 1..Len(t) : t[i].key = k
      /\ Len(t) = 0 \/ Len(t) = 1
      /\ Len(o) + Len(t) <= Len(l)
  BY <1>1, ThoseFact
<1> HIDE DEF o, t
<1>5. /\ g \in Seq(Entries) /\ Len(g) = Len(o) + Len(t)
      /\ \A i \in 1..Len(o) : g[i] = o[i]
      /\ Len(t) = 1 => g[Len(o) + 1] = t[1]
  BY <1>3, <1>4
<1> HIDE DEF g
<1>6. Len(g) <= MaxCache
  BY <1>1, <1>2, <1>3, <1>4, <1>5, StoreAssumption
<1>7. ASSUME NEW i \in 1..Len(g), NEW j \in 1..Len(g), g[i].key = g[j].key
      PROVE  i = j
  <2>1. /\ i \in 1..Len(o) \/ (i = Len(o) + 1 /\ Len(t) = 1)
        /\ j \in 1..Len(o) \/ (j = Len(o) + 1 /\ Len(t) = 1)
    BY <1>3, <1>4, <1>5
  <2>2. CASE i \in 1..Len(o) /\ j \in 1..Len(o)
    BY <1>3, <1>5, <1>7, <2>2 DEF OneEach
  <2>3. CASE Len(t) = 1 /\ (i = Len(o) + 1 \/ j = Len(o) + 1)
    <3>1. g[Len(o) + 1].key = k /\ \A n \in 1..Len(o) : g[n].key # k
      BY <1>3, <1>4, <1>5, <2>3
    <3> QED BY <1>7, <2>1, <2>3, <3>1
  <2> QED BY <2>1, <2>2, <2>3
<1> QED BY <1>0, <1>5, <1>6, <1>7 DEF CacheOK, OneEach

LEMMA PutKeeps ==
    ASSUME NEW s, CacheOK(s), NEW k \in Keys, NEW A \in SUBSET Docs,
           \A d \in A : d.collection = k
    PROVE  CacheOK(Put(s, k, A))
<1> DEFINE e == [key |-> k, answer |-> A, age |-> 0]
           o == Others(s, k)
           full == o = s /\ Len(s) >= MaxCache
           b == IF full THEN Tail(s) ELSE o
           p == Append(b, e)
<1>0. Put(s, k, A) = p
  BY DEF Put
<1>1. e \in Entries /\ e.key = k
  BY StoreAssumption DEF Entries
<1>2. s \in Seq(Entries) /\ OneEach(s) /\ Len(s) <= MaxCache /\ Len(s) \in Nat
  BY DEF CacheOK
<1>3. /\ o \in Seq(Entries) /\ OneEach(o) /\ Len(o) <= Len(s) /\ Len(o) \in Nat
      /\ Len(o) = Len(s) => o = s
      /\ \A i \in 1..Len(o) : o[i].key # k
  BY <1>2, OthersFact
<1> HIDE DEF e, o
<1>4. /\ b \in Seq(Entries) /\ OneEach(b) /\ Len(b) < MaxCache /\ Len(b) \in Nat
      /\ \A i \in 1..Len(b) : b[i].key # k
  <2>1. CASE full
    <3>1. s # <<>> /\ Len(s) = MaxCache /\ b = Tail(s) /\ MaxCache \in Nat \ {0}
      BY <1>2, <2>1, StoreAssumption
    <3>2. /\ b \in Seq(Entries) /\ Len(b) = Len(s) - 1
          /\ \A i \in 1..Len(b) : b[i] = s[i + 1] /\ i + 1 \in 1..Len(s)
      BY <1>2, <3>1
    <3> HIDE DEF b
    <3>3. OneEach(b)
      BY <1>2, <3>2 DEF OneEach
    <3>4. \A i \in 1..Len(b) : b[i].key # k
      BY <1>3, <2>1, <3>2
    <3> QED BY <1>2, <3>1, <3>2, <3>3, <3>4
  <2>2. CASE ~full
    <3>1. b = o /\ MaxCache \in Nat
      BY <2>2, StoreAssumption
    <3>2. Len(o) < MaxCache
      BY <1>2, <1>3, <2>2, <3>1
    <3> QED BY <1>3, <3>1, <3>2
  <2> QED BY <2>1, <2>2
<1> HIDE DEF b, full
<1>5. /\ p \in Seq(Entries) /\ Len(p) = Len(b) + 1 /\ p[Len(b) + 1] = e
      /\ \A i \in 1..Len(b) : p[i] = b[i]
  BY <1>1, <1>4
<1> HIDE DEF p
<1>6. \A i \in 1..Len(p) : i \in 1..Len(b) \/ i = Len(b) + 1
  BY <1>4, <1>5
<1>7. OneEach(p)
  BY <1>1, <1>4, <1>5, <1>6 DEF OneEach
<1> QED BY <1>0, <1>4, <1>5, <1>7, StoreAssumption DEF CacheOK

\* As many entries as keys.
LEMMA OneEachCounts ==
    ASSUME NEW s \in Seq(Entries), OneEach(s)
    PROVE  Len(s) = Cardinality({ e.key : e \in Range(s) })
<1> DEFINE K == { e.key : e \in Range(s) }
           f == [i \in 1..Len(s) |-> s[i].key]
<1>1. K = { s[i].key : i \in 1..Len(s) }
  BY RangeOf
<1>2. f \in Surjection(1..Len(s), K)
  BY <1>1 DEF Surjection
<1>3. f \in Injection(1..Len(s), K)
  BY <1>1 DEF Injection, IsInjective, OneEach
<1>4. IsFiniteSet(1..Len(s)) /\ Cardinality(1..Len(s)) = Len(s)
  <2>1. Len(s) \in Nat
    OBVIOUS
  <2> QED BY <2>1, FS_Interval
<1> HIDE DEF f, K
<1>5. Cardinality(K) = Cardinality(1..Len(s))
  BY <1>2, <1>3, <1>4, FS_Surjection
<1> QED BY <1>4, <1>5 DEF K

-----------------------------------------------------------------------------
(* The whole state. *)

\* No place has two documents of one id.
ContentOK == /\ content \in [Places -> SUBSET Docs]
             /\ \A p \in Places : content[p] \in Contents(p)

\* Neither has what is about to be inserted.
TasksOK ==
    /\ task \in [Clients -> Tasks]
    /\ \A c \in Clients : task[c].op = "insert" => task[c].docs \in Contents(task[c].store)

TypeInv == IInv /\ connected \subseteq Qdrant /\ ContentOK /\ CacheOK(cache) /\ TasksOK

LEMMA InitTypeInv == Init => TypeInv
<1> SUFFICES ASSUME Init PROVE TypeInv
  OBVIOUS
<1>1. CacheOK(cache)
  BY StoreAssumption DEF Init, CacheOK, OneEach
<1>2. ContentOK
  BY DEF Init, ContentOK
<1>3. TasksOK
  BY DEF Init, TasksOK, Tasks, Idle
<1> QED BY <1>1, <1>2, <1>3, InitIInv DEF Init, TypeInv

\* What is left of some documents clashes no more than they do.
LEMMA FewerDocs ==
    ASSUME NEW p, NEW D \in Contents(p), NEW E \in SUBSET D
    PROVE  E \in Contents(p)
BY DEF Contents

\* New documents take the place of those they clash with.
LEMMA StoreKeeps ==
    ASSUME ContentOK, NEW p \in Places, NEW docs \in Contents(p), Store(p, docs)
    PROVE  ContentOK'
<1> DEFINE D == docs \union { e \in content[p] : \A d \in docs : ~Clash(p, d, e) }
<1>1. content' = [content EXCEPT ![p] = D]
  BY DEF Store
<1>2. D \in Contents(p)
  <2>1. docs \subseteq Docs /\ content[p] \subseteq Docs
    BY DEF ContentOK, Contents
  <2>2. ASSUME NEW d \in D, NEW e \in D, Clash(p, d, e) PROVE d = e
    <3>1. Clash(p, e, d)
      BY <2>2 DEF Clash
    <3> QED BY <2>2, <3>1 DEF ContentOK, Contents
  <2> QED BY <2>1, <2>2 DEF Contents
<1>3. D \subseteq Docs
  BY <1>2 DEF Contents
<1> HIDE DEF D
<1> QED BY <1>1, <1>2, <1>3 DEF ContentOK

LEMMA PlaceFact ==
    /\ Server \in Places
    /\ \A s \in Mocks : s \in Places /\ s \in Stores
    /\ \A s \in Stores : Place(s) \in Places
BY DEF Places, Place, Stores

LEMMA ContentStep ==
    ASSUME TypeInv, [Next]_vars
    PROVE  ContentOK'
<1>1. ContentOK
  BY DEF TypeInv
<1>2. CASE UNCHANGED content
  BY <1>1, <1>2 DEF ContentOK
<1>3. ASSUME NEW s \in Stores, NEW docs \in Batches(Server), NEW failed,
             QdrantInserts(s, docs, failed)
      PROVE  ContentOK'
  <2>1. { d \in docs : d.collection \notin failed } \in Contents(Server)
    BY FewerDocs DEF Batches
  <2> QED BY <1>1, <1>3, <2>1, StoreKeeps, PlaceFact DEF QdrantInserts
<1>4. ASSUME NEW c \in Clients, MockInserts(c) PROVE ContentOK'
  <2>1. task[c].store \in Places /\ task[c].docs \in Contents(task[c].store)
    BY <1>4, PlaceFact DEF MockInserts, TypeInv, TasksOK, IInv, Placed
  <2>2. PICK done \in SUBSET task[c].docs : Store(task[c].store, done)
    BY <1>4 DEF MockInserts
  <2>3. done \in Contents(task[c].store)
    BY <2>1, FewerDocs
  <2> QED BY <1>1, <2>1, <2>2, <2>3, StoreKeeps
<1>5. ASSUME NEW s \in Stores, NEW d \in Docs, Update(s, d) PROVE ContentOK'
  <2>1. {d} \in Contents(Place(s))
    BY DEF Contents
  <2> QED BY <1>1, <1>5, <2>1, StoreKeeps, PlaceFact DEF Update
<1>6. ASSUME NEW s \in Stores, NEW d \in Docs, Delete(s, d) PROVE ContentOK'
  <2>1. Place(s) \in Places
    BY PlaceFact
  <2>2. content[Place(s)] \ {d} \in Contents(Place(s))
    BY <1>1, <2>1, FewerDocs DEF ContentOK
  <2>3. content' = [content EXCEPT ![Place(s)] = content[Place(s)] \ {d}]
    BY <1>6 DEF Delete
  <2> QED BY <1>1, <2>1, <2>2, <2>3 DEF ContentOK
<1>7. ASSUME NEW s \in Stores, Search(s) PROVE UNCHANGED content
  BY <1>7 DEF Search, SearchHits, SearchRefused, QdrantSearches, QdrantSearchFails,
              MockSearchBegins
<1>8. ASSUME NEW s \in Stores, Write(s) PROVE ContentOK'
  BY <1>2, <1>3, <1>5, <1>6, <1>8 DEF Write, MockInsertBegins
<1>9. ASSUME NEW c \in Clients, Finish(c) PROVE ContentOK'
  BY <1>2, <1>4, <1>9 DEF Finish, MockSearches, MockSearchFails
<1>10. ASSUME (\E s \in Qdrant : Connect(s) \/ Disconnect(s)) \/ Tick \/ UNCHANGED vars
       PROVE  UNCHANGED content
  BY <1>10 DEF Connect, Disconnect, Tick, vars
<1> QED BY <1>2, <1>7, <1>8, <1>9, <1>10 DEF Next

-----------------------------------------------------------------------------

LEMMA AnswerFact ==
    ASSUME ContentOK, NEW p \in Places, NEW q \in Queries
    PROVE  /\ Answer(p, q) \in SUBSET Docs
           /\ \A d \in Answer(p, q) : d.collection = Key(q)
           /\ Key(q) \in Keys
BY DEF ContentOK, Answer, InCollection, Key, Keys

\* Entries only grow older, and none beyond the first tick it is not live at.
LEMMA TickKeeps ==
    ASSUME CacheOK(cache), Tick
    PROVE  CacheOK(cache')
<1> DEFINE Older(e) == IF Live(e) THEN [e EXCEPT !.age = @ + 1] ELSE e
<1>1. /\ cache \in Seq(Entries) /\ OneEach(cache) /\ Len(cache) <= MaxCache
      /\ DOMAIN cache = 1..Len(cache)
  BY DEF CacheOK
<1>2. cache' = [i \in 1..Len(cache) |-> Older(cache[i])]
  BY <1>1 DEF Tick
<1>3. ASSUME NEW e \in Entries PROVE Older(e) \in Entries /\ Older(e).key = e.key
  BY StoreAssumption DEF Entries, Live
<1> HIDE DEF Older
<1>4. \A i \in 1..Len(cache) : cache[i] \in Entries
  BY <1>1
<1>5. /\ cache' \in Seq(Entries) /\ Len(cache') = Len(cache)
      /\ \A i \in 1..Len(cache) : cache'[i].key = cache[i].key
  BY <1>1, <1>2, <1>3, <1>4
<1> QED BY <1>1, <1>5 DEF CacheOK, OneEach

LEMMA CacheStep ==
    ASSUME TypeInv, [Next]_vars
    PROVE  CacheOK(cache')
<1>1. CacheOK(cache) /\ ContentOK
  BY DEF TypeInv
<1>2. CASE UNCHANGED cache
  BY <1>1, <1>2
<1>3. ASSUME NEW q \in Queries
      PROVE  /\ Key(q) \in Keys
             /\ CacheOK(Got(Key(q)))
             /\ CacheOK(Put(Got(Key(q)), Key(q), {}))
             /\ \A p \in Places : CacheOK(Put(Got(Key(q)), Key(q), Answer(p, q)))
             /\ \A p \in Places : CacheOK(Put(cache, Key(q), Answer(p, q)))
  <2>1. CacheOK(Got(Key(q))) /\ Key(q) \in Keys
    BY <1>1, GotKeeps DEF Keys
  <2>2. ASSUME NEW p \in Places
        PROVE  Answer(p, q) \in SUBSET Docs /\ \A d \in Answer(p, q) : d.collection = Key(q)
    BY <1>1, AnswerFact
  <2> QED BY <1>1, <2>1, <2>2, PutKeeps
<1>4. ASSUME NEW s \in Stores, NEW q \in Queries,
             \/ SearchHits(q)
             \/ SearchRefused(s, q)
             \/ QdrantSearches(s, q)
             \/ QdrantSearchFails(s, q)
             \/ \E c \in Clients : MockSearchBegins(c, s, q)
      PROVE  CacheOK(cache')
  BY <1>3, <1>4, PlaceFact
     DEF SearchHits, SearchRefused, QdrantSearches, QdrantSearchFails, MockSearchBegins
<1>5. ASSUME NEW c \in Clients, MockSearches(c) PROVE CacheOK(cache')
  <2>1. task[c].store \in Places /\ task[c].query \in Queries
    BY <1>5, PlaceFact DEF MockSearches, TypeInv, TasksOK, Tasks, Idle
  <2>2. cache' = Put(cache, Key(task[c].query), Answer(task[c].store, task[c].query))
    BY <1>5 DEF MockSearches
  <2> QED BY <1>3, <2>1, <2>2
<1>6. ASSUME NEW s \in Stores, Search(s) PROVE CacheOK(cache')
  BY <1>4, <1>6 DEF Search
<1>7. ASSUME NEW s \in Stores, Write(s) PROVE UNCHANGED cache
  BY <1>7 DEF Write, QdrantInserts, MockInsertBegins, Update, Delete
<1>8. ASSUME NEW c \in Clients, Finish(c) PROVE CacheOK(cache')
  BY <1>2, <1>5, <1>8 DEF Finish, MockSearchFails, MockInserts
<1>9. CASE Tick
  BY <1>1, <1>9, TickKeeps
<1>10. ASSUME (\E s \in Qdrant : Connect(s) \/ Disconnect(s)) \/ UNCHANGED vars
       PROVE  UNCHANGED cache
  BY <1>10 DEF Connect, Disconnect, vars
<1> QED BY <1>2, <1>6, <1>7, <1>8, <1>9, <1>10 DEF Next

-----------------------------------------------------------------------------

LEMMA TasksStep ==
    ASSUME TypeInv, [Next]_vars
    PROVE  TasksOK'
<1>1. TasksOK
  BY DEF TypeInv
<1>2. CASE UNCHANGED task
  BY <1>1, <1>2 DEF TasksOK
<1>3. ASSUME NEW c \in Clients, NEW t \in Tasks, task' = [task EXCEPT ![c] = t],
             t.op = "insert" => t.docs \in Contents(t.store)
      PROVE  TasksOK'
  BY <1>1, <1>3 DEF TasksOK
<1>4. ASSUME NEW c \in Clients, Finish(c) PROVE TasksOK'
  <2>1. Idle \in Tasks /\ Idle.op # "insert"
    BY DEF Idle, Tasks
  <2>2. task' = [task EXCEPT ![c] = Idle]
    BY <1>4 DEF Finish, MockSearches, MockSearchFails, MockInserts
  <2> QED BY <1>3, <2>1, <2>2
<1>5. ASSUME NEW c \in Clients, NEW s \in Mocks, NEW q \in Queries, MockSearchBegins(c, s, q)
      PROVE  TasksOK'
  <2> DEFINE t == [op |-> "search", store |-> s, query |-> q]
  <2>1. t \in Tasks /\ t.op # "insert"
    BY DEF Tasks
  <2>2. task' = [task EXCEPT ![c] = t]
    BY <1>5 DEF MockSearchBegins
  <2> QED BY <1>3, <2>1, <2>2
<1>6. ASSUME NEW c \in Clients, NEW s \in Mocks, NEW docs \in Batches(s),
             MockInsertBegins(c, s, docs)
      PROVE  TasksOK'
  <2> DEFINE t == [op |-> "insert", store |-> s, docs |-> docs]
  <2>1. docs \in Contents(s) /\ docs \in SUBSET Docs
    BY DEF Batches, Contents
  <2>2. t \in Tasks /\ t.docs \in Contents(t.store)
    BY <2>1 DEF Tasks
  <2>3. task' = [task EXCEPT ![c] = t]
    BY <1>6 DEF MockInsertBegins
  <2> QED BY <1>3, <2>2, <2>3
<1>7. ASSUME NEW s \in Stores, Search(s) PROVE TasksOK'
  BY <1>2, <1>5, <1>7
     DEF Search, SearchHits, SearchRefused, QdrantSearches, QdrantSearchFails
<1>8. ASSUME NEW s \in Stores, Write(s) PROVE TasksOK'
  BY <1>2, <1>6, <1>8 DEF Write, QdrantInserts, Update, Delete
<1>9. ASSUME (\E s \in Qdrant : Connect(s) \/ Disconnect(s)) \/ Tick \/ UNCHANGED vars
      PROVE  UNCHANGED task
  BY <1>9 DEF Connect, Disconnect, Tick, vars
<1> QED BY <1>2, <1>4, <1>7, <1>8, <1>9 DEF Next

LEMMA ConnectedStep ==
    ASSUME TypeInv, [Next]_vars
    PROVE  connected' \subseteq Qdrant
<1>1. connected \subseteq Qdrant
  BY DEF TypeInv
<1>2. ASSUME NEW s \in Stores, Search(s) \/ Write(s) PROVE UNCHANGED connected
  BY <1>2 DEF Search, SearchHits, SearchRefused, QdrantSearches, QdrantSearchFails,
              MockSearchBegins, Write, QdrantInserts, MockInsertBegins, Update, Delete
<1>3. ASSUME NEW c \in Clients, Finish(c) PROVE UNCHANGED connected
  BY <1>3 DEF Finish, MockSearches, MockSearchFails, MockInserts
<1>4. ASSUME NEW s \in Qdrant, Connect(s) \/ Disconnect(s) PROVE connected' \subseteq Qdrant
  BY <1>1, <1>4 DEF Connect, Disconnect
<1> QED BY <1>1, <1>2, <1>3, <1>4 DEF Next, Tick, vars

LEMMA NextTypeInv == TypeInv /\ [Next]_vars => TypeInv'
BY NextIInv, ContentStep, CacheStep, TasksStep, ConnectedStep DEF TypeInv

-----------------------------------------------------------------------------

\* For any stores, tasks, documents and searches and any size of the cache: a
\* place never has two documents of one id, whichever of insertions, updates and
\* deletions are interleaved; and the cache, whose entries are evicted by age, by
\* rank and by key in one get and one put, never has two entries of one key, nor
\* more than MaxCache (performance_optimizer.py:119-165).
THEOREM TypeCorrect == Spec => []TypeOK
<1>1. Init => TypeInv
  BY InitTypeInv
<1>2. TypeInv /\ [Next]_vars => TypeInv'
  BY NextTypeInv
<1>3. TypeInv => TypeOK
  <2> SUFFICES ASSUME TypeInv PROVE TypeOK
    OBVIOUS
  <2>1. cache \in Seq(Entries) /\ OneEach(cache) /\ Len(cache) <= MaxCache
    BY DEF TypeInv, CacheOK
  <2>2. Len(cache) = Cardinality({ e.key : e \in Range(cache) })
    BY <2>1, OneEachCounts
  <2>3. Range(cache) \subseteq Entries
    BY <2>1, RangeOf
  <2>4. Range(cache) \subseteq
            [key : { Key(q) : q \in Queries }, answer : SUBSET Docs, age : 0..TTL + 1]
    BY <2>3 DEF Entries, Keys
  <2>5. /\ connected \subseteq Qdrant
        /\ \A p \in Places : content[p] \in Contents(p)
        /\ failures \in [Stores -> Nat]
        /\ open \subseteq Stores
        /\ task \in [Clients -> Tasks]
    BY DEF TypeInv, IInv, Counted, ContentOK, TasksOK
  <2> QED BY <2>1, <2>2, <2>4, <2>5 DEF TypeOK
<1> QED BY <1>1, <1>2, <1>3, PTL DEF Spec

\* Stores and thresholds share an entry of the cache, but collections do not: a
\* cached answer only has documents of the collection it is asked for.
OfTheirCollection == \A e \in Range(cache) : \A d \in e.answer : d.collection = e.key

THEOREM CollectionsApart == Spec => []OfTheirCollection
<1>1. Init => TypeInv
  BY InitTypeInv
<1>2. TypeInv /\ [Next]_vars => TypeInv'
  BY NextTypeInv
<1>3. TypeInv => OfTheirCollection
  BY RangeOf DEF TypeInv, CacheOK, Entries, OfTheirCollection
<1> QED BY <1>1, <1>2, <1>3, PTL DEF Spec

-----------------------------------------------------------------------------
(* What FreshAfterCalm rests on: stale answers are never renewed. *)

\* While the documents stay as they are, whatever is in the cache and is not the
\* answer of any store was there before, not younger, and a tick makes it older
\* until it is no longer live.
UntrueOnlyAges ==
    [][ content' = content =>
          \A e \in Range(cache') : e.answer # {} /\ ~True(e) =>
             \E o \in Range(cache) :
                /\ o.key = e.key /\ o.answer = e.answer
                /\ o.age <= e.age
                /\ Tick /\ Live(o) => o.age < e.age ]_vars

\* e is an entry of the cache as it was, or a true one, or an empty one.
Accounted(e) == e \in Range(cache) \/ e.answer = {} \/ True(e)

LEMMA KeptFrom ==
    ASSUME NEW s \in Seq(Entries), OneEach(s), NEW S
    PROVE  Range(Kept(s, S)) \subseteq Range(s)
<1>1. Kept(s, S) \in Seq(Entries) /\ Selects(Kept(s, S), s, Len(s), S)
  BY KeptFact
<1>2. \A i \in 1..Len(Kept(s, S)) : \E j \in 1..Len(s) : Kept(s, S)[i] = s[j]
  BY <1>1 DEF Selects
<1> QED BY <1>1, <1>2, RangeOf

\* get adds nothing, put the one entry.
LEMMA GotFrom ==
    ASSUME CacheOK(cache), NEW k
    PROVE  Range(Got(k)) \subseteq Range(cache)
<1> DEFINE l == LiveOnes(cache)
           o == Others(l, k)
           t == Those(l, k)
<1>1. l \in Seq(Entries) /\ OneEach(l) /\ Range(l) \subseteq Range(cache)
  BY KeptCache, KeptFrom DEF CacheOK, LiveOnes
<1> HIDE DEF l
<1>2. o \in Seq(Entries) /\ t \in Seq(Entries)
  BY <1>1, OthersFact, ThoseFact
<1>3. Range(o) \subseteq Range(l) /\ Range(t) \subseteq Range(l)
  BY <1>1, KeptFrom DEF Others, Those
<1>4. Got(k) = o \o t
  BY DEF Got, l
<1> HIDE DEF o, t
<1>5. o \o t \in Seq(Entries)
  BY <1>2
<1>6. \A i \in 1..Len(o \o t) :
         \/ i \in 1..Len(o) /\ (o \o t)[i] = o[i]
         \/ i - Len(o) \in 1..Len(t) /\ (o \o t)[i] = t[i - Len(o)]
  BY <1>2
<1>7. Range(o \o t) \subseteq Range(o) \union Range(t)
  <2> DEFINE u == o \o t
  <2>1. /\ Range(u) = { u[i] : i \in 1..Len(u) }
        /\ Range(o) = { o[i] : i \in 1..Len(o) }
        /\ Range(t) = { t[i] : i \in 1..Len(t) }
    BY <1>2, <1>5, RangeOf
  <2> QED BY <1>6, <2>1
<1> QED BY <1>1, <1>3, <1>4, <1>7

LEMMA PutFrom ==
    ASSUME NEW s, CacheOK(s), NEW k \in Keys, NEW A \in SUBSET Docs,
           \A d \in A : d.collection = k
    PROVE  Range(Put(s, k, A)) \subseteq Range(s) \union {[key |-> k, answer |-> A, age |-> 0]}
<1> DEFINE e == [key |-> k, answer |-> A, age |-> 0]
           o == Others(s, k)
           full == o = s /\ Len(s) >= MaxCache
           b == IF full THEN Tail(s) ELSE o
<1>1. s \in Seq(Entries) /\ OneEach(s) /\ Len(s) \in Nat
  BY DEF CacheOK
<1>2. e \in Entries
  BY StoreAssumption DEF Entries
<1>3. o \in Seq(Entries) /\ Range(o) \subseteq Range(s)
  BY <1>1, OthersFact, KeptFrom DEF Others
<1>4. b \in Seq(Entries) /\ Range(b) \subseteq Range(s)
  <2>1. CASE full
    <3>1. s # <<>> /\ b = Tail(s)
      BY <2>1, <1>1, StoreAssumption
    <3>2. /\ b \in Seq(Entries)
          /\ \A i \in 1..Len(b) : b[i] = s[i + 1] /\ i + 1 \in 1..Len(s)
      BY <1>1, <3>1
    <3> HIDE DEF b
    <3> QED BY <1>1, <3>2, RangeOf
  <2>2. CASE ~full
    BY <1>3, <2>2
  <2> QED BY <2>1, <2>2
<1>5. Put(s, k, A) = Append(b, e)
  BY DEF Put
<1> HIDE DEF b, e
<1>6. /\ Append(b, e) \in Seq(Entries)
      /\ \A i \in 1..Len(Append(b, e)) :
            Append(b, e)[i] = e \/ (i \in 1..Len(b) /\ Append(b, e)[i] = b[i])
  BY <1>2, <1>4
<1>7. Range(Append(b, e)) \subseteq Range(b) \union {e}
  <2> DEFINE u == Append(b, e)
  <2>1. /\ Range(u) = { u[i] : i \in 1..Len(u) }
        /\ Range(b) = { b[i] : i \in 1..Len(b) }
    BY <1>4, <1>6, RangeOf
  <2> HIDE DEF u
  <2>2. \A i \in 1..Len(u) : u[i] = e \/ (i \in 1..Len(b) /\ u[i] = b[i])
    BY <1>6 DEF u
  <2>3. Range(u) \subseteq Range(b) \union {e}
    BY <2>1, <2>2
  <2> QED BY <2>3 DEF u
<1> QED BY <1>4, <1>5, <1>7 DEF e

LEMMA StaleStep ==
    ASSUME TypeInv, [Next]_vars, content' = content, ~Tick, NEW e \in Range(cache')
    PROVE  Accounted(e)
<1>1. CacheOK(cache) /\ ContentOK
  BY DEF TypeInv
<1>2. CASE UNCHANGED cache
  BY <1>2 DEF Accounted
<1>3. ASSUME NEW q \in Queries
      PROVE  /\ cache' = Got(Key(q)) => Accounted(e)
             /\ cache' = Put(Got(Key(q)), Key(q), {}) => Accounted(e)
             /\ \A p \in Places :
                   cache' = Put(Got(Key(q)), Key(q), Answer(p, q)) => Accounted(e)
             /\ \A p \in Places :
                   cache' = Put(cache, Key(q), Answer(p, q)) => Accounted(e)
  <2>1. Key(q) \in Keys /\ CacheOK(Got(Key(q))) /\ Range(Got(Key(q))) \subseteq Range(cache)
    BY <1>1, GotKeeps, GotFrom DEF Keys
  <2>2. ASSUME NEW A \in SUBSET Docs, \A d \in A : d.collection = Key(q),
               NEW s, CacheOK(s), Range(s) \subseteq Range(cache),
               A = {} \/ \E p \in Places : A = Answer(p, q),
               cache' = Put(s, Key(q), A)
        PROVE  Accounted(e)
    <3>1. e \in Range(s) \/ e = [key |-> Key(q), answer |-> A, age |-> 0]
      BY <2>1, <2>2, PutFrom
    <3> QED BY <2>2, <3>1 DEF Accounted, True
  <2>3. \A p \in Places : /\ Answer(p, q) \in SUBSET Docs
                          /\ \A d \in Answer(p, q) : d.collection = Key(q)
    BY <1>1, AnswerFact
  <2>4. cache' = Got(Key(q)) => Accounted(e)
    BY <2>1 DEF Accounted
  <2>5. cache' = Put(Got(Key(q)), Key(q), {}) => Accounted(e)
    BY <2>1, <2>2
  <2>6. \A p \in Places : /\ cache' = Put(Got(Key(q)), Key(q), Answer(p, q)) => Accounted(e)
                          /\ cache' = Put(cache, Key(q), Answer(p, q)) => Accounted(e)
    BY <1>1, <2>1, <2>2, <2>3
  <2> QED BY <2>4, <2>5, <2>6
<1>4. ASSUME NEW s \in Stores, NEW q \in Queries,
             \/ SearchHits(q)
             \/ SearchRefused(s, q)
             \/ QdrantSearches(s, q)
             \/ QdrantSearchFails(s, q)
             \/ \E c \in Clients : MockSearchBegins(c, s, q)
      PROVE  Accounted(e)
  BY <1>3, <1>4, PlaceFact
     DEF SearchHits, SearchRefused, QdrantSearches, QdrantSearchFails, MockSearchBegins
<1>5. ASSUME NEW c \in Clients, MockSearches(c) PROVE Accounted(e)
  <2>1. task[c].store \in Places /\ task[c].query \in Queries
    BY <1>5, PlaceFact DEF MockSearches, TypeInv, TasksOK, Tasks, Idle
  <2>2. cache' = Put(cache, Key(task[c].query), Answer(task[c].store, task[c].query))
    BY <1>5 DEF MockSearches
  <2> QED BY <1>3, <2>1, <2>2
<1>6. ASSUME NEW s \in Stores, Search(s) PROVE Accounted(e)
  BY <1>4, <1>6 DEF Search
<1>7. ASSUME NEW s \in Stores, Write(s) PROVE UNCHANGED cache
  BY <1>7 DEF Write, QdrantInserts, MockInsertBegins, Update, Delete
<1>8. ASSUME NEW c \in Clients, Finish(c) PROVE Accounted(e)
  BY <1>2, <1>5, <1>8 DEF Finish, MockSearchFails, MockInserts
<1>9. ASSUME (\E s \in Qdrant : Connect(s) \/ Disconnect(s)) \/ UNCHANGED vars
      PROVE  UNCHANGED cache
  BY <1>9 DEF Connect, Disconnect, vars
<1> QED BY <1>2, <1>6, <1>7, <1>8, <1>9 DEF Next

LEMMA TickAges ==
    ASSUME CacheOK(cache), Tick, NEW e \in Range(cache')
    PROVE  \E o \in Range(cache) : /\ o.key = e.key /\ o.answer = e.answer
                                   /\ o.age <= e.age
                                   /\ Live(o) => o.age < e.age
<1>1. /\ cache \in Seq(Entries) /\ DOMAIN cache = 1..Len(cache)
  BY DEF CacheOK
<1>2. PICK i \in 1..Len(cache) :
         e = IF Live(cache[i]) THEN [cache[i] EXCEPT !.age = @ + 1] ELSE cache[i]
  BY <1>1 DEF Tick, Range
<1>3. cache[i] \in Entries /\ cache[i] \in Range(cache) /\ cache[i].age \in Nat
  BY <1>1, StoreAssumption DEF Range, Entries
<1> QED BY <1>2, <1>3 DEF Entries

\* For any of them: a hit does not renew what it finds, nor does any other step
\* bring in an answer that is not true, so that at most TTL + 1 ticks after the
\* last change of the documents no hit is stale.
THEOREM StaleAnswersRunOut == Spec => UntrueOnlyAges
<1>1. Init => TypeInv
  BY InitTypeInv
<1>2. TypeInv /\ [Next]_vars => TypeInv'
  BY NextTypeInv
<1>3. ASSUME TypeInv, [Next]_vars, content' = content,
             NEW e \in Range(cache'), e.answer # {}, ~True(e)
      PROVE  \E o \in Range(cache) :
                /\ o.key = e.key /\ o.answer = e.answer
                /\ o.age <= e.age
                /\ Tick /\ Live(o) => o.age < e.age
  <2>1. CASE Tick
    BY <1>3, <2>1, TickAges DEF TypeInv
  <2>2. CASE ~Tick
    <3>1. e \in Range(cache)
      BY <1>3, <2>2, StaleStep DEF Accounted
    <3>2. e.age \in Nat
      <4>1. cache \in Seq(Entries) /\ TTL \in Nat
        BY <1>3, StoreAssumption DEF TypeInv, CacheOK
      <4>2. e \in Entries
        BY <3>1, <4>1, RangeOf
      <4> QED BY <4>1, <4>2 DEF Entries
    <3> QED BY <2>2, <3>1, <3>2
  <2> QED BY <2>1, <2>2
<1>4. TypeInv /\ [Next]_vars =>
        [ content' = content =>
            \A e \in Range(cache') : e.answer # {} /\ ~True(e) =>
               \E o \in Range(cache) :
                  /\ o.key = e.key /\ o.answer = e.answer
                  /\ o.age <= e.age
                  /\ Tick /\ Live(o) => o.age < e.age ]_vars
  BY <1>3
<1> QED BY <1>1, <1>2, <1>4, PTL DEF Spec, UntrueOnlyAges

=============================================================================
