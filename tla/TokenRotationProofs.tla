------------------------ MODULE TokenRotationProofs ------------------------
(***************************************************************************)
(* Proofs about TokenRotation, for any tokens, administrators and length   *)
(* of names: the types, how many plans there are, that a revoked line      *)
(* stays so, and that plans are not forgotten.                             *)
(***************************************************************************)
EXTENDS TokenRotation, TLAPS

\* What is active has a name, so that a rotation of it has one to lengthen.
Named == \A t \in active : name[t] \in TokenNames

\* The plans for t in each stage of a cycle: between two cycles one at most; a
\* second is on its way, or made, while the analysis is scheduled; of the two
\* one at most is left for the next day.
Staged(t) ==
    /\ planned[t] <= 1
    /\ daemon.pc = "asleep" =>
           daemon.fresh[t] = 0 /\ daemon.due[t] = 0 /\ t \notin daemon.found
    /\ daemon.pc = "scheduling" =>
           /\ daemon.due[t] = 0
           /\ daemon.fresh[t] <= IF t \in daemon.found THEN 0 ELSE 1
    /\ daemon.pc \in {"executing", "notifying"} =>
           daemon.fresh[t] = 0 /\ planned[t] + daemon.due[t] <= 2

IInv == TypeOK /\ Named /\ \A t \in Ids : Staged(t)

DaemonStates ==
    [pc : {"asleep", "scheduling", "executing", "notifying"},
     found : SUBSET Ids, fresh : [Ids -> Nat], due : [Ids -> Nat], token : Ids]

AdminState ==
    [pc : {"idle", "rotating", "revoking", "emergency"},
     tokens : SUBSET Tokens, name : TokenNames \union {NoName}]

AdminStates == [Admins -> AdminState]

-----------------------------------------------------------------------------

LEMMA InitIInv == Init => IInv
<1> SUFFICES ASSUME Init PROVE IInv
  OBVIOUS
<1>1. NoPlans \in [Ids -> Nat] /\ \A t \in Ids : NoPlans[t] = 0
  BY DEF NoPlans
<1>2. Asleep \in DaemonStates
  BY <1>1 DEF Asleep, DaemonStates, Ids
<1>3. TypeOK
  BY <1>1, <1>2 DEF Init, TypeOK, DaemonStates, AtRest
<1>4. Named /\ \A t \in Ids : Staged(t)
  BY <1>1 DEF Init, Named, Staged, Asleep
<1> QED BY <1>3, <1>4 DEF IInv

\* A token is inserted into a row that is not active.
LEMMA InsertIInv ==
    ASSUME IInv, NEW t \in Tokens, NEW n \in TokenNames, NEW rows \in SUBSET active,
           Insert(t, n, rows)
    PROVE  /\ name' \in [Tokens -> TokenNames \union {NoName}]
           /\ active' \subseteq Tokens
           /\ Named'
  BY DEF IInv, TypeOK, Named, Insert

LEMMA CommitIInv ==
    ASSUME IInv, NEW t, NEW n \in TokenNames, CommitRotation(t, n)
    PROVE  /\ name' \in [Tokens -> TokenNames \union {NoName}]
           /\ active' \subseteq Tokens /\ aged' \subseteq active'
           /\ created' \subseteq Names
           /\ Named'
<1>1. [n EXCEPT !.rotations = @ + 1] \in TokenNames
  BY RotationAssumption DEF CommitRotation, Fits, TokenNames
<1>2. Unused \subseteq Tokens /\ Retired(t) \subseteq active
  BY DEF Unused, Retired
<1>3. aged' \subseteq active' /\ created' = created
  BY DEF CommitRotation
<1>4. CASE \E new \in Unused : Insert(new, [n EXCEPT !.rotations = @ + 1], Retired(t))
  BY <1>1, <1>2, <1>3, <1>4, InsertIInv DEF IInv, TypeOK
<1>5. CASE active' = Retired(t) /\ UNCHANGED name
  BY <1>2, <1>3, <1>5 DEF IInv, TypeOK, Named
<1> QED BY <1>4, <1>5 DEF CommitRotation

-----------------------------------------------------------------------------

\* Steps of the tokens and the administrators leave the plans alone.
LEMMA PlansKept ==
    ASSUME IInv, UNCHANGED <<planned, daemon>>
    PROVE  \A t \in Ids : Staged(t)'
BY DEF IInv, Staged

LEMMA TokenStepIInv ==
    ASSUME IInv, UNCHANGED <<planned, daemon, admin>>,
           (\E n \in Names : Create(n)) \/ (\E t \in Tokens : Age(t))
    PROVE  IInv'
<1>1. ASSUME NEW n \in Names, Create(n) PROVE TypeOK' /\ Named'
  <2>1. [line |-> n, rotations |-> 0] \in TokenNames
    BY RotationAssumption DEF TokenNames
  <2>2. Unused \subseteq Tokens
    BY DEF Unused
  <2>3. /\ name' \in [Tokens -> TokenNames \union {NoName}]
        /\ active' \subseteq Tokens /\ active \subseteq active'
        /\ Named'
    BY <1>1, <2>1, <2>2, InsertIInv DEF Create, Insert
  <2> QED BY <1>1, <2>3 DEF Create, IInv, TypeOK
<1>2. ASSUME NEW t \in Tokens, Age(t) PROVE TypeOK' /\ Named'
  BY <1>2 DEF Age, IInv, TypeOK, Named
<1> QED BY <1>1, <1>2, PlansKept DEF IInv

\* An administrator who begins knows the name of what is to be rotated.
LEMMA AdminMoves ==
    ASSUME IInv, UNCHANGED <<planned, daemon>>,
           /\ name' \in [Tokens -> TokenNames \union {NoName}]
           /\ active' \subseteq Tokens /\ aged' \subseteq active'
           /\ created' \subseteq Names
           /\ Named',
           NEW a \in Admins, NEW s, admin' = [admin EXCEPT ![a] = s],
           s \in AdminState,
           s.pc = "rotating" => s.name # NoName
    PROVE  IInv'
<1>1. admin' \in AdminStates
  BY DEF IInv, TypeOK, AdminState, AdminStates
<1>2. \A b \in Admins : admin'[b].pc = "rotating" => admin'[b].name # NoName
  BY DEF IInv, TypeOK
<1>3. TypeOK'
  BY <1>1, <1>2 DEF IInv, TypeOK, AdminState, AdminStates
<1> QED BY <1>3, PlansKept DEF IInv

LEMMA AdminStepIInv ==
    ASSUME IInv, NEW a \in Admins, AdminStep(a)
    PROVE  IInv'
<1>1. AtRest \in AdminState /\ AtRest.pc # "rotating"
  BY DEF AtRest, AdminState
<1>2. CASE Rotate(a)
  <2>1. admin[a].tokens \subseteq Tokens /\ admin[a].name \in TokenNames
    BY <1>2 DEF Rotate, IInv, TypeOK
  <2>2. PICK t \in admin[a].tokens : CommitRotation(t, admin[a].name)
    BY <1>2 DEF Rotate
  <2> QED BY <1>1, <1>2, <2>1, <2>2, CommitIInv, AdminMoves DEF Rotate
<1>3. CASE Revoke(a)
  BY <1>1, <1>3, AdminMoves DEF Revoke, IInv, TypeOK, Named
<1>4. CASE RollBack(a)
  BY <1>1, <1>4, AdminMoves DEF RollBack, table, IInv, TypeOK, Named
<1>5. CASE (\E t \in Tokens : BeginRevocation(a, t)) \/ BeginEmergency(a)
  <2>1. PICK s \in AdminState : s.pc # "rotating" /\ admin' = [admin EXCEPT ![a] = s]
    BY <1>5 DEF BeginRevocation, BeginEmergency, AdminState
  <2> QED BY <1>5, <2>1, AdminMoves
          DEF BeginRevocation, BeginEmergency, table, IInv, TypeOK, Named
<1>6. ASSUME NEW t \in Tokens, BeginRotation(a, t) PROVE IInv'
  <2>1. name[t] \in TokenNames /\ name[t] # NoName
    BY <1>6, RotationAssumption DEF BeginRotation, Rotatable, IInv, Named
  <2> QED BY <1>6, <2>1, AdminMoves DEF BeginRotation, table, IInv, TypeOK, Named, AdminState
<1> QED BY <1>2, <1>3, <1>4, <1>5, <1>6 DEF AdminStep

-----------------------------------------------------------------------------

\* Steps of the daemon that leave the tokens as they are.
LEMMA DaemonMoves ==
    ASSUME IInv, UNCHANGED <<table, admin>>,
           daemon' \in DaemonStates, planned' \in [Ids -> Nat],
           \A t \in Ids : Staged(t)'
    PROVE  IInv'
BY DEF IInv, TypeOK, Named, table, DaemonStates

LEMMA CycleStartsIInv ==
    ASSUME IInv, \/ \E tokens \in {Due, {}} : Analyze(tokens)
                 \/ \E t \in Ids : Schedule(t) \/ TooLate(t)
                 \/ ListDue
    PROVE  IInv'
<1>1. daemon \in DaemonStates /\ planned \in [Ids -> Nat]
  BY DEF IInv, TypeOK, DaemonStates
<1>2. ASSUME NEW tokens \in {Due, {}}, Analyze(tokens) PROVE IInv'
  <2> DEFINE found == IF tokens = {} THEN {MockId} ELSE tokens
  <2>1. found \subseteq Ids
    BY DEF Due, Ids, IInv, TypeOK
  <2>2. daemon' = [daemon EXCEPT !.pc = "scheduling", !.found = found]
    BY <1>2 DEF Analyze
  <2>3. /\ daemon' \in DaemonStates /\ daemon'.pc = "scheduling"
        /\ daemon'.fresh = daemon.fresh /\ daemon'.due = daemon.due
    BY <1>1, <2>1, <2>2 DEF DaemonStates
  <2>4. daemon.pc = "asleep" /\ planned' = planned
    BY <1>2 DEF Analyze
  <2>5. \A t \in Ids : Staged(t)'
    BY <2>3, <2>4 DEF IInv, Staged
  <2> QED BY <1>1, <1>2, <2>3, <2>4, <2>5, DaemonMoves DEF Analyze
<1>3. ASSUME NEW u \in Ids, Schedule(u) PROVE IInv'
  <2>1. daemon' = [daemon EXCEPT !.found = @ \ {u}, !.fresh[u] = @ + 1]
    BY <1>3 DEF Schedule
  <2> DEFINE fresh == [daemon.fresh EXCEPT ![u] = @ + 1]
  <2>2. /\ daemon.pc = "scheduling" /\ u \in daemon.found /\ planned' = planned
        /\ daemon.fresh \in [Ids -> Nat]
    BY <1>1, <1>3 DEF Schedule, DaemonStates
  <2>3. fresh \in [Ids -> Nat]
    BY <2>2
  <2>4. daemon' = [daemon EXCEPT !.found = @ \ {u}, !.fresh = fresh]
    BY <2>1
  <2>5. /\ daemon' \in DaemonStates /\ daemon'.pc = "scheduling"
        /\ daemon'.found = daemon.found \ {u} /\ daemon'.due = daemon.due
        /\ daemon'.fresh = fresh
    <3> HIDE DEF fresh
    <3> QED BY <1>1, <2>2, <2>3, <2>4 DEF DaemonStates
  <2>6. ASSUME NEW t \in Ids PROVE Staged(t)'
    <3>1. fresh[t] = IF t = u THEN daemon.fresh[u] + 1 ELSE daemon.fresh[t]
      BY <2>2
    <3> HIDE DEF fresh
    <3>2. Staged(t) /\ Staged(u)
      BY DEF IInv
    <3> QED BY <2>2, <2>5, <3>1, <3>2 DEF Staged
  <2> QED BY <1>1, <1>3, <2>5, <2>6, DaemonMoves DEF Schedule
<1>4. ASSUME NEW u \in Ids, TooLate(u) PROVE IInv'
  <2>1. /\ daemon' \in DaemonStates /\ daemon'.pc = "scheduling"
        /\ daemon'.found = daemon.found \ {u} /\ daemon'.due = daemon.due
        /\ daemon'.fresh = daemon.fresh
    BY <1>1, <1>4 DEF TooLate, DaemonStates
  <2>2. \A t \in Ids : Staged(t)'
    BY <1>1, <1>4, <2>1 DEF TooLate, IInv, Staged, DaemonStates
  <2> QED BY <1>1, <1>4, <2>1, <2>2, DaemonMoves DEF TooLate
<1>5. CASE ListDue
  <2>1. PICK late \in BOOLEAN :
          LET due == [t \in Ids |-> planned[t] + IF late THEN daemon.fresh[t] ELSE 0]
          IN  /\ daemon' = [daemon EXCEPT !.pc = "executing", !.due = due, !.fresh = NoPlans]
              /\ planned' = [t \in Ids |-> StillPlanned(due, t)]
    BY <1>5 DEF ListDue
  <2> DEFINE due == [t \in Ids |-> planned[t] + IF late THEN daemon.fresh[t] ELSE 0]
  <2>2. due \in [Ids -> Nat]
    BY <1>1 DEF DaemonStates
  <2>3. NoPlans \in [Ids -> Nat] /\ \A t \in Ids : NoPlans[t] = 0
    BY DEF NoPlans
  <2>4. /\ daemon' \in DaemonStates /\ daemon'.pc = "executing"
        /\ daemon'.fresh = NoPlans /\ daemon'.due = due
    BY <1>1, <2>1, <2>2, <2>3 DEF DaemonStates
  <2>5. ASSUME NEW t \in Ids
        PROVE  /\ planned'[t] \in Nat /\ planned'[t] <= 1
               /\ planned'[t] + due[t] <= 2
    <3>1. daemon.fresh[t] \in Nat /\ planned[t] \in Nat
      BY <1>1 DEF DaemonStates
    <3>2. planned[t] <= 1 /\ daemon.fresh[t] <= 1
      BY <1>5, <3>1 DEF ListDue, IInv, Staged
    <3>3. due[t] = planned[t] + IF late THEN daemon.fresh[t] ELSE 0
      OBVIOUS
    <3>4. planned'[t] = planned[t] + daemon.fresh[t] - due[t]
      BY <2>1 DEF StillPlanned
    <3> HIDE DEF due
    <3> QED BY <3>1, <3>2, <3>3, <3>4
  <2>6. planned' \in [Ids -> Nat]
    BY <2>1, <2>5
  <2>7. \A t \in Ids : Staged(t)'
    BY <2>3, <2>4, <2>5 DEF Staged
  <2> QED BY <1>5, <2>4, <2>6, <2>7, DaemonMoves DEF ListDue
<1> QED BY <1>2, <1>3, <1>4, <1>5

LEMMA PlanExecutesIInv ==
    ASSUME IInv, (\E t \in Ids : Start(t)) \/ NotRotated \/ Sleep
    PROVE  IInv'
<1>1. daemon \in DaemonStates /\ planned \in [Ids -> Nat]
  BY DEF IInv, TypeOK, DaemonStates
<1>2. ASSUME NEW u \in Ids, Start(u) PROVE IInv'
  <2>1. daemon' = [daemon EXCEPT !.pc = "notifying", !.token = u, !.due[u] = @ - 1]
    BY <1>2 DEF Start
  <2>2. daemon.due[u] - 1 \in Nat
    <3>1. daemon.due[u] \in Nat
      BY <1>1 DEF DaemonStates
    <3>2. daemon.due[u] > 0
      BY <1>2 DEF Start
    <3> QED BY <3>1, <3>2
  <2> DEFINE due == [daemon.due EXCEPT ![u] = @ - 1]
  <2>3. /\ daemon' \in DaemonStates /\ daemon'.pc = "notifying"
        /\ daemon'.due = due /\ daemon'.fresh = daemon.fresh
    <3>1. due \in [Ids -> Nat]
      BY <1>1, <2>2 DEF DaemonStates
    <3>2. daemon' = [daemon EXCEPT !.pc = "notifying", !.token = u, !.due = due]
      BY <2>1
    <3> HIDE DEF due
    <3> QED BY <1>1, <3>1, <3>2 DEF DaemonStates
  <2>4. ASSUME NEW t \in Ids PROVE Staged(t)'
    <3>1. daemon.pc = "executing" /\ planned' = planned
      BY <1>2 DEF Start
    <3>2. daemon.due[t] \in Nat /\ planned[t] \in Nat
      BY <1>1 DEF DaemonStates
    <3>3. due[t] = IF t = u THEN daemon.due[t] - 1 ELSE daemon.due[t]
      BY <1>1 DEF DaemonStates
    <3> HIDE DEF due
    <3> QED BY <2>3, <3>1, <3>2, <3>3 DEF IInv, Staged
  <2> QED BY <1>1, <1>2, <2>3, <2>4, DaemonMoves DEF Start
<1>3. CASE NotRotated
  <2>1. /\ daemon.pc = "notifying" /\ daemon'.pc = "executing" /\ planned' = planned
        /\ daemon' \in DaemonStates
        /\ daemon'.fresh = daemon.fresh /\ daemon'.due = daemon.due
    BY <1>1, <1>3 DEF NotRotated, DaemonStates, Ids
  <2>2. \A t \in Ids : Staged(t)'
    BY <2>1 DEF IInv, Staged
  <2> QED BY <1>1, <1>3, <2>1, <2>2, DaemonMoves DEF NotRotated
<1>4. CASE Sleep
  <2>1. NoPlans \in [Ids -> Nat] /\ \A t \in Ids : NoPlans[t] = 0
    BY DEF NoPlans
  <2>2. /\ Asleep \in DaemonStates /\ Asleep.pc = "asleep" /\ Asleep.found = {}
        /\ Asleep.fresh = NoPlans /\ Asleep.due = NoPlans
    BY <2>1 DEF Asleep, DaemonStates, Ids
  <2>3. \A t \in Ids : Staged(t)'
    BY <1>4, <2>1, <2>2 DEF Sleep, IInv, Staged
  <2> QED BY <1>1, <1>4, <2>2, <2>3, DaemonMoves DEF Sleep
<1> QED BY <1>2, <1>3, <1>4

LEMMA RestartIInv == IInv /\ Restart => IInv'
<1> SUFFICES ASSUME IInv, Restart PROVE IInv'
  OBVIOUS
<1>1. NoPlans \in [Ids -> Nat] /\ \A t \in Ids : NoPlans[t] = 0
  BY DEF NoPlans
<1>2. /\ Asleep \in DaemonStates /\ Asleep.pc = "asleep" /\ Asleep.found = {}
      /\ Asleep.fresh = NoPlans /\ Asleep.due = NoPlans
  BY <1>1 DEF Asleep, DaemonStates, Ids
<1>3. \A t \in Ids : Staged(t)'
  BY <1>1, <1>2 DEF Restart, Staged
<1> QED BY <1>1, <1>2, <1>3, DaemonMoves DEF Restart

-----------------------------------------------------------------------------

LEMMA NextIInv == IInv /\ [Next]_vars => IInv'
<1> SUFFICES ASSUME IInv, [Next]_vars PROVE IInv'
  OBVIOUS
<1>1. CASE (\E n \in Names : Create(n)) \/ (\E t \in Tokens : Age(t))
  <2>1. UNCHANGED <<planned, daemon, admin>>
    BY <1>1 DEF Create, Age
  <2> QED BY <1>1, <2>1, TokenStepIInv
<1>2. CASE \E a \in Admins : AdminStep(a)
  BY <1>2, AdminStepIInv
<1>3. CASE DaemonStep
  <2>1. CASE \/ Analyze(Due) \/ AnalysisFails
             \/ \E t \in Ids : Schedule(t) \/ TooLate(t)
             \/ ListDue
    BY <2>1, CycleStartsIInv DEF AnalysisFails
  <2>2. CASE (\E t \in Ids : Start(t)) \/ NotRotated \/ Sleep
    BY <2>2, PlanExecutesIInv
  <2> QED BY <1>3, <2>1, <2>2 DEF DaemonStep
<1>4. CASE Restart
  BY <1>4, RestartIInv
<1>5. CASE UNCHANGED vars
  BY <1>5 DEF vars, table, IInv, TypeOK, Named, Staged
<1> QED BY <1>1, <1>2, <1>3, <1>4, <1>5 DEF Next

LEMMA Invariance == Spec => []IInv
BY InitIInv, NextIInv, PTL DEF Spec

\* Whatever fails and however steps interleave, the variables keep their types,
\* and a rotation that is committed has the name of a row it lengthens.
THEOREM TypeCorrect == Spec => []TypeOK
<1>1. IInv => TypeOK
  BY DEF IInv
<1> QED BY <1>1, Invariance, PTL

\* For any number of tokens: a token planned again on the day its plan is has
\* two plans, never three, although no step looks at the plans there are.
THEOREM PlansStayFew == Spec => []PlansDoNotPileUp
<1>1. IInv => PlansDoNotPileUp
  <2> SUFFICES ASSUME IInv, NEW t \in Ids
               PROVE  /\ planned[t] + daemon.fresh[t] + daemon.due[t] <= 2
                      /\ daemon.pc = "asleep" => planned[t] <= 1
    BY DEF PlansDoNotPileUp
  <2>1. /\ planned[t] \in Nat /\ daemon.fresh[t] \in Nat /\ daemon.due[t] \in Nat
        /\ daemon.pc \in {"asleep", "scheduling", "executing", "notifying"}
    BY DEF IInv, TypeOK
  <2>2. Staged(t)
    BY DEF IInv
  <2>3. CASE daemon.pc = "scheduling"
    <3>1. daemon.fresh[t] <= 1 /\ daemon.due[t] = 0 /\ planned[t] <= 1
      BY <2>1, <2>2, <2>3 DEF Staged
    <3> QED BY <2>1, <2>3, <3>1
  <2> QED BY <2>1, <2>2, <2>3 DEF Staged
<1> QED BY <1>1, Invariance, PTL

-----------------------------------------------------------------------------
(* What is revoked stays so. *)

\* A successor's name begins with its predecessor's, which is not n's.
LEMMA CommitKeepsGone ==
    ASSUME NEW n \in Names, NEW t, NEW m \in TokenNames,
           \A u \in active : name[u].line # n,
           name \in [Tokens -> TokenNames \union {NoName}], active \subseteq Tokens,
           m.line # n, CommitRotation(t, m)
    PROVE  created' = created /\ \A u \in active' : name'[u].line # n
<1>1. [m EXCEPT !.rotations = @ + 1].line # n
  BY DEF TokenNames
<1>2. Unused \subseteq Tokens \ active /\ Retired(t) \subseteq active
  BY DEF Unused, Retired
<1> QED BY <1>1, <1>2 DEF CommitRotation, Insert

LEMMA GoneStep ==
    ASSUME IInv, [Next]_vars, NEW n \in Names, Gone(n)
    PROVE  Gone(n)'
<1>1. /\ name \in [Tokens -> TokenNames \union {NoName}] /\ active \subseteq Tokens
      /\ admin \in AdminStates
      /\ \A a \in Admins : admin[a].pc = "rotating" => admin[a].name # NoName
  BY DEF IInv, TypeOK, AdminState, AdminStates
<1>2. /\ n \in created /\ \A u \in active : name[u].line # n
      /\ \A a \in Admins : admin[a].pc = "rotating" => admin[a].name.line # n
  BY DEF Gone, Rotating
<1>3. ASSUME n \in created', \A u \in active' : name'[u].line # n,
             \A a \in Admins : admin'[a].pc = "rotating" => admin'[a].name.line # n
      PROVE  Gone(n)'
  BY <1>3 DEF Gone, Rotating
<1>4. ASSUME NEW m \in Names, Create(m) PROVE Gone(n)'
  <2>1. m # n /\ created' = created \union {m} /\ UNCHANGED admin
    BY <1>2, <1>4 DEF Create
  <2>2. Unused \subseteq Tokens \ active
    BY DEF Unused
  <2>3. \A u \in active' : name'[u].line # n
    BY <1>1, <1>2, <1>4, <2>1, <2>2 DEF Create, Insert
  <2> QED BY <1>2, <1>3, <2>1, <2>3
<1>5. ASSUME NEW a \in Admins, AdminStep(a) PROVE Gone(n)'
  <2>1. AtRest.pc # "rotating"
    BY DEF AtRest
  <2>2. ASSUME UNCHANGED table, NEW s, admin' = [admin EXCEPT ![a] = s],
               s.pc = "rotating" => s.name.line # n
        PROVE  Gone(n)'
    BY <1>1, <1>2, <1>3, <2>2 DEF table, AdminStates
  <2>3. CASE Rotate(a)
    <3>1. admin[a].name \in TokenNames /\ admin[a].name.line # n
      BY <1>1, <1>2, <2>3 DEF Rotate, AdminState, AdminStates
    <3>2. created' = created /\ \A u \in active' : name'[u].line # n
      BY <1>1, <1>2, <2>3, <3>1, CommitKeepsGone DEF Rotate
    <3>3. admin' = [admin EXCEPT ![a] = AtRest]
      BY <2>3 DEF Rotate
    <3> QED BY <1>1, <1>2, <1>3, <2>1, <3>2, <3>3 DEF AdminStates
  <2>4. CASE Revoke(a)
    BY <1>1, <1>2, <1>3, <2>1, <2>4 DEF Revoke, AdminStates
  <2>5. CASE RollBack(a)
    BY <2>1, <2>2, <2>5 DEF RollBack
  <2>6. CASE (\E t \in Tokens : BeginRevocation(a, t)) \/ BeginEmergency(a)
    <3>1. PICK s : s.pc # "rotating" /\ admin' = [admin EXCEPT ![a] = s]
      BY <2>6 DEF BeginRevocation, BeginEmergency
    <3> QED BY <2>2, <2>6, <3>1 DEF BeginRevocation, BeginEmergency
  <2>7. ASSUME NEW t \in Tokens, BeginRotation(a, t) PROVE Gone(n)'
    <3>1. name[t].line # n
      BY <1>2, <2>7 DEF BeginRotation, Rotatable
    <3> QED BY <2>2, <2>7, <3>1 DEF BeginRotation
  <2> QED BY <1>5, <2>3, <2>4, <2>5, <2>6, <2>7 DEF AdminStep
<1>6. ASSUME UNCHANGED <<name, active, created, admin>> PROVE Gone(n)'
  BY <1>2, <1>3, <1>6
<1>7. CASE \/ \E t \in Tokens : Age(t)
           \/ DaemonStep \/ Restart \/ UNCHANGED vars
  BY <1>6, <1>7 DEF Age, DaemonStep, Analyze, AnalysisFails, Schedule, TooLate, Start, ListDue,
                    NotRotated, Sleep, Restart, vars, table
<1> QED BY <1>4, <1>5, <1>7 DEF Next

\* A line of tokens that is revoked, with no rotation of it begun, has no active
\* token ever again: the daemon's plans, requests for the inactive row and tokens
\* created later do not give it one.
THEOREM RevokedStaysGone == Spec => RevokedForGood
<1>1. IInv /\ [Next]_vars => [\A n \in Names : Gone(n) => Gone(n)']_vars
  BY GoneStep
<1> QED BY <1>1, Invariance, PTL DEF Spec, RevokedForGood

-----------------------------------------------------------------------------
(* Plans are not forgotten. *)

\* The daemon has the token t on its list, or has a plan for it that is to come.
InHand(t) ==
    \/ t \in daemon.found
    \/ planned[t] + daemon.fresh[t] + daemon.due[t] > 0

\* The list is worked off before plans are executed.
NothingFound == daemon.pc # "scheduling" => daemon.found = {}

HandInv == IInv /\ NothingFound

\* What becomes of the plan for a token in one step.
StaysInHand(t) == InHand(t) /\ ~Misfortune => InHand(t)' \/ Tried(t)'

Carried == NothingFound' /\ \A t \in Tokens : StaysInHand(t)

LEMMA CycleStartsCarried ==
    ASSUME HandInv, \/ \E tokens \in {Due, {}} : Analyze(tokens)
                    \/ \E t \in Ids : Schedule(t) \/ TooLate(t)
                    \/ ListDue
    PROVE  Carried
<1>1. daemon \in DaemonStates /\ planned \in [Ids -> Nat] /\ Tokens \subseteq Ids
  BY DEF HandInv, IInv, TypeOK, DaemonStates, Ids
<1>2. \A t \in Ids : planned[t] \in Nat /\ daemon.fresh[t] \in Nat /\ daemon.due[t] \in Nat
  BY <1>1 DEF DaemonStates
<1>3. ASSUME NEW tokens, Analyze(tokens) PROVE Carried
  <2>1. /\ daemon'.pc = "scheduling" /\ daemon.pc = "asleep" /\ planned' = planned
        /\ daemon'.fresh = daemon.fresh /\ daemon'.due = daemon.due
    BY <1>1, <1>3 DEF Analyze, DaemonStates
  <2>2. daemon.found = {}
    BY <2>1 DEF HandInv, NothingFound
  <2> QED BY <2>1, <2>2 DEF Carried, NothingFound, StaysInHand, InHand
<1>4. ASSUME NEW u \in Ids, Schedule(u) PROVE Carried
  <2>1. /\ daemon'.pc = "scheduling" /\ planned' = planned
        /\ daemon'.found = daemon.found \ {u} /\ daemon'.due = daemon.due
        /\ daemon'.fresh = [daemon.fresh EXCEPT ![u] = @ + 1]
    BY <1>1, <1>4 DEF Schedule, DaemonStates
  <2>2. ASSUME NEW t \in Tokens, InHand(t) PROVE InHand(t)'
    <3>1. daemon'.fresh[t] = IF t = u THEN daemon.fresh[t] + 1 ELSE daemon.fresh[t]
      BY <1>1, <2>1 DEF DaemonStates
    <3>2. CASE t = u
      <4>1. planned'[t] + daemon'.fresh[t] + daemon'.due[t] > 0
        BY <1>1, <1>2, <2>1, <3>1, <3>2
      <4> QED BY <4>1 DEF InHand
    <3>3. CASE t # u
      BY <2>1, <2>2, <3>1, <3>3 DEF InHand
    <3> QED BY <3>2, <3>3
  <2> QED BY <2>1, <2>2 DEF Carried, NothingFound, StaysInHand
<1>5. ASSUME NEW u \in Ids, TooLate(u) PROVE Carried
  <2>1. /\ daemon'.pc = "scheduling" /\ planned' = planned
        /\ daemon'.found = daemon.found \ {u} /\ daemon'.due = daemon.due
        /\ daemon'.fresh = daemon.fresh
    BY <1>1, <1>5 DEF TooLate, DaemonStates
  <2>2. u \in Tokens => Misfortune
    BY <1>5 DEF Misfortune
  <2>3. ASSUME NEW t \in Tokens, InHand(t), ~Misfortune PROVE InHand(t)'
    BY <2>1, <2>2, <2>3 DEF InHand
  <2> QED BY <2>1, <2>3 DEF Carried, NothingFound, StaysInHand
<1>6. CASE ListDue
  <2>1. PICK late \in BOOLEAN :
          LET due == [t \in Ids |-> planned[t] + IF late THEN daemon.fresh[t] ELSE 0]
          IN  /\ daemon' = [daemon EXCEPT !.pc = "executing", !.due = due, !.fresh = NoPlans]
              /\ planned' = [t \in Ids |-> StillPlanned(due, t)]
    BY <1>6 DEF ListDue
  <2> DEFINE due == [t \in Ids |-> planned[t] + IF late THEN daemon.fresh[t] ELSE 0]
  <2>2. /\ daemon.pc = "scheduling" /\ daemon.found = {} /\ daemon'.pc = "executing"
        /\ daemon'.found = {} /\ daemon'.fresh = NoPlans /\ daemon'.due = due
    BY <1>1, <1>6, <2>1 DEF ListDue, DaemonStates
  <2>3. ASSUME NEW t \in Ids
        PROVE  planned'[t] + daemon'.fresh[t] + daemon'.due[t]
               = planned[t] + daemon.fresh[t]
    <3>1. /\ daemon'.due[t] = planned[t] + IF late THEN daemon.fresh[t] ELSE 0
          /\ daemon'.fresh[t] = 0
      BY <2>2 DEF NoPlans
    <3>2. planned'[t] = planned[t] + daemon.fresh[t] - daemon'.due[t]
      BY <2>1, <2>2 DEF StillPlanned
    <3> QED BY <1>2, <3>1, <3>2
  <2>4. ASSUME NEW t \in Tokens, InHand(t) PROVE InHand(t)'
    <3>1. t \in Ids /\ daemon.due[t] = 0
      BY <1>1, <2>2 DEF HandInv, IInv, Staged
    <3>2. planned[t] + daemon.fresh[t] > 0
      BY <1>2, <2>2, <2>4, <3>1 DEF InHand
    <3> QED BY <2>3, <3>1, <3>2 DEF InHand
  <2> QED BY <2>2, <2>4 DEF Carried, NothingFound, StaysInHand
<1> QED BY <1>3, <1>4, <1>5, <1>6

LEMMA PlanExecutesCarried ==
    ASSUME HandInv, (\E t \in Ids : Start(t)) \/ NotRotated \/ Sleep
    PROVE  Carried
<1>1. daemon \in DaemonStates /\ planned \in [Ids -> Nat] /\ Tokens \subseteq Ids
  BY DEF HandInv, IInv, TypeOK, DaemonStates, Ids
<1>2. \A t \in Ids : planned[t] \in Nat /\ daemon.fresh[t] \in Nat /\ daemon.due[t] \in Nat
  BY <1>1 DEF DaemonStates
<1>3. daemon.found = {}
  BY DEF Start, NotRotated, Sleep, HandInv, NothingFound
<1>4. ASSUME NEW u \in Ids, Start(u) PROVE Carried
  <2>1. /\ daemon'.pc = "notifying" /\ daemon'.token = u
        /\ daemon'.found = {} /\ daemon'.fresh = daemon.fresh /\ planned' = planned
        /\ daemon'.due = [daemon.due EXCEPT ![u] = @ - 1]
    BY <1>1, <1>3, <1>4 DEF Start, DaemonStates
  <2>2. ASSUME NEW t \in Tokens, InHand(t), t # u PROVE InHand(t)'
    <3>1. daemon'.due[t] = daemon.due[t]
      BY <1>1, <2>1, <2>2 DEF DaemonStates
    <3> QED BY <1>3, <2>1, <2>2, <3>1 DEF InHand
  <2>3. Tried(u)'
    BY <2>1 DEF Tried
  <2> QED BY <2>1, <2>2, <2>3 DEF Carried, NothingFound, StaysInHand
<1>5. CASE NotRotated
  <2>1. /\ daemon'.pc = "executing" /\ daemon'.found = daemon.found /\ planned' = planned
        /\ daemon'.fresh = daemon.fresh /\ daemon'.due = daemon.due
    BY <1>1, <1>5 DEF NotRotated, DaemonStates
  <2> QED BY <1>3, <2>1 DEF Carried, NothingFound, StaysInHand, InHand
<1>6. CASE Sleep
  <2>1. /\ daemon.pc = "executing" /\ daemon.due = NoPlans /\ planned' = planned
        /\ daemon'.pc = "asleep" /\ daemon'.found = {}
        /\ daemon'.fresh = NoPlans /\ daemon'.due = NoPlans
    BY <1>6 DEF Sleep, Asleep
  <2>2. ASSUME NEW t \in Tokens, InHand(t) PROVE InHand(t)'
    <3>1. daemon.fresh[t] = 0 /\ daemon'.fresh[t] = 0
      BY <1>1, <2>1 DEF HandInv, IInv, Staged, NoPlans
    <3> QED BY <1>3, <2>1, <2>2, <3>1 DEF InHand
  <2> QED BY <2>1, <2>2 DEF Carried, NothingFound, StaysInHand
<1> QED BY <1>4, <1>5, <1>6

LEMMA StepCarried == ASSUME HandInv, [Next]_vars PROVE Carried
<1>1. CASE \/ \E n \in Names : Create(n)
           \/ \E t \in Tokens : Age(t)
           \/ \E a \in Admins : AdminStep(a)
           \/ UNCHANGED vars
  <2>1. UNCHANGED <<planned, daemon>>
    BY <1>1 DEF Create, Age, AdminStep, Rotate, Revoke, RollBack, BeginRevocation,
                BeginEmergency, BeginRotation, vars
  <2> QED BY <2>1 DEF HandInv, NothingFound, Carried, StaysInHand, InHand
<1>2. CASE DaemonStep
  <2>1. CASE \/ Analyze(Due) \/ AnalysisFails
             \/ \E t \in Ids : Schedule(t) \/ TooLate(t)
             \/ ListDue
    BY <2>1, CycleStartsCarried DEF AnalysisFails
  <2>2. CASE (\E t \in Ids : Start(t)) \/ NotRotated \/ Sleep
    BY <2>2, PlanExecutesCarried
  <2> QED BY <1>2, <2>1, <2>2 DEF DaemonStep
<1>3. CASE Restart /\ ~Sleep
  BY <1>3 DEF Restart, Asleep, Misfortune, Carried, NothingFound, StaysInHand
<1>4. CASE Sleep
  BY <1>4, PlanExecutesCarried
<1> QED BY <1>1, <1>2, <1>3, <1>4 DEF Next

\* A token that is on the daemon's list, or has a plan, keeps its place or its
\* plan until the plan's execution starts, unless something of Misfortune happens
\* to the daemon: a plan is neither overlooked from one cycle to the next nor
\* overwritten by a second one.  This is the safety half of DueIsTried.
PlannedIsTried == [][ \A t \in Tokens : StaysInHand(t) ]_vars

THEOREM PlansAreTried == Spec => PlannedIsTried
<1>1. Init => HandInv
  BY InitIInv DEF HandInv, Init, Asleep, NothingFound
<1>2. HandInv /\ [Next]_vars => HandInv' /\ [\A t \in Tokens : StaysInHand(t)]_vars
  BY StepCarried, NextIInv DEF HandInv, Carried
<1> QED BY <1>1, <1>2, PTL DEF Spec, PlannedIsTried

=============================================================================
