--------------------------- MODULE TokenRotation ---------------------------
(***************************************************************************)
(* Service tokens and the daemon that rotates them                         *)
(* (src/automation/token_rotation_scheduler.py and                         *)
(* src/auth/service_token_manager.py).                                     *)
(*                                                                         *)
(* The plans live in the memory of the daemon, the tokens in a database    *)
(* that administrators change at the same time.  A transaction is the step *)
(* of its first read and the step of its commit, as READ COMMITTED has it. *)
(***************************************************************************)
EXTENDS Integers

CONSTANTS
    Names,    \* names tokens are created under; a successor's begins with one
    Flagged,  \* those whose metadata say requires_rotation
    Tokens,   \* rows there may be at a time, of active tokens and of the
              \* inactive ones that a plan or a transaction still refers to
    MaxRotations, \* of a token's line: each makes the name longer, by 24 of the
              \* 255 characters there are
    Admins,   \* users of the API and of scripts/service_token_management.py
    NoName,   \* of rows that have not been used
    MockId    \* token_id of the plan that is made up when no token is due

\* A name: the one its line began with, and how often it has been lengthened.
TokenNames == [line : Names, rotations : 0..MaxRotations]

ASSUME RotationAssumption ==
    /\ Flagged \subseteq Names
    /\ MaxRotations \in Nat
    /\ NoName \notin TokenNames
    /\ MockId \notin Tokens

Ids == Tokens \union {MockId}

VARIABLES
    name,     \* token_name
    active,   \* is_active
    aged,     \* the active tokens old or used enough to be rotated
    created,  \* names of lines that have been given, for good: they are unique
    planned,  \* how many plans of _rotation_plans have status "planned"
    daemon,   \* what the daemon is doing
    admin     \* what each administrator is doing

table == <<name, active, aged, created>>
vars  == <<table, planned, daemon, admin>>

\* What analyze_tokens_for_rotation selects: a successor has its predecessor's
\* metadata, flag included, but is new.
Due == { t \in active : t \in aged \/ name[t].line \in Flagged }

NoPlans == [t \in Ids |-> 0]

\* found are tokens whose plan is not scheduled yet, fresh the plans scheduled
\* in this cycle, due those to execute in it.
Asleep == [pc |-> "asleep", found |-> {}, fresh |-> NoPlans, due |-> NoPlans,
           token |-> MockId]

AtRest == [pc |-> "idle", tokens |-> {}, name |-> NoName]

Init ==
    /\ name = [t \in Tokens |-> NoName]
    /\ active = {}
    /\ aged = {}
    /\ created = {}
    /\ planned = NoPlans
    /\ daemon = Asleep
    /\ admin = [a \in Admins |-> AtRest]

-----------------------------------------------------------------------------
(* The service tokens. *)

\* An identifier of a row that nobody knows.
Unused ==
    { t \in Tokens \ active :
        /\ planned[t] + daemon.fresh[t] + daemon.due[t] = 0
        /\ t \notin daemon.found \union {daemon.token}
        /\ \A a \in Admins : t \notin admin[a].tokens }

\* The row t for a token called n, beside those in rows.
Insert(t, n, rows) ==
    /\ name' = [name EXCEPT ![t] = n]
    /\ active' = rows \union {t}

\* create_service_token: a name that some row has, active or not, is refused.
Create(n) ==
    /\ n \notin created
    /\ \E t \in Unused : Insert(t, [line |-> n, rotations |-> 0], active)
    /\ created' = created \union {n}
    /\ UNCHANGED <<aged, planned, daemon, admin>>

\* A token is used, or gets old.
Age(t) ==
    /\ t \in active \ aged
    /\ aged' = aged \union {t}
    /\ UNCHANGED <<name, active, created, planned, daemon, admin>>

\* The first statement of rotate_service_token.
Rotatable_Fault(t) == t \in Tokens /\ name[t] # NoName
Rotatable_NoRow_Fault(t) == t \in Tokens
Rotatable(t) == t \in active

Retired_Fault(t) == active
Retired(t) == active \ {t}

Fits(n) == n.rotations < MaxRotations

\* Its commit: the successor is added and the old token, of name n, deactivated,
\* by its id, whether it is active still or not.  With no row left the successor
\* is out of the model's sight.
CommitRotation(t, n) ==
    /\ Fits(n)
    /\ \/ \E new \in Unused : Insert(new, [n EXCEPT !.rotations = @ + 1], Retired(t))
       \/ Unused = {} /\ active' = Retired(t) /\ UNCHANGED name
    /\ aged' = aged \intersect active'
    /\ UNCHANGED created

-----------------------------------------------------------------------------
(* Administrators. *)

BeginRotation(a, t) ==
    /\ admin[a].pc = "idle"
    /\ Rotatable(t)
    /\ admin' = [admin EXCEPT ![a] = [pc |-> "rotating", tokens |-> {t}, name |-> name[t]]]
    /\ UNCHANGED <<table, planned, daemon>>

Rotate(a) ==
    /\ admin[a].pc = "rotating"
    /\ \E t \in admin[a].tokens : CommitRotation(t, admin[a].name)
    /\ admin' = [admin EXCEPT ![a] = AtRest]
    /\ UNCHANGED <<planned, daemon>>

\* revoke_service_token, which finds inactive rows too, for which it is of no
\* consequence.
BeginRevocation(a, t) ==
    /\ admin[a].pc = "idle"
    /\ t \in active
    /\ admin' = [admin EXCEPT ![a] = [pc |-> "revoking", tokens |-> {t}, name |-> NoName]]
    /\ UNCHANGED <<table, planned, daemon>>

Revoke(a) ==
    /\ admin[a].pc = "revoking"
    /\ active' = active \ admin[a].tokens
    /\ aged' = aged \ admin[a].tokens
    /\ admin' = [admin EXCEPT ![a] = AtRest]
    /\ UNCHANGED <<name, created, planned, daemon>>

\* emergency_revoke_all_tokens.  The event it adds has no user_email, which the
\* table of events requires (database/models.py:437), so that its commit fails:
\* it can only be rolled back.
BeginEmergency(a) ==
    /\ admin[a].pc = "idle"
    /\ active # {}
    /\ admin' = [admin EXCEPT ![a] = [pc |-> "emergency", tokens |-> {}, name |-> NoName]]
    /\ UNCHANGED <<table, planned, daemon>>

\* The database fails, refuses the successor's name or the event, or the request
\* is cancelled: nothing is committed.
RollBack(a) ==
    /\ admin[a].pc # "idle"
    /\ admin' = [admin EXCEPT ![a] = AtRest]
    /\ UNCHANGED <<table, planned, daemon>>

-----------------------------------------------------------------------------
(* The daemon: run_rotation_scheduler, once a day. *)

\* analyze_tokens_for_rotation.  Without a token to rotate, or without a
\* database, there is the plan for a token that does not exist.
Analyze(tokens) ==
    /\ daemon.pc = "asleep"
    /\ daemon' = [daemon EXCEPT !.pc = "scheduling",
                                !.found = IF tokens = {} THEN {MockId} ELSE tokens]
    /\ UNCHANGED <<table, planned, admin>>

AnalysisFails == Analyze({})

\* schedule_token_rotation.  The plan is for the next 2 AM.
Schedule(t) ==
    /\ daemon.pc = "scheduling"
    /\ t \in daemon.found
    /\ daemon' = [daemon EXCEPT !.found = @ \ {t}, !.fresh[t] = @ + 1]
    /\ UNCHANGED <<table, planned, admin>>

\* It is 2 AM now, or past it, and the plan is refused.
TooLate(t) ==
    /\ daemon.pc = "scheduling"
    /\ t \in daemon.found
    /\ daemon' = [daemon EXCEPT !.found = @ \ {t}]
    /\ UNCHANGED <<table, planned, admin>>

\* run_scheduled_rotations lists the plans that are due: those of the last
\* cycle, 24 hours ago, and this cycle's if it is 2 AM between the two.
StillPlanned_Fault(due, t) == planned[t] + daemon.fresh[t]
StillPlanned_Lost_Fault(due, t) == 0
StillPlanned(due, t) == planned[t] + daemon.fresh[t] - due[t]

ListDue ==
    /\ daemon.pc = "scheduling"
    /\ daemon.found = {}
    /\ \E late \in BOOLEAN :
          LET due == [t \in Ids |-> planned[t] + IF late THEN daemon.fresh[t] ELSE 0]
          IN  /\ daemon' = [daemon EXCEPT !.pc = "executing", !.due = due, !.fresh = NoPlans]
              /\ planned' = [t \in Ids |-> StillPlanned(due, t)]
    /\ UNCHANGED <<table, admin>>

\* execute_rotation_plan, as far as the notification it starts with.
Start(t) ==
    /\ daemon.pc = "executing"
    /\ daemon.due[t] > 0
    /\ daemon' = [daemon EXCEPT !.pc = "notifying", !.token = t, !.due[t] = @ - 1]
    /\ UNCHANGED <<table, planned, admin>>

\* The rotation comes to nothing.  token_id is the row's UUID (line 159), not the
\* text that rotate_service_token compares with a name, a text and a hash: the
\* driver refuses to send it, and the rotation returns None.  The made-up plan's
\* token is not found.  The plan is "failed", or "completed" if the database
\* could not be reached (line 303), and is not tried again.
NotRotated ==
    /\ daemon.pc = "notifying"
    /\ daemon' = [daemon EXCEPT !.pc = "executing", !.token = MockId]
    /\ UNCHANGED <<table, planned, admin>>

\* Until tomorrow.
Sleep ==
    /\ daemon.pc = "executing"
    /\ daemon.due = NoPlans
    /\ daemon' = Asleep
    /\ UNCHANGED <<table, planned, admin>>

\* The process ends, plans and all, and is started again.
Restart ==
    /\ daemon' = Asleep
    /\ planned' = NoPlans
    /\ UNCHANGED <<table, admin>>

-----------------------------------------------------------------------------
DaemonStep ==
    \/ Analyze(Due) \/ AnalysisFails
    \/ \E t \in Ids : Schedule(t) \/ TooLate(t) \/ Start(t)
    \/ ListDue \/ NotRotated \/ Sleep

AdminStep(a) ==
    \/ \E t \in Tokens : BeginRotation(a, t) \/ BeginRevocation(a, t)
    \/ BeginEmergency(a)
    \/ Rotate(a) \/ Revoke(a) \/ RollBack(a)

Next ==
    \/ \E n \in Names : Create(n)
    \/ \E t \in Tokens : Age(t)
    \/ \E a \in Admins : AdminStep(a)
    \/ DaemonStep
    \/ Restart

Spec == Init /\ [][Next]_vars

\* What may go wrong for the daemon.  (A restart when nothing is left to do is no
\* different from going to sleep.)
Misfortune ==
    \/ Restart /\ ~Sleep
    \/ AnalysisFails /\ Due # {}
    \/ \E t \in Tokens : TooLate(t)

\* The daemon goes on day after day, and what may go wrong does so finitely often.
FairSpec ==
    /\ Spec
    /\ WF_vars(DaemonStep)
    /\ <>[][~Misfortune]_vars

-----------------------------------------------------------------------------
(* Properties. *)

\* The variables have values of their types, and a rotation is of a row there is.
TypeOK ==
    /\ name \in [Tokens -> TokenNames \union {NoName}]
    /\ active \subseteq Tokens
    /\ aged \subseteq active
    /\ created \subseteq Names
    /\ planned \in [Ids -> Nat]
    /\ daemon \in [pc : {"asleep", "scheduling", "executing", "notifying"},
                   found : SUBSET Ids, fresh : [Ids -> Nat], due : [Ids -> Nat],
                   token : Ids]
    /\ admin \in [Admins -> [pc : {"idle", "rotating", "revoking", "emergency"},
                             tokens : SUBSET Tokens, name : TokenNames \union {NoName}]]
    /\ \A a \in Admins : admin[a].pc = "rotating" => admin[a].name # NoName

\* The analysis does not look at the plans there are (line 237) and comes before
\* they are executed, so that a token is planned again on the day its plan
\* is.  The plans for it do not add up: two at most, and one between two
\* cycles.
PlansDoNotPileUp ==
    \A t \in Ids :
        /\ planned[t] + daemon.fresh[t] + daemon.due[t] <= 2
        /\ daemon.pc = "asleep" => planned[t] <= 1

Rotating(n) == \E a \in Admins : admin[a].pc = "rotating" /\ admin[a].name.line = n

Gone(n) == n \in created /\ (\A t \in active : name[t].line # n) /\ ~Rotating(n)

\* service_token_manager.py:151 revoke_service_token, "Revoke a service token
\* (emergency or planned)": what is revoked stays so.  Neither the daemon's plans
\* nor the revoked row, nor a token created anew, bring its line back to life;
\* only a rotation that had begun goes through.
RevokedForGood == [][ \A n \in Names : Gone(n) => Gone(n)' ]_vars

Tried(t) == daemon.pc = "notifying" /\ daemon.token = t

\* A token that is due comes up for rotation, again and again as long as it is,
\* although plans are lost and failed ones are not repeated: the analysis has to
\* find it anew, and its plan has to be listed a cycle later.  (That it is then
\* rotated is another matter: see NotRotated.)
DueIsTried == \A t \in Tokens : t \in Due ~> Tried(t) \/ t \notin Due

=============================================================================
