-------------------------- MODULE ConnectionBridge --------------------------
(***************************************************************************)
(* Connections to MCP servers and the NPX processes behind them            *)
(* (src/mcp_integration/connection_bridge.py).  Coroutines share one       *)
(* bridge: they are suspended while a process starts, while a server is    *)
(* deployed and while the client of a connection is closed; everything     *)
(* else a call does is one step.                                           *)
(***************************************************************************)
EXTENDS Naturals

CONSTANTS
    Clients,     \* coroutines that connect to servers
    Servers,     \* names of MCP servers
    NpxServers,  \* those that discovery may find as npx packages
    Processes,   \* operating system processes there may be at a time
    NoProcess    \* of a connection that is a URL

Admin == "admin"   \* disconnects, shuts down, asks for the status

ASSUME BridgeAssumption ==
    /\ NpxServers \subseteq Servers
    /\ NoProcess \notin Processes
    /\ Admin \notin Clients

Users == Clients \union {Admin}

VARIABLES
    running,     \* the processes that run
    registered,  \* npx_manager.processes
    connection,  \* active_connections
    caller       \* what each caller is suspended in

bridgeVars == <<running, registered, connection, caller>>

\* health_status is "none" for a server that has no entry; recent says that
\* last_health_check is less than health_check_interval ago.
NoConnection == [process |-> NoProcess, health_status |-> "none", recent |-> FALSE]

Fresh_Fault(p) == [process |-> p, health_status |-> "healthy", recent |-> FALSE]
Fresh(p) == [process |-> p, health_status |-> "connected", recent |-> FALSE]

\* left are the servers a shutdown has still to disconnect.
AtRest == [pc |-> "idle", server |-> "", process |-> NoProcess, goal |-> "", left |-> {}]

BridgeInit ==
    /\ running = {}
    /\ registered = [s \in Servers |-> NoProcess]
    /\ connection = [s \in Servers |-> NoConnection]
    /\ caller = [c \in Users |-> AtRest]

-----------------------------------------------------------------------------
Connected(s) == connection[s].health_status # "none"

\* _is_connection_healthy.  A connection to a URL is as good as it ever was.
Checked_Fault(conn) ==
    [conn EXCEPT !.recent = TRUE,
                 !.health_status = IF conn.recent \/ conn.process \in running \union {NoProcess}
                                     THEN "connected" ELSE "unhealthy"]

Checked(conn) ==
    IF conn.recent THEN conn
    ELSE [conn EXCEPT !.recent = TRUE,
                      !.health_status = IF conn.process \in running \union {NoProcess}
                                          THEN "connected" ELSE "unhealthy"]

Healthy(s) == Checked(connection[s]).health_status = "connected"

\* The first lines of _cleanup_connection: the process that is stopped is the
\* one registered under the name.  One that cannot be stopped (line 141) stays
\* registered, whether it has ended or not, and the clean-up goes on.
StopProcess(s) ==
    \/ /\ running' = running \ {registered[s]}
       /\ registered' = [registered EXCEPT ![s] = NoProcess]
    \/ /\ running' \in {running, running \ {registered[s]}}
       /\ UNCHANGED registered

Without(s) == [connection EXCEPT ![s] = NoConnection]

\* spawn_npx_server, before it sleeps: a running process is used again.
Reusable(s) == registered[s] \in running

\* A process number nothing refers to.
Unused ==
    { p \in Processes \ running :
        /\ \A s \in Servers : p \notin {registered[s], connection[s].process}
        /\ \A c \in Users : p # caller[c].process }

\* Discovery finds nothing or raises, finds a URL, has to deploy the server
\* first, or names an npx package; conns are the connections so far.
Establish(c, s, conns) ==
    \/ /\ caller' = [caller EXCEPT ![c] = AtRest]
       /\ connection' \in {conns, [conns EXCEPT ![s] = Fresh(NoProcess)]}
       /\ UNCHANGED <<running, registered>>
    \/ /\ s \notin NpxServers
       /\ caller' = [caller EXCEPT ![c] = [AtRest EXCEPT !.pc = "deploying", !.server = s]]
       /\ connection' = conns
       /\ UNCHANGED <<running, registered>>
    \/ /\ s \in NpxServers
       /\ Reusable(s)
       /\ caller' = [caller EXCEPT ![c] = AtRest]
       /\ connection' = [conns EXCEPT ![s] = Fresh(registered[s])]
       /\ UNCHANGED <<running, registered>>
    \/ /\ s \in NpxServers
       /\ ~Reusable(s)
       /\ registered' = [registered EXCEPT ![s] = NoProcess]
       /\ connection' = conns
       /\ \/ \E p \in Unused :
                /\ running' = running \union {p}
                /\ caller' = [caller EXCEPT ![c] =
                                [AtRest EXCEPT !.pc = "starting", !.server = s, !.process = p]]
          \/ caller' = [caller EXCEPT ![c] = AtRest] /\ UNCHANGED running

\* Suspended in the client's disconnect, after which the goal is pursued.
Close(c, s, goal, left) ==
    /\ StopProcess(s)
    /\ caller' = [caller EXCEPT ![c] = [AtRest EXCEPT !.pc = "closing", !.server = s,
                                                    !.goal = goal, !.left = left]]

-----------------------------------------------------------------------------
(* connect_to_server *)

ConnectToServer(c, s) ==
    /\ caller[c].pc = "idle"
    /\ \/ /\ Connected(s) /\ Healthy(s)
          /\ connection' = [connection EXCEPT ![s] = Checked(@)]
          /\ UNCHANGED <<running, registered, caller>>
       \/ /\ Connected(s) /\ ~Healthy(s)
          /\ connection' = [connection EXCEPT ![s] = Checked(@)]
          /\ Close(c, s, "connect", {})
       \/ /\ ~Connected(s)
          /\ Establish(c, s, connection)

\* The process has had its two seconds; if it runs, it and the connection
\* take the place of whatever is registered by now.
Registers_Fault(s, p) ==
    IF registered[s] = NoProcess THEN [registered EXCEPT ![s] = p] ELSE registered
Registers(s, p) == [registered EXCEPT ![s] = p]

Started(c) ==
    /\ caller[c].pc = "starting"
    /\ LET p == caller[c].process
           s == caller[c].server
       IN  IF p \in running
             THEN /\ registered' = Registers(s, p)
                  /\ connection' = [connection EXCEPT ![s] = Fresh(p)]
             ELSE UNCHANGED <<registered, connection>>
    /\ caller' = [caller EXCEPT ![c] = AtRest]
    /\ UNCHANGED running

Deployed(c) ==
    /\ caller[c].pc = "deploying"
    /\ connection' \in {connection, [connection EXCEPT ![caller[c].server] = Fresh(NoProcess)]}
    /\ caller' = [caller EXCEPT ![c] = AtRest]
    /\ UNCHANGED <<running, registered>>

-----------------------------------------------------------------------------
(* disconnect_server, shutdown, get_connection_status *)

\* A connection to a URL has nothing to close.
Drop(s, record) ==
    /\ connection' = Without(s)
    /\ caller' = [caller EXCEPT ![Admin] = record]
    /\ UNCHANGED <<running, registered>>

DisconnectServer(s) ==
    /\ caller[Admin].pc = "idle"
    /\ Connected(s)
    /\ \/ /\ connection[s].process = NoProcess
          /\ Drop(s, AtRest)
       \/ /\ connection[s].process # NoProcess
          /\ Close(Admin, s, "disconnect", {})
          /\ UNCHANGED connection

ShuttingDown(left) ==
    IF left = {} THEN AtRest ELSE [AtRest EXCEPT !.pc = "shutting_down", !.left = left]

Shutdown ==
    /\ caller[Admin].pc = "idle"
    /\ caller' = [caller EXCEPT ![Admin] = ShuttingDown({s \in Servers : Connected(s)})]
    /\ UNCHANGED <<running, registered, connection>>

\* One server of the list, which may be gone by now.
ShutdownNext ==
    /\ caller[Admin].pc = "shutting_down"
    /\ \E s \in caller[Admin].left :
          LET left == caller[Admin].left \ {s}
          IN  \/ /\ connection[s].process = NoProcess
                 /\ Drop(s, ShuttingDown(left))
              \/ /\ connection[s].process # NoProcess
                 /\ Close(Admin, s, "shutdown", left)
                 /\ UNCHANGED connection

\* The client is closed, or closing it was cancelled (the entry is deleted in
\* a finally clause).  An entry that somebody else deleted meanwhile raises
\* KeyError, out of connect_to_server too; one that somebody else made
\* meanwhile is deleted like the old one.
Closed(c) ==
    /\ caller[c].pc = "closing"
    /\ LET s == caller[c].server
       IN  \/ /\ caller[c].goal = "connect"
              /\ Connected(s)
              /\ Establish(c, s, Without(s))
           \/ /\ caller[c].goal = "connect"
              /\ ~Connected(s)
              /\ caller' = [caller EXCEPT ![c] = AtRest]
              /\ UNCHANGED <<running, registered, connection>>
           \/ /\ caller[c].goal # "connect"
              /\ Drop(s, ShuttingDown(caller[c].left))

\* get_process_status, for the npx connections, forgets processes that ended.
Forgotten_Fault(s) == connection[s].process # NoProcess
Forgotten(s) == connection[s].process # NoProcess /\ registered[s] \notin running

Status ==
    /\ caller[Admin].pc = "idle"
    /\ connection' = [s \in Servers |-> IF Connected(s) THEN Checked(connection[s])
                                                        ELSE connection[s]]
    /\ registered' = [s \in Servers |-> IF Forgotten(s) THEN NoProcess ELSE registered[s]]
    /\ UNCHANGED <<running, caller>>

CancelCall(c) ==
    /\ caller[c].pc # "idle"
    /\ connection' = IF caller[c].pc = "closing" THEN Without(caller[c].server) ELSE connection
    /\ caller' = [caller EXCEPT ![c] = AtRest]
    /\ UNCHANGED <<running, registered>>

-----------------------------------------------------------------------------
(* The environment. *)

Die(p) ==
    /\ running' = running \ {p}
    /\ running' # running
    /\ UNCHANGED <<registered, connection, caller>>

\* health_check_interval has passed since the last check.
CheckAges(s) ==
    /\ connection[s].recent
    /\ connection' = [connection EXCEPT ![s].recent = FALSE]
    /\ UNCHANGED <<running, registered, caller>>

-----------------------------------------------------------------------------
Proceed(c) == Started(c) \/ Deployed(c) \/ Closed(c)

AdminStep ==
    \/ \E s \in Servers : DisconnectServer(s)
    \/ Shutdown \/ ShutdownNext
    \/ Status

BridgeNext ==
    \/ \E c \in Clients, s \in Servers : ConnectToServer(c, s)
    \/ AdminStep
    \/ \E c \in Users : Proceed(c) \/ CancelCall(c)
    \/ \E p \in Processes : Die(p)
    \/ \E s \in Servers : CheckAges(s)

BridgeSpec == BridgeInit /\ [][BridgeNext]_bridgeVars

\* Sleeps and closings end, time passes, and every client goes on connecting
\* to every server.
FairBridgeSpec ==
    /\ BridgeSpec
    /\ \A c \in Users : WF_bridgeVars(Proceed(c))
    /\ WF_bridgeVars(ShutdownNext)
    /\ \A s \in Servers : WF_bridgeVars(CheckAges(s))
    /\ \A c \in Clients, s \in Servers : SF_bridgeVars(ConnectToServer(c, s))

-----------------------------------------------------------------------------
(* Properties. *)

\* The variables have values of their types.
BridgeTypeOK ==
    /\ running \subseteq Processes
    /\ registered \in [Servers -> Processes \union {NoProcess}]
    /\ connection \in [Servers -> [process : Processes \union {NoProcess},
                                   health_status : {"none", "connected", "unhealthy"},
                                   recent : BOOLEAN]]
    /\ caller \in [Users ->
          [pc : {"idle", "starting", "deploying", "closing", "shutting_down"},
           server : Servers \union {""}, process : Processes \union {NoProcess},
           goal : {"", "connect", "disconnect", "shutdown"}, left : SUBSET Servers]]

\* A process is stopped by the name of its server (line 421), whichever process
\* that stands for by then.  It always is the process of the connection that is
\* being cleaned up, if that one runs at all, although register and connections
\* are overwritten and deleted by callers that do not know of each other.
StopsItsOwn ==
    \A s \in Servers : connection[s].process \in running => registered[s] = connection[s].process

Tended(p) ==
    \/ \E s \in Servers : registered[s] = p
    \/ \E c \in Users : caller[c].pc = "starting" /\ caller[c].process = p

\* A process that runs, but that nobody could stop any more, comes about in two
\* ways only: the caller that starts it is cancelled in the sleep of line 98, or
\* another caller has started one for the same server at the same time and
\* registers it later (line 106).  No disconnect, shutdown, clean-up or status
\* report loses a running process.
LostByRaceOrCancel ==
    [][ \A p \in running' : Tended(p) /\ ~Tended(p)' =>
          \E c \in Users :
             /\ caller[c].pc = "starting" /\ caller'[c].pc # "starting"
             /\ LET s == caller[c].server
                IN  \/ caller[c].process = p
                    \/ registered[s] = p /\ registered'[s] = caller[c].process ]_bridgeVars

\* A connection whose process has died is handed out for as long as its last
\* check is recent (line 369), but not for ever: while clients go on connecting
\* it is cleaned up or replaced.
DeadConnectionsGo ==
    \A s \in Servers : \A p \in Processes :
        connection[s].process = p /\ p \notin running
            ~> connection[s].process # p \/ p \in running

=============================================================================
