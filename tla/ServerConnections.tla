-------------------------- MODULE ServerConnections --------------------------
(***************************************************************************)
(* The life of the client connections of an IED server: the accept loop of *)
(* iso_server.c, one thread per connection (iso_connection.c), the MMS     *)
(* server's table of open connections (mms_server.c), the IED server's     *)
(* list of client connections (mms_mapping.c, client_connection.c), the    *)
(* event worker's start and stop, and the application that starts and      *)
(* stops the server.                                                       *)
(*                                                                         *)
(* Threads: the application (app), the accept loop (srv), the event worker *)
(* (worker) and one per connection (thr[c]).  Every step reads or writes   *)
(* at most one of the shared fields that carry no lock.  What a request    *)
(* does is in other modules; here it is one step.                          *)
(***************************************************************************)
EXTENDS Integers, FiniteSets, Sequences

CONSTANTS Conns,            \* the TCP connections that clients may open
          Limits,           \* values of CONFIG_MAXIMUM_TCP_CLIENT_CONNECTIONS
          ClientActions,    \* what the client of a connection does while it is open
          MaxStarts         \* bound: how often the application starts the server

ASSUME LimitsAssumption == Limits \subseteq Nat \ {0}
ASSUME MaxStartsAssumption == MaxStarts \in Nat \ {0}
ASSUME ClientActionsAssumption ==
  ClientActions \in [Conns -> SUBSET {"data", "finish", "closed"}]

NoConn == "no connection"
ASSUME NoConnAssumption == NoConn \notin Conns

VARIABLES
  state,         \* IsoServer.state
  socketSet,     \* IsoServer.serverSocket # NULL
  bound,         \* a listening socket exists in the operating system
  slots,         \* IsoServer.openClientConnections
  counter,       \* IsoServer.connectionCounter
  srv, cur,      \* accept loop: program counter, the connection it handles
  thr,           \* connection threads: program counters
  running,       \* IsoConnection.state = ISO_CON_STATE_RUNNING
  conSocket,     \* IsoConnection.socket # NULL
  listener,      \* IsoConnection.msgRcvdHandlerParameter # NULL
  wire,          \* what the socket of a connection would deliver next
  table,         \* MmsServer.openConnections
  clients,       \* IedServer.clientConnections
  told,          \* what the application's connection handler was told
  app, target,   \* application: program counter, the connection it closes
  starts,        \* how often it called IedServer_start
  worker,        \* event worker: program counter
  workerRun,     \* MmsMapping.reportThreadRunning
  workerEnd,     \* MmsMapping.reportThreadFinished
  fault          \* the access that ended the process, or "none"

isoServer == <<state, socketSet, bound, slots, counter>>
accept == <<srv, cur>>
connection == <<thr, running, conSocket, listener, wire>>
mapping == <<table, clients, told>>
application == <<app, target, starts>>
eventWorker == <<worker, workerRun, workerEnd>>
vars == <<isoServer, accept, connection, mapping, application, eventWorker, fault>>

Slots == DOMAIN slots
MaxConnections == Len(slots)

ThreadSteps == {"none", "wait", "test", "receive", "handle", "close", "inform", "forget",
                "release", "remove", "free", "decrease", "done"}
ServerSteps == {"none", "create", "test", "enter", "accept", "check", "count", "add", "listen",
                "map", "new", "inform", "leave", "exit", "done"}
AppSteps == {"idle", "starting", "worker", "running", "workerWait", "stop", "destroy", "unset",
             "join", "find", "close", "shut", "drain", "stopped"}

TypeOK ==
  /\ state \in {"idle", "running", "stopped", "error"}
  /\ socketSet \in BOOLEAN /\ bound \in BOOLEAN
  /\ slots \in Seq(Conns \cup {NoConn}) /\ MaxConnections \in Limits
  /\ counter \in 0 .. MaxConnections
  /\ srv \in ServerSteps /\ cur \in Conns \cup {NoConn}
  /\ thr \in [Conns -> ThreadSteps]
  /\ running \in [Conns -> BOOLEAN]
  /\ conSocket \in [Conns -> BOOLEAN]
  /\ listener \in [Conns -> BOOLEAN]
  /\ wire \in [Conns -> {"absent", "pending", "quiet", "data", "finish", "closed"}]
  /\ table \subseteq Conns /\ clients \subseteq Conns
  /\ told \in [Conns \cup {NoConn} -> Seq(BOOLEAN)]
  /\ app \in AppSteps /\ target \in Conns \cup {NoConn} /\ starts \in 0 .. MaxStarts
  /\ worker \in {"none", "begin", "cycle", "end", "done"}
  /\ workerRun \in BOOLEAN /\ workerEnd \in BOOLEAN
  /\ fault \in {"none", "null", "freed"}

Init ==
  /\ state = "idle" /\ socketSet = FALSE /\ bound = FALSE
  /\ \E limit \in Limits : slots = [i \in 1 .. limit |-> NoConn]
  /\ counter = 0
  /\ srv = "none" /\ cur = NoConn
  /\ thr = [c \in Conns |-> "none"]
  /\ running = [c \in Conns |-> FALSE]
  /\ conSocket = [c \in Conns |-> FALSE]
  /\ listener = [c \in Conns |-> FALSE]
  /\ wire = [c \in Conns |-> "absent"]
  /\ table = {} /\ clients = {}
  /\ told = [c \in Conns \cup {NoConn} |-> << >>]
  /\ app = "idle" /\ target = NoConn /\ starts = 0
  /\ worker = "none" /\ workerRun = FALSE /\ workerEnd = FALSE
  /\ fault = "none"

(***************************************************************************)
(* The clients and the network                                             *)
(***************************************************************************)
Connect(c) ==
  /\ wire[c] = "absent" /\ bound
  /\ wire' = [wire EXCEPT ![c] = "pending"]
  /\ UNCHANGED <<isoServer, accept, thr, running, conSocket, listener, mapping, application,
                 eventWorker, fault>>

(* A request, a session finish or abort, or the loss of the connection.    *)
ClientActs(c, what) ==
  /\ wire[c] \in {"quiet", "data"} /\ wire[c] # what
  /\ wire' = [wire EXCEPT ![c] = what]
  /\ UNCHANGED <<isoServer, accept, thr, running, conSocket, listener, mapping, application,
                 eventWorker, fault>>

(***************************************************************************)
(* isoServerThread                                                         *)
(***************************************************************************)
(* TcpServerSocket_create fails when another socket listens on the port.   *)
ServerCreates ==
  /\ srv = "create"
  /\ \/ /\ ~bound
        /\ bound' = TRUE /\ socketSet' = TRUE /\ state' = "running" /\ srv' = "test"
     \/ /\ state' = "error" /\ srv' = "exit"
        /\ UNCHANGED <<bound, socketSet>>
  /\ UNCHANGED <<slots, counter, cur, connection, mapping, application, eventWorker, fault>>

ServerTests ==
  /\ srv = "test"
  /\ srv' = IF state = "running" THEN "enter" ELSE "leave"
  /\ UNCHANGED <<isoServer, cur, connection, mapping, application, eventWorker, fault>>

ServerEnters ==
  /\ srv = "enter"
  /\ IF socketSet THEN srv' = "accept" /\ UNCHANGED fault
                  ELSE fault' = "null" /\ UNCHANGED srv
  /\ UNCHANGED <<isoServer, cur, connection, mapping, application, eventWorker>>

(* ServerSocket_accept: a client's connection, or NULL, which ends the     *)
(* loop, when the socket is shut down or accept() fails by itself.         *)
ServerAccepts(c) ==
  /\ srv = "accept" /\ bound /\ wire[c] = "pending"
  /\ wire' = [wire EXCEPT ![c] = "quiet"]
  /\ cur' = c /\ srv' = "check"
  /\ UNCHANGED <<isoServer, thr, running, conSocket, listener, mapping, application,
                 eventWorker, fault>>

AcceptFails ==
  /\ srv = "accept" /\ bound
  /\ srv' = "leave"
  /\ UNCHANGED <<isoServer, cur, connection, mapping, application, eventWorker, fault>>

AcceptInterrupted ==
  /\ srv = "accept" /\ ~bound
  /\ srv' = "leave"
  /\ UNCHANGED <<isoServer, cur, connection, mapping, application, eventWorker, fault>>

ServerFull == counter >= MaxConnections

(* A connection that exceeds the limit is destroyed; otherwise             *)
(* IsoConnection_create starts its thread.                                 *)
ServerChecks ==
  /\ srv = "check"
  /\ IF ServerFull
     THEN /\ wire' = [wire EXCEPT ![cur] = "closed"]
          /\ srv' = "test" /\ cur' = NoConn
          /\ UNCHANGED <<thr, running, conSocket>>
     ELSE /\ running' = [running EXCEPT ![cur] = TRUE]
          /\ conSocket' = [conSocket EXCEPT ![cur] = TRUE]
          /\ thr' = [thr EXCEPT ![cur] = "wait"]
          /\ srv' = "count"
          /\ UNCHANGED <<wire, cur>>
  /\ UNCHANGED <<isoServer, listener, mapping, application, eventWorker, fault>>

ServerCounts ==
  /\ srv = "count"
  /\ counter' = counter + 1
  /\ srv' = "add"
  /\ UNCHANGED <<state, socketSet, bound, slots, cur, connection, mapping, application,
                 eventWorker, fault>>

Free(i) == slots[i] = NoConn /\ \A j \in 1 .. i - 1 : slots[j] # NoConn

(* addClientConnection: the first free slot; without one nothing is stored.*)
addClientConnection ==
  /\ srv = "add"
  /\ slots' = [i \in Slots |-> IF Free(i) THEN cur ELSE slots[i]]
  /\ srv' = "listen"
  /\ UNCHANGED <<state, socketSet, bound, counter, cur, connection, mapping, application,
                 eventWorker, fault>>

(* isoConnectionIndicationHandler(ISO_CONNECTION_OPENED), step by step.    *)
ServerInstallsListener ==
  /\ srv = "listen"
  /\ listener' = [listener EXCEPT ![cur] = TRUE]
  /\ srv' = "map"
  /\ UNCHANGED <<isoServer, cur, thr, running, conSocket, wire, mapping, application,
                 eventWorker, fault>>

ServerMaps ==
  /\ srv = "map"
  /\ table' = table \cup {cur}
  /\ srv' = "new"
  /\ UNCHANGED <<isoServer, cur, connection, clients, told, application, eventWorker, fault>>

ServerAddsClient ==
  /\ srv = "new"
  /\ clients' = clients \cup {cur}
  /\ srv' = "inform"
  /\ UNCHANGED <<isoServer, cur, connection, table, told, application, eventWorker, fault>>

ServerInforms ==
  /\ srv = "inform"
  /\ told' = [told EXCEPT ![cur] = Append(@, TRUE)]
  /\ srv' = "test" /\ cur' = NoConn
  /\ UNCHANGED <<isoServer, connection, table, clients, application, eventWorker, fault>>

ServerLeaves ==
  /\ srv = "leave"
  /\ state' = "stopped" /\ srv' = "exit"
  /\ UNCHANGED <<socketSet, bound, slots, counter, cur, connection, mapping, application,
                 eventWorker, fault>>

ServerExits ==
  /\ srv = "exit"
  /\ socketSet' = FALSE /\ srv' = "done"
  /\ UNCHANGED <<state, bound, slots, counter, cur, connection, mapping, application,
                 eventWorker, fault>>

ServerThread ==
  \/ ServerCreates \/ ServerTests \/ ServerEnters
  \/ \E c \in Conns : ServerAccepts(c)
  \/ AcceptInterrupted \/ ServerChecks \/ ServerCounts \/ addClientConnection
  \/ ServerInstallsListener \/ ServerMaps \/ ServerAddsClient \/ ServerInforms \/ ServerLeaves \/ ServerExits

(***************************************************************************)
(* handleTcpConnection                                                     *)
(***************************************************************************)
Step(c, from, to) == thr[c] = from /\ thr' = [thr EXCEPT ![c] = to]

ThreadWaits(c) ==
  /\ listener[c]
  /\ Step(c, "wait", "test")
  /\ UNCHANGED <<isoServer, accept, running, conSocket, listener, wire, mapping, application,
                 eventWorker, fault>>

ThreadTests(c) ==
  /\ Step(c, "test", IF running[c] THEN "receive" ELSE "close")
  /\ UNCHANGED <<isoServer, accept, running, conSocket, listener, wire, mapping, application,
                 eventWorker, fault>>

(* Mutant: the loop goes on after an error.                                *)
ThreadReceivesOn(c) ==
  /\ wire[c] \in {"data", "finish", "closed"}
  /\ Step(c, "receive", IF wire[c] = "data" THEN "handle" ELSE "test")
  /\ wire' = [wire EXCEPT ![c] = IF @ = "data" THEN "quiet" ELSE @]
  /\ UNCHANGED <<isoServer, accept, running, conSocket, listener, mapping, application,
                 eventWorker, fault>>

(* A request is handled; a finish, an abort, an error or a lost connection *)
(* stops the loop.                                                         *)
ThreadReceives(c) ==
  /\ wire[c] \in {"data", "finish", "closed"}
  /\ IF wire[c] = "data"
     THEN /\ Step(c, "receive", "handle")
          /\ wire' = [wire EXCEPT ![c] = "quiet"]
          /\ UNCHANGED running
     ELSE /\ Step(c, "receive", "test")
          /\ running' = [running EXCEPT ![c] = FALSE]
          /\ UNCHANGED wire
  /\ UNCHANGED <<isoServer, accept, conSocket, listener, mapping, application, eventWorker,
                 fault>>

ThreadHandles(c) ==
  /\ Step(c, "handle", "test")
  /\ UNCHANGED <<isoServer, accept, running, conSocket, listener, wire, mapping, application,
                 eventWorker, fault>>

(* isoConnectionIndicationHandler(ISO_CONNECTION_CLOSED): the table's      *)
(* entry is removed; then mmsConnectionHandler looks the client up.        *)
ThreadCloses(c) ==
  /\ table' = table \ {c}
  /\ IF c \in table
     THEN Step(c, "close", "inform") /\ UNCHANGED <<told, fault>>
     ELSE /\ thr[c] = "close" /\ UNCHANGED thr
          /\ told' = [told EXCEPT ![NoConn] = Append(@, FALSE)]
          /\ fault' = "null"
  /\ UNCHANGED <<isoServer, accept, running, conSocket, listener, wire, clients, application,
                 eventWorker>>

(* Without a client object the handler is called with NULL, and the wait   *)
(* for the control threads dereferences it.                                *)
ThreadInforms(c) ==
  /\ IF c \in clients
     THEN /\ Step(c, "inform", "forget")
          /\ told' = [told EXCEPT ![c] = Append(@, FALSE)]
          /\ UNCHANGED fault
     ELSE /\ thr[c] = "inform" /\ UNCHANGED thr
          /\ told' = [told EXCEPT ![NoConn] = Append(@, FALSE)]
          /\ fault' = "null"
  /\ UNCHANGED <<isoServer, accept, running, conSocket, listener, wire, table, clients,
                 application, eventWorker>>

ThreadForgets(c) ==
  /\ Step(c, "forget", "release")
  /\ clients' = clients \ {c}
  /\ UNCHANGED <<isoServer, accept, running, conSocket, listener, wire, table, told,
                 application, eventWorker, fault>>

(* The control threads have finished; reports and selections of the client *)
(* are released and its objects destroyed.                                 *)
ThreadReleases(c) ==
  /\ Step(c, "release", "remove")
  /\ UNCHANGED <<isoServer, accept, running, conSocket, listener, wire, mapping, application,
                 eventWorker, fault>>

(* Mutant: the slot is kept.                                               *)
removeNothing(c) ==
  /\ Step(c, "remove", "free")
  /\ UNCHANGED <<isoServer, accept, running, conSocket, listener, wire, mapping, application,
                 eventWorker, fault>>

removeClientConnection(c) ==
  /\ Step(c, "remove", "free")
  /\ slots' = [i \in Slots |-> IF slots[i] = c THEN NoConn ELSE slots[i]]
  /\ UNCHANGED <<state, socketSet, bound, counter, accept, running, conSocket, listener, wire,
                 mapping, application, eventWorker, fault>>

ThreadFrees(c) ==
  /\ Step(c, "free", "decrease")
  /\ wire' = [wire EXCEPT ![c] = "closed"]
  /\ UNCHANGED <<isoServer, accept, running, conSocket, listener, mapping, application,
                 eventWorker, fault>>

ThreadDecreases(c) ==
  /\ Step(c, "decrease", "done")
  /\ counter' = counter - 1
  /\ UNCHANGED <<state, socketSet, bound, slots, accept, running, conSocket, listener, wire,
                 mapping, application, eventWorker, fault>>

ConnectionThread(c) ==
  \/ ThreadWaits(c) \/ ThreadTests(c) \/ ThreadReceives(c) \/ ThreadHandles(c)
  \/ ThreadCloses(c) \/ ThreadInforms(c) \/ ThreadForgets(c) \/ ThreadReleases(c)
  \/ removeClientConnection(c) \/ ThreadFrees(c) \/ ThreadDecreases(c)

Freed(c) == thr[c] \in {"decrease", "done"}

(***************************************************************************)
(* eventWorkerThread                                                       *)
(***************************************************************************)
WorkerBegins ==
  /\ worker = "begin"
  /\ workerEnd' = FALSE /\ worker' = "cycle"
  /\ UNCHANGED <<isoServer, accept, connection, mapping, application, workerRun, fault>>

(* One turn of the loop; the last one reads that the thread shall end.     *)
WorkerCycles ==
  /\ worker = "cycle" /\ ~workerRun
  /\ worker' = "end"
  /\ UNCHANGED <<isoServer, accept, connection, mapping, application, workerRun, workerEnd,
                 fault>>

WorkerEnds ==
  /\ worker = "end"
  /\ workerEnd' = TRUE /\ worker' = "done"
  /\ UNCHANGED <<isoServer, accept, connection, mapping, application, workerRun, fault>>

WorkerThread == WorkerBegins \/ WorkerCycles \/ WorkerEnds

(***************************************************************************)
(* IedServer_start and IedServer_stop                                      *)
(***************************************************************************)
AppStarts ==
  /\ app \in {"idle", "stopped"} /\ starts < MaxStarts
  /\ starts' = starts + 1
  /\ app' = "starting" /\ srv' = "create"
  /\ UNCHANGED <<isoServer, cur, connection, mapping, target, eventWorker, fault>>

(* IsoServer_startListening waits only while the server is idle.           *)
AppStarted ==
  /\ app = "starting" /\ state # "idle"
  /\ app' = "worker"
  /\ UNCHANGED <<isoServer, accept, connection, mapping, target, starts, eventWorker, fault>>

MmsMapping_startEventWorkerThread ==
  /\ app = "worker"
  /\ workerRun' = TRUE /\ worker' = "begin" /\ app' = "running"
  /\ UNCHANGED <<isoServer, accept, connection, mapping, target, starts, workerEnd, fault>>

MmsMapping_stopEventWorkerThread ==
  /\ app = "running"
  /\ workerRun' = FALSE /\ app' = "workerWait"
  /\ UNCHANGED <<isoServer, accept, connection, mapping, target, starts, worker, workerEnd,
                 fault>>

WorkerFinished ==
  /\ app = "workerWait" /\ workerEnd
  /\ app' = "stop"
  /\ UNCHANGED <<isoServer, accept, connection, mapping, target, starts, eventWorker, fault>>

StopSetsState ==
  /\ app = "stop"
  /\ state' = "stopped" /\ app' = "destroy"
  /\ UNCHANGED <<socketSet, bound, slots, counter, accept, connection, mapping, target, starts,
                 eventWorker, fault>>

(* ServerSocket_destroy resets the connections nobody has accepted.        *)
StopDestroysSocket ==
  /\ app = "destroy"
  /\ IF socketSet
     THEN /\ bound' = FALSE
          /\ wire' = [c \in Conns |-> IF wire[c] = "pending" THEN "closed" ELSE wire[c]]
          /\ app' = "unset"
     ELSE app' = "join" /\ UNCHANGED <<bound, wire>>
  /\ UNCHANGED <<state, socketSet, slots, counter, accept, thr, running, conSocket, listener,
                 mapping, target, starts, eventWorker, fault>>

StopUnsetsSocket ==
  /\ app = "unset"
  /\ socketSet' = FALSE /\ app' = "join"
  /\ UNCHANGED <<state, bound, slots, counter, accept, connection, mapping, target, starts,
                 eventWorker, fault>>

StopJoins ==
  /\ app = "join" /\ srv = "done"
  /\ app' = "find"
  /\ UNCHANGED <<isoServer, accept, connection, mapping, target, starts, eventWorker, fault>>

(* Mutant: no connection is closed.                                        *)
closeNoConnection ==
  /\ app = "find"
  /\ app' = "drain"
  /\ UNCHANGED <<isoServer, accept, connection, mapping, target, starts, eventWorker, fault>>

(* closeAllOpenClientConnections: the loop ends after the first occupied   *)
(* slot.                                                                   *)
closeAllOpenClientConnections ==
  /\ app = "find"
  /\ IF \A i \in Slots : slots[i] = NoConn
     THEN app' = "drain" /\ UNCHANGED target
     ELSE \E i \in Slots :
            /\ slots[i] # NoConn /\ \A j \in 1 .. i - 1 : slots[j] = NoConn
            /\ target' = slots[i] /\ app' = "close"
  /\ UNCHANGED <<isoServer, accept, connection, mapping, starts, eventWorker, fault>>

IsoConnection_close ==
  /\ app = "close"
  /\ IF Freed(target)
     THEN fault' = "freed" /\ UNCHANGED <<app, running>>
     ELSE /\ app' = IF running[target] THEN "shut" ELSE "drain"
          /\ running' = [running EXCEPT ![target] = FALSE]
          /\ UNCHANGED fault
  /\ UNCHANGED <<isoServer, accept, thr, conSocket, listener, wire, mapping, target, starts,
                 eventWorker>>

StopShutsConnection ==
  /\ app = "shut"
  /\ IF Freed(target)
     THEN fault' = "freed" /\ UNCHANGED <<app, conSocket, wire>>
     ELSE /\ conSocket' = [conSocket EXCEPT ![target] = FALSE]
          /\ wire' = [wire EXCEPT ![target] = "closed"]
          /\ app' = "drain" /\ UNCHANGED fault
  /\ UNCHANGED <<isoServer, accept, thr, running, listener, mapping, target, starts,
                 eventWorker>>

(* Mutant: stop does not wait for the connection threads.                  *)
StopReturnsAtOnce ==
  /\ app = "drain"
  /\ app' = "stopped" /\ target' = NoConn
  /\ UNCHANGED <<isoServer, accept, connection, mapping, starts, eventWorker, fault>>

StopDrains ==
  /\ app = "drain" /\ counter = 0
  /\ app' = "stopped" /\ target' = NoConn
  /\ UNCHANGED <<isoServer, accept, connection, mapping, starts, eventWorker, fault>>

Application ==
  \/ AppStarted \/ MmsMapping_startEventWorkerThread
  \/ WorkerFinished \/ StopSetsState \/ StopDestroysSocket \/ StopUnsetsSocket \/ StopJoins
  \/ closeAllOpenClientConnections \/ IsoConnection_close \/ StopShutsConnection
  \/ StopDrains

(* After a fault nothing more is said of the process.                      *)
Next ==
  /\ fault = "none"
  /\ \/ ServerThread \/ AcceptFails \/ WorkerThread
     \/ Application \/ AppStarts \/ MmsMapping_stopEventWorkerThread
     \/ \E c \in Conns :
          \/ ConnectionThread(c) \/ Connect(c)
          \/ \E what \in ClientActions[c] : ClientActs(c, what)

Spec == Init /\ [][Next]_vars

(* Every thread of the library is scheduled; clients, the application's    *)
(* calls and spontaneous errors are not owed to anybody.                   *)
FairSpec ==
  /\ Spec
  /\ WF_vars(ServerThread /\ fault = "none")
  /\ WF_vars(WorkerThread /\ fault = "none")
  /\ WF_vars(Application /\ fault = "none")
  /\ \A c \in Conns : WF_vars(ConnectionThread(c) /\ fault = "none")

(***************************************************************************)
(* Properties                                                              *)
(***************************************************************************)
Live == {c \in Conns : thr[c] \notin {"none", "done"}}
Handling(steps) == {c \in Conns : cur = c /\ srv \in steps}

(* The counter is the number of connection threads that exist and never    *)
(* more than the limit, and from addClientConnection to                    *)
(* removeClientConnection a connection has exactly one slot: a slot is     *)
(* given up before the counter lets the next connection in, so the search  *)
(* for one never fails.                                                    *)
SlotHeld ==
  /\ counter = Cardinality(Live \ Handling({"count"}))
  /\ Cardinality(Live) <= MaxConnections
  /\ \A c \in Conns :
       Cardinality({i \in Slots : slots[i] = c})
         = IF \/ thr[c] \in {"none", "free", "decrease", "done"}
              \/ c \in Handling({"count", "add"})
           THEN 0 ELSE 1

(* When IedServer_stop returns, the accept loop and all connection threads *)
(* have ended and have left nothing in the tables of the layers above;     *)
(* after the first start the event worker has ended too.                   *)
StopComplete ==
  app = "stopped" =>
    /\ srv = "done" /\ Live = {}
    /\ table = {} /\ clients = {} /\ \A i \in Slots : slots[i] = NoConn
    /\ starts = 1 => worker = "done"

(* IedServer_stop returns, unless it waits for a client that is still      *)
(* connected: closeAllOpenClientConnections closes one connection only.    *)
(* (A fault ends the process.)                                             *)
StopWaitsForClientsOnly ==
  app = "workerWait" ~> \/ app = "stopped" \/ fault # "none"
                        \/ /\ app = "drain" /\ target # NoConn
                           /\ \E c \in Live : c # target /\ wire[c] # "closed"

(* A connection that is closed or lost gives its thread, its slot and its  *)
(* share of the connection counter back.                                   *)
LostIsReaped ==
  \A c \in Conns : thr[c] = "receive" /\ wire[c] = "closed"
                     ~> thr[c] = "done" \/ fault # "none"

(***************************************************************************)
(* What the documentation says and the code does not keep (README,         *)
(* section 6)                                                              *)
(***************************************************************************)
(* "Stop server thread an all open connection threads": a stop returns.    *)
StopReturns == app = "workerWait" ~> app = "stopped" \/ fault # "none"

(* The connection handler's documentation: its argument is "the new or     *)
(* closed client connect object"; it is never NULL.                        *)
IndicationNamesClient == told[NoConn] = << >>

(* A server that was stopped, and so is not running, does not listen for   *)
(* client connections.                                                     *)
StoppedNotListening == app = "stopped" => ~bound
=============================================================================
