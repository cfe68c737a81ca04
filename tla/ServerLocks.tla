----------------------------- MODULE ServerLocks -----------------------------
(***************************************************************************)
(* The locks of the server and the threads that take them:                 *)
(*                                                                         *)
(*   model   MmsServer.modelMutex, the user lock of the ISO server         *)
(*   rc      the mutex of one report control block                         *)
(*   a client, for the conMutex of its connection, which guards sendBuffer *)
(*                                                                         *)
(* A thread runs a code path: the sequence of the operations on locks, on  *)
(* send buffers and on application callbacks that the code performs, with  *)
(* the branches it takes chosen when it starts.  Everything between two    *)
(* such operations commutes with the other threads and is left out.        *)
(***************************************************************************)
EXTENDS Integers, FiniteSets, Sequences

CONSTANTS Clients,       \* the connected clients
          MaxPaths       \* bound: code paths that are started

None == "none"

ASSUME MaxPathsAssumption == MaxPaths \in Nat \ {0}
ASSUME ClientsAssumption == Clients \cap {"model", "rc", None} = {}

Nobody == <<"nobody", None>>
Worker == <<"worker", None>>      \* the event worker thread
App == <<"application", None>>    \* a thread of the application
Con(c) == <<"connection", c>>     \* handleTcpConnection
Oper(c) == <<"operate", c>>       \* controlOperateThread for a command of c
Threads == {Worker, App} \cup {Con(c) : c \in Clients} \cup {Oper(c) : c \in Clients}
Locks == {"model", "rc"} \cup Clients

VARIABLES
  holder,    \* for each lock, the thread between its wait and its post
  path,      \* for each thread, the operations it has still to perform; it is
             \* in the middle of the first one
  started,   \* how many paths have been started
  owner,     \* ReportControl.clientConnection of the enabled control block
  stopped    \* connections with IsoConnection.state = ISO_CON_STATE_STOPPED

vars == <<holder, path, started, owner, stopped>>

(***************************************************************************)
(* Operations                                                              *)
(***************************************************************************)
Wait(l) == <<"wait", l>>              \* Semaphore_wait
Post(l) == <<"post", l>>              \* Semaphore_post
Build(c) == <<"build", c>>            \* encode a message in c's sendBuffer and send it
Callback == <<"call", None>>          \* a callback of the application
SendMessage(c) == <<"send", c>>       \* IsoConnection_sendMessage, handlerMode false
SendInHandler(c) == <<"handler", c>>  \* IsoConnection_sendMessage, handlerMode true

(* ReportControl_valueUpdated for an application's or a client's change:   *)
(* a pending report of the same member is sent at once.                    *)
ValueUpdated == {<<Wait("rc"), Post("rc")>>, <<Wait("rc"), <<"report", None>>, Post("rc")>>}

(* What a request of client c does between the locks: a read; a command    *)
(* that is refused with a LastApplError, or accepted with a thread that    *)
(* will answer it; a write to the report control block; a write to a data  *)
(* attribute.                                                              *)
Bodies(c) ==
  {<<Build(c)>>, <<Callback, SendInHandler(c), Build(c)>>, <<Callback, <<"operate", c>> >>}
    \cup {<<Wait("rc"), <<"configure", c>>, Post("rc"), Build(c)>>}
    \cup {<<Callback>> \o u \o <<Build(c)>> : u \in ValueUpdated}

(* handleTcpConnection: an MMS request under the user lock and the         *)
(* connection's lock; a connection request or an association under the     *)
(* connection's lock; a release, answered under no lock, or a lost         *)
(* connection.  The last two end the thread.                               *)
Requests(c) ==
  {<<Wait("model"), Wait(c)>> \o b \o <<Post(c), Post("model")>> : b \in Bodies(c)}

Associations(c) == {<<Wait(c), Build(c), Post(c)>>}

Endings(c) == {<<Build(c), <<"stop", c>>, <<"close", c>> >>, << <<"stop", c>>, <<"close", c>> >>}

(* eventWorkerThread: a time activated command that is refused, a turn of  *)
(* Reporting_processReportEvents with and without a report.                *)
WorkerPaths == {<<Callback, SendMessage(c)>> : c \in Clients} \cup ValueUpdated

(* IedServer_updateAttributeValue, inside and outside a lock of the model. *)
AppPaths == ValueUpdated \cup {<<Wait("model")>> \o u \o <<Post("model")>> : u \in ValueUpdated}

(* controlOperateThread: the wait-for-execution handler, the response, the *)
(* operate handler, which may update the model, and the termination.       *)
OperPaths(c) ==
  {<<Callback, SendMessage(c)>>}
    \cup {<<Callback, SendMessage(c), Callback>> \o u \o <<SendMessage(c)>> :
            u \in ValueUpdated \cup {<< >>}}

(* The control block may have been enabled before.                         *)
Init ==
  /\ holder = [l \in Locks |-> Nobody]
  /\ path = [t \in Threads |-> << >>]
  /\ started = 0
  /\ owner \in Clients \cup {None}
  /\ stopped = {}

(***************************************************************************)
(* Steps                                                                   *)
(***************************************************************************)
Paths(t) ==
  CASE t = Worker -> WorkerPaths
    [] t = App -> AppPaths
    [] t[1] = "connection" /\ t[2] \notin stopped ->
         Requests(t[2]) \cup Associations(t[2]) \cup Endings(t[2])
    [] OTHER -> {}

Start(t) ==
  /\ path[t] = << >> /\ started < MaxPaths
  /\ \E p \in Paths(t) : path' = [path EXCEPT ![t] = p]
  /\ started' = started + 1
  /\ UNCHANGED <<holder, owner, stopped>>

At(t, op) == path[t] # << >> /\ Head(path[t])[1] = op
Arg(t) == Head(path[t])[2]
Continue(t, more) == path' = [path EXCEPT ![t] = more \o Tail(@)]

SemaphoreWait(t) ==
  /\ At(t, "wait") /\ holder[Arg(t)] = Nobody
  /\ holder' = [holder EXCEPT ![Arg(t)] = t]
  /\ Continue(t, << >>)
  /\ UNCHANGED <<started, owner, stopped>>

SemaphorePost(t) ==
  /\ At(t, "post")
  /\ holder' = [holder EXCEPT ![Arg(t)] = Nobody]
  /\ Continue(t, << >>)
  /\ UNCHANGED <<started, owner, stopped>>

(* The end of a callback, or of the use of a send buffer.                  *)
Finish(t) ==
  /\ At(t, "build") \/ At(t, "call")
  /\ Continue(t, << >>)
  /\ UNCHANGED <<holder, started, owner, stopped>>

(* Mutant: a message is built without the connection's lock.               *)
SendingUnlocked(c) == IF c \in stopped THEN << >> ELSE <<Build(c)>>

(* Mutant: the lock is taken in handler mode too.                          *)
SendingInHandlerLocked(c) == <<Wait(c), Build(c), Post(c)>>

(* IsoConnection_sendMessage: nothing for a stopped connection; in handler *)
(* mode the caller holds the connection's lock already.                    *)
Sending(c) == IF c \in stopped THEN << >> ELSE <<Wait(c), Build(c), Post(c)>>
SendingInHandler(c) == <<Build(c)>>

IsoConnection_sendMessage(t) ==
  /\ \/ At(t, "send") /\ Continue(t, Sending(Arg(t)))
     \/ At(t, "handler") /\ Continue(t, SendingInHandler(Arg(t)))
  /\ UNCHANGED <<holder, started, owner, stopped>>

(* sendReport to the client that enabled the control block, if any.        *)
sendReport(t) ==
  /\ At(t, "report")
  /\ Continue(t, IF owner = None THEN << >> ELSE Sending(owner))
  /\ UNCHANGED <<holder, started, owner, stopped>>

(* A client enables the free control block, disables its own, or changes   *)
(* neither (general interrogation, a refused write).                       *)
Configure(t) ==
  /\ At(t, "configure")
  /\ owner' \in {owner} \cup {c \in {Arg(t)} : owner = None} \cup {n \in {None} : owner = Arg(t)}
  /\ Continue(t, << >>)
  /\ UNCHANGED <<holder, started, stopped>>

(* startControlOperateThread, for a control object that is not executing.  *)
StartOperate(t) ==
  /\ At(t, "operate")
  /\ IF path[Oper(Arg(t))] = << >>
     THEN \E p \in OperPaths(Arg(t)) :
            path' = [path EXCEPT ![t] = Tail(@), ![Oper(Arg(t))] = p]
     ELSE Continue(t, << >>)
  /\ UNCHANGED <<holder, started, owner, stopped>>

StopConnection(t) ==
  /\ At(t, "stop")
  /\ stopped' = stopped \cup {Arg(t)}
  /\ Continue(t, << >>)
  /\ UNCHANGED <<holder, started, owner>>

(* mmsConnectionHandler waits until the client's control threads are done  *)
(* and then deactivates its reports, without a lock.                       *)
CloseConnection(t) ==
  /\ At(t, "close") /\ path[Oper(Arg(t))] = << >>
  /\ owner' = IF owner = Arg(t) THEN None ELSE owner
  /\ Continue(t, << >>)
  /\ UNCHANGED <<holder, started, stopped>>

Step(t) ==
  \/ SemaphoreWait(t) \/ SemaphorePost(t) \/ Finish(t) \/ IsoConnection_sendMessage(t)
  \/ sendReport(t) \/ Configure(t) \/ StartOperate(t) \/ StopConnection(t)
  \/ CloseConnection(t)

Next == \E t \in Threads : Start(t) \/ Step(t)

Spec == Init /\ [][Next]_vars

TypeOK ==
  /\ holder \in [Locks -> Threads \cup {Nobody}]
  /\ DOMAIN path = Threads
  /\ started \in 0 .. MaxPaths
  /\ owner \in Clients \cup {None}
  /\ stopped \subseteq Clients

(***************************************************************************)
(* Properties                                                              *)
(***************************************************************************)
Building(c) == {t \in Threads : At(t, "build") /\ Arg(t) = c}

(* sendBuffer is used by one thread at a time, whether it answers a        *)
(* request, sends a report, a termination or an error; only the answer to  *)
(* a release, which handleTcpConnection builds without conMutex, may meet  *)
(* another message.                                                        *)
SendBufferExclusive ==
  \A c \in Clients :
    LET locked == {t \in Building(c) : ~(t = Con(c) /\ holder[c] # t)}
    IN  Cardinality(locked) <= 1

(* A thread waits for the holder of a lock, or in mmsConnectionHandler for *)
(* the operate thread of its client.                                       *)
Waiting == {t \in Threads : \/ At(t, "wait") /\ holder[Arg(t)] # Nobody
                            \/ At(t, "close") /\ path[Oper(Arg(t))] # << >>}
WaitsFor(t) == IF At(t, "close") THEN Oper(Arg(t)) ELSE holder[Arg(t)]

(* The client that owns the control block writes to it, or to a member of  *)
(* its data set, while a report is to be sent to it: a thread holds the    *)
(* report lock and waits for conMutex of the client, which the client's    *)
(* connection thread holds while it waits for the report lock; or the two  *)
(* are the same thread.                                                    *)
ReportDeadlock ==
  \E c \in Clients, t \in Waiting :
    /\ holder["rc"] = t /\ At(t, "wait") /\ Arg(t) = c /\ holder[c] = Con(c)
    /\ t = Con(c) \/ (At(Con(c), "wait") /\ Arg(Con(c)) = "rc")

(* That is the only deadlock: no other set of threads waits for the set    *)
(* itself, whichever of the three locks a code path takes inside which     *)
(* other, and whoever calls IsoConnection_sendMessage.  Code paths being   *)
(* finite, every request that is begun is processed otherwise.             *)
NoOtherDeadlock ==
  ReportDeadlock \/ \A S \in (SUBSET Waiting) \ {{}} : \E t \in S : WaitsFor(t) \notin S

(* "In the context of a library callback the data model is always already  *)
(* locked".  The code does not keep it (README, section 6).                *)
CallbackLocked == \A t \in Threads : At(t, "call") => holder["model"] = t
=============================================================================
