--------------------------- MODULE ControlObject ---------------------------
(***************************************************************************)
(* The control model of the IED server (iedserver/mms_mapping/control.c)   *)
(* with the part of the connection management it is coupled to             *)
(* (mmsConnectionHandler, ClientConnection.tasksCount).                    *)
(*                                                                         *)
(* Four kinds of threads share a ControlObject:                            *)
(*   - the connection threads, which run Control_writeAccessControlObject  *)
(*     and Control_readAccessControlObject under the model mutex, so one   *)
(*     request is handled at a time; the handler is split where it calls   *)
(*     the application's check handler, and where it sets and tests what   *)
(*     the event worker and the operate threads use without that mutex;    *)
(*   - the same connection threads after the socket is closed, which run   *)
(*     mmsConnectionHandler without that mutex;                            *)
(*   - the event worker thread (Control_processControlActions);            *)
(*   - one detached thread per operation (controlOperateThread).           *)
(* Only the field "state" is behind a lock (stateLock), one access at a    *)
(* time.                                                                   *)
(*                                                                         *)
(* Time is abstract: a select timeout may have elapsed at any check of it, *)
(* a time activated command may be due at any look of the worker.          *)
(*                                                                         *)
(* A definition marked "(mutated: ...)" is not part of the specification:  *)
(* it is the definition after it with a plausible mistake, kept to show    *)
(* that the properties tell the two apart.                                 *)
(***************************************************************************)
EXTENDS Integers, Sequences, FiniteSets

CONSTANTS
    Handles,        \* addresses of MmsServerConnection, reused after free
    NoHandle,       \* the NULL pointer in ControlObject.clientConnection
    NumObjects,     \* length of the list MmsMapping.controlObjects
    CtlModel,       \* ctlModel of each object, 1..4
    OperateMany,    \* the objects whose sboClass is 1
    SelectTimeout,  \* the objects with selectTimeout > 0
    Params,         \* the (ctlVal, ctlNum, origin) a client may send
    NoParam,        \* their NULL before the first command
    Services,       \* the services the clients use
    MaxOps,         \* bound: operations started (operate threads)
    MaxConns        \* bound: connections accepted

Objects == 1 .. NumObjects
Ops     == 1 .. MaxOps
Conns   == 1 .. MaxConns

ASSUME ControlAssumption ==
    /\ NoHandle \notin Handles
    /\ NumObjects \in Nat /\ MaxOps \in Nat /\ MaxConns \in Nat
    /\ CtlModel \in [Objects -> 1 .. 4]
    /\ OperateMany \subseteq Objects
    /\ SelectTimeout \subseteq Objects
    /\ Params # {} /\ NoParam \notin Params
    /\ Services \subseteq {"Oper", "TimedOper", "Cancel", "Disconnect"}

VARIABLES
    \* struct sControlObject, one function per field the model keeps
    state,                \* the state of the control state machine
    clientConnection,     \* handle of the selecting or operating client
    param,                \* ctlVal, ctlNum and origin of the object
    timeActivatedOperate, \* a time activated command is pending
    operateInvokeId,      \* request that the operate thread will answer
    \* struct sClientConnection, numbered in the order of creation
    conns,                \* number of ClientConnections created
    ccState, ccHandle, tasksCount,
    \* the operate threads, numbered in the order of their start
    ops,                  \* number of operate threads started
    op,                   \* what each was started for
    pc, ref, timed,       \* its program counter and local variables
    \* the other threads
    handler,              \* the request being handled (model mutex owner)
    worker,               \* the event worker in processControlActions
    \* history
    answers,              \* connections each deferred request is answered on
    selectedBy,           \* the connection that selected each object
    overtaken             \* the objects whose armed command the worker took
                          \* before the handler had tested the flag again

objectVars == <<state, clientConnection, param, timeActivatedOperate,
                operateInvokeId>>
connVars   == <<conns, ccState, ccHandle, tasksCount>>
opVars     == <<ops, op, pc, ref, timed>>
history    == <<answers, selectedBy, overtaken>>
vars == <<objectVars, connVars, opVars, handler, worker, history>>

States == {"UNSELECTED", "READY", "WAIT_FOR_ACTIVATION_TIME",
           "PERFORM_TEST", "WAIT_FOR_EXECUTION", "OPERATE"}

\* controlOperateThread: "start" before the look-up of the ClientConnection,
\* "found" between it and increaseTasksCount, "counted" until it is decreased
ThreadPc == {"none", "start", "found", "begin", "waiting", "operate",
             "abort", "end", "done"}
Counted == {"begin", "waiting", "operate", "abort", "end"}

\* obj: the control object, asker: the connection whose Oper request the
\* thread has to answer (0: a time activated command), param: the command,
\* selector: the connection that had selected the object
NoOp == [obj |-> 0, asker |-> 0, param |-> NoParam, selector |-> 0]
Idle == [pc |-> "idle", obj |-> 0, cc |-> 0, param |-> NoParam]
WorkerIdle == [pc |-> "idle", obj |-> 0]

\* ctlModel 2 and 4: select before operate
IsSbo(o) == CtlModel[o] \in {2, 4}

\* Where the handler of an Oper request is: the parameters are taken over; of
\* a time activated command the flag, the connection and the state are set;
\* the check handler is called.
Arming == {"arming", "owned", "armed"}
OperPc == {"accepted", "oper"} \cup Arming

(***************************************************************************)
(* ClientConnections.  private_IedServer_getClientConnectionByHandle       *)
(* searches the list of connected clients; 0 stands for NULL.              *)
(***************************************************************************)
GetClientConnectionByHandle(h) ==
    IF \E i \in Conns : ccState[i] = "listed" /\ ccHandle[i] = h
    THEN CHOOSE i \in Conns : ccState[i] = "listed" /\ ccHandle[i] = h
    ELSE 0

\* The MmsServerConnection with this address exists from before its
\* ClientConnection is listed until after it is destroyed.
InUse(h) == \E i \in Conns :
    ccState[i] \in {"listed", "removed", "drained"} /\ ccHandle[i] = h

\* The connection a message sent to handle h arrives at (0: freed memory).
Receiver(h) ==
    IF InUse(h)
    THEN CHOOSE i \in Conns :
             ccState[i] \in {"listed", "removed", "drained"} /\ ccHandle[i] = h
    ELSE 0

(***************************************************************************)
(* States left by the helper functions.                                    *)
(***************************************************************************)
\* abortControlOperation: where an operation that is over leaves the object
AbortState(o) ==
    IF IsSbo(o) /\ o \notin OperateMany THEN "UNSELECTED" ELSE "READY"

\* (mutated: the select timeout also ends an operation in progress)
AfterAnyTimeout(o, expired) ==
    IF IsSbo(o) /\ o \in SelectTimeout /\ expired
    THEN "UNSELECTED"
    ELSE state[o]

\* checkSelectTimeout with the clock's verdict "expired"
AfterSelectTimeout(o, expired) ==
    IF IsSbo(o) /\ state[o] = "READY" /\ o \in SelectTimeout /\ expired
    THEN "UNSELECTED"
    ELSE state[o]

Init ==
    /\ state = [o \in Objects |-> IF IsSbo(o) THEN "UNSELECTED" ELSE "READY"]
    /\ clientConnection = [o \in Objects |-> NoHandle]
    /\ param = [o \in Objects |-> NoParam]
    /\ timeActivatedOperate = [o \in Objects |-> FALSE]
    /\ operateInvokeId = [o \in Objects |-> 0]
    /\ conns = 0
    /\ ccState = [i \in Conns |-> "unused"]
    /\ ccHandle = [i \in Conns |-> NoHandle]
    /\ tasksCount = [i \in Conns |-> 0]
    /\ ops = 0
    /\ op = [t \in Ops |-> NoOp]
    /\ pc = [t \in Ops |-> "none"]
    /\ ref = [t \in Ops |-> 0]
    /\ timed = [t \in Ops |-> FALSE]
    /\ handler = Idle
    /\ worker = WorkerIdle
    /\ answers = [t \in Ops |-> <<>>]
    /\ selectedBy = [o \in Objects |-> 0]
    /\ overtaken = {}

(***************************************************************************)
(* mmsConnectionHandler                                                    *)
(***************************************************************************)
\* MMS_SERVER_NEW_CONNECTION: create the ClientConnection and list it.
NewConnection(h) ==
    /\ conns < MaxConns
    /\ ~InUse(h)
    /\ conns' = conns + 1
    /\ ccState' = [ccState EXCEPT ![conns + 1] = "listed"]
    /\ ccHandle' = [ccHandle EXCEPT ![conns + 1] = h]
    /\ UNCHANGED <<objectVars, tasksCount, opVars, handler, worker, history>>

\* MMS_SERVER_CONNECTION_CLOSED, until the wait loop.  The thread that runs
\* it is the one that handles the requests of the connection.
RemoveConnection(i) ==
    /\ "Disconnect" \in Services
    /\ ccState[i] = "listed"
    /\ handler.cc # i
    /\ ccState' = [ccState EXCEPT ![i] = "removed"]
    /\ UNCHANGED <<objectVars, conns, ccHandle, tasksCount, opVars, handler,
                   worker, history>>

\* (mutated: the wait loop is left out)
DrainAtOnce(i) ==
    /\ ccState[i] = "removed"
    /\ ccState' = [ccState EXCEPT ![i] = "drained"]
    /\ UNCHANGED <<objectVars, conns, ccHandle, tasksCount, opVars, handler,
                   worker, history>>

\* The wait loop has read a task count of zero.
DrainConnection(i) ==
    /\ ccState[i] = "removed"
    /\ tasksCount[i] = 0
    /\ ccState' = [ccState EXCEPT ![i] = "drained"]
    /\ UNCHANGED <<objectVars, conns, ccHandle, tasksCount, opVars, handler,
                   worker, history>>

\* (mutated: a closing connection unselects nothing)
UnselectsNothing(h) == {}

\* unselectControlsForConnection: the loop over the list of control objects
\* stops at the first object that ControlObject_unselect accepts.
UnselectedBy(h) ==
    {o \in Objects : /\ clientConnection[o] = h
                     /\ \A p \in Objects : clientConnection[p] = h => o <= p}

\* The rest of the handler: unselect and destroy the ClientConnection.
DestroyConnection(i) ==
    /\ ccState[i] = "drained"
    /\ state' = [o \in Objects |-> IF o \in UnselectedBy(ccHandle[i])
                                   THEN AbortState(o) ELSE state[o]]
    /\ ccState' = [ccState EXCEPT ![i] = "destroyed"]
    /\ UNCHANGED <<clientConnection, param, timeActivatedOperate,
                   operateInvokeId, conns, ccHandle, tasksCount, opVars,
                   handler, worker, history>>

(***************************************************************************)
(* Requests: Control_readAccessControlObject (SBO) and                     *)
(* Control_writeAccessControlObject (SBOw, Oper, Cancel).                  *)
(***************************************************************************)
\* Connection i gets the model mutex to handle a request.
CanHandle(i) == handler.pc = "idle" /\ ccState[i] = "listed"

\* SBO (normal security) or SBOw: accepted only when unselected, then the
\* application's check handler is called.
SelectBegin(i, o, p, expired) ==
    /\ CanHandle(i)
    /\ IsSbo(o)
    /\ state' = [state EXCEPT ![o] = AfterSelectTimeout(o, expired)]
    /\ handler' = IF state'[o] = "UNSELECTED"
                  THEN [pc |-> "select", obj |-> o, cc |-> i, param |-> p]
                  ELSE handler
    /\ UNCHANGED <<clientConnection, param, timeActivatedOperate,
                   operateInvokeId, connVars, opVars, worker, history>>

\* The check handler has answered: selectObject, and for SBOw
\* updateControlParameters.
SelectFinish(accepted) ==
    /\ handler.pc = "select"
    /\ handler' = Idle
    /\ LET o == handler.obj IN
       IF accepted
       THEN /\ clientConnection' =
                 [clientConnection EXCEPT ![o] = ccHandle[handler.cc]]
            /\ selectedBy' = [selectedBy EXCEPT ![o] = handler.cc]
            /\ state' = [state EXCEPT ![o] = "READY"]
            /\ param' = IF CtlModel[o] = 4
                        THEN [param EXCEPT ![o] = handler.param] ELSE param
       ELSE UNCHANGED <<clientConnection, state, param, selectedBy>>
    /\ UNCHANGED <<timeActivatedOperate, operateInvokeId, connVars, opVars,
                   worker, answers, overtaken>>

\* In state READY an Oper is let through; for SBO from the selecting connection
\* only and with enhanced security only with the parameters of the SBOw.
OperAdmitted(i, o, p) ==
    /\ IsSbo(o) => clientConnection[o] = ccHandle[i]
    /\ CtlModel[o] = 4 => p = param[o]

\* Thread_create and Thread_start of controlOperateThread
StartThread(o, asker, p) ==
    /\ ops' = ops + 1
    /\ op' = [op EXCEPT ![ops + 1] = [obj |-> o, asker |-> asker, param |-> p,
                                      selector |-> selectedBy[o]]]
    /\ pc' = [pc EXCEPT ![ops + 1] = "start"]
    /\ UNCHANGED <<ref, timed>>

\* Oper in a state other than READY, or not admitted, is answered with an
\* error and changes nothing but an elapsed selection.
OperRefused(i, o, p, expired) ==
    /\ CanHandle(i)
    /\ LET s == AfterSelectTimeout(o, expired) IN
       /\ s # "READY" \/ ~OperAdmitted(i, o, p)
       /\ state' = [state EXCEPT ![o] = s]
    /\ UNCHANGED <<clientConnection, param, timeActivatedOperate,
                   operateInvokeId, connVars, opVars, handler, worker, history>>

\* An admitted Oper: updateControlParameters.
OperAccept(i, o, p, expired) ==
    /\ Services \cap {"Oper", "TimedOper"} # {}
    /\ CanHandle(i)
    /\ AfterSelectTimeout(o, expired) = "READY"
    /\ OperAdmitted(i, o, p)
    /\ param' = [param EXCEPT ![o] = p]
    /\ handler' = [pc |-> "accepted", obj |-> o, cc |-> i, param |-> p]
    /\ UNCHANGED <<state, clientConnection, timeActivatedOperate,
                   operateInvokeId, connVars, opVars, worker, history>>

\* With an operate time the command is armed.  The worker takes no lock: it
\* may find the flag set while the handler is still at the next two steps.
OperArm ==
    /\ "TimedOper" \in Services
    /\ handler.pc = "accepted"
    /\ timeActivatedOperate' = [timeActivatedOperate EXCEPT ![handler.obj] = TRUE]
    /\ handler' = [handler EXCEPT !.pc = "arming"]
    /\ UNCHANGED <<state, clientConnection, param, operateInvokeId, connVars,
                   opVars, worker, history>>

OperOwner ==
    /\ handler.pc = "arming"
    /\ clientConnection' =
         [clientConnection EXCEPT ![handler.obj] = ccHandle[handler.cc]]
    /\ handler' = [handler EXCEPT !.pc = "owned"]
    /\ UNCHANGED <<state, param, timeActivatedOperate, operateInvokeId,
                   connVars, opVars, worker, history>>

OperWait ==
    /\ handler.pc = "owned"
    /\ state' = [state EXCEPT ![handler.obj] = "WAIT_FOR_ACTIVATION_TIME"]
    /\ handler' = [handler EXCEPT !.pc = "armed"]
    /\ UNCHANGED <<clientConnection, param, timeActivatedOperate,
                   operateInvokeId, connVars, opVars, worker, history>>

\* The flag is tested.  While a command is armed the request ends here (with
\* success if it is the one that armed it); otherwise the state is PERFORM_TEST
\* and the check handler is called.  A request whose command the worker has
\* taken meanwhile goes on like one without an operate time.
OperTest ==
    /\ \/ handler.pc = "accepted" /\ "Oper" \in Services
       \/ handler.pc = "armed"
    /\ IF timeActivatedOperate[handler.obj]
       THEN handler' = Idle /\ UNCHANGED state
       ELSE /\ state' = [state EXCEPT ![handler.obj] = "PERFORM_TEST"]
            /\ handler' = [handler EXCEPT !.pc = "oper"]
    /\ UNCHANGED <<clientConnection, param, timeActivatedOperate,
                   operateInvokeId, connVars, opVars, worker, history>>

\* The check handler has answered.  Accepted: the answer of the request is
\* deferred (DATA_ACCESS_ERROR_NO_RESPONSE) to the new operate thread.
OperFinish(accepted) ==
    /\ handler.pc = "oper"
    /\ handler' = Idle
    /\ LET o == handler.obj IN
       IF accepted
       THEN /\ ops < MaxOps
            /\ clientConnection' =
                 [clientConnection EXCEPT ![o] = ccHandle[handler.cc]]
            /\ operateInvokeId' = [operateInvokeId EXCEPT ![o] = ops + 1]
            /\ StartThread(o, handler.cc, handler.param)
            /\ UNCHANGED state
       ELSE /\ state' = [state EXCEPT ![o] = AbortState(o)]
            /\ UNCHANGED <<clientConnection, operateInvokeId, opVars>>
    /\ UNCHANGED <<param, timeActivatedOperate, connVars, worker, history>>

\* Cancel.  On an SBO object in use, the owner unselects it and any other
\* client gets LOCKED_BY_OTHER_CLIENT; only the owner's request stops there.
\* Every other request goes on to disarm a time activated command.
Cancel(i, o) ==
    /\ "Cancel" \in Services
    /\ CanHandle(i)
    /\ \/ /\ IsSbo(o) /\ state[o] # "UNSELECTED"
          /\ clientConnection[o] = ccHandle[i]
          /\ state' = [state EXCEPT ![o] = "UNSELECTED"]
          /\ UNCHANGED timeActivatedOperate
       \/ /\ ~(IsSbo(o) /\ state[o] # "UNSELECTED"
                        /\ clientConnection[o] = ccHandle[i])
          /\ timeActivatedOperate[o]
          /\ timeActivatedOperate' = [timeActivatedOperate EXCEPT ![o] = FALSE]
          /\ state' = [state EXCEPT ![o] = AbortState(o)]
    /\ UNCHANGED <<clientConnection, param, operateInvokeId, connVars, opVars,
                   handler, worker, history>>

(***************************************************************************)
(* The event worker: Control_processControlActions, one object at a time.  *)
(***************************************************************************)
\* The flag is read set and the operate time has come.
WorkerSeesDue(o) ==
    /\ worker.pc = "idle"
    /\ timeActivatedOperate[o]
    /\ worker' = [pc |-> "due", obj |-> o]
    /\ UNCHANGED <<objectVars, connVars, opVars, handler, history>>

\* The flag is cleared and the check handler is called.
WorkerTakes ==
    /\ worker.pc = "due"
    /\ worker' = [worker EXCEPT !.pc = "check"]
    /\ timeActivatedOperate' =
         [timeActivatedOperate EXCEPT ![worker.obj] = FALSE]
    /\ overtaken' = IF handler.pc \in Arming /\ handler.obj = worker.obj
                    THEN overtaken \cup {worker.obj} ELSE overtaken
    /\ UNCHANGED <<state, clientConnection, param, operateInvokeId, connVars,
                   opVars, handler, answers, selectedBy>>

\* The check handler has answered.
WorkerFinish(accepted) ==
    /\ worker.pc = "check"
    /\ worker' = WorkerIdle
    /\ LET o == worker.obj IN
       IF accepted
       THEN /\ ops < MaxOps
            /\ StartThread(o, 0, param[o])
            /\ UNCHANGED state
       ELSE /\ state' = [state EXCEPT ![o] = AbortState(o)]
            /\ UNCHANGED opVars
    /\ UNCHANGED <<clientConnection, param, timeActivatedOperate,
                   operateInvokeId, connVars, handler, history>>

(***************************************************************************)
(* controlOperateThread                                                    *)
(***************************************************************************)
\* The ClientConnection is looked up with the handle in the object; without
\* one the thread ends at once.
ThreadLookup(t) ==
    /\ pc[t] = "start"
    /\ LET i == GetClientConnectionByHandle(clientConnection[op[t].obj]) IN
       /\ ref' = [ref EXCEPT ![t] = i]
       /\ pc' = [pc EXCEPT ![t] = IF i = 0 THEN "done" ELSE "found"]
    /\ UNCHANGED <<objectVars, connVars, ops, op, timed, handler, worker,
                   history>>

\* private_ClientConnection_increaseTasksCount
ThreadIncrease(t) ==
    /\ pc[t] = "found"
    /\ tasksCount' = [tasksCount EXCEPT ![ref[t]] = @ + 1]
    /\ pc' = [pc EXCEPT ![t] = "begin"]
    /\ UNCHANGED <<objectVars, conns, ccState, ccHandle, ops, op, ref, timed,
                   handler, worker, history>>

\* isTimeActivatedControl is taken from the state, then the
\* waitForExecutionHandler is called.
ThreadBegin(t) ==
    /\ pc[t] = "begin"
    /\ LET o == op[t].obj IN
       /\ timed' = [timed EXCEPT ![t] =
                        (state[o] = "WAIT_FOR_ACTIVATION_TIME")]
       /\ state' = [state EXCEPT ![o] = "WAIT_FOR_EXECUTION"]
    /\ pc' = [pc EXCEPT ![t] = "waiting"]
    /\ UNCHANGED <<clientConnection, param, timeActivatedOperate,
                   operateInvokeId, connVars, ops, op, ref, handler, worker,
                   history>>

\* MmsServerConnection_sendWriteResponse with what the object holds now
SendWriteResponse(o) ==
    answers' = IF operateInvokeId[o] = 0 THEN answers
               ELSE [answers EXCEPT ![operateInvokeId[o]] =
                         Append(@, Receiver(clientConnection[o]))]

\* (mutated: a time activated command answers a request too)
RespondsAlways(t, ok) == TRUE

\* (mutated: no answer when the dynamic tests fail)
RespondsIfOk(t, ok) == ok /\ ~timed[t]

\* Whether the outcome of the dynamic tests is the answer of a request (a
\* time activated command was answered when it was armed).
Responds(t, ok) == ~timed[t]

\* The waitForExecutionHandler has answered: a direct command is answered
\* to the client, negatively or positively, and a failed one is aborted.
ThreadExecute(t, ok) ==
    /\ pc[t] = "waiting"
    /\ LET o == op[t].obj IN
       /\ IF Responds(t, ok) THEN SendWriteResponse(o) ELSE UNCHANGED answers
       /\ state' = [state EXCEPT ![o] = IF ok THEN "OPERATE" ELSE AbortState(o)]
    /\ pc' = [pc EXCEPT ![t] = IF ok THEN "operate" ELSE "end"]
    /\ UNCHANGED <<clientConnection, param, timeActivatedOperate,
                   operateInvokeId, connVars, ops, op, ref, timed, handler,
                   worker, selectedBy, overtaken>>

\* ControlObject_operate calls the application's control handler, then a
\* CommandTermination is sent for the models with enhanced security.
ThreadOperate(t) ==
    /\ pc[t] = "operate"
    /\ pc' = [pc EXCEPT ![t] = "abort"]
    /\ UNCHANGED <<objectVars, connVars, ops, op, ref, timed, handler, worker,
                   history>>

\* abortControlOperation
ThreadAbort(t) ==
    /\ pc[t] = "abort"
    /\ state' = [state EXCEPT ![op[t].obj] = AbortState(op[t].obj)]
    /\ pc' = [pc EXCEPT ![t] = "end"]
    /\ UNCHANGED <<clientConnection, param, timeActivatedOperate,
                   operateInvokeId, connVars, ops, op, ref, timed, handler,
                   worker, history>>

\* (mutated: the task stays counted)
ThreadStaysCounted(t) ==
    /\ pc[t] = "end"
    /\ pc' = [pc EXCEPT ![t] = "done"]
    /\ UNCHANGED <<objectVars, connVars, ops, op, ref, timed, handler, worker,
                   history>>

\* private_ClientConnection_decreaseTasksCount
ThreadDecrease(t) ==
    /\ pc[t] = "end"
    /\ tasksCount' = [tasksCount EXCEPT ![ref[t]] = @ - 1]
    /\ pc' = [pc EXCEPT ![t] = "done"]
    /\ UNCHANGED <<objectVars, conns, ccState, ccHandle, ops, op, ref, timed,
                   handler, worker, history>>

----------------------------------------------------------------------------
ConnectionStep == \/ \E h \in Handles : NewConnection(h)
                  \/ \E i \in Conns : \/ RemoveConnection(i)
                                      \/ DrainConnection(i)
                                      \/ DestroyConnection(i)

RequestStep ==
    \/ \E i \in Conns, o \in Objects :
          \/ Cancel(i, o)
          \/ \E p \in Params, expired \in BOOLEAN :
                \/ SelectBegin(i, o, p, expired)
                \/ OperRefused(i, o, p, expired)
                \/ OperAccept(i, o, p, expired)
    \/ OperArm \/ OperOwner \/ OperWait \/ OperTest
    \/ \E accepted \in BOOLEAN : SelectFinish(accepted) \/ OperFinish(accepted)

WorkerStep == \/ \E o \in Objects : WorkerSeesDue(o)
              \/ WorkerTakes
              \/ \E accepted \in BOOLEAN : WorkerFinish(accepted)

ThreadStep(t) == \/ ThreadLookup(t)
                 \/ ThreadIncrease(t)
                 \/ ThreadBegin(t)
                 \/ \E ok \in BOOLEAN : ThreadExecute(t, ok)
                 \/ ThreadOperate(t)
                 \/ ThreadAbort(t)
                 \/ ThreadDecrease(t)

Next == \/ ConnectionStep
        \/ RequestStep
        \/ WorkerStep
        \/ \E t \in Ops : ThreadStep(t)

Spec == Init /\ [][Next]_vars

\* Every thread that can run does run; the application's callbacks return.
\* Clients need not send anything and need not disconnect.
Fairness ==
    /\ \A t \in Ops : WF_vars(ThreadStep(t))
    /\ \A i \in Conns : WF_vars(DrainConnection(i) \/ DestroyConnection(i))
    /\ WF_vars(\/ OperArm \/ OperOwner \/ OperWait \/ OperTest
               \/ \E a \in BOOLEAN : SelectFinish(a) \/ OperFinish(a))
    /\ WF_vars(WorkerStep)

FairSpec == Spec /\ Fairness

----------------------------------------------------------------------------
HandlerType == [pc : {"idle", "select"} \cup OperPc, obj : 0 .. NumObjects,
                cc : 0 .. MaxConns, param : Params \cup {NoParam}]
WorkerType == [pc : {"idle", "due", "check"}, obj : 0 .. NumObjects]
OpType == [obj : 0 .. NumObjects, asker : 0 .. MaxConns,
           param : Params \cup {NoParam}, selector : 0 .. MaxConns]

ObjectsTypeOK ==
    /\ state \in [Objects -> States]
    /\ clientConnection \in [Objects -> Handles \cup {NoHandle}]
    /\ param \in [Objects -> Params \cup {NoParam}]
    /\ timeActivatedOperate \in [Objects -> BOOLEAN]
    /\ operateInvokeId \in [Objects -> 0 .. MaxOps]
    /\ selectedBy \in [Objects -> 0 .. MaxConns]
    /\ overtaken \subseteq Objects

ConnsTypeOK ==
    /\ conns \in 0 .. MaxConns
    /\ ccState \in [Conns -> {"unused", "listed", "removed", "drained",
                              "destroyed"}]
    /\ ccHandle \in [Conns -> Handles \cup {NoHandle}]

ThreadsTypeOK ==
    /\ ops \in 0 .. MaxOps
    /\ op \in [Ops -> OpType]
    /\ pc \in [Ops -> ThreadPc]
    /\ ref \in [Ops -> 0 .. MaxConns]
    /\ timed \in [Ops -> BOOLEAN]

\* The type invariant of the module.
TypeOK ==
    /\ ObjectsTypeOK
    /\ ConnsTypeOK
    /\ ThreadsTypeOK
    /\ tasksCount \in [Conns -> Nat]
    /\ handler \in HandlerType
    /\ worker \in WorkerType
    /\ answers \in [Ops -> Seq(0 .. MaxConns)]

\* The threads at work on an object: from their start until they have left
\* it in the state abortControlOperation sets.
Active(o) == {t \in Ops : op[t].obj = o /\ pc[t] \notin {"none", "end", "done"}}

\* Two operations are never in progress on one control object: the states
\* between READY and the end of an operation keep every further Oper out
\* (control.c, Control_writeAccessControlObject and controlOperateThread).
\* The one way to a second operation is a time activated command that the
\* worker took while its handler was still arming it.
ExclusiveOperation ==
    \A o \in Objects \ overtaken : \A t, u \in Active(o) : t = u

\* When the application's control handler is called, the object still holds
\* the control value of the command this thread was started for: no other
\* request has replaced ctlVal, ctlNum and origin in the meantime.
OperatedAsCommanded ==
    \A t \in Ops : pc[t] = "operate" /\ op[t].obj \notin overtaken
                       => param[op[t].obj] = op[t].param

\* An Oper request whose answer was deferred to the operate thread is
\* answered at most once, and to the client that sent it, although the
\* thread takes connection and invoke id from the shared object.
AnsweredOnce ==
    \A t \in Ops : op[t].obj \notin overtaken
                       => answers[t] \in {<<>>, <<op[t].asker>>}

\* One operation at a time without exception.  The code does not keep it, for
\* the reason given above (README, section 6).
OneOperation == \A o \in Objects : \A t, u \in Active(o) : t = u

\* A select before operate object is operated, upon an Oper request, by the
\* very connection that selected it, even when a closed connection's address
\* is given to a new one.
OperatedBySelector ==
    \A t \in Ops : op[t].asker # 0 /\ IsSbo(op[t].obj)
                       => op[t].selector = op[t].asker

\* tasksCount is the number of operate threads between their increase and
\* their decrease of it.
CountedBy(i) == {t \in Ops : pc[t] \in Counted /\ ref[t] = i}
TasksCounted == \A i \in Conns : tasksCount[i] = Cardinality(CountedBy(i))

\* The close handler of a connection gets past its wait loop only when no
\* thread is counted on the connection (mmsConnectionHandler).
DrainWaitsForThreads ==
    [][\A i \in Conns : ccState[i] = "removed" /\ ccState'[i] = "drained"
                           => CountedBy(i) = {}]_vars

\* What the comment at the wait loop says, "wait until control threads are
\* finished": no operate thread uses a ClientConnection that is destroyed.
\* The code does not keep it (README, section 6).
ThreadsFinished ==
    \A t \in Ops : pc[t] \in Counted \cup {"found"}
                       => ccState[ref[t]] # "destroyed"

\* No control object stays in the middle of an operation for ever: it always
\* gets back to a state in which a client or the worker can go on.
NotStuck ==
    \A o \in Objects :
        []<>(state[o] \in {"UNSELECTED", "READY", "WAIT_FOR_ACTIVATION_TIME"})

\* A deferred request is answered in the end, unless its client is gone or
\* two operations run on its object.
RequestsAnswered ==
    \A t \in Ops, i \in Conns :
        (pc[t] = "start" /\ op[t].asker = i)
            ~> \/ answers[t] # <<>> \/ ccState[i] # "listed"
               \/ op[t].obj \in overtaken

=============================================================================
