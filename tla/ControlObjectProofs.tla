------------------------ MODULE ControlObjectProofs ------------------------
(***************************************************************************)
(* Theorems about ControlObject for any number of clients, control objects *)
(* and operations.                                                         *)
(***************************************************************************)
EXTENDS ControlObject, FiniteSetTheorems, TLAPS

(***************************************************************************)
(* What TypeOK leaves open about the numbers 0 that stand for NULL: the    *)
(* local variables of a thread, of the handler and of the worker mean      *)
(* something while they are used.                                          *)
(***************************************************************************)
ThreadLocals ==
    /\ \A t \in Ops : pc[t] = "none" <=> t > ops
    /\ \A t \in Ops : pc[t] # "none" => op[t].obj \in Objects
    /\ \A t \in Ops : pc[t] \in Counted \cup {"found"} => ref[t] \in Conns

OtherLocals ==
    /\ handler.pc # "idle" => handler.obj \in Objects /\ handler.cc \in Conns
    /\ worker.pc # "idle" => worker.obj \in Objects
    /\ \A i \in Conns : ccState[i] # "unused" => ccHandle[i] \in Handles

\* The inductive invariant behind the type invariant and the task count.
IInv == TypeOK /\ ThreadLocals /\ OtherLocals /\ TasksCounted

\* The sets of threads counted on a connection are finite.
LEMMA CountedByFinite ==
    ASSUME NEW i \in Conns
    PROVE  IsFiniteSet(CountedBy(i)) /\ Cardinality(CountedBy(i)) \in Nat
<1>1. IsFiniteSet(Ops)
  BY ControlAssumption, FS_Interval DEF Ops
<1>2. CountedBy(i) \subseteq Ops
  BY DEF CountedBy
<1> QED BY <1>1, <1>2, FS_Subset, FS_CardinalityType

\* The initial states satisfy the inductive invariant.
LEMMA InitIInv == Init => IInv
<1> SUFFICES ASSUME Init PROVE IInv
  OBVIOUS
<1>1. TypeOK
  BY ControlAssumption
     DEF Init, TypeOK, ObjectsTypeOK, ConnsTypeOK, ThreadsTypeOK, HandlerType, OperPc, Arming,
         WorkerType, OpType, States, ThreadPc, NoOp, Idle,
         WorkerIdle, Objects, Ops, Conns
<1>2. ThreadLocals /\ OtherLocals
  BY ControlAssumption
     DEF Init, ThreadLocals, OtherLocals, Counted, Ops, Conns, Idle,
         WorkerIdle
<1>3. \A i \in Conns : CountedBy(i) = {}
  BY DEF Init, CountedBy, Counted
<1>4. TasksCounted
  BY <1>3, FS_EmptySet DEF Init, TasksCounted
<1> QED BY <1>1, <1>2, <1>4 DEF IInv

\* A step of anything but the operate threads and the task counts keeps
\* what the invariant says of them.
LEMMA ThreadsAlone ==
    ASSUME IInv, UNCHANGED <<opVars, tasksCount>>
    PROVE  ThreadsTypeOK' /\ ThreadLocals' /\ TasksCounted'
           /\ tasksCount' \in [Conns -> Nat]
<1>1. UNCHANGED <<ops, op, pc, ref, timed>>
  BY DEF opVars
<1>2. \A i \in Conns : CountedBy(i)' = CountedBy(i)
  BY <1>1 DEF CountedBy
<1>3. TasksCounted'
  BY <1>2 DEF IInv, TasksCounted
<1>4. ThreadsTypeOK' /\ ThreadLocals'
  BY <1>1 DEF IInv, TypeOK, ThreadsTypeOK, ThreadLocals
<1> QED BY <1>3, <1>4 DEF IInv, TypeOK

\* Every step of a connection keeps the inductive invariant.
LEMMA ConnectionStepIInv == IInv /\ ConnectionStep => IInv'
<1> SUFFICES ASSUME IInv, ConnectionStep PROVE IInv'
  OBVIOUS
<1>0. /\ ThreadsTypeOK' /\ ThreadLocals' /\ TasksCounted'
      /\ tasksCount' \in [Conns -> Nat]
  BY ThreadsAlone DEF ConnectionStep, NewConnection, RemoveConnection,
                      DrainConnection, DestroyConnection
<1>1. UNCHANGED <<handler, worker, history, clientConnection, param,
                  timeActivatedOperate, operateInvokeId>>
  BY DEF ConnectionStep, NewConnection, RemoveConnection, DrainConnection,
         DestroyConnection, objectVars
<1>2. ObjectsTypeOK'
  <2>1. state' \in [Objects -> States]
    BY DEF IInv, TypeOK, ObjectsTypeOK, ConnectionStep, NewConnection,
           RemoveConnection, DrainConnection, DestroyConnection, objectVars,
           AbortState, States
  <2> QED BY <2>1, <1>1 DEF IInv, TypeOK, ObjectsTypeOK, history
<1>3. ConnsTypeOK' /\ \A i \in Conns : ccState'[i] # "unused"
                                          => ccHandle'[i] \in Handles
  <2>1. ASSUME NEW h \in Handles, NewConnection(h)
        PROVE ConnsTypeOK' /\ \A i \in Conns : ccState'[i] # "unused"
                                                   => ccHandle'[i] \in Handles
    BY <2>1, ControlAssumption
       DEF IInv, TypeOK, ConnsTypeOK, OtherLocals, NewConnection, Conns
  <2>2. ASSUME NEW i \in Conns,
               RemoveConnection(i) \/ DrainConnection(i) \/ DestroyConnection(i)
        PROVE ConnsTypeOK' /\ \A j \in Conns : ccState'[j] # "unused"
                                                   => ccHandle'[j] \in Handles
    <3>1. /\ ccState[i] # "unused" /\ UNCHANGED <<conns, ccHandle>>
          /\ \E x \in {"removed", "drained", "destroyed"} :
                 ccState' = [ccState EXCEPT ![i] = x]
      BY <2>2 DEF RemoveConnection, DrainConnection, DestroyConnection
    <3> QED BY <3>1 DEF IInv, TypeOK, ConnsTypeOK, OtherLocals
  <2> QED BY <2>1, <2>2 DEF ConnectionStep
<1> QED BY <1>0, <1>1, <1>2, <1>3 DEF IInv, TypeOK, OtherLocals, history

\* A step of a request handler that starts no thread: what is left to show.
LEMMA RequestFrame ==
    ASSUME IInv, UNCHANGED <<connVars, opVars, worker, answers>>,
           ObjectsTypeOK', handler' \in HandlerType,
           handler'.pc # "idle" => handler'.obj \in Objects
                                     /\ handler'.cc \in Conns
    PROVE  IInv'
<1>1. UNCHANGED <<conns, ccState, ccHandle, tasksCount>>
  BY DEF connVars
<1>2. ThreadsTypeOK' /\ ThreadLocals' /\ TasksCounted'
      /\ tasksCount' \in [Conns -> Nat]
  BY <1>1, ThreadsAlone
<1>3. ConnsTypeOK'
  BY <1>1 DEF IInv, TypeOK, ConnsTypeOK
<1>4. OtherLocals'
  BY <1>1 DEF IInv, OtherLocals
<1> QED BY <1>2, <1>3, <1>4 DEF IInv, TypeOK

\* A thread is started on a control object that exists.
LEMMA StartThreadIInv ==
    ASSUME IInv, ops < MaxOps, UNCHANGED tasksCount,
           NEW o \in Objects, NEW asker \in 0 .. MaxConns,
           NEW p \in Params \cup {NoParam},
           StartThread(o, asker, p)
    PROVE  ThreadsTypeOK' /\ ThreadLocals' /\ TasksCounted'
           /\ tasksCount' \in [Conns -> Nat]
<1>1. /\ ops \in 0 .. MaxOps /\ op \in [Ops -> OpType]
      /\ pc \in [Ops -> ThreadPc] /\ ref \in [Ops -> 0 .. MaxConns]
      /\ timed \in [Ops -> BOOLEAN] /\ selectedBy[o] \in 0 .. MaxConns
  BY DEF IInv, TypeOK, ThreadsTypeOK, ObjectsTypeOK
<1>2. ops + 1 \in Ops /\ ops' = ops + 1 /\ ops' \in 0 .. MaxOps
  BY <1>1, ControlAssumption DEF StartThread, Ops
<1>3. pc[ops + 1] = "none"
  BY <1>1, <1>2 DEF IInv, ThreadLocals
<1> DEFINE new == [obj |-> o, asker |-> asker, param |-> p,
                   selector |-> selectedBy[o]]
<1>4. new \in OpType /\ new.obj = o
  BY <1>1, ControlAssumption DEF OpType, Objects
<1>5. /\ op' = [op EXCEPT ![ops + 1] = new]
      /\ pc' = [pc EXCEPT ![ops + 1] = "start"]
      /\ ref' = ref /\ timed' = timed
  BY DEF StartThread
<1> HIDE DEF new
<1>6. ThreadsTypeOK'
  BY <1>1, <1>2, <1>4, <1>5 DEF ThreadsTypeOK, ThreadPc
<1>7. \A i \in Conns : CountedBy(i)' = CountedBy(i)
  BY <1>1, <1>2, <1>3, <1>5 DEF CountedBy, Counted
<1>8. TasksCounted' /\ tasksCount' \in [Conns -> Nat]
  BY <1>7 DEF IInv, TypeOK, TasksCounted
<1>9. \A t \in Ops : pc'[t] = "none" <=> t > ops'
  <2>1. \A t \in Ops : t \in Nat /\ (pc[t] = "none" <=> t > ops)
    BY DEF IInv, ThreadLocals, Ops
  <2> QED BY <2>1, <1>1, <1>2, <1>5
<1>10. \A t \in Ops : pc'[t] # "none" => op'[t].obj \in Objects
  BY <1>1, <1>2, <1>4, <1>5 DEF IInv, ThreadLocals
<1>11. \A t \in Ops : pc'[t] \in Counted \cup {"found"} => ref'[t] \in Conns
  BY <1>1, <1>2, <1>5 DEF IInv, ThreadLocals, Counted
<1> QED BY <1>6, <1>8, <1>9, <1>10, <1>11 DEF ThreadLocals

\* Every step of a request handler keeps the inductive invariant.
LEMMA RequestStepIInv == IInv /\ RequestStep => IInv'
<1> SUFFICES ASSUME IInv, RequestStep PROVE IInv'
  OBVIOUS
<1>0. ObjectsTypeOK /\ handler \in HandlerType /\ OtherLocals
  BY DEF IInv, TypeOK
<1>1. ASSUME NEW i \in Conns, NEW o \in Objects, Cancel(i, o) PROVE IInv'
  <2>1. ObjectsTypeOK'
    BY <1>0, <1>1 DEF Cancel, ObjectsTypeOK, States, AbortState, history
  <2> QED BY <1>0, <1>1, <2>1, RequestFrame DEF Cancel, OtherLocals, history
<1>2. ASSUME NEW i \in Conns, NEW o \in Objects, NEW p \in Params,
             NEW expired \in BOOLEAN, SelectBegin(i, o, p, expired)
      PROVE IInv'
  <2>1. AfterSelectTimeout(o, expired) \in States
    BY <1>0 DEF AfterSelectTimeout, ObjectsTypeOK, States
  <2>2. ObjectsTypeOK'
    BY <1>0, <1>2, <2>1 DEF SelectBegin, ObjectsTypeOK, history
  <2>3. \/ handler' = handler
        \/ handler' = [pc |-> "select", obj |-> o, cc |-> i, param |-> p]
    BY <1>2 DEF SelectBegin
  <2>4. handler' \in HandlerType
    BY <1>0, <2>3, ControlAssumption DEF HandlerType, Objects, Conns
  <2> QED BY <1>0, <1>2, <2>2, <2>3, <2>4, RequestFrame
          DEF SelectBegin, OtherLocals, history
<1>3. ASSUME NEW i \in Conns, NEW o \in Objects, NEW p \in Params,
             NEW expired \in BOOLEAN, OperRefused(i, o, p, expired)
      PROVE IInv'
  <2>1. AfterSelectTimeout(o, expired) \in States
    BY <1>0 DEF AfterSelectTimeout, ObjectsTypeOK, States
  <2>2. ObjectsTypeOK'
    BY <1>0, <1>3, <2>1 DEF OperRefused, ObjectsTypeOK, history
  <2> QED BY <1>0, <1>3, <2>2, RequestFrame DEF OperRefused, OtherLocals, history
<1>4. ASSUME NEW i \in Conns, NEW o \in Objects, NEW p \in Params,
             NEW expired \in BOOLEAN, OperAccept(i, o, p, expired)
      PROVE IInv'
  <2>1. ObjectsTypeOK'
    BY <1>0, <1>4 DEF OperAccept, ObjectsTypeOK, history
  <2>2. handler' = [pc |-> "accepted", obj |-> o, cc |-> i, param |-> p]
    BY <1>4 DEF OperAccept
  <2>3. handler' \in HandlerType
    BY <2>2, ControlAssumption DEF HandlerType, OperPc, Objects, Conns
  <2> QED BY <1>4, <2>1, <2>2, <2>3, RequestFrame DEF OperAccept, history
<1>5. ASSUME OperArm \/ OperOwner \/ OperWait \/ OperTest PROVE IInv'
  <2>1. handler.obj \in Objects /\ handler.cc \in Conns
    BY <1>0, <1>5 DEF OperArm, OperOwner, OperWait, OperTest, OtherLocals
  <2>2. ccHandle[handler.cc] \in Handles \cup {NoHandle}
    BY <2>1 DEF IInv, TypeOK, ConnsTypeOK
  <2>3. ObjectsTypeOK'
    BY <1>0, <1>5, <2>1, <2>2
       DEF OperArm, OperOwner, OperWait, OperTest, ObjectsTypeOK, States, history
  <2>4. \/ handler' = Idle
        \/ \E x \in OperPc : handler' = [handler EXCEPT !.pc = x]
    BY <1>5 DEF OperArm, OperOwner, OperWait, OperTest, OperPc, Arming
  <2>5. /\ handler' \in HandlerType
        /\ handler'.pc # "idle" => handler'.obj = handler.obj /\ handler'.cc = handler.cc
    BY <1>0, <2>4, ControlAssumption DEF HandlerType, Idle
  <2> QED BY <1>5, <2>1, <2>3, <2>5, RequestFrame
          DEF OperArm, OperOwner, OperWait, OperTest, history
<1>6. ASSUME NEW accepted \in BOOLEAN, SelectFinish(accepted) PROVE IInv'
  <2>1. /\ handler.obj \in Objects /\ handler.cc \in Conns
        /\ handler.param \in Params \cup {NoParam}
    BY <1>0, <1>6 DEF SelectFinish, OtherLocals, HandlerType
  <2>2. ccHandle[handler.cc] \in Handles \cup {NoHandle}
    BY <2>1 DEF IInv, TypeOK, ConnsTypeOK
  <2>3. ObjectsTypeOK'
    BY <1>0, <1>6, <2>1, <2>2, ControlAssumption
       DEF SelectFinish, ObjectsTypeOK, States, Conns
  <2>4. handler' = Idle /\ Idle \in HandlerType
    BY <1>6, ControlAssumption DEF SelectFinish, Idle, HandlerType
  <2> QED BY <1>6, <2>3, <2>4, RequestFrame DEF SelectFinish, Idle
<1>7. ASSUME OperFinish(FALSE) PROVE IInv'
  <2>1. handler.obj \in Objects
    BY <1>0, <1>7 DEF OperFinish, OtherLocals
  <2>2. ObjectsTypeOK'
    BY <1>0, <1>7, <2>1 DEF OperFinish, ObjectsTypeOK, States, AbortState, history
  <2>3. handler' = Idle /\ Idle \in HandlerType
    BY <1>7, ControlAssumption DEF OperFinish, Idle, HandlerType
  <2> QED BY <1>7, <2>2, <2>3, RequestFrame DEF OperFinish, Idle, history
<1>8. ASSUME OperFinish(TRUE) PROVE IInv'
  <2>1. /\ handler.obj \in Objects /\ handler.cc \in Conns
        /\ handler.param \in Params \cup {NoParam}
    BY <1>0, <1>8 DEF OperFinish, OtherLocals, HandlerType
  <2>2. ccHandle[handler.cc] \in Handles \cup {NoHandle}
    BY <2>1 DEF IInv, TypeOK, ConnsTypeOK
  <2>3. ops \in 0 .. MaxOps /\ ops < MaxOps
    BY <1>8 DEF OperFinish, IInv, TypeOK, ThreadsTypeOK
  <2>4. ObjectsTypeOK'
    BY <1>0, <1>8, <2>1, <2>2, <2>3, ControlAssumption
       DEF OperFinish, ObjectsTypeOK, history
  <2>5. handler' = Idle /\ Idle \in HandlerType
    BY <1>8, ControlAssumption DEF OperFinish, Idle, HandlerType
  <2>6. handler.cc \in 0 .. MaxConns
    BY <2>1, ControlAssumption DEF Conns
  <2>7. /\ StartThread(handler.obj, handler.cc, handler.param)
        /\ UNCHANGED <<conns, ccState, ccHandle, tasksCount, worker, answers>>
    BY <1>8 DEF OperFinish, connVars, history
  <2>8. ThreadsTypeOK' /\ ThreadLocals' /\ TasksCounted'
        /\ tasksCount' \in [Conns -> Nat]
    BY <2>1, <2>3, <2>6, <2>7, StartThreadIInv
  <2>9. ConnsTypeOK' /\ OtherLocals'
    BY <1>0, <2>5, <2>7 DEF IInv, TypeOK, ConnsTypeOK, OtherLocals, Idle
  <2> QED BY <2>4, <2>5, <2>7, <2>8, <2>9 DEF IInv, TypeOK
<1> QED BY <1>1, <1>2, <1>3, <1>4, <1>5, <1>6, <1>7, <1>8 DEF RequestStep

\* Every step of the event worker keeps the inductive invariant.
LEMMA WorkerStepIInv == IInv /\ WorkerStep => IInv'
<1> SUFFICES ASSUME IInv, WorkerStep PROVE IInv'
  OBVIOUS
<1>0. /\ ObjectsTypeOK /\ ConnsTypeOK /\ OtherLocals
      /\ handler \in HandlerType /\ worker \in WorkerType
      /\ answers \in [Ops -> Seq(0 .. MaxConns)]
  BY DEF IInv, TypeOK
<1>1. ConnsTypeOK' /\ UNCHANGED <<ccState, ccHandle, tasksCount, handler, answers>>
  BY <1>0 DEF WorkerStep, WorkerSeesDue, WorkerTakes, WorkerFinish, connVars,
              ConnsTypeOK, history
<1>2. ASSUME NEW o \in Objects, WorkerSeesDue(o) PROVE IInv'
  <2>1. ObjectsTypeOK'
    BY <1>0, <1>2 DEF WorkerSeesDue, ObjectsTypeOK, objectVars, history
  <2>2. worker' \in WorkerType /\ worker'.obj \in Objects
    BY <1>2, ControlAssumption DEF WorkerSeesDue, WorkerType, Objects
  <2>3. OtherLocals'
    BY <1>0, <1>1, <2>2 DEF OtherLocals
  <2> QED BY <1>0, <1>1, <1>2, <2>1, <2>2, <2>3, ThreadsAlone
          DEF WorkerSeesDue, IInv, TypeOK
<1>3. ASSUME WorkerTakes PROVE IInv'
  <2>1. worker.obj \in Objects
    BY <1>0, <1>3 DEF WorkerTakes, OtherLocals
  <2>2. ObjectsTypeOK'
    BY <1>0, <1>3, <2>1 DEF WorkerTakes, ObjectsTypeOK
  <2>3. worker' \in WorkerType /\ worker'.obj = worker.obj
    BY <1>0, <1>3 DEF WorkerTakes, WorkerType
  <2>4. OtherLocals'
    BY <1>0, <1>1, <2>1, <2>3 DEF OtherLocals
  <2> QED BY <1>0, <1>1, <1>3, <2>2, <2>3, <2>4, ThreadsAlone
          DEF WorkerTakes, IInv, TypeOK
<1>4. ASSUME NEW accepted \in BOOLEAN, WorkerFinish(accepted) PROVE IInv'
  <2>1. worker.obj \in Objects
    BY <1>0, <1>4 DEF WorkerFinish, OtherLocals
  <2>2. ObjectsTypeOK'
    BY <1>0, <1>4, <2>1 DEF WorkerFinish, ObjectsTypeOK, States, AbortState, history
  <2>3. worker' \in WorkerType /\ worker'.pc = "idle"
    BY <1>4, ControlAssumption DEF WorkerFinish, WorkerType, WorkerIdle
  <2>4. OtherLocals'
    BY <1>0, <1>1, <2>3 DEF OtherLocals
  <2>5. ThreadsTypeOK' /\ ThreadLocals' /\ TasksCounted'
        /\ tasksCount' \in [Conns -> Nat]
    <3>1. CASE accepted
      <4>1. ops < MaxOps /\ StartThread(worker.obj, 0, param[worker.obj])
        BY <1>4, <3>1 DEF WorkerFinish
      <4>2. param[worker.obj] \in Params \cup {NoParam} /\ 0 \in 0 .. MaxConns
        BY <1>0, <2>1, ControlAssumption DEF ObjectsTypeOK
      <4> QED BY <4>1, <4>2, <2>1, <1>1, StartThreadIInv
    <3>2. CASE ~accepted
      BY <1>1, <1>4, <3>2, ThreadsAlone DEF WorkerFinish
    <3> QED BY <3>1, <3>2
  <2> QED BY <1>0, <1>1, <2>2, <2>3, <2>4, <2>5 DEF IInv, TypeOK
<1> QED BY <1>2, <1>3, <1>4 DEF WorkerStep

\* A thread step that moves between two counted or two uncounted places and
\* keeps its reference leaves every count right.
LEMMA ThreadMoves ==
    ASSUME IInv, NEW t \in Ops, NEW new \in ThreadPc \ {"none"},
           pc[t] # "none", UNCHANGED <<ops, op, ref, tasksCount>>,
           timed' \in [Ops -> BOOLEAN],
           pc' = [pc EXCEPT ![t] = new],
           pc[t] \in Counted <=> new \in Counted,
           new \in Counted \cup {"found"} => ref[t] \in Conns
    PROVE  ThreadsTypeOK' /\ ThreadLocals' /\ TasksCounted'
           /\ tasksCount' \in [Conns -> Nat]
<1>1. ThreadsTypeOK /\ ThreadLocals /\ TasksCounted
      /\ tasksCount \in [Conns -> Nat]
  BY DEF IInv, TypeOK
<1>2. ThreadsTypeOK'
  BY <1>1 DEF ThreadsTypeOK
<1>3. ThreadLocals'
  BY <1>1 DEF ThreadLocals, ThreadsTypeOK
<1>4. \A i \in Conns : CountedBy(i)' = CountedBy(i)
  BY <1>1 DEF CountedBy, ThreadsTypeOK
<1>5. TasksCounted'
  BY <1>1, <1>4 DEF TasksCounted
<1> QED BY <1>1, <1>2, <1>3, <1>5

\* Every step of an operate thread keeps the inductive invariant.
LEMMA ThreadStepIInv ==
    ASSUME IInv, NEW t \in Ops, ThreadStep(t) PROVE IInv'
<1>0. /\ ObjectsTypeOK /\ ConnsTypeOK /\ OtherLocals /\ ThreadsTypeOK
      /\ handler \in HandlerType /\ worker \in WorkerType
      /\ answers \in [Ops -> Seq(0 .. MaxConns)] /\ ThreadLocals
      /\ tasksCount \in [Conns -> Nat] /\ TasksCounted
  BY DEF IInv, TypeOK
<1>1. UNCHANGED <<handler, worker, conns, ccState, ccHandle, selectedBy, overtaken>>
  BY DEF ThreadStep, ThreadLookup, ThreadIncrease, ThreadBegin, ThreadExecute,
         ThreadOperate, ThreadAbort, ThreadDecrease, connVars, history
<1>2. ConnsTypeOK' /\ OtherLocals' /\ handler' \in HandlerType
      /\ worker' \in WorkerType
  BY <1>0, <1>1 DEF ConnsTypeOK, OtherLocals
<1>3. pc[t] # "none" /\ op[t].obj \in Objects
  BY <1>0 DEF ThreadStep, ThreadLookup, ThreadIncrease, ThreadBegin,
         ThreadExecute, ThreadOperate, ThreadAbort, ThreadDecrease, ThreadLocals
<1>4. ObjectsTypeOK'
  BY <1>0, <1>1, <1>3
     DEF ThreadStep, ThreadLookup, ThreadIncrease, ThreadBegin, ThreadExecute,
         ThreadOperate, ThreadAbort, ThreadDecrease, objectVars, ObjectsTypeOK,
         States, AbortState
<1>5. answers' \in [Ops -> Seq(0 .. MaxConns)]
  <2>1. ASSUME NEW ok \in BOOLEAN, ThreadExecute(t, ok)
        PROVE  answers' \in [Ops -> Seq(0 .. MaxConns)]
    <3> DEFINE o == op[t].obj
    <3>1. Receiver(clientConnection[o]) \in 0 .. MaxConns
      BY ControlAssumption DEF Receiver, InUse, Conns
    <3>2. operateInvokeId[o] = 0 \/ operateInvokeId[o] \in Ops
      BY <1>0, <1>3, ControlAssumption DEF ObjectsTypeOK, Ops
    <3>3. \/ answers' = answers
          \/ /\ operateInvokeId[o] # 0
             /\ answers' = [answers EXCEPT ![operateInvokeId[o]] =
                               Append(@, Receiver(clientConnection[o]))]
      BY <2>1 DEF ThreadExecute, SendWriteResponse
    <3>4. ASSUME NEW k \in Ops, NEW r \in 0 .. MaxConns
          PROVE  Append(answers[k], r) \in Seq(0 .. MaxConns)
      BY <1>0
    <3> QED BY <1>0, <3>1, <3>2, <3>3, <3>4
  <2>2. ASSUME \A ok \in BOOLEAN : ~ThreadExecute(t, ok)
        PROVE  answers' = answers
    BY <2>2 DEF ThreadStep, ThreadLookup, ThreadIncrease, ThreadBegin,
                ThreadOperate, ThreadAbort, ThreadDecrease, history
  <2> QED BY <1>0, <2>1, <2>2
<1>6. ThreadsTypeOK' /\ ThreadLocals' /\ TasksCounted'
      /\ tasksCount' \in [Conns -> Nat]
  <2>1. CASE ThreadLookup(t)
    <3> DEFINE i == GetClientConnectionByHandle(clientConnection[op[t].obj])
    <3>1. i = 0 \/ i \in Conns
      BY DEF GetClientConnectionByHandle
    <3>2. /\ pc[t] = "start"
          /\ ref' = [ref EXCEPT ![t] = i]
          /\ \/ i = 0 /\ pc' = [pc EXCEPT ![t] = "done"]
             \/ i \in Conns /\ pc' = [pc EXCEPT ![t] = "found"]
          /\ UNCHANGED <<ops, op, timed, tasksCount>>
      BY <2>1, <3>1 DEF ThreadLookup, connVars, Conns
    <3> HIDE DEF i
    <3>3. ThreadsTypeOK'
      BY <1>0, <3>1, <3>2, ControlAssumption DEF ThreadsTypeOK, ThreadPc, Conns
    <3>4. ThreadLocals'
      BY <1>0, <3>2 DEF ThreadsTypeOK, ThreadLocals, Counted
    <3>5. \A j \in Conns : CountedBy(j)' = CountedBy(j)
      BY <1>0, <3>2 DEF CountedBy, Counted, ThreadsTypeOK
    <3>6. TasksCounted'
      BY <1>0, <3>2, <3>5 DEF TasksCounted
    <3> QED BY <1>0, <3>2, <3>3, <3>4, <3>6
  <2>2. CASE ThreadIncrease(t)
    <3>0. PICK i \in Conns : i = ref[t]
      BY <1>0, <2>2 DEF ThreadIncrease, ThreadLocals, Counted
    <3>1. /\ pc[t] = "found"
          /\ tasksCount' = [tasksCount EXCEPT ![i] = @ + 1]
          /\ pc' = [pc EXCEPT ![t] = "begin"]
          /\ UNCHANGED <<ops, op, ref, timed>>
      BY <3>0, <2>2 DEF ThreadIncrease
    <3>2. ThreadsTypeOK' /\ ThreadLocals'
      BY <1>0, <3>0, <3>1 DEF ThreadsTypeOK, ThreadLocals, ThreadPc, Counted
    <3>3. /\ CountedBy(i)' = CountedBy(i) \cup {t}
          /\ t \notin CountedBy(i)
          /\ \A j \in Conns \ {i} : CountedBy(j)' = CountedBy(j)
      BY <1>0, <3>0, <3>1 DEF CountedBy, Counted, ThreadsTypeOK
    <3>4. Cardinality(CountedBy(i)') = Cardinality(CountedBy(i)) + 1
      BY <3>1, <3>3, CountedByFinite, FS_AddElement
    <3>5. tasksCount' \in [Conns -> Nat]
      BY <1>0, <3>1
    <3>6. ASSUME NEW j \in Conns
          PROVE  tasksCount'[j] = Cardinality(CountedBy(j)')
      BY <1>0, <3>1, <3>3, <3>4 DEF TasksCounted
    <3>7. TasksCounted'
      BY <3>6 DEF TasksCounted
    <3> QED BY <3>2, <3>5, <3>7
  <2>3. CASE ThreadBegin(t)
    <3>1. timed' \in [Ops -> BOOLEAN]
      BY <1>0, <2>3 DEF ThreadBegin, ThreadsTypeOK
    <3> QED BY <1>0, <1>3, <2>3, <3>1, ThreadMoves
            DEF ThreadBegin, ThreadLocals, ThreadPc, Counted, connVars
  <2>4. CASE \E ok \in BOOLEAN : ThreadExecute(t, ok)
    <3>1. /\ pc[t] = "waiting" /\ ref[t] \in Conns
          /\ \E new \in {"operate", "end"} : pc' = [pc EXCEPT ![t] = new]
          /\ UNCHANGED <<ops, op, ref, tasksCount, timed>>
      BY <1>0, <2>4 DEF ThreadExecute, ThreadLocals, Counted, connVars
    <3> QED BY <1>0, <1>3, <3>1, ThreadMoves DEF ThreadPc, Counted, ThreadsTypeOK
  <2>5. CASE ThreadOperate(t)
    BY <1>0, <1>3, <2>5, ThreadMoves
       DEF ThreadOperate, ThreadLocals, ThreadsTypeOK, ThreadPc, Counted, connVars
  <2>6. CASE ThreadAbort(t)
    BY <1>0, <1>3, <2>6, ThreadMoves
       DEF ThreadAbort, ThreadLocals, ThreadsTypeOK, ThreadPc, Counted, connVars
  <2>7. CASE ThreadDecrease(t)
    <3>0. PICK i \in Conns : i = ref[t]
      BY <1>0, <2>7 DEF ThreadDecrease, ThreadLocals, Counted
    <3>1. /\ pc[t] = "end"
          /\ tasksCount' = [tasksCount EXCEPT ![i] = @ - 1]
          /\ pc' = [pc EXCEPT ![t] = "done"]
          /\ UNCHANGED <<ops, op, ref, timed>>
      BY <3>0, <2>7 DEF ThreadDecrease
    <3>2. ThreadsTypeOK' /\ ThreadLocals'
      BY <1>0, <3>0, <3>1 DEF ThreadsTypeOK, ThreadLocals, ThreadPc, Counted
    <3>3. /\ CountedBy(i)' = CountedBy(i) \ {t}
          /\ t \in CountedBy(i)
          /\ \A j \in Conns \ {i} : CountedBy(j)' = CountedBy(j)
      BY <1>0, <3>0, <3>1 DEF CountedBy, Counted, ThreadsTypeOK
    <3>4. /\ Cardinality(CountedBy(i)') = Cardinality(CountedBy(i)) - 1
          /\ Cardinality(CountedBy(i)') \in Nat
      BY <3>1, <3>3, CountedByFinite, FS_RemoveElement, FS_CardinalityType
    <3>5. TasksCounted' /\ tasksCount' \in [Conns -> Nat]
      BY <1>0, <3>1, <3>3, <3>4 DEF TasksCounted
    <3> QED BY <3>2, <3>5
  <2> QED BY <2>1, <2>2, <2>3, <2>4, <2>5, <2>6, <2>7 DEF ThreadStep
<1> QED BY <1>2, <1>4, <1>5, <1>6 DEF IInv, TypeOK
\* Every step keeps the inductive invariant.
LEMMA NextIInv == IInv /\ [Next]_vars => IInv'
<1> SUFFICES ASSUME IInv, [Next]_vars PROVE IInv'
  OBVIOUS
<1>1. CASE UNCHANGED vars
  <2>1. /\ UNCHANGED <<state, clientConnection, param, timeActivatedOperate,
                       operateInvokeId, selectedBy, overtaken, conns, ccState, ccHandle>>
        /\ UNCHANGED <<opVars, tasksCount, handler, worker, answers>>
    BY <1>1 DEF vars, objectVars, connVars, history
  <2>2. ObjectsTypeOK' /\ ConnsTypeOK' /\ OtherLocals'
    BY <2>1 DEF IInv, TypeOK, ObjectsTypeOK, ConnsTypeOK, OtherLocals
  <2> QED BY <2>1, <2>2, ThreadsAlone DEF IInv, TypeOK
<1> QED BY <1>1, ConnectionStepIInv, RequestStepIInv, WorkerStepIInv,
           ThreadStepIInv DEF Next

\* The type invariant, and the exact task count of every connection: at any
\* time it is the number of operate threads that use the ClientConnection.
THEOREM TasksCountedAlways == Spec => [](TypeOK /\ TasksCounted)
<1>1. Init => IInv
  BY InitIInv
<1>2. IInv /\ [Next]_vars => IInv'
  BY NextIInv
<1>3. IInv => TypeOK /\ TasksCounted
  BY DEF IInv
<1> QED BY <1>1, <1>2, <1>3, PTL DEF Spec

\* The close handler never gets past its wait loop while a thread is counted.
THEOREM DrainWaits == Spec => DrainWaitsForThreads
<1> DEFINE Waits == \A i \in Conns :
              ccState[i] = "removed" /\ ccState'[i] = "drained"
                  => CountedBy(i) = {}
<1>1. ASSUME IInv, Next PROVE Waits
  <2> SUFFICES ASSUME NEW i \in Conns, ccState[i] = "removed",
                      ccState'[i] = "drained"
               PROVE  CountedBy(i) = {}
    OBVIOUS
  <2>1. ConnsTypeOK
    BY <1>1 DEF IInv, TypeOK
  <2>2. DrainConnection(i)
    <3>1. ASSUME RequestStep \/ WorkerStep \/ \E t \in Ops : ThreadStep(t)
          PROVE  UNCHANGED ccState
      BY <3>1 DEF RequestStep, Cancel, SelectBegin, OperRefused, OperAccept, OperArm,
                  OperOwner, OperWait, OperTest, SelectFinish, OperFinish, WorkerStep,
                  WorkerSeesDue, WorkerTakes, WorkerFinish, ThreadStep,
                  ThreadLookup, ThreadIncrease, ThreadBegin, ThreadExecute,
                  ThreadOperate, ThreadAbort, ThreadDecrease, connVars
    <3>2. ConnectionStep
      BY <1>1, <3>1 DEF Next
    <3> QED BY <3>2, <2>1 DEF ConnectionStep, NewConnection, RemoveConnection,
                   DrainConnection, DestroyConnection, ConnsTypeOK, Conns
  <2>3. Cardinality(CountedBy(i)) = 0
    BY <1>1, <2>2 DEF IInv, TasksCounted, DrainConnection
  <2> QED BY <2>3, CountedByFinite, FS_EmptySet
<1>2. IInv /\ [Next]_vars => [Waits]_vars
  BY <1>1
<1>3. Init => IInv
  BY InitIInv
<1>4. IInv /\ [Next]_vars => IInv'
  BY NextIInv
<1> QED BY <1>2, <1>3, <1>4, PTL DEF Spec, DrainWaitsForThreads
(***************************************************************************)
(* Exclusion of operations, as long as no client cancels a command and no  *)
(* client disconnects: both may take an object out of an operation that is *)
(* still in progress.  The state of an object tells who may act on it: the *)
(* request handler in PERFORM_TEST, the worker in                          *)
(* WAIT_FOR_ACTIVATION_TIME, or the one thread at work on it.  Nothing is  *)
(* claimed of an object whose armed command the worker overtook.           *)
(***************************************************************************)
Undisturbed == "Cancel" \notin Services /\ "Disconnect" \notin Services

Running(t) == pc[t] \notin {"none", "end", "done"} /\ op[t].obj \notin overtaken
Checked(o) == worker.pc = "check" /\ worker.obj = o
Armed(o) == timeActivatedOperate[o] \/ Checked(o)
Handled(o) == handler.pc \in OperPc /\ handler.obj = o

\* The state a thread keeps its object in.
StateOf(t) ==
    CASE pc[t] \in {"start", "found", "begin"} ->
             {"PERFORM_TEST", "WAIT_FOR_ACTIVATION_TIME"}
      [] pc[t] = "waiting" -> {"WAIT_FOR_EXECUTION"}
      [] OTHER -> {"OPERATE"}

\* The state the handler of an Oper keeps its object in.
HandlerState ==
    CASE handler.pc = "armed" -> "WAIT_FOR_ACTIVATION_TIME"
      [] handler.pc = "oper"  -> "PERFORM_TEST"
      [] OTHER -> "READY"

WorkerInv ==
    /\ worker.pc = "due" => timeActivatedOperate[worker.obj]
    /\ worker.pc = "check" /\ worker.obj \notin overtaken
           => ~timeActivatedOperate[worker.obj]

ObjectInv(o) ==
    o \notin overtaken =>
      /\ handler.pc = "select" /\ handler.obj = o => state[o] = "UNSELECTED"
      /\ Handled(o) => /\ state[o] = HandlerState
                       /\ param[o] = handler.param
                       /\ IF handler.pc \in Arming THEN timeActivatedOperate[o]
                                                   ELSE ~Armed(o)
      /\ Armed(o) => \/ state[o] = "WAIT_FOR_ACTIVATION_TIME"
                     \/ Handled(o) /\ handler.pc \in Arming

ThreadInv(t) ==
    Running(t) => /\ state[op[t].obj] \in StateOf(t)
                  /\ ~Handled(op[t].obj) /\ ~Armed(op[t].obj)
                  /\ param[op[t].obj] = op[t].param

Alone == \A t, u \in Ops : Running(t) /\ Running(u) /\ op[t].obj = op[u].obj
                               => t = u

XInv == /\ \A i \in Conns : ccState[i] \in {"unused", "listed"}
        /\ WorkerInv
        /\ \A o \in Objects : ObjectInv(o)
        /\ \A t \in Ops : ThreadInv(t)
        /\ Alone

\* The facts of IInv that the proofs about exclusion use.
LEMMA Facts ==
    ASSUME IInv
    PROVE  /\ state \in [Objects -> States]
           /\ param \in [Objects -> Params \cup {NoParam}]
           /\ timeActivatedOperate \in [Objects -> BOOLEAN]
           /\ ccState \in [Conns -> {"unused", "listed", "removed", "drained",
                                     "destroyed"}]
           /\ ops \in 0 .. MaxOps /\ op \in [Ops -> OpType]
           /\ pc \in [Ops -> ThreadPc]
           /\ \A t \in Ops : Running(t) => op[t].obj \in Objects
           /\ \A t \in Ops : pc[t] = "none" <=> t > ops
           /\ handler \in HandlerType
           /\ handler.pc # "idle" => handler.obj \in Objects
           /\ worker.pc # "idle" => worker.obj \in Objects
BY DEF IInv, TypeOK, ObjectsTypeOK, ConnsTypeOK, ThreadsTypeOK, ThreadLocals,
       OtherLocals, Running

\* The initial states satisfy the invariant.
LEMMA InitXInv == Init => XInv
BY DEF Init, XInv, WorkerInv, ObjectInv, ThreadInv, Alone, Running, Armed, Checked,
       Handled, OperPc, Arming, Idle, WorkerIdle

\* A new thread on an object on which no thread is running.
LEMMA StartThreadXInv ==
    ASSUME IInv, XInv, NEW o \in Objects, NEW asker, NEW p, ops < MaxOps,
           StartThread(o, asker, p), UNCHANGED <<state, param, overtaken>>,
           \A t \in Ops : Running(t) => op[t].obj # o,
           \A q \in Objects : (Armed(q)' => Armed(q)) /\ (Handled(q)' => Handled(q)),
           o \notin overtaken =>
             /\ state[o] \in {"PERFORM_TEST", "WAIT_FOR_ACTIVATION_TIME"}
             /\ param[o] = p
             /\ ~Armed(o)' /\ ~Handled(o)'
    PROVE  Alone' /\ \A t \in Ops : ThreadInv(t)'
<1>n. PICK n : n = ops + 1
  OBVIOUS
<1>1. n \in Ops /\ pc[n] = "none"
  <2>1. n \in Ops
    BY <1>n, Facts, ControlAssumption DEF Ops
  <2> QED BY <1>n, <2>1, Facts
<1>2. /\ pc' = [pc EXCEPT ![n] = "start"]
      /\ op'[n].obj = o /\ op'[n].param = p
      /\ \A t \in Ops \ {n} : op'[t] = op[t]
  BY <1>n, <1>1, Facts DEF StartThread
<1>3. /\ \A t \in Ops \ {n} : pc'[t] = pc[t] /\ op'[t] = op[t]
      /\ pc'[n] = "start"
  BY <1>1, <1>2, Facts
<1>4. Alone'
  BY <1>2, <1>3 DEF XInv, Alone, Running
<1>5. ASSUME NEW t \in Ops \ {n} PROVE ThreadInv(t)'
  <2>1. ThreadInv(t)
    BY DEF XInv
  <2>2. Running(t)' => Running(t) /\ op[t].obj \in Objects
    BY <1>3, Facts DEF Running
  <2>3. StateOf(t)' = StateOf(t)
    BY <1>3 DEF StateOf
  <2> QED BY <1>3, <2>1, <2>2, <2>3 DEF ThreadInv
<1>6. ThreadInv(n)'
  <2>1. StateOf(n)' = {"PERFORM_TEST", "WAIT_FOR_ACTIVATION_TIME"}
    BY <1>3 DEF StateOf
  <2> QED BY <1>2, <2>1 DEF ThreadInv, Running
<1> QED BY <1>4, <1>5, <1>6

\* The steps of connections and requests keep it.
LEMMA RequestStepXInv ==
    ASSUME IInv, XInv, Undisturbed, ConnectionStep \/ RequestStep
    PROVE  XInv'
<1>0. /\ \A i \in Conns : ccState[i] \in {"unused", "listed"}
      /\ WorkerInv /\ Alone
      /\ \A o \in Objects : ObjectInv(o)
      /\ \A t \in Ops : ThreadInv(t)
  BY DEF XInv
<1>1. ASSUME NEW h \in Handles, NewConnection(h) PROVE XInv'
  <2>1. UNCHANGED <<state, param, timeActivatedOperate, op, pc, handler, worker, overtaken>>
    BY <1>1 DEF NewConnection, objectVars, opVars, history
  <2>2. \A i \in Conns : ccState'[i] \in {"unused", "listed"}
    BY <1>0, <1>1, Facts DEF NewConnection
  <2> QED BY <1>0, <2>1, <2>2 DEF XInv, WorkerInv, Alone, ObjectInv, ThreadInv,
                                  Running, Armed, Checked, Handled, HandlerState, StateOf
<1>2. ASSUME NEW i \in Conns, \/ RemoveConnection(i) \/ DrainConnection(i)
                              \/ DestroyConnection(i)
      PROVE FALSE
  BY <1>0, <1>2 DEF RemoveConnection, DrainConnection, DestroyConnection,
                    Undisturbed
<1>3. ASSUME NEW i \in Conns, NEW o \in Objects, NEW p \in Params,
             NEW expired \in BOOLEAN,
             SelectBegin(i, o, p, expired) \/ OperRefused(i, o, p, expired)
      PROVE XInv'
  <2>1. /\ UNCHANGED <<param, timeActivatedOperate, op, pc, worker, ccState, overtaken>>
        /\ state' = [state EXCEPT ![o] = AfterSelectTimeout(o, expired)]
        /\ handler.pc = "idle"
        /\ \/ handler' = handler
           \/ /\ state'[o] = "UNSELECTED"
              /\ handler' = [pc |-> "select", obj |-> o, cc |-> i, param |-> p]
    BY <1>3 DEF SelectBegin, OperRefused, CanHandle, opVars, connVars, history
  <2>2. \/ state' = state
        \/ state[o] = "READY" /\ state' = [state EXCEPT ![o] = "UNSELECTED"]
    BY <2>1, Facts DEF AfterSelectTimeout
  <2>3. \A q \in Objects : ~Handled(q) /\ ~Handled(q)' /\ (Armed(q)' <=> Armed(q))
    BY <2>1 DEF Handled, OperPc, Arming, Armed, Checked
  <2>4. \A q \in Objects : ObjectInv(q)'
    BY <1>0, <2>1, <2>2, <2>3, Facts DEF ObjectInv
  <2>5. \A t \in Ops : ThreadInv(t)'
    BY <1>0, <2>1, <2>2, <2>3, Facts DEF ThreadInv, Running, StateOf
  <2> QED BY <1>0, <2>1, <2>4, <2>5 DEF XInv, WorkerInv, Alone, Running
<1>4. ASSUME NEW i \in Conns, NEW o \in Objects, NEW p \in Params,
             NEW expired \in BOOLEAN, OperAccept(i, o, p, expired)
      PROVE XInv'
  <2>1. /\ UNCHANGED <<state, timeActivatedOperate, op, pc, worker, ccState, overtaken>>
        /\ handler.pc = "idle" /\ state[o] = "READY"
        /\ param' = [param EXCEPT ![o] = p]
        /\ handler' = [pc |-> "accepted", obj |-> o, cc |-> i, param |-> p]
    BY <1>4 DEF OperAccept, CanHandle, opVars, connVars, history, AfterSelectTimeout
  <2>2. \A q \in Objects : ~Handled(q) /\ (Handled(q)' <=> q = o) /\ (Armed(q)' <=> Armed(q))
    BY <2>1 DEF Handled, OperPc, Arming, Armed, Checked
  <2>3. /\ o \notin overtaken => ~Armed(o)
        /\ \A t \in Ops : Running(t) => op[t].obj # o
    BY <1>0, <2>1, <2>2 DEF ObjectInv, ThreadInv, StateOf
  <2>4. \A q \in Objects : ObjectInv(q)'
    BY <1>0, <2>1, <2>2, <2>3, Facts DEF ObjectInv, HandlerState, Arming
  <2>5. \A t \in Ops : ThreadInv(t)'
    BY <1>0, <2>1, <2>2, <2>3, Facts DEF ThreadInv, Running, StateOf
  <2> QED BY <1>0, <2>1, <2>4, <2>5 DEF XInv, WorkerInv, Alone, Running
<1>5. ASSUME OperArm PROVE XInv'
  <2>0. PICK o \in Objects : o = handler.obj
    BY <1>5, Facts DEF OperArm
  <2>1. /\ UNCHANGED <<state, param, op, pc, worker, ccState, overtaken>>
        /\ handler.pc = "accepted" /\ handler' = [handler EXCEPT !.pc = "arming"]
        /\ timeActivatedOperate' = [timeActivatedOperate EXCEPT ![o] = TRUE]
    BY <1>5, <2>0 DEF OperArm, opVars, connVars, history
  <2>2. handler'.pc = "arming" /\ handler'.obj = o /\ handler'.param = handler.param
    BY <2>0, <2>1, Facts DEF HandlerType
  <2>3. \A q \in Objects : /\ Handled(q) <=> q = o
                           /\ Handled(q)' <=> q = o
                           /\ q # o => (Armed(q)' <=> Armed(q))
    BY <2>0, <2>1, <2>2, Facts DEF Handled, OperPc, Arming, Armed, Checked
  <2>4. /\ o \notin overtaken => ~Armed(o)
        /\ \A t \in Ops : Running(t) => op[t].obj # o
    BY <1>0, <2>1, <2>3 DEF ObjectInv, ThreadInv, Arming
  <2>5. \A q \in Objects : ObjectInv(q)'
    BY <1>0, <2>1, <2>2, <2>3, Facts DEF ObjectInv, HandlerState, Arming
  <2>6. \A t \in Ops : ThreadInv(t)'
    BY <1>0, <2>1, <2>3, <2>4, Facts DEF ThreadInv, Running, StateOf
  <2>7. WorkerInv'
    BY <1>0, <2>1, <2>4, Facts DEF WorkerInv, Armed, Checked
  <2> QED BY <1>0, <2>1, <2>5, <2>6, <2>7 DEF XInv, Alone, Running
<1>6. ASSUME OperOwner \/ OperWait \/ OperTest PROVE XInv'
  <2>0. PICK o \in Objects : o = handler.obj
    BY <1>6, Facts DEF OperOwner, OperWait, OperTest
  <2>1. /\ UNCHANGED <<param, timeActivatedOperate, op, pc, worker, ccState, overtaken>>
        /\ handler.pc \in OperPc \ {"oper"}
        /\ \A q \in Objects \ {o} : state'[q] = state[q]
        /\ \/ handler.pc = "arming" /\ state' = state
              /\ handler' = [handler EXCEPT !.pc = "owned"]
           \/ handler.pc = "owned" /\ state'[o] = "WAIT_FOR_ACTIVATION_TIME"
              /\ handler' = [handler EXCEPT !.pc = "armed"]
           \/ handler.pc \in {"accepted", "armed"} /\ ~timeActivatedOperate[o]
              /\ state'[o] = "PERFORM_TEST"
              /\ handler' = [handler EXCEPT !.pc = "oper"]
           \/ handler.pc \in {"accepted", "armed"} /\ timeActivatedOperate[o]
              /\ state' = state /\ handler' = Idle
    BY <1>6, <2>0, Facts
       DEF OperOwner, OperWait, OperTest, OperPc, Arming, opVars, connVars, history
  <2>2. /\ handler'.pc # "idle" => handler'.obj = o /\ handler'.param = handler.param
        /\ \/ handler.pc = "arming" /\ state' = state /\ handler'.pc = "owned"
           \/ handler.pc = "owned" /\ state'[o] = "WAIT_FOR_ACTIVATION_TIME"
              /\ handler'.pc = "armed"
           \/ handler.pc \in {"accepted", "armed"} /\ ~timeActivatedOperate[o]
              /\ state'[o] = "PERFORM_TEST" /\ handler'.pc = "oper"
           \/ handler.pc \in {"accepted", "armed"} /\ timeActivatedOperate[o]
              /\ state' = state /\ handler'.pc = "idle"
    BY <2>0, <2>1, Facts DEF HandlerType, Idle
  <2>3. \A q \in Objects : /\ Handled(q) <=> q = o
                           /\ Handled(q)' <=> q = o /\ handler'.pc # "idle"
                           /\ Armed(q)' <=> Armed(q)
    BY <2>0, <2>1, <2>2 DEF Handled, OperPc, Arming, Armed, Checked
  <2>4. \A t \in Ops : Running(t) => op[t].obj # o
    BY <1>0, <2>3 DEF ThreadInv
  <2>5. ObjectInv(o)'
    <3>1. ObjectInv(o) /\ Handled(o)
      BY <1>0, <2>3
    <3>2. SUFFICES ASSUME o \notin overtaken PROVE ObjectInv(o)'
      BY <2>1 DEF ObjectInv
    <3>3. handler.pc # "armed" \/ timeActivatedOperate[o]
      BY <3>1, <3>2 DEF ObjectInv, Arming
    <3>4. handler.pc = "accepted" => ~Armed(o) /\ ~timeActivatedOperate[o]
      BY <3>1, <3>2 DEF ObjectInv, Arming, Armed
    <3>5. handler.pc = "armed" => state[o] = "WAIT_FOR_ACTIVATION_TIME"
      BY <3>1, <3>2 DEF ObjectInv, HandlerState
    <3>6. handler.pc \in {"arming", "owned"} => state[o] = "READY" /\ timeActivatedOperate[o]
      BY <3>1, <3>2 DEF ObjectInv, HandlerState, Arming
    <3>7. param[o] = handler.param
      BY <3>1, <3>2 DEF ObjectInv
    <3> QED BY <2>1, <2>2, <2>3, <3>3, <3>4, <3>5, <3>6, <3>7
            DEF ObjectInv, HandlerState, Arming
  <2>6. ASSUME NEW q \in Objects \ {o} PROVE ObjectInv(q)'
    <3>1. /\ ObjectInv(q) /\ ~Handled(q) /\ ~Handled(q)' /\ (Armed(q)' <=> Armed(q))
          /\ handler'.pc # "select"
      BY <1>0, <2>2, <2>3
    <3> QED BY <2>1, <3>1 DEF ObjectInv
  <2>7. \A t \in Ops : ThreadInv(t)'
    BY <1>0, <2>1, <2>3, <2>4, Facts DEF ThreadInv, Running, StateOf
  <2> QED BY <1>0, <2>1, <2>5, <2>6, <2>7 DEF XInv, WorkerInv, Alone, Running
<1>7. ASSUME NEW accepted \in BOOLEAN, SelectFinish(accepted) PROVE XInv'
  <2>0. PICK o \in Objects : o = handler.obj
    BY <1>7, Facts DEF SelectFinish
  <2>1. /\ UNCHANGED <<timeActivatedOperate, op, pc, worker, ccState, overtaken>>
        /\ handler' = Idle /\ handler.pc = "select"
        /\ \/ UNCHANGED <<state, param>>
           \/ /\ state' = [state EXCEPT ![o] = "READY"]
              /\ \/ param' = param
                 \/ param' = [param EXCEPT ![o] = handler.param]
    BY <1>7, <2>0 DEF SelectFinish, opVars, connVars
  <2>2. \A q \in Objects : ~Handled(q) /\ ~Handled(q)' /\ (Armed(q)' <=> Armed(q))
    BY <2>1 DEF Handled, OperPc, Arming, Armed, Checked, Idle
  <2>3. /\ o \notin overtaken => state[o] = "UNSELECTED" /\ ~Armed(o)
        /\ \A t \in Ops : Running(t) => op[t].obj # o
    BY <1>0, <2>0, <2>1, <2>2 DEF ObjectInv, ThreadInv, Running, StateOf
  <2>4. \A q \in Objects : ObjectInv(q)'
    BY <1>0, <2>1, <2>2, <2>3, Facts DEF ObjectInv, Idle
  <2>5. \A t \in Ops : ThreadInv(t)'
    BY <1>0, <2>1, <2>2, <2>3, Facts DEF ThreadInv, Running, StateOf
  <2> QED BY <1>0, <2>1, <2>4, <2>5 DEF XInv, WorkerInv, Alone, Running
<1>8. ASSUME NEW accepted \in BOOLEAN, OperFinish(accepted) PROVE XInv'
  <2>0. PICK o \in Objects : o = handler.obj
    BY <1>8, Facts DEF OperFinish
  <2>1. /\ UNCHANGED <<timeActivatedOperate, worker, ccState, param, overtaken>>
        /\ handler' = Idle /\ handler.pc = "oper"
    BY <1>8, <2>0 DEF OperFinish, connVars, history
  <2>2. \A q \in Objects : /\ Handled(q) <=> q = o
                           /\ ~Handled(q)' /\ (Armed(q)' <=> Armed(q))
    BY <2>0, <2>1 DEF Handled, OperPc, Arming, Armed, Checked, Idle
  <2>3. /\ o \notin overtaken =>
             state[o] = "PERFORM_TEST" /\ param[o] = handler.param /\ ~Armed(o)
        /\ \A t \in Ops : Running(t) => op[t].obj # o
    BY <1>0, <2>1, <2>2 DEF ObjectInv, ThreadInv, HandlerState, Arming
  <2>4. CASE accepted
    <3>1. /\ UNCHANGED state
          /\ ops < MaxOps /\ StartThread(o, handler.cc, handler.param)
      BY <1>8, <2>0, <2>4 DEF OperFinish
    <3>2. Alone' /\ \A t \in Ops : ThreadInv(t)'
      BY <2>1, <2>2, <2>3, <3>1, StartThreadXInv
    <3>3. \A q \in Objects : ObjectInv(q)'
      BY <1>0, <2>1, <2>2, <2>3, <3>1 DEF ObjectInv, Idle
    <3> QED BY <1>0, <2>1, <3>2, <3>3 DEF XInv, WorkerInv
  <2>5. CASE ~accepted
    <3>1. /\ UNCHANGED <<op, pc>>
          /\ state' = [state EXCEPT ![o] = AbortState(o)]
      BY <1>8, <2>0, <2>5 DEF OperFinish, opVars
    <3>2. \A q \in Objects : ObjectInv(q)'
      BY <1>0, <2>1, <2>2, <2>3, <3>1, Facts DEF ObjectInv, Idle
    <3>3. \A t \in Ops : ThreadInv(t)'
      BY <1>0, <2>1, <2>2, <2>3, <3>1, Facts DEF ThreadInv, Running, StateOf
    <3> QED BY <1>0, <2>1, <3>1, <3>2, <3>3 DEF XInv, WorkerInv, Alone, Running
  <2> QED BY <2>4, <2>5
<1> QED BY <1>1, <1>2, <1>3, <1>4, <1>5, <1>6, <1>7, <1>8
        DEF ConnectionStep, RequestStep, Cancel, Undisturbed

\* The steps of the event worker keep it.
LEMMA WorkerStepXInv ==
    ASSUME IInv, XInv, WorkerStep
    PROVE  XInv'
<1>0. /\ \A i \in Conns : ccState[i] \in {"unused", "listed"}
      /\ WorkerInv /\ Alone
      /\ \A o \in Objects : ObjectInv(o)
      /\ \A t \in Ops : ThreadInv(t)
  BY DEF XInv
<1>1. /\ UNCHANGED <<ccState, handler, param>>
      /\ \A q \in Objects : Handled(q)' <=> Handled(q)
      /\ HandlerState' = HandlerState
  BY DEF WorkerStep, WorkerSeesDue, WorkerTakes, WorkerFinish, connVars, objectVars,
         Handled, HandlerState
<1>2. ASSUME NEW o \in Objects, WorkerSeesDue(o) PROVE XInv'
  <2>1. /\ UNCHANGED <<state, timeActivatedOperate, op, pc, overtaken>>
        /\ worker.pc = "idle" /\ timeActivatedOperate[o]
        /\ worker' = [pc |-> "due", obj |-> o]
    BY <1>2 DEF WorkerSeesDue, objectVars, opVars, history
  <2>2. \A q \in Objects : Armed(q)' <=> Armed(q)
    BY <2>1 DEF Armed, Checked
  <2>3. \A q \in Objects : ObjectInv(q)'
    BY <1>0, <1>1, <2>1, <2>2 DEF ObjectInv
  <2>4. \A t \in Ops : ThreadInv(t)'
    BY <1>0, <1>1, <2>1, <2>2, Facts DEF ThreadInv, Running, StateOf
  <2> QED BY <1>0, <1>1, <2>1, <2>3, <2>4 DEF XInv, WorkerInv, Alone, Running
<1>3. ASSUME WorkerTakes PROVE XInv'
  <2>0. PICK o \in Objects : o = worker.obj
    BY <1>3, Facts DEF WorkerTakes
  <2>1. /\ UNCHANGED <<state, op, pc>>
        /\ worker.pc = "due" /\ worker'.pc = "check" /\ worker'.obj = o
        /\ timeActivatedOperate' = [timeActivatedOperate EXCEPT ![o] = FALSE]
        /\ overtaken' = IF handler.pc \in Arming /\ handler.obj = o
                        THEN overtaken \cup {o} ELSE overtaken
    <3>1. worker \in WorkerType
      BY DEF IInv, TypeOK
    <3> QED BY <1>3, <2>0, <3>1 DEF WorkerTakes, opVars, WorkerType
  <2>2. \A q \in Objects : Armed(q)' <=> Armed(q)
    BY <1>0, <2>0, <2>1, Facts DEF Armed, Checked, WorkerInv
  <2>3. \A q \in Objects : q \notin overtaken' => q \notin overtaken
    BY <2>1
  <2>4. \A q \in Objects \ {o} : ObjectInv(q)'
    BY <1>0, <1>1, <2>1, <2>2, <2>3, Facts DEF ObjectInv
  <2>5. ObjectInv(o)'
    <3>1. SUFFICES ASSUME o \notin overtaken' PROVE ObjectInv(o)'
      BY DEF ObjectInv
    <3>2. o \notin overtaken /\ ObjectInv(o) /\ ~(handler.pc \in Arming /\ handler.obj = o)
      BY <1>0, <2>1, <3>1
    <3> QED BY <1>1, <2>1, <2>2, <3>2 DEF ObjectInv, Handled
  <2>6. \A t \in Ops : ThreadInv(t)'
    BY <1>0, <1>1, <2>1, <2>2, <2>3, Facts DEF ThreadInv, Running, StateOf
  <2>7. WorkerInv'
    BY <2>1, Facts DEF WorkerInv
  <2> QED BY <1>0, <1>1, <2>1, <2>3, <2>4, <2>5, <2>6, <2>7, Facts DEF XInv, Alone, Running
<1>4. ASSUME NEW accepted \in BOOLEAN, WorkerFinish(accepted) PROVE XInv'
  <2>0. PICK o \in Objects : o = worker.obj
    BY <1>4, Facts DEF WorkerFinish
  <2>1. /\ UNCHANGED <<timeActivatedOperate, overtaken>>
        /\ worker.pc = "check" /\ worker' = WorkerIdle
    BY <1>4, <2>0 DEF WorkerFinish, history
  <2>2. /\ Armed(o) /\ (o \notin overtaken => ~Armed(o)')
        /\ \A q \in Objects : Armed(q)' => Armed(q)
        /\ \A q \in Objects \ {o} : Armed(q)' <=> Armed(q)
    BY <1>0, <2>0, <2>1 DEF Armed, Checked, WorkerInv, WorkerIdle
  <2>3. /\ o \notin overtaken => state[o] = "WAIT_FOR_ACTIVATION_TIME" /\ ~Handled(o)
        /\ \A t \in Ops : Running(t) => op[t].obj # o
    <3>1. o \notin overtaken => ~timeActivatedOperate[o]
      BY <1>0, <2>0, <2>1 DEF WorkerInv
    <3> QED BY <1>0, <2>2, <3>1 DEF ObjectInv, ThreadInv
  <2>4. CASE accepted
    <3>1. /\ ops < MaxOps /\ StartThread(o, 0, param[o])
          /\ UNCHANGED state
      BY <1>4, <2>0, <2>4 DEF WorkerFinish
    <3>2. Alone' /\ \A t \in Ops : ThreadInv(t)'
      BY <1>1, <2>1, <2>2, <2>3, <3>1, StartThreadXInv
    <3>3. \A q \in Objects : ObjectInv(q)'
      BY <1>0, <1>1, <2>1, <2>2, <2>3, <3>1 DEF ObjectInv
    <3> QED BY <1>0, <1>1, <2>1, <3>2, <3>3 DEF XInv, WorkerInv, WorkerIdle
  <2>5. CASE ~accepted
    <3>1. /\ UNCHANGED <<op, pc>>
          /\ state' = [state EXCEPT ![o] = AbortState(o)]
      BY <1>4, <2>0, <2>5 DEF WorkerFinish, opVars
    <3>2. \A q \in Objects : ObjectInv(q)'
      BY <1>0, <1>1, <2>1, <2>2, <2>3, <3>1, Facts DEF ObjectInv
    <3>3. \A t \in Ops : ThreadInv(t)'
      BY <1>0, <1>1, <2>1, <2>2, <2>3, <3>1, Facts
         DEF ThreadInv, Running, StateOf
    <3> QED BY <1>0, <1>1, <2>1, <3>1, <3>2, <3>3
            DEF XInv, WorkerInv, WorkerIdle, Alone, Running
  <2> QED BY <2>4, <2>5
<1> QED BY <1>2, <1>3, <1>4 DEF WorkerStep

\* The steps of the operate threads keep it.
LEMMA ThreadStepXInv ==
    ASSUME IInv, XInv, NEW t \in Ops, ThreadStep(t)
    PROVE  XInv'
<1>0. /\ \A i \in Conns : ccState[i] \in {"unused", "listed"}
      /\ WorkerInv /\ Alone
      /\ \A o \in Objects : ObjectInv(o)
      /\ \A u \in Ops : ThreadInv(u)
  BY DEF XInv
<1> DEFINE o == op[t].obj
<1>1. UNCHANGED <<ccState, handler, worker, param, timeActivatedOperate, op, overtaken>>
  BY DEF ThreadStep, ThreadLookup, ThreadIncrease, ThreadBegin, ThreadExecute,
         ThreadOperate, ThreadAbort, ThreadDecrease, connVars, objectVars, history
<1>2. /\ \A q \in Objects : (Armed(q)' <=> Armed(q)) /\ (Handled(q)' <=> Handled(q))
      /\ HandlerState' = HandlerState
  BY <1>1 DEF Armed, Checked, Handled, HandlerState
<1>3. PICK new \in ThreadPc : pc' = [pc EXCEPT ![t] = new]
  BY DEF ThreadStep, ThreadLookup, ThreadIncrease, ThreadBegin, ThreadExecute,
         ThreadOperate, ThreadAbort, ThreadDecrease, ThreadPc
<1>4. \A u \in Ops \ {t} : pc'[u] = pc[u]
  BY <1>3, Facts
<1>5. CASE ~Running(t)
  <2>1. /\ ~Running(t)'
        /\ \A q \in Objects : q \notin overtaken => state'[q] = state[q]
    <3>1. CASE pc[t] \in {"none", "end", "done"}
      BY <1>1, <3>1, Facts
         DEF ThreadStep, ThreadLookup, ThreadIncrease, ThreadBegin, ThreadExecute,
             ThreadOperate, ThreadAbort, ThreadDecrease, Running, objectVars
    <3>2. CASE o \in overtaken
      BY <1>1, <3>2, Facts
         DEF ThreadStep, ThreadLookup, ThreadIncrease, ThreadBegin, ThreadExecute,
             ThreadOperate, ThreadAbort, ThreadDecrease, Running, objectVars
    <3> QED BY <1>5, <3>1, <3>2 DEF Running
  <2>2. \A q \in Objects : ObjectInv(q)'
    BY <1>0, <1>1, <1>2, <2>1 DEF ObjectInv
  <2>3. \A u \in Ops : ThreadInv(u)'
    BY <1>0, <1>1, <1>2, <1>4, <2>1, Facts DEF ThreadInv, Running, StateOf
  <2> QED BY <1>0, <1>1, <1>4, <2>1, <2>2, <2>3 DEF XInv, WorkerInv, Alone, Running
<1>6. CASE Running(t)
  <2>1. /\ o \in Objects /\ ~Armed(o) /\ ~Handled(o) /\ state[o] \in StateOf(t)
        /\ param[o] = op[t].param /\ o \notin overtaken
        /\ ~(handler.pc = "select" /\ handler.obj = o)
    BY <1>0, <1>6, Facts DEF ThreadInv, ObjectInv, StateOf, Running
  <2>2. /\ state' \in [Objects -> States]
        /\ \A q \in Objects \ {o} : state'[q] = state[q]
        /\ Running(t)' => state'[o] \in StateOf(t)'
    <3>1. state' \in [Objects -> States]
      BY IInv, NextIInv DEF Next, IInv, TypeOK, ObjectsTypeOK
    <3>2. \A q \in Objects \ {o} : state'[q] = state[q]
      BY <2>1, Facts
         DEF ThreadStep, ThreadLookup, ThreadIncrease, ThreadBegin,
             ThreadExecute, ThreadOperate, ThreadAbort, ThreadDecrease, objectVars
    <3>3. Running(t)' => state'[o] \in StateOf(t)'
      <4>1. CASE ThreadLookup(t) \/ ThreadIncrease(t)
        BY <2>1, <4>1, Facts
           DEF ThreadLookup, ThreadIncrease, Running, StateOf, objectVars
      <4>2. CASE ThreadBegin(t)
        BY <2>1, <4>2, Facts DEF ThreadBegin, Running, StateOf
      <4>3. CASE \E ok \in BOOLEAN : ThreadExecute(t, ok)
        BY <2>1, <4>3, Facts DEF ThreadExecute, Running, StateOf
      <4>4. CASE ThreadOperate(t)
        BY <2>1, <4>4, Facts DEF ThreadOperate, Running, StateOf, objectVars
      <4>5. CASE ThreadAbort(t) \/ ThreadDecrease(t)
        BY <2>1, <4>5, Facts DEF ThreadAbort, ThreadDecrease, Running
      <4> QED BY <4>1, <4>2, <4>3, <4>4, <4>5 DEF ThreadStep
    <3> QED BY <3>1, <3>2, <3>3
  <2> HIDE DEF o
  <2>3. \A q \in Objects : ObjectInv(q)'
    BY <1>0, <1>1, <1>2, <2>1, <2>2 DEF ObjectInv
  <2>4. ASSUME NEW u \in Ops \ {t} PROVE ThreadInv(u)'
    <3>1. Running(u)' => Running(u) /\ op[u].obj \in Objects \ {o}
      BY <1>0, <1>1, <1>4, <1>6, Facts DEF Running, Alone, o
    <3>2. StateOf(u)' = StateOf(u)
      BY <1>4 DEF StateOf
    <3> QED BY <1>0, <1>1, <1>2, <2>2, <3>1, <3>2 DEF ThreadInv
  <2>5. ThreadInv(t)'
    BY <1>1, <1>2, <2>1, <2>2 DEF ThreadInv, o
  <2>6. Alone'
    BY <1>0, <1>1, <1>4, <1>6 DEF Alone, Running
  <2> QED BY <1>0, <1>1, <2>3, <2>4, <2>5, <2>6 DEF XInv, WorkerInv
<1> QED BY <1>5, <1>6

\* Every step keeps it, as long as clients neither cancel nor disconnect.
LEMMA NextXInv == IInv /\ XInv /\ Undisturbed /\ [Next]_vars => XInv'
<1> SUFFICES ASSUME IInv, XInv, Undisturbed, [Next]_vars PROVE XInv'
  OBVIOUS
<1>1. CASE UNCHANGED vars
  BY <1>1 DEF vars, objectVars, connVars, opVars, history, XInv, WorkerInv, ObjectInv,
              ThreadInv, Alone, Running, Armed, Checked, Handled, HandlerState, StateOf
<1> QED BY <1>1, RequestStepXInv, WorkerStepXInv, ThreadStepXInv DEF Next

\* Without cancel and disconnect, operations on one object exclude each other
\* and the control handler gets the value of the command it is called for,
\* unless the worker overtook the handler that armed a command of the object.
THEOREM OperationsExclusive ==
    Undisturbed => (Spec => [](ExclusiveOperation /\ OperatedAsCommanded))
<1> SUFFICES ASSUME Undisturbed
             PROVE  Spec => [](ExclusiveOperation /\ OperatedAsCommanded)
  OBVIOUS
<1>1. Init => IInv /\ XInv
  BY InitIInv, InitXInv
<1>2. IInv /\ XInv /\ [Next]_vars => IInv' /\ XInv'
  BY NextIInv, NextXInv
<1>3. XInv => ExclusiveOperation /\ OperatedAsCommanded
  BY DEF XInv, Alone, ThreadInv, Running, ExclusiveOperation, Active,
         OperatedAsCommanded
<1> QED BY <1>1, <1>2, <1>3, PTL DEF Spec

(***************************************************************************)
(* Selections.  A connection is known to a control object by its address   *)
(* only.  An address is given to one live connection at a time, and the    *)
(* object forgets the selection of a connection when it is destroyed: with *)
(* several objects, or where an operation does not end the selection, the  *)
(* code keeps a selection by an address that is free again.                *)
(***************************************************************************)
SelectionsEnd == \/ "Disconnect" \notin Services
                 \/ NumObjects = 1 /\ OperateMany = {}

Live(i) == ccState[i] \in {"listed", "removed", "drained"}

ConnsInv ==
    /\ \A i \in Conns : ccState[i] = "unused" <=> i > conns
    /\ \A i, j \in Conns : Live(i) /\ Live(j) /\ ccHandle[i] = ccHandle[j]
                               => i = j
    /\ handler.pc # "idle" => ccState[handler.cc] = "listed"
    /\ "Disconnect" \notin Services
           => \A i \in Conns : ccState[i] \in {"unused", "listed"}

\* The connection that selected an object is the one its address stands for.
Linked(o) == /\ selectedBy[o] \in Conns /\ Live(selectedBy[o])
             /\ clientConnection[o] = ccHandle[selectedBy[o]]

\* An object that an operation may leave selected has been selected before.
Touched(o) ==
    \/ state[o] # "UNSELECTED" \/ timeActivatedOperate[o]
    \/ worker.pc # "idle" /\ worker.obj = o
    \/ \E t \in Ops : op[t].obj = o

SelectionInv(o) ==
    /\ state[o] = "READY" => Linked(o)
    /\ o \in OperateMany /\ Touched(o) => Linked(o)
    /\ handler.pc \in OperPc /\ handler.obj = o
           => Linked(o) /\ selectedBy[o] = handler.cc

SelInv == /\ ConnsInv
          /\ \A o \in Objects : IsSbo(o) => SelectionInv(o)
          /\ OperatedBySelector

\* What a step of a request handler, the worker or an operate thread must not
\* do to an object; the second is for steps that leave the selections alone.
SelectionKept(o) ==
    /\ Linked(o) => Linked(o)'
    /\ state'[o] = "READY" => \/ state[o] = "READY"
                              \/ Linked(o)'
                              \/ o \in OperateMany /\ Touched(o)
    /\ o \in OperateMany /\ Touched(o)' => Touched(o) \/ Linked(o)'
    /\ handler'.pc \in OperPc /\ handler'.obj = o
         => \/ /\ handler.pc \in OperPc /\ handler.obj = o /\ handler'.cc = handler.cc
               /\ selectedBy'[o] = selectedBy[o]
            \/ Linked(o)' /\ selectedBy'[o] = handler'.cc

StateKept(o) ==
    /\ state'[o] = "READY" => \/ state[o] = "READY"
                              \/ o \in OperateMany /\ Touched(o)
    /\ o \in OperateMany /\ Touched(o)' => Touched(o)

\* A step that leaves the connections alone keeps the invariant when it treats
\* every object with a selection as SelectionKept says.
LEMMA SelectionFrame ==
    ASSUME IInv, SelInv, UNCHANGED <<conns, ccState, ccHandle>>,
           OperatedBySelector',
           handler'.pc # "idle" => ccState[handler'.cc] = "listed",
           \A o \in Objects : IsSbo(o) => SelectionKept(o)
    PROVE  SelInv'
<1>1. ConnsInv'
  BY DEF SelInv, ConnsInv, Live
<1>2. ASSUME NEW o \in Objects, IsSbo(o) PROVE SelectionInv(o)'
  BY <1>2 DEF SelInv, SelectionInv, SelectionKept
<1> QED BY <1>1, <1>2 DEF SelInv, IsSbo

\* A step that touches neither the connections nor any selection keeps it when
\* it makes no object ready.
LEMMA SelectionAlone ==
    ASSUME IInv, SelInv,
           UNCHANGED <<conns, ccState, ccHandle, clientConnection, selectedBy, op>>,
           handler' # handler => handler'.pc \notin OperPc
                                 /\ (handler'.pc # "idle"
                                       => ccState[handler'.cc] = "listed"),
           \A o \in Objects : IsSbo(o) => StateKept(o)
    PROVE  SelInv'
<1>1. OperatedBySelector'
  BY DEF SelInv, OperatedBySelector, IsSbo
<1>2. \A o \in Objects : Linked(o) => Linked(o)'
  BY DEF Linked, Live
<1>3. handler'.pc # "idle" => ccState[handler'.cc] = "listed"
  BY DEF SelInv, ConnsInv
<1>4. \A o \in Objects : IsSbo(o) => SelectionKept(o)
  BY <1>2 DEF SelectionKept, StateKept
<1> QED BY <1>1, <1>3, <1>4, SelectionFrame

\* The connection that an SBO object knows by its address selected it.
LEMMA SelectorKnown ==
    ASSUME IInv, SelInv, NEW o \in Objects, IsSbo(o), state[o] = "READY",
           NEW i \in Conns, ccState[i] = "listed",
           clientConnection[o] = ccHandle[i]
    PROVE  selectedBy[o] = i
BY DEF SelInv, SelectionInv, Linked, ConnsInv, Live

\* The initial states satisfy the invariant.
LEMMA InitSelInv == Init => SelInv
<1> SUFFICES ASSUME Init PROVE SelInv
  OBVIOUS
<1>1. ConnsInv
  BY ControlAssumption DEF Init, ConnsInv, Live, Conns, Idle
<1>2. ASSUME NEW o \in Objects, IsSbo(o) PROVE SelectionInv(o)
  BY <1>2 DEF Init, SelectionInv, Touched, Idle, WorkerIdle, NoOp, Objects, OperPc, Arming
<1>3. OperatedBySelector
  BY DEF Init, OperatedBySelector, NoOp
<1> QED BY <1>1, <1>2, <1>3 DEF SelInv

\* The steps of the connections keep it.
LEMMA ConnectionStepSelInv ==
    ASSUME IInv, SelInv, SelectionsEnd, ConnectionStep
    PROVE  SelInv'
<1>0. /\ UNCHANGED <<clientConnection, selectedBy, op, handler, worker,
                     timeActivatedOperate>>
      /\ ConnsTypeOK /\ OtherLocals /\ ConnsInv /\ ObjectsTypeOK
      /\ \A o \in Objects : IsSbo(o) => SelectionInv(o)
  BY DEF ConnectionStep, NewConnection, RemoveConnection, DrainConnection,
         DestroyConnection, objectVars, opVars, history, IInv, TypeOK, SelInv
<1>1. OperatedBySelector'
  BY <1>0 DEF SelInv, OperatedBySelector, IsSbo
<1>2. ASSUME NEW h \in Handles, NewConnection(h) PROVE SelInv'
  <2>0. PICK n : n = conns + 1
    OBVIOUS
  <2>1. /\ n \in Conns /\ conns \in Nat /\ ccState[n] = "unused" /\ conns' = n
        /\ ccState' = [ccState EXCEPT ![n] = "listed"]
        /\ ccHandle' = [ccHandle EXCEPT ![n] = h]
        /\ state' = state
    BY <1>0, <1>2, <2>0, ControlAssumption
       DEF NewConnection, ConnsTypeOK, ConnsInv, Conns, objectVars
  <2>2. \A j \in Conns : Live(j) => ccHandle[j] # h /\ j # n
    BY <1>2, <2>1 DEF NewConnection, InUse, Live
  <2>3. \A j \in Conns : /\ j \in Nat
                         /\ ccState'[j] = "unused" <=> j > conns'
    BY <1>0, <2>0, <2>1 DEF ConnsTypeOK, ConnsInv, Conns
  <2>4. \A j, k \in Conns : Live(j)' /\ Live(k)' /\ ccHandle'[j] = ccHandle'[k]
                               => j = k
    BY <1>0, <2>1, <2>2 DEF ConnsTypeOK, ConnsInv, Live
  <2>5. ConnsInv'
    BY <1>0, <2>1, <2>3, <2>4 DEF ConnsTypeOK, ConnsInv, OtherLocals
  <2>6. \A o \in Objects : Linked(o) => Linked(o)'
    BY <1>0, <2>1, <2>2 DEF Linked, Live, ConnsTypeOK
  <2>7. \A o \in Objects : Touched(o)' <=> Touched(o)
    BY <1>0, <2>1 DEF Touched
  <2> QED BY <1>0, <1>1, <2>1, <2>5, <2>6, <2>7 DEF SelInv, SelectionInv, IsSbo
<1>3. ASSUME NEW i \in Conns, RemoveConnection(i) \/ DrainConnection(i)
      PROVE  SelInv'
  <2>1. /\ UNCHANGED <<conns, ccHandle, state>>
        /\ ccState[i] \in {"listed", "removed"}
        /\ handler.pc # "idle" => handler.cc # i
        /\ "Disconnect" \in Services
        /\ \E s \in {"removed", "drained"} : ccState' = [ccState EXCEPT ![i] = s]
    BY <1>0, <1>3 DEF RemoveConnection, DrainConnection, objectVars, ConnsInv
  <2>2. \A j \in Conns : Live(j)' <=> Live(j)
    BY <1>0, <2>1 DEF Live, ConnsTypeOK
  <2>3. ConnsInv'
    BY <1>0, <2>1, <2>2 DEF ConnsTypeOK, ConnsInv, OtherLocals
  <2>4. \A o \in Objects : (Linked(o)' <=> Linked(o)) /\ (Touched(o)' <=> Touched(o))
    BY <1>0, <2>1, <2>2 DEF Linked, Touched
  <2> QED BY <1>0, <1>1, <2>1, <2>3, <2>4 DEF SelInv, SelectionInv, IsSbo
<1>4. ASSUME NEW i \in Conns, DestroyConnection(i) PROVE SelInv'
  <2>1. /\ UNCHANGED <<conns, ccHandle>>
        /\ ccState[i] = "drained" /\ "Disconnect" \in Services
        /\ ccState' = [ccState EXCEPT ![i] = "destroyed"]
        /\ \A o \in Objects : state'[o] = IF o \in UnselectedBy(ccHandle[i])
                                          THEN AbortState(o) ELSE state[o]
    BY <1>0, <1>4 DEF DestroyConnection, ConnsInv
  <2>2. (OperateMany = {}) /\ \A o, q \in Objects : o = q
    BY <2>1 DEF SelectionsEnd, Objects
  <2>3. \A j \in Conns : Live(j)' <=> Live(j) /\ j # i
    BY <1>0, <2>1 DEF Live, ConnsTypeOK
  <2>4. ConnsInv'
    BY <1>0, <2>1, <2>3 DEF ConnsTypeOK, ConnsInv, OtherLocals
  <2>5. ASSUME NEW o \in Objects, IsSbo(o) PROVE SelectionInv(o)'
    <3>1. SelectionInv(o)
      BY <1>0, <2>5
    <3>2. ASSUME Linked(o), selectedBy[o] # i PROVE Linked(o)'
      <4>1. ccState'[selectedBy[o]] = ccState[selectedBy[o]]
        BY <1>0, <2>1, <3>2 DEF ConnsTypeOK, Linked
      <4> QED BY <1>0, <2>1, <3>2, <4>1 DEF Linked, Live
    <3>3. ASSUME state'[o] = "READY" PROVE Linked(o)'
      <4>1. o \in Nat
        BY DEF Objects
      <4>2. clientConnection[o] = ccHandle[i] => o \in UnselectedBy(ccHandle[i])
        BY <2>2, <4>1 DEF UnselectedBy
      <4>3. AbortState(o) = "UNSELECTED"
        BY <2>2, <2>5 DEF AbortState
      <4>4. state[o] = "READY" /\ clientConnection[o] # ccHandle[i]
        BY <2>1, <3>3, <4>2, <4>3
      <4>5. Linked(o) /\ selectedBy[o] # i
        BY <3>1, <4>4 DEF SelectionInv, Linked
      <4> QED BY <3>2, <4>5
    <3>4. ASSUME handler'.pc \in OperPc /\ handler'.obj = o
          PROVE  Linked(o)' /\ selectedBy'[o] = handler'.cc
      <4>1. Linked(o) /\ selectedBy[o] = handler.cc
        BY <1>0, <3>1, <3>4 DEF SelectionInv
      <4>2. handler.cc # i
        BY <1>0, <2>1, <3>4 DEF ConnsInv, OperPc, Arming
      <4> QED BY <1>0, <3>2, <4>1, <4>2
    <3> QED BY <2>2, <3>3, <3>4 DEF SelectionInv
  <2> QED BY <1>1, <2>4, <2>5 DEF SelInv, IsSbo
<1> QED BY <1>2, <1>3, <1>4 DEF ConnectionStep

\* A thread started for its selector, or for a time activated command.
LEMMA StartThreadSelector ==
    ASSUME IInv, OperatedBySelector, NEW o \in Objects, NEW asker, NEW p,
           ops < MaxOps, StartThread(o, asker, p),
           asker # 0 /\ IsSbo(o) => selectedBy[o] = asker
    PROVE  /\ OperatedBySelector'
           /\ \A q \in Objects : (\E t \in Ops : op'[t].obj = q)
                  => q = o \/ \E t \in Ops : op[t].obj = q
<1>n. PICK n : n = ops + 1
  OBVIOUS
<1>1. n \in Ops
  BY <1>n, Facts, ControlAssumption DEF Ops
<1>2. /\ op'[n].obj = o /\ op'[n].asker = asker /\ op'[n].selector = selectedBy[o]
      /\ \A t \in Ops \ {n} : op'[t] = op[t]
  BY <1>n, <1>1, Facts DEF StartThread
<1> QED BY <1>2 DEF OperatedBySelector, IsSbo

\* The steps of the request handlers keep it.
LEMMA RequestStepSelInv ==
    ASSUME IInv, SelInv, RequestStep
    PROVE  SelInv'
<1>0. /\ UNCHANGED <<conns, ccState, ccHandle, worker>>
      /\ ObjectsTypeOK /\ OtherLocals /\ ConnsInv /\ OperatedBySelector
      /\ \A o \in Objects : IsSbo(o) => SelectionInv(o)
  BY DEF RequestStep, Cancel, SelectBegin, OperRefused, OperAccept, OperArm, OperOwner,
         OperWait, OperTest, SelectFinish, OperFinish, connVars, IInv, TypeOK, SelInv
<1>1. ASSUME NEW i \in Conns, NEW o \in Objects, Cancel(i, o) PROVE SelInv'
  <2>1. UNCHANGED <<clientConnection, selectedBy, op, handler>>
    BY <1>1 DEF Cancel, opVars, history
  <2>2. /\ \A q \in Objects \ {o} :
               /\ state'[q] = state[q]
               /\ timeActivatedOperate'[q] = timeActivatedOperate[q]
        /\ state[o] # "UNSELECTED" \/ timeActivatedOperate[o]
        /\ state'[o] \in {"UNSELECTED", AbortState(o)}
    BY <1>0, <1>1 DEF Cancel, ObjectsTypeOK
  <2>3. Touched(o)
    BY <2>2 DEF Touched
  <2>4. ASSUME NEW q \in Objects, IsSbo(q) PROVE StateKept(q)
    BY <1>0, <2>1, <2>2, <2>3, <2>4 DEF Touched, AbortState, StateKept
  <2> QED BY <1>0, <2>1, <2>4, SelectionAlone DEF StateKept
<1>2. ASSUME NEW i \in Conns, NEW o \in Objects, NEW p \in Params,
             NEW expired \in BOOLEAN,
             SelectBegin(i, o, p, expired) \/ OperRefused(i, o, p, expired)
      PROVE  SelInv'
  <2>1. /\ UNCHANGED <<clientConnection, selectedBy, op, timeActivatedOperate>>
        /\ ccState[i] = "listed"
        /\ \/ handler' = handler
           \/ handler' = [pc |-> "select", obj |-> o, cc |-> i, param |-> p]
        /\ state' = [state EXCEPT ![o] = AfterSelectTimeout(o, expired)]
    BY <1>2 DEF SelectBegin, OperRefused, CanHandle, opVars, history
  <2>2. \A q \in Objects : state'[q] \in {state[q], "UNSELECTED"}
    BY <1>0, <2>1 DEF AfterSelectTimeout, ObjectsTypeOK
  <2>3. ASSUME NEW q \in Objects, IsSbo(q) PROVE StateKept(q)
    BY <1>0, <2>1, <2>2 DEF Touched, StateKept
  <2> QED BY <1>0, <2>1, <2>3, SelectionAlone DEF StateKept, OperPc, Arming
<1>3. ASSUME NEW i \in Conns, NEW o \in Objects, NEW p \in Params,
             NEW expired \in BOOLEAN, OperAccept(i, o, p, expired)
      PROVE  SelInv'
  <2>1. /\ UNCHANGED <<selectedBy, op, clientConnection, state, timeActivatedOperate>>
        /\ ccState[i] = "listed" /\ state[o] = "READY"
        /\ IsSbo(o) => clientConnection[o] = ccHandle[i]
        /\ handler' = [pc |-> "accepted", obj |-> o, cc |-> i, param |-> p]
    BY <1>3 DEF OperAccept, CanHandle, OperAdmitted, AfterSelectTimeout, opVars, history
  <2>2. IsSbo(o) => selectedBy[o] = i /\ Linked(o)
    BY <1>0, <2>1, SelectorKnown DEF SelectionInv
  <2>3. OperatedBySelector'
    BY <1>0, <2>1 DEF OperatedBySelector, IsSbo
  <2>4. ASSUME NEW q \in Objects PROVE (Linked(q) => Linked(q)') /\ (Touched(q)' => Touched(q))
    BY <1>0, <2>1 DEF Linked, Live, Touched
  <2> QED BY <1>0, <2>1, <2>2, <2>3, <2>4, SelectionFrame DEF SelectionKept
<1>8. ASSUME OperArm \/ OperOwner \/ OperWait \/ OperTest PROVE SelInv'
  <2>0. PICK o \in Objects, i \in Conns : o = handler.obj /\ i = handler.cc
    BY <1>0, <1>8 DEF OperArm, OperOwner, OperWait, OperTest, OtherLocals
  <2>1. /\ UNCHANGED <<selectedBy, op>>
        /\ handler.pc \in OperPc /\ ccState[i] = "listed"
        /\ \/ handler' = Idle
           \/ \E x \in OperPc : handler' = [handler EXCEPT !.pc = x]
        /\ clientConnection' \in {clientConnection,
                                  [clientConnection EXCEPT ![o] = ccHandle[i]]}
        /\ state'[o] = "READY" => state[o] = "READY"
        /\ \A q \in Objects \ {o} :
               /\ state'[q] = state[q]
               /\ timeActivatedOperate'[q] = timeActivatedOperate[q]
    BY <1>0, <1>8, <2>0
       DEF OperArm, OperOwner, OperWait, OperTest, OperPc, Arming, ObjectsTypeOK, ConnsInv,
           opVars, history
  <2>2. handler'.pc # "idle" => handler'.obj = o /\ handler'.cc = i
    BY <2>0, <2>1, Facts DEF HandlerType, Idle
  <2>3. IsSbo(o) => selectedBy[o] = i /\ Linked(o)
    BY <1>0, <2>0, <2>1 DEF SelectionInv, OperPc
  <2>4. OperatedBySelector'
    BY <1>0, <2>1 DEF OperatedBySelector, IsSbo
  <2>5. ASSUME NEW q \in Objects, IsSbo(q) PROVE clientConnection'[q] = clientConnection[q]
    BY <1>0, <2>1, <2>3, <2>5 DEF ObjectsTypeOK, Linked
  <2>6. ASSUME NEW q \in Objects, IsSbo(q) PROVE SelectionKept(q)
    <3>1. Linked(q) => Linked(q)'
      BY <1>0, <2>1, <2>5, <2>6 DEF Linked, Live
    <3>2. q # o => (Touched(q)' => Touched(q))
      BY <1>0, <2>1, <2>6 DEF Touched
    <3>3. handler'.pc \in OperPc => handler'.pc # "idle"
      BY DEF OperPc, Arming
    <3> QED BY <2>0, <2>1, <2>2, <2>3, <2>6, <3>1, <3>2, <3>3 DEF SelectionKept
  <2>7. handler'.pc # "idle" => ccState[handler'.cc] = "listed"
    BY <2>1, <2>2
  <2> QED BY <1>0, <2>4, <2>6, <2>7, SelectionFrame
<1>4. ASSUME SelectFinish(TRUE) PROVE SelInv'
  <2>0. PICK o \in Objects, i \in Conns : o = handler.obj /\ i = handler.cc
    BY <1>0, <1>4 DEF SelectFinish, OtherLocals
  <2>1. /\ ccState[i] = "listed" /\ handler' = Idle
        /\ UNCHANGED <<op, timeActivatedOperate>>
        /\ clientConnection' = [clientConnection EXCEPT ![o] = ccHandle[i]]
        /\ selectedBy' = [selectedBy EXCEPT ![o] = i]
        /\ state' = [state EXCEPT ![o] = "READY"]
    BY <1>0, <1>4, <2>0 DEF SelectFinish, ConnsInv, opVars
  <2>2. OperatedBySelector'
    BY <1>0, <2>1 DEF OperatedBySelector, IsSbo
  <2>3. Linked(o)'
    BY <1>0, <2>1 DEF Linked, Live, ObjectsTypeOK
  <2>4. ASSUME NEW q \in Objects \ {o}
        PROVE  /\ Linked(q) => Linked(q)'
               /\ Touched(q)' => Touched(q)
               /\ state'[q] = state[q]
    BY <1>0, <2>1 DEF Linked, Live, ObjectsTypeOK, Touched
  <2> QED BY <1>0, <2>1, <2>2, <2>3, <2>4, SelectionFrame DEF Idle, SelectionKept, OperPc, Arming
<1>5. ASSUME SelectFinish(FALSE) PROVE SelInv'
  <2>1. UNCHANGED <<clientConnection, selectedBy, op, timeActivatedOperate, state>>
        /\ handler' = Idle
    BY <1>5 DEF SelectFinish, opVars
  <2>2. \A q \in Objects : Touched(q)' <=> Touched(q)
    BY <1>0, <2>1 DEF Touched
  <2> QED BY <1>0, <2>1, <2>2, SelectionAlone DEF Idle, StateKept, OperPc, Arming
<1>6. ASSUME OperFinish(TRUE) PROVE SelInv'
  <2>0. PICK o \in Objects, i \in Conns : o = handler.obj /\ i = handler.cc
    BY <1>0, <1>6 DEF OperFinish, OtherLocals
  <2>1. /\ ccState[i] = "listed" /\ handler' = Idle /\ handler.pc = "oper"
        /\ UNCHANGED <<timeActivatedOperate, state, selectedBy>>
        /\ clientConnection' = [clientConnection EXCEPT ![o] = ccHandle[i]]
        /\ ops < MaxOps /\ StartThread(o, i, handler.param)
    BY <1>0, <1>6, <2>0 DEF OperFinish, ConnsInv, history
  <2>2. IsSbo(o) => selectedBy[o] = i /\ Linked(o)'
    <3>1. IsSbo(o) => selectedBy[o] = i
      BY <1>0, <2>0, <2>1 DEF SelectionInv, OperPc
    <3> QED BY <1>0, <2>1, <3>1 DEF Linked, Live, ObjectsTypeOK
  <2>3. /\ OperatedBySelector'
        /\ \A q \in Objects : (\E t \in Ops : op'[t].obj = q)
               => q = o \/ \E t \in Ops : op[t].obj = q
    BY <1>0, <2>1, <2>2, StartThreadSelector
  <2>4. ASSUME NEW q \in Objects \ {o}
        PROVE  (Linked(q) => Linked(q)') /\ (Touched(q)' => Touched(q))
    BY <1>0, <2>1, <2>3 DEF Linked, Live, ObjectsTypeOK, Touched
  <2> QED BY <1>0, <2>1, <2>2, <2>3, <2>4, SelectionFrame DEF Idle, SelectionKept, OperPc, Arming
<1>7. ASSUME OperFinish(FALSE) PROVE SelInv'
  <2>0. PICK o \in Objects : o = handler.obj
    BY <1>0, <1>7 DEF OperFinish, OtherLocals
  <2>1. /\ handler' = Idle /\ handler.pc = "oper"
        /\ UNCHANGED <<timeActivatedOperate, selectedBy, clientConnection, op>>
        /\ state' = [state EXCEPT ![o] = AbortState(o)]
    BY <1>0, <1>7, <2>0 DEF OperFinish, history, opVars
  <2>2. OperatedBySelector'
    BY <1>0, <2>1 DEF OperatedBySelector, IsSbo
  <2>3. ASSUME NEW q \in Objects PROVE Linked(q) => Linked(q)'
    BY <1>0, <2>1 DEF Linked, Live
  <2>4. IsSbo(o) => Linked(o)
    BY <1>0, <2>0, <2>1 DEF SelectionInv, OperPc
  <2>5. ASSUME NEW q \in Objects \ {o}
        PROVE  state'[q] = state[q] /\ (Touched(q)' => Touched(q))
    BY <1>0, <2>1 DEF ObjectsTypeOK, Touched
  <2> QED BY <1>0, <2>1, <2>2, <2>3, <2>4, <2>5, SelectionFrame DEF Idle, SelectionKept, OperPc, Arming
<1> QED BY <1>1, <1>2, <1>3, <1>4, <1>5, <1>6, <1>7, <1>8 DEF RequestStep

\* The steps of the event worker keep it.
LEMMA WorkerStepSelInv ==
    ASSUME IInv, SelInv, WorkerStep
    PROVE  SelInv'
<1>0. /\ UNCHANGED <<conns, ccState, ccHandle, handler, clientConnection, selectedBy>>
      /\ ObjectsTypeOK /\ OtherLocals /\ ConnsInv /\ OperatedBySelector
      /\ worker \in WorkerType
      /\ \A o \in Objects : IsSbo(o) => SelectionInv(o)
  BY DEF WorkerStep, WorkerSeesDue, WorkerTakes, WorkerFinish, connVars, objectVars,
         history, IInv, TypeOK, SelInv
<1>1. ASSUME NEW o \in Objects, WorkerSeesDue(o) PROVE SelInv'
  <2>1. /\ UNCHANGED <<op, timeActivatedOperate, state>>
        /\ worker' = [pc |-> "due", obj |-> o] /\ timeActivatedOperate[o]
    BY <1>1 DEF WorkerSeesDue, objectVars, opVars
  <2>2. \A q \in Objects : Touched(q)' => Touched(q)
    BY <2>1 DEF Touched
  <2> QED BY <1>0, <2>1, <2>2, SelectionAlone DEF StateKept
<1>2. ASSUME WorkerTakes PROVE SelInv'
  <2>1. /\ UNCHANGED <<op, state>>
        /\ worker.pc = "due" /\ worker'.obj = worker.obj
        /\ \A q \in Objects : timeActivatedOperate'[q] => timeActivatedOperate[q]
    BY <1>0, <1>2 DEF WorkerTakes, WorkerType, ObjectsTypeOK, opVars
  <2>2. \A q \in Objects : Touched(q)' => Touched(q)
    BY <2>1 DEF Touched
  <2> QED BY <1>0, <2>1, <2>2, SelectionAlone DEF StateKept
<1>3. ASSUME NEW accepted \in BOOLEAN, WorkerFinish(accepted) PROVE SelInv'
  <2>0. PICK o \in Objects : o = worker.obj
    BY <1>0, <1>3 DEF WorkerFinish, OtherLocals
  <2>1. /\ worker.pc = "check" /\ worker' = WorkerIdle
        /\ UNCHANGED timeActivatedOperate /\ Touched(o)
    BY <1>3, <2>0 DEF WorkerFinish, Touched
  <2>2. CASE accepted
    <3>1. /\ ops < MaxOps /\ StartThread(o, 0, param[o]) /\ UNCHANGED state
      BY <1>3, <2>0, <2>2 DEF WorkerFinish
    <3>2. /\ OperatedBySelector'
          /\ \A q \in Objects : (\E t \in Ops : op'[t].obj = q)
                 => q = o \/ \E t \in Ops : op[t].obj = q
      BY <1>0, <3>1, StartThreadSelector
    <3>3. \A q \in Objects : Touched(q)' => Touched(q)
      BY <2>1, <3>1, <3>2 DEF Touched, WorkerIdle
    <3>4. \A q \in Objects : Linked(q) => Linked(q)'
      BY <1>0 DEF Linked, Live
    <3>5. handler'.pc # "idle" => ccState[handler'.cc] = "listed"
      BY <1>0 DEF ConnsInv
    <3> QED BY <1>0, <3>1, <3>2, <3>3, <3>4, <3>5, SelectionFrame DEF SelectionKept
  <2>3. CASE ~accepted
    <3>1. /\ UNCHANGED op /\ state' = [state EXCEPT ![o] = AbortState(o)]
      BY <1>3, <2>0, <2>3 DEF WorkerFinish, opVars
    <3>2. ASSUME NEW q \in Objects \ {o}
          PROVE  state'[q] = state[q] /\ (Touched(q)' => Touched(q))
      BY <1>0, <2>1, <3>1 DEF ObjectsTypeOK, Touched, WorkerIdle
    <3>3. IsSbo(o) /\ state'[o] = "READY" => o \in OperateMany
      BY <1>0, <3>1 DEF AbortState, ObjectsTypeOK
    <3> QED BY <1>0, <2>1, <3>1, <3>2, <3>3, SelectionAlone DEF StateKept
  <2> QED BY <2>2, <2>3
<1> QED BY <1>1, <1>2, <1>3 DEF WorkerStep

\* The steps of the operate threads keep it.
LEMMA ThreadStepSelInv ==
    ASSUME IInv, SelInv, NEW t \in Ops, ThreadStep(t)
    PROVE  SelInv'
<1>1. /\ UNCHANGED <<conns, ccState, ccHandle, handler, clientConnection, selectedBy,
                     op, worker, timeActivatedOperate>>
      /\ ObjectsTypeOK
  BY DEF ThreadStep, ThreadLookup, ThreadIncrease, ThreadBegin, ThreadExecute,
         ThreadOperate, ThreadAbort, ThreadDecrease, connVars, objectVars, history,
         IInv, TypeOK
<1>2. CASE state' = state
  <2>1. \A q \in Objects : Touched(q)' <=> Touched(q)
    BY <1>1, <1>2 DEF Touched
  <2> QED BY <1>1, <1>2, <2>1, SelectionAlone DEF StateKept
<1>3. CASE state' # state
  <2>1. PICK o \in Objects : o = op[t].obj
    <3>1. pc[t] # "none"
      BY <1>3 DEF ThreadStep, ThreadLookup, ThreadIncrease, ThreadBegin, ThreadExecute,
                  ThreadOperate, ThreadAbort, ThreadDecrease, objectVars
    <3> QED BY <3>1 DEF IInv, ThreadLocals
  <2>2. PICK s \in {"WAIT_FOR_EXECUTION", "OPERATE", AbortState(o)} :
            state' = [state EXCEPT ![o] = s]
    BY <1>3, <2>1 DEF ThreadStep, ThreadLookup, ThreadIncrease, ThreadBegin,
                      ThreadExecute, ThreadOperate, ThreadAbort, ThreadDecrease,
                      objectVars
  <2>3. Touched(o)
    BY <2>1 DEF Touched
  <2>4. ASSUME NEW q \in Objects \ {o}
        PROVE  state'[q] = state[q] /\ (Touched(q)' => Touched(q))
    BY <1>1, <2>2 DEF ObjectsTypeOK, Touched
  <2>5. IsSbo(o) /\ state'[o] = "READY" => o \in OperateMany
    BY <1>1, <2>2 DEF AbortState, ObjectsTypeOK
  <2> QED BY <1>1, <2>3, <2>4, <2>5, SelectionAlone DEF StateKept
<1> QED BY <1>2, <1>3

\* Every step keeps it, as long as selections end with their connections.
LEMMA NextSelInv == IInv /\ SelInv /\ SelectionsEnd /\ [Next]_vars => SelInv'
<1> SUFFICES ASSUME IInv, SelInv, SelectionsEnd, [Next]_vars PROVE SelInv'
  OBVIOUS
<1>1. CASE UNCHANGED vars
  <2>1. UNCHANGED <<conns, ccState, ccHandle, clientConnection, selectedBy, op, state,
                    handler, worker, timeActivatedOperate>>
    BY <1>1 DEF vars, objectVars, connVars, opVars, history
  <2>2. \A q \in Objects : Touched(q)' <=> Touched(q)
    BY <2>1 DEF Touched
  <2> QED BY <2>1, <2>2, SelectionAlone DEF StateKept
<1> QED BY <1>1, ConnectionStepSelInv, RequestStepSelInv, WorkerStepSelInv,
           ThreadStepSelInv DEF Next

\* A select before operate object is operated by the connection that selected
\* it, whether clients cancel commands or not, and also when they disconnect,
\* as long as a closed connection leaves no selection behind (SelectionsEnd).
THEOREM SelectedBeforeOperated ==
    SelectionsEnd => (Spec => []OperatedBySelector)
<1> SUFFICES ASSUME SelectionsEnd PROVE Spec => []OperatedBySelector
  OBVIOUS
<1>1. Init => IInv /\ SelInv
  BY InitIInv, InitSelInv
<1>2. IInv /\ SelInv /\ [Next]_vars => IInv' /\ SelInv'
  BY NextIInv, NextSelInv
<1>3. SelInv => OperatedBySelector
  BY DEF SelInv
<1> QED BY <1>1, <1>2, <1>3, PTL DEF Spec

(***************************************************************************)
(* Answers.  While an operate thread has not answered, nobody replaces the *)
(* connection and the invoke id in its object.  A thread that the overtaken *)
(* handler or the worker started on an overtaken object answers requests   *)
(* of that object only.                                                    *)
(***************************************************************************)
BeforeAnswer == {"start", "found", "begin", "waiting"}

AnswerInv(t) ==
    /\ pc[t] = "none" => answers[t] = <<>>
    /\ op[t].obj \notin overtaken =>
         /\ answers[t] \in {<<>>, <<op[t].asker>>}
         /\ pc[t] \in BeforeAnswer => answers[t] = <<>>
         /\ pc[t] \in BeforeAnswer /\ op[t].asker # 0
                => /\ operateInvokeId[op[t].obj] = t
                   /\ Live(op[t].asker)
                   /\ clientConnection[op[t].obj] = ccHandle[op[t].asker]
         /\ pc[t] \in {"start", "found", "begin"}
                => state[op[t].obj] = IF op[t].asker = 0 THEN "WAIT_FOR_ACTIVATION_TIME"
                                                         ELSE "PERFORM_TEST"
         /\ pc[t] = "waiting" => timed[t] = (op[t].asker = 0)

\* The invoke id in an object is of a request to that object.
InvokeInv(o) ==
    operateInvokeId[o] # 0 => /\ operateInvokeId[o] \in Ops
                              /\ pc[operateInvokeId[o]] # "none"
                              /\ op[operateInvokeId[o]].obj = o

AnsInv == /\ \A t \in Ops : AnswerInv(t)
          /\ \A o \in Objects : InvokeInv(o)

\* The address of a live connection leads to it.
LEMMA ReceiverKnown ==
    ASSUME SelInv, NEW i \in Conns, Live(i)
    PROVE  Receiver(ccHandle[i]) = i
<1>1. InUse(ccHandle[i])
  BY DEF InUse, Live
<1>2. \A j \in Conns : Live(j) /\ ccHandle[j] = ccHandle[i] => j = i
  BY DEF SelInv, ConnsInv
<1> QED BY <1>1, <1>2 DEF Receiver, Live

\* The facts of IInv that the proofs about answers use besides Facts.
LEMMA AnswerFacts ==
    ASSUME IInv
    PROVE  /\ answers \in [Ops -> Seq(0 .. MaxConns)]
           /\ timed \in [Ops -> BOOLEAN]
           /\ clientConnection \in [Objects -> Handles \cup {NoHandle}]
           /\ operateInvokeId \in [Objects -> 0 .. MaxOps]
           /\ ccHandle \in [Conns -> Handles \cup {NoHandle}]
           /\ \A t \in Ops : op[t].asker # 0 => op[t].asker \in Conns
           /\ handler.pc # "idle" => handler.cc \in Conns
<1>1. \A t \in Ops : op[t].asker \in 0 .. MaxConns
  BY Facts DEF OpType
<1>2. \A t \in Ops : op[t].asker # 0 => op[t].asker \in Conns
  BY <1>1, ControlAssumption DEF Conns
<1> QED BY <1>2 DEF IInv, TypeOK, ObjectsTypeOK, ConnsTypeOK, ThreadsTypeOK, OtherLocals

\* A thread that a step leaves alone, with its object if it has not answered.
LEMMA AnswerFrame ==
    ASSUME IInv, AnsInv, NEW t \in Ops,
           op'[t] = op[t], pc'[t] = pc[t], timed'[t] = timed[t],
           answers'[t] = answers[t],
           \A i \in Conns : Live(i) => Live(i)' /\ ccHandle'[i] = ccHandle[i],
           op[t].obj \notin overtaken' => op[t].obj \notin overtaken,
           pc[t] \in BeforeAnswer /\ op[t].obj \notin overtaken'
               => /\ state'[op[t].obj] = state[op[t].obj]
                  /\ operateInvokeId'[op[t].obj] = operateInvokeId[op[t].obj]
                  /\ clientConnection'[op[t].obj] = clientConnection[op[t].obj]
    PROVE  AnswerInv(t)'
<1>1. AnswerInv(t)
  BY DEF AnsInv
<1>2. op[t].asker # 0 => op[t].asker \in Conns
  BY AnswerFacts
<1>3. op[t].obj \notin overtaken /\ pc[t] \in BeforeAnswer /\ op[t].asker # 0
          => /\ Live(op[t].asker)'
             /\ ccHandle'[op[t].asker] = ccHandle[op[t].asker]
  BY <1>1, <1>2 DEF AnswerInv, Live
<1> QED BY <1>1, <1>3 DEF AnswerInv, BeforeAnswer

\* A step that starts no thread and leaves the invoke ids alone.
LEMMA InvokeFrame ==
    ASSUME AnsInv, UNCHANGED <<op, operateInvokeId>>,
           \A t \in Ops : pc[t] # "none" => pc'[t] # "none"
    PROVE  \A o \in Objects : InvokeInv(o)'
BY DEF AnsInv, InvokeInv

\* A step that concerns one object, on which no thread is running.
LEMMA AnswersAlone ==
    ASSUME IInv, XInv, AnsInv,
           UNCHANGED <<op, pc, timed, answers, operateInvokeId, overtaken>>,
           \A i \in Conns : Live(i) => Live(i)' /\ ccHandle'[i] = ccHandle[i],
           NEW o \in Objects, \A t \in Ops : Running(t) => op[t].obj # o,
           \A q \in Objects \ {o} : /\ state'[q] = state[q]
                                    /\ clientConnection'[q] = clientConnection[q]
    PROVE  AnsInv'
<1>1. ASSUME NEW t \in Ops PROVE AnswerInv(t)'
  <2>1. pc[t] \in BeforeAnswer /\ op[t].obj \notin overtaken
            => op[t].obj \in Objects \ {o}
    BY Facts DEF BeforeAnswer, Running
  <2> QED BY <2>1, AnswerFrame
<1> QED BY <1>1, InvokeFrame DEF AnsInv

\* The start of a thread on an object on which none is running.
LEMMA StartThreadAnsInv ==
    ASSUME IInv, XInv, AnsInv,
           UNCHANGED <<ccState, ccHandle, answers, state, overtaken>>,
           NEW o \in Objects, NEW asker \in 0 .. MaxConns, NEW p,
           ops < MaxOps, StartThread(o, asker, p),
           \A t \in Ops : Running(t) => op[t].obj # o,
           \A q \in Objects \ {o} :
               /\ operateInvokeId'[q] = operateInvokeId[q]
               /\ clientConnection'[q] = clientConnection[q],
           o \notin overtaken =>
               state[o] = IF asker = 0 THEN "WAIT_FOR_ACTIVATION_TIME" ELSE "PERFORM_TEST",
           asker = 0 => operateInvokeId'[o] = operateInvokeId[o],
           asker # 0 => /\ operateInvokeId'[o] = ops + 1
                        /\ Live(asker)
                        /\ clientConnection'[o] = ccHandle[asker]
    PROVE  AnsInv'
<1>n. PICK n : n = ops + 1
  OBVIOUS
<1>1. n \in Ops /\ pc[n] = "none"
  <2>1. n \in Ops
    BY <1>n, Facts, ControlAssumption DEF Ops
  <2> QED BY <1>n, <2>1, Facts
<1>2. /\ op'[n].obj = o /\ op'[n].asker = asker /\ pc'[n] = "start"
      /\ \A t \in Ops \ {n} : op'[t] = op[t] /\ pc'[t] = pc[t]
      /\ timed' = timed
  BY <1>n, <1>1, Facts DEF StartThread
<1>3. ASSUME NEW t \in Ops \ {n} PROVE AnswerInv(t)'
  <2>1. pc[t] \in BeforeAnswer /\ op[t].obj \notin overtaken
            => op[t].obj \in Objects \ {o}
    BY Facts DEF BeforeAnswer, Running
  <2>2. \A i \in Conns : Live(i) => Live(i)' /\ ccHandle'[i] = ccHandle[i]
    BY DEF Live
  <2> QED BY <1>2, <2>1, <2>2, AnswerFrame
<1>4. AnswerInv(n)'
  <2>1. answers'[n] = <<>>
    BY <1>1 DEF AnsInv, AnswerInv
  <2> QED BY <1>n, <1>2, <2>1 DEF AnswerInv, BeforeAnswer, Live
<1>5. ASSUME NEW q \in Objects PROVE InvokeInv(q)'
  <2>1. CASE operateInvokeId'[q] = operateInvokeId[q]
    <3>1. operateInvokeId[q] # 0
              => /\ operateInvokeId[q] \in Ops \ {n}
                 /\ pc[operateInvokeId[q]] # "none"
                 /\ op[operateInvokeId[q]].obj = q
      BY <1>1 DEF AnsInv, InvokeInv
    <3> QED BY <1>2, <2>1, <3>1 DEF InvokeInv
  <2>2. CASE q = o /\ operateInvokeId'[q] = n
    BY <1>1, <1>2, <2>2 DEF InvokeInv
  <2> QED BY <1>n, <2>1, <2>2
<1> QED BY <1>3, <1>4, <1>5 DEF AnsInv

\* The initial states satisfy the invariant.
LEMMA InitAnsInv == Init => AnsInv
BY DEF Init, AnsInv, AnswerInv, InvokeInv, BeforeAnswer

\* The steps of connections and requests keep it.
LEMMA RequestStepAnsInv ==
    ASSUME IInv, XInv, SelInv, AnsInv, Undisturbed, ConnectionStep \/ RequestStep
    PROVE  AnsInv'
<1>0. /\ \A o \in Objects : ObjectInv(o)
      /\ \A t \in Ops : ThreadInv(t)
      /\ ConnsInv
      /\ \A i \in Conns : ccState[i] \in {"unused", "listed"}
  BY DEF XInv, SelInv
<1>1. ASSUME NEW h \in Handles, NewConnection(h) PROVE AnsInv'
  <2>1. UNCHANGED <<state, clientConnection, operateInvokeId, op, pc, timed, answers,
                    overtaken>>
    BY <1>1 DEF NewConnection, objectVars, opVars, history
  <2>2. conns + 1 \in Conns /\ ccState[conns + 1] = "unused"
    BY <1>0, <1>1, ControlAssumption
       DEF NewConnection, ConnsInv, Conns, IInv, TypeOK, ConnsTypeOK
  <2>3. \A i \in Conns : Live(i) => Live(i)' /\ ccHandle'[i] = ccHandle[i]
    BY <1>1, <2>2, Facts, AnswerFacts DEF NewConnection, Live
  <2>4. ASSUME NEW t \in Ops PROVE AnswerInv(t)'
    BY <2>1, <2>3, AnswerFrame
  <2> QED BY <2>1, <2>4, InvokeFrame DEF AnsInv
<1>2. ASSUME NEW i \in Conns, \/ RemoveConnection(i) \/ DrainConnection(i)
                              \/ DestroyConnection(i)
      PROVE FALSE
  BY <1>0, <1>2 DEF RemoveConnection, DrainConnection, DestroyConnection,
                    Undisturbed
<1>3. ASSUME RequestStep PROVE UNCHANGED <<ccState, ccHandle>>
  BY <1>3 DEF RequestStep, Cancel, SelectBegin, OperRefused, OperAccept, OperArm,
              OperOwner, OperWait, OperTest, SelectFinish, OperFinish, connVars
<1>4. ASSUME RequestStep
      PROVE  \A i \in Conns : Live(i) => Live(i)' /\ ccHandle'[i] = ccHandle[i]
  BY <1>3, <1>4 DEF Live
<1>5. ASSUME NEW i \in Conns, NEW o \in Objects, NEW p \in Params,
             NEW expired \in BOOLEAN,
             \/ SelectBegin(i, o, p, expired) \/ OperRefused(i, o, p, expired)
             \/ OperAccept(i, o, p, expired)
      PROVE  AnsInv'
  <2>1. /\ UNCHANGED <<op, pc, timed, answers, operateInvokeId, overtaken>>
        /\ \A q \in Objects \ {o} : /\ state'[q] = state[q]
                                    /\ clientConnection'[q] = clientConnection[q]
        /\ \/ UNCHANGED <<state, clientConnection>>
           \/ state[o] = "READY"
    BY <1>5, Facts, AnswerFacts
       DEF SelectBegin, OperRefused, OperAccept, AfterSelectTimeout, opVars, history
  <2>2. RequestStep
    BY <1>5 DEF RequestStep
  <2>3. CASE state[o] = "READY"
    <3>1. \A t \in Ops : Running(t) => op[t].obj # o
      BY <1>0, <2>3 DEF ThreadInv, StateOf
    <3> QED BY <1>4, <2>1, <2>2, <3>1, AnswersAlone
  <2>4. CASE UNCHANGED <<state, clientConnection>>
    <3>1. ASSUME NEW t \in Ops PROVE AnswerInv(t)'
      BY <1>4, <2>1, <2>2, <2>4, AnswerFrame
    <3> QED BY <2>1, <3>1, InvokeFrame DEF AnsInv
  <2> QED BY <2>1, <2>3, <2>4
<1>8. ASSUME OperArm \/ OperOwner \/ OperWait \/ OperTest PROVE AnsInv'
  <2>0. PICK o \in Objects : o = handler.obj
    BY <1>8, Facts DEF OperArm, OperOwner, OperWait, OperTest
  <2>1. /\ UNCHANGED <<op, pc, timed, answers, operateInvokeId, overtaken>>
        /\ \A q \in Objects \ {o} : /\ state'[q] = state[q]
                                    /\ clientConnection'[q] = clientConnection[q]
    BY <1>8, <2>0, Facts, AnswerFacts
       DEF OperArm, OperOwner, OperWait, OperTest, opVars, history
  <2>2. Handled(o)
    BY <1>8, <2>0 DEF OperArm, OperOwner, OperWait, OperTest, Handled, OperPc, Arming
  <2>3. \A t \in Ops : Running(t) => op[t].obj # o
    BY <1>0, <2>2 DEF ThreadInv
  <2>4. RequestStep
    BY <1>8 DEF RequestStep
  <2> QED BY <1>4, <2>1, <2>3, <2>4, AnswersAlone
<1>6. ASSUME NEW accepted \in BOOLEAN, SelectFinish(accepted) PROVE AnsInv'
  <2>0. PICK o \in Objects : o = handler.obj
    BY <1>6, Facts DEF SelectFinish
  <2>1. /\ UNCHANGED <<op, pc, timed, answers, operateInvokeId, overtaken>>
        /\ \A q \in Objects \ {o} : /\ state'[q] = state[q]
                                    /\ clientConnection'[q] = clientConnection[q]
    BY <1>6, <2>0, Facts, AnswerFacts DEF SelectFinish, opVars
  <2>2. o \notin overtaken => state[o] = "UNSELECTED"
    BY <1>0, <1>6, <2>0 DEF SelectFinish, ObjectInv
  <2>3. \A t \in Ops : Running(t) => op[t].obj # o
    BY <1>0, <2>2 DEF ThreadInv, StateOf, Running
  <2>4. RequestStep
    BY <1>6 DEF RequestStep
  <2> QED BY <1>4, <2>1, <2>3, <2>4, AnswersAlone
<1>7. ASSUME NEW accepted \in BOOLEAN, OperFinish(accepted) PROVE AnsInv'
  <2>0. PICK o \in Objects, i \in Conns : o = handler.obj /\ i = handler.cc
    BY <1>7, Facts, AnswerFacts DEF OperFinish
  <2>1. Handled(o) /\ handler.pc = "oper" /\ ccState[i] = "listed"
    BY <1>0, <1>7, <2>0 DEF OperFinish, Handled, OperPc, ConnsInv
  <2>2. /\ o \notin overtaken => state[o] = "PERFORM_TEST"
        /\ \A t \in Ops : Running(t) => op[t].obj # o
    BY <1>0, <2>1 DEF ObjectInv, ThreadInv, HandlerState
  <2>3. RequestStep
    BY <1>7 DEF RequestStep
  <2>4. CASE accepted
    <3>1. /\ UNCHANGED <<answers, state, overtaken>>
          /\ ops < MaxOps /\ StartThread(o, i, handler.param)
          /\ clientConnection' = [clientConnection EXCEPT ![o] = ccHandle[i]]
          /\ operateInvokeId' = [operateInvokeId EXCEPT ![o] = ops + 1]
      BY <1>7, <2>0, <2>4 DEF OperFinish, history
    <3>2. /\ operateInvokeId'[o] = ops + 1 /\ clientConnection'[o] = ccHandle[i]
          /\ \A q \in Objects \ {o} : /\ operateInvokeId'[q] = operateInvokeId[q]
                                      /\ clientConnection'[q] = clientConnection[q]
      BY <3>1, AnswerFacts
    <3>3. i \in 0 .. MaxConns /\ i # 0 /\ Live(i)
      BY <2>1, ControlAssumption DEF Conns, Live
    <3> QED BY <1>3, <2>2, <2>3, <3>1, <3>2, <3>3, StartThreadAnsInv
  <2>5. CASE ~accepted
    <3>1. /\ UNCHANGED <<op, pc, timed, answers, operateInvokeId, overtaken>>
          /\ \A q \in Objects \ {o} : /\ state'[q] = state[q]
                                      /\ clientConnection'[q] = clientConnection[q]
      BY <1>7, <2>0, <2>5, Facts DEF OperFinish, opVars, history
    <3> QED BY <1>4, <2>2, <2>3, <3>1, AnswersAlone
  <2> QED BY <2>4, <2>5
<1> QED BY <1>1, <1>2, <1>5, <1>6, <1>7, <1>8
        DEF ConnectionStep, RequestStep, Cancel, Undisturbed

\* The steps of the event worker keep it.
LEMMA WorkerStepAnsInv ==
    ASSUME IInv, XInv, AnsInv, WorkerStep
    PROVE  AnsInv'
<1>1. UNCHANGED <<ccState, ccHandle, answers, operateInvokeId, clientConnection>>
  BY DEF WorkerStep, WorkerSeesDue, WorkerTakes, WorkerFinish, connVars, objectVars,
         history
<1>2. \A i \in Conns : Live(i) => Live(i)' /\ ccHandle'[i] = ccHandle[i]
  BY <1>1 DEF Live
<1>3. ASSUME WorkerTakes \/ \E o \in Objects : WorkerSeesDue(o) PROVE AnsInv'
  <2>1. UNCHANGED <<state, op, pc, timed>> /\ overtaken \subseteq overtaken'
    BY <1>3 DEF WorkerTakes, WorkerSeesDue, objectVars, opVars, history
  <2>2. ASSUME NEW t \in Ops PROVE AnswerInv(t)'
    BY <1>1, <1>2, <2>1, AnswerFrame
  <2> QED BY <1>1, <2>1, <2>2, InvokeFrame DEF AnsInv
<1>4. ASSUME NEW accepted \in BOOLEAN, WorkerFinish(accepted) PROVE AnsInv'
  <2>0. PICK o \in Objects : o = worker.obj
    BY <1>4, Facts DEF WorkerFinish
  <2>1. Armed(o) /\ (o \notin overtaken => ~timeActivatedOperate[o])
    BY <1>4, <2>0 DEF WorkerFinish, Armed, Checked, XInv, WorkerInv
  <2>2. /\ o \notin overtaken => state[o] = "WAIT_FOR_ACTIVATION_TIME"
        /\ \A t \in Ops : Running(t) => op[t].obj # o
    BY <2>1 DEF XInv, ObjectInv, ThreadInv
  <2>3. CASE accepted
    <3>1. /\ UNCHANGED <<state, overtaken>>
          /\ ops < MaxOps /\ StartThread(o, 0, param[o])
      BY <1>4, <2>0, <2>3 DEF WorkerFinish, history
    <3>2. 0 \in 0 .. MaxConns
      BY ControlAssumption
    <3> QED BY <1>1, <2>2, <3>1, <3>2, StartThreadAnsInv
  <2>4. CASE ~accepted
    <3>1. /\ UNCHANGED <<op, pc, timed, overtaken>>
          /\ \A q \in Objects \ {o} : state'[q] = state[q]
      BY <1>4, <2>0, <2>4, Facts DEF WorkerFinish, opVars, history
    <3> QED BY <1>1, <1>2, <2>2, <3>1, AnswersAlone
  <2> QED BY <2>3, <2>4
<1> QED BY <1>3, <1>4 DEF WorkerStep

\* The steps of the operate threads keep it.
LEMMA ThreadStepAnsInv ==
    ASSUME IInv, XInv, SelInv, AnsInv, NEW t \in Ops, ThreadStep(t)
    PROVE  AnsInv'
<1>0. AnswerInv(t) /\ ThreadInv(t) /\ pc[t] # "none"
  BY DEF AnsInv, XInv, ThreadStep, ThreadLookup, ThreadIncrease, ThreadBegin,
         ThreadExecute, ThreadOperate, ThreadAbort, ThreadDecrease
<1>1. PICK o \in Objects : o = op[t].obj
  BY <1>0 DEF IInv, ThreadLocals
<1>2. /\ UNCHANGED <<ccState, ccHandle, op, operateInvokeId, clientConnection, overtaken>>
      /\ \A u \in Ops \ {t} : pc'[u] = pc[u] /\ timed'[u] = timed[u]
      /\ pc'[t] # "none"
      /\ state' = state \/ pc[t] \notin {"none", "end", "done"}
      /\ \A q \in Objects \ {o} : state'[q] = state[q]
  BY <1>1, Facts, AnswerFacts
     DEF ThreadStep, ThreadLookup, ThreadIncrease, ThreadBegin, ThreadExecute,
         ThreadOperate, ThreadAbort, ThreadDecrease, connVars, objectVars, history
<1>3. /\ \A i \in Conns : Live(i) => Live(i)' /\ ccHandle'[i] = ccHandle[i]
      /\ \A q \in Objects : InvokeInv(q)'
  BY <1>2, InvokeFrame DEF Live
<1>4. ASSUME NEW u \in Ops \ {t}, answers'[u] = answers[u] PROVE AnswerInv(u)'
  <2>1. pc[u] \in BeforeAnswer /\ op[u].obj \notin overtaken
            => Running(u) /\ op[u].obj \in Objects
    BY Facts DEF Running, BeforeAnswer
  <2>2. pc[u] \in BeforeAnswer /\ op[u].obj \notin overtaken
            => state'[op[u].obj] = state[op[u].obj]
    BY <1>1, <1>2, <2>1 DEF XInv, Alone, Running
  <2> QED BY <1>2, <1>3, <1>4, <2>2, AnswerFrame
<1>5. CASE ThreadLookup(t) \/ ThreadIncrease(t) \/ ThreadOperate(t)
           \/ ThreadAbort(t) \/ ThreadDecrease(t)
  <2>1. /\ answers' = answers /\ timed' = timed
        /\ \/ pc'[t] \in {"found", "begin"} /\ state' = state
              /\ pc[t] \in {"start", "found"}
           \/ pc'[t] \in {"abort", "end", "done"}
    BY <1>5, Facts DEF ThreadLookup, ThreadIncrease, ThreadOperate, ThreadAbort,
       ThreadDecrease, history, objectVars
  <2>2. AnswerInv(t)'
    BY <1>0, <1>2, <2>1 DEF AnswerInv, BeforeAnswer, Live
  <2> QED BY <1>3, <1>4, <2>1, <2>2 DEF AnsInv
<1>6. CASE ThreadBegin(t)
  <2>1. /\ answers' = answers /\ pc[t] = "begin" /\ pc'[t] = "waiting"
        /\ timed'[t] = (state[o] = "WAIT_FOR_ACTIVATION_TIME")
    BY <1>1, <1>6, Facts, AnswerFacts DEF ThreadBegin, history
  <2>2. AnswerInv(t)'
    BY <1>0, <1>1, <1>2, <2>1 DEF AnswerInv, BeforeAnswer, Live
  <2> QED BY <1>3, <1>4, <2>1, <2>2 DEF AnsInv
<1>7. ASSUME NEW ok \in BOOLEAN, ThreadExecute(t, ok) PROVE AnsInv'
  <2>1. /\ pc[t] = "waiting" /\ pc'[t] \in {"operate", "end"}
        /\ IF timed[t] THEN UNCHANGED answers ELSE SendWriteResponse(o)
    BY <1>1, <1>7, Facts DEF ThreadExecute, Responds
  <2>2. CASE o \in overtaken
    <3>1. \A u \in Ops : \/ answers'[u] = answers[u]
                         \/ op[u].obj = o /\ pc[u] # "none"
      BY <2>1, AnswerFacts DEF SendWriteResponse, AnsInv, InvokeInv
    <3>2. ASSUME NEW u \in Ops PROVE AnswerInv(u)'
      <4>1. CASE u = t
        BY <1>1, <1>2, <2>2, <4>1 DEF AnswerInv
      <4>2. CASE u # t /\ op[u].obj = o /\ pc[u] # "none"
        BY <1>2, <2>2, <4>2 DEF AnswerInv
      <4>3. CASE u # t /\ answers'[u] = answers[u]
        BY <1>4, <4>3
      <4> QED BY <3>1, <4>1, <4>2, <4>3
    <3> QED BY <1>3, <3>2 DEF AnsInv
  <2>3. CASE o \notin overtaken
    <3>1. answers[t] = <<>> /\ (timed[t] <=> op[t].asker = 0)
      BY <1>0, <1>1, <2>1, <2>3 DEF AnswerInv, BeforeAnswer
    <3>2. /\ \A u \in Ops \ {t} : answers'[u] = answers[u]
          /\ answers'[t] \in {<<>>, <<op[t].asker>>}
      <4>1. CASE timed[t]
        BY <2>1, <3>1, <4>1
      <4>2. CASE ~timed[t]
        <5>1. /\ op[t].asker \in Conns /\ Live(op[t].asker)
              /\ operateInvokeId[o] = t /\ t # 0
              /\ clientConnection[o] = ccHandle[op[t].asker]
          BY <1>0, <1>1, <2>1, <2>3, <3>1, <4>2, AnswerFacts
             DEF AnswerInv, BeforeAnswer, Ops
        <5>2. Receiver(clientConnection[o]) = op[t].asker
          BY <5>1, ReceiverKnown
        <5>3. answers' = [answers EXCEPT ![t] = Append(@, op[t].asker)]
          BY <2>1, <4>2, <5>1, <5>2 DEF SendWriteResponse
        <5>4. answers'[t] = Append(answers[t], op[t].asker)
          BY <5>3, AnswerFacts
        <5>5. Append(<<>>, op[t].asker) = <<op[t].asker>>
          OBVIOUS
        <5> QED BY <3>1, <5>3, <5>4, <5>5, AnswerFacts
      <4> QED BY <4>1, <4>2
    <3>3. AnswerInv(t)'
      BY <1>2, <2>1, <3>2 DEF AnswerInv, BeforeAnswer
    <3> QED BY <1>3, <1>4, <3>2, <3>3 DEF AnsInv
  <2> QED BY <2>2, <2>3
<1> QED BY <1>5, <1>6, <1>7 DEF ThreadStep

\* Without cancel and disconnect, an Oper request whose answer is left to the
\* operate thread is answered at most once, and to the client that sent it,
\* unless the worker overtook the handler that armed a command of the object.
THEOREM AnsweredAtMostOnce ==
    Undisturbed => (Spec => []AnsweredOnce)
<1> SUFFICES ASSUME Undisturbed PROVE Spec => []AnsweredOnce
  OBVIOUS
<1> DEFINE All == IInv /\ XInv /\ SelInv /\ AnsInv
<1>1. Init => All
  BY InitIInv, InitXInv, InitSelInv, InitAnsInv
<1>2. All /\ [Next]_vars => All'
  <2> SUFFICES ASSUME All, [Next]_vars PROVE AnsInv'
    BY NextIInv, NextXInv, NextSelInv DEF SelectionsEnd, Undisturbed
  <2>1. CASE UNCHANGED vars
    <3>1. UNCHANGED <<ccState, ccHandle, op, pc, timed, answers, state,
                      operateInvokeId, clientConnection, overtaken>>
      BY <2>1 DEF vars, objectVars, connVars, opVars, history
    <3>2. \A i \in Conns : Live(i) => Live(i)' /\ ccHandle'[i] = ccHandle[i]
      BY <3>1 DEF Live
    <3>3. ASSUME NEW t \in Ops PROVE AnswerInv(t)'
      BY <3>1, <3>2, AnswerFrame
    <3> QED BY <3>1, <3>3, InvokeFrame DEF AnsInv
  <2> QED BY <2>1, RequestStepAnsInv, WorkerStepAnsInv, ThreadStepAnsInv DEF Next
<1>3. AnsInv => AnsweredOnce
  BY DEF AnsInv, AnswerInv, AnsweredOnce
<1> QED BY <1>1, <1>2, <1>3, PTL DEF Spec
=============================================================================
