------------------------------ MODULE MmsClient ------------------------------
(***************************************************************************)
(* The client side of an MMS connection: MmsConnection                     *)
(* (mms_client_connection.c) over IsoClientConnection                      *)
(* (iso_client_connection.c).                                              *)
(*                                                                         *)
(* Callers send requests and poll responseInvokeId; one receive thread     *)
(* reads messages into the only receive buffer and announces the answers.  *)
(* receiveBufferMutex counts the messages that may be read.  What runs     *)
(* under one of the locks of the connection is one step.                   *)
(*                                                                         *)
(* The server is external: it answers requests in any order, sends         *)
(* reports, and closes the connection.  A request that the server answers  *)
(* at once times out only when the client is stuck; MaxLate more time-outs *)
(* happen at any moment, because the answer was late.                      *)
(***************************************************************************)
EXTENDS Integers, FiniteSets

CONSTANTS Callers, Main,     \* threads; Main connects, concludes and destroys
          Slots,             \* OUTSTANDING_CALLS
          Associations,      \* answers to the association request
          Answers,           \* answers to a request
          ConcludeAnswers,   \* answers to a conclude request
          CloseEarly,        \* the server may close before connect has returned
          MaxCalls, MaxReports, MaxLate,   \* bounds
          MaxIrregularCalls  \* bound: calls in all, once one was late or rejected

ASSUME CallersAssumption ==
  /\ Main \in Callers /\ IsFiniteSet(Callers)
  /\ Associations \subseteq {"accepted", "refused", "other"}
  /\ Answers \subseteq {"response", "error", "reject"}
  /\ ConcludeAnswers \subseteq {"accepted", "rejected"}
  /\ CloseEarly \in BOOLEAN
  /\ Slots \in Nat /\ MaxCalls \in Nat /\ MaxReports \in Nat /\ MaxLate \in Nat
  /\ MaxIrregularCalls \in 0 .. MaxCalls

VARIABLES
  connectionState,   \* MMS_CON_IDLE, WAITING, ASSOCIATED, ASSOCIATION_FAILED
  associationState,  \* MMS_STATE_CLOSED, CONNECTED
  concludeState,
  lastInvokeId,
  outstandingCalls,  \* the table, as a set
  responseInvokeId, lastResponseError,
  receiveBuffer,     \* the message in it
  released,          \* receiveBufferMutex
  receiver,          \* receive thread: program counter
  pc,                \* callers: program counters
  call,              \* callers: the invoke id of the call
  found,             \* callers: the poll loop found the answer
  result,            \* callers: what the call returned
  link,              \* TCP connection
  asked,             \* invoke ids of requests the server has not answered
  concluding,        \* the server has a conclude request to answer
  fate,              \* what the server answered, for each invoke id
  reports, late,     \* how many so far
  lost               \* calls that timed out although they had been answered

states == <<connectionState, associationState, concludeState>>
response == <<responseInvokeId, lastResponseError>>
callers == <<pc, call, found, result>>
server == <<link, asked, concluding, fate, reports>>
vars == <<states, lastInvokeId, outstandingCalls, response, receiveBuffer, released, receiver,
          callers, server, late, lost>>

Ids == 1 .. MaxCalls

(* As long as no answer has been late or a reject, and the server has not  *)
(* refused to conclude: a late answer is taken for that of the next call   *)
(* or lost with it, a reject is never released, and a refusal releases the *)
(* receive buffer once too often (README, section 6).                      *)
Regular == late = 0 /\ concludeState # "rejected" /\ \A i \in Ids : fate[i] # "reject"
Message(k, i) == [kind |-> k, id |-> i]

Init ==
  /\ connectionState = "idle" /\ associationState = "closed" /\ concludeState = "active"
  /\ lastInvokeId = 0 /\ outstandingCalls = {}
  /\ responseInvokeId = 0 /\ lastResponseError = "none"
  /\ receiveBuffer = Message("none", 0) /\ released = 1
  /\ receiver = "none"
  /\ pc = [c \in Callers |-> "new"]
  /\ call = [c \in Callers |-> 0]
  /\ found = [c \in Callers |-> FALSE]
  /\ result = [c \in Callers |-> "none"]
  /\ link = "none" /\ asked = {} /\ concluding = FALSE
  /\ fate = [i \in Ids |-> "none"]
  /\ reports = 0 /\ late = 0 /\ lost = {}

Goto(c, l) == pc' = [pc EXCEPT ![c] = l]

(***************************************************************************)
(* Connecting                                                              *)
(***************************************************************************)
(* MmsConnection_connect up to the end of waitForConnectResponse.  A       *)
(* message other than the initiate response leaves connectionState and the *)
(* buffer as they are; the receive thread is started all the same.         *)
Associate(a) ==
  /\ pc[Main] = "new"
  /\ connectionState' = CASE a = "accepted" -> "associated"
                          [] a = "refused" -> "failed"
                          [] a = "other" -> "waiting"
  /\ IF a = "refused"
       THEN link' = "down" /\ UNCHANGED <<released, receiver>>
       ELSE link' = "up" /\ released' = released - 1 /\ receiver' = "wait"
  /\ Goto(Main, "initiated")
  /\ UNCHANGED <<associationState, concludeState, lastInvokeId, outstandingCalls, response,
                 receiveBuffer, call, found, result, asked, concluding, fate, reports, late, lost>>

(* Mutant: the error of a call is left for the next one.                   *)
ReleaseResponseOnly ==
  /\ responseInvokeId' = 0 /\ UNCHANGED lastResponseError
  /\ released' = released + 1

(* releaseResponse *)
ReleaseResponse ==
  /\ responseInvokeId' = 0 /\ lastResponseError' = "none"
  /\ released' = released + 1

AcceptInitiate ==
  /\ pc[Main] = "initiated" /\ connectionState = "associated"
  /\ ReleaseResponse
  /\ Goto(Main, "accepted")
  /\ UNCHANGED <<states, lastInvokeId, outstandingCalls, receiveBuffer, receiver, call, found,
                 result, server, late, lost>>

(* The end of MmsConnection_connect: other threads may call now.           *)
Connected ==
  /\ pc[Main] = "accepted"
  /\ associationState' = "connected" /\ connectionState' = "idle"
  /\ pc' = [c \in Callers |-> "idle"]
  /\ UNCHANGED <<concludeState, lastInvokeId, outstandingCalls, response, receiveBuffer, released,
                 receiver, call, found, result, server, late, lost>>

ConnectFails ==
  /\ pc[Main] = "initiated" /\ connectionState # "associated"
  /\ associationState' = "closed" /\ connectionState' = "idle"
  /\ Goto(Main, "failed")
  /\ UNCHANGED <<concludeState, lastInvokeId, outstandingCalls, response, receiveBuffer, released,
                 receiver, call, found, result, server, late, lost>>

(***************************************************************************)
(* Confirmed services: all have the shape of MmsConnection_readVariable    *)
(***************************************************************************)
(* Mutant: the last slot is never used.                                    *)
AddedBelowLast(i) ==
  IF Cardinality(outstandingCalls) < Slots - 1 THEN outstandingCalls \cup {i}
  ELSE outstandingCalls

(* addToOutstandingCalls: without a free slot the call is not recorded.    *)
AddedToOutstandingCalls(i) ==
  IF Cardinality(outstandingCalls) < Slots THEN outstandingCalls \cup {i} ELSE outstandingCalls

(* From getNextInvokeId to IsoClientConnection_sendMessage.  Nobody calls  *)
(* a connection that is being concluded or destroyed.                      *)
SendRequest(c) ==
  /\ pc[c] = "idle" /\ pc[Main] \in {"idle", "poll", "evaluate", "release"}
  /\ lastInvokeId < IF Regular THEN MaxCalls ELSE MaxIrregularCalls
  /\ lastInvokeId' = lastInvokeId + 1
  /\ outstandingCalls' = AddedToOutstandingCalls(lastInvokeId + 1)
  /\ asked' = IF link = "up" THEN asked \cup {lastInvokeId + 1} ELSE asked
  /\ call' = [call EXCEPT ![c] = lastInvokeId + 1]
  /\ found' = [found EXCEPT ![c] = FALSE]
  /\ result' = [result EXCEPT ![c] = "none"]
  /\ Goto(c, "poll")
  /\ UNCHANGED <<states, response, receiveBuffer, released, receiver, link, concluding, fate,
                 reports, late, lost>>

(* The poll loop of sendRequestAndWaitForResponse ends in one of three     *)
(* ways.                                                                   *)
LeaveLoop(c) ==
  /\ pc[c] = "poll"
  /\ outstandingCalls' = outstandingCalls \ {call[c]}
  /\ Goto(c, "evaluate")
  /\ UNCHANGED <<states, lastInvokeId, responseInvokeId, receiveBuffer, released, receiver, call,
                 result, server>>

PollLost(c) ==
  /\ associationState = "closed"
  /\ LeaveLoop(c)
  /\ UNCHANGED <<lastResponseError, found, late, lost>>

PollFound(c) ==
  /\ associationState # "closed" /\ responseInvokeId = call[c]
  /\ LeaveLoop(c)
  /\ found' = [found EXCEPT ![c] = TRUE]
  /\ UNCHANGED <<lastResponseError, late, lost>>

(* Some thread of the client, or the server, is about to do something.     *)
Busy ==
  \/ receiver \in {"callback", "closed"}
  \/ receiver = "wait" /\ released > 0
  \/ receiver = "read" /\ (link = "down" \/ asked # {} \/ concluding)
  \/ receiver = "store" /\ responseInvokeId = 0
  \/ \E c \in Callers :
       \/ pc[c] = "evaluate" \/ pc[c] = "release"
       \/ pc[c] = "poll" /\ (associationState = "closed" \/ responseInvokeId = call[c])

TimeOut(c) ==
  /\ pc[c] = "poll"
  /\ \/ late < MaxLate /\ late' = late + 1 /\ UNCHANGED lost
     \/ /\ ~Busy /\ call[c] \notin asked
        /\ lost' = IF fate[call[c]] \in {"response", "error"} THEN lost \cup {call[c]} ELSE lost
        /\ UNCHANGED late
  /\ LeaveLoop(c)
  /\ lastResponseError' = "timeout"
  /\ UNCHANGED found

(* The result of the service, parsed from the receive buffer.              *)
Evaluate(c) ==
  /\ pc[c] = "evaluate"
  /\ result' = [result EXCEPT ![c] =
       IF lastResponseError # "none" THEN lastResponseError
       ELSE IF ~found[c] THEN "none"
       ELSE IF receiveBuffer = Message("response", call[c]) THEN "value" ELSE "wrong"]
  /\ Goto(c, "release")
  /\ UNCHANGED <<states, lastInvokeId, outstandingCalls, response, receiveBuffer, released,
                 receiver, call, found, server, late, lost>>

(* releaseResponse, then the test of associationState.                     *)
Finish(c) ==
  /\ pc[c] = "release"
  /\ ReleaseResponse
  /\ result' = [result EXCEPT ![c] = IF associationState = "closed" THEN "lost" ELSE @]
  /\ Goto(c, "idle")
  /\ UNCHANGED <<states, lastInvokeId, outstandingCalls, receiveBuffer, receiver, call, found,
                 server, late, lost>>

(***************************************************************************)
(* The receive thread: connectionHandlingThread and mmsIsoCallback         *)
(***************************************************************************)
WaitForBuffer ==
  /\ receiver = "wait" /\ released > 0
  /\ released' = released - 1
  /\ receiver' = "read"
  /\ UNCHANGED <<states, lastInvokeId, outstandingCalls, response, receiveBuffer, callers, server,
                 late, lost>>

Read(m) ==
  /\ receiver = "read" /\ link = "up"
  /\ receiveBuffer' = m
  /\ receiver' = "callback"
  /\ UNCHANGED <<states, lastInvokeId, outstandingCalls, response, released, callers, link, late,
                 lost>>

ReadAnswer(i, k) ==
  /\ i \in asked
  /\ Read(Message(k, i))
  /\ asked' = asked \ {i}
  /\ fate' = [fate EXCEPT ![i] = k]
  /\ UNCHANGED <<concluding, reports>>

ReadReport ==
  /\ reports < MaxReports
  /\ Read(Message("report", 0))
  /\ reports' = reports + 1
  /\ UNCHANGED <<asked, concluding, fate>>

ReadConclude(k) ==
  /\ concluding
  /\ Read(Message(k, 0))
  /\ concluding' = FALSE
  /\ UNCHANGED <<asked, fate, reports>>

ReadFails ==
  /\ receiver = "read" /\ link = "down"
  /\ receiver' = "closed"
  /\ UNCHANGED <<states, lastInvokeId, outstandingCalls, response, receiveBuffer, released,
                 callers, server, late, lost>>

Returned(r, n) ==
  /\ receiver' = r /\ released' = n
  /\ UNCHANGED <<connectionState, associationState, lastInvokeId, outstandingCalls, receiveBuffer,
                 callers, server, late, lost>>

(* checkForOutstandingCall: answers that nobody waits for are dropped.     *)
CallbackAnswer ==
  /\ receiver = "callback" /\ receiveBuffer.kind \in {"response", "error"}
  /\ IF receiveBuffer.id \in outstandingCalls
       THEN Returned("store", released)
       ELSE Returned("wait", released + 1)
  /\ UNCHANGED <<concludeState, response>>

(* waitUntilLastResponseHasBeenProcessed, then the answer is announced.    *)
StoreResponse ==
  /\ receiver = "store" /\ responseInvokeId = 0
  /\ responseInvokeId' = receiveBuffer.id
  /\ lastResponseError' = IF receiveBuffer.kind = "error" THEN "service" ELSE lastResponseError
  /\ Returned("wait", released)
  /\ UNCHANGED concludeState

(* Mutant: the buffer of a report is not released.                         *)
CallbackKeeps ==
  /\ receiver = "callback" /\ receiveBuffer.kind \notin {"response", "error"}
  /\ Returned("wait", released)
  /\ concludeState' = IF receiveBuffer.kind \in {"accepted", "rejected"} THEN receiveBuffer.kind
                      ELSE concludeState
  /\ UNCHANGED response

(* Reports and answers to a conclude request release the buffer, a reject  *)
(* does not.  After an accepted conclude IsoClientConnection_release sends *)
(* a finish request, which the server answers by closing.                  *)
CallbackOther ==
  /\ receiver = "callback" /\ receiveBuffer.kind \notin {"response", "error"}
  /\ Returned("wait", IF receiveBuffer.kind = "reject" THEN released ELSE released + 1)
  /\ concludeState' = IF receiveBuffer.kind \in {"accepted", "rejected"} THEN receiveBuffer.kind
                      ELSE concludeState
  /\ UNCHANGED response

(* ISO_IND_CLOSED *)
CallbackClosed ==
  /\ receiver = "closed"
  /\ connectionState' = "idle" /\ associationState' = "closed"
  /\ receiver' = "ended"
  /\ UNCHANGED <<concludeState, lastInvokeId, outstandingCalls, response, receiveBuffer, released,
                 callers, server, late, lost>>

(***************************************************************************)
(* Concluding and destroying                                               *)
(***************************************************************************)
Idle == \A c \in Callers : pc[c] = "idle"

(* sendConcludeRequestAndWaitForResponse *)
SendConclude ==
  /\ Idle /\ ConcludeAnswers # {} /\ concludeState = "active"
  /\ concludeState' = "requested"
  /\ concluding' = (link = "up")
  /\ Goto(Main, "conclude")
  /\ UNCHANGED <<connectionState, associationState, lastInvokeId, outstandingCalls, response,
                 receiveBuffer, released, receiver, call, found, result, link, asked, fate,
                 reports, late, lost>>

(* The end of MmsConnection_conclude, with its releaseResponse.            *)
Concluded ==
  /\ pc[Main] = "conclude"
  /\ associationState = "closed" \/ concludeState # "requested"
  /\ ReleaseResponse
  /\ Goto(Main, IF concludeState = "rejected" /\ associationState # "closed" THEN "idle" ELSE "failed")
  /\ UNCHANGED <<states, lastInvokeId, outstandingCalls, receiveBuffer, receiver, call, found,
                 result, server, late, lost>>

(* The conclude request times out: lastResponseError is set, read and      *)
(* cleared.                                                                *)
ConcludeTimesOut ==
  /\ pc[Main] = "conclude" /\ late < MaxLate
  /\ associationState # "closed" /\ concludeState = "requested"
  /\ late' = late + 1
  /\ ReleaseResponse
  /\ Goto(Main, "idle")
  /\ UNCHANGED <<states, lastInvokeId, outstandingCalls, receiveBuffer, receiver, call, found,
                 result, server, lost>>

(* MmsConnection_destroy closes the socket and joins the receive thread.   *)
Destroy ==
  /\ Idle \/ pc[Main] = "failed"
  /\ link' = "down"
  /\ Goto(Main, "join")
  /\ UNCHANGED <<states, lastInvokeId, outstandingCalls, response, receiveBuffer, released,
                 receiver, call, found, result, asked, concluding, fate, reports, late, lost>>

Join ==
  /\ pc[Main] = "join" /\ receiver \in {"none", "ended"}
  /\ Goto(Main, "destroyed")
  /\ UNCHANGED <<states, lastInvokeId, outstandingCalls, response, receiveBuffer, released,
                 receiver, call, found, result, server, late, lost>>

(* The server closes the connection, or the network fails.                 *)
ServerCloses ==
  /\ link = "up" /\ (CloseEarly \/ pc[Main] \notin {"initiated", "accepted"})
  /\ link' = "down" /\ asked' = {} /\ concluding' = FALSE
  /\ UNCHANGED <<states, lastInvokeId, outstandingCalls, response, receiveBuffer, released,
                 receiver, callers, fate, reports, late, lost>>

Receiver ==
  \/ WaitForBuffer \/ ReadReport \/ ReadFails
  \/ \E i \in Ids, k \in Answers : ReadAnswer(i, k)
  \/ \E k \in ConcludeAnswers : ReadConclude(k)
  \/ CallbackAnswer \/ StoreResponse \/ CallbackOther \/ CallbackClosed

Returns(c) == PollLost(c) \/ PollFound(c) \/ Evaluate(c) \/ Finish(c)

Connecting == (\E a \in Associations : Associate(a)) \/ AcceptInitiate \/ Connected \/ ConnectFails

Next ==
  \/ Connecting \/ Receiver
  \/ \E c \in Callers : SendRequest(c) \/ TimeOut(c) \/ Returns(c)
  \/ SendConclude \/ Concluded \/ ConcludeTimesOut \/ Destroy \/ Join \/ ServerCloses

Spec == Init /\ [][Next]_vars

(* The receive thread and the callers run, and the server answers.  No     *)
(* time-out is promised: a call must not depend on it.                     *)
Fairness ==
  /\ WF_vars(Connecting) /\ WF_vars(Receiver)
  /\ \A c \in Callers : WF_vars(Returns(c))
  /\ WF_vars(Concluded) /\ WF_vars(Join)

FairSpec == Spec /\ Fairness

TypeOK ==
  /\ connectionState \in {"idle", "waiting", "associated", "failed"}
  /\ associationState \in {"closed", "connected"}
  /\ concludeState \in {"active", "requested", "rejected", "accepted"}
  /\ lastInvokeId \in 0 .. MaxCalls
  /\ outstandingCalls \subseteq Ids /\ Cardinality(outstandingCalls) <= Slots
  /\ responseInvokeId \in 0 .. MaxCalls
  /\ lastResponseError \in {"none", "service", "timeout"}
  /\ receiveBuffer \in [kind : {"none", "report"} \cup Answers \cup ConcludeAnswers,
                        id : 0 .. MaxCalls]
  /\ released \in Nat
  /\ receiver \in {"none", "wait", "read", "callback", "store", "closed", "ended"}
  /\ pc \in [Callers -> {"new", "initiated", "accepted", "failed", "idle", "poll", "evaluate",
                         "release", "conclude", "join", "destroyed"}]
  /\ call \in [Callers -> 0 .. MaxCalls] /\ found \in [Callers -> BOOLEAN]
  /\ result \in [Callers -> {"none", "value", "wrong", "service", "timeout", "lost"}]
  /\ link \in {"none", "up", "down"} /\ asked \subseteq Ids /\ concluding \in BOOLEAN
  /\ fate \in [Ids -> {"none"} \cup Answers]
  /\ reports \in 0 .. MaxReports /\ late \in 0 .. MaxLate /\ lost \subseteq Ids

(***************************************************************************)
(* Properties                                                              *)
(***************************************************************************)
(* A call returns what the server answered to that very call: a value for  *)
(* a response, a service error for an error (responseInvokeId,             *)
(* lastResponseError and the receive buffer are shared by all callers).    *)
ResultIsOwn ==
  Regular => \A c \in Callers : pc[c] = "idle" /\ call[c] # 0 =>
    /\ result[c] # "wrong"
    /\ result[c] = "value" => fate[call[c]] = "response"
    /\ result[c] = "service" => fate[call[c]] = "error"

(* No call times out after its answer has been received and when it is     *)
(* only the client that keeps it waiting; at all times the table of        *)
(* outstanding calls holds the calls that wait and no other, calls that    *)
(* time out or lose the connection give their slots back.                  *)
NoAnswerLost ==
  /\ Regular => lost = {}
  /\ outstandingCalls = {call[c] : c \in {d \in Callers : pc[d] = "poll"}}

(* Every call leaves its poll loop without the help of a time-out, because *)
(* the server answers or the loss of the connection is noticed, and        *)
(* MmsConnection_destroy returns: the receive thread it joins ends.        *)
CallsReturn ==
  /\ \A c \in Callers : pc[c] = "poll" ~> pc[c] # "poll" \/ ~Regular
  /\ pc[Main] = "join" ~> pc[Main] = "destroyed" \/ ~Regular
=============================================================================
