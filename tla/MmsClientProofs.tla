--------------------------- MODULE MmsClientProofs ---------------------------
(***************************************************************************)
(* Theorems about MmsClient for any number of callers, as long as the      *)
(* table of outstanding calls has a slot for each: a call returns the      *)
(* answer to that very call, and no answer is lost in the client.          *)
(***************************************************************************)
EXTENDS MmsClient, FiniteSetTheorems, TLAPS

InCall == {"poll", "evaluate", "release"}
Leaving == {"evaluate", "release"}
Pollers == {c \in Callers : pc[c] = "poll"}

(* Main alone connects, and alone concludes and destroys.                  *)
PhaseInv ==
  /\ \A c \in Callers \ {Main} : pc[c] \in {"new", "idle"} \cup InCall
  /\ pc[Main] \in {"new", "initiated", "accepted"} =>
       /\ lastInvokeId = 0 /\ responseInvokeId = 0 /\ lastResponseError = "none"
       /\ receiver # "store" /\ \A c \in Callers \ {Main} : pc[c] = "new"
  /\ pc[Main] \notin {"idle"} \cup InCall => \A c \in Callers \ {Main} : pc[c] \in {"new", "idle"}
  /\ pc[Main] = "new" => released = 1 /\ receiver = "none"
  /\ pc[Main] = "initiated" /\ connectionState = "associated" =>
       released = 0 /\ receiver = "wait" /\ link # "none"
  /\ receiver \in {"closed", "ended"} => link = "down"

(* Invoke ids are used once; requests not yet answered have no fate.       *)
IdInv ==
  /\ \A c \in Callers : call[c] <= lastInvokeId
  /\ \A c \in Callers : pc[c] \in InCall => call[c] # 0
  /\ \A c, d \in Callers : call[c] = call[d] /\ call[c] # 0 => c = d
  /\ \A i \in asked : i <= lastInvokeId /\ fate[i] = "none"
  /\ \A i \in Ids : i > lastInvokeId => fate[i] = "none"
  /\ receiver = "callback" /\ receiveBuffer.kind = "reject" =>
       receiveBuffer.id \in Ids /\ fate[receiveBuffer.id] = "reject"

ConcludeInv ==
  /\ concluding => concludeState = "requested"
  /\ receiver = "callback" /\ receiveBuffer.kind \in {"accepted", "rejected"} =>
       ~concluding /\ concludeState = "requested"
  /\ Regular /\ pc[Main] \in {"new", "initiated", "accepted", "idle"} \cup InCall =>
       concludeState = "active"

TableInv == outstandingCalls = {call[c] : c \in Pollers}

(* A connection that callers use, and that is not known to be lost.        *)
Usable ==
  /\ pc[Main] \in {"accepted", "idle"} \cup InCall
  /\ pc[Main] = "accepted" \/ associationState = "connected"

(* The receive buffer is free, or the receive thread owns it, ...          *)
NotAnnounced ==
  /\ \/ receiver = "wait" /\ released = 1
     \/ receiver \in {"read", "callback", "store", "closed"} /\ released = 0
  /\ responseInvokeId = 0 /\ lastResponseError = "none"
  /\ \A c \in Callers : pc[c] \notin Leaving

(* ... or the one caller whose answer it holds owns it until releaseResponse. *)
Announced ==
  /\ receiver = "wait" /\ released = 0
  /\ \E e \in Callers :
       /\ call[e] = responseInvokeId
       /\ pc[e] = "poll" \/ (pc[e] \in Leaving /\ found[e])
       /\ \A c \in Callers \ {e} : pc[c] \notin Leaving
  /\ responseInvokeId \in Ids
  /\ receiveBuffer = Message(fate[responseInvokeId], responseInvokeId)
  /\ fate[responseInvokeId] \in {"response", "error"}
  /\ lastResponseError = IF fate[responseInvokeId] = "error" THEN "service" ELSE "none"

(* The receive thread had ended before MmsConnection_connect returned.     *)
Dead ==
  /\ receiver = "ended" /\ link = "down"
  /\ responseInvokeId = 0 /\ lastResponseError # "service"
  /\ \A i \in Ids : fate[i] = "none"
  /\ \A c \in Callers : pc[c] \in InCall => ~found[c]

HasAnswer == receiver \in {"callback", "store"} /\ receiveBuffer.kind \in {"response", "error"}

(* Every request is with the server, in the receive thread or announced,   *)
(* and its caller waits for it.                                            *)
PipeInv ==
  /\ asked \subseteq {call[c] : c \in Pollers}
  /\ receiver = "store" => HasAnswer
  /\ HasAnswer => receiveBuffer.id \in {call[c] : c \in Pollers}
                    /\ receiveBuffer.kind = fate[receiveBuffer.id]
  /\ \A c \in Pollers : \/ link = "down" \/ call[c] \in asked
                        \/ HasAnswer /\ receiveBuffer.id = call[c]
                        \/ responseInvokeId = call[c]

(* One of the three, at any time.                                          *)
Held == Dead \/ ((NotAnnounced \/ Announced) /\ PipeInv /\ link # "none")

BufferInv == Regular /\ Usable => Held

ResultOk(c) ==
  /\ result[c] # "wrong"
  /\ result[c] = "value" => fate[call[c]] = "response"
  /\ result[c] = "service" => fate[call[c]] = "error"

(* The result of a call that has returned, or that will be returned unless *)
(* the connection is lost first.                                           *)
Settled(c) ==
  \/ pc[c] = "idle" /\ call[c] # 0
  \/ pc[c] = "release" /\ associationState = "connected"

ResultsInv == Regular => \A c \in Callers : Settled(c) => ResultOk(c)

(* The inductive invariant.                                                *)
CInv ==
  /\ TypeOK /\ PhaseInv /\ IdInv /\ ConcludeInv /\ TableInv /\ BufferInv /\ ResultsInv
  /\ Regular => lost = {}

(* Proofs *)
(* OUTSTANDING_CALLS is no less than the number of threads that call.      *)
Roomy == Cardinality(Callers) <= Slots

(* The invoke ids of a finite set of callers.                              *)
LEMMA CallsFinite ==
  ASSUME NEW S, IsFiniteSet(S)
  PROVE  IsFiniteSet({call[c] : c \in S}) /\ Cardinality({call[c] : c \in S}) <= Cardinality(S)
<1> DEFINE img == {call[c] : c \in S}
           f == [c \in S |-> call[c]]
<1>1. f \in Surjection(S, img)
  BY DEF Surjection
<1> QED BY <1>1, FS_Surjection

(* The initial states satisfy the inductive invariant.                     *)
LEMMA InitCInv == Init => CInv
<1> SUFFICES ASSUME Init PROVE CInv
  OBVIOUS
<1>1. IsFiniteSet({}) /\ Cardinality({}) = 0
  BY FS_EmptySet
<1>2. receiveBuffer \in [kind : {"none", "report"} \cup Answers \cup ConcludeAnswers,
                         id : 0 .. MaxCalls]
  BY CallersAssumption DEF Init, Message
<1>3. TypeOK
  <2>1. /\ lastInvokeId \in 0 .. MaxCalls /\ responseInvokeId \in 0 .. MaxCalls
        /\ released \in Nat /\ reports \in 0 .. MaxReports /\ late \in 0 .. MaxLate
        /\ call \in [Callers -> 0 .. MaxCalls] /\ Cardinality(outstandingCalls) <= Slots
    BY <1>1, CallersAssumption DEF Init
  <2>2. /\ found \in [Callers -> BOOLEAN] /\ concluding \in BOOLEAN
        /\ fate \in [Ids -> {"none"} \cup Answers]
        /\ result \in [Callers -> {"none", "value", "wrong", "service", "timeout", "lost"}]
    BY DEF Init
  <2>3. pc \in [Callers -> {"new", "initiated", "accepted", "failed", "idle", "poll", "evaluate",
                            "release", "conclude", "join", "destroyed"}]
    BY DEF Init
  <2> QED BY <1>2, <2>1, <2>2, <2>3 DEF Init, TypeOK
<1>4. PhaseInv /\ IdInv /\ ConcludeInv
  BY CallersAssumption DEF Init, PhaseInv, IdInv, ConcludeInv, InCall, Ids
<1>5. TableInv /\ BufferInv /\ ResultsInv /\ lost = {}
  BY CallersAssumption DEF Init, TableInv, Pollers, BufferInv, Usable, ResultsInv, Settled, InCall
<1> QED BY <1>3, <1>4, <1>5 DEF CInv

(* There is a slot for a caller that is not in the table.                  *)
LEMMA TableGrows ==
  ASSUME Roomy, CInv, NEW x \in Callers, SendRequest(x)
  PROVE  TableInv' /\ outstandingCalls' \subseteq Ids /\ Cardinality(outstandingCalls') <= Slots
<1>1. IsFiniteSet(Callers) /\ Pollers \subseteq Callers \ {x}
  BY CallersAssumption DEF Pollers, SendRequest
<1>2. IsFiniteSet(Callers \ {x}) /\ Cardinality(Callers \ {x}) = Cardinality(Callers) - 1
  BY <1>1, FS_RemoveElement
<1>3. IsFiniteSet(Pollers) /\ Cardinality(Pollers) <= Cardinality(Callers \ {x})
  BY <1>1, <1>2, FS_Subset
<1>4. IsFiniteSet(outstandingCalls) /\ Cardinality(outstandingCalls) <= Cardinality(Pollers)
  BY <1>3, CallsFinite DEF CInv, TableInv
<1>5. Cardinality(outstandingCalls) < Slots
  <2>1. /\ Cardinality(Callers) \in Nat /\ Cardinality(Pollers) \in Nat
        /\ Cardinality(outstandingCalls) \in Nat
    BY <1>1, <1>3, <1>4, FS_CardinalityType
  <2> QED BY <2>1, <1>2, <1>3, <1>4, CallersAssumption DEF Roomy
<1>6. outstandingCalls' = outstandingCalls \cup {lastInvokeId + 1} /\ lastInvokeId + 1 \in Ids
  BY <1>5, CallersAssumption DEF SendRequest, AddedToOutstandingCalls, CInv, TypeOK, Ids, Regular
<1>7. Cardinality(outstandingCalls') <= Slots
  <2>1. Cardinality(outstandingCalls) \in Nat
    BY <1>4, FS_CardinalityType
  <2>2. Cardinality(outstandingCalls') \in {Cardinality(outstandingCalls), Cardinality(outstandingCalls) + 1}
    BY <1>4, <1>6, FS_AddElement
  <2> QED BY <1>5, <2>1, <2>2, CallersAssumption
<1>8. TableInv'
  <2>1. Pollers' = Pollers \cup {x} /\ call'[x] = lastInvokeId + 1
        /\ \A c \in Pollers : call'[c] = call[c]
    BY <1>1 DEF SendRequest, Goto, Pollers, CInv, TypeOK
  <2> QED BY <1>6, <2>1 DEF CInv, TableInv
<1> QED BY <1>6, <1>7, <1>8 DEF CInv, TypeOK

(* A call that leaves the poll loop gives its own slot back.               *)
LEMMA TableShrinks ==
  ASSUME CInv, NEW x \in Callers, LeaveLoop(x)
  PROVE  TableInv' /\ outstandingCalls' \subseteq Ids /\ Cardinality(outstandingCalls') <= Slots
<1>1. outstandingCalls' = outstandingCalls \ {call[x]} /\ pc[x] = "poll"
  BY DEF LeaveLoop
<1>2. IsFiniteSet(Pollers)
  BY CallersAssumption, FS_Subset DEF Pollers
<1>3. IsFiniteSet(outstandingCalls)
  BY <1>2, CallsFinite DEF CInv, TableInv
<1>4. Cardinality(outstandingCalls') <= Cardinality(outstandingCalls)
      /\ Cardinality(outstandingCalls') \in Nat /\ Cardinality(outstandingCalls) \in Nat
  BY <1>1, <1>3, FS_Subset, FS_CardinalityType
<1>5. Pollers' = Pollers \ {x} /\ call' = call
  BY <1>1 DEF LeaveLoop, Goto, Pollers, CInv, TypeOK
<1>6. \A c \in Pollers : call[c] = call[x] => c = x
  BY <1>1 DEF CInv, IdInv, Pollers, InCall
<1>7. TableInv'
  BY <1>1, <1>5, <1>6 DEF CInv, TableInv
<1> QED BY <1>1, <1>4, <1>7, CallersAssumption DEF CInv, TypeOK

(* A step that returns no result keeps the results there are: the fate of  *)
(* a request is decided once.                                              *)
LEMMA ResultsFrame ==
  ASSUME CInv, Regular' => Regular,
         \A c \in Callers : Settled(c)' => Settled(c) /\ call'[c] = call[c] /\ result'[c] = result[c],
         \A j \in Ids : fate'[j] # fate[j] => fate[j] = "none"
  PROVE  ResultsInv'
<1> SUFFICES ASSUME Regular', NEW c \in Callers, Settled(c)' PROVE ResultOk(c)'
  BY DEF ResultsInv
<1>1. ResultOk(c) /\ call'[c] = call[c] /\ result'[c] = result[c]
  BY DEF CInv, ResultsInv
<1>2. call[c] \in Ids
  BY CallersAssumption DEF CInv, TypeOK, Ids, IdInv, Settled, InCall
<1> QED BY <1>1, <1>2 DEF ResultOk

(* A call that waits without being with the server keeps some thread of    *)
(* the client busy, unless the receive thread was dead from the start.     *)
LEMMA WaitingIsBusy ==
  ASSUME CInv, Regular, NEW x \in Callers, pc[x] = "poll", ~Busy, call[x] \notin asked
  PROVE  Dead /\ Usable
<1> USE DEF CInv
<1>1. associationState = "connected"
  BY DEF Busy, TypeOK
<1>2. Usable
  BY <1>1, CallersAssumption DEF Usable, PhaseInv, InCall, TypeOK
<1>3. Held
  BY <1>2 DEF BufferInv
<1>4. ~(NotAnnounced /\ PipeInv /\ link # "none")
  <2> SUFFICES ASSUME NotAnnounced, PipeInv, link # "none" PROVE FALSE
    OBVIOUS
  <2>1. receiver = "read" /\ link = "up"
    BY DEF NotAnnounced, Busy, TypeOK
  <2>2. call[x] # 0 /\ responseInvokeId = 0
    BY DEF NotAnnounced, IdInv, InCall
  <2> QED BY <2>1, <2>2 DEF PipeInv, Pollers, HasAnswer
<1>5. ~Announced
  BY DEF Announced, Busy, Leaving
<1> QED BY <1>2, <1>3, <1>4, <1>5 DEF Held


(* MmsConnection_connect.                                                  *)
LEMMA ConnectingCInv ==
  ASSUME Roomy, CInv, Connecting
  PROVE  CInv'
<1> USE CallersAssumption DEF CInv, states, response, callers, server
<1>1. ASSUME NEW a \in Associations, Associate(a) PROVE CInv'
  <2>1. TypeOK'
    BY <1>1 DEF Associate, Goto, TypeOK, PhaseInv, Ids
  <2>2. PhaseInv'
    BY <1>1 DEF Associate, Goto, PhaseInv, TypeOK, InCall
  <2>3. IdInv'
    BY <1>1 DEF Associate, Goto, IdInv, TypeOK, PhaseInv, InCall, Ids
  <2>4. ConcludeInv'
    BY <1>1 DEF Associate, Goto, ConcludeInv, TypeOK, PhaseInv, Regular, InCall
  <2>5. Regular' => Regular
    BY <1>1 DEF Associate, Goto, Regular, IdInv, ConcludeInv, TypeOK
  <2>6. TableInv'
    BY <1>1 DEF Associate, Goto, TableInv, Pollers, IdInv, TypeOK, PhaseInv, InCall
  <2>7. ResultsInv'
    <3>1. \A c \in Callers : Settled(c)' => Settled(c) /\ call'[c] = call[c] /\ result'[c] = result[c]
      BY <1>1 DEF Associate, Goto, Settled, TypeOK, PhaseInv, IdInv, InCall
    <3>2. \A j \in Ids : fate'[j] # fate[j] => fate[j] = "none"
      BY <1>1 DEF Associate, Goto, TypeOK, IdInv
    <3> QED BY <2>5, <3>1, <3>2, ResultsFrame
  <2>8. BufferInv'
    <3> SUFFICES ASSUME Regular', Usable' PROVE Held'
      BY DEF BufferInv
    <3>1. Regular /\ Usable
      BY <1>1, <2>5 DEF Associate, Goto, Usable, InCall, TypeOK, PhaseInv
    <3>2. Held /\ concludeState = "active"
      BY <3>1 DEF BufferInv, ConcludeInv, Usable
    <3>3. CASE Dead
      BY <1>1, <3>1, <3>3 DEF Associate, Goto, Held, Dead, NotAnnounced, Announced, PipeInv,
                              HasAnswer, Leaving, Pollers, TypeOK, PhaseInv, IdInv, ConcludeInv,
                              InCall, Ids
    <3>4. CASE NotAnnounced /\ PipeInv /\ link # "none"
      BY <1>1, <3>1, <3>2, <3>4 DEF Associate, Goto, Held, Dead, NotAnnounced, Announced, PipeInv,
                                    HasAnswer, Leaving, Pollers, TypeOK, PhaseInv, IdInv,
                                    ConcludeInv, InCall, Ids
    <3>5. CASE Announced /\ PipeInv /\ link # "none"
      BY <1>1, <3>1, <3>2, <3>5 DEF Associate, Goto, Held, Dead, NotAnnounced, Announced, PipeInv,
                                    HasAnswer, Leaving, Pollers, TypeOK, PhaseInv, IdInv,
                                    ConcludeInv, InCall, Ids
    <3> QED BY <3>2, <3>3, <3>4, <3>5 DEF Held
  <2>9. Regular' => lost' = {}
    BY <1>1, <2>5 DEF Associate, Goto
  <2> QED BY <2>1, <2>2, <2>3, <2>4, <2>6, <2>7, <2>8, <2>9
<1>2. CASE AcceptInitiate
  <2>1. TypeOK'
    BY <1>2 DEF AcceptInitiate, ReleaseResponse, Goto, TypeOK, PhaseInv, Ids
  <2>2. PhaseInv'
    BY <1>2 DEF AcceptInitiate, ReleaseResponse, Goto, PhaseInv, TypeOK, InCall
  <2>3. IdInv'
    BY <1>2 DEF AcceptInitiate, ReleaseResponse, Goto, IdInv, TypeOK, PhaseInv, InCall, Ids
  <2>4. ConcludeInv'
    BY <1>2 DEF AcceptInitiate, ReleaseResponse, Goto, ConcludeInv, TypeOK, PhaseInv, Regular,
                InCall
  <2>5. Regular' => Regular
    BY <1>2 DEF AcceptInitiate, ReleaseResponse, Goto, Regular, IdInv, ConcludeInv, TypeOK
  <2>6. TableInv'
    BY <1>2 DEF AcceptInitiate, ReleaseResponse, Goto, TableInv, Pollers, IdInv, TypeOK, PhaseInv,
                InCall
  <2>7. ResultsInv'
    <3>1. \A c \in Callers : Settled(c)' => Settled(c) /\ call'[c] = call[c] /\ result'[c] = result[c]
      BY <1>2 DEF AcceptInitiate, ReleaseResponse, Goto, Settled, TypeOK, PhaseInv, IdInv, InCall
    <3>2. \A j \in Ids : fate'[j] # fate[j] => fate[j] = "none"
      BY <1>2 DEF AcceptInitiate, ReleaseResponse, Goto, TypeOK, IdInv
    <3> QED BY <2>5, <3>1, <3>2, ResultsFrame
  <2>8. BufferInv'
    <3>1. NotAnnounced'
      BY <1>2 DEF AcceptInitiate, ReleaseResponse, Goto, NotAnnounced, PhaseInv, Leaving, InCall, TypeOK
    <3>2. asked = {} /\ receiver' = "wait" /\ UNCHANGED link
      BY <1>2 DEF AcceptInitiate, PhaseInv, IdInv, TypeOK, Ids
    <3>3. Pollers' = {}
      BY <1>2 DEF AcceptInitiate, Goto, Pollers, PhaseInv, TypeOK
    <3>4. PipeInv' /\ link' # "none"
      BY <1>2, <3>2, <3>3 DEF AcceptInitiate, PipeInv, HasAnswer, PhaseInv
    <3> QED BY <3>1, <3>4 DEF BufferInv, Held
  <2>9. Regular' => lost' = {}
    BY <1>2, <2>5 DEF AcceptInitiate, ReleaseResponse, Goto
  <2> QED BY <2>1, <2>2, <2>3, <2>4, <2>6, <2>7, <2>8, <2>9
<1>3. CASE Connected
  <2>1. TypeOK'
    BY <1>3 DEF Connected, TypeOK, PhaseInv, Ids
  <2>2. PhaseInv'
    BY <1>3 DEF Connected, PhaseInv, TypeOK, InCall
  <2>3. IdInv'
    BY <1>3 DEF Connected, IdInv, TypeOK, PhaseInv, InCall, Ids
  <2>4. ConcludeInv'
    BY <1>3 DEF Connected, ConcludeInv, TypeOK, PhaseInv, Regular, InCall
  <2>5. Regular' => Regular
    BY <1>3 DEF Connected, Regular, IdInv, ConcludeInv, TypeOK
  <2>6. TableInv'
    BY <1>3 DEF Connected, TableInv, Pollers, IdInv, TypeOK, PhaseInv, InCall
  <2>7. ResultsInv'
    <3>1. \A c \in Callers : Settled(c)' => Settled(c) /\ call'[c] = call[c] /\ result'[c] = result[c]
      BY <1>3 DEF Connected, Settled, TypeOK, PhaseInv, IdInv, InCall
    <3>2. \A j \in Ids : fate'[j] # fate[j] => fate[j] = "none"
      BY <1>3 DEF Connected, TypeOK, IdInv
    <3> QED BY <2>5, <3>1, <3>2, ResultsFrame
  <2>8. BufferInv'
    <3> SUFFICES ASSUME Regular', Usable' PROVE Held'
      BY DEF BufferInv
    <3>1. Regular /\ Usable
      BY <1>3, <2>5 DEF Connected, Usable, InCall, TypeOK, PhaseInv
    <3>2. Held /\ concludeState = "active"
      BY <3>1 DEF BufferInv, ConcludeInv, Usable
    <3>3. CASE Dead
      BY <1>3, <3>1, <3>3 DEF Connected, Held, Dead, NotAnnounced, Announced, PipeInv, HasAnswer,
                              Leaving, Pollers, TypeOK, PhaseInv, IdInv, ConcludeInv, InCall, Ids
    <3>4. CASE NotAnnounced /\ PipeInv /\ link # "none"
      BY <1>3, <3>1, <3>2, <3>4 DEF Connected, Held, Dead, NotAnnounced, Announced, PipeInv,
                                    HasAnswer, Leaving, Pollers, TypeOK, PhaseInv, IdInv,
                                    ConcludeInv, InCall, Ids
    <3>5. CASE Announced /\ PipeInv /\ link # "none"
      BY <1>3, <3>1, <3>2, <3>5 DEF Connected, Held, Dead, NotAnnounced, Announced, PipeInv,
                                    HasAnswer, Leaving, Pollers, TypeOK, PhaseInv, IdInv,
                                    ConcludeInv, InCall, Ids
    <3> QED BY <3>2, <3>3, <3>4, <3>5 DEF Held
  <2>9. Regular' => lost' = {}
    BY <1>3, <2>5 DEF Connected
  <2> QED BY <2>1, <2>2, <2>3, <2>4, <2>6, <2>7, <2>8, <2>9
<1>4. CASE ConnectFails
  <2>1. TypeOK'
    BY <1>4 DEF ConnectFails, Goto, TypeOK, PhaseInv, Ids
  <2>2. PhaseInv'
    BY <1>4 DEF ConnectFails, Goto, PhaseInv, TypeOK, InCall
  <2>3. IdInv'
    BY <1>4 DEF ConnectFails, Goto, IdInv, TypeOK, PhaseInv, InCall, Ids
  <2>4. ConcludeInv'
    BY <1>4 DEF ConnectFails, Goto, ConcludeInv, TypeOK, PhaseInv, Regular, InCall
  <2>5. Regular' => Regular
    BY <1>4 DEF ConnectFails, Goto, Regular, IdInv, ConcludeInv, TypeOK
  <2>6. TableInv'
    BY <1>4 DEF ConnectFails, Goto, TableInv, Pollers, IdInv, TypeOK, PhaseInv, InCall
  <2>7. ResultsInv'
    <3>1. \A c \in Callers : Settled(c)' => Settled(c) /\ call'[c] = call[c] /\ result'[c] = result[c]
      BY <1>4 DEF ConnectFails, Goto, Settled, TypeOK, PhaseInv, IdInv, InCall
    <3>2. \A j \in Ids : fate'[j] # fate[j] => fate[j] = "none"
      BY <1>4 DEF ConnectFails, Goto, TypeOK, IdInv
    <3> QED BY <2>5, <3>1, <3>2, ResultsFrame
  <2>8. BufferInv'
    <3> SUFFICES ASSUME Regular', Usable' PROVE Held'
      BY DEF BufferInv
    <3>1. Regular /\ Usable
      BY <1>4, <2>5 DEF ConnectFails, Goto, Usable, InCall, TypeOK, PhaseInv
    <3>2. Held /\ concludeState = "active"
      BY <3>1 DEF BufferInv, ConcludeInv, Usable
    <3>3. CASE Dead
      BY <1>4, <3>1, <3>3 DEF ConnectFails, Goto, Held, Dead, NotAnnounced, Announced, PipeInv,
                              HasAnswer, Leaving, Pollers, TypeOK, PhaseInv, IdInv, ConcludeInv,
                              InCall, Ids
    <3>4. CASE NotAnnounced /\ PipeInv /\ link # "none"
      BY <1>4, <3>1, <3>2, <3>4 DEF ConnectFails, Goto, Held, Dead, NotAnnounced, Announced,
                                    PipeInv, HasAnswer, Leaving, Pollers, TypeOK, PhaseInv, IdInv,
                                    ConcludeInv, InCall, Ids
    <3>5. CASE Announced /\ PipeInv /\ link # "none"
      BY <1>4, <3>1, <3>2, <3>5 DEF ConnectFails, Goto, Held, Dead, NotAnnounced, Announced,
                                    PipeInv, HasAnswer, Leaving, Pollers, TypeOK, PhaseInv, IdInv,
                                    ConcludeInv, InCall, Ids
    <3> QED BY <3>2, <3>3, <3>4, <3>5 DEF Held
  <2>9. Regular' => lost' = {}
    BY <1>4, <2>5 DEF ConnectFails, Goto
  <2> QED BY <2>1, <2>2, <2>3, <2>4, <2>6, <2>7, <2>8, <2>9
<1> QED BY <1>1, <1>2, <1>3, <1>4 DEF Connecting

(* The steps of a call.                                                    *)
LEMMA CallingCInv ==
  ASSUME Roomy, CInv, \E c \in Callers : SendRequest(c) \/ TimeOut(c) \/ Returns(c)
  PROVE  CInv'
<1> USE CallersAssumption DEF CInv, states, response, callers, server
<1>1. ASSUME NEW x \in Callers, SendRequest(x) PROVE CInv'
  <2>1. TypeOK'
    <3>1. outstandingCalls' \subseteq Ids /\ Cardinality(outstandingCalls') <= Slots
      BY <1>1, TableGrows
    <3>2. lastInvokeId + 1 \in 1 .. MaxCalls
      BY <1>1 DEF SendRequest, TypeOK
    <3> QED BY <1>1, <3>1, <3>2 DEF SendRequest, Goto, TypeOK, Ids
  <2>2. PhaseInv'
    BY <1>1 DEF SendRequest, Goto, PhaseInv, TypeOK, InCall
  <2>3. IdInv'
    BY <1>1 DEF SendRequest, Goto, IdInv, TypeOK, PhaseInv, InCall, Ids
  <2>4. ConcludeInv'
    BY <1>1 DEF SendRequest, Goto, ConcludeInv, TypeOK, PhaseInv, Regular, InCall
  <2>5. Regular' => Regular
    BY <1>1 DEF SendRequest, Goto, Regular, IdInv, ConcludeInv, TypeOK
  <2>6. TableInv'
    BY <1>1, TableGrows
  <2>7. ResultsInv'
    <3>1. \A c \in Callers : Settled(c)' => Settled(c) /\ call'[c] = call[c] /\ result'[c] = result[c]
      BY <1>1 DEF SendRequest, Goto, Settled, TypeOK, PhaseInv, IdInv, InCall
    <3>2. \A j \in Ids : fate'[j] # fate[j] => fate[j] = "none"
      BY <1>1 DEF SendRequest, Goto, TypeOK, IdInv
    <3> QED BY <2>5, <3>1, <3>2, ResultsFrame
  <2>8. BufferInv'
    <3> SUFFICES ASSUME Regular', Usable' PROVE Held'
      BY DEF BufferInv
    <3>1. Regular /\ Usable
      BY <1>1, <2>5 DEF SendRequest, Goto, Usable, InCall, TypeOK, PhaseInv
    <3>2. Held /\ concludeState = "active"
      BY <3>1 DEF BufferInv, ConcludeInv, Usable
    <3>3. CASE Dead
      BY <1>1, <3>1, <3>3 DEF SendRequest, Goto, Held, Dead, NotAnnounced, Announced, PipeInv,
                              HasAnswer, Leaving, Pollers, TypeOK, PhaseInv, IdInv, ConcludeInv,
                              InCall, Ids
    <3>4. CASE NotAnnounced /\ PipeInv /\ link # "none"
      BY <1>1, <3>1, <3>2, <3>4 DEF SendRequest, Goto, Held, Dead, NotAnnounced, Announced,
                                    PipeInv, HasAnswer, Leaving, Pollers, TypeOK, PhaseInv, IdInv,
                                    ConcludeInv, InCall, Ids
    <3>5. CASE Announced /\ PipeInv /\ link # "none"
      BY <1>1, <3>1, <3>2, <3>5 DEF SendRequest, Goto, Held, Dead, NotAnnounced, Announced,
                                    PipeInv, HasAnswer, Leaving, Pollers, TypeOK, PhaseInv, IdInv,
                                    ConcludeInv, InCall, Ids
    <3> QED BY <3>2, <3>3, <3>4, <3>5 DEF Held
  <2>9. Regular' => lost' = {}
    BY <1>1, <2>5 DEF SendRequest, Goto
  <2> QED BY <2>1, <2>2, <2>3, <2>4, <2>6, <2>7, <2>8, <2>9
<1>2. ASSUME NEW x \in Callers, PollLost(x) PROVE CInv'
  <2>1. TypeOK'
    <3>1. outstandingCalls' \subseteq Ids /\ Cardinality(outstandingCalls') <= Slots
      BY <1>2, TableShrinks DEF PollLost
    <3> QED BY <1>2, <3>1 DEF PollLost, LeaveLoop, Goto, TypeOK
  <2>2. PhaseInv'
    BY <1>2 DEF PollLost, LeaveLoop, Goto, PhaseInv, TypeOK, InCall
  <2>3. IdInv'
    BY <1>2 DEF PollLost, LeaveLoop, Goto, IdInv, TypeOK, PhaseInv, InCall, Ids
  <2>4. ConcludeInv'
    BY <1>2 DEF PollLost, LeaveLoop, Goto, ConcludeInv, TypeOK, PhaseInv, Regular, InCall
  <2>5. Regular' => Regular
    BY <1>2 DEF PollLost, LeaveLoop, Goto, Regular, IdInv, ConcludeInv, TypeOK
  <2>6. TableInv'
    BY <1>2, TableShrinks DEF PollLost
  <2>7. ResultsInv'
    <3>1. \A c \in Callers : Settled(c)' => Settled(c) /\ call'[c] = call[c] /\ result'[c] = result[c]
      BY <1>2 DEF PollLost, LeaveLoop, Goto, Settled, TypeOK, PhaseInv, IdInv, InCall
    <3>2. \A j \in Ids : fate'[j] # fate[j] => fate[j] = "none"
      BY <1>2 DEF PollLost, LeaveLoop, Goto, TypeOK, IdInv
    <3> QED BY <2>5, <3>1, <3>2, ResultsFrame
  <2>8. BufferInv'
    <3>1. ~Usable'
      BY <1>2 DEF PollLost, LeaveLoop, Goto, Usable, PhaseInv, InCall, TypeOK
    <3> QED BY <3>1 DEF BufferInv
  <2>9. Regular' => lost' = {}
    BY <1>2, <2>5 DEF PollLost, LeaveLoop, Goto
  <2> QED BY <2>1, <2>2, <2>3, <2>4, <2>6, <2>7, <2>8, <2>9
<1>3. ASSUME NEW x \in Callers, PollFound(x) PROVE CInv'
  <2>1. TypeOK'
    <3>1. outstandingCalls' \subseteq Ids /\ Cardinality(outstandingCalls') <= Slots
      BY <1>3, TableShrinks DEF PollFound
    <3> QED BY <1>3, <3>1 DEF PollFound, LeaveLoop, Goto, TypeOK
  <2>2. PhaseInv'
    BY <1>3 DEF PollFound, LeaveLoop, Goto, PhaseInv, TypeOK, InCall
  <2>3. IdInv'
    BY <1>3 DEF PollFound, LeaveLoop, Goto, IdInv, TypeOK, PhaseInv, InCall, Ids
  <2>4. ConcludeInv'
    BY <1>3 DEF PollFound, LeaveLoop, Goto, ConcludeInv, TypeOK, PhaseInv, Regular, InCall
  <2>5. Regular' => Regular
    BY <1>3 DEF PollFound, LeaveLoop, Goto, Regular, IdInv, ConcludeInv, TypeOK
  <2>6. TableInv'
    BY <1>3, TableShrinks DEF PollFound
  <2>7. ResultsInv'
    <3>1. \A c \in Callers : Settled(c)' => Settled(c) /\ call'[c] = call[c] /\ result'[c] = result[c]
      BY <1>3 DEF PollFound, LeaveLoop, Goto, Settled, TypeOK, PhaseInv, IdInv, InCall
    <3>2. \A j \in Ids : fate'[j] # fate[j] => fate[j] = "none"
      BY <1>3 DEF PollFound, LeaveLoop, Goto, TypeOK, IdInv
    <3> QED BY <2>5, <3>1, <3>2, ResultsFrame
  <2>8. BufferInv'
    <3> SUFFICES ASSUME Regular', Usable' PROVE Held'
      BY DEF BufferInv
    <3>1. Regular /\ Usable
      BY <1>3, <2>5 DEF PollFound, LeaveLoop, Goto, Usable, InCall, TypeOK, PhaseInv
    <3>2. Held /\ concludeState = "active"
      BY <3>1 DEF BufferInv, ConcludeInv, Usable
    <3>3. ~Dead
      BY <1>3 DEF PollFound, LeaveLoop, Dead, IdInv, InCall
    <3>4. ~NotAnnounced
      BY <1>3 DEF PollFound, LeaveLoop, NotAnnounced, IdInv, InCall
    <3>5. CASE Announced /\ PipeInv /\ link # "none"
      BY <1>3, <3>1, <3>2, <3>5 DEF PollFound, LeaveLoop, Goto, Held, Dead, NotAnnounced,
                                    Announced, PipeInv, HasAnswer, Leaving, Pollers, TypeOK,
                                    PhaseInv, IdInv, ConcludeInv, InCall, Ids
    <3> QED BY <3>2, <3>3, <3>4, <3>5 DEF Held
  <2>9. Regular' => lost' = {}
    BY <1>3, <2>5 DEF PollFound, LeaveLoop, Goto
  <2> QED BY <2>1, <2>2, <2>3, <2>4, <2>6, <2>7, <2>8, <2>9
<1>4. ASSUME NEW x \in Callers, TimeOut(x) PROVE CInv'
  <2>1. TypeOK'
    <3>1. outstandingCalls' \subseteq Ids /\ Cardinality(outstandingCalls') <= Slots
      BY <1>4, TableShrinks DEF TimeOut
    <3>2. late' \in 0 .. MaxLate /\ lost' \subseteq Ids
      <4>1. late' \in 0 .. MaxLate
        BY <1>4 DEF TimeOut, TypeOK
      <4>2. call[x] \in Ids
        BY <1>4 DEF TimeOut, TypeOK, IdInv, InCall, Ids
      <4> QED BY <1>4, <4>1, <4>2 DEF TimeOut, TypeOK
    <3> QED BY <1>4, <3>1, <3>2 DEF TimeOut, LeaveLoop, Goto, TypeOK
  <2>2. PhaseInv'
    BY <1>4 DEF TimeOut, LeaveLoop, Goto, PhaseInv, TypeOK, InCall
  <2>3. IdInv'
    BY <1>4 DEF TimeOut, LeaveLoop, Goto, IdInv, TypeOK, PhaseInv, InCall, Ids
  <2>4. ConcludeInv'
    BY <1>4 DEF TimeOut, LeaveLoop, Goto, ConcludeInv, TypeOK, PhaseInv, Regular, InCall
  <2>5. Regular' => Regular
    BY <1>4 DEF TimeOut, LeaveLoop, Goto, Regular, IdInv, ConcludeInv, TypeOK
  <2>6. TableInv'
    BY <1>4, TableShrinks DEF TimeOut
  <2>7. ResultsInv'
    <3>1. \A c \in Callers : Settled(c)' => Settled(c) /\ call'[c] = call[c] /\ result'[c] = result[c]
      BY <1>4 DEF TimeOut, LeaveLoop, Goto, Settled, TypeOK, PhaseInv, IdInv, InCall
    <3>2. \A j \in Ids : fate'[j] # fate[j] => fate[j] = "none"
      BY <1>4 DEF TimeOut, LeaveLoop, Goto, TypeOK, IdInv
    <3> QED BY <2>5, <3>1, <3>2, ResultsFrame
  <2>8. BufferInv'
    <3> SUFFICES ASSUME Regular', Usable' PROVE Held'
      BY DEF BufferInv
    <3>1. ~Busy /\ call[x] \notin asked
      BY <1>4 DEF TimeOut, Regular, TypeOK
    <3>2. Dead
      BY <1>4, <2>5, <3>1, WaitingIsBusy DEF TimeOut
    <3>3. Dead'
      BY <1>4, <3>2 DEF TimeOut, LeaveLoop, Goto, Dead, InCall, TypeOK
    <3> QED BY <3>3 DEF Held
  <2>9. Regular' => lost' = {}
    <3> SUFFICES ASSUME Regular' PROVE lost' = {}
      OBVIOUS
    <3>1. ~Busy /\ call[x] \notin asked
      BY <1>4 DEF TimeOut, Regular, TypeOK
    <3>2. Dead
      BY <1>4, <2>5, <3>1, WaitingIsBusy DEF TimeOut
    <3>3. fate[call[x]] = "none"
      BY <1>4, <3>2 DEF TimeOut, Dead, IdInv, InCall, TypeOK, Ids
    <3> QED BY <1>4, <2>5, <3>1, <3>3 DEF TimeOut, Regular, TypeOK
  <2> QED BY <2>1, <2>2, <2>3, <2>4, <2>6, <2>7, <2>8, <2>9
<1>5. ASSUME NEW x \in Callers, Evaluate(x) PROVE CInv'
  <2>1. TypeOK'
    BY <1>5 DEF Evaluate, Goto, TypeOK, PhaseInv, Ids
  <2>2. PhaseInv'
    BY <1>5 DEF Evaluate, Goto, PhaseInv, TypeOK, InCall
  <2>3. IdInv'
    BY <1>5 DEF Evaluate, Goto, IdInv, TypeOK, PhaseInv, InCall, Ids
  <2>4. ConcludeInv'
    BY <1>5 DEF Evaluate, Goto, ConcludeInv, TypeOK, PhaseInv, Regular, InCall
  <2>5. Regular' => Regular
    BY <1>5 DEF Evaluate, Goto, Regular, IdInv, ConcludeInv, TypeOK
  <2>6. TableInv'
    BY <1>5 DEF Evaluate, Goto, TableInv, Pollers, IdInv, TypeOK, PhaseInv, InCall
  <2>7. ResultsInv'
    <3> SUFFICES ASSUME Regular', NEW c \in Callers, Settled(c)' PROVE ResultOk(c)'
      BY DEF ResultsInv
    <3>1. CASE c # x
      BY <1>5, <2>5, <3>1 DEF Evaluate, Goto, Settled, ResultsInv, ResultOk, TypeOK
    <3>2. CASE c = x
      <4>1. associationState = "connected" /\ pc[x] = "evaluate"
        BY <1>5, <3>2 DEF Evaluate, Goto, Settled, TypeOK
      <4>2. Usable
        BY <4>1 DEF Usable, PhaseInv, InCall, TypeOK
      <4>3. Dead \/ Announced
        BY <2>5, <4>1, <4>2 DEF BufferInv, Held, NotAnnounced, Leaving
      <4>4. CASE Dead
        BY <1>5, <3>2, <4>1, <4>4 DEF Evaluate, Dead, ResultOk, InCall, TypeOK
      <4>5. CASE Announced
        <5>1. call[x] = responseInvokeId /\ found[x]
          BY <4>1, <4>5 DEF Announced, Leaving
        <5> QED BY <1>5, <3>2, <4>1, <4>5, <5>1 DEF Evaluate, Announced, ResultOk, Message, TypeOK
      <4> QED BY <4>3, <4>4, <4>5
    <3> QED BY <3>1, <3>2
  <2>8. BufferInv'
    <3> SUFFICES ASSUME Regular', Usable' PROVE Held'
      BY DEF BufferInv
    <3>1. Regular /\ Usable
      BY <1>5, <2>5 DEF Evaluate, Goto, Usable, InCall, TypeOK, PhaseInv
    <3>2. Held /\ concludeState = "active"
      BY <3>1 DEF BufferInv, ConcludeInv, Usable
    <3>3. CASE Dead
      BY <1>5, <3>1, <3>3 DEF Evaluate, Goto, Held, Dead, NotAnnounced, Announced, PipeInv,
                              HasAnswer, Leaving, Pollers, TypeOK, PhaseInv, IdInv, ConcludeInv,
                              InCall, Ids
    <3>4. CASE NotAnnounced /\ PipeInv /\ link # "none"
      BY <1>5, <3>1, <3>2, <3>4 DEF Evaluate, Goto, Held, Dead, NotAnnounced, Announced, PipeInv,
                                    HasAnswer, Leaving, Pollers, TypeOK, PhaseInv, IdInv,
                                    ConcludeInv, InCall, Ids
    <3>5. CASE Announced /\ PipeInv /\ link # "none"
      BY <1>5, <3>1, <3>2, <3>5 DEF Evaluate, Goto, Held, Dead, NotAnnounced, Announced, PipeInv,
                                    HasAnswer, Leaving, Pollers, TypeOK, PhaseInv, IdInv,
                                    ConcludeInv, InCall, Ids
    <3> QED BY <3>2, <3>3, <3>4, <3>5 DEF Held
  <2>9. Regular' => lost' = {}
    BY <1>5, <2>5 DEF Evaluate, Goto
  <2> QED BY <2>1, <2>2, <2>3, <2>4, <2>6, <2>7, <2>8, <2>9
<1>6. ASSUME NEW x \in Callers, Finish(x) PROVE CInv'
  <2>1. TypeOK'
    BY <1>6 DEF Finish, ReleaseResponse, Goto, TypeOK, PhaseInv, Ids
  <2>2. PhaseInv'
    BY <1>6 DEF Finish, ReleaseResponse, Goto, PhaseInv, TypeOK, InCall
  <2>3. IdInv'
    BY <1>6 DEF Finish, ReleaseResponse, Goto, IdInv, TypeOK, PhaseInv, InCall, Ids
  <2>4. ConcludeInv'
    BY <1>6 DEF Finish, ReleaseResponse, Goto, ConcludeInv, TypeOK, PhaseInv, Regular, InCall
  <2>5. Regular' => Regular
    BY <1>6 DEF Finish, ReleaseResponse, Goto, Regular, IdInv, ConcludeInv, TypeOK
  <2>6. TableInv'
    BY <1>6 DEF Finish, ReleaseResponse, Goto, TableInv, Pollers, IdInv, TypeOK, PhaseInv, InCall
  <2>7. ResultsInv'
    <3> SUFFICES ASSUME Regular', NEW c \in Callers, Settled(c)' PROVE ResultOk(c)'
      BY DEF ResultsInv
    <3>1. CASE c # x
      BY <1>6, <2>5, <3>1 DEF Finish, Goto, Settled, ResultsInv, ResultOk, TypeOK
    <3>2. CASE c = x /\ associationState = "closed"
      BY <1>6, <3>2 DEF Finish, ResultOk, TypeOK
    <3>3. CASE c = x /\ associationState = "connected"
      BY <1>6, <2>5, <3>3 DEF Finish, Settled, ResultsInv, ResultOk, TypeOK
    <3> QED BY <3>1, <3>2, <3>3 DEF TypeOK
  <2>8. BufferInv'
    <3> SUFFICES ASSUME Regular', Usable' PROVE Held'
      BY DEF BufferInv
    <3>1. Regular /\ Usable
      BY <1>6, <2>5 DEF Finish, ReleaseResponse, Goto, Usable, InCall, TypeOK, PhaseInv
    <3>2. Held /\ concludeState = "active"
      BY <3>1 DEF BufferInv, ConcludeInv, Usable
    <3>3. CASE Dead
      BY <1>6, <3>1, <3>3 DEF Finish, ReleaseResponse, Goto, Held, Dead, NotAnnounced, Announced,
                              PipeInv, HasAnswer, Leaving, Pollers, TypeOK, PhaseInv, IdInv,
                              ConcludeInv, InCall, Ids
    <3>4. CASE NotAnnounced /\ PipeInv /\ link # "none"
      BY <1>6, <3>1, <3>2, <3>4 DEF Finish, ReleaseResponse, Goto, Held, Dead, NotAnnounced,
                                    Announced, PipeInv, HasAnswer, Leaving, Pollers, TypeOK,
                                    PhaseInv, IdInv, ConcludeInv, InCall, Ids
    <3>5. CASE Announced /\ PipeInv /\ link # "none"
      BY <1>6, <3>1, <3>2, <3>5 DEF Finish, ReleaseResponse, Goto, Held, Dead, NotAnnounced,
                                    Announced, PipeInv, HasAnswer, Leaving, Pollers, TypeOK,
                                    PhaseInv, IdInv, ConcludeInv, InCall, Ids
    <3> QED BY <3>2, <3>3, <3>4, <3>5 DEF Held
  <2>9. Regular' => lost' = {}
    BY <1>6, <2>5 DEF Finish, ReleaseResponse, Goto
  <2> QED BY <2>1, <2>2, <2>3, <2>4, <2>6, <2>7, <2>8, <2>9
<1> QED BY <1>1, <1>2, <1>3, <1>4, <1>5, <1>6 DEF Returns

(* The receive thread.                                                     *)
LEMMA ReceivingCInv ==
  ASSUME Roomy, CInv, Receiver
  PROVE  CInv'
<1> USE CallersAssumption DEF CInv, states, response, callers, server
<1>1. CASE WaitForBuffer
  <2>1. TypeOK'
    BY <1>1 DEF WaitForBuffer, TypeOK, PhaseInv, Ids
  <2>2. PhaseInv'
    BY <1>1 DEF WaitForBuffer, PhaseInv, TypeOK, InCall
  <2>3. IdInv'
    BY <1>1 DEF WaitForBuffer, IdInv, TypeOK, PhaseInv, InCall, Ids
  <2>4. ConcludeInv'
    BY <1>1 DEF WaitForBuffer, ConcludeInv, TypeOK, PhaseInv, Regular, InCall
  <2>5. Regular' => Regular
    BY <1>1 DEF WaitForBuffer, Regular, IdInv, ConcludeInv, TypeOK
  <2>6. TableInv'
    BY <1>1 DEF WaitForBuffer, TableInv, Pollers, IdInv, TypeOK, PhaseInv, InCall
  <2>7. ResultsInv'
    <3>1. \A c \in Callers : Settled(c)' => Settled(c) /\ call'[c] = call[c] /\ result'[c] = result[c]
      BY <1>1 DEF WaitForBuffer, Settled, TypeOK, PhaseInv, IdInv, InCall
    <3>2. \A j \in Ids : fate'[j] # fate[j] => fate[j] = "none"
      BY <1>1 DEF WaitForBuffer, TypeOK, IdInv
    <3> QED BY <2>5, <3>1, <3>2, ResultsFrame
  <2>8. BufferInv'
    <3> SUFFICES ASSUME Regular', Usable' PROVE Held'
      BY DEF BufferInv
    <3>1. Regular /\ Usable
      BY <1>1, <2>5 DEF WaitForBuffer, Usable, InCall, TypeOK, PhaseInv
    <3>2. Held /\ concludeState = "active"
      BY <3>1 DEF BufferInv, ConcludeInv, Usable
    <3>3. CASE Dead
      BY <1>1, <3>1, <3>3 DEF WaitForBuffer, Held, Dead, NotAnnounced, Announced, PipeInv,
                              HasAnswer, Leaving, Pollers, TypeOK, PhaseInv, IdInv, ConcludeInv,
                              InCall, Ids
    <3>4. CASE NotAnnounced /\ PipeInv /\ link # "none"
      BY <1>1, <3>1, <3>2, <3>4 DEF WaitForBuffer, Held, Dead, NotAnnounced, Announced, PipeInv,
                                    HasAnswer, Leaving, Pollers, TypeOK, PhaseInv, IdInv,
                                    ConcludeInv, InCall, Ids
    <3>5. CASE Announced /\ PipeInv /\ link # "none"
      BY <1>1, <3>1, <3>2, <3>5 DEF WaitForBuffer, Held, Dead, NotAnnounced, Announced, PipeInv,
                                    HasAnswer, Leaving, Pollers, TypeOK, PhaseInv, IdInv,
                                    ConcludeInv, InCall, Ids
    <3> QED BY <3>2, <3>3, <3>4, <3>5 DEF Held
  <2>9. Regular' => lost' = {}
    BY <1>1, <2>5 DEF WaitForBuffer
  <2> QED BY <2>1, <2>2, <2>3, <2>4, <2>6, <2>7, <2>8, <2>9
<1>2. ASSUME NEW i \in Ids, NEW k \in Answers, ReadAnswer(i, k) PROVE CInv'
  <2>1. TypeOK'
    BY <1>2 DEF ReadAnswer, Read, Message, TypeOK, PhaseInv, Ids
  <2>2. PhaseInv'
    BY <1>2 DEF ReadAnswer, Read, Message, PhaseInv, TypeOK, InCall
  <2>3. IdInv'
    BY <1>2 DEF ReadAnswer, Read, Message, IdInv, TypeOK, PhaseInv, InCall, Ids
  <2>4. ConcludeInv'
    <3>1. Regular' => Regular
      BY <1>2 DEF ReadAnswer, Read, Regular, IdInv, TypeOK
    <3> QED BY <1>2, <3>1 DEF ReadAnswer, Read, Message, ConcludeInv
  <2>5. Regular' => Regular
    BY <1>2 DEF ReadAnswer, Read, Message, Regular, IdInv, ConcludeInv, TypeOK
  <2>6. TableInv'
    BY <1>2 DEF ReadAnswer, Read, Message, TableInv, Pollers, IdInv, TypeOK, PhaseInv, InCall
  <2>7. ResultsInv'
    <3>1. \A c \in Callers : Settled(c)' => Settled(c) /\ call'[c] = call[c] /\ result'[c] = result[c]
      BY <1>2 DEF ReadAnswer, Read, Message, Settled, TypeOK, PhaseInv, IdInv, InCall
    <3>2. \A j \in Ids : fate'[j] # fate[j] => fate[j] = "none"
      BY <1>2 DEF ReadAnswer, Read, Message, TypeOK, IdInv
    <3> QED BY <2>5, <3>1, <3>2, ResultsFrame
  <2>8. BufferInv'
    <3> SUFFICES ASSUME Regular', Usable' PROVE Held'
      BY DEF BufferInv
    <3>1. Regular /\ Usable
      BY <1>2, <2>5 DEF ReadAnswer, Read, Message, Usable, InCall, TypeOK, PhaseInv
    <3>2. Held /\ concludeState = "active"
      BY <3>1 DEF BufferInv, ConcludeInv, Usable
    <3>3. CASE Dead
      BY <1>2, <3>1, <3>3 DEF ReadAnswer, Read, Message, Held, Dead, NotAnnounced, Announced,
                              PipeInv, HasAnswer, Leaving, Pollers, TypeOK, PhaseInv, IdInv,
                              ConcludeInv, InCall, Ids
    <3>4. CASE NotAnnounced /\ PipeInv /\ link # "none"
      <4>1. NotAnnounced'
        BY <1>2, <3>4 DEF ReadAnswer, Read, NotAnnounced
      <4>2. k # "reject"
        BY <1>2 DEF ReadAnswer, Regular, TypeOK, Ids
      <4>3. /\ HasAnswer' /\ receiveBuffer' = Message(k, i) /\ fate'[i] = k
            /\ asked' = asked \ {i} /\ i \in asked /\ link' = link /\ Pollers' = Pollers /\ call' = call
        BY <1>2, <4>2 DEF ReadAnswer, Read, HasAnswer, Message, TypeOK, Pollers
      <4>4. ~HasAnswer
        BY <1>2 DEF ReadAnswer, Read, HasAnswer
      <4>5. PipeInv'
        <5>1. i \in {call[c] : c \in Pollers}
          BY <3>4, <4>3 DEF PipeInv
        <5>2. UNCHANGED responseInvokeId
          BY <1>2 DEF ReadAnswer, Read
        <5> QED BY <3>4, <4>3, <4>4, <5>1, <5>2 DEF PipeInv, Message
      <4> QED BY <3>4, <4>1, <4>3, <4>5 DEF Held
    <3>5. CASE Announced /\ PipeInv /\ link # "none"
      BY <1>2, <3>1, <3>2, <3>5 DEF ReadAnswer, Read, Message, Held, Dead, NotAnnounced, Announced,
                                    PipeInv, HasAnswer, Leaving, Pollers, TypeOK, PhaseInv, IdInv,
                                    ConcludeInv, InCall, Ids
    <3> QED BY <3>2, <3>3, <3>4, <3>5 DEF Held
  <2>9. Regular' => lost' = {}
    BY <1>2, <2>5 DEF ReadAnswer, Read, Message
  <2> QED BY <2>1, <2>2, <2>3, <2>4, <2>6, <2>7, <2>8, <2>9
<1>3. CASE ReadReport
  <2>1. TypeOK'
    BY <1>3 DEF ReadReport, Read, Message, TypeOK, PhaseInv, Ids
  <2>2. PhaseInv'
    BY <1>3 DEF ReadReport, Read, Message, PhaseInv, TypeOK, InCall
  <2>3. IdInv'
    BY <1>3 DEF ReadReport, Read, Message, IdInv, TypeOK, PhaseInv, InCall, Ids
  <2>4. ConcludeInv'
    BY <1>3 DEF ReadReport, Read, Message, ConcludeInv, TypeOK, PhaseInv, Regular, InCall
  <2>5. Regular' => Regular
    BY <1>3 DEF ReadReport, Read, Message, Regular, IdInv, ConcludeInv, TypeOK
  <2>6. TableInv'
    BY <1>3 DEF ReadReport, Read, Message, TableInv, Pollers, IdInv, TypeOK, PhaseInv, InCall
  <2>7. ResultsInv'
    <3>1. \A c \in Callers : Settled(c)' => Settled(c) /\ call'[c] = call[c] /\ result'[c] = result[c]
      BY <1>3 DEF ReadReport, Read, Message, Settled, TypeOK, PhaseInv, IdInv, InCall
    <3>2. \A j \in Ids : fate'[j] # fate[j] => fate[j] = "none"
      BY <1>3 DEF ReadReport, Read, Message, TypeOK, IdInv
    <3> QED BY <2>5, <3>1, <3>2, ResultsFrame
  <2>8. BufferInv'
    <3> SUFFICES ASSUME Regular', Usable' PROVE Held'
      BY DEF BufferInv
    <3>1. Regular /\ Usable
      BY <1>3, <2>5 DEF ReadReport, Read, Message, Usable, InCall, TypeOK, PhaseInv
    <3>2. Held /\ concludeState = "active"
      BY <3>1 DEF BufferInv, ConcludeInv, Usable
    <3>3. CASE Dead
      BY <1>3, <3>1, <3>3 DEF ReadReport, Read, Message, Held, Dead, NotAnnounced, Announced,
                              PipeInv, HasAnswer, Leaving, Pollers, TypeOK, PhaseInv, IdInv,
                              ConcludeInv, InCall, Ids
    <3>4. CASE NotAnnounced /\ PipeInv /\ link # "none"
      BY <1>3, <3>1, <3>2, <3>4 DEF ReadReport, Read, Message, Held, Dead, NotAnnounced, Announced,
                                    PipeInv, HasAnswer, Leaving, Pollers, TypeOK, PhaseInv, IdInv,
                                    ConcludeInv, InCall, Ids
    <3>5. CASE Announced /\ PipeInv /\ link # "none"
      BY <1>3, <3>1, <3>2, <3>5 DEF ReadReport, Read, Message, Held, Dead, NotAnnounced, Announced,
                                    PipeInv, HasAnswer, Leaving, Pollers, TypeOK, PhaseInv, IdInv,
                                    ConcludeInv, InCall, Ids
    <3> QED BY <3>2, <3>3, <3>4, <3>5 DEF Held
  <2>9. Regular' => lost' = {}
    BY <1>3, <2>5 DEF ReadReport, Read, Message
  <2> QED BY <2>1, <2>2, <2>3, <2>4, <2>6, <2>7, <2>8, <2>9
<1>4. ASSUME NEW k \in ConcludeAnswers, ReadConclude(k) PROVE CInv'
  <2>1. TypeOK'
    <3>1. receiveBuffer' \in [kind : {"none", "report"} \cup Answers \cup ConcludeAnswers,
                                id : 0 .. MaxCalls]
      BY <1>4 DEF ReadConclude, Read, Message
    <3>2. receiver' = "callback" /\ concluding' = FALSE
          /\ UNCHANGED <<states, lastInvokeId, outstandingCalls, response, released, callers, link, asked,
                         fate, reports, late, lost>>
      BY <1>4 DEF ReadConclude, Read
    <3> QED BY <3>1, <3>2 DEF TypeOK
  <2>2. PhaseInv'
    BY <1>4 DEF ReadConclude, Read, Message, PhaseInv, TypeOK, InCall
  <2>3. IdInv'
    BY <1>4 DEF ReadConclude, Read, Message, IdInv, TypeOK, PhaseInv, InCall, Ids
  <2>4. ConcludeInv'
    BY <1>4 DEF ReadConclude, Read, Message, ConcludeInv, TypeOK, PhaseInv, Regular, InCall
  <2>5. Regular' => Regular
    BY <1>4 DEF ReadConclude, Read, Message, Regular, IdInv, ConcludeInv, TypeOK
  <2>6. TableInv'
    BY <1>4 DEF ReadConclude, Read, Message, TableInv, Pollers, IdInv, TypeOK, PhaseInv, InCall
  <2>7. ResultsInv'
    <3>1. \A c \in Callers : Settled(c)' => Settled(c) /\ call'[c] = call[c] /\ result'[c] = result[c]
      BY <1>4 DEF ReadConclude, Read, Message, Settled, TypeOK, PhaseInv, IdInv, InCall
    <3>2. \A j \in Ids : fate'[j] # fate[j] => fate[j] = "none"
      BY <1>4 DEF ReadConclude, Read, Message, TypeOK, IdInv
    <3> QED BY <2>5, <3>1, <3>2, ResultsFrame
  <2>8. BufferInv'
    <3> SUFFICES ASSUME Regular', Usable' PROVE Held'
      BY DEF BufferInv
    <3>1. Regular /\ Usable
      BY <1>4, <2>5 DEF ReadConclude, Read, Message, Usable, InCall, TypeOK, PhaseInv
    <3>2. Held /\ concludeState = "active"
      BY <3>1 DEF BufferInv, ConcludeInv, Usable
    <3>3. CASE Dead
      BY <1>4, <3>1, <3>3 DEF ReadConclude, Read, Message, Held, Dead, NotAnnounced, Announced,
                              PipeInv, HasAnswer, Leaving, Pollers, TypeOK, PhaseInv, IdInv,
                              ConcludeInv, InCall, Ids
    <3>4. CASE NotAnnounced /\ PipeInv /\ link # "none"
      BY <1>4, <3>1, <3>2, <3>4 DEF ReadConclude, Read, Message, Held, Dead, NotAnnounced,
                                    Announced, PipeInv, HasAnswer, Leaving, Pollers, TypeOK,
                                    PhaseInv, IdInv, ConcludeInv, InCall, Ids
    <3>5. CASE Announced /\ PipeInv /\ link # "none"
      BY <1>4, <3>1, <3>2, <3>5 DEF ReadConclude, Read, Message, Held, Dead, NotAnnounced,
                                    Announced, PipeInv, HasAnswer, Leaving, Pollers, TypeOK,
                                    PhaseInv, IdInv, ConcludeInv, InCall, Ids
    <3> QED BY <3>2, <3>3, <3>4, <3>5 DEF Held
  <2>9. Regular' => lost' = {}
    BY <1>4, <2>5 DEF ReadConclude, Read, Message
  <2> QED BY <2>1, <2>2, <2>3, <2>4, <2>6, <2>7, <2>8, <2>9
<1>5. CASE ReadFails
  <2>1. TypeOK'
    BY <1>5 DEF ReadFails, TypeOK, PhaseInv, Ids
  <2>2. PhaseInv'
    BY <1>5 DEF ReadFails, PhaseInv, TypeOK, InCall
  <2>3. IdInv'
    BY <1>5 DEF ReadFails, IdInv, TypeOK, PhaseInv, InCall, Ids
  <2>4. ConcludeInv'
    BY <1>5 DEF ReadFails, ConcludeInv, TypeOK, PhaseInv, Regular, InCall
  <2>5. Regular' => Regular
    BY <1>5 DEF ReadFails, Regular, IdInv, ConcludeInv, TypeOK
  <2>6. TableInv'
    BY <1>5 DEF ReadFails, TableInv, Pollers, IdInv, TypeOK, PhaseInv, InCall
  <2>7. ResultsInv'
    <3>1. \A c \in Callers : Settled(c)' => Settled(c) /\ call'[c] = call[c] /\ result'[c] = result[c]
      BY <1>5 DEF ReadFails, Settled, TypeOK, PhaseInv, IdInv, InCall
    <3>2. \A j \in Ids : fate'[j] # fate[j] => fate[j] = "none"
      BY <1>5 DEF ReadFails, TypeOK, IdInv
    <3> QED BY <2>5, <3>1, <3>2, ResultsFrame
  <2>8. BufferInv'
    <3> SUFFICES ASSUME Regular', Usable' PROVE Held'
      BY DEF BufferInv
    <3>1. Regular /\ Usable
      BY <1>5, <2>5 DEF ReadFails, Usable, InCall, TypeOK, PhaseInv
    <3>2. Held /\ concludeState = "active"
      BY <3>1 DEF BufferInv, ConcludeInv, Usable
    <3>3. CASE Dead
      BY <1>5, <3>1, <3>3 DEF ReadFails, Held, Dead, NotAnnounced, Announced, PipeInv, HasAnswer,
                              Leaving, Pollers, TypeOK, PhaseInv, IdInv, ConcludeInv, InCall, Ids
    <3>4. CASE NotAnnounced /\ PipeInv /\ link # "none"
      BY <1>5, <3>1, <3>2, <3>4 DEF ReadFails, Held, Dead, NotAnnounced, Announced, PipeInv,
                                    HasAnswer, Leaving, Pollers, TypeOK, PhaseInv, IdInv,
                                    ConcludeInv, InCall, Ids
    <3>5. CASE Announced /\ PipeInv /\ link # "none"
      BY <1>5, <3>1, <3>2, <3>5 DEF ReadFails, Held, Dead, NotAnnounced, Announced, PipeInv,
                                    HasAnswer, Leaving, Pollers, TypeOK, PhaseInv, IdInv,
                                    ConcludeInv, InCall, Ids
    <3> QED BY <3>2, <3>3, <3>4, <3>5 DEF Held
  <2>9. Regular' => lost' = {}
    BY <1>5, <2>5 DEF ReadFails
  <2> QED BY <2>1, <2>2, <2>3, <2>4, <2>6, <2>7, <2>8, <2>9
<1>6. CASE CallbackAnswer
  <2>1. TypeOK'
    <3>1. receiver' \in {"store", "wait"} /\ released' \in Nat
      BY <1>6 DEF CallbackAnswer, Returned, TypeOK
    <3>2. UNCHANGED <<states, lastInvokeId, outstandingCalls, response, receiveBuffer, callers, server, late,
                      lost>>
      BY <1>6 DEF CallbackAnswer, Returned
    <3> QED BY <3>1, <3>2 DEF TypeOK
  <2>2. PhaseInv'
    <3>1. pc[Main] \in {"new", "initiated", "accepted"} => outstandingCalls = {}
      BY DEF PhaseInv, TableInv, Pollers
    <3> QED BY <1>6, <3>1 DEF CallbackAnswer, Returned, PhaseInv, TypeOK
  <2>3. IdInv'
    <3>1. receiver' # "callback"
          /\ UNCHANGED <<lastInvokeId, pc, call, asked, fate>>
      BY <1>6 DEF CallbackAnswer, Returned
    <3> QED BY <3>1 DEF IdInv
  <2>4. ConcludeInv'
    BY <1>6 DEF CallbackAnswer, Returned, ConcludeInv, TypeOK, PhaseInv, Regular, InCall
  <2>5. Regular' => Regular
    BY <1>6 DEF CallbackAnswer, Returned, Regular, IdInv, ConcludeInv, TypeOK
  <2>6. TableInv'
    BY <1>6 DEF CallbackAnswer, Returned, TableInv, Pollers, IdInv, TypeOK, PhaseInv, InCall
  <2>7. ResultsInv'
    <3>1. \A c \in Callers : Settled(c)' => Settled(c) /\ call'[c] = call[c] /\ result'[c] = result[c]
      BY <1>6 DEF CallbackAnswer, Returned, Settled, TypeOK, PhaseInv, IdInv, InCall
    <3>2. \A j \in Ids : fate'[j] # fate[j] => fate[j] = "none"
      BY <1>6 DEF CallbackAnswer, Returned, TypeOK, IdInv
    <3> QED BY <2>5, <3>1, <3>2, ResultsFrame
  <2>8. BufferInv'
    <3> SUFFICES ASSUME Regular', Usable' PROVE Held'
      BY DEF BufferInv
    <3>1. Regular /\ Usable
      BY <1>6, <2>5 DEF CallbackAnswer, Returned, Usable, InCall, TypeOK, PhaseInv
    <3>2. Held /\ concludeState = "active"
      BY <3>1 DEF BufferInv, ConcludeInv, Usable
    <3>3. CASE Dead
      BY <1>6, <3>1, <3>3 DEF CallbackAnswer, Returned, Held, Dead, NotAnnounced, Announced,
                              PipeInv, HasAnswer, Leaving, Pollers, TypeOK, PhaseInv, IdInv,
                              ConcludeInv, InCall, Ids
    <3>4. CASE NotAnnounced /\ PipeInv /\ link # "none"
      <4>1. HasAnswer
        BY <1>6 DEF CallbackAnswer, HasAnswer
      <4>2. receiveBuffer.id \in outstandingCalls
        BY <3>4, <4>1 DEF PipeInv, TableInv
      <4>3. receiver' = "store" /\ released' = released /\ HasAnswer'
        BY <1>6, <4>2 DEF CallbackAnswer, Returned, HasAnswer
      <4>4. NotAnnounced'
        BY <1>6, <3>4, <4>2, <4>3 DEF CallbackAnswer, Returned, NotAnnounced
      <4>5. PipeInv' /\ link' # "none"
        BY <1>6, <3>4, <4>1, <4>2, <4>3 DEF CallbackAnswer, Returned, PipeInv, Pollers
      <4> QED BY <4>4, <4>5 DEF Held
    <3>5. CASE Announced /\ PipeInv /\ link # "none"
      BY <1>6, <3>1, <3>2, <3>5 DEF CallbackAnswer, Returned, Held, Dead, NotAnnounced, Announced,
                                    PipeInv, HasAnswer, Leaving, Pollers, TypeOK, PhaseInv, IdInv,
                                    ConcludeInv, InCall, Ids
    <3> QED BY <3>2, <3>3, <3>4, <3>5 DEF Held
  <2>9. Regular' => lost' = {}
    BY <1>6, <2>5 DEF CallbackAnswer, Returned
  <2> QED BY <2>1, <2>2, <2>3, <2>4, <2>6, <2>7, <2>8, <2>9
<1>7. CASE StoreResponse
  <2>1. TypeOK'
    BY <1>7 DEF StoreResponse, Returned, TypeOK, PhaseInv, Ids
  <2>2. PhaseInv'
    BY <1>7 DEF StoreResponse, Returned, PhaseInv, TypeOK, InCall
  <2>3. IdInv'
    BY <1>7 DEF StoreResponse, Returned, IdInv, TypeOK, PhaseInv, InCall, Ids
  <2>4. ConcludeInv'
    BY <1>7 DEF StoreResponse, Returned, ConcludeInv, TypeOK, PhaseInv, Regular, InCall
  <2>5. Regular' => Regular
    BY <1>7 DEF StoreResponse, Returned, Regular, IdInv, ConcludeInv, TypeOK
  <2>6. TableInv'
    BY <1>7 DEF StoreResponse, Returned, TableInv, Pollers, IdInv, TypeOK, PhaseInv, InCall
  <2>7. ResultsInv'
    <3>1. \A c \in Callers : Settled(c)' => Settled(c) /\ call'[c] = call[c] /\ result'[c] = result[c]
      BY <1>7 DEF StoreResponse, Returned, Settled, TypeOK, PhaseInv, IdInv, InCall
    <3>2. \A j \in Ids : fate'[j] # fate[j] => fate[j] = "none"
      BY <1>7 DEF StoreResponse, Returned, TypeOK, IdInv
    <3> QED BY <2>5, <3>1, <3>2, ResultsFrame
  <2>8. BufferInv'
    <3> SUFFICES ASSUME Regular', Usable' PROVE Held'
      BY DEF BufferInv
    <3>1. Regular /\ Usable
      BY <1>7, <2>5 DEF StoreResponse, Returned, Usable, InCall, TypeOK, PhaseInv
    <3>2. Held /\ concludeState = "active"
      BY <3>1 DEF BufferInv, ConcludeInv, Usable
    <3>3. CASE Dead
      BY <1>7, <3>1, <3>3 DEF StoreResponse, Returned, Held, Dead, NotAnnounced, Announced,
                              PipeInv, HasAnswer, Leaving, Pollers, TypeOK, PhaseInv, IdInv,
                              ConcludeInv, InCall, Ids
    <3>4. CASE NotAnnounced /\ PipeInv /\ link # "none"
      <4>1. receiveBuffer.kind \in {"response", "error"} /\ receiveBuffer.kind = fate[receiveBuffer.id]
        BY <1>7, <3>4 DEF StoreResponse, PipeInv, HasAnswer
      <4>2. PICK e \in Pollers : call[e] = receiveBuffer.id
        BY <1>7, <3>4, <4>1 DEF StoreResponse, PipeInv, HasAnswer
      <4>3. receiveBuffer.id \in Ids
        BY <4>2 DEF Pollers, TypeOK, IdInv, InCall, Ids
      <4>4. receiveBuffer = Message(fate[receiveBuffer.id], receiveBuffer.id)
        BY <4>1 DEF Message, TypeOK
      <4>5. Announced'
        BY <1>7, <3>4, <4>1, <4>2, <4>3, <4>4 DEF StoreResponse, Returned, NotAnnounced, Announced, Pollers, Message
      <4>6. PipeInv' /\ link' # "none"
        BY <1>7, <3>4 DEF StoreResponse, Returned, NotAnnounced, PipeInv, Pollers, HasAnswer, IdInv, InCall
      <4> QED BY <4>5, <4>6 DEF Held
    <3>5. CASE Announced /\ PipeInv /\ link # "none"
      BY <1>7, <3>1, <3>2, <3>5 DEF StoreResponse, Returned, Held, Dead, NotAnnounced, Announced,
                                    PipeInv, HasAnswer, Leaving, Pollers, TypeOK, PhaseInv, IdInv,
                                    ConcludeInv, InCall, Ids
    <3> QED BY <3>2, <3>3, <3>4, <3>5 DEF Held
  <2>9. Regular' => lost' = {}
    BY <1>7, <2>5 DEF StoreResponse, Returned
  <2> QED BY <2>1, <2>2, <2>3, <2>4, <2>6, <2>7, <2>8, <2>9
<1>8. CASE CallbackOther
  <2>1. TypeOK'
    BY <1>8 DEF CallbackOther, Returned, TypeOK, PhaseInv, Ids
  <2>2. PhaseInv'
    BY <1>8 DEF CallbackOther, Returned, PhaseInv, TypeOK, InCall
  <2>3. IdInv'
    BY <1>8 DEF CallbackOther, Returned, IdInv, TypeOK, PhaseInv, InCall, Ids
  <2>4. ConcludeInv'
    BY <1>8 DEF CallbackOther, Returned, ConcludeInv, TypeOK, PhaseInv, Regular, InCall
  <2>5. Regular' => Regular
    BY <1>8 DEF CallbackOther, Returned, Regular, IdInv, ConcludeInv, TypeOK
  <2>6. TableInv'
    BY <1>8 DEF CallbackOther, Returned, TableInv, Pollers, IdInv, TypeOK, PhaseInv, InCall
  <2>7. ResultsInv'
    <3>1. \A c \in Callers : Settled(c)' => Settled(c) /\ call'[c] = call[c] /\ result'[c] = result[c]
      BY <1>8 DEF CallbackOther, Returned, Settled, TypeOK, PhaseInv, IdInv, InCall
    <3>2. \A j \in Ids : fate'[j] # fate[j] => fate[j] = "none"
      BY <1>8 DEF CallbackOther, Returned, TypeOK, IdInv
    <3> QED BY <2>5, <3>1, <3>2, ResultsFrame
  <2>8. BufferInv'
    <3> SUFFICES ASSUME Regular', Usable' PROVE Held'
      BY DEF BufferInv
    <3>1. Regular /\ Usable
      BY <1>8, <2>5 DEF CallbackOther, Returned, Usable, InCall, TypeOK, PhaseInv
    <3>2. Held /\ concludeState = "active"
      BY <3>1 DEF BufferInv, ConcludeInv, Usable
    <3>3. CASE Dead
      BY <1>8, <3>1, <3>3 DEF CallbackOther, Returned, Held, Dead, NotAnnounced, Announced,
                              PipeInv, HasAnswer, Leaving, Pollers, TypeOK, PhaseInv, IdInv,
                              ConcludeInv, InCall, Ids
    <3>4. CASE NotAnnounced /\ PipeInv /\ link # "none"
      <4>1. receiveBuffer.kind \notin {"reject", "accepted", "rejected"}
        BY <1>8, <3>1, <3>2 DEF CallbackOther, IdInv, ConcludeInv, Regular
      <4>2. receiver' = "wait" /\ released' = 1 /\ ~HasAnswer /\ ~HasAnswer'
        BY <1>8, <3>4, <4>1 DEF CallbackOther, Returned, NotAnnounced, HasAnswer
      <4>3. NotAnnounced'
        BY <1>8, <3>4, <4>2 DEF CallbackOther, Returned, NotAnnounced
      <4>4. PipeInv' /\ link' # "none"
        BY <1>8, <3>4, <4>2 DEF CallbackOther, Returned, PipeInv, Pollers, HasAnswer
      <4> QED BY <4>3, <4>4 DEF Held
    <3>5. CASE Announced /\ PipeInv /\ link # "none"
      BY <1>8, <3>1, <3>2, <3>5 DEF CallbackOther, Returned, Held, Dead, NotAnnounced, Announced,
                                    PipeInv, HasAnswer, Leaving, Pollers, TypeOK, PhaseInv, IdInv,
                                    ConcludeInv, InCall, Ids
    <3> QED BY <3>2, <3>3, <3>4, <3>5 DEF Held
  <2>9. Regular' => lost' = {}
    BY <1>8, <2>5 DEF CallbackOther, Returned
  <2> QED BY <2>1, <2>2, <2>3, <2>4, <2>6, <2>7, <2>8, <2>9
<1>9. CASE CallbackClosed
  <2>1. TypeOK'
    BY <1>9 DEF CallbackClosed, TypeOK, PhaseInv, Ids
  <2>2. PhaseInv'
    BY <1>9 DEF CallbackClosed, PhaseInv, TypeOK, InCall
  <2>3. IdInv'
    BY <1>9 DEF CallbackClosed, IdInv, TypeOK, PhaseInv, InCall, Ids
  <2>4. ConcludeInv'
    BY <1>9 DEF CallbackClosed, ConcludeInv, TypeOK, PhaseInv, Regular, InCall
  <2>5. Regular' => Regular
    BY <1>9 DEF CallbackClosed, Regular, IdInv, ConcludeInv, TypeOK
  <2>6. TableInv'
    BY <1>9 DEF CallbackClosed, TableInv, Pollers, IdInv, TypeOK, PhaseInv, InCall
  <2>7. ResultsInv'
    <3>1. \A c \in Callers : Settled(c)' => Settled(c) /\ call'[c] = call[c] /\ result'[c] = result[c]
      BY <1>9 DEF CallbackClosed, Settled, TypeOK, PhaseInv, IdInv, InCall
    <3>2. \A j \in Ids : fate'[j] # fate[j] => fate[j] = "none"
      BY <1>9 DEF CallbackClosed, TypeOK, IdInv
    <3> QED BY <2>5, <3>1, <3>2, ResultsFrame
  <2>8. BufferInv'
    <3> SUFFICES ASSUME Regular', Usable' PROVE Held'
      BY DEF BufferInv
    <3>1. Regular /\ Usable
      BY <1>9, <2>5 DEF CallbackClosed, Usable, InCall, TypeOK, PhaseInv
    <3>2. Held /\ concludeState = "active"
      BY <3>1 DEF BufferInv, ConcludeInv, Usable
    <3>3. CASE Dead
      BY <1>9, <3>1, <3>3 DEF CallbackClosed, Held, Dead, NotAnnounced, Announced, PipeInv,
                              HasAnswer, Leaving, Pollers, TypeOK, PhaseInv, IdInv, ConcludeInv,
                              InCall, Ids
    <3>4. CASE NotAnnounced /\ PipeInv /\ link # "none"
      <4>1. pc[Main] = "accepted"
        BY <1>9 DEF CallbackClosed, Usable
      <4>2. \A i \in Ids : fate[i] = "none"
        BY <4>1 DEF PhaseInv, IdInv, Ids
      <4>3. \A c \in Callers : pc[c] \notin InCall
        BY <4>1 DEF PhaseInv, InCall
      <4>4. Dead'
        BY <1>9, <3>4, <4>2, <4>3 DEF CallbackClosed, Dead, NotAnnounced, PhaseInv
      <4> QED BY <4>4 DEF Held
    <3>5. CASE Announced /\ PipeInv /\ link # "none"
      BY <1>9, <3>1, <3>2, <3>5 DEF CallbackClosed, Held, Dead, NotAnnounced, Announced, PipeInv,
                                    HasAnswer, Leaving, Pollers, TypeOK, PhaseInv, IdInv,
                                    ConcludeInv, InCall, Ids
    <3> QED BY <3>2, <3>3, <3>4, <3>5 DEF Held
  <2>9. Regular' => lost' = {}
    BY <1>9, <2>5 DEF CallbackClosed
  <2> QED BY <2>1, <2>2, <2>3, <2>4, <2>6, <2>7, <2>8, <2>9
<1> QED BY <1>1, <1>2, <1>3, <1>4, <1>5, <1>6, <1>7, <1>8, <1>9 DEF Receiver

(* Concluding and destroying, and the end of the TCP connection.           *)
LEMMA EndingCInv ==
  ASSUME Roomy, CInv, SendConclude \/ Concluded \/ ConcludeTimesOut \/ Destroy \/ Join \/ ServerCloses
  PROVE  CInv'
<1> USE CallersAssumption DEF CInv, states, response, callers, server
<1>1. CASE SendConclude
  <2>1. TypeOK'
    BY <1>1 DEF SendConclude, Idle, Goto, TypeOK, PhaseInv, Ids
  <2>2. PhaseInv'
    BY <1>1 DEF SendConclude, Idle, Goto, PhaseInv, TypeOK, InCall
  <2>3. IdInv'
    BY <1>1 DEF SendConclude, Idle, Goto, IdInv, TypeOK, PhaseInv, InCall, Ids
  <2>4. ConcludeInv'
    BY <1>1 DEF SendConclude, Idle, Goto, ConcludeInv, TypeOK, PhaseInv, Regular, InCall
  <2>5. Regular' => Regular
    BY <1>1 DEF SendConclude, Idle, Goto, Regular, IdInv, ConcludeInv, TypeOK
  <2>6. TableInv'
    BY <1>1 DEF SendConclude, Idle, Goto, TableInv, Pollers, IdInv, TypeOK, PhaseInv, InCall
  <2>7. ResultsInv'
    <3>1. \A c \in Callers : Settled(c)' => Settled(c) /\ call'[c] = call[c] /\ result'[c] = result[c]
      BY <1>1 DEF SendConclude, Idle, Goto, Settled, TypeOK, PhaseInv, IdInv, InCall
    <3>2. \A j \in Ids : fate'[j] # fate[j] => fate[j] = "none"
      BY <1>1 DEF SendConclude, Idle, Goto, TypeOK, IdInv
    <3> QED BY <2>5, <3>1, <3>2, ResultsFrame
  <2>8. BufferInv'
    <3> SUFFICES ASSUME Regular', Usable' PROVE Held'
      BY DEF BufferInv
    <3>1. Regular /\ Usable
      BY <1>1, <2>5 DEF SendConclude, Idle, Goto, Usable, InCall, TypeOK, PhaseInv
    <3>2. Held /\ concludeState = "active"
      BY <3>1 DEF BufferInv, ConcludeInv, Usable
    <3>3. CASE Dead
      BY <1>1, <3>1, <3>3 DEF SendConclude, Idle, Goto, Held, Dead, NotAnnounced, Announced,
                              PipeInv, HasAnswer, Leaving, Pollers, TypeOK, PhaseInv, IdInv,
                              ConcludeInv, InCall, Ids
    <3>4. CASE NotAnnounced /\ PipeInv /\ link # "none"
      BY <1>1, <3>1, <3>2, <3>4 DEF SendConclude, Idle, Goto, Held, Dead, NotAnnounced, Announced,
                                    PipeInv, HasAnswer, Leaving, Pollers, TypeOK, PhaseInv, IdInv,
                                    ConcludeInv, InCall, Ids
    <3>5. CASE Announced /\ PipeInv /\ link # "none"
      BY <1>1, <3>1, <3>2, <3>5 DEF SendConclude, Idle, Goto, Held, Dead, NotAnnounced, Announced,
                                    PipeInv, HasAnswer, Leaving, Pollers, TypeOK, PhaseInv, IdInv,
                                    ConcludeInv, InCall, Ids
    <3> QED BY <3>2, <3>3, <3>4, <3>5 DEF Held
  <2>9. Regular' => lost' = {}
    BY <1>1, <2>5 DEF SendConclude, Idle, Goto
  <2> QED BY <2>1, <2>2, <2>3, <2>4, <2>6, <2>7, <2>8, <2>9
<1>2. CASE Concluded
  <2>1. TypeOK'
    BY <1>2 DEF Concluded, ReleaseResponse, Goto, TypeOK, PhaseInv, Ids
  <2>2. PhaseInv'
    BY <1>2 DEF Concluded, ReleaseResponse, Goto, PhaseInv, TypeOK, InCall
  <2>3. IdInv'
    BY <1>2 DEF Concluded, ReleaseResponse, Goto, IdInv, TypeOK, PhaseInv, InCall, Ids
  <2>4. ConcludeInv'
    BY <1>2 DEF Concluded, ReleaseResponse, Goto, ConcludeInv, TypeOK, PhaseInv, Regular, InCall
  <2>5. Regular' => Regular
    BY <1>2 DEF Concluded, ReleaseResponse, Goto, Regular, IdInv, ConcludeInv, TypeOK
  <2>6. TableInv'
    BY <1>2 DEF Concluded, ReleaseResponse, Goto, TableInv, Pollers, IdInv, TypeOK, PhaseInv,
                InCall
  <2>7. ResultsInv'
    <3> SUFFICES ASSUME Regular' PROVE ResultsInv'
      BY DEF ResultsInv
    <3>1. \A c \in Callers : Settled(c)' => Settled(c) /\ call'[c] = call[c] /\ result'[c] = result[c]
      BY <1>2 DEF Concluded, Goto, Settled, Regular, TypeOK
    <3>2. \A j \in Ids : fate'[j] # fate[j] => fate[j] = "none"
      BY <1>2 DEF Concluded
    <3> QED BY <2>5, <3>1, <3>2, ResultsFrame
  <2>8. BufferInv'
    <3>1. Regular' => ~Usable'
      BY <1>2 DEF Concluded, Goto, Regular, Usable, InCall, TypeOK
    <3> QED BY <3>1 DEF BufferInv
  <2>9. Regular' => lost' = {}
    BY <1>2, <2>5 DEF Concluded, ReleaseResponse, Goto
  <2> QED BY <2>1, <2>2, <2>3, <2>4, <2>6, <2>7, <2>8, <2>9
<1>3. CASE ConcludeTimesOut
  <2>1. TypeOK'
    BY <1>3 DEF ConcludeTimesOut, ReleaseResponse, Goto, TypeOK, PhaseInv, Ids
  <2>2. PhaseInv'
    BY <1>3 DEF ConcludeTimesOut, ReleaseResponse, Goto, PhaseInv, TypeOK, InCall
  <2>3. IdInv'
    BY <1>3 DEF ConcludeTimesOut, ReleaseResponse, Goto, IdInv, TypeOK, PhaseInv, InCall, Ids
  <2>4. ConcludeInv'
    BY <1>3 DEF ConcludeTimesOut, ReleaseResponse, Goto, ConcludeInv, TypeOK, PhaseInv, Regular,
                InCall
  <2>5. Regular' => Regular
    BY <1>3 DEF ConcludeTimesOut, ReleaseResponse, Goto, Regular, IdInv, ConcludeInv, TypeOK
  <2>6. TableInv'
    BY <1>3 DEF ConcludeTimesOut, ReleaseResponse, Goto, TableInv, Pollers, IdInv, TypeOK,
                PhaseInv, InCall
  <2>7. ResultsInv'
    <3>1. ~Regular'
      BY <1>3 DEF ConcludeTimesOut, Regular, TypeOK
    <3> QED BY <3>1 DEF ResultsInv
  <2>8. BufferInv'
    <3>1. ~Regular'
      BY <1>3 DEF ConcludeTimesOut, Regular, TypeOK
    <3> QED BY <3>1 DEF BufferInv
  <2>9. Regular' => lost' = {}
    BY <1>3, <2>5 DEF ConcludeTimesOut, ReleaseResponse, Goto
  <2> QED BY <2>1, <2>2, <2>3, <2>4, <2>6, <2>7, <2>8, <2>9
<1>4. CASE Destroy
  <2>1. TypeOK'
    BY <1>4 DEF Destroy, Idle, Goto, TypeOK, PhaseInv, Ids
  <2>2. PhaseInv'
    BY <1>4 DEF Destroy, Idle, Goto, PhaseInv, TypeOK, InCall
  <2>3. IdInv'
    BY <1>4 DEF Destroy, Idle, Goto, IdInv, TypeOK, PhaseInv, InCall, Ids
  <2>4. ConcludeInv'
    BY <1>4 DEF Destroy, Idle, Goto, ConcludeInv, TypeOK, PhaseInv, Regular, InCall
  <2>5. Regular' => Regular
    BY <1>4 DEF Destroy, Idle, Goto, Regular, IdInv, ConcludeInv, TypeOK
  <2>6. TableInv'
    BY <1>4 DEF Destroy, Idle, Goto, TableInv, Pollers, IdInv, TypeOK, PhaseInv, InCall
  <2>7. ResultsInv'
    <3>1. \A c \in Callers : Settled(c)' => Settled(c) /\ call'[c] = call[c] /\ result'[c] = result[c]
      BY <1>4 DEF Destroy, Idle, Goto, Settled, TypeOK, PhaseInv, IdInv, InCall
    <3>2. \A j \in Ids : fate'[j] # fate[j] => fate[j] = "none"
      BY <1>4 DEF Destroy, Idle, Goto, TypeOK, IdInv
    <3> QED BY <2>5, <3>1, <3>2, ResultsFrame
  <2>8. BufferInv'
    <3> SUFFICES ASSUME Regular', Usable' PROVE Held'
      BY DEF BufferInv
    <3>1. Regular /\ Usable
      BY <1>4, <2>5 DEF Destroy, Idle, Goto, Usable, InCall, TypeOK, PhaseInv
    <3>2. Held /\ concludeState = "active"
      BY <3>1 DEF BufferInv, ConcludeInv, Usable
    <3>3. CASE Dead
      BY <1>4, <3>1, <3>3 DEF Destroy, Idle, Goto, Held, Dead, NotAnnounced, Announced, PipeInv,
                              HasAnswer, Leaving, Pollers, TypeOK, PhaseInv, IdInv, ConcludeInv,
                              InCall, Ids
    <3>4. CASE NotAnnounced /\ PipeInv /\ link # "none"
      BY <1>4, <3>1, <3>2, <3>4 DEF Destroy, Idle, Goto, Held, Dead, NotAnnounced, Announced,
                                    PipeInv, HasAnswer, Leaving, Pollers, TypeOK, PhaseInv, IdInv,
                                    ConcludeInv, InCall, Ids
    <3>5. CASE Announced /\ PipeInv /\ link # "none"
      BY <1>4, <3>1, <3>2, <3>5 DEF Destroy, Idle, Goto, Held, Dead, NotAnnounced, Announced,
                                    PipeInv, HasAnswer, Leaving, Pollers, TypeOK, PhaseInv, IdInv,
                                    ConcludeInv, InCall, Ids
    <3> QED BY <3>2, <3>3, <3>4, <3>5 DEF Held
  <2>9. Regular' => lost' = {}
    BY <1>4, <2>5 DEF Destroy, Idle, Goto
  <2> QED BY <2>1, <2>2, <2>3, <2>4, <2>6, <2>7, <2>8, <2>9
<1>5. CASE Join
  <2>1. TypeOK'
    BY <1>5 DEF Join, Goto, TypeOK, PhaseInv, Ids
  <2>2. PhaseInv'
    BY <1>5 DEF Join, Goto, PhaseInv, TypeOK, InCall
  <2>3. IdInv'
    BY <1>5 DEF Join, Goto, IdInv, TypeOK, PhaseInv, InCall, Ids
  <2>4. ConcludeInv'
    BY <1>5 DEF Join, Goto, ConcludeInv, TypeOK, PhaseInv, Regular, InCall
  <2>5. Regular' => Regular
    BY <1>5 DEF Join, Goto, Regular, IdInv, ConcludeInv, TypeOK
  <2>6. TableInv'
    BY <1>5 DEF Join, Goto, TableInv, Pollers, IdInv, TypeOK, PhaseInv, InCall
  <2>7. ResultsInv'
    <3>1. \A c \in Callers : Settled(c)' => Settled(c) /\ call'[c] = call[c] /\ result'[c] = result[c]
      BY <1>5 DEF Join, Goto, Settled, TypeOK, PhaseInv, IdInv, InCall
    <3>2. \A j \in Ids : fate'[j] # fate[j] => fate[j] = "none"
      BY <1>5 DEF Join, Goto, TypeOK, IdInv
    <3> QED BY <2>5, <3>1, <3>2, ResultsFrame
  <2>8. BufferInv'
    <3> SUFFICES ASSUME Regular', Usable' PROVE Held'
      BY DEF BufferInv
    <3>1. Regular /\ Usable
      BY <1>5, <2>5 DEF Join, Goto, Usable, InCall, TypeOK, PhaseInv
    <3>2. Held /\ concludeState = "active"
      BY <3>1 DEF BufferInv, ConcludeInv, Usable
    <3>3. CASE Dead
      BY <1>5, <3>1, <3>3 DEF Join, Goto, Held, Dead, NotAnnounced, Announced, PipeInv, HasAnswer,
                              Leaving, Pollers, TypeOK, PhaseInv, IdInv, ConcludeInv, InCall, Ids
    <3>4. CASE NotAnnounced /\ PipeInv /\ link # "none"
      BY <1>5, <3>1, <3>2, <3>4 DEF Join, Goto, Held, Dead, NotAnnounced, Announced, PipeInv,
                                    HasAnswer, Leaving, Pollers, TypeOK, PhaseInv, IdInv,
                                    ConcludeInv, InCall, Ids
    <3>5. CASE Announced /\ PipeInv /\ link # "none"
      BY <1>5, <3>1, <3>2, <3>5 DEF Join, Goto, Held, Dead, NotAnnounced, Announced, PipeInv,
                                    HasAnswer, Leaving, Pollers, TypeOK, PhaseInv, IdInv,
                                    ConcludeInv, InCall, Ids
    <3> QED BY <3>2, <3>3, <3>4, <3>5 DEF Held
  <2>9. Regular' => lost' = {}
    BY <1>5, <2>5 DEF Join, Goto
  <2> QED BY <2>1, <2>2, <2>3, <2>4, <2>6, <2>7, <2>8, <2>9
<1>6. CASE ServerCloses
  <2>1. TypeOK'
    <3>1. link' = "down" /\ asked' \subseteq Ids /\ concluding' \in BOOLEAN
      BY <1>6 DEF ServerCloses
    <3>2. UNCHANGED <<states, lastInvokeId, outstandingCalls, response, receiveBuffer, released,
                      receiver, callers, fate, reports, late, lost>>
      BY <1>6 DEF ServerCloses
    <3> QED BY <3>1, <3>2 DEF TypeOK
  <2>2. PhaseInv'
    BY <1>6 DEF ServerCloses, PhaseInv, TypeOK, InCall
  <2>3. IdInv'
    BY <1>6 DEF ServerCloses, IdInv, TypeOK, PhaseInv, InCall, Ids
  <2>4. ConcludeInv'
    BY <1>6 DEF ServerCloses, ConcludeInv, TypeOK, PhaseInv, Regular, InCall
  <2>5. Regular' => Regular
    BY <1>6 DEF ServerCloses, Regular, IdInv, ConcludeInv, TypeOK
  <2>6. TableInv'
    BY <1>6 DEF ServerCloses, TableInv, Pollers, IdInv, TypeOK, PhaseInv, InCall
  <2>7. ResultsInv'
    <3>1. \A c \in Callers : Settled(c)' => Settled(c) /\ call'[c] = call[c] /\ result'[c] = result[c]
      BY <1>6 DEF ServerCloses, Settled, TypeOK, PhaseInv, IdInv, InCall
    <3>2. \A j \in Ids : fate'[j] # fate[j] => fate[j] = "none"
      BY <1>6 DEF ServerCloses, TypeOK, IdInv
    <3> QED BY <2>5, <3>1, <3>2, ResultsFrame
  <2>8. BufferInv'
    <3> SUFFICES ASSUME Regular', Usable' PROVE Held'
      BY DEF BufferInv
    <3>1. Regular /\ Usable
      BY <1>6, <2>5 DEF ServerCloses, Usable, InCall, TypeOK, PhaseInv
    <3>2. Held /\ concludeState = "active"
      BY <3>1 DEF BufferInv, ConcludeInv, Usable
    <3>3. CASE Dead
      BY <1>6, <3>1, <3>3 DEF ServerCloses, Held, Dead, NotAnnounced, Announced, PipeInv,
                              HasAnswer, Leaving, Pollers, TypeOK, PhaseInv, IdInv, ConcludeInv,
                              InCall, Ids
    <3>4. CASE NotAnnounced /\ PipeInv /\ link # "none"
      BY <1>6, <3>1, <3>2, <3>4 DEF ServerCloses, Held, Dead, NotAnnounced, Announced, PipeInv,
                                    HasAnswer, Leaving, Pollers, TypeOK, PhaseInv, IdInv,
                                    ConcludeInv, InCall, Ids
    <3>5. CASE Announced /\ PipeInv /\ link # "none"
      BY <1>6, <3>1, <3>2, <3>5 DEF ServerCloses, Held, Dead, NotAnnounced, Announced, PipeInv,
                                    HasAnswer, Leaving, Pollers, TypeOK, PhaseInv, IdInv,
                                    ConcludeInv, InCall, Ids
    <3> QED BY <3>2, <3>3, <3>4, <3>5 DEF Held
  <2>9. Regular' => lost' = {}
    BY <1>6, <2>5 DEF ServerCloses
  <2> QED BY <2>1, <2>2, <2>3, <2>4, <2>6, <2>7, <2>8, <2>9
<1> QED BY <1>1, <1>2, <1>3, <1>4, <1>5, <1>6

(* Every step keeps the inductive invariant.                               *)
LEMMA NextCInv == ASSUME Roomy PROVE CInv /\ [Next]_vars => CInv'
<1> SUFFICES ASSUME CInv, [Next]_vars PROVE CInv'
  OBVIOUS
<1>1. CASE UNCHANGED vars
  <2> USE <1>1 DEF vars, states, response, callers, server, CInv
  <2>1. TypeOK' /\ PhaseInv' /\ IdInv' /\ ConcludeInv' /\ TableInv'
    BY DEF TypeOK, PhaseInv, IdInv, ConcludeInv, TableInv, Pollers, Regular
  <2>2. Regular' = Regular /\ Usable' = Usable
    BY DEF Regular, Usable
  <2>3. BufferInv'
    BY <2>2 DEF BufferInv, Held, Dead, NotAnnounced, Announced, PipeInv, HasAnswer, Pollers
  <2>4. ResultsInv'
    BY <2>2 DEF ResultsInv, Settled, ResultOk
  <2> QED BY <2>1, <2>2, <2>3, <2>4
<1> QED BY <1>1, ConnectingCInv, CallingCInv, ReceivingCInv, EndingCInv DEF Next

(* As long as no answer is late, a reject or a refusal to conclude, every  *)
(* call returns what the server answered to it and no answer is lost in    *)
(* the client, for any number of callers that fit the table; at all times  *)
(* the table holds exactly the calls that wait.                            *)
THEOREM CallsExact ==
  ASSUME Cardinality(Callers) <= Slots
  PROVE  Spec => [](TypeOK /\ ResultIsOwn /\ NoAnswerLost)
<1>1. Init => CInv
  BY InitCInv
<1>2. CInv /\ [Next]_vars => CInv'
  BY NextCInv DEF Roomy
<1>3. CInv => TypeOK /\ ResultIsOwn /\ NoAnswerLost
  BY DEF CInv, TableInv, Pollers, ResultsInv, Settled, ResultOk, ResultIsOwn, NoAnswerLost
<1> QED BY <1>1, <1>2, <1>3, PTL DEF Spec
=============================================================================
