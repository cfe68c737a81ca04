----------------------- MODULE ServerConnectionsProofs -----------------------
(***************************************************************************)
(* Theorems about ServerConnections for any number of connections, limits  *)
(* and restarts: the counter and the slots agree, and a stop is complete.  *)
(***************************************************************************)
EXTENDS ServerConnections, FiniteSetTheorems, SequenceTheorems, WellFoundedInduction, TLAPS

(* The accept loop has a connection in hand.                               *)
InHand == {"check", "count", "add", "listen", "map", "new", "inform"}

(* Steps of a connection thread up to ThreadCloses.                        *)
Open == {"wait", "test", "receive", "handle", "close"}

(* How far the thread of the connection in hand can be: it waits for the   *)
(* listener, and needs its entries in the tables above to go on closing.   *)
HandInv ==
  /\ cur \in Conns <=> srv \in InHand
  /\ \A c \in Conns : wire[c] \in {"absent", "pending"} =>
       thr[c] = "none" /\ ~listener[c] /\ cur # c
  /\ srv = "check" => thr[cur] = "none" /\ ~listener[cur]
  /\ srv \in {"count", "add", "listen"} => thr[cur] = "wait" /\ ~listener[cur]
  /\ srv = "map" => thr[cur] \in Open
  /\ srv = "new" => thr[cur] \in Open \cup {"inform"}
  /\ srv = "inform" => thr[cur] # "none"

(* Entries in the tables above have a thread that will remove them.        *)
TablesInv ==
  /\ \A c \in table : thr[c] \in Open
  /\ \A c \in clients : thr[c] \in Open \cup {"inform", "forget"}
  /\ srv \in {"check", "count", "add", "listen", "map"} => cur \notin table
  /\ srv \in {"check", "count", "add", "listen", "map", "new"} => cur \notin clients

(* A connection that owns a slot.                                          *)
Owner(c) ==
  /\ thr[c] \notin {"none", "free", "decrease", "done"}
  /\ c \notin Handling({"count", "add"})

SlotsInv ==
  /\ \A i \in Slots, c \in Conns : slots[i] = c => Owner(c)
  /\ \A i, j \in Slots : slots[i] = slots[j] /\ slots[i] # NoConn => i = j
  /\ \A c \in Conns : Owner(c) => \E i \in Slots : slots[i] = c

(* The counter lags behind while the accept loop is about to count.        *)
CounterInv ==
  /\ IsFiniteSet(Live)
  /\ counter = Cardinality(Live \ Handling({"count"}))
  /\ Cardinality(Live) <= MaxConnections

(* Stopping, and the event worker of the first start.                      *)
StopInv ==
  /\ app = "idle" <=> starts = 0
  /\ app \in {"idle", "stopped"} => srv \in {"none", "done"} /\ Live = {}
  /\ app \in {"find", "close", "shut", "drain", "stopped"} => srv = "done"
  /\ app \in {"close", "shut"} => target \in Conns
  /\ starts <= 1 /\ app \in {"idle", "starting", "worker"} => worker = "none" /\ ~workerEnd
  /\ starts = 1 /\ workerEnd => worker = "done"
  /\ starts = 1 /\ app \in {"stop", "destroy", "unset", "join", "find", "close", "shut", "drain",
                             "stopped"} => worker = "done"

(* The inductive invariant.                                                *)
SInv == TypeOK /\ HandInv /\ TablesInv /\ SlotsInv /\ CounterInv /\ StopInv

(* Proofs *)
(* The slots are numbered from 1, and keep their number.                   *)
LEMMA SlotsNumbered ==
  ASSUME SInv
  PROVE  MaxConnections \in Nat \ {0} /\ Slots = 1 .. MaxConnections
         /\ slots \in [Slots -> Conns \cup {NoConn}]
  BY LenProperties, LimitsAssumption DEF SInv, TypeOK, Slots, MaxConnections

(* A new slot table, a function on the slots, is a sequence of the same      *)
(* length: openClientConnections is an array of a size fixed at the start.  *)
LEMMA SlotsKept ==
  ASSUME SInv, slots' \in [Slots -> Conns \cup {NoConn}]
  PROVE  /\ slots' \in Seq(Conns \cup {NoConn})
         /\ Slots' = Slots /\ MaxConnections' = MaxConnections
<1>1. MaxConnections \in Nat /\ slots' \in [1 .. MaxConnections -> Conns \cup {NoConn}]
      /\ Slots = 1 .. MaxConnections
  BY SlotsNumbered
<1>2. slots' \in Seq(Conns \cup {NoConn})
  BY <1>1, SeqDef
<1>3. Len(slots') \in Nat /\ DOMAIN slots' = 1 .. Len(slots')
  BY <1>2, LenProperties
<1>4. DOMAIN slots' = 1 .. MaxConnections
  BY <1>1
<1>5. Len(slots') = MaxConnections
  BY <1>1, <1>3, <1>4
<1> QED BY <1>1, <1>2, <1>4, <1>5 DEF Slots, MaxConnections

(* A nonempty set of numbers has a least one.                              *)
LEMMA LeastNumber ==
  ASSUME NEW T \in SUBSET Nat, T # {}
  PROVE  \E x \in T : \A y \in T : x <= y
<1> DEFINE R == {ss \in Nat \X Nat : ss[1] < ss[2]}
<1>1. OpToRel(<, Nat) = R
  BY DEF OpToRel
<1>2. IsWellFoundedOn(R, Nat)
  BY <1>1, NatLessThanWellFounded
<1>3. PICK x \in T : \A y \in T : ~(<<y, x>> \in R)
  <2> HIDE DEF R
  <2> QED BY <1>2, WFMin
<1>4. ASSUME NEW y \in T PROVE x <= y
  <2> SUFFICES ASSUME ~(x <= y) PROVE FALSE
    OBVIOUS
  <2>1. <<y, x>> \in Nat \X Nat /\ y < x
    OBVIOUS
  <2>2. <<y, x>> \in R
    BY <2>1
  <2> QED BY <1>3, <2>2
<1> QED BY <1>4

(* What the application is told stays a sequence of Booleans.              *)
LEMMA ToldLonger ==
  ASSUME NEW s \in Seq(BOOLEAN)
  PROVE  Append(s, FALSE) \in Seq(BOOLEAN)
<1>1. FALSE \in BOOLEAN
  OBVIOUS
<1> QED BY <1>1, AppendProperties

(* The counter and the slots when no thread begins, ends or moves past     *)
(* what they are about.                                                    *)
LEMMA CounterFrame ==
  ASSUME SInv, Live' = Live, Handling({"count"})' = Handling({"count"}),
         UNCHANGED <<counter, slots>>
  PROVE  CounterInv'
  BY DEF SInv, CounterInv, MaxConnections

(* A step that changes neither the slots nor which slot a connection owns   *)
(* keeps what is known of the slots.                                        *)
LEMMA SlotsFrame ==
  ASSUME SInv, \A c \in Conns : Owner(c)' = Owner(c), UNCHANGED slots
  PROVE  SlotsInv'
<1>1. \A i \in Slots : slots[i] # NoConn => slots[i] \in Conns
  BY SlotsNumbered
<1> QED BY <1>1 DEF SInv, SlotsInv, Slots

(* Steps that touch neither the accept loop nor the connection threads.    *)
LEMMA QuietStep ==
  ASSUME SInv, UNCHANGED <<srv, cur, thr, listener, slots, counter, table, clients>>,
         \A c \in Conns : wire'[c] \in {"absent", "pending"} => wire[c] \in {"absent", "pending"}
  PROVE  HandInv' /\ TablesInv' /\ SlotsInv' /\ CounterInv' /\ Live' = Live
<1>1. Live' = Live /\ Handling({"count"})' = Handling({"count"})
      /\ \A c \in Conns : Owner(c)' = Owner(c)
  BY DEF Live, Handling, Owner
<1>2. HandInv' /\ TablesInv'
  BY DEF SInv, HandInv, TablesInv
<1> QED BY <1>1, <1>2, CounterFrame, SlotsFrame

(* The counter below the limit, or a slot that was given up, lets the      *)
(* accept loop find a free slot.                                           *)
LEMMA FreeSlot ==
  ASSUME SInv, srv = "add"
  PROVE  \E i \in Slots : Free(i)
<1> USE DEF SInv
<1>1. cur \in Live /\ IsFiniteSet(Live)
  BY DEF HandInv, InHand, Live, CounterInv
<1>2. /\ IsFiniteSet(Live \ {cur}) /\ Cardinality(Live) \in Nat
      /\ Cardinality(Live \ {cur}) = Cardinality(Live) - 1
  BY <1>1, FS_RemoveElement, FS_CardinalityType
<1>3. /\ MaxConnections \in Nat \ {0} /\ Slots = 1 .. MaxConnections
      /\ slots \in [Slots -> Conns \cup {NoConn}]
  BY SlotsNumbered
<1>4. IsFiniteSet(Slots) /\ Cardinality(Slots) = MaxConnections
  BY <1>3, FS_Interval
<1>5. \E i \in Slots : slots[i] = NoConn
  <2> SUFFICES ASSUME \A i \in Slots : slots[i] # NoConn PROVE FALSE
    OBVIOUS
  <2>1. slots \in [Slots -> Live \ {cur}]
    <3>1. \A i \in Slots : slots[i] \in Conns /\ Owner(slots[i])
      BY <1>3 DEF SlotsInv
    <3>2. \A i \in Slots : slots[i] \in Live \ {cur}
      BY <3>1 DEF Owner, Live, Handling
    <3> QED BY <1>3, <3>2
  <2>2. Cardinality(Live \ {cur}) < Cardinality(Slots)
    BY <1>2, <1>3, <1>4 DEF CounterInv
  <2>3. \E i, j \in Slots : i # j /\ slots[i] = slots[j]
    BY <1>2, <1>4, <2>1, <2>2, FS_PigeonHole
  <2> QED BY <2>3 DEF SlotsInv
<1>6. PICK i \in Slots : slots[i] = NoConn /\ \A j \in Slots : slots[j] = NoConn => i <= j
  <2> DEFINE T == {j \in Slots : slots[j] = NoConn}
  <2>1. T \in SUBSET Nat /\ T # {}
    BY <1>3, <1>5
  <2> QED BY <2>1, LeastNumber
<1> QED BY <1>3, <1>6 DEF Free

(* The accept loop.                                                        *)
LEMMA ServerSInv ==
  ASSUME SInv, ServerThread \/ AcceptFails
  PROVE  SInv'
<1> USE LimitsAssumption, MaxStartsAssumption, NoConnAssumption
    DEF SInv, isoServer, accept, connection, mapping, application, eventWorker, ThreadSteps, ServerSteps,
        AppSteps
<1>1. CASE ServerCreates
  <2>1. TypeOK'
    <3>1. /\ state' \in {"idle", "running", "stopped", "error"}
          /\ socketSet' \in BOOLEAN
          /\ bound' \in BOOLEAN
          /\ srv' \in ServerSteps
      BY <1>1 DEF ServerCreates, TypeOK
    <3>2. UNCHANGED <<slots, counter, cur, thr, running, conSocket, listener, wire, table,
                      clients, told, app, target, starts, worker, workerRun, workerEnd, fault>>
      BY <1>1 DEF ServerCreates
    <3> QED BY <3>1, <3>2 DEF TypeOK, MaxConnections
  <2>2. HandInv'
    BY <1>1 DEF ServerCreates, HandInv, TypeOK, InHand, Open, TablesInv
  <2>3. TablesInv'
    BY <1>1 DEF ServerCreates, HandInv, TypeOK, InHand, Open, TablesInv
  <2>4. SlotsInv'
    <3>1. \A x \in Conns : Owner(x)' = Owner(x)
      BY <1>1 DEF ServerCreates, Owner, Handling, TypeOK, HandInv, InHand
    <3> QED BY <1>1, <3>1, SlotsFrame DEF ServerCreates
  <2>5. CounterInv'
    <3>1. Live' = Live /\ Handling({"count"})' = Handling({"count"})
      BY <1>1 DEF ServerCreates, Live, Handling, TypeOK, HandInv, InHand
    <3> QED BY <1>1, <3>1, CounterFrame DEF ServerCreates
  <2>6. StopInv'
    BY <1>1 DEF ServerCreates, StopInv, TypeOK, Live
  <2> QED BY <2>1, <2>2, <2>3, <2>4, <2>5, <2>6
<1>2. CASE ServerTests
  <2>1. TypeOK'
    BY <1>2 DEF ServerTests, TypeOK, HandInv, InHand, MaxConnections
  <2>2. HandInv'
    BY <1>2 DEF ServerTests, HandInv, TypeOK, InHand, Open, TablesInv
  <2>3. TablesInv'
    BY <1>2 DEF ServerTests, HandInv, TypeOK, InHand, Open, TablesInv
  <2>4. SlotsInv'
    <3>1. \A x \in Conns : Owner(x)' = Owner(x)
      BY <1>2 DEF ServerTests, Owner, Handling, TypeOK, HandInv, InHand
    <3> QED BY <1>2, <3>1, SlotsFrame DEF ServerTests
  <2>5. CounterInv'
    <3>1. Live' = Live /\ Handling({"count"})' = Handling({"count"})
      BY <1>2 DEF ServerTests, Live, Handling, TypeOK, HandInv, InHand
    <3> QED BY <1>2, <3>1, CounterFrame DEF ServerTests
  <2>6. StopInv'
    BY <1>2 DEF ServerTests, StopInv, TypeOK, Live
  <2> QED BY <2>1, <2>2, <2>3, <2>4, <2>5, <2>6
<1>3. CASE ServerEnters
  <2>1. TypeOK'
    BY <1>3 DEF ServerEnters, TypeOK, HandInv, InHand, MaxConnections
  <2>2. HandInv'
    BY <1>3 DEF ServerEnters, HandInv, TypeOK, InHand, Open, TablesInv
  <2>3. TablesInv'
    BY <1>3 DEF ServerEnters, HandInv, TypeOK, InHand, Open, TablesInv
  <2>4. SlotsInv'
    <3>1. \A x \in Conns : Owner(x)' = Owner(x)
      BY <1>3 DEF ServerEnters, Owner, Handling, TypeOK, HandInv, InHand
    <3> QED BY <1>3, <3>1, SlotsFrame DEF ServerEnters
  <2>5. CounterInv'
    <3>1. Live' = Live /\ Handling({"count"})' = Handling({"count"})
      BY <1>3 DEF ServerEnters, Live, Handling, TypeOK, HandInv, InHand
    <3> QED BY <1>3, <3>1, CounterFrame DEF ServerEnters
  <2>6. StopInv'
    BY <1>3 DEF ServerEnters, StopInv, TypeOK, Live
  <2> QED BY <2>1, <2>2, <2>3, <2>4, <2>5, <2>6
<1>4. ASSUME NEW c \in Conns, ServerAccepts(c) PROVE SInv'
  <2>1. TypeOK'
    BY <1>4 DEF ServerAccepts, TypeOK, HandInv, InHand, MaxConnections
  <2>2. HandInv'
    BY <1>4 DEF ServerAccepts, HandInv, TypeOK, InHand, Open, TablesInv
  <2>3. TablesInv'
    BY <1>4 DEF ServerAccepts, HandInv, TypeOK, InHand, Open, TablesInv
  <2>4. SlotsInv'
    <3>1. \A x \in Conns : Owner(x)' = Owner(x)
      BY <1>4 DEF ServerAccepts, Owner, Handling, TypeOK, HandInv, InHand
    <3> QED BY <1>4, <3>1, SlotsFrame DEF ServerAccepts
  <2>5. CounterInv'
    <3>1. Live' = Live /\ Handling({"count"})' = Handling({"count"})
      BY <1>4 DEF ServerAccepts, Live, Handling, TypeOK, HandInv, InHand
    <3> QED BY <1>4, <3>1, CounterFrame DEF ServerAccepts
  <2>6. StopInv'
    BY <1>4 DEF ServerAccepts, StopInv, TypeOK, Live
  <2> QED BY <2>1, <2>2, <2>3, <2>4, <2>5, <2>6
<1>5. CASE AcceptFails
  <2>1. TypeOK'
    BY <1>5 DEF AcceptFails, TypeOK, HandInv, InHand, MaxConnections
  <2>2. HandInv'
    BY <1>5 DEF AcceptFails, HandInv, TypeOK, InHand, Open, TablesInv
  <2>3. TablesInv'
    BY <1>5 DEF AcceptFails, HandInv, TypeOK, InHand, Open, TablesInv
  <2>4. SlotsInv'
    <3>1. \A x \in Conns : Owner(x)' = Owner(x)
      BY <1>5 DEF AcceptFails, Owner, Handling, TypeOK, HandInv, InHand
    <3> QED BY <1>5, <3>1, SlotsFrame DEF AcceptFails
  <2>5. CounterInv'
    <3>1. Live' = Live /\ Handling({"count"})' = Handling({"count"})
      BY <1>5 DEF AcceptFails, Live, Handling, TypeOK, HandInv, InHand
    <3> QED BY <1>5, <3>1, CounterFrame DEF AcceptFails
  <2>6. StopInv'
    BY <1>5 DEF AcceptFails, StopInv, TypeOK, Live
  <2> QED BY <2>1, <2>2, <2>3, <2>4, <2>5, <2>6
<1>6. CASE AcceptInterrupted
  <2>1. TypeOK'
    BY <1>6 DEF AcceptInterrupted, TypeOK, HandInv, InHand, MaxConnections
  <2>2. HandInv'
    BY <1>6 DEF AcceptInterrupted, HandInv, TypeOK, InHand, Open, TablesInv
  <2>3. TablesInv'
    BY <1>6 DEF AcceptInterrupted, HandInv, TypeOK, InHand, Open, TablesInv
  <2>4. SlotsInv'
    <3>1. \A x \in Conns : Owner(x)' = Owner(x)
      BY <1>6 DEF AcceptInterrupted, Owner, Handling, TypeOK, HandInv, InHand
    <3> QED BY <1>6, <3>1, SlotsFrame DEF AcceptInterrupted
  <2>5. CounterInv'
    <3>1. Live' = Live /\ Handling({"count"})' = Handling({"count"})
      BY <1>6 DEF AcceptInterrupted, Live, Handling, TypeOK, HandInv, InHand
    <3> QED BY <1>6, <3>1, CounterFrame DEF AcceptInterrupted
  <2>6. StopInv'
    BY <1>6 DEF AcceptInterrupted, StopInv, TypeOK, Live
  <2> QED BY <2>1, <2>2, <2>3, <2>4, <2>5, <2>6
<1>7. CASE ServerChecks
  <2>1. TypeOK'
    <3>1. /\ thr' \in [Conns -> ThreadSteps]
          /\ running' \in [Conns -> BOOLEAN]
          /\ conSocket' \in [Conns -> BOOLEAN]
          /\ srv' \in ServerSteps
          /\ cur' \in Conns \cup {NoConn}
          /\ wire' \in [Conns -> {"absent", "pending", "quiet", "data", "finish", "closed"}]
      BY <1>7 DEF ServerChecks, TypeOK, HandInv, InHand
    <3>2. UNCHANGED <<state, socketSet, bound, slots, counter, listener, table, clients, told,
                      app, target, starts, worker, workerRun, workerEnd, fault>>
      BY <1>7 DEF ServerChecks
    <3> QED BY <3>1, <3>2 DEF TypeOK, MaxConnections
  <2>2. HandInv'
    BY <1>7 DEF ServerChecks, HandInv, TypeOK, InHand, Open, TablesInv
  <2>3. TablesInv'
    BY <1>7 DEF ServerChecks, HandInv, TypeOK, InHand, Open, TablesInv
  <2>4. SlotsInv'
    <3>1. \A x \in Conns : Owner(x)' = Owner(x)
      BY <1>7 DEF ServerChecks, Owner, Handling, TypeOK, HandInv, InHand
    <3> QED BY <1>7, <3>1, SlotsFrame DEF ServerChecks
  <2>5. CounterInv'
    <3>1. CASE ServerFull
      <4>1. Live' = Live /\ Handling({"count"})' = Handling({"count"}) /\ UNCHANGED <<counter, slots>>
        BY <1>7, <3>1 DEF ServerChecks, Live, Handling
      <4> QED BY <4>1, CounterFrame
    <3>2. CASE ~ServerFull
      <4>1. /\ Live' = Live \cup {cur} /\ cur \notin Live /\ Handling({"count"}) = {}
            /\ Handling({"count"})' = {cur} /\ UNCHANGED <<counter, slots>>
        BY <1>7, <3>2 DEF ServerChecks, Live, Handling, HandInv, InHand, TypeOK
      <4>2. counter = Cardinality(Live) /\ IsFiniteSet(Live) /\ Cardinality(Live) \in Nat
        BY <4>1, FS_CardinalityType DEF CounterInv
      <4>3. IsFiniteSet(Live') /\ Cardinality(Live') = Cardinality(Live) + 1
        BY <4>1, <4>2, FS_AddElement
      <4>4. Live' \ Handling({"count"})' = Live
        BY <4>1
      <4>5. counter < MaxConnections /\ MaxConnections' = MaxConnections /\ MaxConnections \in Nat
        BY <3>2, <4>1, SlotsNumbered DEF ServerFull, TypeOK, MaxConnections
      <4> QED BY <4>1, <4>2, <4>3, <4>4, <4>5 DEF CounterInv
    <3> QED BY <3>1, <3>2
  <2>6. StopInv'
    BY <1>7 DEF ServerChecks, StopInv, TypeOK, Live
  <2> QED BY <2>1, <2>2, <2>3, <2>4, <2>5, <2>6
<1>8. CASE ServerCounts
  <2>1. TypeOK'
    <3>1. counter' \in 0 .. MaxConnections
      <4>1. cur \in Live /\ Handling({"count"}) = {cur} /\ counter' = counter + 1
        BY <1>8 DEF ServerCounts, Live, Handling, HandInv, InHand
      <4>2. counter = Cardinality(Live \ {cur}) /\ IsFiniteSet(Live) /\ Cardinality(Live) \in Nat
            /\ MaxConnections \in Nat
        BY <4>1, FS_CardinalityType, SlotsNumbered DEF CounterInv
      <4>3. Cardinality(Live \ {cur}) = Cardinality(Live) - 1
        BY <4>1, <4>2, FS_RemoveElement
      <4> QED BY <4>1, <4>2, <4>3 DEF CounterInv, TypeOK
    <3>2. srv' = "add" /\ UNCHANGED <<state, socketSet, bound, slots, cur, connection, mapping, application,
                                      eventWorker, fault>>
      BY <1>8 DEF ServerCounts
    <3> QED BY <3>1, <3>2 DEF TypeOK, MaxConnections
  <2>2. HandInv'
    BY <1>8 DEF ServerCounts, HandInv, TypeOK, InHand, Open, TablesInv
  <2>3. TablesInv'
    BY <1>8 DEF ServerCounts, HandInv, TypeOK, InHand, Open, TablesInv
  <2>4. SlotsInv'
    <3>1. \A x \in Conns : Owner(x)' = Owner(x)
      BY <1>8 DEF ServerCounts, Owner, Handling, TypeOK, HandInv, InHand
    <3> QED BY <1>8, <3>1, SlotsFrame DEF ServerCounts
  <2>5. CounterInv'
    <3>1. /\ Live' = Live /\ cur \in Live /\ Handling({"count"}) = {cur}
          /\ Handling({"count"})' = {} /\ counter' = counter + 1 /\ UNCHANGED slots
      BY <1>8 DEF ServerCounts, Live, Handling, HandInv, InHand
    <3>2. counter = Cardinality(Live \ {cur}) /\ IsFiniteSet(Live) /\ Cardinality(Live) \in Nat
      BY <3>1, FS_CardinalityType DEF CounterInv
    <3>3. Cardinality(Live \ {cur}) = Cardinality(Live) - 1
      BY <3>1, <3>2, FS_RemoveElement
    <3>4. Live' \ Handling({"count"})' = Live
      BY <3>1
    <3>5. counter' = Cardinality(Live)
      BY <3>1, <3>2, <3>3
    <3>6. IsFiniteSet(Live') /\ Cardinality(Live') <= MaxConnections'
      BY <3>1 DEF CounterInv, MaxConnections
    <3> QED BY <3>4, <3>5, <3>6 DEF CounterInv
  <2>6. StopInv'
    BY <1>8 DEF ServerCounts, StopInv, TypeOK, Live
  <2> QED BY <2>1, <2>2, <2>3, <2>4, <2>5, <2>6
<1>9. CASE addClientConnection
  <2>1. TypeOK'
    <3>1. slots' \in [Slots -> Conns \cup {NoConn}]
      BY <1>9, SlotsNumbered DEF addClientConnection, TypeOK
    <3>2. slots' \in Seq(Conns \cup {NoConn}) /\ Slots' = Slots /\ MaxConnections' = MaxConnections
      BY <3>1, SlotsKept
    <3> QED BY <1>9, <3>2 DEF addClientConnection, TypeOK
  <2>2. HandInv'
    BY <1>9 DEF addClientConnection, HandInv, TypeOK, InHand, Open, TablesInv
  <2>3. TablesInv'
    BY <1>9 DEF addClientConnection, HandInv, TypeOK, InHand, Open, TablesInv
  <2>4. SlotsInv'
    <3>1. PICK i \in Slots : Free(i)
      BY <1>9, FreeSlot DEF addClientConnection
    <3>2. Slots' = Slots /\ cur \in Conns /\ Slots = 1 .. MaxConnections /\ MaxConnections \in Nat
      <4>1. slots' \in [Slots -> Conns \cup {NoConn}]
        BY <1>9, SlotsNumbered DEF addClientConnection, TypeOK
      <4> QED BY <1>9, <4>1, SlotsKept, SlotsNumbered DEF addClientConnection, HandInv, InHand
    <3>3. \A j \in Slots : Free(j) => j = i
      BY <3>1, <3>2 DEF Free
    <3>4. slots[i] = NoConn /\ \A j \in Slots : slots'[j] = IF j = i THEN cur ELSE slots[j]
      BY <1>9, <3>1, <3>3 DEF addClientConnection, Free
    <3>5. ~Owner(cur) /\ Owner(cur)' /\ \A d \in Conns \ {cur} : Owner(d)' = Owner(d)
      BY <1>9, <3>2 DEF addClientConnection, Owner, Handling, HandInv
    <3>6. \A j \in Slots : slots[j] # NoConn => slots[j] \in Conns \ {cur} /\ Owner(slots[j])
      BY <3>5, SlotsNumbered DEF SlotsInv
    <3>7. \A j \in Slots, d \in Conns : slots'[j] = d => Owner(d)'
      <4> TAKE j \in Slots, d \in Conns
      <4> HAVE slots'[j] = d
      <4>1. CASE j = i
        <5>1. d = cur
          BY <3>4, <4>1
        <5>2. cur' = cur
          BY <1>9 DEF addClientConnection
        <5> QED BY <3>5, <5>1, <5>2 DEF Owner, Handling
      <4>2. CASE j # i
        <5>1. slots[j] = d /\ d # NoConn
          BY <3>4, <4>2
        <5> HIDE DEF Owner
        <5> QED BY <3>5, <3>6, <5>1
      <4> QED BY <4>1, <4>2
    <3>8. \A j, k \in Slots : slots'[j] = slots'[k] /\ slots'[j] # NoConn => j = k
      BY <3>4, <3>6 DEF SlotsInv
    <3>9. \A d \in Conns : Owner(d)' => \E j \in Slots : slots'[j] = d
      <4> TAKE d \in Conns
      <4> HAVE Owner(d)'
      <4>1. CASE d = cur
        BY <3>4, <4>1
      <4>2. CASE d # cur
        <5>1. Owner(d)
          BY <3>5, <4>2
        <5>2. PICK j \in Slots : slots[j] = d
          BY <5>1 DEF SlotsInv
        <5> QED BY <3>4, <5>2
      <4> QED BY <4>1, <4>2
    <3> QED BY <3>2, <3>7, <3>8, <3>9 DEF SlotsInv
  <2>5. CounterInv'
    <3>1. Live' = Live /\ Handling({"count"})' = Handling({"count"}) /\ UNCHANGED counter
      BY <1>9 DEF addClientConnection, Live, Handling
    <3>2. MaxConnections' = MaxConnections
      <4>1. slots' \in [Slots -> Conns \cup {NoConn}]
        BY <1>9, SlotsNumbered DEF addClientConnection, TypeOK
      <4> QED BY <4>1, SlotsKept
    <3> QED BY <3>1, <3>2 DEF CounterInv
  <2>6. StopInv'
    BY <1>9 DEF addClientConnection, StopInv, TypeOK, Live
  <2> QED BY <2>1, <2>2, <2>3, <2>4, <2>5, <2>6
<1>10. CASE ServerInstallsListener
  <2>1. TypeOK'
    BY <1>10 DEF ServerInstallsListener, TypeOK, HandInv, InHand, MaxConnections
  <2>2. HandInv'
    BY <1>10 DEF ServerInstallsListener, HandInv, TypeOK, InHand, Open, TablesInv
  <2>3. TablesInv'
    BY <1>10 DEF ServerInstallsListener, HandInv, TypeOK, InHand, Open, TablesInv
  <2>4. SlotsInv'
    <3>1. \A x \in Conns : Owner(x)' = Owner(x)
      BY <1>10 DEF ServerInstallsListener, Owner, Handling, TypeOK, HandInv, InHand
    <3> QED BY <1>10, <3>1, SlotsFrame DEF ServerInstallsListener
  <2>5. CounterInv'
    <3>1. Live' = Live /\ Handling({"count"})' = Handling({"count"})
      BY <1>10 DEF ServerInstallsListener, Live, Handling, TypeOK, HandInv, InHand
    <3> QED BY <1>10, <3>1, CounterFrame DEF ServerInstallsListener
  <2>6. StopInv'
    BY <1>10 DEF ServerInstallsListener, StopInv, TypeOK, Live
  <2> QED BY <2>1, <2>2, <2>3, <2>4, <2>5, <2>6
<1>11. CASE ServerMaps
  <2>1. TypeOK'
    BY <1>11 DEF ServerMaps, TypeOK, HandInv, InHand, MaxConnections
  <2>2. HandInv'
    BY <1>11 DEF ServerMaps, HandInv, TypeOK, InHand, Open, TablesInv
  <2>3. TablesInv'
    BY <1>11 DEF ServerMaps, HandInv, TypeOK, InHand, Open, TablesInv
  <2>4. SlotsInv'
    <3>1. \A x \in Conns : Owner(x)' = Owner(x)
      BY <1>11 DEF ServerMaps, Owner, Handling, TypeOK, HandInv, InHand
    <3> QED BY <1>11, <3>1, SlotsFrame DEF ServerMaps
  <2>5. CounterInv'
    <3>1. Live' = Live /\ Handling({"count"})' = Handling({"count"})
      BY <1>11 DEF ServerMaps, Live, Handling, TypeOK, HandInv, InHand
    <3> QED BY <1>11, <3>1, CounterFrame DEF ServerMaps
  <2>6. StopInv'
    BY <1>11 DEF ServerMaps, StopInv, TypeOK, Live
  <2> QED BY <2>1, <2>2, <2>3, <2>4, <2>5, <2>6
<1>12. CASE ServerAddsClient
  <2>1. TypeOK'
    BY <1>12 DEF ServerAddsClient, TypeOK, HandInv, InHand, MaxConnections
  <2>2. HandInv'
    BY <1>12 DEF ServerAddsClient, HandInv, TypeOK, InHand, Open, TablesInv
  <2>3. TablesInv'
    BY <1>12 DEF ServerAddsClient, HandInv, TypeOK, InHand, Open, TablesInv
  <2>4. SlotsInv'
    <3>1. \A x \in Conns : Owner(x)' = Owner(x)
      BY <1>12 DEF ServerAddsClient, Owner, Handling, TypeOK, HandInv, InHand
    <3> QED BY <1>12, <3>1, SlotsFrame DEF ServerAddsClient
  <2>5. CounterInv'
    <3>1. Live' = Live /\ Handling({"count"})' = Handling({"count"})
      BY <1>12 DEF ServerAddsClient, Live, Handling, TypeOK, HandInv, InHand
    <3> QED BY <1>12, <3>1, CounterFrame DEF ServerAddsClient
  <2>6. StopInv'
    BY <1>12 DEF ServerAddsClient, StopInv, TypeOK, Live
  <2> QED BY <2>1, <2>2, <2>3, <2>4, <2>5, <2>6
<1>13. CASE ServerInforms
  <2>1. TypeOK'
    BY <1>13 DEF ServerInforms, TypeOK, HandInv, InHand, MaxConnections
  <2>2. HandInv'
    BY <1>13 DEF ServerInforms, HandInv, TypeOK, InHand, Open, TablesInv
  <2>3. TablesInv'
    BY <1>13 DEF ServerInforms, HandInv, TypeOK, InHand, Open, TablesInv
  <2>4. SlotsInv'
    <3>1. \A x \in Conns : Owner(x)' = Owner(x)
      BY <1>13 DEF ServerInforms, Owner, Handling, TypeOK, HandInv, InHand
    <3> QED BY <1>13, <3>1, SlotsFrame DEF ServerInforms
  <2>5. CounterInv'
    <3>1. Live' = Live /\ Handling({"count"})' = Handling({"count"})
      BY <1>13 DEF ServerInforms, Live, Handling, TypeOK, HandInv, InHand
    <3> QED BY <1>13, <3>1, CounterFrame DEF ServerInforms
  <2>6. StopInv'
    BY <1>13 DEF ServerInforms, StopInv, TypeOK, Live
  <2> QED BY <2>1, <2>2, <2>3, <2>4, <2>5, <2>6
<1>14. CASE ServerLeaves
  <2>1. TypeOK'
    BY <1>14 DEF ServerLeaves, TypeOK, HandInv, InHand, MaxConnections
  <2>2. HandInv'
    BY <1>14 DEF ServerLeaves, HandInv, TypeOK, InHand, Open, TablesInv
  <2>3. TablesInv'
    BY <1>14 DEF ServerLeaves, HandInv, TypeOK, InHand, Open, TablesInv
  <2>4. SlotsInv'
    <3>1. \A x \in Conns : Owner(x)' = Owner(x)
      BY <1>14 DEF ServerLeaves, Owner, Handling, TypeOK, HandInv, InHand
    <3> QED BY <1>14, <3>1, SlotsFrame DEF ServerLeaves
  <2>5. CounterInv'
    <3>1. Live' = Live /\ Handling({"count"})' = Handling({"count"})
      BY <1>14 DEF ServerLeaves, Live, Handling, TypeOK, HandInv, InHand
    <3> QED BY <1>14, <3>1, CounterFrame DEF ServerLeaves
  <2>6. StopInv'
    BY <1>14 DEF ServerLeaves, StopInv, TypeOK, Live
  <2> QED BY <2>1, <2>2, <2>3, <2>4, <2>5, <2>6
<1>15. CASE ServerExits
  <2>1. TypeOK'
    <3>1. /\ socketSet' \in BOOLEAN
          /\ srv' \in ServerSteps
      BY <1>15 DEF ServerExits, TypeOK
    <3>2. UNCHANGED <<state, bound, slots, counter, cur, thr, running, conSocket, listener, wire,
                      table, clients, told, app, target, starts, worker, workerRun, workerEnd, fault>>
      BY <1>15 DEF ServerExits
    <3> QED BY <3>1, <3>2 DEF TypeOK, MaxConnections
  <2>2. HandInv'
    BY <1>15 DEF ServerExits, HandInv, TypeOK, InHand, Open, TablesInv
  <2>3. TablesInv'
    BY <1>15 DEF ServerExits, HandInv, TypeOK, InHand, Open, TablesInv
  <2>4. SlotsInv'
    <3>1. \A x \in Conns : Owner(x)' = Owner(x)
      BY <1>15 DEF ServerExits, Owner, Handling, TypeOK, HandInv, InHand
    <3> QED BY <1>15, <3>1, SlotsFrame DEF ServerExits
  <2>5. CounterInv'
    <3>1. Live' = Live /\ Handling({"count"})' = Handling({"count"})
      BY <1>15 DEF ServerExits, Live, Handling, TypeOK, HandInv, InHand
    <3> QED BY <1>15, <3>1, CounterFrame DEF ServerExits
  <2>6. StopInv'
    BY <1>15 DEF ServerExits, StopInv, TypeOK, Live
  <2> QED BY <2>1, <2>2, <2>3, <2>4, <2>5, <2>6
<1> QED BY <1>1, <1>2, <1>3, <1>4, <1>5, <1>6, <1>7, <1>8, <1>9, <1>10, <1>11, <1>12, <1>13, <1>14, <1>15 DEF ServerThread

(* The thread of a connection.                                             *)
LEMMA ThreadSInv ==
  ASSUME SInv, NEW c \in Conns, ConnectionThread(c)
  PROVE  SInv'
<1> USE LimitsAssumption, MaxStartsAssumption, NoConnAssumption
    DEF SInv, isoServer, accept, connection, mapping, application, eventWorker, ThreadSteps, ServerSteps,
        AppSteps
<1>1. CASE ThreadWaits(c)
  <2>1. TypeOK'
    BY <1>1 DEF ThreadWaits, Step, TypeOK, HandInv, InHand, MaxConnections
  <2>2. HandInv'
    BY <1>1 DEF ThreadWaits, Step, HandInv, TypeOK, InHand, Open, TablesInv
  <2>3. TablesInv'
    BY <1>1 DEF ThreadWaits, Step, HandInv, TypeOK, InHand, Open, TablesInv
  <2>4. SlotsInv'
    <3>1. \A x \in Conns : Owner(x)' = Owner(x)
      BY <1>1 DEF ThreadWaits, Step, Owner, Handling, TypeOK, HandInv, InHand
    <3> QED BY <1>1, <3>1, SlotsFrame DEF ThreadWaits, Step
  <2>5. CounterInv'
    <3>1. Live' = Live /\ Handling({"count"})' = Handling({"count"})
      BY <1>1 DEF ThreadWaits, Step, Live, Handling, TypeOK, HandInv, InHand
    <3> QED BY <1>1, <3>1, CounterFrame DEF ThreadWaits, Step
  <2>6. StopInv'
    BY <1>1 DEF ThreadWaits, Step, StopInv, TypeOK, Live
  <2> QED BY <2>1, <2>2, <2>3, <2>4, <2>5, <2>6
<1>2. CASE ThreadTests(c)
  <2>1. TypeOK'
    BY <1>2 DEF ThreadTests, Step, TypeOK, HandInv, InHand, MaxConnections
  <2>2. HandInv'
    BY <1>2 DEF ThreadTests, Step, HandInv, TypeOK, InHand, Open, TablesInv
  <2>3. TablesInv'
    BY <1>2 DEF ThreadTests, Step, HandInv, TypeOK, InHand, Open, TablesInv
  <2>4. SlotsInv'
    <3>1. \A x \in Conns : Owner(x)' = Owner(x)
      BY <1>2 DEF ThreadTests, Step, Owner, Handling, TypeOK, HandInv, InHand
    <3> QED BY <1>2, <3>1, SlotsFrame DEF ThreadTests, Step
  <2>5. CounterInv'
    <3>1. Live' = Live /\ Handling({"count"})' = Handling({"count"})
      BY <1>2 DEF ThreadTests, Step, Live, Handling, TypeOK, HandInv, InHand
    <3> QED BY <1>2, <3>1, CounterFrame DEF ThreadTests, Step
  <2>6. StopInv'
    BY <1>2 DEF ThreadTests, Step, StopInv, TypeOK, Live
  <2> QED BY <2>1, <2>2, <2>3, <2>4, <2>5, <2>6
<1>3. CASE ThreadReceives(c)
  <2>1. TypeOK'
    <3>1. /\ thr' \in [Conns -> ThreadSteps]
          /\ wire' \in [Conns -> {"absent", "pending", "quiet", "data", "finish", "closed"}]
          /\ running' \in [Conns -> BOOLEAN]
      BY <1>3 DEF ThreadReceives, Step, TypeOK
    <3>2. UNCHANGED <<state, socketSet, bound, slots, counter, srv, cur, conSocket, listener,
                      table, clients, told, app, target, starts, worker, workerRun, workerEnd, fault>>
      BY <1>3 DEF ThreadReceives, Step
    <3> QED BY <3>1, <3>2 DEF TypeOK, MaxConnections
  <2>2. HandInv'
    <3>1. CASE wire[c] = "data"
      BY <1>3, <3>1 DEF ThreadReceives, Step, HandInv, TypeOK, InHand, Open
    <3>2. CASE wire[c] # "data"
      BY <1>3, <3>2 DEF ThreadReceives, Step, HandInv, TypeOK, InHand, Open
    <3> QED BY <3>1, <3>2
  <2>3. TablesInv'
    BY <1>3 DEF ThreadReceives, Step, HandInv, TypeOK, InHand, Open, TablesInv
  <2>4. SlotsInv'
    <3>1. \A x \in Conns : Owner(x)' = Owner(x)
      BY <1>3 DEF ThreadReceives, Step, Owner, Handling, TypeOK, HandInv, InHand
    <3> QED BY <1>3, <3>1, SlotsFrame DEF ThreadReceives, Step
  <2>5. CounterInv'
    <3>1. Live' = Live /\ Handling({"count"})' = Handling({"count"})
      BY <1>3 DEF ThreadReceives, Step, Live, Handling, TypeOK, HandInv, InHand
    <3> QED BY <1>3, <3>1, CounterFrame DEF ThreadReceives, Step
  <2>6. StopInv'
    BY <1>3 DEF ThreadReceives, Step, StopInv, TypeOK, Live
  <2> QED BY <2>1, <2>2, <2>3, <2>4, <2>5, <2>6
<1>4. CASE ThreadHandles(c)
  <2>1. TypeOK'
    BY <1>4 DEF ThreadHandles, Step, TypeOK, HandInv, InHand, MaxConnections
  <2>2. HandInv'
    BY <1>4 DEF ThreadHandles, Step, HandInv, TypeOK, InHand, Open, TablesInv
  <2>3. TablesInv'
    BY <1>4 DEF ThreadHandles, Step, HandInv, TypeOK, InHand, Open, TablesInv
  <2>4. SlotsInv'
    <3>1. \A x \in Conns : Owner(x)' = Owner(x)
      BY <1>4 DEF ThreadHandles, Step, Owner, Handling, TypeOK, HandInv, InHand
    <3> QED BY <1>4, <3>1, SlotsFrame DEF ThreadHandles, Step
  <2>5. CounterInv'
    <3>1. Live' = Live /\ Handling({"count"})' = Handling({"count"})
      BY <1>4 DEF ThreadHandles, Step, Live, Handling, TypeOK, HandInv, InHand
    <3> QED BY <1>4, <3>1, CounterFrame DEF ThreadHandles, Step
  <2>6. StopInv'
    BY <1>4 DEF ThreadHandles, Step, StopInv, TypeOK, Live
  <2> QED BY <2>1, <2>2, <2>3, <2>4, <2>5, <2>6
<1>5. CASE ThreadCloses(c)
  <2>1. TypeOK'
    <3>0. told' \in [Conns \cup {NoConn} -> Seq(BOOLEAN)]
      <4>1. \A d \in Conns \cup {NoConn} : Append(told[d], FALSE) \in Seq(BOOLEAN)
        BY ToldLonger DEF TypeOK
      <4>2. \E d \in Conns \cup {NoConn} : told' \in {told, [told EXCEPT ![d] = Append(@, FALSE)]}
        BY <1>5 DEF ThreadCloses
      <4>3. told \in [Conns \cup {NoConn} -> Seq(BOOLEAN)]
        BY DEF TypeOK
      <4> QED BY <4>1, <4>2, <4>3
    <3>1. /\ thr' \in [Conns -> ThreadSteps]
          /\ table' \subseteq Conns
          /\ told' \in [Conns \cup {NoConn} -> Seq(BOOLEAN)]
          /\ fault' \in {"none", "null", "freed"}
      BY <1>5, <3>0 DEF ThreadCloses, Step, TypeOK
    <3>2. UNCHANGED <<state, socketSet, bound, slots, counter, srv, cur, running, conSocket,
                      listener, wire, clients, app, target, starts, worker, workerRun, workerEnd>>
      BY <1>5 DEF ThreadCloses, Step
    <3> QED BY <3>1, <3>2 DEF TypeOK, MaxConnections
  <2>2. HandInv'
    BY <1>5 DEF ThreadCloses, Step, HandInv, TypeOK, InHand, Open, TablesInv
  <2>3. TablesInv'
    BY <1>5 DEF ThreadCloses, Step, HandInv, TypeOK, InHand, Open, TablesInv
  <2>4. SlotsInv'
    <3>1. \A x \in Conns : Owner(x)' = Owner(x)
      BY <1>5 DEF ThreadCloses, Step, Owner, Handling, TypeOK, HandInv, InHand
    <3> QED BY <1>5, <3>1, SlotsFrame DEF ThreadCloses, Step
  <2>5. CounterInv'
    <3>1. Live' = Live /\ Handling({"count"})' = Handling({"count"})
      BY <1>5 DEF ThreadCloses, Step, Live, Handling, TypeOK, HandInv, InHand
    <3> QED BY <1>5, <3>1, CounterFrame DEF ThreadCloses, Step
  <2>6. StopInv'
    BY <1>5 DEF ThreadCloses, Step, StopInv, TypeOK, Live
  <2> QED BY <2>1, <2>2, <2>3, <2>4, <2>5, <2>6
<1>6. CASE ThreadInforms(c)
  <2>1. TypeOK'
    <3>0. told' \in [Conns \cup {NoConn} -> Seq(BOOLEAN)]
      <4>1. \A d \in Conns \cup {NoConn} : Append(told[d], FALSE) \in Seq(BOOLEAN)
        BY ToldLonger DEF TypeOK
      <4>2. \E d \in Conns \cup {NoConn} : told' \in {told, [told EXCEPT ![d] = Append(@, FALSE)]}
        BY <1>6 DEF ThreadInforms
      <4>3. told \in [Conns \cup {NoConn} -> Seq(BOOLEAN)]
        BY DEF TypeOK
      <4> QED BY <4>1, <4>2, <4>3
    <3>1. /\ thr' \in [Conns -> ThreadSteps]
          /\ told' \in [Conns \cup {NoConn} -> Seq(BOOLEAN)]
          /\ fault' \in {"none", "null", "freed"}
      BY <1>6, <3>0 DEF ThreadInforms, Step, TypeOK
    <3>2. UNCHANGED <<state, socketSet, bound, slots, counter, srv, cur, running, conSocket,
                      listener, wire, table, clients, app, target, starts, worker, workerRun, workerEnd>>
      BY <1>6 DEF ThreadInforms, Step
    <3> QED BY <3>1, <3>2 DEF TypeOK, MaxConnections
  <2>2. HandInv'
    BY <1>6 DEF ThreadInforms, Step, HandInv, TypeOK, InHand, Open, TablesInv
  <2>3. TablesInv'
    BY <1>6 DEF ThreadInforms, Step, HandInv, TypeOK, InHand, Open, TablesInv
  <2>4. SlotsInv'
    <3>1. \A x \in Conns : Owner(x)' = Owner(x)
      BY <1>6 DEF ThreadInforms, Step, Owner, Handling, TypeOK, HandInv, InHand
    <3> QED BY <1>6, <3>1, SlotsFrame DEF ThreadInforms, Step
  <2>5. CounterInv'
    <3>1. Live' = Live /\ Handling({"count"})' = Handling({"count"})
      BY <1>6 DEF ThreadInforms, Step, Live, Handling, TypeOK, HandInv, InHand
    <3> QED BY <1>6, <3>1, CounterFrame DEF ThreadInforms, Step
  <2>6. StopInv'
    BY <1>6 DEF ThreadInforms, Step, StopInv, TypeOK, Live
  <2> QED BY <2>1, <2>2, <2>3, <2>4, <2>5, <2>6
<1>7. CASE ThreadForgets(c)
  <2>1. TypeOK'
    BY <1>7 DEF ThreadForgets, Step, TypeOK, HandInv, InHand, MaxConnections
  <2>2. HandInv'
    BY <1>7 DEF ThreadForgets, Step, HandInv, TypeOK, InHand, Open, TablesInv
  <2>3. TablesInv'
    BY <1>7 DEF ThreadForgets, Step, HandInv, TypeOK, InHand, Open, TablesInv
  <2>4. SlotsInv'
    <3>1. \A x \in Conns : Owner(x)' = Owner(x)
      BY <1>7 DEF ThreadForgets, Step, Owner, Handling, TypeOK, HandInv, InHand
    <3> QED BY <1>7, <3>1, SlotsFrame DEF ThreadForgets, Step
  <2>5. CounterInv'
    <3>1. Live' = Live /\ Handling({"count"})' = Handling({"count"})
      BY <1>7 DEF ThreadForgets, Step, Live, Handling, TypeOK, HandInv, InHand
    <3> QED BY <1>7, <3>1, CounterFrame DEF ThreadForgets, Step
  <2>6. StopInv'
    BY <1>7 DEF ThreadForgets, Step, StopInv, TypeOK, Live
  <2> QED BY <2>1, <2>2, <2>3, <2>4, <2>5, <2>6
<1>8. CASE ThreadReleases(c)
  <2>1. TypeOK'
    BY <1>8 DEF ThreadReleases, Step, TypeOK, HandInv, InHand, MaxConnections
  <2>2. HandInv'
    BY <1>8 DEF ThreadReleases, Step, HandInv, TypeOK, InHand, Open, TablesInv
  <2>3. TablesInv'
    BY <1>8 DEF ThreadReleases, Step, HandInv, TypeOK, InHand, Open, TablesInv
  <2>4. SlotsInv'
    <3>1. \A x \in Conns : Owner(x)' = Owner(x)
      BY <1>8 DEF ThreadReleases, Step, Owner, Handling, TypeOK, HandInv, InHand
    <3> QED BY <1>8, <3>1, SlotsFrame DEF ThreadReleases, Step
  <2>5. CounterInv'
    <3>1. Live' = Live /\ Handling({"count"})' = Handling({"count"})
      BY <1>8 DEF ThreadReleases, Step, Live, Handling, TypeOK, HandInv, InHand
    <3> QED BY <1>8, <3>1, CounterFrame DEF ThreadReleases, Step
  <2>6. StopInv'
    BY <1>8 DEF ThreadReleases, Step, StopInv, TypeOK, Live
  <2> QED BY <2>1, <2>2, <2>3, <2>4, <2>5, <2>6
<1>9. CASE removeClientConnection(c)
  <2>1. TypeOK'
    <3>1. slots' \in [Slots -> Conns \cup {NoConn}]
      BY <1>9, SlotsNumbered DEF removeClientConnection
    <3>2. slots' \in Seq(Conns \cup {NoConn}) /\ Slots' = Slots /\ MaxConnections' = MaxConnections
      BY <3>1, SlotsKept
    <3> QED BY <1>9, <3>2 DEF removeClientConnection, Step, TypeOK
  <2>2. HandInv'
    BY <1>9 DEF removeClientConnection, Step, HandInv, TypeOK, InHand, Open, TablesInv
  <2>3. TablesInv'
    BY <1>9 DEF removeClientConnection, Step, HandInv, TypeOK, InHand, Open, TablesInv
  <2>4. SlotsInv'
    <3>1. Slots' = Slots
      <4>1. slots' \in [Slots -> Conns \cup {NoConn}]
        BY <1>9, SlotsNumbered DEF removeClientConnection
      <4> QED BY <4>1, SlotsKept
    <3>2. \A j \in Slots : slots'[j] = IF slots[j] = c THEN NoConn ELSE slots[j]
      BY <1>9 DEF removeClientConnection
    <3>3. ~Owner(c)' /\ \A d \in Conns \ {c} : Owner(d)' = Owner(d)
      BY <1>9 DEF removeClientConnection, Step, Owner, Handling, TypeOK
    <3>4. \A j \in Slots : slots[j] # NoConn => slots[j] \in Conns
      BY SlotsNumbered
    <3>5. \A j \in Slots, d \in Conns : slots'[j] = d => Owner(d)'
      <4> TAKE j \in Slots, d \in Conns
      <4> HAVE slots'[j] = d
      <4>1. slots[j] = d /\ d # c
        BY <3>2
      <4>2. Owner(d)
        BY <4>1 DEF SlotsInv
      <4> QED BY <3>3, <4>1, <4>2
    <3>6. \A j, k \in Slots : slots'[j] = slots'[k] /\ slots'[j] # NoConn => j = k
      BY <3>2 DEF SlotsInv
    <3>7. \A d \in Conns : Owner(d)' => \E j \in Slots : slots'[j] = d
      <4> TAKE d \in Conns
      <4> HAVE Owner(d)'
      <4>1. d # c /\ Owner(d)
        BY <3>3
      <4>2. PICK j \in Slots : slots[j] = d
        BY <4>1 DEF SlotsInv
      <4> QED BY <3>2, <4>1, <4>2
    <3> QED BY <3>1, <3>5, <3>6, <3>7 DEF SlotsInv
  <2>5. CounterInv'
    <3>1. Live' = Live /\ Handling({"count"})' = Handling({"count"}) /\ UNCHANGED counter
      BY <1>9 DEF removeClientConnection, Step, Live, Handling, TypeOK
    <3>2. MaxConnections' = MaxConnections
      <4>1. slots' \in [Slots -> Conns \cup {NoConn}]
        BY <1>9, SlotsNumbered DEF removeClientConnection
      <4> QED BY <4>1, SlotsKept
    <3> QED BY <3>1, <3>2 DEF CounterInv
  <2>6. StopInv'
    BY <1>9 DEF removeClientConnection, Step, StopInv, TypeOK, Live
  <2> QED BY <2>1, <2>2, <2>3, <2>4, <2>5, <2>6
<1>10. CASE ThreadFrees(c)
  <2>1. TypeOK'
    BY <1>10 DEF ThreadFrees, Step, TypeOK, HandInv, InHand, MaxConnections
  <2>2. HandInv'
    BY <1>10 DEF ThreadFrees, Step, HandInv, TypeOK, InHand, Open, TablesInv
  <2>3. TablesInv'
    BY <1>10 DEF ThreadFrees, Step, HandInv, TypeOK, InHand, Open, TablesInv
  <2>4. SlotsInv'
    <3>1. \A x \in Conns : Owner(x)' = Owner(x)
      BY <1>10 DEF ThreadFrees, Step, Owner, Handling, TypeOK, HandInv, InHand
    <3> QED BY <1>10, <3>1, SlotsFrame DEF ThreadFrees, Step
  <2>5. CounterInv'
    <3>1. Live' = Live /\ Handling({"count"})' = Handling({"count"})
      BY <1>10 DEF ThreadFrees, Step, Live, Handling, TypeOK, HandInv, InHand
    <3> QED BY <1>10, <3>1, CounterFrame DEF ThreadFrees, Step
  <2>6. StopInv'
    BY <1>10 DEF ThreadFrees, Step, StopInv, TypeOK, Live
  <2> QED BY <2>1, <2>2, <2>3, <2>4, <2>5, <2>6
<1>11. CASE ThreadDecreases(c)
  <2>1. TypeOK'
    <3>1. counter' \in 0 .. MaxConnections
      <4> DEFINE counted == Live \ Handling({"count"})
      <4>1. c \in counted /\ counter' = counter - 1
        BY <1>11 DEF ThreadDecreases, Step, Live, Handling, HandInv, TypeOK
      <4>2. counter = Cardinality(counted) /\ IsFiniteSet(counted)
        BY FS_Subset DEF CounterInv
      <4> HIDE DEF counted
      <4>3. Cardinality(counted) # 0
        BY <4>1, <4>2, FS_EmptySet
      <4> QED BY <4>1, <4>2, <4>3 DEF TypeOK
    <3>2. thr' \in [Conns -> ThreadSteps]
          /\ UNCHANGED <<state, socketSet, bound, slots, accept, running, conSocket, listener, wire, mapping,
                         application, eventWorker, fault>>
      BY <1>11 DEF ThreadDecreases, Step, TypeOK
    <3> QED BY <3>1, <3>2 DEF TypeOK, MaxConnections
  <2>2. HandInv'
    BY <1>11 DEF ThreadDecreases, Step, HandInv, TypeOK, InHand, Open, TablesInv
  <2>3. TablesInv'
    BY <1>11 DEF ThreadDecreases, Step, HandInv, TypeOK, InHand, Open, TablesInv
  <2>4. SlotsInv'
    <3>1. \A x \in Conns : Owner(x)' = Owner(x)
      BY <1>11 DEF ThreadDecreases, Step, Owner, Handling, TypeOK, HandInv, InHand
    <3> QED BY <1>11, <3>1, SlotsFrame DEF ThreadDecreases, Step
  <2>5. CounterInv'
    <3>1. /\ Live' = Live \ {c} /\ c \in Live /\ c \notin Handling({"count"})
          /\ Handling({"count"})' = Handling({"count"}) /\ counter' = counter - 1 /\ UNCHANGED slots
      BY <1>11 DEF ThreadDecreases, Step, Live, Handling, HandInv, TypeOK
    <3> DEFINE counted == Live \ Handling({"count"})
    <3>2. /\ IsFiniteSet(Live) /\ IsFiniteSet(counted) /\ c \in counted /\ counter = Cardinality(counted)
          /\ Cardinality(Live) \in Nat /\ Cardinality(counted) \in Nat
      BY <3>1, FS_Subset, FS_CardinalityType DEF CounterInv
    <3>3. Live' \ Handling({"count"})' = counted \ {c}
      BY <3>1
    <3>4. IsFiniteSet(Live') /\ Cardinality(Live') = Cardinality(Live) - 1
      BY <3>1, <3>2, FS_RemoveElement
    <3>5. Cardinality(counted \ {c}) = Cardinality(counted) - 1
      <4> HIDE DEF counted
      <4> QED BY <3>2, FS_RemoveElement
    <3>6. counter' = Cardinality(counted \ {c})
      BY <3>1, <3>2, <3>5
    <3>7. MaxConnections' = MaxConnections /\ MaxConnections \in Nat
      BY <3>1, SlotsNumbered DEF MaxConnections
    <3>8. Cardinality(Live') <= MaxConnections'
      BY <3>2, <3>4, <3>7 DEF CounterInv
    <3> QED BY <3>3, <3>4, <3>6, <3>8 DEF CounterInv
  <2>6. StopInv'
    <3>1. c \in Live /\ Live' \subseteq Live
      BY <1>11 DEF ThreadDecreases, Step, Live, TypeOK
    <3> QED BY <1>11, <3>1 DEF ThreadDecreases, StopInv, TypeOK
  <2> QED BY <2>1, <2>2, <2>3, <2>4, <2>5, <2>6
<1> QED BY <1>1, <1>2, <1>3, <1>4, <1>5, <1>6, <1>7, <1>8, <1>9, <1>10, <1>11 DEF ConnectionThread

(* The event worker and the application.                                   *)
LEMMA OtherSInv ==
  ASSUME SInv, WorkerThread \/ Application \/ MmsMapping_stopEventWorkerThread
  PROVE  SInv'
<1> USE LimitsAssumption, MaxStartsAssumption, NoConnAssumption
    DEF SInv, isoServer, accept, connection, mapping, application, eventWorker, ThreadSteps, ServerSteps,
        AppSteps
<1>1. CASE WorkerBegins
  <2>1. TypeOK'
    <3>1. /\ workerEnd' \in BOOLEAN
          /\ worker' \in {"none", "begin", "cycle", "end", "done"}
      BY <1>1 DEF WorkerBegins, TypeOK
    <3>2. UNCHANGED <<state, socketSet, bound, slots, counter, srv, cur, thr, running, conSocket,
                      listener, wire, table, clients, told, app, target, starts, workerRun, fault>>
      BY <1>1 DEF WorkerBegins
    <3> QED BY <3>1, <3>2 DEF TypeOK, MaxConnections
  <2>2. HandInv' /\ TablesInv' /\ SlotsInv' /\ CounterInv' /\ Live' = Live
    BY <1>1, QuietStep DEF WorkerBegins, TypeOK
  <2>3. StopInv'
    BY <1>1, <2>2 DEF WorkerBegins, StopInv, TypeOK
  <2> QED BY <2>1, <2>2, <2>3
<1>2. CASE WorkerCycles
  <2>1. TypeOK'
    BY <1>2 DEF WorkerCycles, TypeOK, HandInv, InHand, MaxConnections
  <2>2. HandInv' /\ TablesInv' /\ SlotsInv' /\ CounterInv' /\ Live' = Live
    BY <1>2, QuietStep DEF WorkerCycles, TypeOK
  <2>3. StopInv'
    BY <1>2, <2>2 DEF WorkerCycles, StopInv, TypeOK
  <2> QED BY <2>1, <2>2, <2>3
<1>3. CASE WorkerEnds
  <2>1. TypeOK'
    BY <1>3 DEF WorkerEnds, TypeOK, HandInv, InHand, MaxConnections
  <2>2. HandInv' /\ TablesInv' /\ SlotsInv' /\ CounterInv' /\ Live' = Live
    BY <1>3, QuietStep DEF WorkerEnds, TypeOK
  <2>3. StopInv'
    BY <1>3, <2>2 DEF WorkerEnds, StopInv, TypeOK
  <2> QED BY <2>1, <2>2, <2>3
<1>4. CASE AppStarted
  <2>1. TypeOK'
    BY <1>4 DEF AppStarted, TypeOK, HandInv, InHand, MaxConnections
  <2>2. HandInv' /\ TablesInv' /\ SlotsInv' /\ CounterInv' /\ Live' = Live
    BY <1>4, QuietStep DEF AppStarted, TypeOK
  <2>3. StopInv'
    BY <1>4, <2>2 DEF AppStarted, StopInv, TypeOK
  <2> QED BY <2>1, <2>2, <2>3
<1>5. CASE MmsMapping_startEventWorkerThread
  <2>1. TypeOK'
    BY <1>5 DEF MmsMapping_startEventWorkerThread, TypeOK, HandInv, InHand, MaxConnections
  <2>2. HandInv' /\ TablesInv' /\ SlotsInv' /\ CounterInv' /\ Live' = Live
    BY <1>5, QuietStep DEF MmsMapping_startEventWorkerThread, TypeOK
  <2>3. StopInv'
    BY <1>5, <2>2 DEF MmsMapping_startEventWorkerThread, StopInv, TypeOK
  <2> QED BY <2>1, <2>2, <2>3
<1>6. CASE MmsMapping_stopEventWorkerThread
  <2>1. TypeOK'
    <3>1. /\ workerRun' \in BOOLEAN
          /\ app' \in AppSteps
      BY <1>6 DEF MmsMapping_stopEventWorkerThread, TypeOK
    <3>2. UNCHANGED <<state, socketSet, bound, slots, counter, srv, cur, thr, running, conSocket,
                      listener, wire, table, clients, told, target, starts, worker, workerEnd, fault>>
      BY <1>6 DEF MmsMapping_stopEventWorkerThread
    <3> QED BY <3>1, <3>2 DEF TypeOK, MaxConnections
  <2>2. HandInv' /\ TablesInv' /\ SlotsInv' /\ CounterInv' /\ Live' = Live
    BY <1>6, QuietStep DEF MmsMapping_stopEventWorkerThread, TypeOK
  <2>3. StopInv'
    BY <1>6, <2>2 DEF MmsMapping_stopEventWorkerThread, StopInv, TypeOK
  <2> QED BY <2>1, <2>2, <2>3
<1>7. CASE WorkerFinished
  <2>1. TypeOK'
    BY <1>7 DEF WorkerFinished, TypeOK, HandInv, InHand, MaxConnections
  <2>2. HandInv' /\ TablesInv' /\ SlotsInv' /\ CounterInv' /\ Live' = Live
    BY <1>7, QuietStep DEF WorkerFinished, TypeOK
  <2>3. StopInv'
    BY <1>7, <2>2 DEF WorkerFinished, StopInv, TypeOK
  <2> QED BY <2>1, <2>2, <2>3
<1>8. CASE StopSetsState
  <2>1. TypeOK'
    BY <1>8 DEF StopSetsState, TypeOK, HandInv, InHand, MaxConnections
  <2>2. HandInv' /\ TablesInv' /\ SlotsInv' /\ CounterInv' /\ Live' = Live
    BY <1>8, QuietStep DEF StopSetsState, TypeOK
  <2>3. StopInv'
    BY <1>8, <2>2 DEF StopSetsState, StopInv, TypeOK
  <2> QED BY <2>1, <2>2, <2>3
<1>9. CASE StopDestroysSocket
  <2>1. TypeOK'
    <3>1. /\ bound' \in BOOLEAN
          /\ wire' \in [Conns -> {"absent", "pending", "quiet", "data", "finish", "closed"}]
          /\ app' \in AppSteps
      BY <1>9 DEF StopDestroysSocket, TypeOK
    <3>2. UNCHANGED <<state, socketSet, slots, counter, srv, cur, thr, running, conSocket,
                      listener, table, clients, told, target, starts, worker, workerRun, workerEnd, fault>>
      BY <1>9 DEF StopDestroysSocket
    <3> QED BY <3>1, <3>2 DEF TypeOK, MaxConnections
  <2>2. HandInv' /\ TablesInv' /\ SlotsInv' /\ CounterInv' /\ Live' = Live
    BY <1>9, QuietStep DEF StopDestroysSocket, TypeOK
  <2>3. StopInv'
    BY <1>9, <2>2 DEF StopDestroysSocket, StopInv, TypeOK
  <2> QED BY <2>1, <2>2, <2>3
<1>10. CASE StopUnsetsSocket
  <2>1. TypeOK'
    <3>1. /\ socketSet' \in BOOLEAN
          /\ app' \in AppSteps
      BY <1>10 DEF StopUnsetsSocket, TypeOK
    <3>2. UNCHANGED <<state, bound, slots, counter, srv, cur, thr, running, conSocket, listener,
                      wire, table, clients, told, target, starts, worker, workerRun, workerEnd, fault>>
      BY <1>10 DEF StopUnsetsSocket
    <3> QED BY <3>1, <3>2 DEF TypeOK, MaxConnections
  <2>2. HandInv' /\ TablesInv' /\ SlotsInv' /\ CounterInv' /\ Live' = Live
    BY <1>10, QuietStep DEF StopUnsetsSocket, TypeOK
  <2>3. StopInv'
    BY <1>10, <2>2 DEF StopUnsetsSocket, StopInv, TypeOK
  <2> QED BY <2>1, <2>2, <2>3
<1>11. CASE StopJoins
  <2>1. TypeOK'
    BY <1>11 DEF StopJoins, TypeOK, HandInv, InHand, MaxConnections
  <2>2. HandInv' /\ TablesInv' /\ SlotsInv' /\ CounterInv' /\ Live' = Live
    BY <1>11, QuietStep DEF StopJoins, TypeOK
  <2>3. StopInv'
    BY <1>11, <2>2 DEF StopJoins, StopInv, TypeOK
  <2> QED BY <2>1, <2>2, <2>3
<1>12. CASE closeAllOpenClientConnections
  <2>1. TypeOK'
    <3>1. /\ app' \in AppSteps
          /\ target' \in Conns \cup {NoConn}
      BY <1>12, SlotsNumbered DEF closeAllOpenClientConnections, TypeOK
    <3>2. UNCHANGED <<state, socketSet, bound, slots, counter, srv, cur, thr, running, conSocket,
                      listener, wire, table, clients, told, starts, worker, workerRun, workerEnd, fault>>
      BY <1>12 DEF closeAllOpenClientConnections
    <3> QED BY <3>1, <3>2 DEF TypeOK, MaxConnections
  <2>2. HandInv' /\ TablesInv' /\ SlotsInv' /\ CounterInv' /\ Live' = Live
    BY <1>12, QuietStep DEF closeAllOpenClientConnections, TypeOK
  <2>3. StopInv'
    <3>1. app' \in {"drain", "close"} /\ (app' = "close" => target' \in Conns)
      BY <1>12, SlotsNumbered DEF closeAllOpenClientConnections
    <3>2. app = "find" /\ UNCHANGED <<srv, starts, worker, workerEnd>>
      BY <1>12 DEF closeAllOpenClientConnections
    <3> QED BY <2>2, <3>1, <3>2 DEF StopInv, TypeOK
  <2> QED BY <2>1, <2>2, <2>3
<1>13. CASE IsoConnection_close
  <2>1. TypeOK'
    <3>1. /\ app' \in AppSteps
          /\ running' \in [Conns -> BOOLEAN]
          /\ fault' \in {"none", "null", "freed"}
      BY <1>13 DEF IsoConnection_close, TypeOK
    <3>2. UNCHANGED <<state, socketSet, bound, slots, counter, srv, cur, thr, conSocket, listener,
                      wire, table, clients, told, target, starts, worker, workerRun, workerEnd>>
      BY <1>13 DEF IsoConnection_close
    <3> QED BY <3>1, <3>2 DEF TypeOK, MaxConnections
  <2>2. HandInv' /\ TablesInv' /\ SlotsInv' /\ CounterInv' /\ Live' = Live
    BY <1>13, QuietStep DEF IsoConnection_close, TypeOK
  <2>3. StopInv'
    BY <1>13, <2>2 DEF IsoConnection_close, StopInv, TypeOK
  <2> QED BY <2>1, <2>2, <2>3
<1>14. CASE StopShutsConnection
  <2>1. TypeOK'
    <3>1. /\ app' \in AppSteps
          /\ conSocket' \in [Conns -> BOOLEAN]
          /\ wire' \in [Conns -> {"absent", "pending", "quiet", "data", "finish", "closed"}]
          /\ fault' \in {"none", "null", "freed"}
      BY <1>14 DEF StopShutsConnection, TypeOK
    <3>2. UNCHANGED <<state, socketSet, bound, slots, counter, srv, cur, thr, running, listener,
                      table, clients, told, target, starts, worker, workerRun, workerEnd>>
      BY <1>14 DEF StopShutsConnection
    <3> QED BY <3>1, <3>2 DEF TypeOK, MaxConnections
  <2>2. HandInv' /\ TablesInv' /\ SlotsInv' /\ CounterInv' /\ Live' = Live
    BY <1>14, QuietStep DEF StopShutsConnection, TypeOK
  <2>3. StopInv'
    BY <1>14, <2>2 DEF StopShutsConnection, StopInv, TypeOK
  <2> QED BY <2>1, <2>2, <2>3
<1>15. CASE StopDrains
  <2>1. TypeOK'
    BY <1>15 DEF StopDrains, TypeOK, HandInv, InHand, MaxConnections
  <2>2. HandInv' /\ TablesInv' /\ SlotsInv' /\ CounterInv' /\ Live' = Live
    BY <1>15, QuietStep DEF StopDrains, TypeOK
  <2>3. StopInv'
    <3>1. Live \ Handling({"count"}) = Live /\ app = "drain" /\ counter = 0
      BY <1>15 DEF StopDrains, StopInv, Handling
    <3>2. Live = {}
      BY <3>1, FS_EmptySet DEF CounterInv
    <3> QED BY <1>15, <2>2, <3>1, <3>2 DEF StopDrains, StopInv, TypeOK
  <2> QED BY <2>1, <2>2, <2>3
<1> QED BY <1>1, <1>2, <1>3, <1>4, <1>5, <1>6, <1>7, <1>8, <1>9, <1>10, <1>11, <1>12, <1>13, <1>14, <1>15 DEF WorkerThread, Application

(* The initial states satisfy the inductive invariant.                     *)
LEMMA InitSInv == Init => SInv
<1> SUFFICES ASSUME Init PROVE SInv
  OBVIOUS
<1>1. PICK limit \in Limits : slots = [i \in 1 .. limit |-> NoConn]
  BY DEF Init
<1>2. slots \in Seq(Conns \cup {NoConn})
  BY <1>1, SeqDef, LimitsAssumption
<1>3. DOMAIN slots = 1 .. limit /\ Len(slots) \in Nat /\ DOMAIN slots = 1 .. Len(slots)
  BY <1>1, <1>2, LenProperties
<1>4. Len(slots) = limit /\ limit \in Nat \ {0}
  BY <1>3, LimitsAssumption
<1>5. told \in [Conns \cup {NoConn} -> Seq(BOOLEAN)]
  BY DEF Init
<1>6. TypeOK
  <2>1. MaxConnections \in Limits /\ counter \in 0 .. MaxConnections /\ starts \in 0 .. MaxStarts
    <3>1. limit \in Limits /\ limit \in Nat /\ MaxConnections = limit
      BY <1>4 DEF MaxConnections
    <3>2. counter = 0 /\ starts = 0
      BY DEF Init
    <3> QED BY <3>1, <3>2, MaxStartsAssumption
  <2>2. /\ socketSet \in BOOLEAN /\ bound \in BOOLEAN
        /\ running \in [Conns -> BOOLEAN] /\ conSocket \in [Conns -> BOOLEAN]
        /\ listener \in [Conns -> BOOLEAN]
        /\ workerRun \in BOOLEAN /\ workerEnd \in BOOLEAN
    BY DEF Init
  <2>3. /\ thr \in [Conns -> ThreadSteps] /\ srv \in ServerSteps /\ app \in AppSteps
        /\ wire \in [Conns -> {"absent", "pending", "quiet", "data", "finish", "closed"}]
    BY DEF Init, ThreadSteps, ServerSteps, AppSteps
  <2> QED BY <1>2, <1>5, <2>1, <2>2, <2>3 DEF Init, TypeOK
<1>7. HandInv /\ TablesInv /\ StopInv
  BY NoConnAssumption DEF Init, HandInv, TablesInv, StopInv, InHand, Live
<1>8. Live = {} /\ Handling({"count"}) = {} /\ \A c \in Conns : ~Owner(c)
  BY DEF Init, Live, Handling, Owner
<1>9. SlotsInv
  <2>1. \A i \in Slots : slots[i] = NoConn
    BY <1>1, <1>3 DEF Slots
  <2> QED BY <1>8, <2>1, NoConnAssumption DEF SlotsInv
<1>10. CounterInv
  <2>1. Live \ Handling({"count"}) = {} /\ Cardinality({}) = 0 /\ IsFiniteSet({})
    BY <1>8, FS_EmptySet
  <2>2. counter = 0 /\ MaxConnections \in Nat
    BY <1>4 DEF Init, MaxConnections
  <2>3. Cardinality(Live) <= MaxConnections
    BY <1>8, <2>1, <2>2
  <2> QED BY <1>8, <2>1, <2>2, <2>3 DEF CounterInv
<1> QED BY <1>6, <1>7, <1>9, <1>10 DEF SInv

(* Every step keeps it.                                                    *)
LEMMA NextSInv == SInv /\ [Next]_vars => SInv'
<1> SUFFICES ASSUME SInv, [Next]_vars PROVE SInv'
  OBVIOUS
<1> USE DEF isoServer, accept, connection, mapping, application, eventWorker
<1>1. CASE UNCHANGED vars
  <2>1. HandInv' /\ TablesInv' /\ SlotsInv' /\ CounterInv' /\ Live' = Live
    BY <1>1, QuietStep DEF vars
  <2>2. TypeOK' /\ StopInv'
    BY <1>1, <2>1 DEF vars, SInv, TypeOK, StopInv, MaxConnections
  <2> QED BY <2>1, <2>2 DEF SInv
<1>2. CASE AppStarts
  <2>1. srv \in {"none", "done"} /\ Live = {} /\ starts \in Nat /\ (app = "stopped" => starts # 0)
    BY <1>2 DEF AppStarts, SInv, StopInv, TypeOK
  <2>2. HandInv' /\ TablesInv'
    BY <1>2, <2>1 DEF AppStarts, SInv, HandInv, TablesInv, InHand
  <2>3. Live' = Live /\ Handling({"count"})' = Handling({"count"})
        /\ \A c \in Conns : Owner(c)' = Owner(c)
    BY <1>2, <2>1 DEF AppStarts, Live, Handling, Owner
  <2>4. SlotsInv' /\ CounterInv'
    BY <1>2, <2>3, SlotsFrame, CounterFrame DEF AppStarts
  <2>5. TypeOK'
    BY <1>2, MaxStartsAssumption DEF AppStarts, SInv, TypeOK, ServerSteps, AppSteps, MaxConnections
  <2>6. StopInv'
    BY <1>2, <2>1 DEF AppStarts, SInv, StopInv, TypeOK
  <2> QED BY <2>2, <2>4, <2>5, <2>6 DEF SInv
<1>3. ASSUME NEW c \in Conns, NEW what \in {"data", "finish", "closed"},
             Connect(c) \/ ClientActs(c, what)
      PROVE  SInv'
  <2>1. \A d \in Conns : wire'[d] \in {"absent", "pending"} => wire[d] \in {"absent", "pending"}
    BY <1>3 DEF Connect, ClientActs, SInv, TypeOK
  <2>2. HandInv' /\ TablesInv' /\ SlotsInv' /\ CounterInv' /\ Live' = Live
    BY <1>3, <2>1, QuietStep DEF Connect, ClientActs
  <2>3. wire' \in [Conns -> {"absent", "pending", "quiet", "data", "finish", "closed"}]
    BY <1>3 DEF Connect, ClientActs, SInv, TypeOK
  <2>4. UNCHANGED <<isoServer, accept, thr, running, conSocket, listener, mapping, application,
                    eventWorker, fault>>
    BY <1>3 DEF Connect, ClientActs
  <2>5. TypeOK' /\ StopInv'
    BY <2>2, <2>3, <2>4 DEF SInv, TypeOK, StopInv, MaxConnections
  <2> QED BY <2>2, <2>5 DEF SInv
<1> QED BY <1>1, <1>2, <1>3, ServerSInv, ThreadSInv, OtherSInv, ClientActionsAssumption DEF Next

(* For any limit, connections come and go without the counter and the      *)
(* slots ever disagreeing, and IedServer_stop returns only when everything *)
(* of the connections has been given back.                                 *)
THEOREM SlotsAndStop == Spec => [](TypeOK /\ SlotHeld /\ StopComplete)
<1>1. Init => SInv
  BY InitSInv
<1>2. SInv /\ [Next]_vars => SInv'
  BY NextSInv
<1>3. SInv => SlotHeld
  <2> SUFFICES ASSUME SInv, NEW c \in Conns
               PROVE  Cardinality({i \in Slots : slots[i] = c}) = IF Owner(c) THEN 1 ELSE 0
    BY DEF SInv, CounterInv, SlotHeld, Owner
  <2>1. CASE Owner(c)
    <3>1. PICK i \in Slots : slots[i] = c
      BY <2>1 DEF SInv, SlotsInv
    <3>2. {j \in Slots : slots[j] = c} = {i}
      BY <3>1, NoConnAssumption DEF SInv, SlotsInv
    <3> QED BY <2>1, <3>2, FS_Singleton
  <2>2. CASE ~Owner(c)
    <3>1. {j \in Slots : slots[j] = c} = {}
      BY <2>2, NoConnAssumption DEF SInv, SlotsInv
    <3> QED BY <2>2, <3>1, FS_EmptySet
  <2> QED BY <2>1, <2>2
<1>4. SInv => StopComplete
  <2> SUFFICES ASSUME SInv, app = "stopped"
               PROVE  /\ srv = "done" /\ Live = {}
                      /\ table = {} /\ clients = {} /\ \A i \in Slots : slots[i] = NoConn
                      /\ starts = 1 => worker = "done"
    BY DEF StopComplete
  <2>1. srv = "done" /\ Live = {} /\ (starts = 1 => worker = "done")
    BY DEF SInv, StopInv
  <2>2. table = {} /\ clients = {}
    BY <2>1 DEF SInv, TypeOK, TablesInv, Live, Open
  <2>3. \A i \in Slots : slots[i] = NoConn
    BY <2>1, SlotsNumbered DEF SInv, SlotsInv, Owner, Live
  <2> QED BY <2>1, <2>2, <2>3
<1>5. SInv => TypeOK /\ SlotHeld /\ StopComplete
  BY <1>3, <1>4 DEF SInv
<1> QED BY <1>1, <1>2, <1>5, PTL DEF Spec
=============================================================================
