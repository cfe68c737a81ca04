---------------------------- MODULE ReportProofs -----------------------------
(***************************************************************************)
(* Theorems about reports: about ReportControl for any clients, data sets  *)
(* and number of updates, that no change of a value is swallowed and no    *)
(* report goes to a client it was not made for; about ReportBuffer for a   *)
(* block of any size, entries of any sizes and any number of reports, that *)
(* the list of the kept reports is intact, a report is removed only where  *)
(* the new one needs room, and the buffer behaves like the queue of        *)
(* ReportQueue.                                                            *)
(***************************************************************************)
EXTENDS ReportControl, ReportBuffer, WellFoundedInduction, SequenceTheorems, TLAPS

-----------------------------------------------------------------------------
(***************************************************************************)
(* Report control blocks                                                   *)
(***************************************************************************)

HistoryTypeOK ==
    /\ changed \in [Elements -> Seq(Values)]
    /\ settled \in [Elements -> Seq(Values)]

\* Values that wait have started BufTm.  An element that an update is about to
\* note does not wait: its older value has been put in a report, if there are
\* to be reports at all.
PendingInv ==
    /\ \A e \in Elements : waiting[e] # NoValue => triggered
    /\ \A u \in Updaters : holder = u =>
         /\ updating[u] # NoValue
         /\ enabled \/ isBuffering => waiting[updating[u]] = NoValue

\* Reports are sent under the mutex, to the client they were made for unless
\* its connection has ended.
OutgoingInv ==
    /\ outgoing # <<>> => holder # "none"
    /\ receiver # NoReceiver => outgoing # <<>>
    /\ clientConnection # NoClient =>
         \A i \in 1 .. Len(outgoing) : outgoing[i].for = clientConnection

\* The inductive invariant.
RInv == /\ RcbTypeOK /\ HistoryTypeOK /\ PendingInv /\ OutgoingInv
        /\ ChangesReported /\ DeliveredToOwner

\* Reports are made only while this holds.
Due == enabled \/ isBuffering

\* What processEventsForReport makes at one time.
LEMMA MadeReports ==
    ASSUME RcbTypeOK, NEW b \in BOOLEAN, NEW i \in BOOLEAN
    PROVE  /\ Made(b, i) \in Seq(Report)
           /\ Made(b, i) # <<>> => Due
           /\ Due /\ triggered /\ b => Made(b, i) # <<>>
           /\ Made(b, i) # <<>> => (triggered <=> Made(b, i)[1].kind = "event")
           /\ ~buffered => \A k \in 1 .. Len(Made(b, i)) : Made(b, i)[k].for = clientConnection
<1> DEFINE gN == gi /\ "gi" \in triggerOps
           iN == i /\ "integrity" \in triggerOps
           eN == triggered /\ (gN \/ iN \/ b)
           x == IF eN THEN <<ReportOf("event")>> ELSE <<>>
           y == IF gN THEN <<ReportOf("gi")>> ELSE <<>>
           z == IF iN THEN <<ReportOf("integrity")>> ELSE <<>>
<1>1. /\ ReportOf("event") \in Report /\ ReportOf("event").kind = "event"
      /\ ReportOf("gi") \in Report /\ ReportOf("gi").kind # "event"
      /\ ReportOf("integrity") \in Report /\ ReportOf("integrity").kind # "event"
  BY DEF ReportOf, Report, RcbTypeOK, Kinds
<1>2. ~buffered => /\ ReportOf("event").for = clientConnection
                   /\ ReportOf("gi").for = clientConnection
                   /\ ReportOf("integrity").for = clientConnection
  BY DEF ReportOf
<1>3. x \in Seq(Report) /\ y \in Seq(Report) /\ z \in Seq(Report)
  BY <1>1
<1>4. /\ Len(x) = (IF eN THEN 1 ELSE 0) /\ (eN => x[1] = ReportOf("event"))
      /\ Len(y) = (IF gN THEN 1 ELSE 0) /\ (gN => y[1] = ReportOf("gi"))
      /\ Len(z) = (IF iN THEN 1 ELSE 0) /\ (iN => z[1] = ReportOf("integrity"))
  OBVIOUS
<1>5. Made(b, i) = IF ~Due THEN <<>> ELSE (x \o y) \o z
  BY DEF Made, MadeIf, Due
<1> HIDE DEF x, y, z
<1>6. /\ (x \o y) \in Seq(Report) /\ Len(x \o y) = Len(x) + Len(y)
      /\ \A k \in 1 .. Len(x) + Len(y) :
             (x \o y)[k] = IF k <= Len(x) THEN x[k] ELSE y[k - Len(x)]
  BY <1>3, ConcatProperties
<1>7. /\ (x \o y) \o z \in Seq(Report) /\ Len((x \o y) \o z) = Len(x) + Len(y) + Len(z)
      /\ \A k \in 1 .. Len(x) + Len(y) + Len(z) :
             ((x \o y) \o z)[k] = IF k <= Len(x) + Len(y) THEN (x \o y)[k]
                                  ELSE z[k - (Len(x) + Len(y))]
  BY <1>3, <1>6, ConcatProperties
<1>8. /\ eN \in BOOLEAN /\ gN \in BOOLEAN /\ iN \in BOOLEAN
      /\ triggered \in BOOLEAN /\ b \in BOOLEAN
  BY DEF RcbTypeOK
<1> DEFINE m == (x \o y) \o z
<1>9. m # <<>> <=> eN \/ gN \/ iN
  BY <1>4, <1>7, <1>8, EmptySeq
<1>10. m # <<>> => (triggered <=> m[1].kind = "event")
  <2>1. CASE eN
    BY <2>1, <1>1, <1>4, <1>6, <1>7, <1>8
  <2>2. CASE ~eN /\ gN
    BY <2>2, <1>1, <1>4, <1>6, <1>7, <1>8
  <2>3. CASE ~eN /\ ~gN /\ iN
    BY <2>3, <1>1, <1>4, <1>6, <1>7, <1>8
  <2> QED BY <2>1, <2>2, <2>3, <1>8, <1>9
<1>11. ASSUME ~buffered, NEW k \in 1 .. Len(m) PROVE m[k].for = clientConnection
  <2>1. CASE k <= Len(x)
    BY <2>1, <1>11, <1>2, <1>4, <1>6, <1>7, <1>8
  <2>2. CASE Len(x) < k /\ k <= Len(x) + Len(y)
    BY <2>2, <1>11, <1>2, <1>4, <1>6, <1>7, <1>8
  <2>3. CASE Len(x) + Len(y) < k
    BY <2>3, <1>11, <1>2, <1>4, <1>6, <1>7, <1>8
  <2> QED BY <2>1, <2>2, <2>3, <1>4, <1>8
<1> HIDE DEF m
<1> QED BY <1>5, <1>7, <1>9, <1>10, <1>11, EmptySeq DEF m

\* The initial states satisfy the inductive invariant.
LEMMA InitRInv == RcbInit => RInv
<1> SUFFICES ASSUME RcbInit PROVE RInv
  OBVIOUS
<1>1. waiting \in [Elements -> Values \cup {NoValue}] /\ value \in [Elements -> Values]
      /\ \A e \in Elements : waiting[e] = NoValue
  BY DEF RcbInit, None, Values
<1>2. sqNum \in 0 .. SqNumModulus - 1 /\ sqNumValue \in 0 .. SqNumModulus - 1
  BY ReportAssumption DEF RcbInit
<1>3. stored \in Seq(Report) /\ outgoing \in Seq(Report)
  BY DEF RcbInit
<1>4. receiver = NoReceiver /\ serving = NoRequest
      /\ updating \in [Updaters -> Elements \cup {NoValue}]
  BY DEF RcbInit
<1>a. /\ receiver \in [client : Clients \cup {NoClient}, open : BOOLEAN]
      /\ serving \in [client : Clients \cup {NoClient}, kind : {"none", "write", "other"}]
  BY <1>4 DEF NoReceiver, NoRequest
<1>b. /\ datSet \in KnownDataSets \cup {NoDataSet}
      /\ dataSet \in KnownDataSets \cup {NoDataSet, Freed}
      /\ isBuffering \in BOOLEAN /\ flagsFreed \in BOOLEAN
      /\ triggerOps \subseteq {"data-change", "integrity", "gi"}
  BY ReportAssumption DEF RcbInit
<1>5. RcbTypeOK
  BY <1>1, <1>2, <1>3, <1>4, <1>a, <1>b DEF RcbInit, RcbTypeOK
<1>6. HistoryTypeOK
  BY DEF RcbInit, HistoryTypeOK, Empty
<1>7. PendingInv /\ OutgoingInv /\ ChangesReported /\ DeliveredToOwner
  BY <1>1 DEF RcbInit, PendingInv, OutgoingInv, ChangesReported, DeliveredToOwner, NoReceiver,
              Updaters, Empty
<1> QED BY <1>5, <1>6, <1>7 DEF RInv

\* The values that wait are settled: put in a report or thrown away.
LEMMA Settled ==
    ASSUME RcbTypeOK, HistoryTypeOK, ChangesReported,
           settled' = [e \in Elements |-> IF waiting[e] # NoValue
                                          THEN Append(settled[e], waiting[e]) ELSE settled[e]]
    PROVE  settled' = changed /\ settled' \in [Elements -> Seq(Values)]
<1>1. ASSUME NEW e \in Elements PROVE settled'[e] = changed[e]
  BY DEF ChangesReported
<1> QED BY <1>1 DEF HistoryTypeOK

\* The step of processEventsForReport, of the worker or of an update.
LEMMA ProcessStep ==
    ASSUME RInv, NEW b \in BOOLEAN, NEW i \in BOOLEAN, Process(b, i)
    PROVE  /\ triggered' \in BOOLEAN /\ gi' \in BOOLEAN /\ fault' \in BOOLEAN
           /\ waiting' \in [Elements -> Values \cup {NoValue}]
           /\ stored' \in Seq(Report) /\ outgoing' \in Seq(Report)
           /\ HistoryTypeOK' /\ ChangesReported'
           /\ UNCHANGED flagsFreed
           /\ \A e \in Elements : waiting'[e] # NoValue => triggered'
           /\ \A e \in Elements : b /\ Due => waiting'[e] = NoValue
           /\ \A k \in 1 .. Len(outgoing') : outgoing'[k].for = clientConnection
<1> DEFINE reports == Made(b, i)
           ready == Kept(stored \o reports)
<1> USE DEF RInv
<1>1. /\ reports \in Seq(Report)
      /\ reports # <<>> => Due
      /\ Due /\ triggered /\ b => reports # <<>>
      /\ reports # <<>> => (triggered <=> reports[1].kind = "event")
      /\ ~buffered => \A k \in 1 .. Len(reports) : reports[k].for = clientConnection
  BY MadeReports
<1>2. /\ triggered' = (triggered /\ reports = <<>>)
      /\ gi' = GiAfter
      /\ waiting' = IF reports = <<>> THEN waiting ELSE None
      /\ IF ~buffered THEN outgoing' = reports /\ UNCHANGED stored
         ELSE IF enabled /\ ready # <<>>
              THEN /\ outgoing' = <<[ready[1] EXCEPT !.for = clientConnection]>>
                   /\ stored' = Tail(ready)
              ELSE outgoing' = <<>> /\ stored' = ready
      /\ settled' = [e \in Elements |->
             IF reports # <<>> /\ reports[1].kind = "event" /\ waiting[e] # NoValue
             THEN Append(settled[e], waiting[e]) ELSE settled[e]]
      /\ fault' \in BOOLEAN
      /\ UNCHANGED <<flagsFreed, changed>>
  BY DEF Process
<1> HIDE DEF reports
<1>3. ready \in Seq(Report)
  <2> DEFINE all == stored \o reports
  <2>1. all \in Seq(Report)
    BY <1>1, ConcatProperties DEF RcbTypeOK
  <2>2. Len(all) \in Nat /\ \A k \in 1 .. Len(all) : all[k] \in Report
    BY <2>1, LenProperties, ElementOfSeq
  <2> HIDE DEF all
  <2>3. SubSeq(all, 1 + Len(all) - MaxStored, Len(all)) \in Seq(Report)
        \/ Len(all) <= MaxStored
    BY <2>1, <2>2, SubSeqProperties, ReportAssumption
  <2> QED BY <2>1, <2>3 DEF Kept, all
<1> HIDE DEF ready
<1>4. stored' \in Seq(Report) /\ outgoing' \in Seq(Report)
      /\ \A k \in 1 .. Len(outgoing') : outgoing'[k].for = clientConnection
  <2>1. CASE ~buffered
    BY <2>1, <1>1, <1>2 DEF RcbTypeOK
  <2>2. CASE buffered /\ enabled /\ ready # <<>>
    <3> DEFINE r == [ready[1] EXCEPT !.for = clientConnection]
    <3>1. ready[1] \in Report
      BY <2>2, <1>3, EmptySeq, ElementOfSeq
    <3>2. r \in Report /\ r.for = clientConnection
      BY <3>1 DEF Report, RcbTypeOK
    <3>3. outgoing' = <<r>> /\ stored' = Tail(ready)
      BY <2>2, <1>2
    <3> HIDE DEF r
    <3> QED BY <2>2, <3>2, <3>3, <1>3, HeadTailProperties
  <2>3. CASE buffered /\ ~(enabled /\ ready # <<>>)
    <3>1. outgoing' = <<>> /\ stored' = ready
      BY <2>3, <1>2
    <3> QED BY <3>1, <1>3, EmptySeq
  <2> QED BY <2>1, <2>2, <2>3
<1>5. gi' \in BOOLEAN /\ triggered' \in BOOLEAN
  BY <1>2 DEF RcbTypeOK, GiAfter
<1>6. CASE reports = <<>>
  <2>1. settled' = settled /\ waiting' = waiting
    BY <1>6, <1>2 DEF HistoryTypeOK
  <2>2. \A e \in Elements : waiting[e] # NoValue => ~(b /\ Due)
    BY <1>6, <1>1 DEF PendingInv
  <2> QED BY <1>6, <1>2, <1>4, <1>5, <2>1, <2>2
             DEF RcbTypeOK, HistoryTypeOK, PendingInv, ChangesReported
<1>7. CASE reports # <<>>
  <2>1. /\ waiting' \in [Elements -> Values \cup {NoValue}]
        /\ \A e \in Elements : waiting'[e] = NoValue
    BY <1>7, <1>2 DEF None
  <2>2. settled' = [e \in Elements |-> IF waiting[e] # NoValue
                                       THEN Append(settled[e], waiting[e]) ELSE settled[e]]
    <3>1. \A e \in Elements : waiting[e] # NoValue => reports[1].kind = "event"
      BY <1>7, <1>1 DEF PendingInv
    <3> QED BY <3>1, <1>7, <1>2
  <2>3. settled' = changed /\ settled' \in [Elements -> Seq(Values)]
    BY <2>2, Settled
  <2>4. HistoryTypeOK' /\ ChangesReported'
    BY <1>2, <2>1, <2>3 DEF HistoryTypeOK, ChangesReported
  <2> QED BY <1>2, <1>4, <1>5, <2>1, <2>4
<1> QED BY <1>6, <1>7

\* The data set is set up afresh: what waited is thrown away.
LEMMA FreshDataSet ==
    ASSUME RInv, NEW d \in KnownDataSets, UpdateReportDataset(d), UNCHANGED changed
    PROVE  /\ HistoryTypeOK' /\ ChangesReported'
           /\ waiting' \in [Elements -> Values \cup {NoValue}]
           /\ \A e \in Elements : waiting'[e] = NoValue
           /\ dataSet' = d /\ flagsFreed' = FALSE /\ fault' \in BOOLEAN
<1>1. /\ dataSet' = d /\ waiting' = None /\ flagsFreed' = FALSE
      /\ fault' \in BOOLEAN /\ Discard
  BY DEF UpdateReportDataset
<1>2. settled' = changed /\ settled' \in [Elements -> Seq(Values)]
  BY <1>1, Settled DEF Discard, RInv
<1>3. HistoryTypeOK' /\ ChangesReported'
  BY <1>1, <1>2 DEF HistoryTypeOK, ChangesReported, None
<1> QED BY <1>1, <1>3 DEF None

\* A step that touches neither the history nor what is waiting to be sent.
LEMMA Untouched ==
    ASSUME RInv, UNCHANGED <<history, waiting, triggered, flagsFreed, updating, holder, outgoing>>,
           enabled' \/ isBuffering' => enabled \/ isBuffering,
           clientConnection' \in {clientConnection, NoClient},
           \/ receiver' = receiver
           \/ receiver # NoReceiver /\ receiver'.open = FALSE
    PROVE  HistoryTypeOK' /\ PendingInv' /\ OutgoingInv' /\ ChangesReported' /\ DeliveredToOwner'
<1> USE DEF RInv, history
<1>1. HistoryTypeOK' /\ ChangesReported'
  BY DEF HistoryTypeOK, ChangesReported
<1>2. PendingInv'
  BY DEF PendingInv
<1>3. OutgoingInv'
  BY DEF OutgoingInv
<1>4. DeliveredToOwner'
  BY DEF DeliveredToOwner, NoReceiver
<1> QED BY <1>1, <1>2, <1>3, <1>4

\* Every write of a client.
LEMMA WriteStepRInv ==
    ASSUME RInv, NEW c \in Clients, WriteStep(c)
    PROVE  RInv'
<1> USE ReportAssumption DEF RInv, config, owner, events, sending, history, updates
<1>0. /\ NoRequest \in [client : Clients \cup {NoClient}, kind : {"none", "write", "other"}]
      /\ "none" \notin Updaters
  BY DEF NoRequest, Updaters
<1>b. ASSUME stored' \in {stored, <<>>} PROVE stored' \in Seq(Report)
  <2>1. stored \in Seq(Report) /\ <<>> \in Seq(Report)
    BY EmptySeq DEF RcbTypeOK
  <2> QED BY <1>b, <2>1
<1>a. ASSUME holder = "none" PROVE outgoing = <<>> /\ receiver = NoReceiver
  BY <1>a DEF OutgoingInv
<1>1. CASE Enable(c)
  <2>1. datSet \in KnownDataSets /\ UpdateReportDataset(datSet) /\ UNCHANGED changed
    BY <1>1 DEF Enable, UpdateReportDataset
  <2>2. /\ HistoryTypeOK' /\ ChangesReported'
        /\ waiting' \in [Elements -> Values \cup {NoValue}]
        /\ \A e \in Elements : waiting'[e] = NoValue
        /\ dataSet' = datSet /\ flagsFreed' = FALSE /\ fault' \in BOOLEAN
    BY <2>1, FreshDataSet
  <2>3. /\ enabled' = TRUE /\ gi' = FALSE /\ sqNum' = 0 /\ clientConnection' = c
        /\ serving' = NoRequest /\ holder = "none"
        /\ UNCHANGED <<buffered, datSet, triggerOps, isBuffering, reserved, triggered, sqNumValue,
                       stored, holder, outgoing, receiver, value, updating, closing>>
    BY <1>1 DEF Enable, CanWrite
  <2>4. sqNum' \in 0 .. SqNumModulus - 1 /\ sqNumValue' \in 0 .. SqNumModulus - 1
    BY <2>3 DEF RcbTypeOK
  <2>5. RcbTypeOK'
    BY <1>0, <2>1, <2>2, <2>3, <2>4, Zenon DEF RcbTypeOK
  <2>6. PendingInv' /\ OutgoingInv' /\ DeliveredToOwner'
    BY <1>0, <1>a, <2>2, <2>3, EmptySeq DEF PendingInv, OutgoingInv, DeliveredToOwner, NoReceiver
  <2> QED BY <2>2, <2>5, <2>6
<1>2. CASE Disable(c)
  <2>1. /\ enabled' = FALSE /\ clientConnection' = NoClient
        /\ serving' = NoRequest /\ holder = "none"
        /\ UNCHANGED <<config, gi, triggered, sending, stored, holder, outgoing, receiver,
                       updates, closing, fault, changed>>
    BY <1>2 DEF Disable, CanWrite
  <2>2. \/ UNCHANGED <<waiting, flagsFreed, reserved, settled>>
        \/ waiting' = None /\ flagsFreed' = TRUE /\ reserved' = FALSE /\ Discard
    BY <1>2 DEF Disable
  <2>3. /\ waiting' \in [Elements -> Values \cup {NoValue}]
        /\ \A e \in Elements : waiting'[e] # NoValue => waiting[e] # NoValue
        /\ flagsFreed' \in BOOLEAN /\ reserved' \in BOOLEAN
    <3>1. CASE UNCHANGED <<waiting, flagsFreed, reserved, settled>>
      BY <3>1 DEF RcbTypeOK
    <3>2. CASE waiting' = None /\ flagsFreed' = TRUE /\ reserved' = FALSE
      BY <3>2 DEF None
    <3> QED BY <2>2, <3>1, <3>2
  <2>4. HistoryTypeOK' /\ ChangesReported'
    <3>1. CASE UNCHANGED <<waiting, flagsFreed, reserved, settled>>
      BY <2>1, <3>1 DEF HistoryTypeOK, ChangesReported
    <3>2. CASE waiting' = None /\ Discard
      <4>1. settled' = changed /\ settled' \in [Elements -> Seq(Values)]
        BY <3>2, Settled DEF Discard
      <4> QED BY <2>1, <3>2, <4>1 DEF HistoryTypeOK, ChangesReported, None
    <3> QED BY <2>2, <3>1, <3>2
  <2>5. RcbTypeOK'
    <3>1. /\ enabled' \in BOOLEAN /\ clientConnection' \in Clients \cup {NoClient}
          /\ serving' \in [client : Clients \cup {NoClient}, kind : {"none", "write", "other"}]
      BY <1>0, <2>1
    <3> QED BY <2>1, <2>3, <3>1 DEF RcbTypeOK
  <2>6. PendingInv' /\ OutgoingInv' /\ DeliveredToOwner'
    BY <1>0, <1>a, <2>1, <2>3 DEF PendingInv, OutgoingInv, DeliveredToOwner, NoReceiver
  <2> QED BY <2>4, <2>5, <2>6
<1>3. CASE WriteGI(c)
  <2>1. /\ gi' = TRUE /\ serving' = NoRequest
        /\ UNCHANGED <<config, owner, events, sending, stored, holder, outgoing, receiver,
                       updates, closing, fault, history>>
    BY <1>3 DEF WriteGI
  <2>2. RcbTypeOK'
    BY <1>0, <2>1 DEF RcbTypeOK
  <2> QED BY <2>1, <2>2, Untouched
<1>4. CASE Purge(c) \/ OtherWrite(c)
  <2>1. /\ stored' \in {stored, <<>>} /\ serving' = NoRequest
        /\ UNCHANGED <<config, owner, gi, events, sending, holder, outgoing, receiver,
                       updates, closing, fault, history>>
    BY <1>4 DEF Purge, OtherWrite
  <2>2. RcbTypeOK'
    <3>1. stored' \in Seq(Report)
      BY <1>b, <2>1
    <3> QED BY <1>0, <2>1, <3>1 DEF RcbTypeOK
  <2> QED BY <2>1, <2>2, Untouched
<1>5. ASSUME NEW resv \in BOOLEAN, WriteResv(c, resv) PROVE RInv'
  <2>1. /\ reserved' = resv /\ clientConnection' \in {c, clientConnection}
        /\ serving' = NoRequest /\ holder = "none"
        /\ UNCHANGED <<config, enabled, gi, events, sending, stored, holder, outgoing, receiver,
                       updates, closing, fault, history>>
    BY <1>5 DEF WriteResv, Configurable, CanWrite
  <2>2. RcbTypeOK'
    BY <1>0, <2>1 DEF RcbTypeOK
  <2>3. HistoryTypeOK' /\ ChangesReported' /\ PendingInv'
    BY <2>1 DEF HistoryTypeOK, ChangesReported, PendingInv
  <2>4. OutgoingInv' /\ DeliveredToOwner'
    BY <1>a, <2>1, EmptySeq DEF OutgoingInv, DeliveredToOwner, NoReceiver
  <2> QED BY <2>2, <2>3, <2>4
<1>6. ASSUME NEW d \in KnownDataSets, WriteDatSet(c, d) PROVE RInv'
  <2>1. UpdateReportDataset(d) /\ UNCHANGED changed
    BY <1>6 DEF WriteDatSet
  <2>2. /\ HistoryTypeOK' /\ ChangesReported'
        /\ waiting' \in [Elements -> Values \cup {NoValue}]
        /\ \A e \in Elements : waiting'[e] = NoValue
        /\ dataSet' = d /\ flagsFreed' = FALSE /\ fault' \in BOOLEAN
    BY <2>1, FreshDataSet
  <2>3. /\ stored' \in {stored, <<>>} /\ datSet' = d /\ serving' = NoRequest
        /\ UNCHANGED <<buffered, triggerOps, isBuffering, owner, gi, triggered, sending, holder,
                       outgoing, receiver, updates, closing>>
    BY <1>6 DEF WriteDatSet, PurgeIfBuffered
  <2>4. RcbTypeOK'
    <3>1. /\ stored' \in Seq(Report) /\ datSet' \in KnownDataSets /\ dataSet' \in KnownDataSets
          /\ flagsFreed' \in BOOLEAN
      BY <1>b, <2>2, <2>3
    <3> QED BY <1>0, <2>2, <2>3, <3>1 DEF RcbTypeOK
  <2>5. holder = "none"
    BY <1>6 DEF WriteDatSet, Configurable, CanWrite
  <2>6. PendingInv' /\ OutgoingInv' /\ DeliveredToOwner'
    BY <1>0, <1>a, <2>2, <2>3, <2>5 DEF PendingInv, OutgoingInv, DeliveredToOwner, NoReceiver
  <2> QED BY <2>2, <2>4, <2>6
<1>7. ASSUME NEW options \in TriggerOptions, WriteTrgOps(c, options) PROVE RInv'
  <2>1. /\ triggerOps' = options /\ stored' \in {stored, <<>>} /\ serving' = NoRequest
        /\ UNCHANGED <<buffered, datSet, dataSet, isBuffering, owner, gi, events, sending,
                       holder, outgoing, receiver, updates, closing, fault, history>>
    BY <1>7 DEF WriteTrgOps, PurgeIfBuffered
  <2>2. RcbTypeOK'
    <3>1. stored' \in Seq(Report) /\ triggerOps' \subseteq {"data-change", "integrity", "gi"}
      BY <1>b, <2>1
    <3> QED BY <1>0, <2>1, <3>1 DEF RcbTypeOK
  <2> QED BY <2>1, <2>2, Untouched
<1>8. ASSUME NEW d \in KnownDataSets \cup {NoDataSet}, LookupFails(c, d) PROVE RInv'
  <2>1. /\ dataSet' \in {dataSet, Freed} /\ fault' \in BOOLEAN /\ serving' = NoRequest
        /\ UNCHANGED <<buffered, datSet, triggerOps, isBuffering, owner, gi, events, sending,
                       stored, holder, outgoing, receiver, updates, closing, history>>
    BY <1>8 DEF LookupFails
  <2>2. RcbTypeOK'
    BY <1>0, <2>1 DEF RcbTypeOK
  <2> QED BY <2>1, <2>2, Untouched
<1> QED BY <1>1, <1>2, <1>3, <1>4, <1>5, <1>6, <1>7, <1>8 DEF WriteStep

\* Every step of a client: requests, writes, and the end of its connection.
LEMMA ClientStepRInv ==
    ASSUME RInv, NEW c \in Clients, ClientStep(c)
    PROVE  RInv'
<1> USE ReportAssumption DEF RInv, config, owner, events, sending, history, updates
<1>1. ASSUME NEW kind \in {"write", "other"}, BeginRequest(c, kind) PROVE RInv'
  <2>1. /\ serving' = [client |-> c, kind |-> kind]
        /\ UNCHANGED <<config, owner, gi, events, sending, stored, holder, outgoing, receiver,
                       updates, closing, fault, history>>
    BY <1>1 DEF BeginRequest
  <2>2. RcbTypeOK'
    BY <2>1 DEF RcbTypeOK
  <2> QED BY <2>1, <2>2, Untouched
<1>2. CASE Deactivate(c)
  <2>1. /\ enabled' = FALSE /\ clientConnection' = NoClient /\ closing' = closing \cup {c}
        /\ UNCHANGED <<config, reserved, gi, events, sending, stored, holder, outgoing, receiver,
                       updates, serving, fault, history>>
    BY <1>2 DEF Deactivate
  <2>2. RcbTypeOK'
    <3>1. /\ closing' \subseteq Clients /\ enabled' \in BOOLEAN
          /\ clientConnection' \in Clients \cup {NoClient}
      BY <2>1 DEF RcbTypeOK
    <3> QED BY <2>1, <3>1 DEF RcbTypeOK
  <2> QED BY <2>1, <2>2, Untouched DEF RcbTypeOK
<1>3. CASE Disconnect(c)
  <2>1. /\ clientConnection' \in {clientConnection, NoClient} /\ reserved' \in BOOLEAN
        /\ closing' = closing \ {c}
        /\ receiver' = IF receiver.client = c THEN [receiver EXCEPT !.open = FALSE] ELSE receiver
        /\ UNCHANGED <<config, enabled, gi, events, sending, stored, holder, outgoing,
                       updates, serving, fault, history>>
    BY <1>3 DEF Disconnect, RcbTypeOK
  <2>2. /\ receiver' \in [client : Clients \cup {NoClient}, open : BOOLEAN]
        /\ \/ receiver' = receiver
           \/ receiver # NoReceiver /\ receiver'.open = FALSE
    <3>1. receiver \in [client : Clients \cup {NoClient}, open : BOOLEAN]
      BY DEF RcbTypeOK
    <3>2. NoReceiver.client \notin Clients
      BY DEF NoReceiver
    <3> QED BY <2>1, <3>1, <3>2
  <2>3. RcbTypeOK'
    <3>1. closing' \subseteq Clients
      BY <2>1 DEF RcbTypeOK
    <3> QED BY <2>1, <2>2, <3>1 DEF RcbTypeOK
  <2> QED BY <2>1, <2>2, <2>3, Untouched
<1> QED BY <1>1, <1>2, <1>3, WriteStepRInv DEF ClientStep

\* A round of the worker.
LEMMA WorkerRInv ==
    ASSUME RInv, WorkerStep
    PROVE  RInv'
<1> USE ReportAssumption DEF RInv, config, owner, events, sending, history, updates
<1>1. PICK b \in BOOLEAN, i \in BOOLEAN : WorkerProcess(b, i)
  BY DEF WorkerStep
<1>2. /\ Process(b, i) /\ holder = "none"
      /\ UNCHANGED <<config, owner, sending, receiver, value, updating, serving, closing>>
      /\ holder' = IF outgoing' = <<>> THEN "none" ELSE "worker"
  BY <1>1 DEF WorkerProcess
<1>3. /\ triggered' \in BOOLEAN /\ gi' \in BOOLEAN /\ fault' \in BOOLEAN
      /\ waiting' \in [Elements -> Values \cup {NoValue}]
      /\ stored' \in Seq(Report) /\ outgoing' \in Seq(Report)
      /\ HistoryTypeOK' /\ ChangesReported'
      /\ UNCHANGED flagsFreed
      /\ \A e \in Elements : waiting'[e] # NoValue => triggered'
      /\ \A k \in 1 .. Len(outgoing') : outgoing'[k].for = clientConnection
  BY <1>2, ProcessStep
<1>4. RcbTypeOK'
  BY <1>2, <1>3 DEF RcbTypeOK
<1>5. PendingInv' /\ OutgoingInv' /\ DeliveredToOwner'
  BY <1>2, <1>3 DEF PendingInv, OutgoingInv, DeliveredToOwner, Updaters, NoReceiver
<1> QED BY <1>3, <1>4, <1>5

\* The steps in which a report is sent.
LEMMA SendingRInv ==
    ASSUME RInv, SendingStep
    PROVE  RInv'
<1> USE ReportAssumption DEF RInv, config, owner, events, sending, history, updates
<1>0. NoReceiver \in [client : Clients \cup {NoClient}, open : BOOLEAN] /\ NoReceiver.open = FALSE
  BY DEF NoReceiver
<1>1. CASE SendBegin
  <2>1. /\ outgoing # <<>> /\ fault' \in BOOLEAN
        /\ \/ UNCHANGED receiver
           \/ /\ clientConnection # NoClient
              /\ receiver' = [client |-> clientConnection, open |-> TRUE]
        /\ UNCHANGED <<config, owner, gi, events, sending, stored, holder, outgoing, updates,
                       serving, closing, history>>
    BY <1>1 DEF SendBegin, RcbTypeOK
  <2>2. RcbTypeOK'
    <3>a. /\ receiver \in [client : Clients \cup {NoClient}, open : BOOLEAN]
          /\ clientConnection \in Clients \cup {NoClient}
      BY DEF RcbTypeOK
    <3>1. receiver' \in [client : Clients \cup {NoClient}, open : BOOLEAN]
      <4>1. CASE UNCHANGED receiver
        BY <4>1, <3>a
      <4>2. CASE receiver' = [client |-> clientConnection, open |-> TRUE]
        BY <4>2, <3>a
      <4> QED BY <2>1, <4>1, <4>2
    <3> QED BY <2>1, <3>1 DEF RcbTypeOK
  <2>3. HistoryTypeOK' /\ ChangesReported' /\ PendingInv' /\ OutgoingInv'
    BY <2>1 DEF HistoryTypeOK, ChangesReported, PendingInv, OutgoingInv
  <2>4. DeliveredToOwner'
    <3>1. Len(outgoing) \in Nat /\ Len(outgoing) # 0
      BY <2>1, EmptySeq, LenProperties DEF RcbTypeOK
    <3> QED BY <2>1, <3>1 DEF DeliveredToOwner, OutgoingInv
  <2> QED BY <2>2, <2>3, <2>4
<1>2. ASSUME outgoing # <<>>, NextReport
      PROVE  /\ outgoing' \in Seq(Report) /\ receiver' = NoReceiver
             /\ holder' \in {"none", holder}
             /\ outgoing' # <<>> => holder' = holder
             /\ \A k \in 1 .. Len(outgoing') : /\ k + 1 \in 1 .. Len(outgoing)
                                               /\ outgoing'[k] = outgoing[k + 1]
  BY <1>2, HeadTailProperties, EmptySeq DEF NextReport, RcbTypeOK
<1>3. ASSUME outgoing # <<>>, NextReport, stored' \in Seq(Report),
             sqNum' \in 0 .. SqNumModulus - 1, sqNumValue' \in 0 .. SqNumModulus - 1,
             fault' \in BOOLEAN,
             UNCHANGED <<config, owner, gi, events, updates, serving, closing, history>>
      PROVE  RInv'
  <2>1. RcbTypeOK'
    BY <1>0, <1>2, <1>3 DEF RcbTypeOK
  <2>2. HistoryTypeOK' /\ ChangesReported' /\ DeliveredToOwner'
    BY <1>0, <1>2, <1>3 DEF HistoryTypeOK, ChangesReported, DeliveredToOwner
  <2>3. PendingInv'
    BY <1>2, <1>3 DEF PendingInv, Updaters
  <2>4. OutgoingInv'
    BY <1>2, <1>3 DEF OutgoingInv
  <2> QED BY <2>1, <2>2, <2>3, <2>4
<1>4. CASE SendNothing
  <2>1. /\ outgoing # <<>> /\ NextReport
        /\ stored' = <<[outgoing[1] EXCEPT !.for = NoClient]>> \o stored
        /\ UNCHANGED <<config, owner, gi, events, sending, updates, serving, closing, fault, history>>
    BY <1>4 DEF SendNothing
  <2>2. stored' \in Seq(Report)
    <3> DEFINE r == [outgoing[1] EXCEPT !.for = NoClient]
    <3>1. outgoing[1] \in Report
      BY <2>1, EmptySeq, ElementOfSeq DEF RcbTypeOK
    <3>2. r \in Report
      BY <3>1 DEF Report
    <3> HIDE DEF r
    <3>3. <<r>> \in Seq(Report)
      BY <3>2
    <3> QED BY <2>1, <3>3, ConcatProperties DEF RcbTypeOK, r
  <2> QED BY <1>3, <2>1, <2>2 DEF RcbTypeOK
<1>5. CASE Deliver \/ DeliverLate
  <2>1. /\ receiver # NoReceiver /\ Sent /\ fault' \in BOOLEAN
        /\ UNCHANGED <<config, owner, gi, events, stored, updates, serving, closing, history>>
    BY <1>0, <1>5 DEF Deliver, DeliverLate, RcbTypeOK
  <2>2. outgoing # <<>>
    BY <2>1 DEF OutgoingInv
  <2>3. NextSqNum \in 0 .. SqNumModulus - 1
    BY DEF NextSqNum, RcbTypeOK
  <2>4. NextReport /\ sqNum' = NextSqNum /\ sqNumValue' = NextSqNum
    BY <2>1 DEF Sent
  <2> QED BY <1>3, <2>1, <2>2, <2>3, <2>4 DEF RcbTypeOK
<1> QED BY <1>1, <1>4, <1>5 DEF SendingStep

\* The updates of values, by the application or a client.
LEMMA UpdateStepRInv ==
    ASSUME RInv, UpdateStep
    PROVE  RInv'
<1> USE ReportAssumption DEF RInv, config, owner, events, sending, history, updates
<1>1. ASSUME NEW u \in Updaters, NEW e \in Elements, UpdateAttributeValue(u, e), UNCHANGED serving
      PROVE  RInv'
  <2>1. /\ updating[u] = NoValue /\ value' = [value EXCEPT ![e] = @ + 1]
        /\ updating' \in {[updating EXCEPT ![u] = e], updating} /\ fault' \in BOOLEAN
        /\ UNCHANGED <<config, owner, gi, events, sending, stored, holder, outgoing, receiver,
                       serving, closing, history>>
    BY <1>1 DEF UpdateAttributeValue, RcbTypeOK
  <2>2. value' \in [Elements -> Values]
    BY <2>1 DEF RcbTypeOK, Values
  <2>3. updating' \in [Updaters -> Elements \cup {NoValue}]
    BY <2>1 DEF RcbTypeOK
  <2>4. RcbTypeOK'
    BY <2>1, <2>2, <2>3 DEF RcbTypeOK
  <2>5. PendingInv'
    <3>1. \A v \in Updaters : holder = v => v # u /\ updating'[v] = updating[v]
      BY <2>1 DEF PendingInv, RcbTypeOK
    <3> QED BY <2>1, <3>1 DEF PendingInv
  <2> QED BY <2>1, <2>4, <2>5 DEF HistoryTypeOK, ChangesReported, DeliveredToOwner, OutgoingInv
<1>2. ASSUME NEW u \in Updaters, NEW i \in BOOLEAN, ValueUpdatedBegin(u, i) PROVE RInv'
  <2>1. /\ updating[u] # NoValue /\ updating[u] \in Elements
        /\ holder = "none" /\ outgoing = <<>> /\ receiver = NoReceiver
        /\ UNCHANGED <<config, owner, sending, receiver, value, updating, serving, closing>>
    BY <1>2 DEF ValueUpdatedBegin, OutgoingInv, RcbTypeOK
  <2>2. CASE flagsFreed
    <3>1. fault' = TRUE /\ UNCHANGED <<holder, gi, events, outgoing, stored, history>>
      BY <1>2, <2>2 DEF ValueUpdatedBegin
    <3>2. RcbTypeOK'
      BY <2>1, <3>1 DEF RcbTypeOK
    <3> QED BY <2>1, <3>1, <3>2, Untouched
  <2>3. CASE ~flagsFreed /\ waiting[updating[u]] = NoValue
    <3>1. holder' = u /\ UNCHANGED <<gi, events, outgoing, stored, history, fault>>
      BY <1>2, <2>3 DEF ValueUpdatedBegin
    <3>2. RcbTypeOK'
      BY <2>1, <3>1 DEF RcbTypeOK
    <3>3. PendingInv' /\ OutgoingInv'
      BY <2>1, <2>3, <3>1 DEF PendingInv, OutgoingInv
    <3> QED BY <2>1, <3>1, <3>2, <3>3 DEF HistoryTypeOK, ChangesReported, DeliveredToOwner
  <2>4. CASE ~flagsFreed /\ waiting[updating[u]] # NoValue
    <3>1. Process(TRUE, i) /\ holder' = u
      BY <1>2, <2>4 DEF ValueUpdatedBegin
    <3>2. /\ triggered' \in BOOLEAN /\ gi' \in BOOLEAN /\ fault' \in BOOLEAN
          /\ waiting' \in [Elements -> Values \cup {NoValue}]
          /\ stored' \in Seq(Report) /\ outgoing' \in Seq(Report)
          /\ HistoryTypeOK' /\ ChangesReported'
          /\ UNCHANGED flagsFreed
          /\ \A e \in Elements : waiting'[e] # NoValue => triggered'
          /\ \A e \in Elements : Due => waiting'[e] = NoValue
          /\ \A k \in 1 .. Len(outgoing') : outgoing'[k].for = clientConnection
      BY <3>1, ProcessStep
    <3>3. RcbTypeOK'
      BY <2>1, <3>1, <3>2 DEF RcbTypeOK
    <3>4. PendingInv' /\ OutgoingInv' /\ DeliveredToOwner'
      BY <2>1, <3>1, <3>2
         DEF PendingInv, OutgoingInv, DeliveredToOwner, Due, NoReceiver, Updaters
    <3> QED BY <3>2, <3>3, <3>4
  <2> QED BY <2>2, <2>3, <2>4
<1>3. ASSUME NEW u \in Updaters, ValueUpdatedEnd(u) PROVE RInv'
  <2> DEFINE e == updating[u]
  <2>1. /\ e \in Elements /\ value[e] \in Values /\ holder = u /\ outgoing = <<>>
        /\ Due => waiting[e] = NoValue
    BY <1>3 DEF ValueUpdatedEnd, PendingInv, RcbTypeOK, Due
  <2>2. /\ settled' = IF waiting[e] # NoValue /\ ~Due
                      THEN [settled EXCEPT ![e] = Append(@, waiting[e])] ELSE settled
        /\ waiting' = [waiting EXCEPT ![e] = value[e]]
        /\ changed' = [changed EXCEPT ![e] = Append(@, value[e])]
        /\ triggered' = TRUE
        /\ updating' = [updating EXCEPT ![u] = NoValue] /\ holder' = "none"
        /\ UNCHANGED <<config, owner, gi, flagsFreed, sending, stored, outgoing, receiver,
                       value, serving, closing, fault>>
    BY <1>3 DEF ValueUpdatedEnd, Due
  <2> HIDE DEF e
  <2>3. RcbTypeOK'
    <3>1. waiting' \in [Elements -> Values \cup {NoValue}]
          /\ updating' \in [Updaters -> Elements \cup {NoValue}]
      BY <2>1, <2>2 DEF RcbTypeOK
    <3> QED BY <2>2, <3>1 DEF RcbTypeOK
  <2>4. changed[e] = settled'[e] /\ settled'[e] \in Seq(Values)
    BY <2>1, <2>2 DEF ChangesReported, HistoryTypeOK
  <2>5. settled' \in [Elements -> Seq(Values)] /\ \A f \in Elements \ {e} : settled'[f] = settled[f]
    BY <2>1, <2>2, <2>4 DEF HistoryTypeOK
  <2>6. Append(changed[e], value[e]) \in Seq(Values)
    BY <2>1, <2>4, AppendProperties
  <2>7. HistoryTypeOK'
    BY <2>1, <2>2, <2>5, <2>6 DEF HistoryTypeOK
  <2>8. ChangesReported'
    <3> SUFFICES ASSUME NEW f \in Elements
                 PROVE  changed'[f] = IF waiting'[f] = NoValue THEN settled'[f]
                                      ELSE Append(settled'[f], waiting'[f])
      BY DEF ChangesReported
    <3>1. CASE f = e
      <4>1. waiting'[e] = value[e] /\ value[e] # NoValue
        BY <2>1, <2>2 DEF RcbTypeOK, Values, NoValue
      <4> QED BY <2>1, <2>2, <2>4, <3>1, <4>1 DEF HistoryTypeOK
    <3>2. CASE f # e
      BY <2>1, <2>2, <2>5, <3>2 DEF ChangesReported, HistoryTypeOK, RcbTypeOK
    <3> QED BY <3>1, <3>2
  <2>9. PendingInv' /\ OutgoingInv' /\ DeliveredToOwner'
    BY <2>1, <2>2 DEF PendingInv, OutgoingInv, DeliveredToOwner, Updaters
  <2> QED BY <2>3, <2>7, <2>8, <2>9
<1> QED BY <1>1, <1>2, <1>3 DEF UpdateStep, ApplicationUpdates, ClientUpdates, Updaters

\* Every step keeps the inductive invariant.
LEMMA NextRInv == RInv /\ [RcbNext]_rcbVars => RInv'
<1> SUFFICES ASSUME RInv, [RcbNext]_rcbVars PROVE RInv'
  OBVIOUS
<1>1. CASE UNCHANGED rcbVars
  <2>1. RcbTypeOK'
    BY <1>1 DEF rcbVars, config, owner, events, sending, history, updates, RInv, RcbTypeOK
  <2> QED BY <1>1, <2>1, Untouched DEF rcbVars, config, owner, events, sending, history, updates, RInv
<1>2. CASE EndRequest
  <2>1. /\ serving' = NoRequest
        /\ UNCHANGED <<config, owner, gi, events, sending, stored, holder, outgoing, receiver,
                       updates, closing, fault, history>>
    BY <1>2 DEF EndRequest
  <2>2. RcbTypeOK'
    BY <2>1 DEF config, owner, events, sending, updates, RInv, RcbTypeOK, NoRequest
  <2> QED BY <2>1, <2>2, Untouched DEF config, owner, events, sending, updates, RInv
<1> QED BY <1>1, <1>2, ClientStepRInv, WorkerRInv, SendingRInv, UpdateStepRInv DEF RcbNext, Crashed

\* Whatever clients write and however updates, the worker and the end of
\* connections interleave, every change that ReportControl_valueUpdated was
\* called for is put into a report, waits for one, or was thrown away by a
\* write of RptEna or DatSet or while no report is made; and a report goes to
\* the client it was made for, as long as its connection exists.
THEOREM ReportsFaithful == RcbSpec => [](RcbTypeOK /\ ChangesReported /\ DeliveredToOwner)
<1>1. RcbInit => RInv
  BY InitRInv
<1>2. RInv /\ [RcbNext]_rcbVars => RInv'
  BY NextRInv
<1>3. RInv => RcbTypeOK /\ ChangesReported /\ DeliveredToOwner
  BY DEF RInv
<1> QED BY <1>1, <1>2, <1>3, PTL DEF RcbSpec

-----------------------------------------------------------------------------
(***************************************************************************)
(* The report buffer                                                       *)
(***************************************************************************)
Block == [Address -> Entry \cup {Garbage}]
Behind(m, p) == p + m[p].entryLength

\* How the n kept reports lie in the block m: c leads from the oldest to the
\* last one.  The first k lie one behind the other; the rest, if any, from the
\* start of the block up to the oldest.
Laid(m, c, k, n) ==
    /\ k \in 0 .. n /\ (k = 0 => n = 0) /\ c \in [1 .. n -> Address]
    /\ \A i \in 1 .. n : m[c[i]] \in Entry /\ Behind(m, c[i]) <= MemoryBlockSize
    /\ \A i \in 1 .. n - 1 : m[c[i]].next = c[i + 1]
    /\ \A i, j \in 1 .. n :
           i < j /\ (j <= k \/ i > k) => Behind(m, c[i]) <= c[j]
    /\ \A i, j \in 1 .. n : i <= k /\ j > k => Behind(m, c[j]) <= c[i]
    /\ k < n => c[k + 1] = 0

\* The last report is the one behind which a new one is linked.
EndsList(c, n) == n > 0 /\ lastEnqueuedReport = c[n] /\ memory[c[n]].next = NULL

\* What enqueueReport has found out so far about where the new report goes.
Making(c, k, n) ==
    \/ pc = "write" /\ n = 0 /\ oldestReport = 0 /\ entryBufPos = 0
    \/ /\ pc = "write" /\ n = 1 /\ lastEnqueuedReport = c[1]
       /\ entryBufPos = EndOf(c[1]) /\ memory[c[1]].next = entryBufPos
    \/ /\ pc = "link" /\ n = 0 /\ oldestReport = 0 /\ entryBufPos = 0
       /\ lastEnqueuedReport # NULL /\ memory[lastEnqueuedReport] \in Entry
    \/ pc = "link" /\ k = n /\ EndsList(c, n) /\ entryBufPos = EndOf(c[n])
    \/ pc = "wrap" /\ k = n /\ EndsList(c, n) /\ entryBufPos = 0
    \/ /\ pc = "upper" /\ (k < n \/ oldestReport = 0) /\ EndsList(c, n)
       /\ entryBufPos = 0
    \/ pc = "lower" /\ k = n /\ EndsList(c, n) /\ entryBufPos = 0
    \/ /\ pc = "lower" /\ n = 0 /\ oldestReport = NULL
       /\ lastEnqueuedReport # NULL /\ memory[lastEnqueuedReport] \in Entry
       /\ entryBufPos = 0
    \/ /\ pc = "fit" /\ (k < n \/ oldestReport = 0) /\ EndsList(c, n)
       /\ entryBufPos = EndOf(c[n])

\* nextToTransmit is one of the kept reports; only the write to an empty block
\* has it stand at the place of the report to come.
NextKept(c, n) ==
    \/ nextToTransmit = NULL
    \/ \E i \in 1 .. n : nextToTransmit = c[i]
    \/ pc = "write" /\ n = 0 /\ nextToTransmit = 0

Shape(c, k, n) ==
    /\ Laid(memory, c, k, n)
    /\ n > 0 => oldestReport = c[1]
    /\ NextKept(c, n)
    /\ pc = "idle" => \/ EndsList(c, n)
                      \/ n = 0 /\ oldestReport = NULL /\ lastEnqueuedReport = NULL
    /\ pc # "idle" => /\ Making(c, k, n)
                      /\ made < MaxReports /\ bufferEntrySize \in Sizes
                      /\ entryBufPos + bufferEntrySize <= MemoryBlockSize

Shaped == \E c \in [1 .. reportsCount -> Address], k \in 0 .. reportsCount :
              Shape(c, k, reportsCount)

BufferInv == TypeOK /\ reportsCount <= made /\ Shaped
-----------------------------------------------------------------------------
(* Entries in the block.                                                   *)

(* The block has a first address, and the entries and sizes are numbers.   *)
LEMMA Numbers ==
    /\ MemoryBlockSize \in Nat /\ MemoryBlockSize > 0 /\ 0 \in Address
    /\ Address \subseteq Nat /\ MaxReports \in Nat
    /\ \A s \in Sizes : s \in Nat /\ s > 0
    /\ \A e \in Entry : e.entryLength \in Nat /\ e.entryLength > 0
    /\ Garbage \notin Entry /\ NULL \notin Address /\ NULL \in Pointer
<1>1. \A s \in Sizes : s \in Nat /\ s > 0
  BY BufferAssumption
<1>2. \A e \in Entry : e.entryLength \in Sizes
  BY DEF Entry
<1>3. Garbage \notin Entry
  <2>1. Garbage.entryLength = 0
    BY DEF Garbage
  <2> QED BY <1>1, <1>2, <2>1
<1>4. /\ MemoryBlockSize \in Nat /\ MemoryBlockSize > 0 /\ 0 \in Address
      /\ Address \subseteq Nat /\ MaxReports \in Nat
      /\ NULL \notin Address /\ NULL \in Pointer
  BY BufferAssumption DEF Address, NULL, Pointer
<1> QED BY <1>1, <1>2, <1>3, <1>4

(* Kept reports occupy different bytes, so they have different addresses.  *)
LEMMA Apart ==
  ASSUME NEW m, NEW c, NEW n \in Nat, NEW k, Laid(m, c, k, n),
         NEW i \in 1 .. n, NEW j \in 1 .. n, i # j
  PROVE  /\ Behind(m, c[i]) <= c[j] \/ Behind(m, c[j]) <= c[i]
         /\ c[i] # c[j]
<1>1. /\ c[i] \in Nat /\ c[j] \in Nat
      /\ m[c[i]].entryLength \in Nat /\ m[c[i]].entryLength > 0
      /\ m[c[j]].entryLength \in Nat /\ m[c[j]].entryLength > 0
  BY Numbers DEF Laid
<1>2. Behind(m, c[i]) <= c[j] \/ Behind(m, c[j]) <= c[i]
  BY DEF Laid
<1> QED BY <1>1, <1>2 DEF Behind

(* The oldest report removed: the others lie as they did.                  *)
LEMMA Dropped ==
  ASSUME NEW m, NEW c, NEW n \in Nat, NEW k, Laid(m, c, k, n), n > 0
  PROVE  Laid(m, [i \in 1 .. n - 1 |-> c[i + 1]],
              IF k = 1 THEN n - 1 ELSE k - 1, n - 1)
<1> DEFINE d == [i \in 1 .. n - 1 |-> c[i + 1]]
           h == IF k = 1 THEN n - 1 ELSE k - 1
<1>1. k \in 1 .. n /\ h \in 0 .. n - 1 /\ (h = 0 => n - 1 = 0)
  BY DEF Laid
<1>2. d \in [1 .. n - 1 -> Address] /\ \A i \in 1 .. n - 1 : d[i] = c[i + 1] /\ i + 1 \in 1 .. n
  BY DEF Laid
<1>3. \A i \in 1 .. n - 1 : m[d[i]] \in Entry /\ Behind(m, d[i]) <= MemoryBlockSize
  BY <1>2 DEF Laid
<1>4. \A i \in 1 .. n - 2 : m[d[i]].next = d[i + 1]
  <2> SUFFICES ASSUME NEW i \in 1 .. n - 2 PROVE m[d[i]].next = d[i + 1]
    OBVIOUS
  <2>1. i + 1 \in 1 .. n - 1 /\ d[i] = c[i + 1] /\ d[i + 1] = c[i + 1 + 1]
    BY <1>2
  <2>2. m[c[i + 1]].next = c[i + 1 + 1]
    BY <2>1 DEF Laid
  <2> QED BY <2>1, <2>2
<1>5. ASSUME NEW i \in 1 .. n - 1, NEW j \in 1 .. n - 1, i < j, j <= h \/ i > h
      PROVE  Behind(m, d[i]) <= d[j]
  <2>1. i + 1 \in 1 .. n /\ j + 1 \in 1 .. n /\ i + 1 < j + 1
    BY <1>5
  <2>2. j + 1 <= k \/ i + 1 > k
    BY <1>1, <1>5
  <2>3. Behind(m, c[i + 1]) <= c[j + 1]
    BY <2>1, <2>2 DEF Laid
  <2> QED BY <2>3, <1>2
<1>6. ASSUME NEW i \in 1 .. n - 1, NEW j \in 1 .. n - 1, i <= h, j > h
      PROVE  Behind(m, d[j]) <= d[i]
  <2>1. i + 1 \in 1 .. n /\ j + 1 \in 1 .. n
    OBVIOUS
  <2>2. i + 1 <= k /\ j + 1 > k
    BY <1>1, <1>6
  <2>3. Behind(m, c[j + 1]) <= c[i + 1]
    BY <2>1, <2>2 DEF Laid
  <2> QED BY <2>3, <1>2
<1>7. h < n - 1 => d[h + 1] = 0
  <2> SUFFICES ASSUME h < n - 1 PROVE d[h + 1] = 0
    OBVIOUS
  <2>1. h = k - 1 /\ h + 1 \in 1 .. n - 1 /\ h + 1 + 1 = k + 1 /\ k < n
    BY <1>1
  <2>2. d[h + 1] = c[h + 1 + 1]
    BY <2>1, <1>2
  <2> QED BY <2>1, <2>2 DEF Laid
<1>8. n - 1 - 1 = n - 2
  OBVIOUS
<1> HIDE DEF d, h
<1>9. Laid(m, d, h, n - 1)
  BY <1>1, <1>2, <1>3, <1>4, <1>5, <1>6, <1>7, <1>8 DEF Laid
<1> QED BY <1>9 DEF d, h

\* The block with the next pointer of the entry at a set to p.
SetNext(m, a, p) == [m EXCEPT ![a].next = p]

(* The next pointer of the last report may be set: it is not looked at.    *)
LEMMA Linked ==
  ASSUME NEW m \in Block, NEW c, NEW n \in Nat, NEW k, Laid(m, c, k, n),
         n > 0, NEW p \in Pointer, NEW l, l = SetNext(m, c[n], p)
  PROVE  /\ l \in Block /\ Laid(l, c, k, n) /\ l[c[n]].next = p
         /\ \A i \in 1 .. n : /\ l[c[i]].number = m[c[i]].number
                              /\ Behind(l, c[i]) = Behind(m, c[i])
<1>1. n \in 1 .. n /\ c[n] \in Address /\ m[c[n]] \in Entry
  BY DEF Laid
<1>2. /\ l = [m EXCEPT ![c[n]] = [m[c[n]] EXCEPT !.next = p]]
      /\ [m[c[n]] EXCEPT !.next = p] \in Entry
      /\ [m[c[n]] EXCEPT !.next = p].entryLength = m[c[n]].entryLength
      /\ [m[c[n]] EXCEPT !.next = p].number = m[c[n]].number
      /\ [m[c[n]] EXCEPT !.next = p].next = p
  BY <1>1 DEF Entry, SetNext
<1>3. l \in Block /\ l[c[n]] = [m[c[n]] EXCEPT !.next = p]
  BY <1>1, <1>2 DEF Block
<1>4. ASSUME NEW i \in 1 .. n PROVE
        /\ l[c[i]] \in Entry /\ l[c[i]].entryLength = m[c[i]].entryLength
        /\ l[c[i]].number = m[c[i]].number
        /\ i < n => l[c[i]] = m[c[i]]
  <2>1. CASE i = n
    BY <2>1, <1>2, <1>3
  <2>2. CASE i # n
    <3>1. c[i] # c[n] /\ c[i] \in Address /\ m[c[i]] \in Entry
      BY <2>2, <1>1, Apart DEF Laid
    <3>2. l[c[i]] = m[c[i]]
      BY <3>1, <1>1, <1>2 DEF Block
    <3> QED BY <3>1, <3>2
  <2> QED BY <2>1, <2>2
<1>5. \A i \in 1 .. n : Behind(l, c[i]) = Behind(m, c[i])
  BY <1>4 DEF Behind
<1>6. \A i \in 1 .. n - 1 : i \in 1 .. n /\ i < n
  OBVIOUS
<1>7. \A i \in 1 .. n - 1 : l[c[i]].next = c[i + 1]
  BY <1>4, <1>6 DEF Laid
<1>8. Laid(l, c, k, n)
  BY <1>4, <1>5, <1>7 DEF Laid
<1>9. l[c[n]].next = p
  BY <1>2, <1>3
<1> QED BY <1>3, <1>4, <1>5, <1>8, <1>9

\* The list with one report more.
Longer(c, n, p) == [i \in 1 .. n + 1 |-> IF i <= n THEN c[i] ELSE p]

(* A report put where no kept one lies, in the run of the last one or at   *)
(* the start of the block, is the last of a list that lies as before.      *)
LEMMA Placed ==
  ASSUME NEW m \in Block, NEW c, NEW n \in Nat, NEW k, Laid(m, c, k, n),
         NEW p \in Address, NEW size \in Sizes, p + size <= MemoryBlockSize,
         NEW e \in Entry, e.entryLength = size,
         n > 0 => m[c[n]].next = p,
         NEW h \in {k, n + 1},
         h = n + 1 => k = n /\ \A i \in 1 .. n : Behind(m, c[i]) <= p,
         h # n + 1 => /\ n > 0 /\ (k = n => p = 0)
                      /\ \A i \in 1 .. n : i <= k => p + size <= c[i]
                      /\ \A i \in 1 .. n : i > k => Behind(m, c[i]) <= p
  PROVE  /\ Written(m, p, size, e) \in Block /\ Written(m, p, size, e)[p] = e
         /\ \A i \in 1 .. n : Written(m, p, size, e)[c[i]] = m[c[i]]
         /\ Laid(Written(m, p, size, e), Longer(c, n, p), h, n + 1)
<1> DEFINE w == Written(m, p, size, e)
           d == Longer(c, n, p)
<1>1. /\ p \in Nat /\ size \in Nat /\ size > 0 /\ k \in 0 .. n
      /\ h \in 0 .. n + 1 /\ (h = 0 => n + 1 = 0)
  BY Numbers DEF Laid
<1>2. w \in Block /\ w[p] = e
  <2>1. ASSUME NEW a \in Address PROVE w[a] \in Entry \cup {Garbage}
    BY DEF Written, Block
  <2> QED BY <2>1 DEF Written, Block
<1>3. ASSUME NEW i \in 1 .. n PROVE
        /\ c[i] \in Nat /\ c[i] \in Address /\ Behind(m, c[i]) \in Nat
        /\ m[c[i]] \in Entry /\ Behind(m, c[i]) > c[i]
        /\ Behind(m, c[i]) <= MemoryBlockSize
  <2>1. c[i] \in Address /\ m[c[i]] \in Entry /\ Behind(m, c[i]) <= MemoryBlockSize
    BY DEF Laid
  <2>2. c[i] \in Nat /\ m[c[i]].entryLength \in Nat /\ m[c[i]].entryLength > 0
    BY <2>1, Numbers
  <2> QED BY <2>1, <2>2 DEF Behind
<1>4. ASSUME NEW i \in 1 .. n PROVE
        /\ h = n + 1 => Behind(m, c[i]) <= p
        /\ h # n + 1 /\ i <= k => p + size <= c[i]
        /\ h # n + 1 /\ i > k => Behind(m, c[i]) <= p
  OBVIOUS
<1>5. ASSUME NEW i \in 1 .. n PROVE w[c[i]] = m[c[i]]
  <2>1. Behind(m, c[i]) <= p \/ p + size <= c[i]
    <3>1. CASE h = n + 1
      BY <3>1, <1>4
    <3>2. CASE h # n + 1
      BY <3>2, <1>4, <1>1
    <3> QED BY <3>1, <3>2
  <2>2. c[i] # p
    BY <2>1, <1>1, <1>3
  <2>3. ~(c[i] < p + size /\ p < Behind(m, c[i]))
    BY <2>1, <1>1, <1>3
  <2> QED BY <1>3, <2>2, <2>3 DEF Written, Behind
<1>6. /\ d \in [1 .. n + 1 -> Address]
      /\ d[n + 1] = p /\ \A i \in 1 .. n : d[i] = c[i]
      /\ \A i \in 1 .. n + 1 : i \in 1 .. n \/ i = n + 1
  BY <1>3 DEF Longer
<1>7. /\ \A i \in 1 .. n : Behind(w, d[i]) = Behind(m, c[i])
      /\ Behind(w, d[n + 1]) = p + size
  BY <1>2, <1>5, <1>6 DEF Behind
<1> HIDE DEF w, d
<1>8. ASSUME NEW i \in 1 .. n + 1
      PROVE  w[d[i]] \in Entry /\ Behind(w, d[i]) <= MemoryBlockSize
  <2>1. CASE i = n + 1
    BY <2>1, <1>2, <1>6, <1>7
  <2>2. CASE i \in 1 .. n
    BY <2>2, <1>3, <1>5, <1>6, <1>7
  <2> QED BY <1>6, <2>1, <2>2
<1>9. ASSUME NEW i \in 1 .. n PROVE w[d[i]].next = d[i + 1]
  <2>1. CASE i = n
    BY <2>1, <1>5, <1>6
  <2>2. CASE i # n
    <3>1. i \in 1 .. n - 1 /\ i + 1 \in 1 .. n
      BY <2>2
    <3>2. m[c[i]].next = c[i + 1]
      BY <3>1 DEF Laid
    <3> QED BY <3>1, <3>2, <1>5, <1>6
  <2> QED BY <2>1, <2>2
<1>10. ASSUME NEW i \in 1 .. n + 1, NEW j \in 1 .. n + 1, i < j, j <= h \/ i > h
       PROVE  Behind(w, d[i]) <= d[j]
  <2>1. i \in 1 .. n
    BY <1>10
  <2>2. CASE j = n + 1
    <3>1. h = n + 1 \/ i > k
      BY <2>2, <1>1, <1>10
    <3> QED BY <3>1, <2>1, <2>2, <1>1, <1>4, <1>6, <1>7
  <2>3. CASE j \in 1 .. n
    <3>1. j <= k \/ i > k
      BY <2>3, <1>1, <1>10
    <3>2. Behind(m, c[i]) <= c[j]
      BY <3>1, <2>1, <2>3, <1>10 DEF Laid
    <3> QED BY <3>2, <2>1, <2>3, <1>6, <1>7
  <2> QED BY <1>6, <2>2, <2>3
<1>11. ASSUME NEW i \in 1 .. n + 1, NEW j \in 1 .. n + 1, i <= h, j > h
       PROVE  Behind(w, d[j]) <= d[i]
  <2>1. h = k /\ h # n + 1 /\ i \in 1 .. n
    BY <1>1, <1>11
  <2>2. CASE j = n + 1
    BY <2>1, <2>2, <1>4, <1>6, <1>7, <1>11
  <2>3. CASE j \in 1 .. n
    <3>1. Behind(m, c[j]) <= c[i]
      BY <2>1, <2>3, <1>11 DEF Laid
    <3> QED BY <3>1, <2>1, <2>3, <1>6, <1>7
  <2> QED BY <1>6, <2>2, <2>3
<1>12. h < n + 1 => d[h + 1] = 0
  <2> SUFFICES ASSUME h < n + 1 PROVE d[h + 1] = 0
    OBVIOUS
  <2>1. h = k /\ h # n + 1
    BY <1>1
  <2>2. CASE k = n
    BY <2>1, <2>2, <1>6
  <2>3. CASE k < n
    <3>1. k + 1 \in 1 .. n
      BY <2>3, <1>1
    <3>2. c[k + 1] = 0
      BY <2>3 DEF Laid
    <3> QED BY <3>1, <3>2, <2>1, <1>6
  <2> QED BY <2>2, <2>3, <1>1
<1>13. n + 1 - 1 = n
  OBVIOUS
<1>14. Laid(w, d, h, n + 1)
  BY <1>1, <1>6, <1>8, <1>9, <1>10, <1>11, <1>12, <1>13 DEF Laid
<1> QED BY <1>2, <1>5, <1>14 DEF w, d
-----------------------------------------------------------------------------
(* The list as it is read from oldestReport.                               *)

(* A nonempty set of numbers has a least one.                              *)
LEMMA LeastNumber ==
  ASSUME NEW T \in SUBSET Nat, T # {}
  PROVE  \E x \in T : \A y \in T : x <= y
<1> DEFINE R == {ss \in Nat \X Nat : ss[1] < ss[2]}
<1>1. OpToRel(<, Nat) = R
  BY DEF OpToRel
<1>2. IsWellFoundedOn(R, Nat)
  BY <1>1, NatLessThanWellFounded
<1>3. PICK x \in T : \A y \in T : ~(<<y, x>> \in R)
  <2> HIDE DEF R
  <2> QED BY <1>2, WFMin
<1>4. ASSUME NEW y \in T PROVE x <= y
  <2> SUFFICES ASSUME ~(x <= y) PROVE FALSE
    OBVIOUS
  <2>1. <<y, x>> \in Nat \X Nat /\ y < x
    OBVIOUS
  <2> QED BY <1>3, <2>1
<1> QED BY <1>4

\* What is reached from oldestReport through the next pointers.
After(f, i) == IF i = 1 THEN oldestReport
               ELSE IF f[i - 1] = NULL THEN NULL ELSE memory[f[i - 1]].next
IsFollow(m, f) == f \in [1 .. m -> Pointer] /\ \A i \in 1 .. m : f[i] = After(f, i)

(* The next pointers can be followed any number of times.                  *)
LEMMA Followed ==
  ASSUME TypeOK, NEW m \in Nat
  PROVE  \E f : IsFollow(m, f)
<1> SUFFICES ASSUME ~ \E f : IsFollow(m, f) PROVE FALSE
  OBVIOUS
<1> DEFINE T == {x \in Nat : ~ \E f : IsFollow(x, f)}
<1>1. PICK x \in T : \A y \in T : x <= y
  <2>1. T \in SUBSET Nat /\ T # {}
    OBVIOUS
  <2> HIDE DEF T
  <2> QED BY <2>1, LeastNumber
<1>2. CASE x = 0
  <2>1. IsFollow(0, [i \in 1 .. 0 |-> NULL])
    BY DEF IsFollow
  <2> QED BY <1>2, <2>1
<1>3. CASE x # 0
  <2>1. x - 1 \in Nat /\ x - 1 \notin T
    BY <1>1, <1>3
  <2>2. PICK f : IsFollow(x - 1, f)
    BY <2>1
  <2> DEFINE final == IF x = 1 THEN oldestReport
                     ELSE IF f[x - 1] = NULL THEN NULL ELSE memory[f[x - 1]].next
             g == [i \in 1 .. x |-> IF i < x THEN f[i] ELSE final]
  <2>3. final \in Pointer
    <3>1. x # 1 => f[x - 1] \in Pointer
      BY <1>3, <2>2 DEF IsFollow
    <3>2. ASSUME NEW p \in Address PROVE memory[p].next \in Pointer
      BY DEF TypeOK, Entry, Garbage, Pointer
    <3> QED BY <3>1, <3>2 DEF TypeOK, Pointer
  <2> HIDE DEF final
  <2>4. g \in [1 .. x -> Pointer]
    <3>1. ASSUME NEW i \in 1 .. x, i < x PROVE f[i] \in Pointer
      BY <2>2, <3>1 DEF IsFollow
    <3> QED BY <3>1, <2>3
  <2>5. ASSUME NEW i \in 1 .. x PROVE g[i] = After(g, i)
    <3>1. CASE i < x
      <4>1. i \in 1 .. x - 1 /\ g[i] = f[i] /\ (i # 1 => g[i - 1] = f[i - 1])
        BY <3>1
      <4>2. f[i] = After(f, i)
        BY <4>1, <2>2 DEF IsFollow
      <4> QED BY <4>1, <4>2 DEF After
    <3>2. CASE i = x
      <4>1. g[i] = final /\ (i # 1 => g[i - 1] = f[i - 1])
        BY <3>2
      <4> QED BY <3>2, <4>1 DEF After, final
    <3> QED BY <3>1, <3>2
  <2> HIDE DEF g
  <2>6. IsFollow(x, g)
    BY <2>4, <2>5 DEF IsFollow
  <2> QED BY <2>6
<1> QED BY <1>2, <1>3

(* Chain is the list of the kept reports.                                  *)
LEMMA ChainIs ==
  ASSUME TypeOK, NEW c, NEW k, Shape(c, k, reportsCount)
  PROVE  Chain = c
<1>1. /\ reportsCount \in Nat /\ reportsCount <= MaxReports /\ MaxReports \in Nat
      /\ c \in [1 .. reportsCount -> Address]
  BY Numbers DEF TypeOK, Shape, Laid
<1> DEFINE Follows(f) == f = [n \in 1 .. MaxReports |->
                                IF n = 1 THEN oldestReport
                                ELSE IF f[n - 1] = NULL THEN NULL
                                ELSE memory[f[n - 1]].next]
           g == CHOOSE f : Follows(f)
<1>2. \E f : Follows(f)
  <2>1. PICK f : IsFollow(MaxReports, f)
    BY <1>1, Followed
  <2>2. Follows(f)
    BY <2>1 DEF IsFollow, After
  <2> QED BY <2>2
<1>3. Follows(g)
  BY <1>2
<1>4. Chain = [n \in 1 .. reportsCount |-> g[n]]
  BY <1>3 DEF Chain
<1>5. ASSUME NEW i \in 1 .. MaxReports
      PROVE  g[i] = IF i = 1 THEN oldestReport
                    ELSE IF g[i - 1] = NULL THEN NULL ELSE memory[g[i - 1]].next
  BY <1>3
<1> HIDE DEF g, Follows
<1>6. ASSUME NEW i \in 1 .. reportsCount PROVE g[i] = c[i]
  <2> SUFFICES ASSUME g[i] # c[i] PROVE FALSE
    OBVIOUS
  <2> DEFINE T == {x \in 1 .. reportsCount : g[x] # c[x]}
  <2>1. PICK x \in T : \A y \in T : x <= y
    <3>1. T \in SUBSET Nat /\ T # {}
      BY <1>1
    <3> HIDE DEF T
    <3> QED BY <3>1, LeastNumber
  <2>2. x \in 1 .. MaxReports /\ x \in Nat
    BY <1>1
  <2>3. CASE x = 1
    BY <2>2, <2>3, <1>1, <1>5 DEF Shape
  <2>4. CASE x # 1
    <3>1. x - 1 \in 1 .. reportsCount - 1 /\ x - 1 \in 1 .. reportsCount /\ x - 1 + 1 = x
      BY <2>4, <1>1
    <3>2. g[x - 1] = c[x - 1]
      BY <3>1, <2>1, <1>1
    <3>3. memory[c[x - 1]].next = c[x - 1 + 1]
      BY <3>1 DEF Shape, Laid
    <3>4. c[x - 1] # NULL
      BY <3>1, <1>1, Numbers
    <3>5. g[x] = memory[g[x - 1]].next
      BY <2>2, <2>4, <3>2, <3>4, <1>5
    <3> QED BY <3>1, <3>2, <3>3, <3>5
  <2> QED BY <2>3, <2>4
<1> QED BY <1>1, <1>4, <1>6
-----------------------------------------------------------------------------
(* The steps.  Each lemma says which reports are kept after the step.      *)

(* The kept reports, as numbers and entries.                               *)
LEMMA KeptEntries ==
  ASSUME TypeOK, NEW c, NEW k, Shape(c, k, reportsCount), NEW i \in 1 .. reportsCount
  PROVE  /\ c[i] \in Address /\ c[i] \in Nat /\ c[i] # NULL
         /\ memory[c[i]] \in Entry /\ memory[c[i]].next \in Pointer
         /\ memory[c[i]].number \in 1 .. MaxReports
         /\ EndOf(c[i]) \in Nat /\ c[i] < EndOf(c[i])
         /\ EndOf(c[i]) = Behind(memory, c[i]) /\ EndOf(c[i]) <= MemoryBlockSize
<1>1. c[i] \in Address /\ memory[c[i]] \in Entry /\ Behind(memory, c[i]) <= MemoryBlockSize
  BY DEF Shape, Laid
<1>2. /\ memory[c[i]].entryLength \in Nat /\ memory[c[i]].entryLength > 0
      /\ c[i] \in Nat /\ c[i] # NULL
  BY <1>1, Numbers
<1>3. memory[c[i]].next \in Pointer /\ memory[c[i]].number \in 1 .. MaxReports
  BY <1>1 DEF Entry
<1> QED BY <1>1, <1>2, <1>3 DEF EndOf, Behind

(* A block without reports.                                                *)
LEMMA NothingLaid ==
  ASSUME NEW m, NEW c, c \in [1 .. 0 -> Address]
  PROVE  Laid(m, c, 0, 0)
BY DEF Laid

(* A step that leaves the reports alone, but may begin to make room.       *)
LEMMA SameList ==
  ASSUME NEW c, NEW k, Shape(c, k, reportsCount),
         UNCHANGED <<memory, oldestReport, nextToTransmit, reportsCount>>,
         pc # "write", pc' # "idle", Making(c, k, reportsCount)',
         (made < MaxReports /\ bufferEntrySize \in Sizes
          /\ entryBufPos + bufferEntrySize <= MemoryBlockSize)'
  PROVE  Shape(c, k, reportsCount)'
<1>1. Laid(memory, c, k, reportsCount)' /\ (reportsCount > 0 => oldestReport = c[1])'
  BY DEF Shape
<1>2. NextKept(c, reportsCount)'
  BY DEF Shape, NextKept
<1> QED BY <1>1, <1>2 DEF Shape

(* The report that is too large is not put anywhere.                       *)
LEMMA TooLargeStep ==
  ASSUME BufferInv, NEW size \in Sizes, TooLarge(size), NEW c, NEW k,
         Shape(c, k, reportsCount)
  PROVE  Shape(c, k, reportsCount)' /\ TypeOK' /\ (reportsCount <= made)'
<1>1. made < MaxReports /\ made' = made + 1 /\ pc = "idle" /\ made \in 0 .. MaxReports
  BY DEF TooLarge, CanBegin, BufferInv, TypeOK
<1>2. UNCHANGED <<memory, oldestReport, lastEnqueuedReport, nextToTransmit,
                  reportsCount, pc, entryBufPos, bufferEntrySize, sent>>
  BY DEF TooLarge, pointers, locals
<1>3. TypeOK'
  BY <1>1, <1>2, Numbers DEF BufferInv, TypeOK
<1>4. Laid(memory, c, k, reportsCount)' /\ NextKept(c, reportsCount)'
  BY <1>2 DEF Shape, NextKept
<1>5. Shape(c, k, reportsCount)'
  BY <1>1, <1>2, <1>4 DEF Shape, EndsList
<1>6. (reportsCount <= made)'
  BY <1>1, <1>2, Numbers DEF BufferInv, TypeOK
<1> QED BY <1>3, <1>5, <1>6

(* What holds when an entry that fits into the block is begun.             *)
LEMMA Begun ==
  ASSUME TypeOK, NEW size \in Sizes, NEW position, NEW loop,
         Begin(size, position, loop),
         position = 0 \/ (position \in Nat /\ ~Overflows(position, size)),
         loop \in Pcs \ {"idle"}
  PROVE  /\ pc = "idle" /\ pc' = loop /\ made' = made /\ sent' = sent
         /\ made < MaxReports /\ entryBufPos' = position
         /\ (made < MaxReports /\ bufferEntrySize \in Sizes
             /\ entryBufPos + bufferEntrySize <= MemoryBlockSize)'
         /\ (pc \in Pcs)' /\ (entryBufPos \in Address)'
         /\ (bufferEntrySize \in Sizes \cup {0})'
<1>1. /\ pc = "idle" /\ pc' = loop /\ made' = made /\ sent' = sent
      /\ made < MaxReports /\ entryBufPos' = position /\ bufferEntrySize' = size
      /\ size <= MemoryBlockSize
  BY DEF Begin, CanBegin
<1>2. size \in Nat /\ size > 0 /\ MemoryBlockSize \in Nat
  BY Numbers
<1>3. position + size <= MemoryBlockSize /\ position \in Address
  BY <1>1, <1>2 DEF Overflows, Address
<1> QED BY <1>1, <1>3

(* The first report goes to the start of the block.                        *)
LEMMA FirstStep ==
  ASSUME BufferInv, NEW size \in Sizes, EnqueueFirst(size), NEW c, NEW k,
         Shape(c, k, reportsCount)
  PROVE  /\ Shape(c, k, reportsCount)' /\ TypeOK' /\ (reportsCount <= made)'
         /\ reportsCount = 0 /\ reportsCount' = 0
<1>1. Begin(size, 0, "write") /\ lastEnqueuedReport = NULL
      /\ oldestReport' = 0 /\ nextToTransmit' = 0
      /\ UNCHANGED <<memory, lastEnqueuedReport, reportsCount>>
  BY DEF EnqueueFirst
<1>2. /\ pc = "idle" /\ pc' = "write" /\ made' = made /\ sent' = sent
      /\ (made < MaxReports /\ bufferEntrySize \in Sizes
          /\ entryBufPos + bufferEntrySize <= MemoryBlockSize)'
      /\ entryBufPos' = 0
      /\ (pc \in Pcs)' /\ (entryBufPos \in Address)'
      /\ (bufferEntrySize \in Sizes \cup {0})'
  BY <1>1, Begun DEF Pcs, BufferInv
<1>3. reportsCount = 0
  <2>1. ~EndsList(c, reportsCount)
    <3> SUFFICES ASSUME EndsList(c, reportsCount) PROVE FALSE
      OBVIOUS
    <3>1. reportsCount \in 1 .. reportsCount /\ lastEnqueuedReport = c[reportsCount]
      BY DEF EndsList, BufferInv, TypeOK
    <3> QED BY <3>1, <1>1, KeptEntries DEF BufferInv
  <2> QED BY <2>1, <1>2 DEF Shape
<1>4. TypeOK'
  <2>1. (oldestReport \in Pointer)' /\ (nextToTransmit \in Pointer)'
    BY <1>1, Numbers DEF Pointer
  <2> QED BY <1>1, <1>2, <2>1 DEF BufferInv, TypeOK
<1>5. Laid(memory, c, k, reportsCount)' /\ reportsCount' = 0
  BY <1>1, <1>3 DEF Shape
<1>6. NextKept(c, reportsCount)' /\ Making(c, k, reportsCount)'
  BY <1>1, <1>2, <1>5 DEF NextKept, Making
<1>7. Shape(c, k, reportsCount)'
  BY <1>2, <1>5, <1>6 DEF Shape
<1> QED BY <1>1, <1>2, <1>3, <1>4, <1>5, <1>7 DEF BufferInv

(* Between two calls with a last report, it ends the list.                 *)
LEMMA LastOfList ==
  ASSUME TypeOK, pc = "idle", lastEnqueuedReport # NULL, NEW c, NEW k,
         Shape(c, k, reportsCount)
  PROVE  /\ EndsList(c, reportsCount) /\ reportsCount \in 1 .. reportsCount
         /\ 1 \in 1 .. reportsCount /\ oldestReport = c[1]
         /\ lastEnqueuedReport = c[reportsCount]
BY DEF Shape, EndsList, TypeOK

(* The second report goes behind the first one, or replaces it.            *)
LEMMA SecondStep ==
  ASSUME BufferInv, NEW size \in Sizes, EnqueueSecond(size), NEW c, NEW k,
         Shape(c, k, reportsCount)
  PROVE  /\ TypeOK' /\ (reportsCount <= made)' /\ reportsCount = 1
         /\ \/ /\ reportsCount' = 0 /\ nextToTransmit' = NULL
               /\ Shape([i \in 1 .. 0 |-> c[i]], 0, reportsCount)'
            \/ /\ UNCHANGED <<reportsCount, nextToTransmit>>
               /\ Shape(c, k, reportsCount)'
               /\ memory'[c[1]].number = memory[c[1]].number
<1>1. /\ lastEnqueuedReport # NULL /\ lastEnqueuedReport = oldestReport
      /\ lastEnqueuedReport' = lastEnqueuedReport /\ pc = "idle"
  BY DEF EnqueueSecond, Begin, CanBegin
<1>2. /\ EndsList(c, reportsCount) /\ reportsCount \in 1 .. reportsCount
      /\ 1 \in 1 .. reportsCount /\ oldestReport = c[1]
      /\ lastEnqueuedReport = c[reportsCount]
  BY <1>1, LastOfList DEF BufferInv
<1>3. reportsCount = 1
  <2> SUFFICES ASSUME reportsCount # 1 PROVE FALSE
    OBVIOUS
  <2>1. reportsCount \in Nat /\ Laid(memory, c, k, reportsCount)
    BY DEF BufferInv, TypeOK, Shape
  <2>2. c[1] # c[reportsCount]
    BY <1>2, <2>1, Apart
  <2> QED BY <1>1, <1>2, <2>2
<1>4. k = 1 /\ Laid(memory, c, 1, 1)
  BY <1>3 DEF Shape, Laid
<1>5. /\ c[1] \in Address /\ EndOf(c[1]) \in Nat /\ memory[c[1]] \in Entry
      /\ memory \in Block
  BY <1>3, KeptEntries DEF BufferInv, TypeOK, Block
<1>6. CASE Overflows(EndOf(lastEnqueuedReport), size)
  <2>1. /\ Begin(size, 0, "write") /\ reportsCount' = 0 /\ oldestReport' = 0
        /\ nextToTransmit' = NULL /\ memory' = memory
    BY <1>6 DEF EnqueueSecond
  <2>2. /\ pc' = "write" /\ made' = made /\ sent' = sent
        /\ (made < MaxReports /\ bufferEntrySize \in Sizes
            /\ entryBufPos + bufferEntrySize <= MemoryBlockSize)'
        /\ entryBufPos' = 0
        /\ (pc \in Pcs)' /\ (entryBufPos \in Address)'
        /\ (bufferEntrySize \in Sizes \cup {0})'
    BY <2>1, Begun DEF Pcs, BufferInv
  <2>3. TypeOK'
    <3>1. (oldestReport \in Pointer)' /\ (nextToTransmit \in Pointer)'
          /\ (reportsCount \in 0 .. MaxReports)'
      BY <2>1, Numbers DEF Pointer
    <3> QED BY <1>1, <2>1, <2>2, <3>1 DEF BufferInv, TypeOK
  <2> DEFINE d == [i \in 1 .. 0 |-> c[i]]
  <2>4. Laid(memory, d, 0, reportsCount)'
    <3>1. d \in [1 .. 0 -> Address]
      OBVIOUS
    <3> HIDE DEF d
    <3> QED BY <2>1, <3>1, NothingLaid
  <2>5. NextKept(d, reportsCount)' /\ Making(d, 0, reportsCount)'
    BY <2>1, <2>2 DEF NextKept, Making
  <2> HIDE DEF d
  <2>6. Shape(d, 0, reportsCount)'
    BY <2>1, <2>2, <2>4, <2>5 DEF Shape
  <2>7. (reportsCount <= made)'
    BY <2>1, <2>2 DEF BufferInv, TypeOK
  <2> QED BY <1>3, <2>1, <2>3, <2>6, <2>7 DEF d
<1>7. CASE ~Overflows(EndOf(lastEnqueuedReport), size)
  <2>1. /\ Begin(size, EndOf(c[1]), "write")
        /\ memory' = [memory EXCEPT ![c[1]].next = EndOf(c[1])]
        /\ UNCHANGED <<reportsCount, oldestReport, nextToTransmit>>
    BY <1>1, <1>2, <1>7 DEF EnqueueSecond
  <2>2. /\ pc' = "write" /\ made' = made /\ sent' = sent
        /\ (made < MaxReports /\ bufferEntrySize \in Sizes
            /\ entryBufPos + bufferEntrySize <= MemoryBlockSize)'
        /\ entryBufPos' = EndOf(c[1])
        /\ (pc \in Pcs)' /\ (entryBufPos \in Address)'
        /\ (bufferEntrySize \in Sizes \cup {0})'
    <3>1. ~Overflows(EndOf(c[1]), size)
      BY <1>1, <1>2, <1>7
    <3> QED BY <2>1, <3>1, <1>5, Begun DEF Pcs, BufferInv
  <2>3. /\ memory' \in Block /\ Laid(memory', c, 1, 1)
        /\ memory'[c[1]].next = EndOf(c[1])
    <3>1. EndOf(c[1]) \in Address
      BY <2>2
    <3>2. EndOf(c[1]) \in Pointer
      BY <3>1 DEF Pointer
    <3>3. PICK p \in Pointer : p = EndOf(c[1])
      BY <3>2
    <3>4. memory' = SetNext(memory, c[1], p)
      BY <2>1, <3>3 DEF SetNext
    <3>5. memory' \in Block /\ Laid(memory', c, 1, 1) /\ memory'[c[1]].next = p
      <4>1. 1 \in Nat /\ 1 > 0
        OBVIOUS
      <4> QED BY <1>4, <1>5, <3>4, <4>1, Linked
    <3> QED BY <3>3, <3>5
  <2>4. /\ memory'[c[1]].number = memory[c[1]].number
        /\ memory'[c[1]].entryLength = memory[c[1]].entryLength
    <3>1. memory'[c[1]] = [memory[c[1]] EXCEPT !.next = EndOf(c[1])]
      BY <2>1, <1>5 DEF Block
    <3> QED BY <3>1, <1>5 DEF Entry
  <2>5. TypeOK'
    BY <1>1, <2>1, <2>2, <2>3 DEF BufferInv, TypeOK, Block
  <2>6. EndOf(c[1])' = EndOf(c[1])
    BY <2>4 DEF EndOf
  <2>7. Making(c, k, reportsCount)'
    BY <1>1, <1>2, <1>3, <2>1, <2>2, <2>3, <2>6 DEF Making
  <2>8. NextKept(c, reportsCount)'
    BY <1>1, <2>1 DEF Shape, NextKept
  <2>9. Shape(c, k, reportsCount)'
    BY <1>2, <1>3, <1>4, <2>1, <2>2, <2>3, <2>7, <2>8 DEF Shape
  <2> QED BY <1>3, <2>1, <2>2, <2>4, <2>5, <2>9 DEF BufferInv
<1> QED BY <1>6, <1>7

(* The reports lie in one run exactly when the last is not below the first.*)
LEMMA RunsOfList ==
  ASSUME TypeOK, NEW c, NEW k, Shape(c, k, reportsCount), reportsCount > 0
  PROVE  /\ k < reportsCount => c[reportsCount] < c[1]
         /\ k = reportsCount => c[1] <= c[reportsCount]
<1>1. /\ reportsCount \in Nat /\ k \in 1 .. reportsCount
      /\ 1 \in 1 .. reportsCount /\ reportsCount \in 1 .. reportsCount
  BY DEF TypeOK, Shape, Laid
<1>2. /\ c[1] \in Nat /\ c[reportsCount] \in Nat
      /\ Behind(memory, c[1]) \in Nat /\ c[1] < Behind(memory, c[1])
      /\ Behind(memory, c[reportsCount]) \in Nat
      /\ c[reportsCount] < Behind(memory, c[reportsCount])
  BY <1>1, KeptEntries
<1> PICK i \in 1 .. reportsCount, j \in 1 .. reportsCount : i = 1 /\ j = reportsCount
  BY <1>1
<1>3. CASE k < reportsCount
  <2>1. Behind(memory, c[reportsCount]) <= c[1]
    <3>1. Laid(memory, c, k, reportsCount) /\ 1 <= k /\ reportsCount > k
      BY <1>1, <1>3 DEF Shape
    <3>2. Behind(memory, c[j]) <= c[i]
      BY <3>1 DEF Laid
    <3> QED BY <3>2
  <2> QED BY <1>2, <1>3, <2>1
<1>4. CASE k = reportsCount /\ reportsCount # 1
  <2>1. Behind(memory, c[1]) <= c[reportsCount]
    <3>1. Laid(memory, c, k, reportsCount) /\ 1 < reportsCount /\ reportsCount <= k
      BY <1>1, <1>4 DEF Shape
    <3>2. Behind(memory, c[i]) <= c[j]
      BY <3>1 DEF Laid
    <3> QED BY <3>2
  <2> QED BY <1>2, <1>4, <2>1
<1>5. CASE k = reportsCount /\ reportsCount = 1
  BY <1>2, <1>5
<1> QED BY <1>1, <1>3, <1>4, <1>5

(* A report behind the last one, or at the start of a block in one run.    *)
LEMMA AfterStep ==
  ASSUME BufferInv, NEW size \in Sizes, EnqueueAfter(size), NEW c, NEW k,
         Shape(c, k, reportsCount)
  PROVE  Shape(c, k, reportsCount)' /\ TypeOK' /\ (reportsCount <= made)'
<1>1. /\ lastEnqueuedReport > oldestReport /\ pc = "idle"
      /\ UNCHANGED <<memory, oldestReport, lastEnqueuedReport, nextToTransmit,
                     reportsCount>>
      /\ \/ Begin(size, 0, "wrap")
         \/ /\ ~Overflows(EndOf(lastEnqueuedReport), size)
            /\ Begin(size, EndOf(lastEnqueuedReport), "link")
  BY DEF EnqueueAfter, Begin, CanBegin, pointers
<1>2. lastEnqueuedReport # NULL
  <2>1. oldestReport \in Int /\ oldestReport >= NULL
    BY DEF BufferInv, TypeOK, Pointer, Address, NULL
  <2> QED BY <1>1, <2>1 DEF NULL
<1>3. /\ EndsList(c, reportsCount) /\ reportsCount \in 1 .. reportsCount
      /\ 1 \in 1 .. reportsCount /\ oldestReport = c[1]
      /\ lastEnqueuedReport = c[reportsCount]
  BY <1>1, <1>2, LastOfList DEF BufferInv
<1>4. k = reportsCount
  <2>1. reportsCount \in Nat /\ reportsCount > 0 /\ k \in 0 .. reportsCount
    BY <1>3 DEF BufferInv, TypeOK, Shape, Laid
  <2>2. c[1] \in Nat /\ c[reportsCount] \in Nat
    BY <1>3, KeptEntries DEF BufferInv
  <2>3. k < reportsCount => c[reportsCount] < c[1]
    BY <2>1, RunsOfList DEF BufferInv
  <2> QED BY <1>1, <1>3, <2>1, <2>2, <2>3
<1>5. EndOf(c[reportsCount]) \in Nat /\ EndOf(c[reportsCount])' = EndOf(c[reportsCount])
  BY <1>1, <1>3, KeptEntries DEF BufferInv, EndOf
<1>6. EndsList(c, reportsCount)'
  BY <1>1, <1>3 DEF EndsList
<1>7. /\ made' = made /\ sent' = sent
      /\ (made < MaxReports /\ bufferEntrySize \in Sizes
          /\ entryBufPos + bufferEntrySize <= MemoryBlockSize)'
      /\ (pc \in Pcs)' /\ (entryBufPos \in Address)'
      /\ (bufferEntrySize \in Sizes \cup {0})'
      /\ \/ pc' = "wrap" /\ entryBufPos' = 0
         \/ pc' = "link" /\ entryBufPos' = EndOf(c[reportsCount])
  <2>1. CASE Begin(size, 0, "wrap")
    BY <2>1, Begun DEF Pcs, BufferInv
  <2>2. CASE /\ ~Overflows(EndOf(c[reportsCount]), size)
             /\ Begin(size, EndOf(c[reportsCount]), "link")
    BY <2>2, <1>5, Begun DEF Pcs, BufferInv
  <2> QED BY <1>1, <1>3, <2>1, <2>2
<1>8. Making(c, k, reportsCount)'
  BY <1>1, <1>4, <1>5, <1>6, <1>7 DEF Making
<1>9. Shape(c, k, reportsCount)'
  BY <1>1, <1>7, <1>8, SameList
<1>10. TypeOK' /\ (reportsCount <= made)'
  BY <1>1, <1>7 DEF BufferInv, TypeOK
<1> QED BY <1>9, <1>10

(* A report behind the last one, below the oldest, or at the start again.  *)
LEMMA BelowStep ==
  ASSUME BufferInv, NEW size \in Sizes, EnqueueBelow(size), NEW c, NEW k,
         Shape(c, k, reportsCount)
  PROVE  Shape(c, k, reportsCount)' /\ TypeOK' /\ (reportsCount <= made)'
<1>1. /\ lastEnqueuedReport < oldestReport /\ pc = "idle" /\ lastEnqueuedReport # NULL
      /\ UNCHANGED <<memory, oldestReport, lastEnqueuedReport, nextToTransmit,
                     reportsCount>>
      /\ \/ Begin(size, 0, "upper")
         \/ /\ ~Overflows(EndOf(lastEnqueuedReport), size)
            /\ Begin(size, EndOf(lastEnqueuedReport), "fit")
  BY DEF EnqueueBelow, Begin, CanBegin, pointers
<1>3. /\ EndsList(c, reportsCount) /\ reportsCount \in 1 .. reportsCount
      /\ 1 \in 1 .. reportsCount /\ oldestReport = c[1]
      /\ lastEnqueuedReport = c[reportsCount]
  BY <1>1, LastOfList DEF BufferInv
<1>4. k < reportsCount
  <2>1. reportsCount \in Nat /\ reportsCount > 0 /\ k \in 0 .. reportsCount
    BY <1>3 DEF BufferInv, TypeOK, Shape, Laid
  <2>2. c[1] \in Nat /\ c[reportsCount] \in Nat
    BY <1>3, KeptEntries DEF BufferInv
  <2>3. k = reportsCount => c[1] <= c[reportsCount]
    BY <2>1, RunsOfList DEF BufferInv
  <2> QED BY <1>1, <1>3, <2>1, <2>2, <2>3
<1>5. EndOf(c[reportsCount]) \in Nat /\ EndOf(c[reportsCount])' = EndOf(c[reportsCount])
  BY <1>1, <1>3, KeptEntries DEF BufferInv, EndOf
<1>6. EndsList(c, reportsCount)'
  BY <1>1, <1>3 DEF EndsList
<1>7. /\ made' = made /\ sent' = sent
      /\ (made < MaxReports /\ bufferEntrySize \in Sizes
          /\ entryBufPos + bufferEntrySize <= MemoryBlockSize)'
      /\ (pc \in Pcs)' /\ (entryBufPos \in Address)'
      /\ (bufferEntrySize \in Sizes \cup {0})'
      /\ \/ pc' = "upper" /\ entryBufPos' = 0
         \/ pc' = "fit" /\ entryBufPos' = EndOf(c[reportsCount])
  <2>1. CASE Begin(size, 0, "upper")
    BY <2>1, Begun DEF Pcs, BufferInv
  <2>2. CASE /\ ~Overflows(EndOf(c[reportsCount]), size)
             /\ Begin(size, EndOf(c[reportsCount]), "fit")
    BY <2>2, <1>5, Begun DEF Pcs, BufferInv
  <2> QED BY <1>1, <1>3, <2>1, <2>2
<1>8. Making(c, k, reportsCount)'
  BY <1>1, <1>4, <1>5, <1>6, <1>7 DEF Making
<1>9. Shape(c, k, reportsCount)'
  BY <1>1, <1>7, <1>8, SameList
<1>10. TypeOK' /\ (reportsCount <= made)'
  BY <1>1, <1>7 DEF BufferInv, TypeOK
<1> QED BY <1>9, <1>10

(* The first loop ends with the oldest report at the start of the block.   *)
LEMMA UpperDoneStep ==
  ASSUME BufferInv, UpperDone, NEW c, NEW k, Shape(c, k, reportsCount)
  PROVE  Shape(c, k, reportsCount)' /\ TypeOK' /\ (reportsCount <= made)'
<1>1. /\ pc = "upper" /\ ~(oldestReport > 0) /\ pc' = "lower"
      /\ UNCHANGED <<memory, oldestReport, lastEnqueuedReport, nextToTransmit,
                     reportsCount, entryBufPos, bufferEntrySize, made, sent>>
  BY DEF UpperDone, Evicting, pointers, locals
<1>2. /\ k < reportsCount \/ oldestReport = 0
      /\ EndsList(c, reportsCount) /\ entryBufPos = 0
  BY <1>1 DEF Shape, Making
<1>3. reportsCount \in Nat /\ reportsCount > 0 /\ 1 \in 1 .. reportsCount
  BY <1>2 DEF EndsList, BufferInv, TypeOK
<1>4. oldestReport = c[1] /\ c[1] = 0
  <2>1. oldestReport = c[1] /\ c[1] \in Nat
    BY <1>3, KeptEntries DEF Shape, BufferInv
  <2> QED BY <2>1, <1>1
<1>5. k = reportsCount
  <2> SUFFICES ASSUME k # reportsCount PROVE FALSE
    OBVIOUS
  <2>1. Laid(memory, c, k, reportsCount) /\ k < reportsCount /\ k \in 1 .. reportsCount
    BY <1>3 DEF Shape, Laid
  <2>2. k + 1 \in 1 .. reportsCount /\ k + 1 # 1 /\ c[k + 1] = 0
    BY <2>1, <1>3 DEF Laid
  <2>3. c[k + 1] # c[1]
    BY <2>1, <2>2, <1>3, Apart
  <2> QED BY <2>2, <2>3, <1>4
<1>6. EndsList(c, reportsCount)'
  BY <1>1, <1>2 DEF EndsList
<1>7. Making(c, k, reportsCount)'
  BY <1>1, <1>2, <1>5, <1>6 DEF Making
<1>8. (made < MaxReports /\ bufferEntrySize \in Sizes
       /\ entryBufPos + bufferEntrySize <= MemoryBlockSize)'
  BY <1>1 DEF Shape
<1>9. Shape(c, k, reportsCount)'
  BY <1>1, <1>7, <1>8, SameList
<1>10. TypeOK' /\ (reportsCount <= made)'
  BY <1>1 DEF BufferInv, TypeOK, Pcs
<1> QED BY <1>9, <1>10

(* While reports are removed there is one, and it ends the list.           *)
LEMMA EvictingLasts ==
  ASSUME BufferInv, Evicting, NEW c, NEW k, Shape(c, k, reportsCount)
  PROVE  /\ reportsCount \in Nat /\ reportsCount > 0 /\ EndsList(c, reportsCount)
         /\ oldestReport = c[1] /\ c[1] \in Nat /\ c[1] \in Address
         /\ k \in 1 .. reportsCount
         /\ pc \in {"wrap", "upper", "lower", "fit"}
         /\ pc = "fit" => entryBufPos = EndOf(c[reportsCount])
         /\ pc # "fit" => entryBufPos = 0
         /\ pc \in {"upper", "fit"} => k < reportsCount
         /\ pc \in {"wrap", "lower"} => k = reportsCount
<1>1. pc \in {"wrap", "upper", "lower", "fit"}
  BY DEF Evicting
<1>2. EndsList(c, reportsCount)
  BY <1>1 DEF Evicting, Shape, Making
<1>3. reportsCount \in Nat /\ reportsCount > 0 /\ k \in 1 .. reportsCount
  BY <1>2 DEF EndsList, BufferInv, TypeOK, Shape, Laid
<1>4. oldestReport = c[1]
  BY <1>3 DEF Shape
<1>5. PICK i \in 1 .. reportsCount : i = 1
  BY <1>3
<1>6. c[1] \in Nat /\ c[1] \in Address
  BY <1>5, KeptEntries DEF BufferInv
<1>7. pc \in {"upper", "fit"} => oldestReport # 0
  BY <1>4, <1>6 DEF Evicting
<1>8. /\ pc = "fit" => entryBufPos = EndOf(c[reportsCount])
      /\ pc # "fit" => entryBufPos = 0
      /\ pc \in {"upper", "fit"} => k < reportsCount
      /\ pc \in {"wrap", "lower"} => k = reportsCount
  BY <1>1, <1>3, <1>7 DEF Shape, Making
<1> QED BY <1>1, <1>2, <1>3, <1>4, <1>6, <1>8

(* The oldest report is removed and the list is one report shorter.        *)
LEMMA EvictStep ==
  ASSUME BufferInv, Evict, NEW c, NEW k, Shape(c, k, reportsCount)
  PROVE  /\ TypeOK' /\ (reportsCount <= made)'
         /\ \E d, h : /\ d = [i \in 1 .. reportsCount - 1 |-> c[i + 1]]
                      /\ Shape(d, h, reportsCount)'
<1> PICK n \in Nat : n = reportsCount
  BY DEF BufferInv, TypeOK
<1> DEFINE d == [i \in 1 .. n - 1 |-> c[i + 1]]
           h == IF k = 1 THEN n - 1 ELSE k - 1
           next == memory[oldestReport].next
<1>1. /\ Evicting
      /\ nextToTransmit' = IF nextToTransmit = oldestReport THEN next
                           ELSE nextToTransmit
      /\ \/ pc = "wrap" /\ next = NULL /\ oldestReport' = entryBufPos /\ pc' = "link"
         \/ (pc # "wrap" \/ next # NULL) /\ oldestReport' = next /\ pc' = pc
      /\ reportsCount' = n - 1
      /\ UNCHANGED <<memory, lastEnqueuedReport, entryBufPos, bufferEntrySize,
                     made, sent>>
  BY DEF Evict, locals
<1>2. /\ n > 0 /\ EndsList(c, n) /\ oldestReport = c[1] /\ k \in 1 .. n
      /\ pc \in {"wrap", "upper", "lower", "fit"}
      /\ pc = "fit" => entryBufPos = EndOf(c[n])
      /\ pc # "fit" => entryBufPos = 0
      /\ pc \in {"upper", "fit"} => k < n
      /\ pc \in {"wrap", "lower"} => k = n
  BY <1>1, EvictingLasts
<1>3. Laid(memory, c, k, n) /\ Laid(memory, d, h, n - 1)
  <2>1. Laid(memory, c, k, n)
    BY DEF Shape
  <2> QED BY <2>1, <1>2, Dropped
<1>4. n = 1 => next = NULL
  BY <1>2 DEF EndsList
<1>5. n # 1 => next = c[2] /\ d[1] = c[2] /\ c[2] \in Address /\ c[2] # NULL
  <2> SUFFICES ASSUME n # 1 PROVE next = c[2] /\ d[1] = c[2] /\ c[2] \in Address /\ c[2] # NULL
    OBVIOUS
  <2>1. PICK i \in 1 .. n - 1, j \in 1 .. n : i = 1 /\ j = 2
    BY <1>2
  <2>2. memory[c[i]].next = c[i + 1]
    BY <1>3 DEF Laid
  <2>3. c[j] \in Address /\ c[j] # NULL
    BY KeptEntries DEF BufferInv
  <2> QED BY <1>2, <2>1, <2>2, <2>3
<1>6. /\ h \in 0 .. n - 1 /\ (k = n => h = n - 1)
      /\ k < n => n # 1 /\ (h < n - 1 \/ c[2] = 0)
  <2>1. k = 1 /\ k < n => c[2] = 0
    BY <1>3 DEF Laid
  <2> QED BY <1>2, <2>1
<1>7. n # 1 => EndsList(d, n - 1)'
  <2> SUFFICES ASSUME n # 1 PROVE EndsList(d, n - 1)'
    OBVIOUS
  <2>1. d[n - 1] = c[n] /\ n - 1 > 0
    BY <1>2
  <2> HIDE DEF d
  <2> QED BY <2>1, <1>1, <1>2 DEF EndsList
<1>8. \A i \in 1 .. n : i = 1 \/ (i - 1 \in 1 .. n - 1 /\ d[i - 1] = c[i])
  <2> SUFFICES ASSUME NEW i \in 1 .. n, i # 1
               PROVE  i - 1 \in 1 .. n - 1 /\ d[i - 1] = c[i]
    OBVIOUS
  <2>1. i - 1 \in 1 .. n - 1 /\ i - 1 + 1 = i
    OBVIOUS
  <2> QED BY <2>1
<1>9. n # 1 => EndOf(d[n - 1])' = EndOf(c[n])
  <2>1. n # 1 => d[n - 1] = c[n]
    BY <1>2
  <2>2. EndOf(c[n])' = EndOf(c[n])
    BY <1>1 DEF EndOf
  <2> HIDE DEF d
  <2> QED BY <2>1, <2>2
<1>10. memory[lastEnqueuedReport] \in Entry /\ lastEnqueuedReport # NULL
  <2>1. PICK i \in 1 .. reportsCount : i = n
    BY <1>2
  <2>2. memory[c[i]] \in Entry /\ c[i] # NULL
    BY KeptEntries DEF BufferInv
  <2> QED BY <2>1, <2>2, <1>2 DEF EndsList
<1> HIDE DEF d, h
<1>11. NextKept(d, reportsCount)'
  <2>1. nextToTransmit = NULL \/ \E i \in 1 .. n : nextToTransmit = c[i]
    BY <1>2 DEF Shape, NextKept
  <2>2. CASE nextToTransmit = oldestReport
    <3>1. nextToTransmit' = next
      BY <2>2, <1>1
    <3>2. CASE n = 1
      BY <3>1, <3>2, <1>4 DEF NextKept
    <3>3. CASE n # 1
      <4>1. PICK j \in 1 .. n - 1 : j = 1
        BY <3>3, <1>2
      <4>2. nextToTransmit' = d[j]
        BY <3>1, <3>3, <4>1, <1>5
      <4> QED BY <4>2, <1>1 DEF NextKept
    <3> QED BY <3>2, <3>3
  <2>3. CASE nextToTransmit # oldestReport
    <3>1. nextToTransmit' = nextToTransmit
      BY <2>3, <1>1
    <3>2. CASE nextToTransmit = NULL
      BY <3>1, <3>2 DEF NextKept
    <3>3. CASE \E i \in 1 .. n : nextToTransmit = c[i]
      <4>1. PICK i \in 1 .. n : nextToTransmit = c[i]
        BY <3>3
      <4>2. i # 1
        BY <4>1, <2>3, <1>2
      <4>3. PICK j \in 1 .. n - 1 : d[j] = c[i]
        BY <4>2, <1>8
      <4> QED BY <3>1, <4>1, <4>3, <1>1 DEF NextKept
    <3> QED BY <2>1, <3>2, <3>3
  <2> QED BY <2>2, <2>3
<1>12. \A x \in {"wrap", "upper", "lower", "fit", "link"} : x \in Pcs \ {"idle"}
  BY DEF Pcs
<1>13. /\ Making(d, h, n - 1)' /\ pc' \in Pcs \ {"idle"}
       /\ n - 1 > 0 => oldestReport' = d[1]
  <2>1. CASE pc \in {"upper", "fit"}
    <3>1. n # 1 /\ (h < n - 1 \/ c[2] = 0) /\ next = c[2] /\ d[1] = c[2]
      BY <2>1, <1>2, <1>5, <1>6
    <3>2. pc' = pc /\ oldestReport' = d[1]
      BY <2>1, <1>1, <3>1
    <3>3. (h < n - 1 \/ oldestReport' = 0) /\ EndsList(d, n - 1)'
      BY <1>7, <3>1, <3>2
    <3>4. CASE pc = "upper"
      <4>1. (pc = "upper" /\ (h < n - 1 \/ oldestReport = 0) /\ EndsList(d, n - 1)
             /\ entryBufPos = 0)'
        BY <1>1, <1>2, <3>2, <3>3, <3>4, Zenon
      <4>2. Making(d, h, n - 1)'
        BY <4>1 DEF Making
      <4> QED BY <4>2, <3>1, <3>2, <2>1, <1>12
    <3>5. CASE pc = "fit"
      <4>1. (pc = "fit" /\ (h < n - 1 \/ oldestReport = 0) /\ EndsList(d, n - 1)
             /\ entryBufPos = EndOf(d[n - 1]))'
        <5>1. entryBufPos' = EndOf(d[n - 1])'
          BY <1>1, <1>2, <1>9, <3>1, <3>5
        <5> QED BY <3>2, <3>3, <3>5, <5>1, Zenon
      <4>2. Making(d, h, n - 1)'
        BY <4>1 DEF Making
      <4> QED BY <4>2, <3>1, <3>2, <2>1, <1>12
    <3> QED BY <2>1, <1>2, <3>2, <3>4, <3>5, <1>12
  <2>2. CASE pc \in {"wrap", "lower"} /\ n # 1
    <3>1. h = n - 1 /\ next = c[2] /\ d[1] = c[2] /\ next # NULL
      BY <2>2, <1>2, <1>5, <1>6
    <3>2. pc' = pc /\ oldestReport' = d[1]
      BY <2>2, <1>1, <3>1
    <3>3. (pc \in {"wrap", "lower"} /\ h = n - 1 /\ EndsList(d, n - 1)
           /\ entryBufPos = 0)'
      BY <1>1, <1>2, <1>7, <2>2, <3>1, <3>2
    <3>4. Making(d, h, n - 1)'
      BY <3>3 DEF Making
    <3> QED BY <2>2, <3>2, <3>4, <1>12
  <2>3. CASE pc \in {"wrap", "lower"} /\ n = 1
    <3>1. n - 1 = 0 /\ next = NULL
      BY <2>3, <1>4
    <3>2. \/ pc' = "link" /\ oldestReport' = 0
          \/ pc' = "lower" /\ oldestReport' = NULL
      BY <1>1, <1>2, <2>3, <3>1
    <3>3. /\ entryBufPos' = 0 /\ lastEnqueuedReport' # NULL
          /\ (memory[lastEnqueuedReport])' \in Entry
      BY <1>1, <1>2, <1>10, <2>3
    <3>4. Making(d, h, n - 1)'
      BY <3>1, <3>2, <3>3 DEF Making
    <3>5. pc' \in {"link", "lower"}
      BY <3>2
    <3> QED BY <3>1, <3>4, <3>5, <1>12
  <2> QED BY <1>2, <2>1, <2>2, <2>3
<1>14. (made < MaxReports /\ bufferEntrySize \in Sizes
        /\ entryBufPos + bufferEntrySize <= MemoryBlockSize)'
  BY <1>1, <1>2 DEF Shape
<1>15. Shape(d, h, reportsCount)'
  BY <1>1, <1>3, <1>11, <1>13, <1>14 DEF Shape
<1>16. next \in Pointer
  BY <1>4, <1>5, Numbers DEF Pointer
<1>17. TypeOK' /\ (reportsCount <= made)'
  <2>1. oldestReport' \in Pointer /\ nextToTransmit' \in Pointer
    <3>1. entryBufPos \in Pointer /\ nextToTransmit \in Pointer
      BY DEF BufferInv, TypeOK, Pointer
    <3> QED BY <3>1, <1>1, <1>16
  <2>2. reportsCount' \in 0 .. MaxReports /\ reportsCount' <= made'
    BY <1>1, <1>2, Numbers DEF BufferInv, TypeOK
  <2>3. /\ memory' \in [Address -> Entry \cup {Garbage}]
        /\ lastEnqueuedReport' \in Pointer /\ pc' \in Pcs /\ entryBufPos' \in Address
        /\ bufferEntrySize' \in Sizes \cup {0} /\ made' \in 0 .. MaxReports
        /\ sent' \in 0 .. MaxReports
    BY <1>1, <1>13 DEF BufferInv, TypeOK
  <2>4. TypeOK'
    BY <2>1, <2>2, <2>3, Zenon DEF TypeOK
  <2> QED BY <2>2, <2>4
<1>18. d = [i \in 1 .. reportsCount - 1 |-> c[i + 1]]
  BY DEF d
<1> QED BY <1>15, <1>17, <1>18

\* The block before the new report is written.
LinkedMemory ==
    IF pc = "write" THEN memory ELSE SetNext(memory, lastEnqueuedReport, entryBufPos)

(* The next pointer of the last report is set before the new one is        *)
(* written, and the kept reports still lie as they did.                    *)
LEMMA LinkedBeforeWritten ==
  ASSUME BufferInv, NEW c, NEW k, NEW n \in Nat, n = reportsCount,
         Shape(c, k, reportsCount), pc \notin {"idle", "upper"},
         NEW l, l = LinkedMemory
  PROVE  /\ l \in Block /\ Laid(l, c, k, n)
         /\ n > 0 => l[c[n]].next = entryBufPos
         /\ \A i \in 1 .. n : /\ l[c[i]].number = memory[c[i]].number
                              /\ Behind(l, c[i]) = EndOf(c[i])
<1>1. /\ memory \in Block /\ Laid(memory, c, k, n) /\ Making(c, k, n)
      /\ entryBufPos \in Address
  BY DEF BufferInv, TypeOK, Block, Shape
<1>2. \A i \in 1 .. n : Behind(memory, c[i]) = EndOf(c[i])
  BY DEF Behind, EndOf
<1>3. CASE pc = "write"
  <2>1. l = memory
    BY <1>3 DEF LinkedMemory
  <2>2. n > 0 => n = 1 /\ memory[c[1]].next = entryBufPos
    BY <1>1, <1>3 DEF Making
  <2> QED BY <1>1, <1>2, <2>1, <2>2
<1>4. CASE pc # "write" /\ n = 0
  <2>1. /\ l = [memory EXCEPT ![lastEnqueuedReport].next = entryBufPos]
        /\ lastEnqueuedReport # NULL /\ memory[lastEnqueuedReport] \in Entry
    BY <1>1, <1>4 DEF Making, EndsList, LinkedMemory, SetNext
  <2>2. lastEnqueuedReport \in Address
    BY <2>1 DEF BufferInv, TypeOK, Pointer
  <2>3. l = [memory EXCEPT ![lastEnqueuedReport] =
                [memory[lastEnqueuedReport] EXCEPT !.next = entryBufPos]]
    BY <2>1
  <2>4. [memory[lastEnqueuedReport] EXCEPT !.next = entryBufPos] \in Entry
    BY <1>1, <2>1 DEF Entry, Pointer
  <2>5. l \in Block
    BY <1>1, <2>2, <2>3, <2>4 DEF Block
  <2>6. k = 0 /\ c \in [1 .. 0 -> Address]
    BY <1>1, <1>4 DEF Laid
  <2>7. Laid(l, c, k, n)
    BY <1>4, <2>6, NothingLaid
  <2> QED BY <1>4, <2>5, <2>7
<1>5. CASE pc # "write" /\ n # 0
  <2>1. EndsList(c, n)
    BY <1>1, <1>5 DEF Making
  <2>2. PICK p \in Pointer : p = entryBufPos
    BY <1>1 DEF Pointer
  <2>3. l = SetNext(memory, c[n], p)
    BY <1>5, <2>1, <2>2 DEF EndsList, LinkedMemory
  <2>4. /\ l \in Block /\ Laid(l, c, k, n) /\ l[c[n]].next = p
        /\ \A i \in 1 .. n : /\ l[c[i]].number = memory[c[i]].number
                             /\ Behind(l, c[i]) = Behind(memory, c[i])
    <3>1. memory \in Block /\ Laid(memory, c, k, n) /\ n > 0
      BY <1>1, <1>5
    <3> QED BY <2>2, <2>3, <3>1, Linked
  <2> QED BY <1>2, <2>2, <2>4
<1> QED BY <1>3, <1>4, <1>5

(* Where the loops leave the new report: behind the run of all reports, at *)
(* the start of the block below that run, or in the run of the last report *)
(* below the oldest one.                                                   *)
LEMMA RoomMade ==
  ASSUME BufferInv, NEW c, NEW k, NEW n \in Nat, n = reportsCount,
         Shape(c, k, reportsCount), pc \notin {"idle", "upper"}, ~Evicting
  PROVE  \/ k = n /\ \A i \in 1 .. n : EndOf(c[i]) <= entryBufPos
         \/ /\ n > 0 /\ (k = n => entryBufPos = 0)
            /\ \A i \in 1 .. n : i <= k => entryBufPos + bufferEntrySize <= c[i]
            /\ \A i \in 1 .. n : i > k => EndOf(c[i]) <= entryBufPos
<1>1. /\ Laid(memory, c, k, n) /\ Making(c, k, n) /\ k \in 0 .. n
      /\ (k = 0 => n = 0) /\ entryBufPos \in Nat /\ bufferEntrySize \in Nat
  BY Numbers DEF BufferInv, TypeOK, Shape, Laid
<1>2. ASSUME NEW i \in 1 .. n
      PROVE  /\ c[i] \in Nat /\ c[i] # NULL /\ EndOf(c[i]) \in Nat /\ c[i] < EndOf(c[i])
             /\ EndOf(c[i]) = Behind(memory, c[i])
  BY KeptEntries DEF BufferInv
<1>3. CASE n = 0
  BY <1>1, <1>3
<1>4. CASE n # 0
  <2>1. PICK first \in 1 .. n, final \in 1 .. n : first = 1 /\ final = n
    BY <1>4
  <2>2. oldestReport = c[first]
    BY <1>4, <2>1 DEF Shape
  <2>3. ASSUME NEW i \in 1 .. n, i <= k PROVE c[first] <= c[i]
    <3>1. CASE i = first
      BY <3>1, <1>2
    <3>2. CASE i # first
      <4>1. first < i
        BY <3>2, <2>1
      <4>2. Behind(memory, c[first]) <= c[i]
        BY <4>1, <2>3, <1>1 DEF Laid
      <4> QED BY <4>2, <1>2
    <3> QED BY <3>1, <3>2
  <2>4. ASSUME NEW i \in 1 .. n, i > k \/ k = n PROVE EndOf(c[i]) <= EndOf(c[final])
    <3>1. CASE i = final
      BY <3>1, <1>2
    <3>2. CASE i # final
      <4>1. i < final /\ (final <= k \/ i > k)
        BY <3>2, <2>1, <2>4
      <4>2. Behind(memory, c[i]) <= c[final]
        BY <4>1, <1>1 DEF Laid
      <4>3. EndOf(c[i]) <= c[final] /\ c[final] < EndOf(c[final])
        BY <4>2, <1>2
      <4>4. EndOf(c[i]) \in Nat /\ c[final] \in Nat /\ EndOf(c[final]) \in Nat
        BY <1>2
      <4> QED BY <4>3, <4>4
    <3> QED BY <3>1, <3>2
  <2>5. CASE pc \in {"write", "link"}
    <3>1. k = n /\ entryBufPos = EndOf(c[final])
      BY <1>1, <1>4, <2>1, <2>5 DEF Making
    <3> QED BY <3>1, <2>4
  <2>6. CASE pc \in {"wrap", "lower"}
    <3>1. k = n /\ entryBufPos = 0
      BY <1>1, <1>4, <2>6 DEF Making
    <3>2. ~Covers
      BY <1>2, <2>2, <2>6 DEF Evicting
    <3>3. entryBufPos + bufferEntrySize <= c[first]
      BY <3>2, <1>1, <1>2, <2>2 DEF Covers
    <3>4. ASSUME NEW i \in 1 .. n PROVE entryBufPos + bufferEntrySize <= c[i]
      <4>1. c[first] <= c[i]
        BY <2>3, <3>1
      <4> QED BY <3>3, <4>1, <1>1, <1>2
    <3> QED BY <3>1, <3>4, <1>4
  <2>7. CASE pc = "fit"
    <3>1. entryBufPos = EndOf(c[final]) /\ (k < n \/ oldestReport = 0)
      BY <1>1, <1>4, <2>1, <2>7 DEF Making
    <3>2. CASE k = n
      BY <3>1, <3>2, <2>4
    <3>3. CASE k < n
      <4>1. oldestReport # 0
        <5> SUFFICES ASSUME oldestReport = 0 PROVE FALSE
          OBVIOUS
        <5>1. PICK j \in 1 .. n : j = k + 1
          BY <3>3, <1>1
        <5>2. c[j] = 0 /\ first # j
          BY <5>1, <3>3, <1>1, <1>4, <2>1 DEF Laid
        <5>3. c[first] # c[j]
          BY <5>2, <1>1, Apart
        <5> QED BY <5>2, <5>3, <2>2
      <4>2. ~Covers
        BY <4>1, <1>2, <2>2, <2>7 DEF Evicting
      <4>3. entryBufPos + bufferEntrySize <= c[first]
        BY <4>2, <1>1, <1>2, <2>2 DEF Covers
      <4>4. ASSUME NEW i \in 1 .. n, i <= k PROVE entryBufPos + bufferEntrySize <= c[i]
        <5>1. c[first] <= c[i]
          BY <2>3, <4>4
        <5> QED BY <4>3, <5>1, <1>1, <1>2
      <4>5. ASSUME NEW i \in 1 .. n, i > k PROVE EndOf(c[i]) <= entryBufPos
        BY <2>4, <3>1, <4>5
      <4> QED BY <1>4, <3>3, <4>4, <4>5
    <3> QED BY <1>1, <3>2, <3>3
  <2>8. pc \in {"write", "link", "wrap", "lower", "fit"}
    BY DEF BufferInv, TypeOK, Pcs
  <2> QED BY <2>5, <2>6, <2>7, <2>8
<1> QED BY <1>3, <1>4

(* The new report becomes the last of the list; the others keep their      *)
(* numbers.                                                                *)
LEMMA EncodeStep ==
  ASSUME BufferInv, Encode, NEW c, NEW k, Shape(c, k, reportsCount),
         NEW n \in Nat, n = reportsCount, NEW p, p = entryBufPos
  PROVE  /\ TypeOK' /\ (reportsCount <= made)'
         /\ \E d, h : /\ d = Longer(c, n, p)
                      /\ Shape(d, h, reportsCount)'
                      /\ \A i \in 1 .. n : memory'[c[i]].number = memory[c[i]].number
                      /\ memory'[p].number = made + 1
<1> DEFINE d == Longer(c, n, p)
<1>1. PICK size \in Sizes, e \in Entry :
        /\ size = bufferEntrySize /\ e.entryLength = size /\ e.next = NULL
        /\ e.number = made + 1
        /\ memory' = Written(LinkedMemory, p, size, e)
        /\ p \in Address /\ p + size <= MemoryBlockSize
        /\ made \in Nat /\ made < MaxReports
  <2>1. /\ bufferEntrySize \in Sizes /\ made < MaxReports /\ p \in Address
        /\ p + bufferEntrySize <= MemoryBlockSize /\ made \in Nat
    BY DEF Encode, Shape, BufferInv, TypeOK
  <2> DEFINE e == [number |-> made + 1, entryLength |-> bufferEntrySize, next |-> NULL]
  <2>2. made + 1 \in 1 .. MaxReports
    BY <2>1, Numbers
  <2>3. /\ e \in Entry /\ e.entryLength = bufferEntrySize /\ e.next = NULL
        /\ e.number = made + 1
    BY <2>1, <2>2, Numbers DEF Entry
  <2>4. memory' = Written(LinkedMemory, p, bufferEntrySize, e)
    BY DEF Encode, LinkedMemory, SetNext
  <2> HIDE DEF e
  <2> QED BY <2>1, <2>3, <2>4
<1>2. /\ pc \notin {"idle", "upper"} /\ ~Evicting
      /\ lastEnqueuedReport' = p /\ reportsCount' = n + 1 /\ made' = made + 1
      /\ nextToTransmit' = IF nextToTransmit = NULL THEN p ELSE nextToTransmit
      /\ oldestReport' = IF oldestReport = NULL THEN p ELSE oldestReport
      /\ pc' = "idle" /\ entryBufPos' = 0 /\ bufferEntrySize' = 0 /\ sent' = sent
  BY DEF Encode
<1>3. PICK l : l = LinkedMemory
  OBVIOUS
<1>4. /\ l \in Block /\ Laid(l, c, k, n)
      /\ n > 0 => l[c[n]].next = p
      /\ \A i \in 1 .. n : /\ l[c[i]].number = memory[c[i]].number
                           /\ Behind(l, c[i]) = EndOf(c[i])
  BY <1>2, <1>3, LinkedBeforeWritten
<1>5. k \in 0 .. n /\ (k = 0 => n = 0)
  BY <1>4 DEF Laid
<1>6. PICK h \in {k, n + 1} :
        /\ h = n + 1 => k = n /\ \A i \in 1 .. n : Behind(l, c[i]) <= p
        /\ h # n + 1 => /\ n > 0 /\ (k = n => p = 0)
                        /\ \A i \in 1 .. n : i <= k => p + size <= c[i]
                        /\ \A i \in 1 .. n : i > k => Behind(l, c[i]) <= p
  <2>1. \/ k = n /\ \A i \in 1 .. n : EndOf(c[i]) <= p
        \/ /\ n > 0 /\ (k = n => p = 0)
           /\ \A i \in 1 .. n : i <= k => p + size <= c[i]
           /\ \A i \in 1 .. n : i > k => EndOf(c[i]) <= p
    BY <1>1, <1>2, RoomMade
  <2>2. CASE k = n /\ \A i \in 1 .. n : EndOf(c[i]) <= p
    <3>1. \A i \in 1 .. n : Behind(l, c[i]) <= p
      BY <1>4, <2>2
    <3> WITNESS n + 1 \in {k, n + 1}
    <3> QED BY <2>2, <3>1
  <2>3. CASE /\ n > 0 /\ (k = n => p = 0)
             /\ \A i \in 1 .. n : i <= k => p + size <= c[i]
             /\ \A i \in 1 .. n : i > k => EndOf(c[i]) <= p
    <3>1. \A i \in 1 .. n : i > k => Behind(l, c[i]) <= p
      BY <1>4, <2>3
    <3>2. k # n + 1
      BY <1>5
    <3> WITNESS k \in {k, n + 1}
    <3> QED BY <2>3, <3>1, <3>2
  <2> QED BY <2>1, <2>2, <2>3
<1>7. /\ Written(l, p, size, e) \in Block /\ Written(l, p, size, e)[p] = e
      /\ \A i \in 1 .. n : Written(l, p, size, e)[c[i]] = l[c[i]]
      /\ Laid(Written(l, p, size, e), d, h, n + 1)
  <2>1. /\ p \in Address /\ p + size <= MemoryBlockSize /\ e.entryLength = size
        /\ l \in Block /\ Laid(l, c, k, n) /\ (n > 0 => l[c[n]].next = p)
    BY <1>1, <1>4
  <2>2. /\ h = n + 1 => k = n /\ \A i \in 1 .. n : Behind(l, c[i]) <= p
        /\ h # n + 1 => /\ n > 0 /\ (k = n => p = 0)
                        /\ \A i \in 1 .. n : i <= k => p + size <= c[i]
                        /\ \A i \in 1 .. n : i > k => Behind(l, c[i]) <= p
    BY <1>6
  <2> QED BY <2>1, <2>2, Placed, SMTT(60)
<1>8. memory' = Written(l, p, size, e)
  BY <1>1, <1>3
<1>9. /\ d[n + 1] = p /\ \A i \in 1 .. n : d[i] = c[i] /\ i \in 1 .. n + 1
      /\ n + 1 \in 1 .. n + 1 /\ n + 1 > 0
  BY DEF Longer
<1> HIDE DEF d
<1>10. EndsList(d, reportsCount)'
  <2>1. memory'[d[n + 1]].next = NULL
    BY <1>1, <1>7, <1>8, <1>9
  <2> QED BY <1>2, <1>9, <2>1 DEF EndsList
<1>11. NextKept(d, reportsCount)'
  <2>1. CASE nextToTransmit = NULL
    <3>1. nextToTransmit' = d[n + 1]
      BY <2>1, <1>2, <1>9
    <3> QED BY <3>1, <1>2, <1>9 DEF NextKept
  <2>2. CASE \E i \in 1 .. n : nextToTransmit = c[i]
    <3>1. PICK i \in 1 .. n : nextToTransmit = c[i]
      BY <2>2
    <3>2. nextToTransmit' = d[i] /\ i \in 1 .. n + 1
      BY <3>1, <1>2, <1>9, KeptEntries DEF BufferInv
    <3> QED BY <3>2, <1>2 DEF NextKept
  <2>3. CASE pc = "write" /\ n = 0 /\ nextToTransmit = 0
    <3>1. p = 0
      BY <2>3, <1>2 DEF Shape, Making
    <3>2. nextToTransmit' = d[n + 1]
      BY <2>3, <3>1, <1>2, <1>9
    <3> QED BY <3>2, <1>2, <1>9 DEF NextKept
  <2> QED BY <2>1, <2>2, <2>3 DEF Shape, NextKept
<1>12. oldestReport' = d[1]
  <2>1. CASE n = 0
    <3>1. p = 0 /\ (oldestReport = 0 \/ oldestReport = NULL)
      BY <2>1, <1>2 DEF Shape, Making, EndsList
    <3>2. d[1] = p
      BY <2>1, <1>9
    <3> QED BY <3>1, <3>2, <1>2
  <2>2. CASE n > 0
    <3>1. PICK i \in 1 .. n : i = 1
      BY <2>2
    <3>2. oldestReport = c[i] /\ c[i] # NULL /\ d[i] = c[i]
      BY <2>2, <3>1, <1>9, KeptEntries DEF Shape, BufferInv
    <3> QED BY <3>1, <3>2, <1>2
  <2> QED BY <2>1, <2>2
<1>13. Shape(d, h, reportsCount)'
  BY <1>2, <1>7, <1>8, <1>10, <1>11, <1>12 DEF Shape
<1>14. /\ \A i \in 1 .. n : memory'[c[i]].number = memory[c[i]].number
       /\ memory'[p].number = made + 1
  BY <1>1, <1>4, <1>7, <1>8
<1>15. TypeOK' /\ (reportsCount <= made)'
  <2>1. reportsCount' \in 0 .. MaxReports /\ made' \in 0 .. MaxReports
        /\ reportsCount' <= made'
    BY <1>1, <1>2, Numbers DEF BufferInv, TypeOK
  <2>2. /\ lastEnqueuedReport' \in Pointer /\ nextToTransmit' \in Pointer
        /\ oldestReport' \in Pointer
    <3>1. p \in Pointer /\ oldestReport \in Pointer /\ nextToTransmit \in Pointer
      BY <1>1 DEF Pointer, BufferInv, TypeOK
    <3> QED BY <3>1, <1>2
  <2>3. memory' \in [Address -> Entry \cup {Garbage}]
    BY <1>7, <1>8 DEF Block
  <2>4. pc' \in Pcs /\ entryBufPos' \in Address /\ bufferEntrySize' \in Sizes \cup {0}
        /\ sent' \in 0 .. MaxReports
    BY <1>2, Numbers DEF Pcs, BufferInv, TypeOK
  <2>5. TypeOK'
    BY <2>1, <2>2, <2>3, <2>4, Zenon DEF TypeOK
  <2> QED BY <2>1, <2>5
<1> QED BY <1>13, <1>14, <1>15 DEF d

(* The report that is transmitted is one of the kept ones.                 *)
LEMMA SendStep ==
  ASSUME BufferInv, SendNextReportEntry, NEW c, NEW k, Shape(c, k, reportsCount),
         NEW n \in Nat, n = reportsCount
  PROVE  /\ TypeOK' /\ (reportsCount <= made)' /\ Shape(c, k, reportsCount)'
         /\ \E i \in 1 .. n :
              /\ nextToTransmit = c[i] /\ sent' = memory[c[i]].number
              /\ nextToTransmit' = IF i = n THEN NULL ELSE c[i + 1]
<1>1. /\ pc = "idle" /\ nextToTransmit # NULL
      /\ sent' = memory[nextToTransmit].number
      /\ nextToTransmit' = memory[nextToTransmit].next
      /\ UNCHANGED <<memory, oldestReport, lastEnqueuedReport, reportsCount, pc,
                     entryBufPos, bufferEntrySize, made>>
  BY DEF SendNextReportEntry, locals
<1>2. PICK i \in 1 .. n : nextToTransmit = c[i]
  BY <1>1 DEF Shape, NextKept
<1>3. EndsList(c, n) /\ Laid(memory, c, k, n)
  <2>1. n > 0
    BY <1>2
  <2> QED BY <1>1, <2>1 DEF Shape
<1>4. nextToTransmit' = IF i = n THEN NULL ELSE c[i + 1]
  <2>1. CASE i = n
    BY <2>1, <1>1, <1>2, <1>3 DEF EndsList
  <2>2. CASE i # n
    <3>1. i \in 1 .. n - 1
      BY <2>2
    <3>2. memory[c[i]].next = c[i + 1]
      BY <3>1, <1>3 DEF Laid
    <3> QED BY <2>2, <3>2, <1>1, <1>2
  <2> QED BY <2>1, <2>2
<1>5. NextKept(c, reportsCount)'
  <2>1. CASE i = n
    BY <2>1, <1>4 DEF NextKept
  <2>2. CASE i # n
    <3>1. i + 1 \in 1 .. n
      BY <2>2
    <3> QED BY <2>2, <3>1, <1>1, <1>4 DEF NextKept
  <2> QED BY <2>1, <2>2
<1>6. EndsList(c, reportsCount)'
  BY <1>1, <1>3 DEF EndsList
<1>7. Shape(c, k, reportsCount)'
  BY <1>1, <1>3, <1>5, <1>6 DEF Shape
<1>8. TypeOK' /\ (reportsCount <= made)'
  <2>1. nextToTransmit' \in Pointer /\ sent' \in 0 .. MaxReports
    <3>1. memory[c[i]].next \in Pointer /\ memory[c[i]].number \in 1 .. MaxReports
      BY KeptEntries DEF BufferInv
    <3> QED BY <3>1, <1>1, <1>2
  <2> QED BY <1>1, <2>1 DEF BufferInv, TypeOK
<1> QED BY <1>1, <1>2, <1>4, <1>7, <1>8

(* A purged block is an empty list.                                        *)
LEMMA PurgeStep ==
  ASSUME BufferInv, PurgeBuf
  PROVE  /\ TypeOK' /\ (reportsCount <= made)' /\ reportsCount' = 0
         /\ Shape([i \in 1 .. 0 |-> NULL], 0, reportsCount)'
<1>1. /\ pc = "idle" /\ oldestReport' = NULL /\ lastEnqueuedReport' = NULL
      /\ nextToTransmit' = NULL /\ reportsCount' = 0
      /\ UNCHANGED <<memory, pc, entryBufPos, bufferEntrySize, made, sent>>
  BY DEF PurgeBuf, locals
<1>2. TypeOK' /\ (reportsCount <= made)'
  BY <1>1, Numbers DEF BufferInv, TypeOK
<1> DEFINE d == [i \in 1 .. 0 |-> NULL]
<1>3. Laid(memory, d, 0, reportsCount)'
  <2>1. d \in [1 .. 0 -> Address]
    OBVIOUS
  <2> HIDE DEF d
  <2> QED BY <2>1, <1>1, NothingLaid
<1> HIDE DEF d
<1>4. NextKept(d, reportsCount)'
  BY <1>1 DEF NextKept
<1>5. Shape(d, 0, reportsCount)'
  BY <1>1, <1>3, <1>4 DEF Shape
<1> QED BY <1>1, <1>2, <1>5 DEF d

(* Nothing changes.                                                        *)
LEMMA StutterStep ==
  ASSUME UNCHANGED vars, NEW c, NEW k, Shape(c, k, reportsCount)
  PROVE  Shape(c, k, reportsCount)'
<1>1. UNCHANGED <<memory, oldestReport, lastEnqueuedReport, nextToTransmit,
                  reportsCount, pc, entryBufPos, bufferEntrySize, made, sent>>
  BY DEF vars, pointers, locals
<1>2. Laid(memory, c, k, reportsCount)' /\ NextKept(c, reportsCount)'
  BY <1>1 DEF Shape, NextKept
<1> QED BY <1>1, <1>2 DEF Shape, Making, EndsList, EndOf
-----------------------------------------------------------------------------
(* The theorems.                                                           *)

(* BufferInv holds in every state: the kept reports lie in at most two     *)
(* runs, and every loop of enqueueReport knows where it stands.            *)
LEMMA BufferInvariant == Spec => []BufferInv
<1>1. Init => BufferInv
  <2> SUFFICES ASSUME Init PROVE BufferInv
    OBVIOUS
  <2>1. TypeOK /\ reportsCount <= made
    BY Numbers DEF Init, TypeOK, Pcs
  <2> DEFINE d == [i \in 1 .. 0 |-> NULL]
  <2>2. d \in [1 .. 0 -> Address] /\ 0 \in 0 .. 0
    OBVIOUS
  <2> HIDE DEF d
  <2>3. Laid(memory, d, 0, 0)
    BY <2>2, NothingLaid
  <2>4. Shape(d, 0, 0) /\ reportsCount = 0
    BY <2>3 DEF Shape, NextKept, Init
  <2>5. Shaped
    BY <2>2, <2>4 DEF Shaped
  <2> QED BY <2>1, <2>5 DEF BufferInv
<1>2. BufferInv /\ [Next]_vars => BufferInv'
  <2> SUFFICES ASSUME BufferInv, [Next]_vars PROVE BufferInv'
    OBVIOUS
  <2>1. PICK c \in [1 .. reportsCount -> Address], k \in 0 .. reportsCount :
            Shape(c, k, reportsCount)
    BY DEF BufferInv, Shaped
  <2>2. ASSUME NEW d, NEW h, Shape(d, h, reportsCount)', TypeOK', (reportsCount <= made)'
        PROVE  BufferInv'
    <3>1. (d \in [1 .. reportsCount -> Address])' /\ (h \in 0 .. reportsCount)'
      BY <2>2 DEF Shape, Laid
    <3>2. Shaped'
      BY <2>2, <3>1 DEF Shaped
    <3> QED BY <2>2, <3>2 DEF BufferInv
  <2>3. PICK n \in Nat, p \in Address : n = reportsCount /\ p = entryBufPos
    BY DEF BufferInv, TypeOK
  <2>4. ASSUME NEW size \in Sizes, EnqueueReport(size) PROVE BufferInv'
    <3>1. CASE TooLarge(size)
      BY <2>1, <2>2, <3>1, TooLargeStep
    <3>2. CASE EnqueueFirst(size)
      BY <2>1, <2>2, <3>2, FirstStep
    <3>3. CASE EnqueueSecond(size)
      BY <2>1, <2>2, <3>3, SecondStep
    <3>4. CASE EnqueueAfter(size)
      BY <2>1, <2>2, <3>4, AfterStep
    <3>5. CASE EnqueueBelow(size)
      BY <2>1, <2>2, <3>5, BelowStep
    <3> QED BY <2>4, <3>1, <3>2, <3>3, <3>4, <3>5 DEF EnqueueReport
  <2>5. CASE Evict
    BY <2>1, <2>2, <2>5, EvictStep
  <2>6. CASE UpperDone
    BY <2>1, <2>2, <2>6, UpperDoneStep
  <2>7. CASE Encode
    BY <2>1, <2>2, <2>3, <2>7, EncodeStep
  <2>8. CASE SendNextReportEntry
    BY <2>1, <2>2, <2>3, <2>8, SendStep
  <2>9. CASE PurgeBuf
    BY <2>2, <2>9, PurgeStep
  <2>10. CASE UNCHANGED vars
    <3>1. UNCHANGED <<memory, oldestReport, lastEnqueuedReport, nextToTransmit,
                      reportsCount, pc, entryBufPos, bufferEntrySize, made, sent>>
      BY <2>10 DEF vars, pointers, locals
    <3>2. TypeOK' /\ (reportsCount <= made)'
      BY <3>1 DEF BufferInv, TypeOK
    <3>3. Shape(c, k, reportsCount)'
      BY <2>1, <2>10, StutterStep
    <3> QED BY <2>2, <3>2, <3>3
  <2> QED BY <2>4, <2>5, <2>6, <2>7, <2>8, <2>9, <2>10 DEF Next
<1> QED BY <1>1, <1>2, PTL DEF Spec

(* enqueueReport never overwrites a report that it keeps: between two      *)
(* calls the list leads through reportsCount whole entries that do not     *)
(* overlap, and the asserts of the code hold.                              *)
THEOREM ReportsIntact == Spec => [](TypeOK /\ ListIntact)
<1>1. BufferInv => TypeOK /\ ListIntact
  <2> SUFFICES ASSUME BufferInv PROVE ListIntact
    BY DEF BufferInv
  <2>1. PICK c, k : Shape(c, k, reportsCount)
    BY DEF BufferInv, Shaped
  <2>2. Chain = c
    BY <2>1, ChainIs DEF BufferInv
  <2>3. PICK n \in Nat : n = reportsCount
    BY DEF BufferInv, TypeOK
  <2>4. Laid(memory, c, k, n) /\ (n > 0 => oldestReport = c[1])
    BY <2>1, <2>3 DEF Shape
  <2>5. ASSUME NEW i \in 1 .. n
        PROVE  /\ c[i] \in Nat /\ c[i] # NULL /\ memory[c[i]] # Garbage
               /\ EndOf(c[i]) \in Nat /\ EndOf(c[i]) <= MemoryBlockSize
               /\ EndOf(c[i]) = Behind(memory, c[i])
    BY <2>1, <2>3, KeptEntries, Numbers DEF BufferInv
  <2>6. ASSUME NEW i \in 1 .. n, NEW j \in 1 .. n, i # j
        PROVE  Occupied(c[i]) \cap Occupied(c[j]) = {} /\ c[i] # c[j]
    <3>1. /\ EndOf(c[i]) <= c[j] \/ EndOf(c[j]) <= c[i]
          /\ c[i] # c[j]
      BY <2>4, <2>5, <2>6, Apart
    <3>2. /\ c[i] \in Nat /\ c[j] \in Nat /\ EndOf(c[i]) \in Nat /\ EndOf(c[j]) \in Nat
      BY <2>5
    <3> QED BY <3>1, <3>2 DEF Occupied
  <2>7. ASSUME pc = "idle", lastEnqueuedReport # NULL
        PROVE  EndsList(c, n) /\ n > 0
    BY <2>1, <2>3, <2>7 DEF Shape, EndsList
  <2>8. ASSUME pc = "idle", lastEnqueuedReport # NULL, lastEnqueuedReport = oldestReport
        PROVE  reportsCount = 1
    <3>1. PICK first \in 1 .. n, final \in 1 .. n : first = 1 /\ final = n
      BY <2>7, <2>8
    <3>2. c[first] = c[final]
      BY <2>4, <2>7, <2>8, <3>1 DEF EndsList
    <3> QED BY <2>3, <2>6, <3>1, <3>2
  <2>9. Evicting => oldestReport # NULL
    BY <2>1, EvictingLasts, Numbers
  <2>10. ASSUME pc = "idle", nextToTransmit # NULL
         PROVE  memory[nextToTransmit].next # nextToTransmit
    <3>1. PICK i \in 1 .. n : nextToTransmit = c[i]
      BY <2>1, <2>3, <2>10 DEF Shape, NextKept
    <3>2. CASE i = n
      <4>1. EndsList(c, n)
        BY <2>1, <2>3, <2>10, <3>1 DEF Shape
      <4> QED BY <3>1, <3>2, <4>1, <2>10 DEF EndsList
    <3>3. CASE i # n
      <4>1. i \in 1 .. n - 1 /\ i + 1 \in 1 .. n /\ i + 1 # i
        BY <3>3
      <4>2. memory[c[i]].next = c[i + 1]
        BY <2>4, <4>1 DEF Laid
      <4>3. c[i + 1] # c[i]
        BY <2>6, <4>1
      <4> QED BY <3>1, <4>2, <4>3
    <3> QED BY <3>2, <3>3
  <2>11. Asserts
    BY <2>8, <2>9, <2>10 DEF Asserts
  <2>12. ASSUME pc = "idle"
         PROVE  IF n = 0 THEN oldestReport = NULL /\ lastEnqueuedReport = NULL
                ELSE /\ lastEnqueuedReport = c[n]
                     /\ memory[lastEnqueuedReport].next = NULL
    BY <2>1, <2>3, <2>12 DEF Shape, EndsList
  <2>13. ASSUME NEW i \in 1 .. n
         PROVE  /\ c[i] # NULL /\ memory[c[i]] # Garbage
                /\ EndOf(c[i]) <= MemoryBlockSize
                /\ \A j \in 1 .. i - 1 : Occupied(c[i]) \cap Occupied(c[j]) = {}
    <3>1. \A j \in 1 .. i - 1 : j \in 1 .. n /\ j # i
      OBVIOUS
    <3> QED BY <3>1, <2>5, <2>6
  <2> QED BY <2>2, <2>3, <2>11, <2>12, <2>13 DEF ListIntact
<1> QED BY <1>1, BufferInvariant, PTL

(* A report is removed only when the bytes of the new one overlap it or a  *)
(* younger report that is kept.                                            *)
THEOREM EvictionsNeeded == Spec => EvictsOnlyIfNeeded
<1>1. BufferInv /\ Evict
        => \E i \in 1 .. reportsCount : Occupied(Chain[i]) \cap Target # {}
  <2> SUFFICES ASSUME BufferInv, Evicting
               PROVE  \E i \in 1 .. reportsCount : Occupied(Chain[i]) \cap Target # {}
    BY DEF Evict
  <2>1. PICK c, k : Shape(c, k, reportsCount)
    BY DEF BufferInv, Shaped
  <2>2. Chain = c
    BY <2>1, ChainIs DEF BufferInv
  <2>3. PICK n \in Nat : n = reportsCount
    BY DEF BufferInv, TypeOK
  <2>4. /\ n > 0 /\ oldestReport = c[1] /\ k \in 1 .. n
        /\ pc \in {"wrap", "upper", "lower", "fit"}
        /\ pc = "fit" => entryBufPos = EndOf(c[n])
        /\ pc # "fit" => entryBufPos = 0
        /\ pc \in {"upper", "fit"} => k < n
    BY <2>1, <2>3, EvictingLasts
  <2>5. ASSUME NEW i \in 1 .. n
        PROVE  /\ c[i] \in Nat /\ EndOf(c[i]) \in Nat /\ c[i] < EndOf(c[i])
               /\ EndOf(c[i]) = Behind(memory, c[i])
    BY <2>1, <2>3, KeptEntries DEF BufferInv
  <2>6. /\ entryBufPos \in Nat /\ bufferEntrySize \in Nat /\ bufferEntrySize > 0
        /\ Laid(memory, c, k, n)
    BY <2>1, <2>3, <2>4, Numbers DEF BufferInv, TypeOK, Shape
  <2>7. ASSUME NEW i \in 1 .. n, c[i] \in Target
        PROVE  Occupied(c[i]) \cap Target # {}
    <3>1. c[i] \in Occupied(c[i])
      BY <2>5 DEF Occupied
    <3> QED BY <2>7, <3>1
  <2>8. PICK first \in 1 .. n, final \in 1 .. n : first = 1 /\ final = n
    BY <2>4
  <2>9. CASE pc \in {"wrap", "lower"}
    <3>1. Covers /\ entryBufPos = 0
      BY <2>4, <2>9 DEF Evicting
    <3>2. c[first] \in Target
      BY <2>4, <2>5, <2>6, <2>8, <3>1 DEF Covers, Target
    <3> QED BY <2>2, <2>3, <2>7, <3>2
  <2>10. CASE pc = "upper"
    <3>1. PICK j \in 1 .. n : j = k + 1
      BY <2>4, <2>10
    <3>2. c[j] = 0 /\ entryBufPos = 0
      BY <2>4, <2>6, <2>10, <3>1 DEF Laid
    <3>3. c[j] \in Target
      BY <2>6, <3>2 DEF Target
    <3> QED BY <2>2, <2>3, <2>7, <3>3
  <2>11. CASE pc = "fit"
    <3>1. Covers /\ entryBufPos = EndOf(c[final])
      BY <2>4, <2>8, <2>11 DEF Evicting
    <3>2. Behind(memory, c[final]) <= c[first]
      <4>1. first <= k /\ final > k
        BY <2>4, <2>8, <2>11
      <4> QED BY <2>6, <4>1 DEF Laid
    <3>3. c[first] \in Target
      BY <2>4, <2>5, <2>6, <2>8, <3>1, <3>2 DEF Covers, Target
    <3> QED BY <2>2, <2>3, <2>7, <3>3
  <2> QED BY <2>4, <2>9, <2>10, <2>11
<1> QED BY <1>1, BufferInvariant, PTL DEF EvictsOnlyIfNeeded, Spec
-----------------------------------------------------------------------------
(* The buffer as a queue.                                                  *)

\* What ReportQueue sees: the numbers of the kept reports, and how many of
\* them are still to be transmitted.
KeptNumbers == [i \in 1 .. reportsCount |-> memory[Chain[i]].number]
Unsent == IF \E i \in 1 .. reportsCount : Chain[i] = nextToTransmit
          THEN 1 + reportsCount
                 - (CHOOSE i \in 1 .. reportsCount : Chain[i] = nextToTransmit)
          ELSE 0

\* The same for a list that leads through n reports of the block m.
NumbersOf(m, c, n) == [i \in 1 .. n |-> m[c[i]].number]
UnsentOf(c, n, x) == IF \E i \in 1 .. n : c[i] = x
                     THEN 1 + n - (CHOOSE i \in 1 .. n : c[i] = x)
                     ELSE 0
Shown == \A c, k : Shape(c, k, reportsCount) =>
            /\ KeptNumbers = NumbersOf(memory, c, reportsCount)
            /\ Unsent = UnsentOf(c, reportsCount, nextToTransmit)

(* The list of BufferInv is the one that ReportQueue sees.                 *)
LEMMA ShownAlways == BufferInv => Shown
<1> SUFFICES ASSUME BufferInv, NEW c, NEW k, Shape(c, k, reportsCount)
             PROVE  /\ KeptNumbers = NumbersOf(memory, c, reportsCount)
                    /\ Unsent = UnsentOf(c, reportsCount, nextToTransmit)
  BY DEF Shown
<1>1. Chain = c
  BY ChainIs DEF BufferInv
<1> QED BY <1>1 DEF KeptNumbers, Unsent, NumbersOf, UnsentOf

\* The k oldest reports leave the queue.
Drops(k) ==
    /\ KeptNumbers' = SubSeq(KeptNumbers, k + 1, Len(KeptNumbers))
    /\ Unsent' = IF Unsent > Len(KeptNumbers) - k THEN Len(KeptNumbers) - k ELSE Unsent

(* Steps that begin a report are Begin of ReportQueue.                     *)
LEMMA IsBegin ==
  ASSUME pc = "idle", pc' # "idle", made < MaxReports, UNCHANGED <<made, sent>>,
         NEW k \in 0 .. Len(KeptNumbers), Drops(k)
  PROVE  Queue!Begin
<1>1. Queue!Drop(k)
  BY DEF Queue!Drop, Drops, KeptNumbers, Unsent
<1>2. \E x \in 0 .. Len(KeptNumbers) : Queue!Drop(x)
  BY <1>1
<1> QED BY <1>2 DEF Queue!Begin, KeptNumbers

(* The removal of a report is Overflow of ReportQueue.                     *)
LEMMA IsOverflow ==
  ASSUME pc # "idle", pc' # "idle", UNCHANGED <<made, sent>>,
         NEW k \in 1 .. Len(KeptNumbers), Drops(k)
  PROVE  Queue!Overflow
<1>1. Queue!Drop(k)
  BY DEF Queue!Drop, Drops, KeptNumbers, Unsent
<1>2. \E x \in 1 .. Len(KeptNumbers) : Queue!Drop(x)
  BY <1>1
<1> QED BY <1>2 DEF Queue!Overflow, KeptNumbers

(* The encoding of a report is Enqueue of ReportQueue.                     *)
LEMMA IsEnqueue ==
  ASSUME pc # "idle", pc' = "idle", made' = made + 1, sent' = sent,
         KeptNumbers' = Append(KeptNumbers, made + 1), Unsent' = Unsent + 1
  PROVE  Queue!Enqueue
BY DEF Queue!Enqueue, KeptNumbers, Unsent

(* The transmission of a report is Transmit of ReportQueue.                *)
LEMMA IsTransmit ==
  ASSUME pc = "idle", Unsent > 0, sent' = KeptNumbers[Len(KeptNumbers) - Unsent + 1],
         Unsent' = Unsent - 1, KeptNumbers' = KeptNumbers, made' = made, pc' = pc
  PROVE  Queue!Transmit
BY DEF Queue!Transmit, KeptNumbers, Unsent

(* A report that is too large is Skip of ReportQueue.                      *)
LEMMA IsSkip ==
  ASSUME pc = "idle", pc' = "idle", made < MaxReports, made' = made + 1,
         sent' = sent, KeptNumbers' = KeptNumbers, Unsent' = Unsent
  PROVE  Queue!Skip
BY DEF Queue!Skip, KeptNumbers, Unsent

(* purgeBuf is Purge of ReportQueue.                                       *)
LEMMA IsPurge ==
  ASSUME pc = "idle", pc' = "idle", made' = made, sent' = sent,
         KeptNumbers' = <<>>, Unsent' = 0
  PROVE  Queue!Purge
BY DEF Queue!Purge, KeptNumbers, Unsent

(* The numbers of a list are a sequence as long as the list.               *)
LEMMA NumbersSeq ==
  ASSUME NEW n \in Nat, NEW m, NEW c, \A i \in 1 .. n : m[c[i]].number \in Nat
  PROVE  /\ NumbersOf(m, c, n) \in Seq(Nat) /\ Len(NumbersOf(m, c, n)) = n
         /\ \A i \in 1 .. n : NumbersOf(m, c, n)[i] = m[c[i]].number
<1>1. NumbersOf(m, c, n) \in [1 .. n -> Nat]
  BY DEF NumbersOf
<1>2. NumbersOf(m, c, n) \in Seq(Nat)
  BY <1>1
<1>3. Len(NumbersOf(m, c, n)) = n
  BY <1>1, <1>2, LenProperties
<1> QED BY <1>2, <1>3 DEF NumbersOf

(* The report at i and the ones after it are to be transmitted.            *)
LEMMA UnsentAt ==
  ASSUME NEW n \in Nat, NEW c, \A i, j \in 1 .. n : i # j => c[i] # c[j],
         NEW i \in 1 .. n
  PROVE  UnsentOf(c, n, c[i]) = 1 + n - i
<1>1. \E j \in 1 .. n : c[j] = c[i]
  OBVIOUS
<1>2. (CHOOSE j \in 1 .. n : c[j] = c[i]) = i
  <2> DEFINE x == CHOOSE j \in 1 .. n : c[j] = c[i]
  <2>1. x \in 1 .. n /\ c[x] = c[i]
    BY <1>1
  <2> HIDE DEF x
  <2>2. x = i
    BY <2>1
  <2> QED BY <2>2 DEF x
<1> QED BY <1>1, <1>2 DEF UnsentOf

(* Without a report to transmit next, none is to be transmitted.           *)
LEMMA UnsentNone ==
  ASSUME NEW n, NEW c, NEW x, \A i \in 1 .. n : c[i] # x
  PROVE  UnsentOf(c, n, x) = 0
BY DEF UnsentOf

(* What the queue looks like for the list of BufferInv.                    *)
LEMMA QueueNow ==
  ASSUME BufferInv, Shown, NEW c, NEW k, Shape(c, k, reportsCount),
         NEW n \in Nat, n = reportsCount
  PROVE  /\ KeptNumbers = NumbersOf(memory, c, n) /\ Unsent = UnsentOf(c, n, nextToTransmit)
         /\ KeptNumbers \in Seq(Nat) /\ Len(KeptNumbers) = n /\ Unsent \in 0 .. n
         /\ \A i \in 1 .. n : KeptNumbers[i] = memory[c[i]].number
         /\ \A i, j \in 1 .. n : i # j => c[i] # c[j]
         /\ \A i \in 1 .. n : nextToTransmit = c[i] => Unsent = 1 + n - i
         /\ (\A i \in 1 .. n : nextToTransmit # c[i]) => Unsent = 0
<1>1. KeptNumbers = NumbersOf(memory, c, n) /\ Unsent = UnsentOf(c, n, nextToTransmit)
  BY DEF Shown
<1>2. \A i, j \in 1 .. n : i # j => c[i] # c[j]
  <2>1. Laid(memory, c, k, n)
    BY DEF Shape
  <2> QED BY <2>1, Apart
<1>3. \A i \in 1 .. n : memory[c[i]].number \in Nat
  <2>1. \A i \in 1 .. n : memory[c[i]].number \in 1 .. MaxReports
    BY KeptEntries DEF BufferInv
  <2> QED BY <2>1
<1>4. \A i \in 1 .. n : nextToTransmit = c[i] => Unsent = 1 + n - i
  BY <1>1, <1>2, UnsentAt
<1>5. (\A i \in 1 .. n : nextToTransmit # c[i]) => Unsent = 0
  BY <1>1, UnsentNone
<1>6. Unsent \in 0 .. n
  <2>1. CASE \E i \in 1 .. n : nextToTransmit = c[i]
    <3>1. PICK i \in 1 .. n : nextToTransmit = c[i]
      BY <2>1
    <3>2. Unsent = 1 + n - i
      BY <3>1, <1>4
    <3> QED BY <3>2
  <2>2. CASE ~ \E i \in 1 .. n : nextToTransmit = c[i]
    BY <2>2, <1>5
  <2> QED BY <2>1, <2>2
<1>7. /\ KeptNumbers \in Seq(Nat) /\ Len(KeptNumbers) = n
      /\ \A i \in 1 .. n : KeptNumbers[i] = memory[c[i]].number
  BY <1>1, <1>3, NumbersSeq
<1> QED BY <1>1, <1>2, <1>4, <1>5, <1>6, <1>7

(* A step that keeps all reports drops none.                               *)
LEMMA DropsNone ==
  ASSUME KeptNumbers \in Seq(Nat), Unsent \in 0 .. Len(KeptNumbers),
         KeptNumbers' = KeptNumbers, Unsent' = Unsent
  PROVE  0 \in 0 .. Len(KeptNumbers) /\ Drops(0)
<1>1. PICK q \in Seq(Nat) : q = KeptNumbers
  OBVIOUS
<1> PICK u \in 0 .. Len(q) : u = Unsent
  BY <1>1
<1>2. Len(q) \in Nat /\ SubSeq(q, 0 + 1, Len(q)) = q
  BY SubSeqFull, LenProperties
<1>3. u = IF u > Len(q) - 0 THEN Len(q) - 0 ELSE u
  <2>1. PICK n \in Nat : n = Len(q)
    BY <1>2
  <2> QED BY <2>1
<1>4. /\ KeptNumbers' = SubSeq(KeptNumbers, 0 + 1, Len(KeptNumbers))
      /\ Unsent' = IF Unsent > Len(KeptNumbers) - 0 THEN Len(KeptNumbers) - 0 ELSE Unsent
  <2>1. /\ q = SubSeq(q, 0 + 1, Len(q))
        /\ u = IF u > Len(q) - 0 THEN Len(q) - 0 ELSE u
    BY <1>2, <1>3
  <2>2. KeptNumbers' = q /\ Unsent' = u /\ KeptNumbers = q /\ Unsent = u
    BY <1>1
  <2> QED BY <2>1, <2>2, Zenon
<1>5. 0 \in 0 .. Len(KeptNumbers)
  BY <1>1, <1>2
<1> QED BY <1>4, <1>5 DEF Drops

(* A list without its first report shows the queue without its first one.  *)
LEMMA DropsFirst ==
  ASSUME NEW n \in Nat, n > 0, NEW m, NEW c, NEW d,
         \A i \in 1 .. n : m[c[i]].number \in Nat,
         \A i \in 1 .. n - 1 : d[i] = c[i + 1]
  PROVE  NumbersOf(m, d, n - 1) = SubSeq(NumbersOf(m, c, n), 1 + 1, n)
<1> DEFINE q == NumbersOf(m, c, n)
           r == NumbersOf(m, d, n - 1)
<1>1. q \in Seq(Nat) /\ Len(q) = n /\ \A i \in 1 .. n : q[i] = m[c[i]].number
  BY NumbersSeq
<1>2. \A i \in 1 .. n - 1 : d[i] = c[i + 1] /\ i + 1 \in 1 .. n
  OBVIOUS
<1>3. r \in Seq(Nat) /\ Len(r) = n - 1 /\ \A i \in 1 .. n - 1 : r[i] = m[d[i]].number
  <2>1. \A i \in 1 .. n - 1 : m[d[i]].number \in Nat
    BY <1>2
  <2>2. PICK x \in Nat : x = n - 1
    OBVIOUS
  <2>3. /\ NumbersOf(m, d, x) \in Seq(Nat) /\ Len(NumbersOf(m, d, x)) = x
        /\ \A i \in 1 .. x : NumbersOf(m, d, x)[i] = m[d[i]].number
    <3>1. \A i \in 1 .. x : m[d[i]].number \in Nat
      BY <2>1, <2>2
    <3> QED BY <3>1, NumbersSeq
  <2> QED BY <2>2, <2>3
<1> HIDE DEF q, r
<1>4. /\ SubSeq(q, 2, n) \in Seq(Nat) /\ Len(SubSeq(q, 2, n)) = n - 1
      /\ \A i \in 1 .. n - 1 : SubSeq(q, 2, n)[i] = q[i + 1]
  <2>1. \A i \in 2 .. n : q[i] \in Nat
    BY <1>1
  <2>2. /\ SubSeq(q, 2, n) \in Seq(Nat)
        /\ Len(SubSeq(q, 2, n)) = IF 2 <= n THEN n - 2 + 1 ELSE 0
        /\ \A i \in 1 .. n - 2 + 1 : SubSeq(q, 2, n)[i] = q[2 + i - 1]
    BY <2>1, SubSeqProperties
  <2> QED BY <2>2
<1>5. \A i \in 1 .. n - 1 : r[i] = SubSeq(q, 2, n)[i]
  BY <1>1, <1>2, <1>3, <1>4
<1>6. r = SubSeq(q, 2, n)
  BY <1>3, <1>4, <1>5, SeqEqual
<1> QED BY <1>6 DEF q, r

(* Every step of the buffer is a step of the queue, or changes nothing of  *)
(* what the queue shows.                                                   *)
LEMMA QueueStep ==
  ASSUME BufferInv, Shown, Shown', [Next]_vars
  PROVE  [Queue!Next]_(Queue!qvars)
<1>1. PICK c, k : Shape(c, k, reportsCount)
  BY DEF BufferInv, Shaped
<1>2. PICK n \in Nat, p \in Address : n = reportsCount /\ p = entryBufPos
  BY DEF BufferInv, TypeOK
<1>3. /\ KeptNumbers = NumbersOf(memory, c, n) /\ KeptNumbers \in Seq(Nat) /\ Len(KeptNumbers) = n
      /\ Unsent \in 0 .. n
      /\ \A i \in 1 .. n : KeptNumbers[i] = memory[c[i]].number
      /\ \A i, j \in 1 .. n : i # j => c[i] # c[j]
      /\ \A i \in 1 .. n : nextToTransmit = c[i] => Unsent = 1 + n - i
      /\ (\A i \in 1 .. n : nextToTransmit # c[i]) => Unsent = 0
  BY <1>1, <1>2, QueueNow
<1>4. Unsent = UnsentOf(c, n, nextToTransmit)
  BY <1>1, <1>2, QueueNow
<1>5. \A i \in 1 .. n : memory[c[i]].number \in Nat /\ c[i] # NULL
  <2>1. \A i \in 1 .. n : memory[c[i]].number \in 1 .. MaxReports /\ c[i] # NULL
    BY <1>1, <1>2, KeptEntries DEF BufferInv
  <2> QED BY <2>1
<1>6. ASSUME NEW d, NEW h, Shape(d, h, reportsCount)'
      PROVE  /\ KeptNumbers' = NumbersOf(memory', d, reportsCount')
             /\ Unsent' = UnsentOf(d, reportsCount', nextToTransmit')
  BY <1>6 DEF Shown
<1>7. ASSUME Shape(c, k, reportsCount)', reportsCount' = n,
             nextToTransmit' = nextToTransmit,
             \A i \in 1 .. n : memory'[c[i]].number = memory[c[i]].number
      PROVE  KeptNumbers' = KeptNumbers /\ Unsent' = Unsent
  <2>1. /\ KeptNumbers' = NumbersOf(memory', c, n)
        /\ Unsent' = UnsentOf(c, n, nextToTransmit)
    BY <1>6, <1>7
  <2>2. NumbersOf(memory', c, n) = NumbersOf(memory, c, n)
    BY <1>7 DEF NumbersOf
  <2> QED BY <2>1, <2>2, <1>3, <1>4
<1>8. ASSUME KeptNumbers' = KeptNumbers, Unsent' = Unsent
      PROVE  0 \in 0 .. Len(KeptNumbers) /\ Drops(0)
  BY <1>3, <1>8, DropsNone
<1>9. ASSUME NEW size \in Sizes, EnqueueReport(size)
      PROVE  Queue!Next
  <2>1. CASE TooLarge(size)
    <3>1. Shape(c, k, reportsCount)'
      BY <1>1, <2>1, TooLargeStep
    <3>2. /\ pc = "idle" /\ pc' = pc /\ made < MaxReports /\ made' = made + 1
          /\ sent' = sent /\ memory' = memory /\ reportsCount' = reportsCount
          /\ nextToTransmit' = nextToTransmit
      BY <2>1 DEF TooLarge, CanBegin, pointers
    <3>3. KeptNumbers' = KeptNumbers /\ Unsent' = Unsent
      BY <3>1, <3>2, <1>2, <1>7
    <3>4. Queue!Skip
      BY <3>2, <3>3, IsSkip
    <3> QED BY <3>4 DEF Queue!Next
  <2>2. ASSUME pc = "idle", pc' # "idle", made < MaxReports, UNCHANGED <<made, sent>>,
               NEW x \in 0 .. Len(KeptNumbers), Drops(x)
        PROVE  Queue!Next
    <3>1. Queue!Begin
      BY <2>2, IsBegin
    <3> QED BY <3>1 DEF Queue!Next
  <2>3. ASSUME NEW position, NEW loop, Begin(size, position, loop), loop # "idle"
        PROVE  pc = "idle" /\ pc' # "idle" /\ made < MaxReports /\ UNCHANGED <<made, sent>>
    BY <2>3 DEF Begin, CanBegin
  <2>4. CASE EnqueueFirst(size)
    <3>1. Shape(c, k, reportsCount)' /\ n = 0 /\ reportsCount' = 0
      BY <1>1, <1>2, <2>4, FirstStep
    <3>2. Begin(size, 0, "write")
      BY <2>4 DEF EnqueueFirst
    <3>3. /\ KeptNumbers' = NumbersOf(memory', c, 0)
          /\ Unsent' = UnsentOf(c, 0, nextToTransmit')
      BY <3>1, <1>6
    <3>4. NumbersOf(memory', c, 0) = NumbersOf(memory, c, 0)
      BY DEF NumbersOf
    <3>5. UnsentOf(c, 0, nextToTransmit') = 0
      BY UnsentNone
    <3>6. KeptNumbers' = KeptNumbers /\ Unsent' = Unsent
      BY <1>3, <3>1, <3>3, <3>4, <3>5
    <3> QED BY <1>8, <2>2, <2>3, <3>2, <3>6
  <2>5. CASE EnqueueSecond(size)
    <3>1. pc = "idle" /\ pc' # "idle" /\ made < MaxReports /\ UNCHANGED <<made, sent>>
      BY <2>3, <2>5 DEF EnqueueSecond
    <3>2. /\ n = 1
          /\ \/ /\ reportsCount' = 0 /\ nextToTransmit' = NULL
                /\ Shape([i \in 1 .. 0 |-> c[i]], 0, reportsCount)'
             \/ /\ UNCHANGED <<reportsCount, nextToTransmit>>
                /\ Shape(c, k, reportsCount)'
                /\ memory'[c[1]].number = memory[c[1]].number
      BY <1>1, <1>2, <2>5, SecondStep
    <3>3. CASE /\ UNCHANGED <<reportsCount, nextToTransmit>>
               /\ Shape(c, k, reportsCount)'
               /\ memory'[c[1]].number = memory[c[1]].number
      <4>1. \A i \in 1 .. n : memory'[c[i]].number = memory[c[i]].number
        BY <3>2, <3>3
      <4>2. KeptNumbers' = KeptNumbers /\ Unsent' = Unsent
        BY <3>3, <4>1, <1>2, <1>7
      <4> QED BY <1>8, <2>2, <3>1, <4>2
    <3>4. CASE /\ reportsCount' = 0 /\ nextToTransmit' = NULL
               /\ Shape([i \in 1 .. 0 |-> c[i]], 0, reportsCount)'
      <4>1. PICK d : d = [i \in 1 .. 0 |-> c[i]]
        OBVIOUS
      <4>2. Shape(d, 0, reportsCount)'
        BY <3>4, <4>1
      <4>3. /\ KeptNumbers' = NumbersOf(memory', d, 0)
            /\ Unsent' = UnsentOf(d, 0, nextToTransmit')
        BY <3>4, <4>2, <1>6
      <4>4. KeptNumbers' = <<>> /\ Unsent' = 0
        <5>1. NumbersOf(memory', d, 0) = <<>>
          BY DEF NumbersOf
        <5>2. UnsentOf(d, 0, nextToTransmit') = 0
          BY UnsentNone
        <5> QED BY <4>3, <5>1, <5>2
      <4>5. SubSeq(KeptNumbers, 1 + 1, Len(KeptNumbers)) = <<>>
        BY <1>3, <3>2, SubSeqEmpty
      <4>6. Drops(1) /\ 1 \in 0 .. Len(KeptNumbers)
        BY <1>3, <3>2, <4>4, <4>5 DEF Drops
      <4> QED BY <2>2, <3>1, <4>6
    <3> QED BY <3>2, <3>3, <3>4
  <2>6. CASE EnqueueAfter(size)
    <3>1. Shape(c, k, reportsCount)'
      BY <1>1, <2>6, AfterStep
    <3>2. /\ pc = "idle" /\ pc' # "idle" /\ made < MaxReports /\ UNCHANGED <<made, sent>>
          /\ memory' = memory /\ reportsCount' = n /\ nextToTransmit' = nextToTransmit
      BY <1>2, <2>3, <2>6 DEF EnqueueAfter, pointers
    <3>3. KeptNumbers' = KeptNumbers /\ Unsent' = Unsent
      BY <3>1, <3>2, <1>7
    <3> QED BY <1>8, <2>2, <3>2, <3>3
  <2>7. CASE EnqueueBelow(size)
    <3>1. Shape(c, k, reportsCount)'
      BY <1>1, <2>7, BelowStep
    <3>2. /\ pc = "idle" /\ pc' # "idle" /\ made < MaxReports /\ UNCHANGED <<made, sent>>
          /\ memory' = memory /\ reportsCount' = n /\ nextToTransmit' = nextToTransmit
      BY <1>2, <2>3, <2>7 DEF EnqueueBelow, pointers
    <3>3. KeptNumbers' = KeptNumbers /\ Unsent' = Unsent
      BY <3>1, <3>2, <1>7
    <3> QED BY <1>8, <2>2, <3>2, <3>3
  <2> QED BY <1>9, <2>1, <2>4, <2>5, <2>6, <2>7 DEF EnqueueReport
<1>10. CASE Evict
  <2>1. PICK d, h : /\ d = [i \in 1 .. n - 1 |-> c[i + 1]]
                    /\ Shape(d, h, reportsCount)'
    BY <1>1, <1>2, <1>10, EvictStep
  <2>2. /\ memory' = memory /\ reportsCount' = n - 1 /\ made' = made /\ sent' = sent
        /\ nextToTransmit' = IF nextToTransmit = oldestReport
                             THEN memory[oldestReport].next ELSE nextToTransmit
        /\ Evicting /\ pc # "idle" /\ pc' # "idle"
    BY <1>2, <1>10 DEF Evict, Evicting
  <2>3. n > 0 /\ EndsList(c, n) /\ oldestReport = c[1] /\ Laid(memory, c, k, n)
    BY <1>1, <1>2, <2>2, EvictingLasts DEF Shape
  <2>4. /\ \A i \in 1 .. n - 1 : d[i] = c[i + 1] /\ i + 1 \in 1 .. n
        /\ \A i, j \in 1 .. n - 1 : i # j => d[i] # d[j]
    <3>1. \A i \in 1 .. n - 1 : d[i] = c[i + 1] /\ i + 1 \in 1 .. n
      BY <2>1
    <3>2. ASSUME NEW i \in 1 .. n - 1, NEW j \in 1 .. n - 1, i # j PROVE d[i] # d[j]
      <4>1. i + 1 \in 1 .. n /\ j + 1 \in 1 .. n /\ i + 1 # j + 1
        BY <3>2
      <4>2. c[i + 1] # c[j + 1]
        BY <4>1, <1>3
      <4> QED BY <3>1, <4>2
    <3> QED BY <3>1, <3>2
  <2>5. PICK x \in Nat : x = n - 1
    BY <2>3
  <2>6. KeptNumbers' = NumbersOf(memory, d, x) /\ Unsent' = UnsentOf(d, x, nextToTransmit')
    BY <2>1, <2>2, <2>5, <1>6
  <2>7. KeptNumbers' = SubSeq(KeptNumbers, 1 + 1, Len(KeptNumbers))
    <3>1. NumbersOf(memory, d, n - 1) = SubSeq(NumbersOf(memory, c, n), 1 + 1, n)
      BY <1>5, <2>3, <2>4, DropsFirst
    <3> QED BY <3>1, <1>3, <2>5, <2>6
  <2>8. ASSUME NEW i \in 1 .. n - 1, nextToTransmit' = d[i]
        PROVE  Unsent' = n - i
    <3>1. i \in 1 .. x /\ \A j, l \in 1 .. x : j # l => d[j] # d[l]
      BY <2>4, <2>5
    <3>2. UnsentOf(d, x, d[i]) = 1 + x - i
      BY <3>1, UnsentAt
    <3> QED BY <3>2, <2>5, <2>6, <2>8
  <2>9. ASSUME \A i \in 1 .. n - 1 : nextToTransmit' # d[i]
        PROVE  Unsent' = 0
    <3>1. UnsentOf(d, x, nextToTransmit') = 0
      BY <2>5, <2>9, UnsentNone
    <3> QED BY <3>1, <2>6
  <2>10. Unsent' = IF Unsent > n - 1 THEN n - 1 ELSE Unsent
    <3>1. PICK first \in 1 .. n : first = 1
      BY <2>3
    <3>2. CASE nextToTransmit = c[first]
      <4>1. Unsent = n /\ nextToTransmit' = memory[c[first]].next
        BY <3>1, <3>2, <1>3, <2>2, <2>3
      <4>2. CASE n = 1
        <5>1. nextToTransmit' = NULL
          BY <4>1, <4>2, <2>3, <3>1 DEF EndsList
        <5>2. Unsent' = 0
          BY <4>2, <5>1, <2>9
        <5> QED BY <4>1, <4>2, <5>2
      <4>3. CASE n # 1
        <5>1. PICK i \in 1 .. n - 1 : i = 1
          BY <4>3, <2>3
        <5>2. memory[c[i]].next = c[i + 1]
          BY <2>3 DEF Laid
        <5>3. nextToTransmit' = d[i]
          BY <4>1, <5>1, <5>2, <2>4, <3>1
        <5>4. Unsent' = n - i
          BY <5>3, <2>8
        <5> QED BY <4>1, <5>1, <5>4, <2>3
      <4> QED BY <4>2, <4>3
    <3>3. CASE nextToTransmit # c[first]
      <4>1. nextToTransmit' = nextToTransmit
        BY <3>1, <3>3, <2>2, <2>3
      <4>2. CASE \E i \in 1 .. n : nextToTransmit = c[i]
        <5>1. PICK i \in 1 .. n : nextToTransmit = c[i]
          BY <4>2
        <5>2. PICK j \in 1 .. n - 1 : j = i - 1
          BY <5>1, <3>1, <3>3
        <5>3. nextToTransmit' = d[j]
          <6>1. j + 1 = i
            BY <5>2
          <6> QED BY <6>1, <4>1, <5>1, <2>4
        <5>4. Unsent' = n - j /\ Unsent = 1 + n - i
          BY <5>1, <5>3, <2>8, <1>3
        <5> QED BY <5>2, <5>4
      <4>3. CASE ~ \E i \in 1 .. n : nextToTransmit = c[i]
        <5>1. Unsent = 0
          BY <4>3, <1>3
        <5>2. Unsent' = 0
          BY <4>1, <4>3, <2>4, <2>9
        <5> QED BY <5>1, <5>2, <2>3
      <4> QED BY <4>2, <4>3
    <3> QED BY <3>2, <3>3
  <2>11. 1 \in 1 .. Len(KeptNumbers) /\ Drops(1)
    BY <1>3, <2>3, <2>7, <2>10 DEF Drops
  <2>12. Queue!Overflow
    BY <2>2, <2>11, IsOverflow
  <2> QED BY <2>12 DEF Queue!Next
<1>11. CASE UpperDone
  <2>1. Shape(c, k, reportsCount)'
    BY <1>1, <1>11, UpperDoneStep
  <2>2. /\ memory' = memory /\ reportsCount' = n /\ nextToTransmit' = nextToTransmit
        /\ made' = made /\ sent' = sent /\ pc # "idle" /\ pc' # "idle"
    BY <1>2, <1>11 DEF UpperDone, pointers
  <2>3. KeptNumbers' = KeptNumbers /\ Unsent' = Unsent
    BY <2>1, <2>2, <1>7
  <2>4. UNCHANGED Queue!qvars
    BY <2>2, <2>3 DEF Queue!qvars, KeptNumbers, Unsent
  <2> QED BY <2>4
<1>12. CASE Encode
  <2>1. PICK d, h : /\ d = Longer(c, n, p)
                    /\ Shape(d, h, reportsCount)'
                    /\ \A i \in 1 .. n : memory'[c[i]].number = memory[c[i]].number
                    /\ memory'[p].number = made + 1
    BY <1>1, <1>2, <1>12, EncodeStep
  <2>2. /\ pc # "idle" /\ pc' = "idle" /\ made' = made + 1 /\ sent' = sent
        /\ reportsCount' = n + 1
        /\ nextToTransmit' = IF nextToTransmit = NULL THEN p ELSE nextToTransmit
    BY <1>2, <1>12 DEF Encode
  <2>3. /\ d[n + 1] = p /\ \A i \in 1 .. n : d[i] = c[i]
        /\ \A i \in 1 .. n + 1 : i \in 1 .. n \/ i = n + 1
    BY <2>1 DEF Longer
  <2>4. PICK x \in Nat : x = n + 1
    OBVIOUS
  <2>5. KeptNumbers' = NumbersOf(memory', d, x) /\ Unsent' = UnsentOf(d, x, nextToTransmit')
    BY <2>1, <2>2, <2>4, <1>6
  <2>6. made + 1 \in Nat
    BY DEF BufferInv, TypeOK
  <2>7. KeptNumbers' = Append(KeptNumbers, made + 1)
    <3>1. ASSUME NEW i \in 1 .. x PROVE memory'[d[i]].number \in Nat
      <4>1. CASE i = x
        BY <4>1, <2>1, <2>3, <2>4, <2>6
      <4>2. CASE i \in 1 .. n
        BY <4>2, <2>1, <2>3, <1>5
      <4> QED BY <2>3, <2>4, <4>1, <4>2
    <3>2. /\ NumbersOf(memory', d, x) \in Seq(Nat) /\ Len(NumbersOf(memory', d, x)) = x
          /\ \A i \in 1 .. x : NumbersOf(memory', d, x)[i] = memory'[d[i]].number
      BY <3>1, NumbersSeq
    <3>3. PICK q \in Seq(Nat), r \in Seq(Nat) : q = KeptNumbers /\ r = NumbersOf(memory', d, x)
      BY <1>3, <3>2
    <3>4. /\ Append(q, made + 1) \in Seq(Nat) /\ Len(Append(q, made + 1)) = x
          /\ \A i \in 1 .. n : Append(q, made + 1)[i] = q[i]
          /\ Append(q, made + 1)[x] = made + 1
      <4>1. Len(q) = n
        BY <3>3, <1>3
      <4> QED BY <4>1, <2>4, <2>6, AppendProperties
    <3>5. ASSUME NEW i \in 1 .. x PROVE r[i] = Append(q, made + 1)[i]
      <4>1. CASE i = x
        <5>1. r[i] = memory'[d[i]].number
          BY <3>2, <3>3
        <5>2. d[i] = p /\ memory'[p].number = made + 1
          BY <4>1, <2>1, <2>3, <2>4
        <5> QED BY <4>1, <5>1, <5>2, <3>4
      <4>2. CASE i \in 1 .. n
        <5>1. r[i] = memory'[d[i]].number
          BY <3>2, <3>3
        <5>2. d[i] = c[i] /\ memory'[c[i]].number = memory[c[i]].number
          BY <4>2, <2>1, <2>3
        <5>3. q[i] = memory[c[i]].number
          BY <4>2, <1>3, <3>3
        <5> QED BY <4>2, <5>1, <5>2, <5>3, <3>4
      <4> QED BY <2>3, <2>4, <4>1, <4>2
    <3>6. r = Append(q, made + 1)
      <4>1. Len(r) = x
        BY <3>2, <3>3
      <4> QED BY <3>4, <3>5, <4>1, SeqEqual
    <3> QED BY <2>5, <3>3, <3>6
  <2>8. ASSUME NEW i \in 1 .. x, nextToTransmit' = d[i]
        PROVE  Unsent' = 1 + x - i
    <3>1. \A a, b \in 1 .. x : a # b => d[a] # d[b]
      <4>1. Laid(memory', d, h, x)
        BY <2>1, <2>2, <2>4 DEF Shape
      <4> QED BY <4>1, Apart
    <3>2. UnsentOf(d, x, d[i]) = 1 + x - i
      BY <3>1, UnsentAt
    <3> QED BY <3>2, <2>5, <2>8
  <2>9. Unsent' = Unsent + 1
    <3>1. x \in 1 .. x /\ d[x] = p /\ \A i \in 1 .. n : i \in 1 .. x
      BY <2>3, <2>4
    <3>2. CASE nextToTransmit = NULL
      <4>1. nextToTransmit' = d[x]
        BY <3>1, <3>2, <2>2
      <4>2. Unsent' = 1
        BY <4>1, <3>1, <2>8
      <4>3. Unsent = 0
        BY <3>2, <1>3, <1>5
      <4> QED BY <4>2, <4>3
    <3>3. CASE \E i \in 1 .. n : nextToTransmit = c[i]
      <4>1. PICK i \in 1 .. n : nextToTransmit = c[i]
        BY <3>3
      <4>2. nextToTransmit' = d[i] /\ i \in 1 .. x
        BY <4>1, <1>5, <2>2, <2>3, <3>1
      <4>3. Unsent' = 1 + x - i /\ Unsent = 1 + n - i
        BY <4>1, <4>2, <1>3, <2>8
      <4> QED BY <4>3, <2>4
    <3>4. CASE pc = "write" /\ n = 0 /\ nextToTransmit = 0
      <4>1. p = 0
        BY <3>4, <1>1, <1>2 DEF Shape, Making
      <4>2. nextToTransmit' = d[x]
        BY <3>1, <3>4, <4>1, <2>2
      <4>3. Unsent' = 1
        BY <4>2, <3>1, <2>8
      <4>4. Unsent = 0
        BY <3>4, <1>3
      <4> QED BY <4>3, <4>4
    <3> QED BY <1>1, <1>2, <3>2, <3>3, <3>4 DEF Shape, NextKept
  <2>10. Queue!Enqueue
    BY <2>2, <2>7, <2>9, IsEnqueue
  <2> QED BY <2>10 DEF Queue!Next
<1>13. CASE SendNextReportEntry
  <2>1. Shape(c, k, reportsCount)'
    BY <1>1, <1>2, <1>13, SendStep
  <2>2. PICK i \in 1 .. n :
          /\ nextToTransmit = c[i] /\ sent' = memory[c[i]].number
          /\ nextToTransmit' = IF i = n THEN NULL ELSE c[i + 1]
    BY <1>1, <1>2, <1>13, SendStep
  <2>3. pc = "idle" /\ pc' = pc /\ made' = made /\ memory' = memory /\ reportsCount' = n
    BY <1>2, <1>13 DEF SendNextReportEntry
  <2>4. Unsent = 1 + n - i
    BY <2>2, <1>3
  <2>5. KeptNumbers' = KeptNumbers /\ Unsent' = UnsentOf(c, n, nextToTransmit')
    <3>1. NumbersOf(memory', c, n) = NumbersOf(memory, c, n)
      BY <2>3 DEF NumbersOf
    <3> QED BY <2>1, <2>3, <3>1, <1>3, <1>6
  <2>6. Unsent' = Unsent - 1
    <3>1. CASE i = n
      <4>1. UnsentOf(c, n, NULL) = 0
        BY <1>5, UnsentNone
      <4> QED BY <2>2, <2>4, <2>5, <3>1, <4>1
    <3>2. CASE i # n
      <4>1. PICK j \in 1 .. n : j = i + 1
        BY <3>2
      <4>2. UnsentOf(c, n, c[j]) = 1 + n - j
        BY <1>3, UnsentAt
      <4> QED BY <2>2, <2>4, <2>5, <3>2, <4>1, <4>2
    <3> QED BY <3>1, <3>2
  <2>7. sent' = KeptNumbers[Len(KeptNumbers) - Unsent + 1]
    <3>1. Len(KeptNumbers) - Unsent + 1 = i
      BY <1>3, <2>4
    <3> QED BY <1>3, <2>2, <3>1
  <2>8. Queue!Transmit
    BY <2>3, <2>4, <2>5, <2>6, <2>7, IsTransmit
  <2> QED BY <2>8 DEF Queue!Next
<1>14. CASE PurgeBuf
  <2>1. /\ pc = "idle" /\ pc' = "idle" /\ made' = made /\ sent' = sent
    BY <1>14 DEF PurgeBuf, locals
  <2>2. PICK d : d = [i \in 1 .. 0 |-> NULL]
    OBVIOUS
  <2>3. Shape(d, 0, reportsCount)' /\ reportsCount' = 0
    BY <1>14, <2>2, PurgeStep
  <2>4. /\ KeptNumbers' = NumbersOf(memory', d, 0)
        /\ Unsent' = UnsentOf(d, 0, nextToTransmit')
    BY <2>3, <1>6
  <2>5. NumbersOf(memory', d, 0) = <<>>
    BY DEF NumbersOf
  <2>6. UnsentOf(d, 0, nextToTransmit') = 0
    BY UnsentNone
  <2>7. Queue!Purge
    BY <2>1, <2>4, <2>5, <2>6, IsPurge
  <2> QED BY <2>7 DEF Queue!Next
<1>15. CASE UNCHANGED vars
  <2>1. /\ memory' = memory /\ reportsCount' = n /\ nextToTransmit' = nextToTransmit
        /\ made' = made /\ sent' = sent /\ pc' = pc
    BY <1>2, <1>15 DEF vars, pointers
  <2>2. Shape(c, k, reportsCount)'
    BY <1>1, <1>15, StutterStep
  <2>3. KeptNumbers' = KeptNumbers /\ Unsent' = Unsent
    BY <2>1, <2>2, <1>7
  <2>4. UNCHANGED Queue!qvars
    BY <2>1, <2>3 DEF Queue!qvars, KeptNumbers, Unsent
  <2> QED BY <2>4
<1> QED BY <1>9, <1>10, <1>11, <1>12, <1>13, <1>14, <1>15 DEF Next

(* The buffer behaves like the queue it is meant to be: reports are kept   *)
(* and transmitted in the order they were made, none twice, and one is     *)
(* dropped only to make room for a new one, the oldest first, or by a      *)
(* purge.                                                                  *)
THEOREM BufferIsQueue == Spec => BehavesAsQueue
<1>1. Init => Queue!Init
  <2> SUFFICES ASSUME Init PROVE Queue!Init
    OBVIOUS
  <2>1. reportsCount = 0 /\ made = 0 /\ sent = 0 /\ pc = "idle"
    BY DEF Init
  <2>2. KeptNumbers = <<>> /\ Unsent = 0
    BY <2>1 DEF KeptNumbers, Unsent
  <2> QED BY <2>1, <2>2 DEF Queue!Init, KeptNumbers, Unsent
<1>2. BufferInv /\ Shown /\ Shown' /\ [Next]_vars => [Queue!Next]_(Queue!qvars)
  BY QueueStep
<1> QED BY <1>1, <1>2, BufferInvariant, ShownAlways, PTL
        DEF Spec, BehavesAsQueue, Queue!Spec
=============================================================================
