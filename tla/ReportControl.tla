---------------------------- MODULE ReportControl ----------------------------
(***************************************************************************)
(* One report control block of the server (reporting.c): the writes of     *)
(* clients to its attributes, the updates of the data set's values by the  *)
(* application and by clients, the event worker, and the end of a client's *)
(* connection.                                                             *)
(*                                                                         *)
(* Most of it runs under the mutex createNotificationsMutex; two parts do  *)
(* not: an update checks whether the control block wants it before the     *)
(* mutex is taken (MmsMapping_triggerReportObservers), and the end of a    *)
(* connection resets the control block without it                          *)
(* (Reporting_deactivateReportsForConnection).                             *)
(*                                                                         *)
(* The mutex is held while reports are sent.  A report is sent in two      *)
(* steps: the connection is read from the control block, then its lock     *)
(* conMutex is waited for; in between the connection may end.  A client's  *)
(* own thread holds conMutex while it handles a request.                   *)
(*                                                                         *)
(* Left out: the memory of the report buffer (module ReportBuffer), the    *)
(* option fields, the name and the owner attribute.  Whether BufTm or      *)
(* IntgPd has elapsed is not known in advance: it is an input of a step.   *)
(* Of memory that is freed only the data set and the connection are        *)
(* modelled; a use of it may end the server (fault) or go well.            *)
(***************************************************************************)
EXTENDS Integers, Sequences
LOCAL INSTANCE Functions

CONSTANTS Clients, NoClient,
          Elements,         \* entries of the data set
          KnownDataSets,    \* names of data sets that can be resolved
          DynamicDataSets,  \* those that clients define and delete
          InitialDataSet,   \* DatSet of the configuration
          TriggerOptions,   \* values of TrgOps that clients write
          SqNumModulus,     \* 2^16
          MaxUpdates,       \* bound on the number of updates
          MaxStored,        \* number of reports the report buffer can hold
          Disconnects       \* closing end in this instance

NoDataSet == "no data set"      \* also a name that cannot be resolved
Freed == "freed"                \* dataSet points to memory that is free
NoValue == -1
NoRequest == [client |-> NoClient, kind |-> "none"]
NoReceiver == [client |-> NoClient, open |-> FALSE]
Updaters == {"application", "connection"}

ASSUME ReportAssumption ==
    /\ Disconnects \in BOOLEAN
    /\ NoClient \notin Clients
    /\ {NoDataSet, Freed} \cap KnownDataSets = {}
    /\ DynamicDataSets \subseteq KnownDataSets
    /\ InitialDataSet \in (KnownDataSets \ DynamicDataSets) \cup {NoDataSet}
    /\ NoValue \notin Elements
    /\ TriggerOptions \subseteq SUBSET {"data-change", "integrity", "gi"}
    /\ SqNumModulus \in Nat \ {0} /\ MaxUpdates \in Nat /\ MaxStored \in Nat

VARIABLES
    buffered,           \* the control block is a buffered one
    datSet,             \* the attribute DatSet
    dataSet,            \* the data set in use
    triggerOps,         \* the attribute TrgOps
    enabled, reserved, clientConnection, isBuffering, gi,
    triggered,          \* values are waiting for BufTm to elapse
    waiting,            \* values of bufferedDataSetValues that inclusionFlags
                        \* marks to be reported
    flagsFreed,         \* inclusionFlags is NULL
    sqNum, sqNumValue,  \* the counter and the attribute SqNum
    stored,             \* reports of the report buffer that are not yet sent
    holder,             \* thread that holds createNotificationsMutex
    outgoing,           \* reports that the holder is about to send
    receiver,           \* connection that the holder is sending to
    value,              \* the data set's values in the data model
    updating,           \* elements whose updates are being reported
    serving,            \* client whose request is handled, by its own thread
                        \* that holds the model mutex and conMutex
    closing,            \* owners in Reporting_deactivateReportsForConnection
    fault,              \* a use of NULL or of freed memory ended the server
    changed,            \* values that were to be reported
    settled             \* those of them that were reported or thrown away

config == <<buffered, datSet, dataSet, triggerOps, isBuffering>>
owner == <<enabled, reserved, clientConnection>>
events == <<triggered, waiting, flagsFreed>>
sending == <<sqNum, sqNumValue>>
history == <<changed, settled>>
updates == <<value, updating>>
rcbVars == <<config, owner, gi, events, sending, stored, holder, outgoing, receiver,
             updates, serving, closing, fault, history>>

None == [e \in Elements |-> NoValue]
Empty == [e \in Elements |-> <<>>]
Values == Nat
Kinds == {"event", "integrity", "gi"}

\* A report: why it is made and for whom.  The values of an event report are
\* those of the history.
Report == [kind : Kinds, for : Clients \cup {NoClient}]

RcbTypeOK ==
    /\ buffered \in BOOLEAN
    /\ datSet \in KnownDataSets \cup {NoDataSet}
    /\ dataSet \in KnownDataSets \cup {NoDataSet, Freed}
    /\ triggerOps \subseteq {"data-change", "integrity", "gi"}
    /\ enabled \in BOOLEAN /\ reserved \in BOOLEAN
    /\ clientConnection \in Clients \cup {NoClient}
    /\ isBuffering \in BOOLEAN /\ gi \in BOOLEAN /\ triggered \in BOOLEAN
    /\ waiting \in [Elements -> Values \cup {NoValue}] /\ flagsFreed \in BOOLEAN
    /\ sqNum \in 0 .. SqNumModulus - 1 /\ sqNumValue \in 0 .. SqNumModulus - 1
    /\ stored \in Seq(Report) /\ outgoing \in Seq(Report)
    /\ holder \in {"none", "worker"} \cup Updaters
    /\ receiver \in [client : Clients \cup {NoClient}, open : BOOLEAN]
    /\ value \in [Elements -> Values]
    /\ updating \in [Updaters -> Elements \cup {NoValue}]
    /\ serving \in [client : Clients \cup {NoClient},
                   kind : {"none", "write", "other"}]
    /\ closing \subseteq Clients
    /\ fault \in BOOLEAN
-----------------------------------------------------------------------------
\* ReportControl_create, the creation of the control block from its
\* configuration, and Reporting_activateBufferedReports.
RcbInit ==
    /\ buffered \in BOOLEAN
    /\ datSet = InitialDataSet
    /\ dataSet = IF buffered /\ datSet \in KnownDataSets THEN datSet ELSE NoDataSet
    /\ isBuffering = (buffered /\ datSet \in KnownDataSets)
    /\ triggerOps \in TriggerOptions
    /\ enabled = FALSE /\ reserved = FALSE /\ clientConnection = NoClient
    /\ gi = FALSE /\ triggered = FALSE
    /\ waiting = None /\ flagsFreed = ~isBuffering
    /\ sqNum = 0 /\ sqNumValue = 0
    /\ stored = <<>> /\ holder = "none" /\ outgoing = <<>> /\ receiver = NoReceiver
    /\ value = [e \in Elements |-> 0]
    /\ updating = [u \in Updaters |-> NoValue]
    /\ serving = NoRequest
    /\ closing = {}
    /\ fault = FALSE
    /\ changed = Empty /\ settled = Empty
-----------------------------------------------------------------------------
(***************************************************************************)
(* Requests (handleTcpConnection): one at a time, by the model mutex.      *)
(***************************************************************************)
\* A request to write an attribute of the control block, or another one.
BeginRequest(c, kind) ==
    /\ serving = NoRequest /\ c \notin closing /\ ~fault
    /\ serving' = [client |-> c, kind |-> kind]
    /\ UNCHANGED <<config, owner, gi, events, sending, stored, holder, outgoing,
                   receiver, updates, closing, fault, history>>

EndRequest ==
    /\ serving.kind = "other" /\ updating["connection"] = NoValue /\ ~fault
    /\ serving' = NoRequest
    /\ UNCHANGED <<config, owner, gi, events, sending, stored, holder, outgoing,
                   receiver, updates, closing, fault, history>>
-----------------------------------------------------------------------------
(***************************************************************************)
(* Writes to the attributes (Reporting_RCBWriteAccessHandler).             *)
(***************************************************************************)
CanWrite(c) ==
    holder = "none" /\ serving = [client |-> c, kind |-> "write"] /\ ~fault

\* Attributes other than RptEna and GI: not while enabled, nor when another
\* client has reserved the control block.
Configurable(c) ==
    CanWrite(c) /\ ~enabled /\ ~(reserved /\ clientConnection # c)

\* A write that is refused without an effect, or of an attribute left out
OtherWrite(c) ==
    /\ CanWrite(c)
    /\ serving' = NoRequest
    /\ UNCHANGED <<config, owner, gi, events, sending, stored, holder, outgoing,
                   receiver, updates, closing, fault, history>>

\* The values that wait to be reported are thrown away.
Discard ==
    settled' = [e \in Elements |->
                  IF waiting[e] # NoValue
                  THEN Append(settled[e], waiting[e])
                  ELSE settled[e]]

\* updateReportDataset: a fresh set of flags and values for the data set.  A
\* dynamic data set is freed first, and its size read afterwards.
UpdateReportDataset(d) ==
    /\ d \in KnownDataSets
    /\ dataSet' = d
    /\ waiting' = None /\ flagsFreed' = FALSE
    /\ Discard
    /\ fault' \in CASE dataSet = Freed -> {TRUE}
                    [] dataSet \in DynamicDataSets -> BOOLEAN
                    [] OTHER -> {FALSE}

\* updateReportDataset for RptEna := TRUE (d = datSet) or for DatSet, when the
\* data set cannot be found or is a dynamic one that has been deleted: the
\* write is refused, but the dynamic data set in use has been freed.
LookupFails(c, d) ==
    /\ CanWrite(c) /\ ~enabled
    /\ d = datSet \/ Configurable(c)
    /\ d \notin KnownDataSets \ DynamicDataSets
    /\ dataSet' = IF dataSet \in DynamicDataSets THEN Freed ELSE dataSet
    /\ fault' = (dataSet = Freed)
    /\ serving' = NoRequest
    /\ UNCHANGED <<buffered, datSet, triggerOps, isBuffering, owner, gi, events,
                   sending, stored, holder, outgoing, receiver, updates, closing,
                   history>>

PurgeIfBuffered == stored' = IF buffered THEN <<>> ELSE stored

\* (mutated: the control block can be enabled while reports are being sent)
EnableUnlocked(c) ==
    /\ serving = [client |-> c, kind |-> "write"] /\ ~fault /\ ~enabled
    /\ UpdateReportDataset(datSet)
    /\ enabled' = TRUE /\ clientConnection' = c
    /\ gi' = FALSE /\ sqNum' = 0
    /\ serving' = NoRequest
    /\ UNCHANGED <<buffered, datSet, triggerOps, isBuffering, reserved, triggered,
                   sqNumValue, stored, holder, outgoing, receiver, updates,
                   closing, changed>>

\* RptEna := TRUE
Enable(c) ==
    /\ CanWrite(c) /\ ~enabled
    /\ UpdateReportDataset(datSet)
    /\ enabled' = TRUE /\ clientConnection' = c
    /\ gi' = FALSE /\ sqNum' = 0
    /\ serving' = NoRequest
    /\ UNCHANGED <<buffered, datSet, triggerOps, isBuffering, reserved, triggered,
                   sqNumValue, stored, holder, outgoing, receiver, updates,
                   closing, changed>>

\* RptEna := FALSE
Disable(c) ==
    /\ CanWrite(c)
    /\ ~((enabled \/ reserved) /\ clientConnection # c)
    /\ IF buffered THEN UNCHANGED <<waiting, flagsFreed, reserved, settled>>
       ELSE waiting' = None /\ flagsFreed' = TRUE /\ reserved' = FALSE /\ Discard
    /\ enabled' = FALSE /\ clientConnection' = NoClient
    /\ serving' = NoRequest
    /\ UNCHANGED <<config, gi, triggered, sending, stored, holder, outgoing,
                   receiver, updates, closing, fault, changed>>

\* GI := TRUE
WriteGI(c) ==
    /\ CanWrite(c) /\ enabled /\ clientConnection = c
    /\ gi' = TRUE
    /\ serving' = NoRequest
    /\ UNCHANGED <<config, owner, events, sending, stored, holder, outgoing, receiver,
                   updates, closing, fault, history>>

\* Resv, of an unbuffered control block only
WriteResv(c, resv) ==
    /\ Configurable(c) /\ ~buffered
    /\ reserved' = resv
    /\ clientConnection' = IF resv THEN c ELSE clientConnection
    /\ serving' = NoRequest
    /\ UNCHANGED <<config, enabled, gi, events, sending, stored, holder, outgoing,
                   receiver, updates, closing, fault, history>>

\* PurgeBuf, and IntgPd and BufTm of a buffered control block
Purge(c) ==
    /\ Configurable(c) /\ buffered
    /\ stored' = <<>>
    /\ serving' = NoRequest
    /\ UNCHANGED <<config, owner, gi, events, sending, holder, outgoing, receiver,
                   updates, closing, fault, history>>

WriteDatSet(c, d) ==
    /\ Configurable(c) /\ d # datSet
    /\ UpdateReportDataset(d)
    /\ PurgeIfBuffered
    /\ datSet' = d
    /\ serving' = NoRequest
    /\ UNCHANGED <<buffered, triggerOps, isBuffering, owner, gi, triggered, sending,
                   holder, outgoing, receiver, updates, closing, changed>>

WriteTrgOps(c, options) ==
    /\ Configurable(c) /\ options # triggerOps
    /\ triggerOps' = options
    /\ PurgeIfBuffered
    /\ serving' = NoRequest
    /\ UNCHANGED <<buffered, datSet, dataSet, isBuffering, owner, gi, events, sending,
                   holder, outgoing, receiver, updates, closing, fault, history>>
-----------------------------------------------------------------------------
(***************************************************************************)
(* Making and sending reports (processEventsForReport).                    *)
(***************************************************************************)
ReportOf(kind) ==
    [kind |-> kind, for |-> IF buffered THEN NoClient ELSE clientConnection]

\* The event report, if it is time for it, and the full reports.
MadeIf(eventNow, giNow, intgNow) ==
    IF ~(enabled \/ isBuffering) THEN <<>>
    ELSE (IF eventNow THEN <<ReportOf("event")>> ELSE <<>>)
           \o (IF giNow THEN <<ReportOf("gi")>> ELSE <<>>)
           \o (IF intgNow THEN <<ReportOf("integrity")>> ELSE <<>>)

\* (mutated: the values that wait are not reported before a full report)
MadeFullFirst(bufTmElapsed, intgPdElapsed) ==
    LET giNow == gi /\ "gi" \in triggerOps
        intgNow == intgPdElapsed /\ "integrity" \in triggerOps
    IN  MadeIf(triggered /\ bufTmElapsed /\ ~giNow /\ ~intgNow, giNow, intgNow)

\* (mutated: values wait for a full report, whether or not BufTm has elapsed)
MadeNotDue(bufTmElapsed, intgPdElapsed) ==
    LET giNow == gi /\ "gi" \in triggerOps
        intgNow == intgPdElapsed /\ "integrity" \in triggerOps
    IN  MadeIf(triggered /\ (giNow \/ intgNow), giNow, intgNow)

\* The reports made at one time.  Values that wait for BufTm are reported
\* before a general interrogation or an integrity report.
Made(bufTmElapsed, intgPdElapsed) ==
    LET giNow == gi /\ "gi" \in triggerOps
        intgNow == intgPdElapsed /\ "integrity" \in triggerOps
    IN  MadeIf(triggered /\ (giNow \/ intgNow \/ bufTmElapsed), giNow, intgNow)

GiAfter == gi /\ ~((enabled \/ isBuffering) /\ "gi" \in triggerOps)

\* The report buffer keeps the youngest reports (module ReportQueue).
Kept(reports) ==
    IF Len(reports) <= MaxStored THEN reports
    ELSE SubSeq(reports, 1 + Len(reports) - MaxStored, Len(reports))

\* processEventsForReport, up to the point where reports are sent.
Process(bufTmElapsed, intgPdElapsed) ==
    LET made == Made(bufTmElapsed, intgPdElapsed)
        ready == Kept(stored \o made)
    IN  /\ triggered' = (triggered /\ made = <<>>)
        /\ gi' = GiAfter
        /\ waiting' = IF made = <<>> THEN waiting ELSE None
        /\ IF ~buffered THEN outgoing' = made /\ UNCHANGED stored
           ELSE IF enabled /\ ready # <<>>
                THEN /\ outgoing' = <<[ready[1] EXCEPT !.for = clientConnection]>>
                     /\ stored' = Tail(ready)
                ELSE outgoing' = <<>> /\ stored' = ready
        /\ settled' = [e \in Elements |->
               IF made # <<>> /\ made[1].kind = "event" /\ waiting[e] # NoValue
               THEN Append(settled[e], waiting[e])
               ELSE settled[e]]
        /\ fault' \in IF made # <<>> /\ dataSet = Freed THEN BOOLEAN ELSE {FALSE}
        /\ UNCHANGED <<flagsFreed, changed>>

\* The event worker visits the control block (Reporting_processReportEvents).
WorkerProcess(bufTmElapsed, intgPdElapsed) ==
    /\ holder = "none" /\ ~fault
    /\ Process(bufTmElapsed, intgPdElapsed)
    /\ holder' = IF outgoing' = <<>> THEN "none" ELSE "worker"
    /\ UNCHANGED <<config, owner, sending, receiver, updates, serving, closing>>

\* entry->flags of a buffered report and the reason code made from it.
Flags(kind) == CASE kind = "integrity" -> 1 [] kind = "gi" -> 2 [] OTHER -> 0
ReasonOfFlags(flags) == CASE flags = 1 -> "gi" [] flags = 2 -> "integrity"
                          [] OTHER -> "event"
Reason(kind) == IF buffered THEN ReasonOfFlags(Flags(kind)) ELSE kind

NextSqNum == (sqNum + 1) % SqNumModulus

\* The thread that holds the mutex goes on to the next report, or, when all
\* are sent, the worker releases it.
NextReport ==
    /\ outgoing' = Tail(outgoing)
    /\ receiver' = NoReceiver
    /\ holder' = IF outgoing' = <<>> /\ holder = "worker" THEN "none" ELSE holder

\* sendReport and sendNextReportEntry: the connection is read.
SendBegin ==
    /\ outgoing # <<>> /\ receiver = NoReceiver /\ ~fault
    /\ IF clientConnection = NoClient
       THEN fault' = TRUE /\ UNCHANGED receiver
       ELSE receiver' = [client |-> clientConnection, open |-> TRUE] /\ UNCHANGED fault
    /\ UNCHANGED <<config, owner, gi, events, sending, stored, holder, outgoing,
                   updates, serving, closing, history>>

\* A buffered control block found no longer enabled leaves the report stored.
SendNothing ==
    /\ outgoing # <<>> /\ receiver = NoReceiver /\ buffered /\ ~enabled /\ ~fault
    /\ stored' = <<[outgoing[1] EXCEPT !.for = NoClient]>> \o stored
    /\ NextReport
    /\ UNCHANGED <<config, owner, gi, events, sending, updates, serving, closing,
                   fault, history>>

\* A report is sent, with the attribute SqNum, and SqNum is increased.
Sent == sqNum' = NextSqNum /\ sqNumValue' = sqNum' /\ NextReport

\* IsoConnection_sendMessage gets conMutex: the client's own thread handles no
\* request, and is not the one that sends.
Deliver ==
    /\ receiver.open /\ serving.client # receiver.client /\ ~fault
    /\ Sent
    /\ UNCHANGED <<config, owner, gi, events, stored, updates, serving, closing,
                   fault, history>>

\* The connection has been freed since it was read: its memory is unmapped or
\* in other use, still as it was (the report is lost), or that of another
\* connection, whose client gets the report.
DeliverLate ==
    /\ receiver # NoReceiver /\ ~receiver.open /\ ~fault
    /\ Sent
    /\ fault' \in BOOLEAN
    /\ UNCHANGED <<config, owner, gi, events, stored, updates, serving, closing,
                   history>>
-----------------------------------------------------------------------------
(***************************************************************************)
(* Updates of values (IedServer_updateAttributeValue of ied_server.c and   *)
(* ReportControl_valueUpdated), by a thread of the application or by the   *)
(* thread of a client that writes to a member of the data set.             *)
(***************************************************************************)

\* The value is stored and the control block looked at, without the mutex.
UpdateAttributeValue(u, e) ==
    /\ updating[u] = NoValue /\ FoldFunction(+, 0, value) < MaxUpdates /\ ~fault
    /\ value' = [value EXCEPT ![e] = @ + 1]
    /\ LET looked == /\ enabled \/ (buffered /\ dataSet # NoDataSet)
                     /\ "data-change" \in triggerOps
       IN  \/ looked /\ updating' = [updating EXCEPT ![u] = e] /\ UNCHANGED fault
           \/ ~looked /\ UNCHANGED <<updating, fault>>
           \/ looked /\ dataSet = Freed /\ UNCHANGED updating /\ fault' \in BOOLEAN
    /\ UNCHANGED <<config, owner, gi, events, sending, stored, holder, outgoing,
                   receiver, closing, history>>

ApplicationUpdates(e) ==
    UpdateAttributeValue("application", e) /\ UNCHANGED serving

ClientUpdates(e) ==
    serving.kind = "other" /\ UpdateAttributeValue("connection", e) /\ UNCHANGED serving

\* (mutated: a value that waits to be reported is replaced at once)
ValueUpdatedBeginAtOnce(u, intgPdElapsed) ==
    /\ updating[u] # NoValue /\ holder = "none" /\ ~fault
    /\ IF flagsFreed
       THEN fault' = TRUE /\ UNCHANGED holder
       ELSE holder' = u /\ UNCHANGED fault
    /\ UNCHANGED <<config, owner, gi, events, outgoing, stored, history, sending,
                   receiver, updates, serving, closing>>

\* The mutex is taken; if the element is already to be reported, the reports
\* are made now: the new value must not replace one that was not yet reported.
ValueUpdatedBegin(u, intgPdElapsed) ==
    /\ updating[u] # NoValue /\ holder = "none" /\ ~fault
    /\ IF flagsFreed
       THEN fault' = TRUE /\ UNCHANGED <<holder, gi, events, outgoing, stored, history>>
       ELSE /\ holder' = u
            /\ IF waiting[updating[u]] # NoValue
               THEN Process(TRUE, intgPdElapsed)
               ELSE UNCHANGED <<gi, events, outgoing, stored, history, fault>>
    /\ UNCHANGED <<config, owner, sending, receiver, updates, serving, closing>>

\* The value is noted for the next report and the mutex released.  One that
\* still waits in a control block nobody is to get reports of is replaced.
ValueUpdatedEnd(u) ==
    /\ holder = u /\ outgoing = <<>> /\ ~fault
    /\ LET e == updating[u] IN
         /\ settled' = IF waiting[e] # NoValue /\ ~(enabled \/ isBuffering)
                       THEN [settled EXCEPT ![e] = Append(@, waiting[e])]
                       ELSE settled
         /\ waiting' = [waiting EXCEPT ![e] = value[e]]
         /\ changed' = [changed EXCEPT ![e] = Append(@, value[e])]
    /\ triggered' = TRUE
    /\ updating' = [updating EXCEPT ![u] = NoValue] /\ holder' = "none"
    /\ UNCHANGED <<config, owner, gi, flagsFreed, sending, stored, outgoing, receiver,
                   value, serving, closing, fault>>
-----------------------------------------------------------------------------
(***************************************************************************)
(* Reporting_deactivateReportsForConnection, by the connection's own       *)
(* thread; the mutex is not taken.                                         *)
(***************************************************************************)
\* The control block is found to belong to the client.
Deactivate(c) ==
    /\ Disconnects /\ c \notin closing /\ serving.client # c /\ ~fault
    /\ clientConnection = c
    /\ enabled' = FALSE /\ clientConnection' = NoClient
    /\ closing' = closing \cup {c}
    /\ UNCHANGED <<config, reserved, gi, events, sending, stored, holder, outgoing,
                   receiver, updates, serving, fault, history>>

\* The rest of it for a client that owned the control block, and the end of
\* the connection, whose memory is freed.  The client is then one that has yet
\* to connect, or has connected anew: one that makes no request.
Disconnect(c) ==
    /\ Disconnects /\ serving.client # c /\ ~fault
    /\ c \in closing \/ clientConnection # c
    /\ IF c \in closing
       THEN clientConnection' = NoClient /\ reserved' = (buffered /\ reserved)
       ELSE UNCHANGED <<clientConnection, reserved>>
    /\ closing' = closing \ {c}
    /\ receiver' = IF receiver.client = c THEN [receiver EXCEPT !.open = FALSE]
                   ELSE receiver
    /\ UNCHANGED <<config, enabled, gi, events, sending, stored, holder, outgoing,
                   updates, serving, fault, history>>

\* A server that has used a NULL pointer does nothing any more.
Crashed == fault /\ UNCHANGED rcbVars

WriteStep(c) ==
    \/ Enable(c) \/ Disable(c) \/ WriteGI(c) \/ Purge(c) \/ OtherWrite(c)
    \/ \E resv \in BOOLEAN : WriteResv(c, resv)
    \/ \E d \in KnownDataSets : WriteDatSet(c, d)
    \/ \E d \in KnownDataSets \cup {NoDataSet} : LookupFails(c, d)
    \/ \E options \in TriggerOptions : WriteTrgOps(c, options)

ClientStep(c) ==
    \/ \E kind \in {"write", "other"} : BeginRequest(c, kind)
    \/ WriteStep(c) \/ Deactivate(c) \/ Disconnect(c)

WorkerStep == \E due, intgDue \in BOOLEAN : WorkerProcess(due, intgDue)
SendingStep == SendBegin \/ SendNothing \/ Deliver \/ DeliverLate
UpdateStep == \/ \E e \in Elements : ApplicationUpdates(e) \/ ClientUpdates(e)
              \/ \E u \in Updaters : \/ \E intgDue \in BOOLEAN : ValueUpdatedBegin(u, intgDue)
                                     \/ ValueUpdatedEnd(u)

RcbNext == \/ \E c \in Clients : ClientStep(c)
           \/ EndRequest \/ WorkerStep \/ SendingStep \/ UpdateStep \/ Crashed

RcbSpec == RcbInit /\ [][RcbNext]_rcbVars

\* The worker thread runs for ever and visits every control block in each
\* round; BufTm elapses, and has then elapsed in every later round; a thread
\* that is not blocked goes on; the mutex and conMutex are got by a thread that
\* waits while they become free again and again.
FairSpec == /\ RcbSpec
            /\ SF_rcbVars(WorkerProcess(TRUE, FALSE))
            /\ WF_rcbVars(EndRequest)
            /\ WF_rcbVars(\E u \in Updaters : ValueUpdatedEnd(u))
            /\ SF_rcbVars(SendingStep)
-----------------------------------------------------------------------------
(***************************************************************************)
(* Properties.                                                             *)
(***************************************************************************)

\* Every change of a value that ReportControl_valueUpdated was called for is put
\* into a report, or waits for the next one, or was thrown away, in the order of
\* the changes: BufTm bundles changes of different elements and never swallows
\* one of two changes while the control block is enabled or buffering.  Values
\* are thrown away by a client that enables the control block or gives it a
\* data set (of an unbuffered one: disables it), and by a later change while it
\* is neither enabled nor buffering.
ChangesReported ==
    \A e \in Elements :
        changed[e] = IF waiting[e] = NoValue THEN settled[e]
                     ELSE Append(settled[e], waiting[e])

\* A report is sent to the client for which it was made, although clients
\* disconnect, disable and enable the control block meanwhile; unless its
\* connection is freed after it was read and before conMutex was got.
DeliveredToOwner == receiver.open => receiver.client = outgoing[1].for

\* The thread that sends waits for conMutex of a client whose own thread waits
\* for the mutex of the control block, or is the thread that sends (the same
\* as ReportDeadlock of ServerLocks).
ReportDeadlock ==
    /\ receiver.open /\ serving.client = receiver.client
    /\ \/ holder = "connection"
       \/ serving.kind = "write"
       \/ updating["connection"] # NoValue

\* A general interrogation that an enabled client asked for is answered,
\* values that wait for BufTm are reported, and a report that is being sent is
\* done with, unless the threads of the server lock each other out.
PendingReported ==
    /\ (gi /\ enabled /\ "gi" \in triggerOps)
         ~> (~gi \/ ~enabled \/ fault \/ ReportDeadlock)
    /\ (triggered /\ (enabled \/ isBuffering))
         ~> (~triggered \/ ~(enabled \/ isBuffering) \/ fault \/ ReportDeadlock)
    /\ outgoing # <<>> ~> (outgoing = <<>> \/ fault \/ ReportDeadlock)

-----------------------------------------------------------------------------
(***************************************************************************)
(* What comments of the code say and the code does not keep (README,       *)
(* section 6).                                                             *)
(***************************************************************************)

\* The reason code of a report says why it was made (flags of the entry,
\* "bit 0 (1 = isIntegrityReport), bit 1 (1 = isGiReport)" in reporting.h).
ReasonAsMade == outgoing # <<>> => Reason(outgoing[1].kind) = outgoing[1].kind

\* "Increase sequence number": a report bears the number of the reports sent
\* since the control block was enabled.
SequenceIncreases == receiver.open => sqNumValue = sqNum

\* "true if buffered RCB is buffering (datSet is set to a valid value)"
BufferingIfDataSet == buffered /\ datSet \in KnownDataSets => isBuffering
=============================================================================
