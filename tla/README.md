# TLA+ model of libiec61850 (libiec_iccp_mod)

libiec61850 is a C library for IEC 61850 servers and clients: MMS over TCP/IP
(RFC 1006, COTP, session, presentation and ACSE layers), the mapping of the
IEC 61850 data model and services (controls, reports, GOOSE) to MMS, and a GOOSE
publisher and subscriber on raw Ethernet. This directory holds TLA+ modules that
model the library: its threads, locks, queues and tables, its protocol layers from
TCP to the IEC 61850 services, its encoders and the values they carry. TLC
configurations check them on small instances, and TLAPS checks proofs for instances
of every size.

`PROJECT.json` lists the components, the runs, the source lines of every
definition, the mutants, the hazards and the theorems. Source paths
below are relative to the library's directory `src/` of the repository.

Contents: 1 inventory, 2 plan, 3 modules and runs, 4 fairness, 5 proofs,
6 where code and documentation differ, 7 what is not modelled.

## 1. Inventory

### Server

| Part | State | Operations | Interaction | What is hard | What makes it correct |
|---|---|---|---|---|---|
| Control model, `iedserver/mms_mapping/control.c` | per object: state machine, selecting connection, value, number and origin of the command, pending time activated command | select, select with value, operate, cancel, the operate thread, `Control_processControlActions` | write handler of the MMS server; application's check, wait and control handlers; command terminations over MMS | the fields have no lock except `state`; one thread per operation; connections vanish and their addresses are reused | operations on an object exclude each other and get their own values; each request is answered once; no object stays in the middle of an operation |
| Client connections, `iedserver/impl/client_connection.c`, `ied_server.c` | list, task count per connection | add, find, remove, increase and decrease the count | connection threads, operate threads | a connection is destroyed while an operate thread still refers to it | the count is exact; closing waits for all counted threads |
| Reporting, `iedserver/mms_mapping/reporting.c` | report control block, inclusion flags, report buffer in one block of memory | write an attribute, value changed, integrity, GI, send, purge, resynchronise, connection ended | event worker, application's updates, connection threads | part of the work is done outside the mutex; the buffer overwrites itself; pointers into it | a change is reported or waits as long as the block is not reset; a report goes to the client it was made for; the list in memory is a queue |
| GOOSE, `iedserver/mms_mapping/mms_goose.c`, `goose/goose_publisher.c` | GoEna, publisher, stNum, sqNum, next time, retransmissions left | enable, disable, write attributes, event, retransmit | application's updates, event worker, clients | GoEna is read outside the mutex; time to live chosen ahead | messages are numbered in order, do not expire while they fit the buffer, and show the last value |
| ISO server, `mms/iso_server`; MMS server, `mms/iso_mms/server/mms_server.c` | server state, listening socket, connection slots and counter, table of connections | start, accept, connection thread, close, stop | one thread each; the application starts and stops | almost all shared fields are unlocked flags polled by other threads | counter and slots match the threads; a stop ends everything and returns |
| Locks: `modelMutex`, `conMutex`, report mutex | holders | lock, unlock along every code path | all threads of the server | the paths nest the locks in different orders | a send buffer has one user; no deadlock |
| Variables, `ied_server.c`, `mms_mapping.c`, `mms/iso_mms/server/mms_read_service.c`, `mms_write_service.c` | values of the data attributes, access policies, handlers | update by the application, read, write, several in one request, data sets | connection threads, application; triggers reports and GOOSE | results of several items; a handler for a part of what is written; updates that are refused half way | who is told that a write succeeded reads what was written; subscribers know every change |
| Data sets and names, `mms_named_variable_list_service.c`, `mms_get_namelist_service.c` | lists of a domain and of an association | define, delete, attributes, names page by page | connection threads, one at a time | a list changes between two pages | a client's list has everything that was there all the time and nothing that never was |
| Files, `mms_file_service.c` | open files per connection, position | open, read, close, rename, delete, directory | connection threads | time-outs leave files open; names vanish between two requests | no handle is lost; a download is complete |
| IED data model, `iedserver/model`, and its mapping, `mms_mapping.c` | tree of nodes, MMS domains, value cache | the constructors of the common data classes; MMS names and types | built before the start, then read by all | one tree is turned inside out: constraint before object | every attribute has one name, its own type and its own value |

### Client

| Part | State | Operations | What is hard | What makes it correct |
|---|---|---|---|---|
| MMS client, `mms/iso_mms/client/mms_client_connection.c`, `mms/iso_client` | outstanding calls, one response slot, one receive buffer, association and conclude state | connect, all confirmed services, receive thread and callback, conclude, abort, destroy | callers poll shared fields; time-outs race answers; a semaphore counts messages | each call gets its own answer; no answer is lost; destroy returns |
| IED client, `iedclient/impl` | device model, control objects, report handlers | load the model, directories, data sets, files, reads and writes, control sequences, reports | many requests per call, each of which may fail | what it keeps is what the server has; every call returns |
| GOOSE subscriber, `goose/goose_subscriber.c` | last message, state numbers, values | subscribe, receive, parse, unsubscribe | frames are lost, repeated and of others; values are parsed into memory of the application | what a listener reads is of one message; an event arrives |

### Common

| Part | What it does | What is hard | What makes it correct |
|---|---|---|---|
| COTP, `mms/iso_cotp` | negotiates a TPDU size, cuts messages up, puts them together | limits of two builds, buffers, a break in the middle of a message | messages arrive whole and in order |
| Session, presentation, ACSE, `mms/iso_session`, `iso_presentation`, `iso_acse` | open, authenticate, release and abort an association | lengths computed before the contents, in fields of one octet | both ends agree; only the password gets in |
| BER, `mms/asn1` | integers, lengths, strings, floats | widths and signs at their limits | what is written is read |
| `MmsValue`, `mms/iso_mms/common` | values: construct, set, get, compare, copy, update | sizes of buffers computed apart from the contents | a copy equals its original and fits its memory |

Containers (`common`), platform code (`hal`), the sampled values publisher and the
code generated by asn1c are not modelled (section 7).

Threads of a server: the application's, the accept loop, one per connection, the
event worker (reports, GOOSE, time activated controls), one detached thread per
operation of a control. Threads of a client: the application's and one receive
thread per connection.

## 2. Plan

Done, in the order of importance:

1. `ControlObject`; `ReportQueue` and `ReportBuffer`; `ReportControl`;
   `ServerConnections`; `ServerLocks`; `Goose`; `MmsClient`.
2. The layers below the services: `Ber`, `IsoPdus`, `Cotp` with the abstract
   `MessageStream`, composed in `Association`.
3. Values: `MmsValues`, `MmsData`, `MmsValueApi`, and as variables of the server
   `VariableAccess`.
4. `GooseSubscriber`, composed with `Goose` over a network that loses frames.
5. The services with several requests per call: `FileService`, and `Directory` on top
   of `DataModel` and `Cdc`.
6. Proofs (section 5): every safety property of the modules of 1 and of `FileService`,
   the two refinements, and what the ends of an association agree on, with the
   encoders and decoders of its layers.

Abstract specifications: `ReportQueue` for the report buffer, `MessageStream` for the
transport, the reference definitions in `Directory` (what the IED model calls for) and
in `MmsValueApi` (`wrote`, what was written last).

Next:

- the abstract part of `Directory`: that a list of names read page by page has what was
  there throughout. Its module reaches RECURSIVE operators through `DataModel`, so the
  list would have to become a module of its own, as `FileService` is for directories of
  files.

## 3. Modules and runs

In each module the variables are the fields of the C structures that matter to
several threads, plus a program counter for each thread; an action is what a
thread does between two points where another thread can see a difference. Time is
abstract unless said otherwise: a time-out may have elapsed whenever it is tested.
Definitions marked as mutants are not part of the specifications: they are
plausible mistakes that show that a property can fail.

`TypeOK` gives the types where a module has threads. The proofs establish it; the
runs spend their time on the rest. What the proofs need to know of the constants is an
`ASSUME` of the module, which TLC evaluates on every run.

### ControlObject (with MCControl)

Models `control.c` and the part of the connection management it depends on.
`Select*`, `Oper*`, `Cancel` are the branches of
`Control_writeAccessControlObject` and `Control_readAccessControlObject`, split
where the application's check handler may block; `ThreadStep` is
`controlOperateThread`, `WorkerStep` `Control_processControlActions`,
`ConnectionStep` `mmsConnectionHandler`. A handle is the address of a connection
and is reused after it has been freed.

- `control_commands`: two clients, one object with enhanced security, direct and
  time activated operate. `ExclusiveOperation`, `OperatedAsCommanded`,
  `AnsweredOnce`, and with fairness `RequestsAnswered`.
- `control_all`: one object with select before operate; clients operate, cancel and
  disconnect anywhere. `TasksCounted`, `OperatedBySelector`,
  `DrainWaitsForThreads`, and with fairness `NotStuck`. With cancel or disconnects
  the properties of `control_commands` do not hold: both take an object out of an
  operation that is still running.

`OperAccept`, `OperArm`, `OperOwner`, `OperWait` and `OperTest` are the assignments of a
time activated Oper one by one (`control.c:1262-1303`), since the worker takes no lock.
When it finds the command due and takes it before the handler has tested
`timeActivatedOperate` again, the handler goes on as with a direct command and starts a
second operation for the same request. `overtaken` has the objects to which that has
happened; `ExclusiveOperation`, `OperatedAsCommanded`, `AnsweredOnce` and
`RequestsAnswered` speak of the others, and `OneOperation` (section 6) is what they would be
without the exception.

`control_commands` has a `CONSTRAINT` that ends the exploration at a state with an overtaken
object: with its single object nothing is claimed behind such a state, which itself is
still checked. `RequestsAnswered` loses nothing by it, as it counts a request as settled
there, and the constraint does not cut a fair behaviour short before such a state.

Two connections and two operations are the smallest instance in which operations
overlap, addresses are reused and a command arrives in the middle of another. Each
command concerns one object. Objects meet in one place only,
`unselectControlsForConnection`, which stops at the first object that it unselects
(`mms_mapping.c:1398`): with one object that is not exercised, and `NotStuck` does not
speak of it. The proofs are for any number of objects (`SelectionsEnd`, section 5).

### ReportQueue, ReportBuffer

`ReportQueue` says what a report buffer promises: reports leave in order, a report
is evicted only from the old end and only for space. `ReportBuffer` is the memory
of a buffered report control block as `reporting.c` manages it, address by address:
`enqueueReport` with each of its loops, `sendNextReportEntry`, `purgeBuf`.
Run `report_buffer`: `ListIntact` (with the asserts of the code),
`EvictsOnlyIfNeeded`, and `BehavesAsQueue`, the refinement of `ReportQueue`. A block of
seven units and entries of 1, 2, 3, 5 and 8 reach every branch: wrap-around with and
without a gap, eviction of one and of several reports, and a report that never fits.
Seven reports go round the block more than twice.

### ReportControl (with MCReportControl)

One report control block, buffered or not. The requests of clients are handled one at a
time by the clients' own threads, which hold the connection lock `conMutex` meanwhile
(`BeginRequest`, `EndRequest`, `serving`). `Enable`, `Disable`, `Purge`, `Write*` are the
branches of `Reporting_RCBWriteAccessHandler`, `LookupFails` a write that is refused after
`updateReportDataset` has freed the dynamic data set in use (`dataSet = Freed`).
`UpdateAttributeValue` is the check outside the mutex, `ValueUpdatedBegin` and `-End` are
`ReportControl_valueUpdated`, `WorkerProcess` is `Reporting_processReportEvents`. Under the
mutex (`holder`) each report of `outgoing` is sent in two steps: `SendBegin` reads the
connection from the control block into `receiver`, `Deliver` goes on when `conMutex` is
free. `Deactivate` and `Disconnect` are the end of a connection, which takes no mutex: it
may come between the two, and then the report goes to memory that is freed
(`DeliverLate`), is unmapped, or belongs to another connection. `waiting` has the values
that inclusionFlags marks; `changed` and `settled` are history.

Run `report_control`:

- `ChangesReported`: what was to be reported was put into a report, waits, or was thrown
  away, in order. Values are thrown away where the code resets the inclusion flags or
  overwrites a value: by Enable (also of a buffered block), by a new data set, by disabling
  an unbuffered block, and by changes while the block neither is enabled nor buffers. At no
  other point may one be missing.
- `DeliveredToOwner`: a report goes to the client it was made for, as long as the connection
  that `SendBegin` read exists.
- with fairness `PendingReported`: a general interrogation is answered, values that wait
  for BufTm are reported, a report that is being sent is done with, unless the server is in
  `ReportDeadlock`: the sender waits for the `conMutex` of the owner, whose thread waits for
  the mutex of the block or is the sender. It is the deadlock that `ServerLocks` finds.

Two clients, two data set members, a static and a dynamic data set and two changes allow a
change during a report, a second change of the same member while the first is pending, a
change of owner or of data set, a data set freed while reports are made of it, and a
connection that ends in each step of a send; up to three reports are sent in a row, and the
report buffer keeps one. The sequence number has modulus 1 because none of these properties
looks at it. A NULL or freed pointer that is used sets `fault`, or goes well where the
memory may still be as it was; nothing is claimed after a `fault`.

### ServerConnections (with MCServerConnections)

The accept loop, the connection threads, the slots and the counter of the ISO
server, the tables above them, the event worker's life, and start and stop by the
application. Each access to an unlocked shared field is a step of its own. Where
the code would use a NULL or freed pointer, `fault` is set and the model goes no
further: nothing is claimed after it.

Run `connections`: two clients that send, finish and vanish, one or two slots, one
start: `SlotHeld`, `StopComplete`, and with fairness `LostIsReaped` and
`StopWaitsForClientsOnly`: a stop returns or waits for a client that is still
connected and that it did not close. With one slot the second client is refused while
the slot is being freed; with two, both threads are alive during a stop. The restart of
a stopped server (`MaxStarts = 2`) is part of the model and not of a run: section 6
says what it shows.

### ServerLocks (with MCServerLocks)

The code paths of all server threads as sequences of operations on locks, send
buffers and callbacks. Run `locks`: `SendBufferExclusive` and `NoOtherDeadlock`, which
names the one deadlock there is (section 6) and excludes every other. A thread in a
cycle of waiting threads is in the middle of one path; three paths at a time are more
than the longest chain through three locks needs.

### Goose, GooseSubscriber (with MCGoose)

A GOOSE control block and its publisher with explicit time: `Enable`, `Disable` and
`DestroyPublisher` (the two halves of `MmsGooseControlBlock_disable`),
`WriteAttribute`/`UpdateAttribute`, `ChangeValue`/`TestEnabled`/
`ObservedObjectChanged`, `WorkerTests`/`CheckAndPublish`. `GooseSubscriber` adds a
subscriber (`goose_subscriber.c`) and the Ethernet segment between them; a message is
the octets that `goose_publisher.c` writes (module `MmsData`), and the subscriber
parses them into values of the application or into values it allocates.

Run `goose`: `NeverExpires` for the publisher, `OneMessage` and `EventArrives` for the
two together. The event interval is 1 and the stable interval 4; nine units of time
hold an event, its retransmissions, a stable period and a second enabling. The
worker may be late by two event intervals, the most that a time to live of three
event intervals tolerates. `FitsBuffer` says which messages fit
`GOOSE_MAX_MESSAGE_SIZE`; one that does not takes a sqNum and is not sent (`skipped`). In
the run (`MCFitsBuffer`) the values of the first change fit only with the shorter of the
two times to live, so that an event is sent and a later retransmission of it is not.
`NeverExpires` claims nothing while messages are skipped. Once there is a subscriber
(`LinkBound`), time is at most 1, there are at most two changes and one enabling, some of
which may come first, and the attributes of the block are not written; two frames are under way, and there is one disturbance (a lost, a repeated or a
foreign frame). `EventArrives` presupposes that more copies of an event are sent than
frames are lost or skipped. With two changes, the second may be stored before the first is
published. The data set has a boolean, an integer and a structure. A
NULL publisher sets `fault` and ends the behaviour. Blocks are enabled by clients;
`IedServer_enableGoosePublishing`, which applications call before the server runs, is
left out.

### MmsClient (with MCMmsClient)

A client connection with several calling threads and its receive thread. All
confirmed services have the same shape and are one request: `SendRequest`, the
three ends of the poll loop, `Evaluate`, `Finish`. The receive thread is
`WaitForBuffer`, `Read*` and the branches of `mmsIsoCallback`. The server is
external: it answers in any order with a response, an error or a reject, sends
reports, closes. A call whose answer has arrived times out only when the client is
stuck; besides, `MaxLate` time-outs happen at any moment.

Run `client`: `ResultIsOwn`, `NoAnswerLost`, and with fairness `CallsReturn`. Where the
behaviour is not `Regular` (an answer came late, a reject came, the server refused to
conclude) only the exactness of the table of outstanding calls is claimed; section 6
says why. Two callers and three calls let a call begin while another one's answer is
announced, and let a caller reuse what an earlier call left. The server does not close
before connect has returned, and the table has a slot for each caller, as
`OUTSTANDING_CALLS` is 10.

### Cotp, MessageStream, IsoPdus, Association (with MCAssociation)

`Cotp` is `cotp.c`: negotiation of the TPDU size, segmentation, reassembly.
`MessageStream` says what a transport promises. `IsoPdus` holds what the create
functions of session, presentation and ACSE write and what the parse functions of the
other end make of it, octet by octet, with the lengths as the code computes them; the
loops of the parsers are recursive functions of the octets that are left.
`Association` composes them over the life of a connection: `ClientStep` is
`iso_client_connection.c` and `mms_client_initiate.c`, `ServerStep`
`iso_connection.c` and `mms_association_service.c`, `ReadMore` the arrival of a TPDU;
connections break anywhere.

Run `association`: `EndsAgree` (with `TransportAgreed` for the transport), `Authenticated`, `MessagesArriveInOrder` (the refinement
of `MessageStream`), and with fairness `AssociationConcludes`. The TPDU limits lie on both
sides of each other (`SizesAssumption`: sizes are those that an exponent of the COTP
options can name and that leave room for data); messages of 20 and 250 octets take one TPDU or several; the
passwords are absent, right, wrong, and so long that a length needs a second octet in
BER (140) or no longer fits its octet in the session header (250). Two attempts show
what the first one leaves behind. `MessagesAssumption` has the limits of the fields
that the code declares or that a two octet length can state: titles of ten octets,
selectors and qualifiers of 32 bits, PDUs and passwords of less than 64 and 32 KiB.

### Ber, MmsValues, MmsData, MmsValueApi, VariableAccess (with MCValues)

`Ber` has the encoders and decoders of `mms/asn1` on sequences of octets; native
integers are their octets, so that widths are kept. `MmsValues` is `mms_value.c`.
`MmsData` puts values on the wire: access results, the data elements of write requests
and reports, GOOSE payloads. `MmsValueApi` is a state machine on top: a structure of two
components is set, read, cloned (on the heap and into a buffer), updated, read and written over MMS and
received by GOOSE. `VariableAccess` makes the structure a variable of a server:
updates by the application with their triggers, access policies and write handlers,
write requests of one and of several items, reads of one variable, of several and of a
data set, with the client functions at the other end.

Run `values`: `WrittenIsRead`, `CopiesEqual`, `SubscribersCurrent`. Each component has
each of 14 types, with native values around the limits of their encodings; four
operations in a row let an operation meet the result of every other one. A variable
is an attribute or a data object, of a constraint with and without default write
access, in data sets whose members are the whole, both parts, and a part before the
whole; three accesses are a write, a write by somebody else and a read.

### FileService (with MCFileService)

The handlers of `mms_file_service.c` with the table of open files of each connection,
and `IedConnection_getFile`, `_getFileDirectory`, `_deleteFile` and
`MmsConnection_fileRename`. Run `files`: `OpenFilesAccounted`, `AnswersComplete`, and with
fairness `CallsReturn`. Three names, two of them with files of one and of two responses,
one entry per directory response, a table of two open files and two time-outs: the
table fills up, a file is renamed while it is read, a name vanishes between two
responses of a directory. `Names` are `1 .. NumberOfNames`, numbered in the order in
which `readdir` gives them; `InOrder` is that order.

### Cdc, DataModel, Directory (with MCDirectory)

`Cdc` has the constructors of all common data classes (`cdc.c`). `DataModel` turns a tree of
such nodes into MMS variables, names them, finds them by name, and describes their
types to a client (`mms_mapping.c`, `mms_domain.c`, `mms_value_cache.c`,
`mms_get_var_access_service.c`). `Directory` has the server's handlers of name lists
and named variable lists, and the client's loops over them: loading the model,
directories, data sets. Handlers run one at a time, under the model mutex.

Run `directory`: `ModelComplete`, `NamesResolve`, `DirectoryExact`, `DataSetsExact`. One
model has two devices, control blocks of each kind, a data set, and logical nodes of
which one's name starts with the other's; one client loads and reads it while another
creates and deletes data sets, with a time-out and lost connections. Each of 31
further models has one common data class, with all its options and with none, and is
loaded only. Pages of two devices, sixty variables and one data set make every list
but the shortest take several requests.

## 4. Fairness

Weak fairness is assumed of the library's own threads only: they are threads of the
operating system that run when they can, and the application's callbacks return.
Nothing is assumed of clients, networks or time-outs.

| Run | Fair |
|---|---|
| `control_commands`, `control_all` | each operate thread; waiting for it and destroying a connection that is closed; the end of a check handler; the event worker |
| `report_control` | strong: a pass of the worker that finds BufTm over (the time is finite and stays over, the worker passes again and again and gets the mutex in the end, although others hold it in between; that IntgPd is over is not assumed), and a step of sending (the sender gets `conMutex` in the end if it becomes free again and again). Weak: the end of a request that is no write to the block, the end of a value update. Fairness does not help a sender and an owner that wait for each other: no step of sending is possible then |
| `connections` | accept loop, event worker, application and each connection thread, until a `fault` |
| `client` | connecting, the receive thread, each caller's way back, conclude, join. `CallsReturn` says that a call does not depend on its time-out, so the steps of the external server that answer or close are among them |
| `association` | client, server, and the reading of what has arrived |
| `files` | client and server of each connection |

The other runs check safety only.

## 5. Proofs

The theorems hold for every value of the constants that satisfies the named assumptions
of the modules: any number of clients, objects, connections, threads, calls, files; any
sizes, limits, intervals. The bounds of the runs (`MaxOps`, `MaxReports`, `MaxTime` and
so on) are constants like any other. Each theorem about `Spec` rests on an inductive
invariant with three facts: `Init` implies it, `[Next]_vars` keeps it, and it implies
the property. The proof that a step keeps it has a step for each action, or a lemma for
each group of actions.

| Module | Theorem | States | Premise | Invariant |
|---|---|---|---|---|
| `ControlObjectProofs` | `TasksCountedAlways` | `TypeOK`, `TasksCounted` | | `IInv` |
| | `DrainWaits` | `DrainWaitsForThreads` (an action property) | | `IInv` |
| | `OperationsExclusive` | `ExclusiveOperation`, `OperatedAsCommanded`, of objects that are not `overtaken` | `Undisturbed` | `IInv`, `XInv` |
| | `SelectedBeforeOperated` | `OperatedBySelector` | `SelectionsEnd` | `IInv`, `SelInv` |
| | `AnsweredAtMostOnce` | `AnsweredOnce`, likewise | `Undisturbed` | these and `AnsInv` |
| `ReportProofs` | `ReportsIntact` | `TypeOK`, `ListIntact` | | `BufferInv` |
| | `EvictionsNeeded` | `EvictsOnlyIfNeeded` (an action property) | | `BufferInv` |
| | `BufferIsQueue` | `BehavesAsQueue` (the refinement of `ReportQueue`) | | `BufferInv` |
| | `ReportsFaithful` | `RcbTypeOK`, `ChangesReported`, `DeliveredToOwner` | | `RInv` |
| `ServerConnectionsProofs` | `SlotsAndStop` | `TypeOK`, `SlotHeld`, `StopComplete` | | `SInv` |
| `ServerLocksProofs` | `SendBuffersExclusive` | `TypeOK`, `SendBufferExclusive` | | `LocksInv` |
| | `NoDeadlockButOne` | `NoOtherDeadlock` | | `LocksInv` |
| `MmsClientProofs` | `CallsExact` | `TypeOK`, `ResultIsOwn`, `NoAnswerLost` | callers fit the table | `CInv` |
| `FileServiceProofs` | `FilesAccounted` | `TypeOK`, `OpenFilesAccounted` | | `FInv` |
| | `AnswersAreComplete` | `AnswersComplete` | `~HandlerReturns` | `FInv` |
| | `DirectoriesAreComplete` | the part of it about directories | | `FInv` |
| `NetworkProofs` | `TransportInOrder` | `MessagesArriveInOrder` (the refinement of `MessageStream`) | | `AssociationInv` |
| | `TransportNegotiated` | `TransportAgreed`, the transport's part of `EndsAgree` | | `AssociationInv` |
| | `AssociationAgreed` | `EndsAgree` | | `AssociationInv` |
| | `AssociationAuthenticated` | `Authenticated` | | `AssociationInv` |
| | `LiveMessages` | `TypeOK`, `NeverExpires` | | `GInv` |
| | `MessagesNumbered` | `NumberedWithoutGaps` (an action property) | | `GInv` |

### Premises

- `Undisturbed`: no client cancels and none disconnects. Both services take an object
  out of an operation that is still running, so without it the properties are false
  (TLC shows it on the instance of `control_all`). It is the setting of run
  `control_commands`.
- `SelectionsEnd`: no client disconnects, or there is one object and an operation ends
  its selection. `unselectControlsForConnection` stops at the first object that it
  unselects, and objects of the "operate many" kind go back to being selected, so a
  selection can outlive its connection, whose address is then given to another client. Cancel is allowed. It is the setting of run `control_all`.
- Callers fit the table: `Cardinality(Callers) <= Slots`. `OUTSTANDING_CALLS` is 10; with
  more callers `addToOutstandingCalls` finds no place, which its caller ignores.
- `~HandlerReturns`: the handler of the application wants the whole file. Otherwise the
  download ends after the first response, as section 6 says.

### Arguments

`ControlObject`. `TasksCounted` is not inductive alone: `IInv` adds that a thread past
its look-up refers to a connection that was accepted (`ThreadLocals`), and that handler
and worker refer to existing objects (`OtherLocals`). `XInv` ties the state of an object
to the one who may act on it: the request handler, the worker, or the one thread, which
keeps it in `StateOf`. `SelInv` says that the address an object has stored is that of a
live connection, the one that selected it (`Linked`), and that a live address belongs
to one connection; `AnsInv` follows a request from the handler to the thread that
answers it.

`ReportBuffer`. The list is in memory that overwrites itself, so the invariant speaks of
the sequence of addresses that the pointers lead through (`Shape`): entries do not
overlap, and their addresses rise, but for one return to the start of the block.
`Making` says where in that sequence the next report goes while `enqueueReport` is at
work. For the refinement each step is mapped: removing overwritten entries drops the
oldest, finishing a report enqueues it, a report too large is skipped, and the steps between
change nothing of the queue.

`ReportControl`. `ChangesReported` and `DeliveredToOwner` are not inductive alone.
`PendingInv`: values that wait have started BufTm, and while a thread is about to note a
change of an element in a block that makes reports, no older value of the element waits, as
`ValueUpdatedBegin` has put it into a report. `OutgoingInv`: reports leave under the mutex,
and as long as the block has a connection it is the one the reports were made for; an end of
the connection clears the field, and no other client becomes the owner before the mutex is
free.

`ServerConnections`. `SInv` follows a connection from the accept loop to its slot
(`HandInv`), relates slots, counter and threads (`SlotsInv`, `CounterInv`), the tables
above them (`TablesInv`) and what has ended by when a stop gets to a point (`StopInv`).

`ServerLocks`. A path is a sequence of operations; `Runs` says that it takes and gives
back locks in an order, from what is held to nothing. `LocksInv` says so of the rest of
every thread's path, or that the thread waits for itself, a part of `ReportDeadlock`. The
order is the model, the own connection, the report, another connection; the last link
is what `ReportDeadlock` excepts.

`MmsClient`. `CInv` has what the single receive buffer holds, in three cases: nothing is
announced, an answer is announced to a call that polls, or the connection is dead.
`TableInv` says that the table has exactly the calls that wait.

`FileService`. `FInv` matches the requests and answers in the pipe of a connection with
the call that waits (`PipeInv`), bounds the open state machines by the download and the
time-outs, counting the opens under way (`BudgetInv`), and says which octets of the file,
or names of the directory, the client has (`DownloadInv`, `DirectoryInv`).

`Association`. What one end reads continues what it has: `Chained(w, S, n, k, l, p)` says
that the TPDUs `w` carry the messages `S` from octet `k` of message `n` to octet `p` of
message `l`, by a position for each TPDU. `ChainSegments` is the lemma that the TPDUs
of `CotpConnection_sendDataMessage` carry a message, for all lengths and sizes;
`ReceiveMore` and `ReceiveLast` are `parseDataTpdu`. `TransportInv` says of each end that
what it was given are the first messages of the other end, that its payload and the
TPDUs under way continue them, and reach the last one unless the connection broke or a
socket was closed. A client that met a TPDU it cannot take is excepted: it reads no more.
One lemma (`StepOfEnd`) joins what a step reads with what it sends, and gives both the
invariant and the step of `MessageStream`. `AgreeInv` follows the negotiation: while the
client waits, its request is under way, or the server has taken it (`Confirmed`) with a
size that is no larger than what was asked for; the client then takes exactly that size,
because it is within its own limit (`SizeTaken`, for all powers of two that the option can
name and limits that need not be one). From there on only data are under way, cut to that
size.

The layers above it. `ProtocolInv` follows what is agreed on: before the first message the
server knows nothing; from a request that fits its session length and has the password it
knows the contexts and the `Terms`, and answers with them; from any other request it
learns nothing and stops. While the client waits, its socket is open, and it fails only
if the connection broke or the request was such a one. The terms are the same whether the client offers its own PDU
size or, at a later attempt, the one negotiated before (`OfferIs`). All of it holds
because a message is sent as octets and read as what it was written from: `AskingIs` and
`AnsweringIs` say so of the associate request and the answer as a whole, and `OtherSpdus`
that no other message of an association is taken for one of them. `AssociationInv` is `TransportInv`,
`AgreeInv` and `ProtocolInv` together, as each needs the others: the transport is given
octets because the decoders of the layers above returned such.

`CodecProofs` has these lemmas, layer by layer, for contents of any length within the
headers. `Splits(w, t)` says that octets `w` are read as the elements `t` whatever
follows them; it holds of an element that `BerEncoder_encodeTL` heads (`WrapReads`), and
of octets one behind the other (`ReadsJoin`), so a PDU is read as the elements it was
put together from, and what a parser's variables hold at the end is the last element
with the tag (`GetJoin`). `Measures` carries along the lengths, which the code computes in
advance of the contents; that they are those of the contents is a part of each lemma
(`AarqIs`, `AareIs`, `ConnectPpduIs`, `SpduIs` and others). The parsers' loops are recursive functions: that such a function
exists for all octets, since the rest of a buffer is shorter than the buffer, is
`RecursiveFunction`, and what one computes is proved by induction over lengths. The library's induction
theorems cannot be cited; that a set of naturals has a least element
(`LeastNatural`, from `WFMin`) takes their place.

`Goose`. `MessageInv`: the next message is due, with the worker as late as it may be,
before the last one expires, as long as none was skipped, and continues its numbers, with
room for those that were. `PublisherInv`: an enabled block has the publisher that was
created last.

### Only model-checked

- Every liveness property, since fairness and ENABLED are outside the prover's reach.
- `WrittenIsRead`, `CopiesEqual`, `SubscribersCurrent`, `OneMessage`, `EventArrives`, and
  the properties of `Directory`. Values of structures and trees of names are recursive
  data, and their modules work on them with RECURSIVE operators, which the prover cannot
  see; the encoders and decoders of values are not part of `CodecProofs` for the same
  reason. RECURSIVE operators occur only in modules without theorems.

## 6. Where code and documentation differ

Differences between the code and what a text of the repository says of it, met while
modelling. The models follow the code; the properties say what holds nevertheless. No
run of the project expects a violation.

Each of these is a definition of a module that TLC finds violated within seconds when
it is put in the place of a run's properties:

| Definition | What the repository says | What the code does | Constants |
|---|---|---|---|
| `OneOperation` | "command already in execution" is the answer to a command during another one, `control.c:49`, `:1227` | the worker takes an armed command before its handler has tested the flag again, and the handler starts the operation a second time | as `control_commands`, without its `CONSTRAINT` |
| `ThreadsFinished` | "wait until control threads are finished", `mms_mapping.c` | an operate thread looks up its client before it is counted; the client is destroyed in between | as `control_all` |
| `ReasonAsMade` | flags of an entry, `reporting.h:31` | a buffered integrity report is sent with the reason of a general interrogation, and the other way round | as `report_control` |
| `SequenceIncreases` | "Increase sequence number", `reporting.c` | after enabling again the first report has the old number | as `report_control`, modulus 3 |
| `BufferingIfDataSet` | `isBuffering`, `reporting.h:83` | a buffered block without a data set does not start to buffer when it gets one | as `report_control`, `InitialDataSet` `"no data set"` |
| `StopReturns` | "Stop server thread an all open connection threads", `mms_server.h` | stop closes one connection only (the `break` in `closeAllOpenClientConnections`) and waits for all; a stop that overtakes a second start waits for ever as well | as `connections`; `MaxStarts = 2` |
| `IndicationNamesClient` | "the new or closed client connect object", `iec61850_server.h` | a connection lost during its set-up is reported with a NULL object | as `connections` |
| `StoppedNotListening` | `IedServer_isRunning`, `iec61850_server.h` | when the accept loop ends first, nobody destroys the listening socket | as `connections` |
| `CallbackLocked` | "the data model is always already locked", `iec61850_server.h` | the worker and the operate threads call handlers without the lock | as `locks` |

### Server

- Locks: the report mutex and the connection mutex are taken in both orders. When the
  client that owns a report control block writes to it, or to a member of its data set,
  while a report is being sent, its thread and the event worker wait for each other, and
  with them everybody who needs the model lock; a report sent out of the owner's own
  request waits for itself. Pending requests are then not processed after the model is
  unlocked, as `iec61850_server.h:248` has it. `ReportDeadlock` describes the states; `NoOtherDeadlock` excludes all others.
- Controls: cancel unselects an object in whatever state it is (`control.c:1358`), also
  during an operation; the worker takes a time activated command without a lock
  (`control.c:611`), also while the handler is between arming it (`control.c:1273`) and
  testing that it is armed (`control.c:1289`), upon which one request is operated twice and may be answered
  twice (`overtaken`); handlers called by operate thread and worker touch the data model
  without its lock (`control.c:305`).
- Reports: the enabled flag is read outside the mutex (`mms_mapping.c:1530`); the
  number of a report is kept twice, as a counter and as the attribute that is sent
  (`reporting.c:1057`). A dynamic data set is freed before it is known that there is
  another one (`reporting.c:394-406`): after a refused write the block goes on with freed
  memory. RptEna := TRUE throws away what a buffered block has not yet put into a report
  (`reporting.c:425-428`). A report whose connection ends while its sender waits for `conMutex`
  goes to freed memory or to another connection (`reporting.c:1248-1251`,
  `iso_connection.c:419-420`). The mark of waiting values survives disabling while the values do
  not, so that an empty report is sent after enabling again (`reporting.c:1067`). The handler of the entry identifier tests "EntryId" while the attribute is
  "EntryID", so that resynchronisation is never reached (and
  `checkReportBufferForEntryID` would not advance); `updateOwner` writes the first octet
  of the address and zeros; the default branch of the write handler answers success
  whatever `MmsValue_update` says; RptEna := TRUE does not look at a reservation by
  another client.
- Connections: `IsoConnection_close` is called on a pointer read from the slot table
  while the connection may end itself (`iso_server.c:131`), the state is tested before
  `conMutex` is waited for (`iso_connection.c:413`), GoEna is cleared before
  `publisherMutex` is taken (`mms_goose.c:255`), and the list of client connections has
  no lock (`ied_server.c:981`, `mms_server.c:207`); the event worker itself
  resets the flag that says it has finished, so that a stop right after a second start
  does not wait for it (`mms_mapping.c:1774`). The grain of the models is the single
  access to a shared word; what a torn traversal yields is below it.
- GOOSE: a message that does not fit its buffer is not sent, its sqNum is used up and
  nobody is told (`goose_publisher.c:352-357`; `mms_goose.c:277`, `:328`). After an event there is one retransmission more at the event's interval than
  `stack_config.h:78` says. A subscriber that allocates its values misplaces the octets
  of integers in the first message (`parseAllDataUnknownValue`), and has no case for MMS
  strings.
- Writes: a write of what a data object has under one constraint, or with a value that
  `MmsValue_update` refuses (another length, another width, an integer that is too wide),
  is answered with success and changes nothing (`mms_mapping.c:1174`), and a refused
  update triggers reports as a change. Only the first handler that concerns the written
  value is asked (`mms_mapping.c:1131`, against `iec61850_server.h:656`). One item
  without a response suppresses the response to all items of a request. A change of a
  part is announced for the data set member that contains it, a change of a structure not for
  members that are parts of it (`isMemberValueRecursive`), and a report flags only the
  first data set member that contains the value.
- Updates: `IedServer_updateInt32AttributeValue` compares truncated values of a 64 bit
  attribute. A visible string that was never set must not be updated, and a range of
  array elements must lie inside the array: both are preconditions no text mentions.
- Named variable lists: members are not looked up when a list is defined; attributes of
  association specific lists are not supported; the index of an array member is ignored
  when a data set is read; alternate access is compiled out of the attribute service.
  A description of a variable that does not exist is never answered.
- Name lists: when a list that was deleted and created again lies behind the name to
  continue after, it is skipped or repeated. A directory of files ends, without an error,
  when the file to continue after has gone; an initial position in a file is ignored.
- Data model: `CDC_APC` with a cancel command creates "SBOw" twice, the yearly counters
  of `CDC_CTE` and `CDC_TMS` create "mly" twice; control objects inside of data objects
  are not supported (an assert); attributes under CO and below arrays have no value of
  their own; the entry time is described as a binary time of four octets.

### Client

- Calls: an answer that arrives after its call has timed out is taken for that of the
  next call or blocks it; a reject is never released; a refused conclude releases the
  receive buffer once too often; when an association was answered by another PDU the
  receive thread does not end and destroy does not return; connect overwrites the
  closed state set by the receive thread (`mms_client_connection.c:899`). `Regular`
  in `MmsClient` leaves these out.
- Reports and command terminations: `IedConnection_connect` installs a handler of five
  parameters (`informationReportHandler`, `ied_connection.c:358`) where the MMS client
  calls one of six with another meaning of the last two (`mms_client_connection.h:68`).
  What it receives is undefined, so nothing behind it is modelled.
- Name lists: an error in the middle of a list is ignored (`lastResponseError`), and the
  part that was read is returned without an error, against `mms_client_connection.h:238`;
  `ModelComplete` therefore speaks of the first names of the server. The directory of a logical node whose name starts with that of
  another one has the other's objects too (`iec61850_client.h:1347`).
- Files: a file handler that wants to go on returns false, against
  `iec61850_client.h:1458`; `HandlerReturns` in `FileService` says so. A read that timed
  out leaves its file open until the connection ends.
- Control blocks: `getRCBValues` keeps a stale Owner; `setRCBValues` in one request
  ignores the results; `getOptFlds` does not undo the shift of `setOptFlds`;
  `ControlObjectClient` does not match nested objects, and `select` compares the wrong
  way round.

### Encodings

- `BerInteger_setUint32` and `_setUint16` compress values from 0xFF800000 and 0xFF80 on
  as if they were negative; object identifiers lose arcs of 0; the size of bit strings is computed
  differently from how it is written at 127 and 255 octets; a write request has 8 unused
  bits in a bit string of whole octets. The values of run `values` avoid the first three and
  include the last.
- `MmsValue_update` of a structure ignores what its components say. Clones and their
  sizes require strings to be set.
- Session headers have lengths of one octet: a long password makes a request that the
  server refuses. A request with the mechanism NONE, and an abort, declare lengths that
  are too large. The server neither answers nor closes when it cannot parse a presentation
  connect. `MmsConnection_connect` keeps the negotiated PDU size for the next attempt.

## 7. Not modelled

- IED client: control sequences and control block objects (sequences of the reads and
  writes of `VariableAccess`), report and termination handlers (section 6).
- Status and identify; abort and unconfirmed PDUs sent by a client; observers of
  attributes; access to single array elements.
- Destruction of servers, models and values after use; printing and debugging output.
- Containers and utilities (`common`), used as sets and sequences; platform code (`hal`),
  which appears as the primitives it provides; the sampled values publisher; the parser
  of model configuration files.
- Object identifiers and general ASN.1 in the code generated by asn1c; conversions of floats
  between widths; trigger options and initial values of the data model; a type description
  that is larger than a PDU, which the server answers with an error
  (`mms_get_var_access_service.c:246-256`).

Data races on single words are modelled as atomic accesses; torn traversals of the
unlocked linked lists are below the grain of the models. Invoke ids, sequence numbers
and entry identifiers do not wrap around within the bounds.

The map names about half of the library's own C code, and about a sixth of all lines of
C in the repository. Most of the rest has no behaviour to model: the data models generated
for examples and demos (28,000 lines of tables), their main programs, the code
generated by asn1c (18,000), headers (20,000), the ports of the platform layer,
and vendored code.
