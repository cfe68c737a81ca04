---------------------------- MODULE FileService ----------------------------
(***************************************************************************)
(* The MMS file services: the handlers of the server (mms_file_service.c)  *)
(* with the file read state machines of each connection, and the clients   *)
(* that call IedConnection_getFile, _getFileDirectory and _deleteFile and  *)
(* MmsConnection_fileRename (ied_connection.c, mms_client_connection.c).   *)
(* The threads of the connections handle requests one at a time: each      *)
(* handler runs under the user lock of the ISO server, the model mutex.    *)
(* A request may time out while it is still with the server, and           *)
(* connections are lost.                                                   *)
(***************************************************************************)
EXTENDS Naturals, Sequences, FiniteSets, FiniteSetsExt, SequencesExt

CONSTANTS Clients,
          Calls,                \* client -> the calls it makes
          NumberOfNames,        \* file names are 1..NumberOfNames, in the order of readdir
          Size,                 \* content -> its number of octets
          FirstStore,           \* the files there are at the start: name -> content
          ChunkSize,            \* octets that fit in a file-read response
          PageSize,             \* entries that fit in a file-directory response
          MaxOpenFiles,         \* CONFIG_MMS_MAX_NUMBER_OF_OPEN_FILES_PER_CONNECTION
          HandlerReturns,       \* what a file handler that wants the whole file returns
          MaxTimeouts,          \* bound: client -> time-outs of one connection
          MaxDownloads,         \* bound: downloads of one connection
          MaxChanges            \* bound: calls of delete and rename

Operations == {"getFile", "getFileDirectory", "delete", "rename"}
Names == 1..NumberOfNames
Slots == 1..MaxOpenFiles
Contents == DOMAIN Size
None == 0
NoFile == "none"          \* no file of that name, and the NULL file handle

ASSUME FileAssumption ==
  /\ NumberOfNames \in Nat /\ {ChunkSize, PageSize, MaxOpenFiles} \subseteq Nat \ {0}
  /\ \A content \in Contents : Size[content] \in Nat
  /\ NoFile \notin Contents /\ FirstStore \in [Names -> Contents \cup {NoFile}]
  /\ Calls \in [Clients -> SUBSET Operations]
  /\ HandlerReturns \in BOOLEAN /\ {MaxDownloads, MaxChanges} \subseteq Nat /\ MaxTimeouts \in [Clients -> Nat]

VARIABLES
  store,          \* the virtual filestore: name -> content
  frsms,          \* MmsServerConnection.frsms
  nextFrsmId,     \* MmsServerConnection.nextFrsmId
  handles,        \* FILE objects the server process has open
  wire,           \* requests sent and not yet handled, and whether the client still waits
  answer,         \* the response the client has not yet looked at
  call,           \* the client's call
  result,         \* what its last call returned, if it asked for data
  timeouts,       \* of this connection
  changes,        \* calls of delete and rename
  opened,         \* history: content behind the last fopen of the connection
  throughout,     \* history: names that existed since the client's call began
  anchorLost      \* history: continue-after named a file that was gone

server == <<store, frsms, nextFrsmId, handles>>
client == <<call, result, timeouts, changes>>
history == <<opened, throughout, anchorLost>>
vars == <<server, wire, answer, client, history>>

Existing(files) == {name \in Names : files[name] # NoFile}

(* The octets of a file.                                                   *)
Octets(content) == [i \in 1..Size[content] |-> <<content, i>>]
Garbage == <<NoFile, 0>>

FreeFrsm == [fileHandle |-> NoFile, taken |-> 0, frsmId |-> 0, readPosition |-> 0, fileSize |-> 0]
Idle == [op |-> "none", frsmId |-> 0, got |-> <<>>]
NoResult == [op |-> "none", error |-> "none", got |-> <<>>]
NoAnswer == [kind |-> "none"]

Services == {"open", "read", "close", "directory", "delete", "rename"}
Octet == (Contents \cup {NoFile}) \X Nat

Frsms == [fileHandle : Contents \cup {NoFile}, taken : Nat, frsmId : Nat, readPosition : Nat,
          fileSize : Nat]
Requests == [service : Services, awaited : BOOLEAN, frsmId : Nat, name : Names \cup {None},
             newName : Names \cup {None}]
Answers ==
  {NoAnswer} \cup [kind : {"null"}] \cup [kind : {"error"}, error : {"resource", "nonexistent", "other"}]
  \cup [kind : {"opened"}, frsmId : Nat]
  \cup [kind : {"data"}, data : Seq(Octet), moreFollows : BOOLEAN]
  \cup [kind : {"entries"}, names : Seq(Names), moreFollows : BOOLEAN]

TypeOK ==
  /\ store \in [Names -> Contents \cup {NoFile}]
  /\ frsms \in [Clients -> [Slots -> Frsms]] /\ nextFrsmId \in [Clients -> Nat]
  /\ handles \in Nat
  /\ wire \in [Clients -> Seq(Requests)] /\ answer \in [Clients -> Answers]
  /\ call \in [Clients -> [op : Operations \cup {"none"}, frsmId : Nat,
                            got : Seq(Octet) \cup Seq(Names)]]
  /\ result \in [Clients -> [op : {"getFile", "getFileDirectory", "none"},
                error : {"none", "resource", "nonexistent", "other", "timeout", "lost"},
                got : Seq(Octet) \cup Seq(Names)]]
  /\ timeouts \in [Clients -> Nat] /\ changes \in Nat
  /\ opened \in [Clients -> Contents \cup {NoFile}]
  /\ throughout \in [Clients -> SUBSET Names] /\ anchorLost \in [Clients -> BOOLEAN]

Init ==
  /\ store = FirstStore
  /\ frsms = [c \in Clients |-> [s \in Slots |-> FreeFrsm]]
  /\ nextFrsmId = [c \in Clients |-> 0]
  /\ handles = 0
  /\ wire = [c \in Clients |-> <<>>]
  /\ answer = [c \in Clients |-> NoAnswer]
  /\ call = [c \in Clients |-> Idle]
  /\ result = [c \in Clients |-> NoResult]
  /\ timeouts = [c \in Clients |-> 0]
  /\ changes = 0
  /\ opened = [c \in Clients |-> NoFile]
  /\ throughout = [c \in Clients |-> {}]
  /\ anchorLost = [c \in Clients |-> FALSE]

-----------------------------------------------------------------------------
(* The server.                                                             *)

OpenFrsms(c) == {s \in Slots : frsms[c][s].fileHandle # NoFile}

(* getFreeFrsm: the first slot without a file, or None.                    *)
getFreeFrsm(c) ==
  IF OpenFrsms(c) = Slots THEN None ELSE Min(Slots \ OpenFrsms(c))

AnyFrsm(c, frsmId) ==
  IF OpenFrsms(c) = {} THEN None ELSE Min(OpenFrsms(c))

(* getFrsm: the open file with that id, or None.                           *)
getFrsm(c, frsmId) ==
  LET found == {s \in OpenFrsms(c) : frsms[c][s].frsmId = frsmId}
  IN IF found = {} THEN None ELSE Min(found)

Request(c, service) ==
  wire[c] # <<>> /\ wire[c][1].service = service

RespondUnlessError(c, response) ==
  /\ answer' = IF wire[c][1].awaited /\ response.kind # "error"
                 THEN [answer EXCEPT ![c] = response] ELSE answer
  /\ wire' = [wire EXCEPT ![c] = Tail(@)]

(* The response; a client that waits no longer drops it, since its invoke  *)
(* id is no outstanding call any more.                                     *)
Respond(c, response) ==
  /\ answer' = IF wire[c][1].awaited THEN [answer EXCEPT ![c] = response] ELSE answer
  /\ wire' = [wire EXCEPT ![c] = Tail(@)]

Error(reason) == [kind |-> "error", error |-> reason]
NullResponse == [kind |-> "null"]

(* The filestore has changed under the calls of the other clients.         *)
Witnessed == throughout' = [c \in Clients |-> throughout[c] \cap Existing(store')]

(* createFileOpenResponse: the size is asked for by the name of the file.  *)
createFileOpenResponse(c, content) ==
  [fileHandle |-> content, taken |-> 0, frsmId |-> nextFrsmId[c], readPosition |-> 0,
   fileSize |-> Size[content]]

(* mmsServer_handleFileOpenRequest; the open file survives whatever        *)
(* happens to its name.                                                    *)
handleFileOpenRequest(c) ==
  /\ Request(c, "open")
  /\ LET slot == getFreeFrsm(c)  content == store[wire[c][1].name] IN
       IF slot = None \/ content = NoFile
         THEN /\ Respond(c, Error(IF slot = None THEN "resource" ELSE "nonexistent"))
              /\ UNCHANGED <<server, opened>>
         ELSE /\ frsms' = [frsms EXCEPT ![c][slot] = createFileOpenResponse(c, content)]
              /\ nextFrsmId' = [nextFrsmId EXCEPT ![c] = @ + 1]
              /\ handles' = handles + 1
              /\ opened' = [opened EXCEPT ![c] = content]
              /\ Respond(c, [kind |-> "opened", frsmId |-> nextFrsmId[c]])
              /\ UNCHANGED store
  /\ UNCHANGED <<client, throughout, anchorLost>>

(* createFileReadResponse: the next chunk and whether more follows.        *)
Chunk(frsm) ==
  LET bytesLeft == frsm.fileSize - frsm.readPosition
      moreFollows == bytesLeft > ChunkSize
      size == IF moreFollows THEN ChunkSize ELSE bytesLeft
      at == frsm.taken
  IN [kind |-> "data",
      data |-> [i \in 1..size |-> IF at + i <= Size[frsm.fileHandle]
                                    THEN <<frsm.fileHandle, at + i>> ELSE Garbage],
      moreFollows |-> moreFollows]

(* mmsServer_handleFileReadRequest.                                        *)
handleFileReadRequest(c) ==
  /\ Request(c, "read")
  /\ LET slot == getFrsm(c, wire[c][1].frsmId) IN
       IF slot = None
         THEN /\ Respond(c, Error("other")) /\ UNCHANGED frsms
         ELSE LET chunk == Chunk(frsms[c][slot])  size == Len(chunk.data) IN
              /\ Respond(c, chunk)
              /\ frsms' = [frsms EXCEPT ![c][slot].readPosition = @ + size,
                             ![c][slot].taken = Min({@ + size, Size[frsms[c][slot].fileHandle]})]
  /\ UNCHANGED <<store, nextFrsmId, handles, client, history>>

CloseKeepsSlot(c) ==
  /\ Request(c, "close")
  /\ Respond(c, NullResponse)
  /\ handles' = handles - 1
  /\ UNCHANGED <<store, frsms, nextFrsmId, client, history>>

(* mmsServer_handleFileCloseRequest; the id is not checked.  The size of   *)
(* the file stays in the slot, the position is set by the next open.       *)
handleFileCloseRequest(c) ==
  /\ Request(c, "close")
  /\ LET slot == getFrsm(c, wire[c][1].frsmId) IN
       frsms' = [frsms EXCEPT ![c][slot] = [FreeFrsm EXCEPT !.fileSize = frsms[c][slot].fileSize]]
  /\ handles' = handles - 1
  /\ Respond(c, NullResponse)
  /\ UNCHANGED <<store, nextFrsmId, client, history>>

(* mmsServer_handleFileDeleteRequest                                       *)
handleFileDeleteRequest(c) ==
  /\ Request(c, "delete")
  /\ store' = [store EXCEPT ![wire[c][1].name] = NoFile]
  /\ Respond(c, IF store[wire[c][1].name] = NoFile THEN Error("nonexistent") ELSE NullResponse)
  /\ Witnessed
  /\ UNCHANGED <<frsms, nextFrsmId, handles, client, opened, anchorLost>>

(* mmsServer_handleFileRenameRequest: rename replaces a file of the new    *)
(* name.                                                                   *)
handleFileRenameRequest(c) ==
  /\ Request(c, "rename")
  /\ LET old == wire[c][1].name  new == wire[c][1].newName IN
       IF store[old] = NoFile
         THEN Respond(c, Error("other")) /\ UNCHANGED <<store, throughout>>
         ELSE /\ store' = [[store EXCEPT ![old] = NoFile] EXCEPT ![new] = store[old]]
              /\ Respond(c, NullResponse)
              /\ Witnessed
  /\ UNCHANGED <<frsms, nextFrsmId, handles, client, opened, anchorLost>>

(* The order in which readdir gives the names.                             *)
InOrder(names) ==
  CHOOSE s \in [1..Cardinality(names) -> names] : \A i, j \in DOMAIN s : i < j => s[i] < s[j]

PageSkips(files, continueAfter) ==
  LET behind == IF continueAfter = None THEN Existing(files)
                ELSE IF files[continueAfter] = NoFile THEN {}
                ELSE {name \in Existing(files) : name > continueAfter + 1}
      entries == InOrder(behind)
      count == Min({PageSize, Len(entries)})
  IN [kind |-> "entries", names |-> SubSeq(entries, 1, count),
      moreFollows |-> count < Len(entries)]

(* createFileDirectoryResponse: the entries behind continueAfter as far as *)
(* they fit, none when that name is not met.                               *)
Page(files, continueAfter) ==
  LET behind == IF continueAfter = None THEN Existing(files)
                ELSE IF files[continueAfter] = NoFile THEN {}
                ELSE {name \in Existing(files) : name > continueAfter}
      entries == InOrder(behind)
      count == Min({PageSize, Len(entries)})
  IN [kind |-> "entries", names |-> SubSeq(entries, 1, count),
      moreFollows |-> count < Len(entries)]

(* mmsServer_handleFileDirectoryRequest.                                   *)
handleFileDirectoryRequest(c) ==
  /\ Request(c, "directory")
  /\ LET after == wire[c][1].name IN
       /\ Respond(c, Page(store, after))
       /\ anchorLost' = [anchorLost EXCEPT ![c] =
            @ \/ (wire[c][1].awaited /\ after # None /\ after \notin Existing(store))]
  /\ UNCHANGED <<server, client, opened, throughout>>

(* MmsServerConnection_destroy; the next association has a new object.     *)
MmsServerConnection_destroy(c) ==
  /\ handles' = handles - Cardinality(OpenFrsms(c))
  /\ frsms' = [frsms EXCEPT ![c] = [s \in Slots |-> FreeFrsm]]

-----------------------------------------------------------------------------
(* The client.                                                             *)

Waiting(c) == wire[c] # <<>> /\ Last(wire[c]).awaited

(* A request as the mmsClient_createFile...Request functions encode it.    *)
Asking(service) ==
  [service |-> service, awaited |-> TRUE, frsmId |-> 0, name |-> None, newName |-> None]

Send(c, request) == wire' = [wire EXCEPT ![c] = Append(@, request)]

(* A call of the application with its first request.                      *)
Call(c, op, request) ==
  /\ call[c] = Idle /\ op \in Calls[c]
  /\ call' = [call EXCEPT ![c] = [Idle EXCEPT !.op = op]]
  /\ Send(c, request)
  /\ throughout' = [throughout EXCEPT ![c] =
                      IF op = "getFileDirectory" THEN Existing(store) ELSE {}]
  /\ anchorLost' = [anchorLost EXCEPT ![c] = FALSE]
  /\ result' = [result EXCEPT ![c] = NoResult]
  /\ UNCHANGED <<server, answer, timeouts, opened>>

Change(c, op, request) ==
  /\ changes < MaxChanges
  /\ Call(c, op, request)
  /\ changes' = changes + 1

IedConnection_getFile(c, name) ==
  /\ nextFrsmId[c] < MaxDownloads
  /\ Call(c, "getFile", [Asking("open") EXCEPT !.name = name])
  /\ UNCHANGED changes
IedConnection_getFileDirectory(c) ==
  Call(c, "getFileDirectory", Asking("directory")) /\ UNCHANGED changes
IedConnection_deleteFile(c, name) == Change(c, "delete", [Asking("delete") EXCEPT !.name = name])
MmsConnection_fileRename(c, old, new) ==
  Change(c, "rename", [Asking("rename") EXCEPT !.name = old, !.newName = new])

(* The error of the last request is the error of the call.                 *)
Return(c, error, got) ==
  /\ result' = IF call[c].op \in {"getFile", "getFileDirectory"}
                 THEN [result EXCEPT ![c] = [op |-> call[c].op, error |-> error, got |-> got]]
                 ELSE result
  /\ call' = [call EXCEPT ![c] = Idle]

(* The MmsConnection_file... function that waits for it takes the answer.  *)
Received(c, kind) ==
  /\ answer[c].kind = kind
  /\ answer' = [answer EXCEPT ![c] = NoAnswer]
  /\ UNCHANGED <<server, timeouts, changes, history>>

ReadOn(c, frsmId) == Send(c, [Asking("read") EXCEPT !.frsmId = frsmId])
CloseFile(c, frsmId) == Send(c, [Asking("close") EXCEPT !.frsmId = frsmId])

(* An error response ends every call; a file that is open stays open.      *)
ErrorReceived(c) ==
  /\ Received(c, "error")
  /\ Return(c, answer[c].error, <<>>)
  /\ UNCHANGED wire

(* MmsConnection_fileOpen has returned the frsmId.                         *)
FileOpened(c) ==
  /\ Received(c, "opened")
  /\ call' = [call EXCEPT ![c].frsmId = answer[c].frsmId]
  /\ ReadOn(c, answer[c].frsmId)
  /\ UNCHANGED result

(* MmsConnection_fileRead has handed the data to the handler: the loop ends *)
(* when the handler returned true or nothing follows.                      *)
FileRead(c) ==
  /\ Received(c, "data")
  /\ call' = [call EXCEPT ![c].got = @ \o answer[c].data]
  /\ IF HandlerReturns \/ ~answer[c].moreFollows
       THEN CloseFile(c, call[c].frsmId) ELSE ReadOn(c, call[c].frsmId)
  /\ UNCHANGED result

(* The positive response of close, delete and rename: the error of the     *)
(* call is that of its last request.                                       *)
NullReceived(c) ==
  /\ Received(c, "null")
  /\ Return(c, "none", call[c].got)
  /\ UNCHANGED wire

(* The loop of IedConnection_getFileDirectory.                             *)
DirectoryReceived(c) ==
  /\ Received(c, "entries")
  /\ LET names == call[c].got \o answer[c].names IN
       IF answer[c].moreFollows
         THEN /\ call' = [call EXCEPT ![c].got = names]
              /\ Send(c, [Asking("directory") EXCEPT !.name = Last(names)])
              /\ UNCHANGED result
         ELSE Return(c, "none", names) /\ UNCHANGED wire

(* The request is given up and may still be handled.                       *)
TimeOut(c) ==
  /\ Waiting(c) /\ timeouts[c] < MaxTimeouts[c]
  /\ timeouts' = [timeouts EXCEPT ![c] = @ + 1]
  /\ wire' = [wire EXCEPT ![c] = [i \in DOMAIN @ |-> [@[i] EXCEPT !.awaited = FALSE]]]
  /\ Return(c, "timeout", <<>>)
  /\ UNCHANGED <<server, answer, changes, history>>

(* The connection is lost: the server ends it, a waiting call reports it,  *)
(* and the client connects again.                                          *)
ConnectionLost(c) ==
  /\ MmsServerConnection_destroy(c)
  /\ nextFrsmId' = [nextFrsmId EXCEPT ![c] = 0]
  /\ wire' = [wire EXCEPT ![c] = <<>>]
  /\ answer' = [answer EXCEPT ![c] = NoAnswer]
  /\ timeouts' = [timeouts EXCEPT ![c] = 0]
  /\ Return(c, "lost", <<>>)
  /\ UNCHANGED <<store, changes, history>>

-----------------------------------------------------------------------------
ServerStep(c) ==
  \/ handleFileOpenRequest(c) \/ handleFileReadRequest(c) \/ handleFileCloseRequest(c)
  \/ handleFileDeleteRequest(c)
  \/ handleFileRenameRequest(c) \/ handleFileDirectoryRequest(c)

ClientStep(c) ==
  \/ ErrorReceived(c) \/ FileOpened(c) \/ FileRead(c)
  \/ NullReceived(c) \/ DirectoryReceived(c)

Next == \E c \in Clients :
  \/ ServerStep(c) \/ ClientStep(c) \/ TimeOut(c) \/ ConnectionLost(c)
  \/ IedConnection_getFileDirectory(c)
  \/ \E name \in Names : IedConnection_getFile(c, name) \/ IedConnection_deleteFile(c, name)
  \/ \E old, new \in Names : MmsConnection_fileRename(c, old, new)

Spec == Init /\ [][Next]_vars /\ \A c \in Clients : WF_vars(ServerStep(c)) /\ WF_vars(ClientStep(c))

-----------------------------------------------------------------------------
(* Each file handle of the process belongs to one slot of a living         *)
(* connection (MmsServerConnection_destroy closes what is open), and a     *)
(* connection has no more open files than its download under way and those *)
(* it gave up after a time-out: the table of state machines fills up       *)
(* through time-outs only, never through calls that were answered.         *)
OpenFilesAccounted ==
  /\ handles = Cardinality({x \in Clients \X Slots : x[2] \in OpenFrsms(x[1])})
  /\ \A c \in Clients :
       Cardinality(OpenFrsms(c)) <= timeouts[c] + (IF call[c].op = "getFile" THEN 1 ELSE 0)

DownloadComplete(c) ==
  result[c].op = "getFile" /\ result[c].error = "none" => result[c].got = Octets(opened[c])

DirectoryComplete(c) ==
  result[c].op = "getFileDirectory" /\ result[c].error = "none" =>
    /\ IsInjective(result[c].got)
    /\ ~anchorLost[c] => throughout[c] \subseteq Range(result[c].got)

(* A call that reports no error has given everything.  A download: every   *)
(* octet of the file that had the name when it was opened, once and in     *)
(* order, whatever other clients rename and delete and whichever requests  *)
(* are given up.  A directory: every file that existed during the whole    *)
(* call, and no file twice, however many requests it took; except when the *)
(* name to continue after was taken away between two of them (the server   *)
(* then ends the list without an error).                                   *)
AnswersComplete == \A c \in Clients : DownloadComplete(c) /\ DirectoryComplete(c)

(* Every call returns, also while the directory changes under it, provided *)
(* the server's thread and the client's connection thread run.             *)
CallsReturn == \A c \in Clients : call[c] # Idle ~> call[c] = Idle
=============================================================================
