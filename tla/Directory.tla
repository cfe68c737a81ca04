----------------------------- MODULE Directory -----------------------------
(***************************************************************************)
(* A client learns the data model of a server and works with its data      *)
(* sets: the name lists (mms_get_namelist_service.c,                       *)
(* mms_client_get_namelist.c), IedConnection_getDeviceModelFromServer and  *)
(* the directories taken from it, and named variable lists                 *)
(* (mms_named_variable_list_service.c, mms_client_named_variable_list.c,   *)
(* the data set functions of ied_connection.c) with reading their values   *)
(* (mms_read_service.c).  Handlers run one at a time, under the model      *)
(* mutex.  A request may time out while the server still has it, and       *)
(* connections are lost.                                                   *)
(***************************************************************************)
EXTENDS DataModel, FiniteSetsExt, Functions

CONSTANTS Clients,
          Models,            \* the IED models a server may have: [devices, dataSets]
          Calls(_, _),       \* what a client does with a model: the calls and faults
          Named(_, _),       \* bound: the data sets, [ld, name], a client names in a call
          Definitions(_),    \* bound: the member references a data set is created with
          PageSize,          \* class of names -> names that fit in a response
          StartsWith,        \* pairs of logical node names, the first starting with the second
          MaxTimeouts,       \* bound: time-outs of a client
          MaxChanges         \* bound: calls that create or delete data sets

Association == "@"           \* in place of the logical device: lists of the association

ASSUME DirectoryAssumption ==
  /\ \A class \in {"domains", "variables", "dataSets"} : PageSize[class] \in Nat \ {0}
  /\ {MaxTimeouts, MaxChanges} \subseteq Nat

VARIABLES
  m,                \* the model of this server
  lists,            \* named variable lists of each domain
  aaLists,          \* and of each association
  wire,             \* requests sent and not yet handled, and whether the client still waits
  answer,           \* the response the client has not yet looked at
  call,             \* the client's call
  logicalDevices,   \* IedConnection.logicalDevices, <<>> when NULL
  result,           \* what the last call returned
  timeouts, changes,
  defined,          \* history: references of the members each data set was created with
  seen              \* history: of the load, whether it was disturbed, and its data sets

server == <<m, lists, aaLists>>
client == <<call, logicalDevices, result>>
history == <<defined, seen>>
vars == <<server, wire, answer, client, timeouts, changes, history>>

-----------------------------------------------------------------------------
(* What the server builds of each model at its start.                      *)

Only(S) == CHOOSE x \in S : TRUE

(* createMmsDomainFromIedDevice and createMmsServerCache of a device, and  *)
(* the names of its variables.                                             *)
ServerDevice(device) ==
  Only({[ied |-> device, domain |-> domain, cache |-> createMmsServerCache(device.name, domain),
         variables |-> getNameListDomainSpecific(domain)] :
        domain \in {createMmsDomainFromIedDevice(device)}})

(* createMmsDataModel                                                      *)
createMmsDataModel(ied) ==
  [names |-> [k \in DOMAIN ied.devices |-> ied.devices[k].name],
   device |-> [ld \in {device.name : device \in ToSet(ied.devices)} |->
                 ServerDevice(Only({device \in ToSet(ied.devices) : device.name = ld}))],
   dataSets |-> ied.dataSets]

Servers == [i \in DOMAIN Models |-> createMmsDataModel(Models[i])]

NamesOf(sequence) == [i \in DOMAIN sequence |-> sequence[i].name]

(* createDataSets                                                          *)
createDataSets(model) ==
  [ld \in DOMAIN model.device |->
     LET own == SelectSeq(model.dataSets, LAMBDA dataSet : dataSet.ld = ld)
     IN [k \in DOMAIN own |-> [name |-> own[k].name, deletable |-> FALSE, members |-> own[k].members]]]

DataSetCalls == {"create", "delete", "directory", "values"}
NotDefined == <<[ld |-> "none", path |-> <<>>, fc |-> "none"]>>
ListNames == {key.name : key \in UNION {Named(c, op) : c \in Clients, op \in DataSetCalls}}

FirstDefined(model) ==
  [x \in (DOMAIN model.device \cup Clients) \X ListNames |->
     LET own == SelectSeq(model.dataSets, LAMBDA dataSet : <<dataSet.ld, dataSet.name>> = x)
     IN IF own = <<>> THEN NotDefined
        ELSE [k \in DOMAIN own[1].members |->
                MmsMapping_varAccessSpecToObjectReference(own[1].members[k])]]

Idle == [op |-> "none"]
NoResult == [op |-> "none"]
NoAnswer == [kind |-> "none"]
NothingSeen == [clean |-> TRUE, recreated |-> FALSE, always |-> {}, ever |-> {}]

Init ==
  /\ m \in DOMAIN Models
  /\ \E model \in {Servers[m]} : lists = createDataSets(model) /\ defined = FirstDefined(model)
  /\ aaLists = [c \in Clients |-> <<>>]
  /\ wire = [c \in Clients |-> <<>>]
  /\ answer = [c \in Clients |-> NoAnswer]
  /\ call = [c \in Clients |-> Idle]
  /\ logicalDevices = [c \in Clients |-> <<>>]
  /\ result = [c \in Clients |-> NoResult]
  /\ timeouts = [c \in Clients |-> 0]
  /\ changes = 0
  /\ seen = [c \in Clients |-> NothingSeen]

-----------------------------------------------------------------------------
(* The server.                                                             *)

Request(c, service) == wire[c] # <<>> /\ wire[c][1].service = service

(* A client that waits no longer drops the response.                       *)
Respond(c, response) ==
  /\ answer' = IF wire[c][1].awaited THEN [answer EXCEPT ![c] = response] ELSE answer
  /\ wire' = [wire EXCEPT ![c] = Tail(@)]

Error(reason) == [kind |-> "error", error |-> reason]

(* The lists a request of the client looks into.                           *)
ListsOf(c, ld) == IF ld = Association THEN aaLists[c] ELSE lists[ld]
Scope(c, ld) == IF ld = Association THEN c ELSE ld

AsNames(strings) == [i \in DOMAIN strings |-> <<strings[i]>>]

(* getNameListVMDSpecific, getNameListDomainSpecific,                      *)
(* createStringsFromNamedVariableList                                      *)
NameList(c, class, ld) ==
  CASE class = "domains" -> AsNames(Servers[m].names)
    [] class = "variables" -> Servers[m].device[ld].variables
    [] class = "dataSets" -> NamesOf(ListsOf(c, ld))

PageRepeatsName(nameList, after, size) ==
  LET found == {i \in DOMAIN nameList : <<nameList[i]>> = after}
      rest == IF found = {} THEN nameList ELSE SubSeq(nameList, Min(found), Len(nameList))
      count == Min({size, Len(rest)})
  IN [kind |-> "names", names |-> SubSeq(rest, 1, count), moreFollows |-> count < Len(rest)]

(* createNameListResponse: the names behind continueAfter as far as they   *)
(* fit; after is a sequence of at most one name.                           *)
createNameListResponse(nameList, after, size) ==
  LET found == {i \in DOMAIN nameList : <<nameList[i]>> = after}
      rest == IF after = <<>> THEN nameList ELSE SubSeq(nameList, Min(found) + 1, Len(nameList))
      count == Min({size, Len(rest)})
  IN IF after # <<>> /\ found = {} THEN Error("unsupported")
     ELSE [kind |-> "names", names |-> SubSeq(rest, 1, count), moreFollows |-> count < Len(rest)]

(* mmsServer_handleGetNameListRequest.  Only for variables is the name to  *)
(* continue after terminated; elsewhere it is compared with what follows   *)
(* it in the receive buffer, and then matches or not.                      *)
handleGetNameListRequest(c) ==
  /\ Request(c, "names")
  /\ LET request == wire[c][1] IN
     \/ Respond(c, createNameListResponse(NameList(c, request.class, request.ld), request.after,
                                          PageSize[request.class]))
     \/ /\ request.class # "variables" /\ request.after # <<>>
        /\ Respond(c, Error("unsupported"))
  /\ UNCHANGED <<server, client, timeouts, changes, history>>

(* MmsDomain_getNamedVariableList, MmsServerConnection_getNamedVariableList*)
getNamedVariableList(c, ld, name) == FirstNamed(ListsOf(c, ld), name)

DataSetNames(all) == UNION {{<<ld, all[ld][i].name>> : i \in DOMAIN all[ld]} : ld \in DOMAIN all}

(* The data sets of the devices have changed while clients load.           *)
Witnessed ==
  seen' = [c \in Clients |->
    LET now == DataSetNames(lists') IN
      IF call[c].op = "load"
        THEN [seen[c] EXCEPT !.always = @ \cap now, !.ever = @ \cup now,
                !.recreated = @ \/ \E x \in now \ DataSetNames(lists) : x \in seen[c].ever]
        ELSE seen[c]]

DefineAgain(c) ==
  /\ Request(c, "define")
  /\ LET request == wire[c][1]
         new == [name |-> request.name, deletable |-> TRUE, members |-> request.members]
     IN /\ Respond(c, [kind |-> "defined"])
        /\ IF request.ld = Association
             THEN aaLists' = [aaLists EXCEPT ![c] = Append(@, new)] /\ UNCHANGED lists
             ELSE lists' = [lists EXCEPT ![request.ld] = Append(@, new)] /\ UNCHANGED aaLists
        /\ defined' = [defined EXCEPT ![<<Scope(c, request.ld), request.name>>] = request.references]
  /\ Witnessed
  /\ UNCHANGED <<m, client, timeouts, changes>>

(* mmsServer_handleDefineNamedVariableListRequest; whether the members     *)
(* exist is not asked.                                                     *)
handleDefineNamedVariableListRequest(c) ==
  /\ Request(c, "define")
  /\ LET request == wire[c][1]
         new == [name |-> request.name, deletable |-> TRUE, members |-> request.members]
     IN IF getNamedVariableList(c, request.ld, request.name) # <<>>
          THEN Respond(c, Error("exists")) /\ UNCHANGED <<lists, aaLists, defined>>
          ELSE /\ Respond(c, [kind |-> "defined"])
               /\ IF request.ld = Association
                    THEN aaLists' = [aaLists EXCEPT ![c] = Append(@, new)] /\ UNCHANGED lists
                    ELSE lists' = [lists EXCEPT ![request.ld] = Append(@, new)] /\ UNCHANGED aaLists
               /\ defined' = [defined EXCEPT ![<<Scope(c, request.ld), request.name>>] =
                                               request.references]
  /\ Witnessed
  /\ UNCHANGED <<m, client, timeouts, changes>>

(* mmsServer_deleteVariableList: the first of that name.                   *)
deleteVariableList(sequence, name) ==
  RemoveAt(sequence, Min({i \in DOMAIN sequence : sequence[i].name = name}))

(* mmsServer_handleDeleteNamedVariableListRequest: a list of the model is  *)
(* matched and not deleted.                                                *)
handleDeleteNamedVariableListRequest(c) ==
  /\ Request(c, "delete")
  /\ LET request == wire[c][1]  list == getNamedVariableList(c, request.ld, request.name) IN
       IF list = <<>> \/ ~list[1].deletable
         THEN /\ Respond(c, [kind |-> "deleted", numberDeleted |-> 0])
              /\ UNCHANGED <<lists, aaLists, defined>>
         ELSE /\ Respond(c, [kind |-> "deleted", numberDeleted |-> 1])
              /\ IF request.ld = Association
                   THEN /\ aaLists' = [aaLists EXCEPT ![c] = deleteVariableList(@, request.name)]
                        /\ UNCHANGED lists
                   ELSE /\ lists' = [lists EXCEPT ![request.ld] = deleteVariableList(@, request.name)]
                        /\ UNCHANGED aaLists
              /\ defined' = [defined EXCEPT ![<<Scope(c, request.ld), request.name>>] = NotDefined]
  /\ Witnessed
  /\ UNCHANGED <<m, client, timeouts, changes>>

(* mmsServer_handleGetNamedVariableListAttributesRequest                   *)
handleGetNamedVariableListAttributesRequest(c) ==
  /\ Request(c, "attributes")
  /\ LET request == wire[c][1]
         list == IF request.ld = Association THEN <<>>
                 ELSE getNamedVariableList(c, request.ld, request.name)
     IN Respond(c, IF request.ld = Association THEN Error("unsupported")
                   ELSE IF list = <<>> THEN Error("nonexistent")
                   ELSE [kind |-> "attributes", members |-> list[1].members,
                         deletable |-> list[1].deletable,
                         asOf |-> defined[<<request.ld, request.name>>]])
  /\ UNCHANGED <<server, client, timeouts, changes, history>>

AccessError == [at |-> <<"object-non-existent">>, components |-> <<>>]

(* addNamedVariableToResultList of a variable with a value in the cache;   *)
(* an array without one leaves no entry.                                   *)
addNamedVariableToResultList(device, itemId) ==
  LET variable == MmsDomain_getNamedVariable(device.domain, itemId)
      value == MmsValueCache_lookupValue(device.domain, device.cache, itemId)
  IN IF variable = <<>> THEN <<AccessError>>
     ELSE IF value # <<>> THEN value
     ELSE IF variable[1].type = "ARRAY" THEN <<>> ELSE <<AccessError>>

(* handleReadNamedVariableListRequest, createNamedVariableListResponse     *)
handleReadNamedVariableListRequest(c) ==
  /\ Request(c, "read")
  /\ LET request == wire[c][1]  list == getNamedVariableList(c, request.ld, request.name) IN
       Respond(c, IF list = <<>> THEN Error("nonexistent")
                  ELSE [kind |-> "values",
                        values |-> FlattenSeq([i \in DOMAIN list[1].members |->
                                     LET member == list[1].members[i] IN
                                     addNamedVariableToResultList(Servers[m].device[member.domainId],
                                                                  member.itemId)]),
                        asOf |-> defined[<<Scope(c, request.ld), request.name>>]])
  /\ UNCHANGED <<server, client, timeouts, changes, history>>

-----------------------------------------------------------------------------
(* The client.                                                             *)

Waiting(c) == wire[c] # <<>> /\ Last(wire[c]).awaited
GivenUp(c) == [i \in DOMAIN wire[c] |-> [wire[c][i] EXCEPT !.awaited = FALSE]]

Send(c, queue, request) ==
  wire' = [wire EXCEPT ![c] = Append(queue, request @@ [awaited |-> TRUE])]

Return(c, error, got) ==
  /\ call' = [call EXCEPT ![c] = Idle]
  /\ result' = [result EXCEPT ![c] = [op |-> call[c].op, error |-> error] @@ got]

(* A call of the application with its first request.                       *)
Call(c, op, request) ==
  /\ call[c] = Idle /\ op \in Calls(m, c)
  /\ call' = [call EXCEPT ![c] = [op |-> op]]
  /\ Send(c, wire[c], request)
  /\ result' = [result EXCEPT ![c] = NoResult]
  /\ UNCHANGED <<server, answer, logicalDevices, timeouts, history>>

Change(c, op, request) ==
  changes < MaxChanges /\ Call(c, op, request) /\ changes' = changes + 1

IedConnection_createDataSet(c, key, references) ==
  Change(c, "create",
    [service |-> "define", ld |-> key.ld, name |-> key.name, references |-> references,
     members |-> [i \in DOMAIN references |->
                    MmsMapping_ObjectReferenceToVariableAccessSpec(references[i])]])

IedConnection_deleteDataSet(c, key) ==
  Change(c, "delete", [service |-> "delete", ld |-> key.ld, name |-> key.name])

IedConnection_getDataSetDirectory(c, key) ==
  Call(c, "directory", [service |-> "attributes", ld |-> key.ld, name |-> key.name])
    /\ UNCHANGED changes

IedConnection_readDataSetValues(c, key) ==
  Call(c, "values", [service |-> "read", ld |-> key.ld, name |-> key.name]) /\ UNCHANGED changes

(* mmsClient_getNameListSingleRequest                                      *)
NamesRequest(class, ld, after) ==
  [service |-> "names", class |-> class, ld |-> ld, after |-> after]

MmsConnection_getVariableListNamesAssociationSpecific(c) ==
  /\ call[c] = Idle /\ "names" \in Calls(m, c)
  /\ call' = [call EXCEPT ![c] = [op |-> "names", class |-> "dataSets", ld |-> Association, got |-> <<>>]]
  /\ Send(c, wire[c], NamesRequest("dataSets", Association, <<>>))
  /\ result' = [result EXCEPT ![c] = NoResult]
  /\ UNCHANGED <<server, answer, logicalDevices, timeouts, changes, history>>

(* IedConnection_getDeviceModelFromServer, up to the first request: the    *)
(* names of the domains, then for each its variables and its data sets.    *)
IedConnection_getDeviceModelFromServer(c) ==
  /\ call[c] = Idle /\ "load" \in Calls(m, c)
  /\ call' = [call EXCEPT ![c] = [op |-> "load", class |-> "domains", ld |-> "none", got |-> <<>>,
                                  domains |-> <<>>, devices |-> <<>>, variables |-> <<>>]]
  /\ Send(c, wire[c], NamesRequest("domains", "none", <<>>))
  /\ result' = [result EXCEPT ![c] = NoResult]
  /\ LET now == DataSetNames(lists)
     IN seen' = [seen EXCEPT ![c] = [NothingSeen EXCEPT !.always = now, !.ever = now]]
  /\ UNCHANGED <<server, answer, logicalDevices, timeouts, changes, defined>>

(* The next name list of the load.                                         *)
NextList(c, queue, class, ld, others) ==
  /\ call' = [call EXCEPT ![c] = [others EXCEPT !.class = class, !.ld = ld, !.got = <<>>]]
  /\ Send(c, queue, NamesRequest(class, ld, <<>>))
  /\ UNCHANGED result

(* The load ends with the devices there are.                               *)
Loaded(c, queue, error, devices) ==
  /\ logicalDevices' = [logicalDevices EXCEPT ![c] = <<devices>>]
  /\ Return(c, error, <<>>)
  /\ wire' = [wire EXCEPT ![c] = queue]

NextDevice(c, queue, devices) ==
  LET rest == call[c].domains  others == [call[c] EXCEPT !.devices = devices, !.domains = Tail(@)] IN
    IF rest = <<>> THEN Loaded(c, queue, "none", devices)
    ELSE NextList(c, queue, "variables", rest[1][1], others) /\ UNCHANGED logicalDevices

(* mmsClient_getNameList has returned got, <<>> for NULL, with             *)
(* MMS_ERROR_NONE: neither a time-out nor an error response is reported.   *)
ListReturned(c, queue, got) ==
  CASE call[c].op = "names" ->
         /\ Return(c, "none", [got |-> got]) /\ wire' = [wire EXCEPT ![c] = queue]
         /\ UNCHANGED logicalDevices
    [] call[c].op = "load" /\ call[c].class = "domains" ->
         IF got = <<>>
           THEN /\ Return(c, "none", <<>>) /\ wire' = [wire EXCEPT ![c] = queue]
                /\ UNCHANGED logicalDevices
           ELSE /\ logicalDevices' = [logicalDevices EXCEPT ![c] = <<>>]
                /\ NextList(c, queue, "variables", got[1][1][1], [call[c] EXCEPT !.domains = Tail(got[1])])
    [] call[c].op = "load" /\ call[c].class = "variables" ->
         IF got = <<>> THEN Loaded(c, queue, "none", call[c].devices)
         ELSE /\ NextList(c, queue, "dataSets", call[c].ld, [call[c] EXCEPT !.variables = got[1]])
              /\ UNCHANGED logicalDevices
    [] OTHER ->
         IF got = <<>> THEN Loaded(c, queue, "none", call[c].devices)
         ELSE NextDevice(c, queue, Append(call[c].devices,
                [name |-> call[c].ld, variables |-> call[c].variables, dataSets |-> got[1]]))

Received(c, kind) ==
  /\ answer[c].kind = kind
  /\ answer' = [answer EXCEPT ![c] = NoAnswer]
  /\ UNCHANGED <<server, timeouts, changes, defined>>

(* mmsClient_parseGetNameListResponse                                      *)
NamesReceived(c) ==
  /\ Received(c, "names")
  /\ LET got == IF call[c].got = <<>> THEN answer[c].names ELSE call[c].got[1] \o answer[c].names IN
       IF answer[c].moreFollows
         THEN /\ call' = [call EXCEPT ![c].got = <<got>>]
              /\ Send(c, wire[c], NamesRequest(call[c].class, call[c].ld, <<Last(got)>>))
              /\ UNCHANGED <<result, logicalDevices>>
         ELSE ListReturned(c, wire[c], <<got>>)
  /\ UNCHANGED seen

(* An error response: the functions for data sets report it.  While names  *)
(* are asked for it is taken for the end of the list, which is NULL if it  *)
(* was the first request; later the list has been freed and its pointer is *)
(* used again, and the behaviour of this client is undefined from there on.*)
ErrorReceived(c) ==
  /\ Received(c, "error")
  /\ IF call[c].op \notin {"names", "load"}
       THEN /\ Return(c, answer[c].error, <<>>)
            /\ UNCHANGED <<wire, logicalDevices, seen>>
       ELSE /\ seen' = [seen EXCEPT ![c].clean = FALSE]
            /\ IF call[c].got = <<>> THEN ListReturned(c, wire[c], <<>>)
               ELSE /\ call' = [call EXCEPT ![c] = [op |-> "undefined"]]
                    /\ logicalDevices' = [logicalDevices EXCEPT ![c] = <<>>]
                    /\ result' = [result EXCEPT ![c] = NoResult]
                    /\ UNCHANGED wire

(* MmsConnection_defineNamedVariableList, MmsConnection_deleteNamed-       *)
(* VariableList: a list that was not deleted is an error.                  *)
ChangeAnswered(c) ==
  /\ Received(c, "defined") /\ Return(c, "none", <<>>)
  /\ UNCHANGED <<wire, logicalDevices, seen>>
DeleteAnswered(c) ==
  /\ Received(c, "deleted")
  /\ Return(c, IF answer[c].numberDeleted = 1 THEN "none" ELSE "access", <<>>)
  /\ UNCHANGED <<wire, logicalDevices, seen>>

(* The end of IedConnection_getDataSetDirectory.                           *)
AttributesReceived(c) ==
  /\ Received(c, "attributes")
  /\ Return(c, "none",
       [members |-> [i \in DOMAIN answer[c].members |->
                       MmsMapping_varAccessSpecToObjectReference(answer[c].members[i])],
        deletable |-> answer[c].deletable, asOf |-> answer[c].asOf])
  /\ UNCHANGED <<wire, logicalDevices, seen>>

(* The end of IedConnection_readDataSetValues, for a new ClientDataSet.    *)
ValuesReceived(c) ==
  /\ Received(c, "values")
  /\ Return(c, "none", [values |-> answer[c].values, asOf |-> answer[c].asOf])
  /\ UNCHANGED <<wire, logicalDevices, seen>>

(* The request is given up and may still be handled.                       *)
TimeOut(c) ==
  /\ Waiting(c) /\ "timeout" \in Calls(m, c) /\ timeouts[c] < MaxTimeouts
  /\ timeouts' = [timeouts EXCEPT ![c] = @ + 1]
  /\ seen' = [seen EXCEPT ![c].clean = FALSE]
  /\ IF call[c].op \in {"names", "load"} THEN ListReturned(c, GivenUp(c), call[c].got)
     ELSE /\ Return(c, "timeout", <<>>)
          /\ wire' = [wire EXCEPT ![c] = GivenUp(c)]
          /\ UNCHANGED logicalDevices
  /\ UNCHANGED <<server, answer, changes, defined>>

(* What a load that loses its connection leaves behind: every request that *)
(* follows returns no list, and the loop ends.                             *)
LostWhileLoading(c) ==
  CASE call[c].class = "domains" ->
         IF call[c].got = <<>> THEN [error |-> "lost", devices |-> logicalDevices[c]]
                               ELSE [error |-> "lost", devices |-> << <<>> >>]
    [] call[c].class = "dataSets" /\ call[c].got # <<>> ->
         [error |-> IF call[c].domains = <<>> THEN "none" ELSE "lost",
          devices |-> <<Append(call[c].devices,
             [name |-> call[c].ld, variables |-> call[c].variables, dataSets |-> call[c].got[1]])>>]
    [] OTHER -> [error |-> "lost", devices |-> <<call[c].devices>>]

(* The connection is lost and MmsServerConnection_destroy ends the lists   *)
(* of the association; a waiting call returns and the client connects      *)
(* again, with the data model it has.                                      *)
ConnectionLost(c) ==
  /\ "lost" \in Calls(m, c) /\ call[c].op # "undefined"
  /\ aaLists' = [aaLists EXCEPT ![c] = <<>>]
  /\ defined' = [x \in DOMAIN defined |-> IF x[1] = c THEN NotDefined ELSE defined[x]]
  /\ wire' = [wire EXCEPT ![c] = <<>>]
  /\ answer' = [answer EXCEPT ![c] = NoAnswer]
  /\ seen' = [seen EXCEPT ![c].clean = @ /\ call[c].op # "load"]
  /\ CASE call[c].op = "load" ->
            /\ logicalDevices' = [logicalDevices EXCEPT ![c] = LostWhileLoading(c).devices]
            /\ Return(c, LostWhileLoading(c).error, <<>>)
       [] call[c].op = "names" ->
            Return(c, "lost", [got |-> call[c].got]) /\ UNCHANGED logicalDevices
       [] call[c].op = "none" -> UNCHANGED <<call, result, logicalDevices>>
       [] OTHER -> Return(c, "lost", <<>>) /\ UNCHANGED logicalDevices
  /\ UNCHANGED <<m, lists, timeouts, changes>>

-----------------------------------------------------------------------------
(* The directories, taken from the names that were loaded.                 *)

IedConnection_getLogicalDeviceDirectory(device) ==
  LET nodes == SelectSeq(device.variables, LAMBDA name : Len(name) = 1)
  IN [i \in DOMAIN nodes |-> nodes[i][1]]

(* A variable is of the logical node when the name of its own node is the  *)
(* beginning of the requested one.                                         *)
NodeMatches(requested, node) == requested = node \/ <<requested, node>> \in StartsWith

addVariablesWithFc(fc, lnName, variables) ==
  {name[3] : name \in {n \in ToSet(variables) : Len(n) = 3 /\ n[2] = fc /\ NodeMatches(lnName, n[1])}}

EveryComponent(device, lnName, acsiClass) ==
  {name[3] : name \in {n \in ToSet(device.variables) : Len(n) = 3 /\ NodeMatches(lnName, n[1])}}

IedConnection_getLogicalNodeDirectory(device, lnName, acsiClass) ==
  CASE acsiClass = "DATA_OBJECT" ->
         {name[3] : name \in {n \in ToSet(device.variables) :
                                Len(n) = 3 /\ n[2] \notin {"RP", "BR", "GO"} /\ NodeMatches(lnName, n[1])}}
    [] acsiClass = "BRCB" -> addVariablesWithFc("BR", lnName, device.variables)
    [] acsiClass = "URCB" -> addVariablesWithFc("RP", lnName, device.variables)
    [] acsiClass = "GoCB" -> addVariablesWithFc("GO", lnName, device.variables)
    [] acsiClass = "DATA_SET" ->
         {name[2] : name \in {n \in ToSet(device.dataSets) : Len(n) > 1 /\ n[1] = lnName}}

IedConnection_getLogicalNodeVariables(device, lnName) ==
  LET own == SelectSeq(device.variables, LAMBDA n : Len(n) > 1 /\ NodeMatches(lnName, n[1]))
  IN [i \in DOMAIN own |-> Tail(own[i])]

(* getDataDirectory, with the functional constraints; the path is that of  *)
(* the data object below its logical node.                                 *)
getDataDirectory(device, lnName, path) ==
  {<<Last(name), name[2]>> : name \in
     {n \in ToSet(device.variables) : /\ Len(n) = Len(path) + 3 /\ n[1] = lnName
                                      /\ SubSeq(n, 3, Len(n) - 1) = path}}

-----------------------------------------------------------------------------
ServerStep(c) ==
  \/ handleGetNameListRequest(c) \/ handleDefineNamedVariableListRequest(c)
  \/ handleDeleteNamedVariableListRequest(c) \/ handleGetNamedVariableListAttributesRequest(c)
  \/ handleReadNamedVariableListRequest(c)

ClientStep(c) ==
  \/ NamesReceived(c) \/ ErrorReceived(c) \/ ChangeAnswered(c) \/ DeleteAnswered(c)
  \/ AttributesReceived(c) \/ ValuesReceived(c)

Next == \E c \in Clients :
  \/ ServerStep(c) \/ ClientStep(c) \/ TimeOut(c) \/ ConnectionLost(c)
  \/ IedConnection_getDeviceModelFromServer(c)
  \/ MmsConnection_getVariableListNamesAssociationSpecific(c)
  \/ \E key \in Named(c, "directory") : IedConnection_getDataSetDirectory(c, key)
  \/ \E key \in Named(c, "values") : IedConnection_readDataSetValues(c, key)
  \/ \E key \in Named(c, "delete") : IedConnection_deleteDataSet(c, key)
  \/ \E key \in Named(c, "create") : \E references \in Definitions(key) :
       IedConnection_createDataSet(c, key, references)

Spec == Init /\ [][Next]_vars

-----------------------------------------------------------------------------
(* What the IED model says, for comparison: its nodes with their paths, as *)
(* far as they have names of their own (not inside arrays).                *)
RECURSIVE NodesBelow(_, _)
NodesBelow(path, children) ==
  UNION {LET node == children[i]  here == Append(path, node.name) IN
           {[path |-> here, node |-> node]}
             \cup (IF node.elementCount > 0 THEN {} ELSE NodesBelow(here, node.children)) :
         i \in DOMAIN children}

RECURSIVE Constraints(_)
Constraints(node) ==
  IF node.modelType = "DataAttribute" THEN {node.fc}
  ELSE UNION {Constraints(node.children[i]) : i \in DOMAIN node.children}

ModelNodes(device) ==
  UNION {{[ln |-> node.name, at |-> x] : x \in NodesBelow(<<>>, node.children)} : node \in ToSet(device.nodes)}

BlockNames(node) ==
  UNION {LET spec == IF rcb.buffered THEN createBufferedReportControlBlock(rcb.name)
                                     ELSE createUnbufferedReportControlBlock(rcb.name)
             at == <<node.name, IF rcb.buffered THEN "BR" ELSE "RP">>
         IN {at, Append(at, rcb.name)} \cup {at \o <<rcb.name, element.name>> : element \in ToSet(spec.elements)} :
         rcb \in ToSet(node.rcbs)}
    \cup UNION {{<<node.name, "GO">>, <<node.name, "GO", gcb>>}
           \cup {<<node.name, "GO", gcb, element.name>> :
                   element \in ToSet(createMmsGooseControlBlock(gcb).elements)}
           \cup {<<node.name, "GO", gcb, "DstAddress", part>> : part \in {"Addr", "PRIORITY", "VID", "APPID"}} :
         gcb \in ToSet(node.gcbs)}

(* Each node of the model once for each constraint it has data of, the     *)
(* logical nodes and their constraints, and the control blocks.            *)
ExpectedNames(device, nodes) ==
  UNION {{<<x.ln, fc>>, <<x.ln, fc>> \o x.at.path} :
           <<x, fc>> \in {y \in nodes \X ToSet(Order) : y[2] \in Constraints(y[1].at.node)}}
    \cup {<<node.name>> : node \in ToSet(device.nodes)}
    \cup UNION {BlockNames(node) : node \in ToSet(device.nodes)}

RECURSIVE DistinctNames(_)
DistinctNames(children) ==
  /\ IsInjective(NamesOf(children))
  /\ \A i \in DOMAIN children : DistinctNames(children[i].children)

(* Two specifications say the same, binary times apart.                    *)
RECURSIVE SameType(_, _)
SameType(a, b) ==
  /\ a.name = b.name /\ a.type = b.type /\ (a.type = "BINARY_TIME" \/ a.size = b.size)
  /\ DOMAIN a.elements = DOMAIN b.elements
  /\ \A i \in DOMAIN a.elements : SameType(a.elements[i], b.elements[i])

TypeAsInModel(spec, node) ==
  IF node.elementCount > 0 THEN spec.type = "ARRAY" /\ spec.size = node.elementCount
  ELSE IF node.children # <<>> THEN spec.type = "STRUCTURE"
  ELSE SameType(spec, [BasicType[node.type] EXCEPT !.name = node.name])

Resolves(mms, nodes, name) ==
  LET found == MmsDomain_getNamedVariable(mms.domain, name)
      same == {x \in nodes : <<x.ln>> \o x.at.path = <<name[1]>> \o SubSeq(name, 3, Len(name))}
  IN /\ found # <<>>
     /\ SameType(decodeTypeSpecification(found[1].name, encodeTypeSpecification(found[1])), found[1])
     /\ Len(name) > 2 /\ name[2] \notin {"RP", "BR", "GO"}
          => \E x \in same : TypeAsInModel(found[1], x.at.node)
     /\ Len(name) > 1 /\ name[2] \notin NotCached
          => LET value == MmsValueCache_lookupValue(mms.domain, mms.cache, name)
             IN value # <<>> /\ value[1].at = <<mms.ied.name>> \o name

(* Of a device: its nodes, the names it ought to have, the names that can  *)
(* be used, and whether each name is given once.                           *)
ExpectedOf(mms) ==
  Only({[nodes |-> nodes, names |-> ExpectedNames(mms.ied, nodes),
         usable |-> {name \in ToSet(mms.variables) : Resolves(mms, nodes, name)},
         proper |-> \A node \in ToSet(mms.ied.nodes) : DistinctNames(node.children)] :
        nodes \in {ModelNodes(mms.ied)}})

Expected == [i \in DOMAIN Models |-> LET model == Servers[i] IN
               [ld \in DOMAIN model.device |-> ExpectedOf(model.device[ld])]]

PlaceOf(reference) == <<reference.ld, reference.path[1], reference.fc>> \o Tail(reference.path)
DevicesOf(c) == IF logicalDevices[c] = <<>> THEN <<>> ELSE logicalDevices[c][1]
JustLoaded(c) == result[c].op = "load" /\ result[c].error = "none" /\ seen[c].clean

(* The data model a client keeps never has a name the server does not      *)
(* have: devices, and the variables of each, are the first ones of the     *)
(* server's, also after a load that failed or timed out.  A load without   *)
(* disturbance has each variable the IED model calls for (every node once  *)
(* for each functional constraint it has data of, and the control blocks)  *)
(* and, unless one was deleted and created again meanwhile, every data set *)
(* that existed during the whole load and none that never did.             *)
ModelComplete == \A c \in Clients : LET devices == DevicesOf(c) IN
  /\ \A k \in DOMAIN devices :
       /\ devices[k].name = Servers[m].names[k]
       /\ IsPrefix(devices[k].variables, Servers[m].device[devices[k].name].variables)
  /\ JustLoaded(c) =>
       /\ Len(devices) = Len(Servers[m].names)
       /\ \A k \in DOMAIN devices :
            LET ld == devices[k].name  dataSets == {<<ld, name>> : name \in ToSet(devices[k].dataSets)}
                OfDevice(names) == {x \in names : x[1] = ld}
            IN /\ ToSet(devices[k].variables) = Expected[m][ld].names
               /\ dataSets \subseteq seen[c].ever
               /\ ~seen[c].recreated => OfDevice(seen[c].always) \subseteq dataSets

(* Every name a client has loaded can be used: it is there once, the       *)
(* server finds the variable by it, describes it to the client with the    *)
(* type the attribute has in the IED model, and finds its own value and    *)
(* no other's in the cache, except below the constraints that have their   *)
(* values elsewhere (CO, RP, BR, GO).  Names are unique as long as the     *)
(* nodes of the IED model are: CDC_APC with a cancel command and the       *)
(* yearly counters of CDC_CTE and CDC_TMS create a name twice.             *)
NamesResolve == \A c \in Clients : \A device \in ToSet(DevicesOf(c)) :
  \E expected \in {Expected[m][device.name]} :
    /\ ToSet(device.variables) \subseteq expected.usable
    /\ expected.proper => Cardinality(ToSet(device.variables)) = Len(device.variables)

DirectoriesOfModel(c) == \A device \in ToSet(DevicesOf(c)) :
  \E expected \in {Expected[m][device.name]}, ied \in {Servers[m].device[device.name].ied} :
    /\ IedConnection_getLogicalDeviceDirectory(device) = NamesOf(ied.nodes)
    /\ \A node \in ToSet(ied.nodes) :
         LET Of(acsiClass) == IedConnection_getLogicalNodeDirectory(device, node.name, acsiClass)
             NamesIn(s) == ToSet(NamesOf(s))
         IN (\A other \in ToSet(ied.nodes) : <<node.name, other.name>> \notin StartsWith) =>
              /\ Of("DATA_OBJECT") = NamesIn(node.children)
              /\ Of("URCB") = NamesIn(Rcbs(node, FALSE)) /\ Of("BRCB") = NamesIn(Rcbs(node, TRUE))
              /\ Of("GoCB") = ToSet(node.gcbs)
              /\ ToSet(IedConnection_getLogicalNodeVariables(device, node.name))
                   = {Tail(n) : n \in {x \in expected.names : Len(x) > 1 /\ x[1] = node.name}}
    /\ \A x \in {y \in expected.nodes : y.at.node.elementCount = 0} :
         getDataDirectory(device, x.ln, x.at.path) =
           {<<child.name, fc>> : <<child, fc>> \in
              {y \in ToSet(x.at.node.children) \X ToSet(Order) : y[2] \in Constraints(y[1])}}

(* When a load returns undisturbed, the directories the client computes    *)
(* from the loaded names are those of the IED model: the logical nodes,    *)
(* for each node its data objects and control blocks and for each data     *)
(* object and structured attribute its parts with their constraints;       *)
(* except for a logical node whose name starts with that of another one,   *)
(* which gets the other's objects too.                                     *)
DirectoryExact ==
  [][\A c \in Clients : call[c].op = "load" /\ JustLoaded(c)' => DirectoriesOfModel(c)']_vars

(* The directory of a data set is what its creator named, reference by     *)
(* reference, as of the moment the server answered, and reading it gives   *)
(* the value of each member in that order, whatever other clients create   *)
(* and delete, and whichever requests are given up; the data sets of the   *)
(* model are always there.                                                 *)
DataSetsExact ==
  /\ \A c \in Clients :
       /\ result[c].op = "directory" /\ result[c].error = "none" => result[c].members = result[c].asOf
       /\ result[c].op = "values" /\ result[c].error = "none" =>
            [i \in DOMAIN result[c].values |-> result[c].values[i].at]
              = [i \in DOMAIN result[c].asOf |-> PlaceOf(result[c].asOf[i])]
  /\ \A dataSet \in ToSet(Servers[m].dataSets) :
       FirstNamed(lists[dataSet.ld], dataSet.name) # <<>>
=============================================================================
