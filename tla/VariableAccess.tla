---------------------------- MODULE VariableAccess ----------------------------
(***************************************************************************)
(* A structured value as a variable of the server's data model.  The       *)
(* application updates it (IedServer_update...), clients read and write it *)
(* as a whole, its components, or several of them in one request, under    *)
(* the write access policies and handlers the application has set, and the *)
(* subscribers of a data set are told of changes.                          *)
(*                                                                         *)
(* The variable is a constructed data attribute (kind "attribute") or what *)
(* a data object has under one functional constraint (kind "object"): the  *)
(* server keeps a value for both, but only the former is a data attribute. *)
(* Place 0 is the whole, places 1 and 2 are its components.  A request is  *)
(* handled under the lock of the data model, which the application takes   *)
(* for its updates, so that each is one step.                              *)
(***************************************************************************)
EXTENDS MmsValueApi

CONSTANTS Offered(_),       \* what is written to a component of a variable
          Configurations,   \* [kind, fc, options, members] and the types of components
          MaxPduSize,       \* negotiated for the connection
          MaxAccesses,      \* bound on the operations on a variable of the model
          MaxWriteItems     \* CONFIG_MMS_WRITE_SERVICE_MAX_NUMBER_OF_WRITE_ITEMS

VARIABLES config,           \* what the variable is; never changes
          policies,         \* functional constraints with write access allowed
          handlers,         \* of writes, in the order of installation: [at, allow]
          image             \* values of the members as report and GOOSE subscribers know them

accessVars == <<policies, handlers, image>>
allVars == <<apiVars, config, accessVars>>

Places == {0} \cup Components
Unknown == 3                \* a name the server does not have

IsAttribute(p) == p \in Components \/ config.kind = "attribute"

ValueAt(v, p) == IF p = 0 THEN v ELSE GetElement(v, p - 1)
PutAt(v, p, w) == IF p = 0 THEN w ELSE SetElement(v, p - 1, w)
SpecAt(p) == IF p = 0 THEN StructureOf(specs) ELSE specs[p]

(* The attribute with 13 bits is a quality.                                *)
IsQuality(p) == p \in Components /\ specs[p].type = "bit-string" /\ specs[p].n = -13
TriggerOptions(p) == IF IsQuality(p) THEN {"qchg"} ELSE config.options

(***************************************************************************)
(* Triggers.  s = [value, image]                                           *)
(***************************************************************************)
(* isMemberValueRecursive: the value at p is that of member m or in it.    *)
IsMemberValue(m, p) == m = p \/ m = 0

(* MmsMapping_triggerReportObservers, of a control block with all trigger  *)
(* options: only the first member that has the value is reported.          *)
TriggerReportObservers(s, p) ==
  LET found == {i \in DOMAIN config.members : IsMemberValue(config.members[i], p)} IN
  IF found = {} THEN s
  ELSE [s EXCEPT !.image.report[Min(found)] =
          ValueAt(s.value, config.members[Min(found)])]

(* MmsMapping_triggerGooseObservers: the message has the whole data set.   *)
TriggerGooseObservers(s, p) ==
  IF \E m \in Range(config.members) : IsMemberValue(m, p)
  THEN [s EXCEPT !.image.goose = [i \in DOMAIN config.members |-> ValueAt(s.value, config.members[i])]]
  ELSE s

CheckForUpdateTrigger(s, p) ==
  IF "dupd" \in TriggerOptions(p) THEN TriggerReportObservers(s, p) ELSE s

(* Mutant: a change is announced before the value is set.                  *)
AnnounceFirst(s, p, v) ==
  LET t == TriggerGooseObservers(TriggerReportObservers(s, p), p)
  IN [t EXCEPT !.value = PutAt(@, p, v)]

(* The value is set, then checkForChangedTriggers.                         *)
SetAndAnnounce(s, p, v) ==
  LET t == [s EXCEPT !.value = PutAt(@, p, v)]
  IN TriggerGooseObservers(IF {"dchg", "qchg"} \cap TriggerOptions(p) # {}
                           THEN TriggerReportObservers(t, p) ELSE t, p)

(***************************************************************************)
(* Updates by the application                                              *)
(***************************************************************************)
(* IedServer_updateAttributeValue.  What MmsValue_update refuses is        *)
(* announced like a change.                                                *)
IedServer_updateAttributeValue(s, p, d) ==
  LET v == ValueAt(s.value, p) IN
  IF Equals(v, d) THEN CheckForUpdateTrigger(s, p)
  ELSE SetAndAnnounce(s, p, Update(v, d).value)

(* IedServer_updateBooleanAttributeValue and its kin, one for each type    *)
(* that has one.  (Floating point numbers are compared by the processor;   *)
(* no NaN and no negative zero is among the natives.)                      *)
HasTypedUpdate(v) ==
  /\ v.type \in {"boolean", "integer", "unsigned", "bit-string", "visible-string", "utc-time", "float"}
  /\ v.type = "float" => v.formatWidth = 32
  /\ v.type = "visible-string" => v.str # NULL    \* strcmp

UpdateTyped(s, p, n) ==
  LET v == ValueAt(s.value, p) IN
  IF Read(v, n) = n THEN CheckForUpdateTrigger(s, p) ELSE SetAndAnnounce(s, p, Written(v, n))

(* IedServer_getBooleanAttributeValue and its kin.                         *)
AttributeValue(p, n) == Read(ValueAt(value, p), n)

(* IedServer_updateQuality: no trigger for an update without a change.     *)
IedServer_updateQuality(s, p, n) ==
  LET v == ValueAt(s.value, p)  t == [s EXCEPT !.value = PutAt(@, p, BitsFromInteger(v, n))] IN
  IF BitsAsInteger(v) = n THEN s
  ELSE TriggerGooseObservers(IF "qchg" \in TriggerOptions(p) THEN TriggerReportObservers(t, p) ELSE t, p)

(***************************************************************************)
(* Writes by a client: the server                                          *)
(***************************************************************************)
Success == -1               \* DATA_ACCESS_ERROR_SUCCESS
AccessDenied == 3           \* DATA_ACCESS_ERROR_OBJECT_ACCESS_DENIED
NonExistent == 10           \* DATA_ACCESS_ERROR_OBJECT_NONE_EXISTENT
ValueInvalid == 11          \* DATA_ACCESS_ERROR_OBJECT_VALUE_INVALID

(* isWritableFC                                                            *)
WritableFC == {"CF", "DC", "SP", "SV"}

(* checkIfValueBelongsToModelNode: the attribute has the value at p, or    *)
(* one is a part of the other.                                             *)
Concerns(attribute, p) == attribute = p \/ attribute = 0 \/ p = 0

(* The first handler that concerns the value decides, others are not       *)
(* asked; the policy counts when there is none.                            *)
AccessAllowed(p) ==
  LET asked == SelectSeq(handlers, LAMBDA h : Concerns(h.at, p)) IN
  IF asked = <<>> THEN config.fc \in policies ELSE Head(asked).allow

(* Mutant: the value is set before the access is checked.                  *)
WriteThenCheck(s, p, d) ==
  IF config.fc \notin WritableFC \/ ~EqualTypes(ValueAt(s.value, p), d) THEN [state |-> s, result |-> AccessDenied]
  ELSE [state  |-> IF IsAttribute(p) THEN IedServer_updateAttributeValue(s, p, d) ELSE s,
        result |-> IF AccessAllowed(p) THEN Success ELSE AccessDenied]

(* mmsWriteHandler for data of the model; the constraints of controls and  *)
(* control blocks have their own handlers.  A data object has no data      *)
(* attribute with its value: nothing is set and the write succeeds.        *)
(* Observers (IedServer_observeDataAttribute) are called at the end.       *)
MmsWriteHandler(s, p, d) ==
  LET refuse(e) == [state |-> s, result |-> e] IN
  CASE config.fc \notin WritableFC -> refuse(AccessDenied)
    [] ~EqualTypes(ValueAt(s.value, p), d) -> refuse(ValueInvalid)
    [] ~AccessAllowed(p) -> refuse(AccessDenied)
    [] OTHER -> [state  |-> IF IsAttribute(p) THEN IedServer_updateAttributeValue(s, p, d) ELSE s,
                 result |-> Success]

(* mmsServer_createMmsWriteResponse, from the tag of the write on.         *)
WriteResponse(results) ==
  LET item(e) == IF e = Success THEN EncodeTL(129, 0) ELSE EncodeUInt32WithTL(128, ErrorOctets(e))
      items == FoldLeft(LAMBDA octets, e : octets \o item(e), <<>>, results)
  IN EncodeTL(165, Len(items)) \o items

(* mmsServer_handleWriteRequest: every item has its result.  <<>> is a     *)
(* reject.                                                                 *)
MmsServer_handleWriteRequest(s, items) ==
  LET write(a, item) ==
        LET r == IF item.at = Unknown THEN [state |-> a.state, result |-> NonExistent]
                 ELSE MmsWriteHandler(a.state, item.at, item.data)
        IN [state |-> r.state, results |-> Append(a.results, r.result)]
      done == FoldLeft(write, [state |-> s, results |-> <<>>], items)
  IN IF Len(items) > MaxWriteItems THEN [state |-> s, response |-> <<>>]
     ELSE [state |-> done.state, response |-> WriteResponse(done.results)]

(***************************************************************************)
(* Writes by a client: the client                                          *)
(***************************************************************************)
(* IedConnection_writeBooleanValue and its kin, or IedConnection_writeObject*)
(* with a value the client has made.                                       *)
ClientValue(spec, n) == Written(NewDefaultValue(spec), n)

MmsErrors == <<"object-invalidated", "hardware-fault", "temporarily-unavailable", "access-denied",
               "object-undefined", "invalid-address", "type-unsupported", "type-inconsistent",
               "attribute-inconsistent", "access-unsupported", "non-existent", "value-invalid">>
MapDataAccessErrorToMmsError(e) == IF e \in 0 .. 11 THEN MmsErrors[e + 1] ELSE "other"

(* mmsClient_parseWriteResponse: of one item.                              *)
MmsClient_parseWriteResponse(buf) ==
  LET l == DecodeLength(Tail(buf))
      e == Element(l.rest)
  IN CASE buf[1] # 165 \/ ~l.ok -> "parsing"
       [] e.tag = 129 -> "none"
       [] e.tag = 128 -> MapDataAccessErrorToMmsError(Unsigned(e.val))
       [] OTHER -> "none"

(* mmsClient_parseWriteMultipleItemsResponse: the access results, or <<>>  *)
(* if their number is not that of the items.                               *)
MmsClient_parseWriteMultipleItemsResponse(buf, count) ==
  LET RECURSIVE results(_)
      results(octets) ==
        IF octets = <<>> THEN <<>>
        ELSE LET e == Element(octets)
             IN (CASE e.tag = 129 -> <<Success>> [] e.tag = 128 -> <<Unsigned(e.val)>> [] OTHER -> <<>>)
                  \o results(e.rest)
      found == results(Element(buf).val)
  IN IF buf[1] = 165 /\ Len(found) = count THEN found ELSE <<>>

(* Which items the client is told were written.                            *)
ToldWritten(buf, count) ==
  IF buf = <<>> THEN {}
  ELSE IF count = 1 THEN {i \in {1} : MmsClient_parseWriteResponse(buf) = "none"}
  ELSE LET found == MmsClient_parseWriteMultipleItemsResponse(buf, count)
       IN {i \in DOMAIN found : found[i] = Success}

(***************************************************************************)
(* Reads                                                                   *)
(***************************************************************************)
(* addNamedVariableToResultList, of what is in the cache                   *)
ResultOf(p) ==
  IF p = Unknown THEN [type |-> "access-error", err |-> NonExistent] ELSE ValueAt(value, p)

InvokeId == <<0, 0, 0, 200>>
ListSpec == [domainId |-> <<76, 68>>, itemId |-> <<76, 78, 36, 68>>]

(* encodeVariableAccessSpecification, of a domain-specific list            *)
EncodeVariableAccessSpecification(spec) ==
  LET names == EncodeOctetString(26, spec.domainId) \o EncodeOctetString(26, spec.itemId)
      specific == EncodeTL(161, Len(names)) \o names
      listName == EncodeTL(161, Len(specific)) \o specific
  IN EncodeTL(160, Len(listName)) \o listName

(* The content of the response: the specification and the list of n octets *)
ContentLength(n, spec) == 1 + DetermineLengthSize(n) + n + Len(spec)

(* encodeReadResponse: lengths are computed before anything is written,    *)
(* from the size n of the results; <<>> when the response is too large and *)
(* an error is sent instead.                                               *)
EncodeReadResponse(n, results, spec) ==
  LET length == ContentLength(n, spec)
      size == 1 + DetermineLengthSize(length) + length + 2 + UInt32DetermineEncodedSize(InvokeId)
  IN IF 1 + DetermineLengthSize(size) + size > MaxPduSize THEN <<>>
     ELSE EncodeTL(161, size) \o EncodeUInt32WithTL(2, InvokeId)
            \o EncodeTL(164, length) \o spec \o EncodeTL(161, n) \o results

(* The generated decoder on the content of the response.                   *)
DecodeContent(first) == DecodeData(IF first.tag = 160 THEN Element(first.rest).val ELSE first.val)
DecodeReadResponse(buf) == DecodeContent(Element(Element(Element(Element(buf).val).rest).val))

(* mmsClient_parseListOfAccessResults                                      *)
ParseAccessResult(d) ==
  IF d.present # "access-error" THEN ParseDataElement(d)
  ELSE [type |-> "access-error", err |-> IF d.octets[1] < 12 THEN d.octets[1] ELSE 12]

ParseListOfAccessResults(list, createArray) ==
  IF Len(list) > 1 \/ createArray
  THEN NewComplex("array", [i \in DOMAIN list |-> ParseAccessResult(list[i])])
  ELSE ParseAccessResult(list[1])

(* The server's response to a read of some places, with spec in front.     *)
ReadResponse(values, spec) == EncodeReadResponse(SizeOfAll(values), EncodeAll(values), spec)

(* MmsConnection_readVariable (createArray = FALSE),                       *)
(* _readMultipleVariables and, with a specification in the result,         *)
(* _readNamedVariableListValues; NULL if the server sends an error.        *)
ReadBy(response, createArray) ==
  IF response = <<>> THEN NULL ELSE ParseListOfAccessResults(DecodeReadResponse(response), createArray)
ReadPlaces(ps, spec, createArray) ==
  ReadBy(ReadResponse([i \in DOMAIN ps |-> ResultOf(ps[i])], spec), createArray)

MapDataAccessErrorToIedError(e) ==
  CASE e = NonExistent -> "does-not-exist" [] e = AccessDenied -> "access-denied" [] e = 9 -> "unsupported"
    [] OTHER -> "unknown"

(* The types for which there is a function like                            *)
(* IedConnection_readBooleanValue; a quality must have 13 bits.            *)
HasTypedRead(spec) ==
  \/ spec.type \in {"boolean", "visible-string", "mms-string", "unsigned", "utc-time"}
  \/ spec.type \in {"integer", "float"} /\ spec.n = 32
  \/ spec.type = "bit-string" /\ spec.n = -13

TypedRead(v, n, types) ==
  CASE v.type \in types -> [error |-> "ok", got |-> Read(v, n)]
    [] v.type = "access-error" -> [error |-> MapDataAccessErrorToIedError(v.err)]
    [] OTHER -> [error |-> "unexpected"]

(***************************************************************************)
(* The actions                                                             *)
(***************************************************************************)
AccessInit ==
  /\ config \in Configurations
  /\ specs \in config.types
  /\ value = NewDefaultValue(StructureOf(specs))
  /\ wrote = [i \in Components |-> <<>>]
  /\ operations = 0
  /\ policies = {"SP", "SV"}
  /\ handlers = <<>>
  /\ \E known \in {[i \in DOMAIN config.members |-> ValueAt(value, config.members[i])]} :
       image = [report |-> known, goose |-> known]

InModel == config.kind # "value" /\ operations < MaxAccesses /\ Operation /\ UNCHANGED config
State == [value |-> value, image |-> image]
Becomes(s) == value' = s.value /\ image' = s.image

(* The application updates one attribute with a native value.              *)
ApplicationUpdates(p) == \E n \in Offered(specs[p]) :
  /\ InModel /\ UNCHANGED <<policies, handlers>>
  /\ HasTypedUpdate(ValueAt(value, p))
  /\ Becomes(IF IsQuality(p) THEN IedServer_updateQuality(State, p, n) ELSE UpdateTyped(State, p, n))
  /\ wrote' = [wrote EXCEPT ![p] = <<n>>]

(* The values of one place that a client, or the application, makes: what  *)
(* it says and the value it has for that.                                  *)
Data(p) ==
  IF p = 0
  THEN {[at |-> 0, says |-> <<n1, n2>>, data |-> NewComplex("structure", <<ClientValue(specs[1], n1), ClientValue(specs[2], n2)>>)] :
          n1 \in Offered(specs[1]), n2 \in Offered(specs[2])}
  ELSE {[at |-> p, says |-> [i \in {p} |-> n], data |-> ClientValue(specs[p], n)] : n \in Offered(specs[p])}

(* What is known of a component after the data x was taken: what the data  *)
(* says, if MmsValue_update accepts it.                                    *)
Known(w, x) ==
  [i \in Components |->
     IF /\ IsAttribute(x.at) /\ i \in DOMAIN x.says
        /\ SameShape(NewDefaultValue(specs[i]), IF x.at = 0 THEN GetElement(x.data, i - 1) ELSE x.data)
     THEN <<x.says[i]>> ELSE w[i]]

ApplicationSets(p) == \E x \in Data(p) :
  /\ InModel /\ UNCHANGED <<policies, handlers>>
  /\ IsAttribute(p)
  /\ Becomes(IedServer_updateAttributeValue(State, p, x.data))
  /\ wrote' = Known(wrote, x)

(* IedServer_setWriteAccessPolicy                                          *)
SetWriteAccessPolicy(fc) ==
  /\ InModel /\ UNCHANGED <<value, wrote, handlers, image>>
  /\ fc \in WritableFC
  /\ policies' \in {policies \cup {fc}, policies \ {fc}}

(* MmsMapping_installWriteAccessHandler: the handler of an attribute that  *)
(* has one is replaced in its place.                                       *)
InstallWriteAccessHandler(p) == \E allow \in BOOLEAN :
  LET handler == [at |-> p, allow |-> allow] IN
  /\ InModel /\ UNCHANGED <<value, wrote, policies, image>>
  /\ IsAttribute(p)
  /\ handlers' = IF \E i \in DOMAIN handlers : handlers[i].at = p
                 THEN [i \in DOMAIN handlers |-> IF handlers[i].at = p THEN handler ELSE handlers[i]]
                 ELSE Append(handlers, handler)

Nowhere == [at |-> Unknown, says |-> <<>>, data |-> NewBoolean(TRUE)]

(* One item; two components; one item that does not exist  *)
(* and one that does; data of another type; more items than the server     *)
(* takes.                                                                  *)
Requests ==
  {<<x>> : x \in UNION {Data(p) : p \in Places}}
  \cup {<<y, x>> : x \in Data(1), y \in Data(2)}
  \cup {<<Nowhere, x>> : x \in Data(1)}
  \cup {<<[at |-> p, says |-> <<>>, data |-> NewComplex("array", <<>>)]>> : p \in Places}
  \cup {[i \in 1 .. MaxWriteItems + 1 |-> x] : x \in Data(2)}

ClientWritesVariables == \E items \in Requests :
  LET sent == [i \in DOMAIN items |-> [items[i] EXCEPT !.data = WrittenByClient(@)]]
      answer == MmsServer_handleWriteRequest(State, sent)
      told == ToldWritten(answer.response, Len(items))
  IN /\ InModel /\ UNCHANGED <<policies, handlers>>
     /\ Becomes(answer.state)
     /\ wrote' = FoldLeft(LAMBDA w, i : IF i \in told THEN Known(w, sent[i]) ELSE w,
                          wrote, [i \in DOMAIN items |-> i])

AccessNext ==
  \/ config.kind = "value" /\ Next /\ UNCHANGED <<config, accessVars>>
  \/ \E p \in Components : ApplicationUpdates(p)
  \/ \E p \in Places : ApplicationSets(p) \/ InstallWriteAccessHandler(p)
  \/ \E fc \in {config.fc} : SetWriteAccessPolicy(fc)
  \/ ClientWritesVariables

AccessSpec == AccessInit /\ [][AccessNext]_allVars

(***************************************************************************)
(* Properties                                                              *)
(***************************************************************************)
(* Reads of one variable, of several and of a data set.                    *)
Reads ==
  {[places |-> <<p>>, spec |-> <<>>, array |-> FALSE] : p \in Places}
  \cup {[places |-> <<1, Unknown, 2>>, spec |-> <<>>, array |-> TRUE],
        [places |-> <<2, 1>>, spec |-> EncodeVariableAccessSpecification(ListSpec), array |-> TRUE]}

(* What an application or a client was told to have written is what the    *)
(* application and every client read then, by a read of the component, of  *)
(* the whole, of several variables and of a data set, and with the         *)
(* function for its type, until somebody else is told the same: writes     *)
(* that were denied, refused or rejected change nothing, and the results   *)
(* of a request of several items reach the client in their order.          *)
WrittenIsRead ==
  /\ ReadsAsWritten
  /\ \A i \in Components : \A n \in Range(wrote[i]) : AttributeValue(i, n) = n
  /\ config.kind # "value" =>
       \A q \in Reads : \A got \in {ReadPlaces(q.places, q.spec, q.array)} :
         /\ q.places \in {<<1>>, <<2>>} => got # NULL
         /\ got # NULL => \A j \in DOMAIN q.places :
              \A item \in {IF q.array THEN GetElement(got, j - 1) ELSE got}, p \in {q.places[j]} :
                /\ p = Unknown => TypedRead(item, 0, {"boolean"}).error = "does-not-exist"
                /\ \A i \in {c \in Components : p \in {0, c}} :
                     \A n \in Range(wrote[i]), v \in {IF p = 0 THEN GetElement(item, i - 1) ELSE item} :
                       /\ Read(v, n) = n
                       /\ HasTypedRead(specs[i]) =>
                            TypedRead(v, n, {specs[i].type}) = [error |-> "ok", got |-> n]

(* The subscribers of a data set know the values its members have now,     *)
(* whoever changed them: each change is announced after it was made.  A    *)
(* report has one member only, so that a member that overlaps an earlier   *)
(* one is not kept up to date, nor is a part of a constructed attribute    *)
(* when the attribute is set as a whole.                                   *)
SubscribersCurrent ==
  \A i \in DOMAIN config.members :
    LET m == config.members[i]  now == ValueAt(value, m) IN
    (m = 0 \/ config.kind = "object") =>
      /\ Equals(image.goose[i], now)
      /\ (\A j \in 1 .. i - 1 : config.members[j] # 0 /\ m # 0 /\ config.members[j] # m)
           => Equals(image.report[i], now)
=============================================================================
