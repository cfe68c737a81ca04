----------------------------- MODULE DataModel -----------------------------
(***************************************************************************)
(* How the IED data model becomes MMS variables (mms_mapping.c, with the   *)
(* control blocks of reporting.c and mms_goose.c), how the variables are   *)
(* named and found by name (mms_domain.c, mms_get_namelist_service.c), the *)
(* values behind them (ied_server.c, mms_value_cache.c) and the type       *)
(* description that is sent to a client (mms_get_var_access_service.c,     *)
(* mms_client_get_var_access.c).  The names MMS writes with $ between      *)
(* their parts are sequences of those parts.                               *)
(*                                                                         *)
(* device = [name, nodes], node = [name, children, rcbs, gcbs] with rcbs a *)
(* sequence of [name, buffered]; children are nodes as module Cdc makes    *)
(* them.  A variable specification is [name, type, size, elements]; the    *)
(* name of the element of an array is NoName.                              *)
(***************************************************************************)
EXTENDS Integers, Sequences, FiniteSets, SequencesExt

NoName == "no name"

Variable(name, type, size, elements) ==
  [name |-> name, type |-> type, size |-> size, elements |-> elements]

Structure(name, elements) == Variable(name, "STRUCTURE", Len(elements), elements)

-----------------------------------------------------------------------------
(* Data attributes and objects.                                            *)

MmsMapping_createPhyComAddrStructure(name) ==
  Structure(name, << Variable("Addr", "VISIBLE_STRING", 6, <<>>), Variable("PRIORITY", "UNSIGNED", 8, <<>>),
                     Variable("VID", "UNSIGNED", 16, <<>>), Variable("APPID", "UNSIGNED", 16, <<>>) >>)

(* The MMS type of each attribute type, with its size: negative when it is *)
(* a maximum.  The size of a float is its format and exponent width.       *)
BasicType ==
  LET T(type, size) == Variable(NoName, type, size, <<>>) IN
  [BOOLEAN |-> T("BOOLEAN", 0),
   INT8 |-> T("INTEGER", 8), INT16 |-> T("INTEGER", 16), INT32 |-> T("INTEGER", 32),
   INT64 |-> T("INTEGER", 64), INT128 |-> T("INTEGER", 128),
   INT8U |-> T("UNSIGNED", 8), INT16U |-> T("UNSIGNED", 16), INT24U |-> T("UNSIGNED", 24),
   INT32U |-> T("UNSIGNED", 32),
   FLOAT32 |-> T("FLOAT", 32 + 8), FLOAT64 |-> T("FLOAT", 64 + 11),
   ENUMERATED |-> T("INTEGER", 8), CHECK |-> T("BIT_STRING", -2), CODEDENUM |-> T("BIT_STRING", 2),
   OCTET_STRING_6 |-> T("OCTET_STRING", -6), OCTET_STRING_8 |-> T("OCTET_STRING", 8),
   OCTET_STRING_64 |-> T("OCTET_STRING", -64),
   VISIBLE_STRING_32 |-> T("VISIBLE_STRING", -129), VISIBLE_STRING_64 |-> T("VISIBLE_STRING", -129),
   VISIBLE_STRING_65 |-> T("VISIBLE_STRING", -129), VISIBLE_STRING_129 |-> T("VISIBLE_STRING", -129),
   VISIBLE_STRING_255 |-> T("VISIBLE_STRING", -255), UNICODE_STRING_255 |-> T("STRING", -255),
   GENERIC_BITSTRING |-> T("BIT_STRING", 0), TIMESTAMP |-> T("UTC_TIME", 0),
   QUALITY |-> T("BIT_STRING", -13), ENTRY_TIME |-> T("BINARY_TIME", 6),
   PHYCOMADDR |-> MmsMapping_createPhyComAddrStructure(NoName)]

LOCAL ArrayOr(node, spec) ==
  IF node.elementCount > 0 THEN Variable(node.name, "ARRAY", node.elementCount, <<spec>>)
                           ELSE [spec EXCEPT !.name = node.name]

(* The functional constraints of the children of an attribute are not      *)
(* looked at.                                                              *)
RECURSIVE createNamedVariableFromDataAttribute(_)
createNamedVariableFromDataAttribute(attribute) ==
  ArrayOr(attribute,
    IF attribute.children = <<>> THEN BasicType[attribute.type]
    ELSE Structure(NoName, [i \in DOMAIN attribute.children |->
                              createNamedVariableFromDataAttribute(attribute.children[i])]))

RECURSIVE DataObject_hasFCData(_, _)
DataObject_hasFCData(dataObject, fc) ==
  \E i \in DOMAIN dataObject.children : LET child == dataObject.children[i] IN
    IF child.modelType = "DataAttribute" THEN child.fc = fc ELSE DataObject_hasFCData(child, fc)

LogicalNode_hasFCData(node, fc) ==
  \E i \in DOMAIN node.children : DataObject_hasFCData(node.children[i], fc)

(* countChildrenWithFc: the children that become components.               *)
ChildrenWithFc(dataObject, fc) ==
  SelectSeq(dataObject.children, LAMBDA child :
    IF child.modelType = "DataAttribute" THEN child.fc = fc ELSE DataObject_hasFCData(child, fc))

RECURSIVE createFCNamedVariableFromDataObject(_, _)
createFCNamedVariableFromDataObject(dataObject, fc) ==
  ArrayOr(dataObject, Structure(NoName,
    LET components == ChildrenWithFc(dataObject, fc) IN
    [i \in DOMAIN components |->
       IF components[i].modelType = "DataAttribute"
         THEN createNamedVariableFromDataAttribute(components[i])
         ELSE createFCNamedVariableFromDataObject(components[i], fc)]))

createFCNamedVariable(node, fc) ==
  LET objects == SelectSeq(node.children, LAMBDA object : DataObject_hasFCData(object, fc))
  IN Structure(fc, [i \in DOMAIN objects |-> createFCNamedVariableFromDataObject(objects[i], fc)])

-----------------------------------------------------------------------------
(* Control blocks.                                                         *)

LOCAL Block(name, components) ==
  Structure(name, [i \in DOMAIN components |->
                     Variable(components[i][1], components[i][2], components[i][3], <<>>)])

createUnbufferedReportControlBlock(name) == Block(name,
  << <<"RptID", "VISIBLE_STRING", -129>>, <<"RptEna", "BOOLEAN", 0>>, <<"Resv", "BOOLEAN", 0>>,
     <<"DatSet", "VISIBLE_STRING", -129>>, <<"ConfRev", "UNSIGNED", 32>>, <<"OptFlds", "BIT_STRING", 10>>,
     <<"BufTm", "UNSIGNED", 32>>, <<"SqNum", "UNSIGNED", 16>>, <<"TrgOps", "BIT_STRING", 6>>,
     <<"IntgPd", "UNSIGNED", 32>>, <<"GI", "BOOLEAN", 0>>, <<"Owner", "OCTET_STRING", -128>> >>)

createBufferedReportControlBlock(name) == Block(name,
  << <<"RptID", "VISIBLE_STRING", -129>>, <<"RptEna", "BOOLEAN", 0>>,
     <<"DatSet", "VISIBLE_STRING", -129>>, <<"ConfRev", "UNSIGNED", 32>>, <<"OptFlds", "BIT_STRING", 10>>,
     <<"BufTm", "UNSIGNED", 32>>, <<"SqNum", "UNSIGNED", 16>>, <<"TrgOps", "BIT_STRING", 6>>,
     <<"IntgPd", "UNSIGNED", 32>>, <<"GI", "BOOLEAN", 0>>, <<"PurgeBuf", "BOOLEAN", 0>>,
     <<"EntryID", "OCTET_STRING", 8>>, <<"TimeOfEntry", "BINARY_TIME", 0>>,
     <<"ResvTms", "UNSIGNED", 32>>, <<"Owner", "OCTET_STRING", -128>> >>)

createMmsGooseControlBlock(name) ==
  LET plain == Block(name,
        << <<"GoEna", "BOOLEAN", 0>>, <<"GoID", "VISIBLE_STRING", -129>>,
           <<"DatSet", "VISIBLE_STRING", -129>>, <<"ConfRev", "UNSIGNED", 32>>, <<"NdsCom", "BOOLEAN", 0>>,
           <<"DstAddress", "STRUCTURE", 4>>, <<"MinTime", "UNSIGNED", 32>>, <<"MaxTime", "UNSIGNED", 32>>,
           <<"FixedOffs", "BOOLEAN", 0>> >>)
  IN [plain EXCEPT !.elements[6] = MmsMapping_createPhyComAddrStructure("DstAddress")]

Rcbs(node, buffered) == SelectSeq(node.rcbs, LAMBDA rcb : rcb.buffered = buffered)

Reporting_createMmsBufferedRCBs(node) ==
  LET rcbs == Rcbs(node, TRUE)
  IN Structure("BR", [i \in DOMAIN rcbs |-> createBufferedReportControlBlock(rcbs[i].name)])

Reporting_createMmsUnbufferedRCBs(node) ==
  LET rcbs == Rcbs(node, FALSE)
  IN Structure("RP", [i \in DOMAIN rcbs |-> createUnbufferedReportControlBlock(rcbs[i].name)])

GOOSE_createGOOSEControlBlocks(node) ==
  Structure("GO", [i \in DOMAIN node.gcbs |-> createMmsGooseControlBlock(node.gcbs[i])])

-----------------------------------------------------------------------------
(* Logical nodes and devices.                                              *)

Order == <<"MX", "ST", "CO", "CF", "DC", "SP", "SG", "RP", "BR", "GO", "SV", "SE", "EX", "SR", "OR", "BL">>

(* determineLogicalNodeComponentCount and the counters of control blocks.  *)
HasComponent(node, fc) ==
  CASE fc = "RP" -> Rcbs(node, FALSE) # <<>>
    [] fc = "BR" -> Rcbs(node, TRUE) # <<>>
    [] fc = "GO" -> node.gcbs # <<>>
    [] OTHER -> LogicalNode_hasFCData(node, fc)

createNamedVariableFromLogicalNode(node) ==
  LET components == SelectSeq(Order, LAMBDA fc : HasComponent(node, fc)) IN
    Structure(node.name, [i \in DOMAIN components |->
      CASE components[i] = "RP" -> Reporting_createMmsUnbufferedRCBs(node)
        [] components[i] = "BR" -> Reporting_createMmsBufferedRCBs(node)
        [] components[i] = "GO" -> GOOSE_createGOOSEControlBlocks(node)
        [] OTHER -> createFCNamedVariable(node, components[i])])

createMmsDomainFromIedDevice(device) ==
  [i \in DOMAIN device.nodes |-> createNamedVariableFromLogicalNode(device.nodes[i])]

-----------------------------------------------------------------------------
(* Names.  addSubNamedVaribleNamesToList goes depth first into structures  *)
(* and not into arrays.                                                    *)
RECURSIVE addSubNamedVaribleNamesToList(_, _)
addSubNamedVaribleNamesToList(prefix, variable) ==
  IF variable.type # "STRUCTURE" THEN <<>>
  ELSE FlattenSeq([i \in DOMAIN variable.elements |->
         LET name == Append(prefix, variable.elements[i].name)
         IN <<name>> \o addSubNamedVaribleNamesToList(name, variable.elements[i])])

getNameListDomainSpecific(domain) ==
  FlattenSeq([i \in DOMAIN domain |->
    << <<domain[i].name>> >> \o addSubNamedVaribleNamesToList(<<domain[i].name>>, domain[i])])

(* The first of the variables with that name, in a sequence of at most one.*)
FirstNamed(variables, name) ==
  LET found == SelectSeq(variables, LAMBDA v : v.name = name)
  IN IF found = <<>> THEN <<>> ELSE <<found[1]>>

(* getNamedVariableRecursive: the last part of the name is looked up in    *)
(* structures only; a name that goes on below a variable that has no       *)
(* components is that variable.                                            *)
RECURSIVE getNamedVariableRecursive(_, _)
getNamedVariableRecursive(variable, nameId) ==
  IF Len(nameId) = 1
    THEN IF variable.type = "STRUCTURE" THEN FirstNamed(variable.elements, nameId[1]) ELSE <<>>
    ELSE LET found == FirstNamed(variable.elements, nameId[1]) IN
           IF found = <<>> THEN <<>>
           ELSE CASE found[1].type = "STRUCTURE" -> getNamedVariableRecursive(found[1], Tail(nameId))
                  [] found[1].type = "ARRAY" ->
                       getNamedVariableRecursive(found[1].elements[1], Tail(nameId))
                  [] OTHER -> found

MmsDomain_getNamedVariable(domain, nameId) ==
  LET found == FirstNamed(domain, nameId[1])
  IN IF found = <<>> \/ Len(nameId) = 1 THEN found ELSE getNamedVariableRecursive(found[1], Tail(nameId))

-----------------------------------------------------------------------------
(* Values: a value is known by the place it has in the model.              *)

RECURSIVE DefaultValue(_, _)
DefaultValue(place, spec) ==
  [at |-> place,
   components |-> IF spec.type # "STRUCTURE" THEN <<>>
                  ELSE [i \in DOMAIN spec.elements |->
                          DefaultValue(Append(place, spec.elements[i].name), spec.elements[i])]]

NotCached == {"CO", "BR", "RP", "GO"}

(* createMmsServerCache with MmsValueCache_insertValue: one value for each *)
(* functional constraint of each logical node.                             *)
createMmsServerCache(ld, domain) ==
  LET entries == UNION {{<<domain[i].name, domain[i].elements[j].name>> :
                           j \in {k \in DOMAIN domain[i].elements :
                                    domain[i].elements[k].name \notin NotCached}} : i \in DOMAIN domain}
  IN [itemId \in entries |-> DefaultValue(<<ld>> \o itemId, MmsDomain_getNamedVariable(domain, itemId)[1])]

RECURSIVE MmsVariableSpecification_getChildValue(_, _, _)
MmsVariableSpecification_getChildValue(typeSpec, value, childId) ==
  LET matching == IF typeSpec.type # "STRUCTURE" THEN {}
                  ELSE {i \in DOMAIN typeSpec.elements : typeSpec.elements[i].name = childId[1]}
  IN IF matching = {} THEN <<>>
     ELSE LET i == CHOOSE k \in matching : \A j \in matching : k <= j
          IN IF Len(childId) = 1 THEN <<value.components[i]>>
             ELSE MmsVariableSpecification_getChildValue(typeSpec.elements[i], value.components[i],
                                                         Tail(childId))

(* searchCacheForValue: the entry of the longest part of the name, then    *)
(* down by type.                                                           *)
RECURSIVE searchCacheForValue(_, _, _, _)
searchCacheForValue(domain, cache, itemId, parentId) ==
  IF parentId = <<>> THEN <<>>
  ELSE IF parentId \in DOMAIN cache
    THEN MmsVariableSpecification_getChildValue(MmsDomain_getNamedVariable(domain, parentId)[1],
           cache[parentId], SubSeq(itemId, Len(parentId) + 1, Len(itemId)))
    ELSE searchCacheForValue(domain, cache, itemId, Front(parentId))

MmsValueCache_lookupValue(domain, cache, itemId) ==
  IF itemId \in DOMAIN cache THEN <<cache[itemId]>>
  ELSE searchCacheForValue(domain, cache, itemId, Front(itemId))

-----------------------------------------------------------------------------
RECURSIVE encodeFixedSizes(_)
encodeFixedSizes(spec) ==
  [type |-> spec.type, size |-> IF spec.size < 0 THEN -spec.size ELSE spec.size,
   names |-> [i \in DOMAIN spec.elements |-> spec.elements[i].name],
   components |-> [i \in DOMAIN spec.elements |-> encodeFixedSizes(spec.elements[i])]]

(* The type description: createTypeSpecification of the server sends names *)
(* with the components of structures, and one bit for a binary time.  One  *)
(* that is larger than a PDU, which is answered with an error, is not in   *)
(* the model: sizes of descriptions are not.                               *)
RECURSIVE encodeTypeSpecification(_)
encodeTypeSpecification(spec) ==
  [type |-> spec.type,
   size |-> IF spec.type = "BINARY_TIME" THEN (IF spec.size = 6 THEN 1 ELSE 0) ELSE spec.size,
   names |-> IF spec.type = "STRUCTURE" THEN [i \in DOMAIN spec.elements |-> spec.elements[i].name] ELSE <<>>,
   components |-> [i \in DOMAIN spec.elements |-> encodeTypeSpecification(spec.elements[i])]]

(* createTypeSpecification of the client.                                  *)
RECURSIVE decodeTypeSpecification(_, _)
decodeTypeSpecification(name, asn) ==
  Variable(name, asn.type,
       IF asn.type = "BINARY_TIME" THEN (IF asn.size = 0 THEN 4 ELSE 6) ELSE asn.size,
       [i \in DOMAIN asn.components |->
          decodeTypeSpecification(IF asn.type = "STRUCTURE" THEN asn.names[i] ELSE NoName,
                                  asn.components[i])])

-----------------------------------------------------------------------------
(* Object references, [ld, path, fc] with path from the logical node on,   *)
(* and the names of variables they stand for.                              *)

MmsMapping_createMmsVariableNameFromObjectReference(path, fc) == <<path[1], fc>> \o Tail(path)

MmsMapping_ObjectReferenceToVariableAccessSpec(reference) ==
  [domainId |-> reference.ld,
   itemId |-> MmsMapping_createMmsVariableNameFromObjectReference(reference.path, reference.fc)]

MmsMapping_varAccessSpecToObjectReference(spec) ==
  [ld |-> spec.domainId, path |-> <<spec.itemId[1]>> \o SubSeq(spec.itemId, 3, Len(spec.itemId)),
   fc |-> spec.itemId[2]]
=============================================================================
