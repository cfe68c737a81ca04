------------------------------- MODULE IsoPdus -------------------------------
(***************************************************************************)
(* The PDUs of the session, presentation and association control layers,   *)
(* octet by octet: what the create functions of iso_session.c,             *)
(* iso_presentation.c and acse.c write and what the parse functions of the *)
(* other end read from it.  The encoders compute the lengths they write    *)
(* before the contents, with arithmetic of their own; that is kept.        *)
(*                                                                         *)
(* A layer puts its header in front of the payload of the layer above      *)
(* (a BufferChain), so a message is header \o payload.                     *)
(***************************************************************************)
EXTENDS Ber

(***************************************************************************)
(* The loop of all parsers: while (bufPos < maxBufPos) a tag, a length,    *)
(* and length octets.  A length that does not decode ends it with an error.*)
(***************************************************************************)
Octets == Seq(Octet)
Tlv == [tag : -1 .. 255, val : Octets]
BadTlv == [tag |-> -1, val |-> <<>>]

TlvSeq == Seq(Tlv)
Length == [ok : BOOLEAN, length : Int, rest : Octets]
LengthOf[buf \in Octets] == DecodeLength(buf)

Tlvs[buf \in Octets] ==
  LET split[l \in Length] ==
        IF ~l.ok \/ l.length < 0 \/ l.length > Len(l.rest) THEN <<BadTlv>>
        ELSE <<[tag |-> buf[1], val |-> SubSeq(l.rest, 1, l.length)]>>
               \o Tlvs[SubSeq(l.rest, l.length + 1, Len(l.rest))]
  IN IF buf = <<>> THEN <<>> ELSE split[LengthOf[Tail(buf)]]

WellFormed(tlvs) == tlvs = <<>> \/ Last(tlvs) # BadTlv

(* The last element with a tag wins, as in the switch of the C loops.      *)
Has(tlvs, tag) == \E i \in DOMAIN tlvs : tlvs[i].tag = tag
Get(tlvs, tag) == tlvs[SelectLastInSeq(tlvs, LAMBDA t : t.tag = tag)].val

(***************************************************************************)
(* ACSE                                                                    *)
(***************************************************************************)
appContextNameMms == <<40, 202, 34, 2, 3>>
auth_mech_password_oid == <<82, 3, 1>>

AppContextName == EncodeTL(161, 7) \o EncodeTL(6, 5) \o appContextNameMms

(* indirect-reference, single-ASN1-type and what encloses them             *)
UserInformation(userInfoLength, assocDataLength, ref, n) ==
  EncodeTL(190, userInfoLength) \o EncodeTL(40, assocDataLength)
    \o EncodeTL(2, Len(ref)) \o ref \o EncodeTL(160, n)

(* AcseConnection_createAssociateResponseMessage                           *)
AareHeader(acseResult, nextReference, n) ==
  LET ref == EncodeUInt32(nextReference)
      assocDataLength == n + 1 + DetermineLengthSize(n) + Len(ref) + 2
      userInfoLength == assocDataLength + DetermineLengthSize(assocDataLength) + 1
      contentLength == 9 + 5 + 5 + userInfoLength + DetermineLengthSize(userInfoLength) + 1 + 2
  IN EncodeTL(97, contentLength) \o AppContextName
       \o EncodeTL(162, 3) \o EncodeTL(2, 1) \o <<acseResult>>
       \o EncodeTL(163, 5) \o EncodeTL(161, 3) \o EncodeTL(2, 1) \o <<0>>
       \o UserInformation(userInfoLength, assocDataLength, ref, n)

(* AP title and AE qualifier, left out when the title is empty             *)
ApTitleLength(title, qualifier) ==
  IF title = <<>> THEN 0
  ELSE 4 + Len(title) + 4 + UInt32DetermineEncodedSize(qualifier)

ApTitle(titleTag, title, qualifier) ==
  IF title = <<>> THEN <<>>
  ELSE LET q == EncodeUInt32(qualifier) IN
       EncodeTL(titleTag, Len(title) + 2) \o EncodeTL(6, Len(title)) \o title
         \o EncodeTL(titleTag + 1, Len(q) + 2) \o EncodeTL(2, Len(q)) \o q

(* auth: [mechanism |-> "absent" | "none" | "password", password]          *)
AuthLength(auth) ==
  LET n == Len(auth.password)
      s == DetermineLengthSize(n)
  IN CASE auth.mechanism = "absent" -> 0
       [] auth.mechanism = "password" -> 4 + 5 + 2 + n + s + DetermineLengthSize(n + s + 1)
       [] OTHER -> 4 + 5 + 2

AuthFields(auth) ==
  LET n == Len(auth.password) IN
  CASE auth.mechanism = "absent" -> <<>>
    [] auth.mechanism = "password" ->
         EncodeTL(138, 2) \o <<4, 128>> \o EncodeTL(139, 3) \o auth_mech_password_oid
           \o EncodeTL(172, DetermineLengthSize(n) + n + 1) \o EncodeTL(128, n) \o auth.password
    [] OTHER -> EncodeTL(138, 2) \o <<4, 0>>

(* AcseConnection_createAssociateRequestMessage                            *)
AarqHeader(p, auth, n) ==
  LET assocDataLength == n + 1 + DetermineLengthSize(n) + 1 + 2
      userInfoLen == assocDataLength + DetermineLengthSize(assocDataLength) + 1
      contentLength == 9 + ApTitleLength(p.remoteApTitle, p.remoteAEQualifier)
                         + ApTitleLength(p.localApTitle, p.localAEQualifier)
                         + AuthLength(auth)
                         + userInfoLen + DetermineLengthSize(userInfoLen) + 1
  IN EncodeTL(96, contentLength) \o AppContextName
       \o ApTitle(162, p.remoteApTitle, p.remoteAEQualifier)
       \o ApTitle(166, p.localApTitle, p.localAEQualifier)
       \o AuthFields(auth)
       \o UserInformation(userInfoLen, assocDataLength, <<3>>, n)

AbortApdu(isProvider) == <<100, 3, 128, 1, IF isProvider THEN 1 ELSE 0>>
ReleaseRequestApdu == <<98, 3, 128, 1, 0>>
ReleaseResponseApdu == <<99, 0>>

AcseError == [indication |-> "ACSE_ERROR", userData |-> <<>>]
AcseFailed == [indication |-> "ACSE_ASSOCIATE_FAILED", userData |-> <<>>]

(* parseUserInformation                                                    *)
NoInformation == [valid |-> FALSE, nextReference |-> <<>>, data |-> <<>>]
Information == [valid : BOOLEAN, nextReference : Octets, data : Octets]

ParseUserInformation[buf \in Octets] ==
  LET association[t \in TlvSeq] ==
        IF WellFormed(t) /\ Has(t, 2) /\ Has(t, 160)
        THEN [valid |-> TRUE, nextReference |-> DecodeUint32(Get(t, 2)), data |-> Get(t, 160)]
        ELSE NoInformation
      information[t \in TlvSeq] ==
        IF ~WellFormed(t) \/ ~Has(t, 40) THEN NoInformation ELSE association[Tlvs[Get(t, 40)]]
  IN information[Tlvs[buf]]

(* checkAuthMechanismName                                                  *)
MechanismOf(tlvs) ==
  IF Has(tlvs, 139) /\ Get(tlvs, 139) = auth_mech_password_oid THEN "password" ELSE "none"

(* authentication value: a tag and a length in front of the octets         *)
AuthValueOf(tlvs) ==
  LET octets[t \in TlvSeq] == IF t # <<>> /\ t[1] # BadTlv THEN t[1].val ELSE <<>>
  IN octets[IF Has(tlvs, 172) THEN Tlvs[Get(tlvs, 172)] ELSE <<>>]

AcseAssociated(indication, info, mechanism, password) ==
  [indication |-> indication, userData |-> info.data, nextReference |-> info.nextReference,
   mechanism |-> mechanism, password |-> password]

UserInformationOf(tlvs) ==
  IF Has(tlvs, 190) THEN ParseUserInformation[Get(tlvs, 190)] ELSE NoInformation

(* parseAarqPdu, up to the call of the authenticator                       *)
ParseAarq[tlvs \in TlvSeq] ==
  LET associated[info \in Information] ==
        IF ~info.valid THEN AcseFailed
        ELSE AcseAssociated("ACSE_ASSOCIATE", info, MechanismOf(tlvs), AuthValueOf(tlvs))
  IN IF ~WellFormed(tlvs) THEN AcseError ELSE associated[UserInformationOf(tlvs)]

(* parseAarePdu                                                            *)
ParseAare[tlvs \in TlvSeq] ==
  LET result == IF Has(tlvs, 162) THEN Unsigned(Tlvs[Get(tlvs, 162)][1].val) ELSE 99
      associated[info \in Information] ==
        IF ~info.valid THEN AcseError
        ELSE AcseAssociated(IF result # 0 THEN "ACSE_ASSOCIATE_FAILED" ELSE "ACSE_ASSOCIATE",
                            info, "none", <<>>)
  IN IF ~WellFormed(tlvs) THEN AcseError ELSE associated[UserInformationOf(tlvs)]

(* AcseConnection_parseMessage                                             *)
ParseAcse[buf \in Octets] ==
  LET only(indication) == [AcseError EXCEPT !.indication = indication]
      apdu[l \in Length] ==
        CASE ~l.ok -> AcseError
          [] l.ok /\ buf[1] = 96 -> ParseAarq[Tlvs[l.rest]]
          [] l.ok /\ buf[1] = 97 -> ParseAare[Tlvs[l.rest]]
          [] l.ok /\ buf[1] = 98 -> only("ACSE_RELEASE_REQUEST")
          [] l.ok /\ buf[1] = 99 -> only("ACSE_RELEASE_RESPONSE")
          [] l.ok /\ buf[1] = 100 -> only("ACSE_ABORT")
          [] OTHER -> AcseError
  IN apdu[LengthOf[Tail(buf)]]

(***************************************************************************)
(* Presentation                                                            *)
(***************************************************************************)
asn_id_as_acse == <<82, 1, 0, 1>>
asn_id_mms == <<40, 202, 34, 2, 1>>
ber_id == <<81, 1>>

(* encodeUserData with encode = false                                      *)
UserDataLength[n \in Nat] ==
  LET set == 3 + n + 1 + DetermineLengthSize(n)
      full == set + DetermineLengthSize(set) + 1
  IN full + 1 + DetermineLengthSize(full)

(* encodeUserData, IsoPresentation_createUserData and _createUserDataACSE  *)
UserDataHeader(contextId, n) ==
  LET pdvListLength == n + DetermineLengthSize(n) + 4
      presentationLength == pdvListLength + DetermineLengthSize(pdvListLength) + 1
  IN EncodeTL(97, presentationLength) \o EncodeTL(48, pdvListLength) \o <<2, 1, contextId>>
       \o EncodeTL(160, n)

ModeSelector == EncodeTL(160, 3) \o EncodeTL(128, 1) \o <<1>>

ContextItem(id, oid) ==
  EncodeTL(48, 11 + Len(oid)) \o <<2, 1, id>> \o EncodeTL(6, Len(oid)) \o oid
    \o EncodeTL(48, 4) \o EncodeTL(6, 2) \o ber_id

(* createConnectPdu: the two contexts are always 1 and 3.                  *)
ConnectPduHeader(calling, called, acseContextId, n) ==
  LET normalModeLength == 12 + 35 + UserDataLength[n] + 2
      contentLength == 5 + normalModeLength + 1 + DetermineLengthSize(normalModeLength)
  IN EncodeTL(49, contentLength) \o ModeSelector \o EncodeTL(162, normalModeLength)
       \o EncodeTL(129, 4) \o calling \o EncodeTL(130, 4) \o called
       \o EncodeTL(164, 35) \o ContextItem(1, asn_id_as_acse) \o ContextItem(3, asn_id_mms)
       \o UserDataHeader(acseContextId, n)

AcceptBer == EncodeTL(48, 7) \o EncodeTL(128, 1) \o <<0>> \o EncodeTL(129, 2) \o ber_id

(* Mutant: one of the two results is not counted.                          *)
CpaHeaderShort(acseContextId, n) ==
  LET normalModeLength == 6 + 11 + UserDataLength[n]
      contentLength == 5 + normalModeLength + DetermineLengthSize(normalModeLength) + 1
  IN EncodeTL(49, contentLength) \o ModeSelector \o EncodeTL(162, normalModeLength)
       \o EncodeTL(131, 4) \o <<0, 0, 0, 1>>
       \o EncodeTL(165, 18) \o AcceptBer \o AcceptBer \o UserDataHeader(acseContextId, n)

(* IsoPresentation_createCpaMessage                                        *)
CpaHeader(acseContextId, n) ==
  LET normalModeLength == 6 + 20 + UserDataLength[n]
      contentLength == 5 + normalModeLength + DetermineLengthSize(normalModeLength) + 1
  IN EncodeTL(49, contentLength) \o ModeSelector \o EncodeTL(162, normalModeLength)
       \o EncodeTL(131, 4) \o <<0, 0, 0, 1>>
       \o EncodeTL(165, 18) \o AcceptBer \o AcceptBer \o UserDataHeader(acseContextId, n)

(* IsoPresentation_createAbortUserMessage: the length counts its own header *)
AbortUserHeader(acseContextId, n) ==
  LET contentLength == UserDataLength[n] + DetermineLengthSize(UserDataLength[n]) + 1
  IN EncodeTL(160, contentLength) \o UserDataHeader(acseContextId, n)

Refused == [ok |-> FALSE, payload |-> <<>>, nextContextId |-> -1]
FullyEncodedData == [ok : BOOLEAN, payload : Octets, nextContextId : Int]

(* parseFullyEncodedData                                                   *)
ParseFullyEncodedData[buf \in Octets] ==
  LET pdvList[t \in TlvSeq] ==
        IF ~WellFormed(t) \/ ~Has(t, 160) THEN Refused
        ELSE [ok |-> TRUE, payload |-> Get(t, 160),
              nextContextId |-> IF Has(t, 2) THEN Unsigned(Get(t, 2)) ELSE -1]
      data[outer \in TlvSeq] ==
        IF ~WellFormed(outer) \/ outer = <<>> \/ outer[1].tag # 48 THEN Refused
        ELSE pdvList[Tlvs[outer[1].val]]
  IN data[Tlvs[buf]]

(* parsePCDLEntry, parsePresentationContextDefinitionList                  *)
ContextIdOf(list, oid) ==
  LET idOf[i \in Nat] == IF i = 0 THEN -1 ELSE Unsigned(Get(Tlvs[list[i].val], 2))
  IN idOf[SelectLastInSeq(list, LAMBDA entry : Get(Tlvs[entry.val], 6) = oid)]

(* parseNormalModeParameters                                               *)
ParseNormalModeParameters[normal \in TlvSeq] ==
  LET contexts == IF Has(normal, 164) THEN Tlvs[Get(normal, 164)] ELSE <<>>
      parameters[data \in FullyEncodedData] ==
        IF ~data.ok THEN Refused
        ELSE [ok |-> TRUE, payload |-> data.payload, nextContextId |-> data.nextContextId,
              acseContextId |-> ContextIdOf(contexts, asn_id_as_acse),
              mmsContextId |-> ContextIdOf(contexts, asn_id_mms)]
  IN IF ~WellFormed(normal) \/ ~Has(normal, 97) THEN Refused
     ELSE parameters[ParseFullyEncodedData[Get(normal, 97)]]

(* IsoPresentation_parseConnect and IsoPresentation_parseAcceptMessage     *)
ParseNormalMode[buf \in Octets] ==
  LET content[t \in TlvSeq] ==
        IF ~WellFormed(t) \/ ~Has(t, 162) THEN Refused
        ELSE ParseNormalModeParameters[Tlvs[Get(t, 162)]]
      ppdu[l \in Length] == IF l.ok THEN content[Tlvs[l.rest]] ELSE Refused
  IN IF buf[1] # 49 THEN Refused ELSE ppdu[LengthOf[Tail(buf)]]

(* IsoPresentation_parseUserData                                           *)
ParseUserData[buf \in Octets] ==
  LET pdv[t \in TlvSeq] ==
        IF ~WellFormed(t) \/ Len(t) < 2 THEN Refused
        ELSE IF t[1].tag # 2 \/ Len(t[1].val) # 1 \/ t[2].tag # 160 THEN Refused
        ELSE [ok |-> TRUE, nextContextId |-> t[1].val[1], payload |-> t[2].val]
      enclosed(t, tag) == WellFormed(t) /\ t[1].tag = tag
      list[t \in TlvSeq] == IF enclosed(t, 48) THEN pdv[Tlvs[t[1].val]] ELSE Refused
      userData[t \in TlvSeq] == IF enclosed(t, 97) THEN list[Tlvs[t[1].val]] ELSE Refused
  IN IF Len(buf) < 9 THEN Refused ELSE userData[Tlvs[buf]]

(***************************************************************************)
(* Session.  Lengths are one octet.                                        *)
(***************************************************************************)
Short(n) == n % 256
TwoShort(n) == <<(n \div 256) % 256, n % 256>>

ConnectAcceptItem(options) == <<5, 6, 19, 1, options, 22, 1, 2>>
SessionRequirement(r) == <<20, 2>> \o TwoShort(r)
CallingSessionSelector(s) == <<51, 2>> \o TwoShort(s)
CalledSessionSelector(s) == <<52, 2>> \o TwoShort(s)
SessionUserData(n) == <<193, Short(n)>>

Spdu(code, params, n) == <<code, Short(Len(params) + n)>> \o params

(* IsoSession_createConnectSpdu                                            *)
ConnectSpdu(requirement, calling, called, n) ==
  Spdu(13, ConnectAcceptItem(0) \o SessionRequirement(requirement)
             \o CallingSessionSelector(calling) \o CalledSessionSelector(called)
             \o SessionUserData(n), n)

(* IsoSession_createAcceptSpdu                                             *)
AcceptSpdu(options, requirement, called, n) ==
  Spdu(14, ConnectAcceptItem(options) \o SessionRequirement(requirement)
             \o CalledSessionSelector(called) \o SessionUserData(n), n)

DataSpdu == <<1, 0, 1, 0>>
AbortSpdu(n) == Spdu(25, <<17, 1, 11>> \o SessionUserData(n), n)
FinishSpdu(n) == Spdu(9, <<17, 1, 2>> \o SessionUserData(n), n)
DisconnectSpdu(n) == Spdu(10, SessionUserData(n), n)

SessionError == [indication |-> "SESSION_ERROR", userData |-> <<>>]
Spdus ==
  [indication : {"SESSION_ERROR", "SESSION_CONNECT", "SESSION_DATA", "SESSION_FINISH", "SESSION_DISCONNECT",
                 "SESSION_ABORT", "SESSION_NOT_FINISHED"},
   userData : Octets]

(* parseAcceptParameters: the identifiers of the parameters it reads, with *)
(* Malformed when it returns -1 or a parameter is cut short, which no      *)
(* encoder writes; options and version 2 must be there.                    *)
Malformed == -1

AcceptParameters[buf \in Octets] ==
  LET andAfter(n) == {buf[1]} \cup AcceptParameters[SubSeq(buf, 3 + n, Len(buf))] IN
  IF Len(buf) < 2 THEN IF buf = <<>> THEN {} ELSE {Malformed}
  ELSE CASE buf[1] = 19 -> IF buf[2] = 1 THEN andAfter(1) ELSE {Malformed}
         [] buf[1] = 22 -> IF buf[3] = 2 THEN andAfter(1) ELSE {Malformed}
         [] buf[1] = 21 -> andAfter(4)
         [] buf[1] = 26 -> andAfter(1)
         [] buf[1] \in {23, 55, 56, 57, 58} -> andAfter(buf[2])
         [] OTHER -> andAfter(0)

AcceptParametersOk(read) == {19, 22} \subseteq read /\ Malformed \notin read

(* parseSessionHeaderParameters: up to the user data, which extend to the  *)
(* end of the message whatever their length octet says.                    *)
Parsed == [ok : BOOLEAN, userData : Octets]
NotParsed == [ok |-> FALSE, userData |-> <<>>]

ParseParameters[buf \in Octets] ==
  LET rest == SubSeq(buf, 3 + buf[2], Len(buf)) IN
  IF Len(buf) < 2 THEN NotParsed
  ELSE CASE buf[1] = 193 -> [ok |-> TRUE, userData |-> SubSeq(buf, 3, Len(buf))]
         [] buf[1] = 5 -> IF AcceptParametersOk(AcceptParameters[SubSeq(buf, 3, 2 + buf[2])])
                          THEN ParseParameters[rest] ELSE NotParsed
         [] buf[1] \in {20, 51, 52} -> IF buf[2] = 2 THEN ParseParameters[rest] ELSE NotParsed
         [] buf[1] \in {1, 17, 25, 49, 60} -> ParseParameters[rest]
         [] OTHER -> ParseParameters[SubSeq(buf, 3, Len(buf))]

WithHeader(buf, indication) ==
  LET message[p \in Parsed] ==
        IF p.ok THEN [indication |-> indication, userData |-> p.userData] ELSE SessionError
  IN message[ParseParameters[SubSeq(buf, 3, Len(buf))]]

(* Mutant: the length octet of the SPDU is not compared with the size.     *)
ParseSpduAnyLength(buf) ==
  LET header(ok) == WithHeader(buf, ok) IN
  IF Len(buf) <= 1 THEN SessionError
  ELSE CASE buf[1] \in {13, 14} -> header("SESSION_CONNECT")
         [] buf[1] = 9 -> header("SESSION_FINISH")
         [] buf[1] = 10 -> header("SESSION_DISCONNECT")
         [] OTHER -> SessionError

(* IsoSession_parseMessage                                                 *)
ParseSpdu(buf) ==
  LET header(ok) == IF buf[2] # Len(buf) - 2 THEN SessionError
                    ELSE WithHeader(buf, ok)
  IN IF Len(buf) <= 1 THEN SessionError
     ELSE CASE buf[1] \in {13, 14} -> header("SESSION_CONNECT")
            [] buf[1] = 1 ->
                 IF Len(buf) >= 4 /\ SubSeq(buf, 1, 4) = DataSpdu
                 THEN [indication |-> "SESSION_DATA", userData |-> SubSeq(buf, 5, Len(buf))]
                 ELSE SessionError
            [] buf[1] = 8 -> [SessionError EXCEPT !.indication = "SESSION_NOT_FINISHED"]
            [] buf[1] = 9 -> header("SESSION_FINISH")
            [] buf[1] = 10 -> header("SESSION_DISCONNECT")
            [] buf[1] = 25 -> [SessionError EXCEPT !.indication = "SESSION_ABORT"]
            [] OTHER -> SessionError
=============================================================================
