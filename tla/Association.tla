----------------------------- MODULE Association -----------------------------
(***************************************************************************)
(* An MMS association over its whole life, client and server: transport    *)
(* connection, session, presentation and association control               *)
(* (iso_client_connection.c, iso_connection.c), the negotiation of the MMS *)
(* parameters (mms_client_initiate.c, mms_association_service.c), data,    *)
(* release and abort.  The messages are the octets that the encoders       *)
(* produce (IsoPdus), carried in the TPDUs of Cotp.                        *)
(*                                                                         *)
(* TCP keeps the order of what it carries; a connection may break at any   *)
(* time, and then any end of what is under way is lost.                    *)
(***************************************************************************)
EXTENDS IsoPdus, Cotp

CONSTANTS ClientTpdu, ServerTpdu,   \* COTP_MAX_TPDU_SIZE the builds may have
          BufferSize,               \* CONFIG_MMS_MAXIMUM_PDU_SIZE + 100
          Passwords,                \* what clients may present; <<>>: no authentication
          SecretPassword,           \* what the authenticator accepts; <<>>: none installed
          ClientMaxPdu, ServerMaxPdu,
          Params,                   \* IsoConnectionParameters
          PduLengths,               \* of requests and of responses
          MaxMessages, MaxAttempts  \* bounds

(* Every size fits the exponents of TpduExponent and leaves room for data. *)
ASSUME SizesAssumption ==
  /\ \A n \in ClientTpdu \cup ServerTpdu : n \in Nat /\ 4 <= n /\ n < 2 ^ 16
  /\ BufferSize \in Nat /\ Params.remoteTSelector \in Nat

(* What the messages have room for.  The largest PDU,                      *)
(* CONFIG_MMS_MAXIMUM_PDU_SIZE, is 65000 at most, so lengths fit two       *)
(* octets; a password fits the client's buffer; titles have 10 octets      *)
(* (iso_connection_parameters.h:101, :108), selectors and qualifiers 32    *)
(* bits; and a buffer has room for a message of one length octet.          *)
ASSUME MessagesAssumption ==
  /\ \A pw \in Passwords : pw \in Octets /\ Len(pw) < 128 * 256
  /\ \A n \in {ClientMaxPdu, ServerMaxPdu} : n \in Nat /\ n < 256 * 256
  /\ \A n \in PduLengths : n \in Nat /\ n + 512 < 256 * 256
  /\ BufferSize >= 257
  /\ \A t \in {Params.remoteApTitle, Params.localApTitle} : t \in Octets /\ Len(t) <= 10
  /\ \A s \in {Params.remoteAEQualifier, Params.localAEQualifier,
               Params.localPSelector, Params.remotePSelector} : s \in Octets /\ Len(s) = 4

Ends == {"client", "server"}
Other(e) == CHOOSE f \in Ends : f # e

VARIABLES
  cotp,         \* the CotpConnection of each end
  wire,         \* TPDUs under way to each end
  open,         \* whether each end has its socket
  client,       \* state of the client's connection
  server,       \* state of the server's connection thread
  pres,         \* context ids known to each end
  mms,          \* negotiated MMS parameters of each end
  password,     \* of this attempt
  maxPdu,       \* parameters.maxPduSize of the client: -1 before the first attempt
  attempts,
  lost,         \* the TCP connection broke
  sent, delivered   \* messages of the present connection, for MessageStream

layers == <<cotp, pres, mms>>
associationVars == <<layers, wire, open, client, server, password, maxPdu, attempts, lost, sent, delivered>>

Stream == INSTANCE MessageStream WITH Message <- Octets

NoParameters == [maxPduSize |-> 0, calling |-> 0, called |-> 0, nesting |-> 0]
NoContexts == [acse |-> 0, mms |-> 0]

AssociationInit ==
  /\ \E c \in ClientTpdu, s \in ServerTpdu :
       cotp = [e \in Ends |-> CotpInit(IF e = "client" THEN c ELSE s, BufferSize)]
  /\ wire = [e \in Ends |-> <<>>]
  /\ open = [e \in Ends |-> FALSE]
  /\ client = "idle" /\ server = "none"
  /\ pres = [e \in Ends |-> NoContexts]
  /\ mms = [e \in Ends |-> NoParameters]
  /\ password = <<>> /\ maxPdu = -1 /\ attempts = 0 /\ lost = FALSE
  /\ sent = [e \in Ends |-> <<>>] /\ delivered = [e \in Ends |-> <<>>]

(***************************************************************************)
(* MMS initiate                                                            *)
(***************************************************************************)
FourOctets(n) == <<0, 0>> \o TwoShort(n)
DefaultOutstanding == 5        \* DEFAULT_MAX_SERV_OUTSTANDING_CALLING, _CALLED
DefaultNesting == 10           \* DEFAULT_DATA_STRUCTURE_NESTING_LEVEL

Parameters == [maxPduSize : Nat, calling : Nat, called : Nat, nesting : Nat]

InitiateParameters[p \in Parameters] ==
  EncodeUInt32WithTL(128, FourOctets(p.maxPduSize)) \o EncodeUInt32WithTL(129, FourOctets(p.calling))
    \o EncodeUInt32WithTL(130, FourOctets(p.called)) \o EncodeUInt32WithTL(131, FourOctets(p.nesting))

(* createInitiateRequestPdu; encoded by the ASN.1 compiler's code.  The    *)
(* detail (version, parameter CBB, services) is not looked at.             *)
InitiateRequest[p \in Parameters] ==
  LET body == InitiateParameters[p] \o EncodeTL(164, 22) \o Zeros(22)
  IN EncodeTL(168, Len(body)) \o body

(* createInitiateResponse                                                  *)
InitiateResponse[p \in Parameters] ==
  LET size(n) == 2 + UInt32DetermineEncodedSize(FourOctets(n))
      length == size(p.maxPduSize) + size(p.calling) + size(p.called) + size(p.nesting)
                + (14 + 5 + 3) + 2
  IN EncodeTL(169, length) \o InitiateParameters[p]
       \o EncodeTL(164, 22) \o EncodeUInt32WithTL(128, FourOctets(1))
       \o EncodeBitString(129, 11, <<241, 0>>)
       \o EncodeBitString(130, 85, <<238, 28, 0, 0, 0, 0, 0, 0, 0, 237, 24>>)

Least(a, b) == IF a < b THEN a ELSE b

(* Mutant: the server answers with its own limit.                          *)
NegotiatedOwn(tlvs) ==
  [maxPduSize |-> ServerMaxPdu, calling |-> DefaultOutstanding, called |-> DefaultOutstanding,
   nesting |-> Unsigned(Get(tlvs, 131))]

(* parseInitiateRequestPdu                                                 *)
Negotiated(tlvs) ==
  LET n(tag) == Unsigned(Get(tlvs, tag)) IN
  [maxPduSize |-> Least(n(128), ServerMaxPdu), calling |-> Least(n(129), DefaultOutstanding),
   called |-> Least(n(130), DefaultOutstanding), nesting |-> n(131)]

NegotiatedOf[tlvs \in TlvSeq] == Negotiated(tlvs)
NegotiatedBy[pdu \in Octets] == NegotiatedOf[Tlvs[Tlvs[pdu][1].val]]

(* mmsClient_parseInitiateResponse                                         *)
ParseInitiateResponse[pdu \in Octets] ==
  LET n(t, tag) == Unsigned(Get(t, tag))
      parameters[t \in TlvSeq] == [maxPduSize |-> n(t, 128), calling |-> n(t, 129), called |-> n(t, 130),
                        nesting |-> n(t, 131)]
  IN parameters[Tlvs[Tlvs[pdu][1].val]]

(***************************************************************************)
(* Messages                                                                *)
(***************************************************************************)
SessionRequirementDefault == 2       \* IsoSession_init

(* IsoClientConnection_associate: AARQ in CP in CONNECT                    *)
Aarq(pw, pdu) ==
  AarqHeader(Params, [mechanism |-> IF pw = <<>> THEN "absent" ELSE "password", password |-> pw],
             Len(pdu)) \o pdu

ConnectPpdu[apdu \in Octets] ==
  ConnectPduHeader(Params.localPSelector, Params.remotePSelector, 1, Len(apdu)) \o apdu

(* A session selector is the low half of the presentation selector.        *)
SessionSelector(psel) == psel[3] * 256 + psel[4]

Connection[ppdu \in Octets] ==
  ConnectSpdu(SessionRequirementDefault, SessionSelector(Params.localPSelector),
              SessionSelector(Params.remotePSelector), Len(ppdu)) \o ppdu

AssociateMessage(pw, pdu) == Connection[ConnectPpdu[Aarq(pw, pdu)]]

(* The answer to it: AARE in CPA in ACCEPT, which repeats the requirement  *)
(* and the called selector of the request                                  *)
Aare(ref, pdu) == AareHeader(0, ref, Len(pdu)) \o pdu
Cpa(contextId, apdu) == CpaHeader(contextId, Len(apdu)) \o apdu
Acceptance[ppdu \in Octets] ==
  AcceptSpdu(0, SessionRequirementDefault, SessionSelector(Params.remotePSelector), Len(ppdu)) \o ppdu

AcceptMessage(acseContextId, ref, pdu) == Acceptance[Cpa(acseContextId, Aare(ref, pdu))]

(* IsoClientConnection_sendMessage, IsoConnection_sendMessage              *)
UserData(contextId, pdu) == UserDataHeader(contextId, Len(pdu)) \o pdu
DataMessage(contextId, pdu) == DataSpdu \o UserData(contextId, pdu)

Finish[ppdu \in Octets] == FinishSpdu(Len(ppdu)) \o ppdu
ReleaseMessage(acseContextId) == Finish[UserData(acseContextId, ReleaseRequestApdu)]

Disconnect[ppdu \in Octets] == DisconnectSpdu(Len(ppdu)) \o ppdu
ReleaseAnswer(acseContextId) == Disconnect[UserData(acseContextId, ReleaseResponseApdu)]

AbortWith[ppdu \in Octets] == AbortSpdu(Len(ppdu)) \o ppdu
AbortMessage(acseContextId) ==
  AbortWith[AbortUserHeader(acseContextId, Len(AbortApdu(FALSE))) \o AbortApdu(FALSE)]

(* The n-th PDU of a direction; its octets tell where they belong.         *)
Pdu(e, n, length) == [i \in 1 .. length |-> (i + n * 7 + (IF e = "client" THEN 0 ELSE 3)) % 256]

(* Writing to a connection whose other end has closed loses the message.   *)
Put(e, tpdus) ==
  wire' = [wire EXCEPT ![Other(e)] = IF open[Other(e)] /\ ~lost THEN @ \o tpdus ELSE @]

SendMessage(e, end, message) ==
  \E m \in {message} :
    /\ Put(e, Segments(end, m))
    /\ sent' = [sent EXCEPT ![e] = Append(@, m)]

(***************************************************************************)
(* Reading                                                                 *)
(***************************************************************************)
(* The next TPDU at an end, as the start or the continuation of a message. *)
Readable(e) == open[e] /\ wire[e] # <<>>
Reading(e) == Received(cotp[e], Head(wire[e]))

(* Nothing will come any more: Socket_read fails.                          *)
EndOfStream(e) == open[e] /\ wire[e] = <<>> /\ (lost \/ ~open[Other(e)])

(* A TPDU that does not end a message.                                     *)
ReadMore(e) ==
  /\ Readable(e) /\ Reading(e).indication = "MORE"
  /\ cotp' = [cotp EXCEPT ![e] = Reading(e).end]
  /\ wire' = [wire EXCEPT ![e] = Tail(@)]
  /\ UNCHANGED <<pres, mms, open, client, server, password, maxPdu, attempts, lost, sent, delivered>>

(***************************************************************************)
(* Client                                                                  *)
(***************************************************************************)
(* MmsConnection_connect up to CotpConnection_sendConnectionRequestMessage;*)
(* the server accepts the TCP connection and starts a thread for it.       *)
Connect(pw) ==
  /\ client \in {"idle", "failed", "closed"} /\ ~open["client"] /\ server \in {"none", "stopped"}
  /\ attempts < MaxAttempts
  /\ attempts' = attempts + 1
  /\ password' = pw
  /\ maxPdu' = IF maxPdu = -1 THEN ClientMaxPdu ELSE maxPdu
  /\ LET c == ConnectionRequest(CotpInit(cotp["client"].maxTpdu, BufferSize),
                                Params.remoteTSelector)
     IN /\ cotp' = [client |-> c.end, server |-> CotpInit(cotp["server"].maxTpdu, BufferSize)]
        /\ wire' = [client |-> <<>>, server |-> <<c.tpdu>>]
  /\ open' = [e \in Ends |-> TRUE]
  /\ client' = "connecting" /\ server' = "running"
  /\ pres' = [client |-> [acse |-> 1, mms |-> 3], server |-> NoContexts]
  /\ mms' = [mms EXCEPT !["server"] = NoParameters]
  /\ lost' = FALSE
  /\ sent' = [e \in Ends |-> <<>>] /\ delivered' = [e \in Ends |-> <<>>]

(* The transport connection is confirmed: the associate request is sent.   *)
TransportConnected ==
  /\ client = "connecting" /\ Readable("client") /\ Reading("client").indication = "CONNECT"
  /\ \E end \in {Cleared(Reading("client").end)},
        m \in {AssociateMessage(password, InitiateRequest[
                 [maxPduSize |-> maxPdu, calling |-> DefaultOutstanding,
                  called |-> DefaultOutstanding, nesting |-> DefaultNesting]])} :
        /\ cotp' = [cotp EXCEPT !["client"] = end]
        /\ wire' = [client |-> Tail(wire["client"]),
                    server |-> IF open["server"] /\ ~lost
                               THEN wire["server"] \o Segments(end, m) ELSE wire["server"]]
        /\ sent' = [sent EXCEPT !["client"] = Append(@, m)]
  /\ client' = "associating"
  /\ UNCHANGED <<pres, mms, open, server, password, maxPdu, attempts, lost, delivered>>

(* returnError of IsoClientConnection_associate                            *)
ClientFails ==
  /\ client' = "failed"
  /\ open' = [open EXCEPT !["client"] = FALSE]

(* What IsoSession_parseMessage and IsoPresentation_parseAcceptMessage     *)
(* leave of the answer                                                     *)
AnswerApdu(message) ==
  LET accept[s \in Spdus] ==
        IF s.indication = "SESSION_CONNECT" THEN ParseNormalMode[s.userData].payload ELSE <<>>
  IN accept[ParseSpdu(message)]

(* The user data; the indication of AcseConnection_parseMessage is ignored.*)
AnswerPdu(apdu) == ParseAcse[apdu].userData

AnswerParameters[pdu \in Octets] == IF pdu = <<>> THEN NoParameters ELSE ParseInitiateResponse[pdu]

(* The answer to the associate request has arrived.                        *)
AssociateAnswered ==
  /\ client = "associating" /\ Readable("client") /\ Reading("client").indication = "DATA"
  /\ \E end \in {Reading("client").end} : \E a \in {AnswerApdu(end.payload)} :
        /\ cotp' = [cotp EXCEPT !["client"] = Cleared(end)]
        /\ delivered' = [delivered EXCEPT !["client"] = Append(@, end.payload)]
        /\ IF a # <<>>
           THEN /\ client' = "associated"
                /\ mms' = [mms EXCEPT !["client"] = AnswerParameters[AnswerPdu(a)]]
                /\ maxPdu' = mms'["client"].maxPduSize
                /\ UNCHANGED open
           ELSE ClientFails /\ UNCHANGED <<mms, maxPdu>>
  /\ wire' = [wire EXCEPT !["client"] = Tail(@)]
  /\ UNCHANGED <<pres, server, password, attempts, lost, sent>>

(* The connection ends before there is an answer.                          *)
AssociateFails ==
  /\ client \in {"connecting", "associating"}
  /\ EndOfStream("client") \/ (Readable("client") /\ Reading("client").indication = "ERROR")
  /\ ClientFails
  /\ UNCHANGED <<layers, wire, server, password, maxPdu, attempts, lost, sent, delivered>>

(* A request of the application, if it is not larger than negotiated.      *)
Request(n) ==
  /\ client = "associated" /\ Len(sent["client"]) <= MaxMessages
  /\ n <= mms["client"].maxPduSize
  /\ SendMessage("client", cotp["client"],
                 DataMessage(pres["client"].mms, Pdu("client", Len(sent["client"]), n)))
  /\ UNCHANGED <<layers, open, client, server, password, maxPdu, attempts, lost, delivered>>

(* connectionHandlingThread: data are passed to the callback, anything     *)
(* else ends the thread.                                                   *)
ClientReceives ==
  /\ client \in {"associated", "releasing"} /\ Readable("client")
  /\ Reading("client").indication \in {"DATA", "ERROR"}
  /\ \E r \in {Reading("client")} :
     \E s \in {ParseSpdu(r.end.payload)} :
     LET goesOn == r.indication = "DATA" /\ s.indication = "SESSION_DATA"
                     /\ ParseUserData[s.userData].ok
     IN /\ cotp' = [cotp EXCEPT !["client"] = Cleared(r.end)]
        /\ delivered' = IF r.indication = "DATA"
                        THEN [delivered EXCEPT !["client"] = Append(@, r.end.payload)]
                        ELSE delivered
        /\ client' = IF goesOn THEN client ELSE "closed"
  /\ wire' = [wire EXCEPT !["client"] = Tail(@)]
  /\ UNCHANGED <<pres, mms, open, server, password, maxPdu, attempts, lost, sent>>

ClientSeesEnd ==
  /\ client \in {"associated", "releasing"} /\ EndOfStream("client")
  /\ client' = "closed"
  /\ UNCHANGED <<layers, wire, open, server, password, maxPdu, attempts, lost, sent, delivered>>

(* IsoClientConnection_close, when the application destroys the connection *)
Close ==
  /\ client = "closed" /\ open["client"]
  /\ open' = [open EXCEPT !["client"] = FALSE]
  /\ UNCHANGED <<layers, wire, client, server, password, maxPdu, attempts, lost, sent, delivered>>

(* IsoClientConnection_release                                             *)
Release ==
  /\ client = "associated"
  /\ SendMessage("client", cotp["client"], ReleaseMessage(pres["client"].acse))
  /\ client' = "releasing"
  /\ UNCHANGED <<layers, open, server, password, maxPdu, attempts, lost, delivered>>

(* IsoClientConnection_abort                                               *)
Abort ==
  /\ client = "associated"
  /\ SendMessage("client", cotp["client"], AbortMessage(pres["client"].acse))
  /\ client' = "releasing"
  /\ UNCHANGED <<layers, open, server, password, maxPdu, attempts, lost, delivered>>

(***************************************************************************)
(* Server: handleTcpConnection                                             *)
(***************************************************************************)
Accepts(a) ==
  SecretPassword = <<>> \/ (a.mechanism = "password" /\ a.password = SecretPassword)

(* Mutant: a client that does not authenticate is let in.                  *)
AuthenticateClientOpen(a) ==
  IF a.indication = "ACSE_ASSOCIATE" /\ ~Accepts(a) /\ a.mechanism # "none" THEN AcseFailed ELSE a

(* authenticateClient, called by parseAarqPdu                              *)
AuthenticateClient(a) ==
  IF a.indication = "ACSE_ASSOCIATE" /\ ~Accepts(a) THEN AcseFailed ELSE a

ServerStops == server' = "stopped" /\ open' = [open EXCEPT !["server"] = FALSE]

(* COTP connect indication                                                 *)
ServerConnected ==
  /\ server = "running" /\ Readable("server") /\ Reading("server").indication = "CONNECT"
  /\ LET end == Cleared(Reading("server").end)
     IN /\ cotp' = [cotp EXCEPT !["server"] = end]
        /\ wire' = [server |-> Tail(wire["server"]),
                    client |-> IF open["client"] /\ ~lost
                               THEN Append(wire["client"], ConnectionResponse(end))
                               ELSE wire["client"]]
  /\ UNCHANGED <<pres, mms, open, client, server, password, maxPdu, attempts, lost, sent, delivered>>

(* What the server does with a message: its reply, if any, whether it goes *)
(* on, and what it has learned.                                            *)
Proceed == [reply |-> <<>>, go |-> TRUE, pres |-> pres["server"], mms |-> mms["server"]]

(* Mutant: the thread waits for the next message of a client it refused.   *)
StopWaits == Proceed

Stop == [reply |-> <<>>, go |-> FALSE, pres |-> pres["server"], mms |-> mms["server"]]

(* The association is answered by mmsServer_handleInitiateRequest.         *)
Accepted(p, a, n) ==
  [reply |-> <<AcceptMessage(p.acseContextId, a.nextReference, InitiateResponse[n])>>,
   go |-> TRUE, pres |-> [acse |-> p.acseContextId, mms |-> p.mmsContextId], mms |-> n]

HandleConnect(p, a) ==
  IF ~p.ok THEN Proceed
  ELSE IF a.indication # "ACSE_ASSOCIATE" THEN Stop
  ELSE Accepted(p, a, NegotiatedBy[a.userData])

HandleData(p, n) ==
  IF ~p.ok THEN Stop
  ELSE [Proceed EXCEPT !.reply = IF p.nextContextId = pres["server"].mms
                    THEN <<DataMessage(pres["server"].mms, Pdu("server", Len(sent["server"]), n))>>
                    ELSE <<>>]

HandleFinish(p) ==
  IF p.ok
  THEN [Stop EXCEPT !.reply = <<ReleaseAnswer(pres["server"].acse)>>] ELSE Stop

(* What the presentation layer makes of the message, and association       *)
(* control of that.                                                        *)
ServerPpdu(s) ==
  CASE s.indication = "SESSION_CONNECT" -> ParseNormalMode[s.userData]
    [] s.indication \in {"SESSION_DATA", "SESSION_FINISH"} -> ParseUserData[s.userData]
    [] OTHER -> Refused

ServerApdu(s, p) ==
  IF s.indication = "SESSION_CONNECT" /\ p.ok THEN ParseAcse[p.payload] ELSE AcseError

Handled(s, p, a, n) ==
  CASE s.indication = "SESSION_CONNECT" -> HandleConnect(p, a)
    [] s.indication = "SESSION_DATA" -> HandleData(p, n)
    [] s.indication = "SESSION_FINISH" -> HandleFinish(p)
    [] OTHER -> Stop

(* COTP data indication; a response has one of the lengths.                *)
ServerReceives(n) ==
  /\ server = "running" /\ Readable("server") /\ Reading("server").indication = "DATA"
  /\ n <= IF mms["server"].maxPduSize = 0 THEN BufferSize ELSE mms["server"].maxPduSize
  /\ \E message \in {Reading("server").end.payload} :
     \E end \in {Cleared(Reading("server").end)}, s \in {ParseSpdu(message)} :
     \E p \in {ServerPpdu(s)} : \E a \in {ServerApdu(s, p)} :
     \E h \in {Handled(s, p, AuthenticateClient(a), n)} :
        /\ cotp' = [cotp EXCEPT !["server"] = end]
        /\ delivered' = [delivered EXCEPT !["server"] = Append(@, message)]
        /\ pres' = [pres EXCEPT !["server"] = h.pres]
        /\ mms' = [mms EXCEPT !["server"] = h.mms]
        /\ sent' = [sent EXCEPT !["server"] = @ \o h.reply]
        /\ wire' = [server |-> Tail(wire["server"]),
                    client |-> IF open["client"] /\ ~lost /\ h.reply # <<>>
                               THEN wire["client"] \o Segments(end, h.reply[1])
                               ELSE wire["client"]]
        /\ IF h.go THEN UNCHANGED <<server, open>> ELSE ServerStops
  /\ UNCHANGED <<client, password, maxPdu, attempts, lost>>

(* COTP error: the socket was closed, or a message is too long.            *)
ServerSeesEnd ==
  /\ server = "running"
  /\ EndOfStream("server") \/ (Readable("server") /\ Reading("server").indication = "ERROR")
  /\ ServerStops
  /\ UNCHANGED <<layers, wire, client, password, maxPdu, attempts, lost, sent, delivered>>

(***************************************************************************)
(* The network                                                             *)
(***************************************************************************)
(* The connection breaks; a part of what was under way still arrives.      *)
Break ==
  /\ ~lost /\ open["client"] /\ open["server"]
  /\ lost' = TRUE
  /\ \E k \in [Ends -> 0 .. 3] :
       /\ \A e \in Ends : k[e] <= Len(wire[e])
       /\ wire' = [e \in Ends |-> SubSeq(wire[e], 1, k[e])]
  /\ UNCHANGED <<layers, open, client, server, password, maxPdu, attempts, sent, delivered>>

ClientStep == TransportConnected \/ AssociateAnswered \/ AssociateFails \/ ClientReceives
                \/ ClientSeesEnd
ServerStep == ServerConnected \/ (\E n \in PduLengths : ServerReceives(n)) \/ ServerSeesEnd

AssociationNext ==
  \/ \E pw \in Passwords : Connect(pw)
  \/ \E e \in Ends : ReadMore(e)
  \/ ClientStep \/ ServerStep
  \/ \E n \in PduLengths : Request(n)
  \/ Release \/ Abort \/ Close \/ Break

AssociationSpec == AssociationInit /\ [][AssociationNext]_associationVars

(* Both ends read what they are sent: the client blocks in the associate   *)
(* call or runs connectionHandlingThread, the server runs its thread.      *)
FairSpec ==
  /\ AssociationSpec
  /\ WF_associationVars(ClientStep) /\ WF_associationVars(ServerStep)
  /\ \A e \in Ends : WF_associationVars(ReadMore(e))

(***************************************************************************)
(* Properties                                                              *)
(***************************************************************************)
(* CotpConnection_sendDataMessage and _parseIncomingMessage carry every    *)
(* message whole, unchanged and in order, whatever TPDU sizes the ends     *)
(* negotiate and wherever the connection breaks.                           *)
MessagesArriveInOrder == Stream!Spec

(* What CotpConnection_setTpduSize and the references and selectors of the *)
(* two connection TPDUs come to: both ends of the transport agree, and no  *)
(* TPDU is longer than either end allows.                                  *)
TransportAgreed ==
  client \in {"associated", "releasing"} =>
    LET c == cotp["client"]
        s == cotp["server"]
    IN /\ c.tpdu_size = s.tpdu_size /\ TpduSize(c) <= c.maxTpdu /\ TpduSize(s) <= s.maxTpdu
       /\ c.srcRef = s.srcRef /\ c.dstRef = s.dstRef
       /\ c.tsap_id_dst = s.tsap_id_dst /\ c.tsap_id_src = s.tsap_id_src
       /\ \A e \in Ends : \A i \in DOMAIN wire[e] :
            wire[e][i].code = "DT" => Len(wire[e][i].data) + CotpDataHeaderSize <= TpduSize(cotp[e])

(* Both ends of an association agree on what was negotiated: references    *)
(* and TPDU size of the transport, presentation contexts, MMS parameters;  *)
(* and nothing exceeds what either end can take.                           *)
EndsAgree ==
  /\ TransportAgreed
  /\ client \in {"associated", "releasing"} =>
       /\ pres["client"] = pres["server"]
       /\ mms["client"] = mms["server"]
       /\ mms["client"].maxPduSize <= Least(ClientMaxPdu, ServerMaxPdu)

(* A server with an authenticator has an association only with a client    *)
(* that presented the password; a client that presents it, in a request    *)
(* whose session length fits its octet, is refused only when the           *)
(* connection breaks.                                                      *)
Authenticated ==
  /\ mms["server"] # NoParameters => SecretPassword = <<>> \/ password = SecretPassword
  /\ client = "failed" =>
       \/ lost
       \/ SecretPassword # <<>> /\ password # SecretPassword
       \/ sent["client"] # <<>> /\ Len(sent["client"][1]) - 2 > 255

(* IsoClientConnection_associate returns, and a released or aborted        *)
(* association ends at both ends.                                          *)
AssociationConcludes ==
  /\ client \in {"connecting", "associating"} ~> client \in {"associated", "failed"}
  /\ client = "releasing" ~> client # "releasing" /\ server = "stopped"
=============================================================================
