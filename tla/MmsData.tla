------------------------------- MODULE MmsData -------------------------------
(***************************************************************************)
(* MMS values on the wire: the encoding of access results                  *)
(* (mms_access_result.c), which reads, reports and GOOSE share, the GOOSE  *)
(* message of a publisher (goose_publisher.c) and what a subscriber reads  *)
(* from it (goose_subscriber.c).                                           *)
(***************************************************************************)
EXTENDS MmsValues

(***************************************************************************)
(* mmsServer_encodeAccessResult                                            *)
(***************************************************************************)
AccessTag ==
  [t \in Types |-> CASE t = "array" -> 161 [] t = "structure" -> 162 [] t = "access-error" -> 128
                     [] t = "boolean" -> 131 [] t = "bit-string" -> 132 [] t = "integer" -> 133
                     [] t = "unsigned" -> 134 [] t = "float" -> 135 [] t = "octet-string" -> 137
                     [] t = "visible-string" -> 138 [] t = "binary-time" -> 140
                     [] t = "mms-string" -> 144 [] t = "utc-time" -> 145]

ErrorOctets(e) == <<0, 0, 0, e>>

(* with encode = false                                                     *)
RECURSIVE AccessResultSize(_)
AccessResultSize(v) ==
  CASE IsComplex(v) ->
         LET n == FoldLeft(LAMBDA k, c : k + AccessResultSize(c), 0, v.components)
         IN 1 + n + DetermineLengthSize(n)
    [] v.type = "access-error" -> 2 + UInt32DetermineEncodedSize(ErrorOctets(v.err))
    [] IsString(v) -> DetermineEncodedStringSize(StringOctets(v))
    [] IsInteger(v) -> 2 + Len(v.integer.octets)
    [] v.type = "utc-time" -> 10
    [] v.type = "bit-string" -> DetermineEncodedBitStringSize(v.size)
    [] v.type = "boolean" -> 3
    [] v.type = "binary-time" -> 2 + v.size
    [] v.type = "octet-string" -> 1 + DetermineLengthSize(v.size) + v.size
    [] OTHER -> v.formatWidth \div 8 + 1 + 2

(* with encode = true.  A structure announces the size computed above.     *)
RECURSIVE EncodeAccessResult(_)
EncodeAccessResult(v) ==
  LET tag == AccessTag[v.type] IN
  CASE IsComplex(v) ->
         EncodeTL(tag, FoldLeft(LAMBDA k, c : k + AccessResultSize(c), 0, v.components))
           \o FoldLeft(LAMBDA s, c : s \o EncodeAccessResult(c), <<>>, v.components)
    [] v.type = "access-error" -> EncodeUInt32WithTL(tag, ErrorOctets(v.err))
    [] IsString(v) -> EncodeOctetString(tag, StringOctets(v))
    [] IsInteger(v) -> EncodeOctetString(tag, v.integer.octets)
    [] v.type = "utc-time" -> EncodeOctetString(tag, v.utcTime)
    [] v.type = "bit-string" -> EncodeBitString(tag, v.size, v.buf)
    [] v.type = "boolean" -> EncodeBoolean(tag, v.boolean)
    [] v.type \in {"binary-time", "octet-string"} ->
         EncodeOctetString(tag, SubSeq(v.buf, 1, v.size))
    [] OTHER -> EncodeTL(tag, v.formatWidth \div 8 + 1) \o EncodeFloat(v.exponentWidth, v.buf)

EncodeAll(values) == FoldLeft(LAMBDA s, v : s \o EncodeAccessResult(v), <<>>, values)
SizeOfAll(values) == FoldLeft(LAMBDA n, v : n + AccessResultSize(v), 0, values)

(***************************************************************************)
(* A GOOSE message.  p: what the publisher was given (goCBRef, dataSetRef, *)
(* goID or NULL, appId, confRev, simulation, needsCommission, timestamp,   *)
(* timeAllowedToLive, stNum, sqNum); numbers are four octets.              *)
(***************************************************************************)
GooseMaxMessageSize == 1518        \* GOOSE_MAX_MESSAGE_SIZE
EthernetHeader == Zeros(12) \o <<129, 0, 128, 0>> \o <<136, 184>>
PayloadStart == 26

(* createGoosePayload: <<>> when it does not fit                           *)
GoosePayload(p, values) ==
  LET count == <<0, 0, 0, Len(values)>>
      number(octets) == 2 + UInt32DetermineEncodedSize(octets)
      length == DetermineEncodedStringSize(p.goCBRef) + DetermineEncodedStringSize(p.dataSetRef)
                + (IF p.goID = NULL THEN 0 ELSE DetermineEncodedStringSize(p.goID))
                + number(p.timeAllowedToLive) + 2 + 8 + number(p.sqNum) + number(p.stNum)
                + number(p.confRev) + 6 + number(count)
                + SizeOfAll(values) + DetermineLengthSize(SizeOfAll(values)) + 1
  IN IF length > GooseMaxMessageSize - PayloadStart THEN <<>>
     ELSE EncodeTL(97, length)
            \o EncodeOctetString(128, p.goCBRef)
            \o EncodeUInt32WithTL(129, p.timeAllowedToLive)
            \o EncodeOctetString(130, p.dataSetRef)
            \o (IF p.goID = NULL THEN <<>> ELSE EncodeOctetString(131, p.goID))
            \o EncodeOctetString(132, p.timestamp)
            \o EncodeUInt32WithTL(133, p.stNum) \o EncodeUInt32WithTL(134, p.sqNum)
            \o EncodeBoolean(135, p.simulation)
            \o EncodeUInt32WithTL(136, p.confRev)
            \o EncodeBoolean(137, p.needsCommission)
            \o EncodeUInt32WithTL(138, count)
            \o EncodeTL(171, SizeOfAll(values)) \o EncodeAll(values)

(* GoosePublisher_publish with the buffer of prepareGooseBuffer            *)
GooseFrame(p, values) ==
  LET payload == GoosePayload(p, values) IN
  IF payload = <<>> THEN <<>>
  ELSE EthernetHeader \o TwoOctets(p.appId) \o TwoOctets(Len(payload) + 8) \o Zeros(4) \o payload

(***************************************************************************)
(* The subscriber                                                          *)
(***************************************************************************)
(* The first element of a buffer and what follows it.                      *)
Element(buf) ==
  LET l == DecodeLength(Tail(buf)) IN
  IF ~l.ok \/ l.length > Len(l.rest) THEN [ok |-> FALSE, tag |-> buf[1], val |-> <<>>, rest |-> <<>>]
  ELSE [ok |-> TRUE, tag |-> buf[1], val |-> SubSeq(l.rest, 1, l.length),
        rest |-> SubSeq(l.rest, l.length + 1, Len(l.rest))]

BitLength(octets) == 8 * (Len(octets) - 1) - octets[1]

(* Mutant: an integer must not be longer than the one it replaces.         *)
FitsPresentSize(v, n) == n <= Len(v.integer.octets)

(* An integer may take the room of the value it is read into.              *)
IntegerFits(v, n) == n <= v.integer.maxSize

(* A simple value of the data set after an element with its tag; one that  *)
(* does not fit leaves it as it was.  (A float of the other width would be *)
(* converted by the processor; publisher and subscriber use one width.)    *)
ReceiveSimple(v, octets) ==
  LET n == Len(octets) IN
  CASE v.type = "boolean" -> NewBoolean(DecodeBoolean(octets[1]))
    [] v.type = "bit-string" ->
         IF BitLength(octets) = v.size THEN [v EXCEPT !.buf = Tail(octets)] ELSE v
    [] IsInteger(v) ->
         IF IntegerFits(v, n) THEN [v EXCEPT !.integer.octets = octets] ELSE v
    [] v.type = "float" ->
         IF n = v.formatWidth \div 8 + 1 THEN [v EXCEPT !.buf = DecodeFloat(octets)] ELSE v
    [] v.type = "octet-string" ->
         IF n <= v.maxSize THEN [v EXCEPT !.size = n, !.buf = Overwrite(v.buf, octets)] ELSE v
    [] v.type = "visible-string" -> [v EXCEPT !.str = octets]
    [] v.type = "binary-time" ->
         IF n \in {4, 6} THEN [v EXCEPT !.buf = Overwrite(v.buf, octets)] ELSE v
    [] v.type = "utc-time" -> IF n = 8 THEN [v EXCEPT !.utcTime = octets] ELSE v
    [] OTHER -> v

(* The types that have a case; mms-string and access errors have none.     *)
AcceptsTag(v, tag) ==
  tag = AccessTag[v.type] /\ v.type \notin {"mms-string", "access-error"}

(* parseAllData: the values after it, from element i on, and what it       *)
(* returns.  An element that is too long, or one too many, ends it with 0, *)
(* a nested element that ended with 0 with -1; what was read is kept.      *)
RECURSIVE ParseAllData(_, _, _)
ParseAllData(buf, values, i) ==
  LET e == Element(buf)
      v == values[i]
      nested == AcceptsTag(v, e.tag) /\ IsComplex(v)
      parts == ParseAllData(e.val, v.components, 1)
      next == IF nested THEN [v EXCEPT !.components = parts.values]
              ELSE IF AcceptsTag(v, e.tag) THEN ReceiveSimple(v, e.val) ELSE v
      read == [values EXCEPT ![i] = next]
  IN IF buf = <<>> THEN [result |-> 1, values |-> values]
     ELSE IF i > Len(values) \/ ~e.ok THEN [result |-> 0, values |-> values]
     ELSE IF nested /\ parts.result = 0 THEN [result |-> -1, values |-> read]
     ELSE ParseAllData(e.rest, read, i + 1)

(* A value made for an element of unknown type.  An integer takes 4 or 64  *)
(* octets, of which the element fills the first ones.                      *)
RECURSIVE UnknownValue(_), ParseUnknown(_)
UnknownValue(e) ==
  LET type == CHOOSE t \in Types : AccessTag[t] = e.tag
      n == Len(e.val)
  IN CASE type \in {"array", "structure"} -> NewComplex(type, ParseUnknown(e.val))
       [] type = "boolean" -> NewBoolean(DecodeBoolean(e.val[1]))
       [] type = "bit-string" -> [NewBitString(BitLength(e.val)) EXCEPT !.buf = Tail(e.val)]
       [] type \in {"integer", "unsigned"} ->
            LET v == NewInteger(type, 8 * n)
            IN [v EXCEPT !.integer.octets = Overwrite(@, e.val)]
       [] type = "float" -> NewFloat(DecodeFloat(e.val))
       [] type = "octet-string" -> [NewOctetString(n, n) EXCEPT !.buf = e.val]
       [] type = "visible-string" -> NewString(type, e.val)
       [] type = "binary-time" -> [NewBinaryTime(n = 4) EXCEPT !.buf = Overwrite(@, e.val)]
       [] OTHER -> [NewUtcTime(Zeros(4)) EXCEPT !.utcTime = e.val]

(* parseAllDataUnknownValue, of a message that is well formed              *)
ParseUnknown(buf) ==
  IF buf = <<>> THEN <<>>
  ELSE LET e == Element(buf) IN <<UnknownValue(e)>> \o ParseUnknown(e.rest)

(***************************************************************************)
(* Data of requests and responses (mms_common_msg.c).  A Data_t of the     *)
(* generated ASN.1 coder is [present, octets] or [present, list]; unused   *)
(* counts the unused bits of a bit string.                                 *)
(***************************************************************************)
(* mmsMsg_createDataElement, mmsMsg_createBasicDataElement.  A bit string  *)
(* of whole octets has 8 unused bits; the coder takes the low three bits   *)
(* of that number.                                                         *)
RECURSIVE CreateDataElement(_)
CreateDataElement(v) ==
  LET octets(o) == [present |-> v.type, octets |-> o] IN
  CASE IsComplex(v) ->
         [present |-> v.type,
          list |-> [i \in DOMAIN v.components |-> CreateDataElement(v.components[i])]]
    [] v.type = "bit-string" ->
         [present |-> v.type, octets |-> v.buf, unused |-> 8 - (v.size % 8)]
    [] v.type = "boolean" -> octets(<<IF v.boolean THEN 1 ELSE 0>>)
    [] v.type = "float" -> octets(EncodeFloat(IF v.formatWidth = 64 THEN 11 ELSE 8, v.buf))
    [] v.type = "utc-time" -> octets(v.utcTime)
    [] IsInteger(v) -> octets(v.integer.octets)
    [] IsString(v) -> octets(StringOctets(v))
    [] OTHER -> octets(SubSeq(v.buf, 1, v.size))

(* mmsMsg_parseDataElement                                                 *)
RECURSIVE ParseDataElement(_)
ParseDataElement(d) ==
  CASE d.present \in {"array", "structure"} ->
         NewComplex(d.present, [i \in DOMAIN d.list |-> ParseDataElement(d.list[i])])
    [] d.present \in {"integer", "unsigned"} ->
         [type |-> d.present, integer |-> BerIntegerCreateFromBuffer(d.octets)]
    [] d.present \in {"visible-string", "mms-string"} -> NewString(d.present, d.octets)
    [] d.present = "bit-string" ->
         [type |-> d.present, size |-> 8 * Len(d.octets) - d.unused, buf |-> d.octets]
    [] d.present = "float" ->
         [NewFloat(Tail(d.octets)) EXCEPT !.exponentWidth = d.octets[1]]
    [] d.present = "utc-time" -> [type |-> d.present, utcTime |-> d.octets]
    [] d.present = "octet-string" ->
         [NewOctetString(Len(d.octets), Len(d.octets)) EXCEPT !.buf = d.octets]
    [] d.present = "binary-time" ->
         [type |-> d.present, size |-> Len(d.octets), buf |-> Overwrite(Zeros(6), d.octets)]
    [] OTHER -> NewBoolean(d.octets[1] # 0)

(* The generated coder on both ends of a request.                          *)
RECURSIVE Coded(_)
Coded(d) ==
  CASE d.present \in {"array", "structure"} -> [d EXCEPT !.list = [i \in DOMAIN @ |-> Coded(@[i])]]
    [] d.present = "bit-string" -> [d EXCEPT !.unused = @ % 8]
    [] OTHER -> d

(* The generated decoder on an access result.                              *)
RECURSIVE DecodeData(_)
DecodeData(buf) ==
  LET e == Element(buf)
      type == CHOOSE t \in Types : AccessTag[t] = e.tag
  IN IF buf = <<>> THEN <<>>
     ELSE <<CASE type \in {"array", "structure"} -> [present |-> type, list |-> DecodeData(e.val)]
              [] type = "bit-string" ->
                   [present |-> type, octets |-> Tail(e.val), unused |-> e.val[1]]
              [] OTHER -> [present |-> type, octets |-> e.val]>>
          \o DecodeData(e.rest)

(* What a client holds that reads a value, and a server that is sent it by *)
(* a write request.                                                        *)
ReadByClient(v) == ParseDataElement(DecodeData(EncodeAccessResult(v))[1])
WrittenByClient(v) == ParseDataElement(Coded(CreateDataElement(v)))

(* The members of a subscriber that parseGoosePayload sets.                *)
NoHeader == [stNum |-> Zeros(4), sqNum |-> Zeros(4), timeAllowedToLive |-> Zeros(4),
              confRev |-> Zeros(4), ndsCom |-> FALSE, simulation |-> FALSE]

(* Mutant: references of the same length are taken for equal.              *)
SameLengthRef(ref, s) == Len(ref) = Len(s.goCBRef)

(* The gocbRef of the message is that of the subscription.                 *)
IsMatching(ref, s) == ref = s.goCBRef

(* The loop of parseGoosePayload over the elements of the PDU: s is the    *)
(* subscriber, m collects what is stored only at the end.                  *)
RECURSIVE PayloadLoop(_, _, _, _)
PayloadLoop(buf, s, m, matching) ==
  LET e == Element(buf)
      number == DecodeUint32(e.val)
      goOn(s2, m2) == PayloadLoop(e.rest, s2, m2, matching)
  IN IF buf = <<>>
     THEN IF matching THEN [result |-> 1, sub |-> [s EXCEPT !.message = m]]
          ELSE [result |-> 0, sub |-> s]
     ELSE IF ~e.ok THEN [result |-> -1, sub |-> s]
     ELSE CASE e.tag = 128 -> IF IsMatching(e.val, s) THEN PayloadLoop(e.rest, s, m, TRUE)
                              ELSE [result |-> 0, sub |-> s]
            [] e.tag = 129 -> goOn(s, [m EXCEPT !.timeAllowedToLive = number])
            [] e.tag = 132 -> goOn([s EXCEPT !.timestamp = e.val], m)
            [] e.tag = 133 -> goOn(s, [m EXCEPT !.stNum = number])
            [] e.tag = 134 -> goOn(s, [m EXCEPT !.sqNum = number])
            [] e.tag = 135 -> goOn(s, [m EXCEPT !.simulation = DecodeBoolean(e.val[1])])
            [] e.tag = 136 -> goOn(s, [m EXCEPT !.confRev = number])
            [] e.tag = 137 -> goOn(s, [m EXCEPT !.ndsCom = DecodeBoolean(e.val[1])])
            [] e.tag = 171 ->
                 goOn([s EXCEPT !.dataSetValues = IF @ = NULL THEN ParseUnknown(e.val)
                                                  ELSE ParseAllData(e.val, @, 1).values], m)
            [] OTHER -> goOn(s, m)

(* parseGooseMessage                                                       *)
ParseGooseMessage(frame, s) ==
  LET start == IF frame[13] = 129 /\ frame[14] = 0 THEN 17 ELSE 13
      field(k) == Unsigned(SubSeq(frame, start + k, start + k + 1))
      e == Element(SubSeq(frame, start + 10, Len(frame)))
      refused(r) == [result |-> r, sub |-> s]
  IN IF Len(frame) < 22 THEN refused(-1)
     ELSE IF field(0) # 35000 \/ Len(frame) # field(4) + start + 1 THEN refused(-1)
     ELSE IF s.appId >= 0 /\ field(2) # s.appId THEN refused(0)
     ELSE IF e.tag # 97 THEN refused(-1)
     ELSE PayloadLoop(e.val, s, NoHeader, FALSE)
=============================================================================
