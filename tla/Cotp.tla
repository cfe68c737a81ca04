-------------------------------- MODULE Cotp --------------------------------
(***************************************************************************)
(* ISO 8073 transport over TCP (iso_cotp/cotp.c): negotiation of the TPDU  *)
(* size, segmentation of messages and their reassembly.  An end is the     *)
(* CotpConnection of one of the two parties; a TPDU is a record.           *)
(***************************************************************************)
EXTENDS Integers, Sequences, SequencesExt

CotpDataHeaderSize == 3      \* COTP_DATA_HEADER_SIZE

(* Mutant: the size is rounded up to a power of two.                       *)
TpduExponentUp(maxSize, size) ==
  CHOOSE e \in 0 .. 16 : 2 ^ e >= size /\ \A d \in 0 .. e - 1 : 2 ^ d < size

(* CotpConnection_setTpduSize: the largest power of two that is not larger *)
(* than the size and than COTP_MAX_TPDU_SIZE of this build.                *)
TpduExponent(maxSize, size) ==
  LET n == IF size > maxSize THEN maxSize ELSE size
  IN CHOOSE e \in 0 .. 15 : 2 ^ e <= n /\ n < 2 ^ (e + 1)

TpduSize(end) == 2 ^ end.tpdu_size                \* CotpConnection_getTpduSize

(* CotpConnection_init; room is the size of the payload buffer.            *)
CotpInit(maxSize, room) ==
  [maxTpdu |-> maxSize, tpdu_size |-> TpduExponent(maxSize, maxSize), srcRef |-> -1,
   dstRef |-> -1, tsap_id_src |-> -1, tsap_id_dst |-> -1, payload |-> <<>>, room |-> room]

(***************************************************************************)
(* Sending                                                                 *)
(***************************************************************************)
(* writeOptions                                                            *)
Options(end) ==
  [tpdu_size |-> end.tpdu_size, tsap_id_dst |-> end.tsap_id_dst, tsap_id_src |-> end.tsap_id_src]

(* CotpConnection_sendConnectionRequestMessage                             *)
ConnectionRequest(end, remoteTSelector) ==
  LET e == [end EXCEPT !.tsap_id_dst = remoteTSelector, !.tsap_id_src = 0]
  IN [end |-> e, tpdu |-> [code |-> "CR", first |-> 0, second |-> 2, options |-> Options(e)]]

(* CotpConnection_sendConnectionResponseMessage                            *)
ConnectionResponse(end) ==
  [code |-> "CC", first |-> end.srcRef, second |-> end.dstRef, options |-> Options(end)]

(* Mutant: the last TPDU of a message that fills it is not marked.         *)
SegmentsExact(end, message) ==
  LET f == TpduSize(end) - CotpDataHeaderSize
      n == Len(message) \div f + 1
  IN [i \in 1 .. n |-> [code |-> "DT", last |-> i = n,
                        data |-> SubSeq(message, (i - 1) * f + 1,
                                        IF i = n THEN Len(message) - 1 ELSE i * f)]]

(* CotpConnection_sendDataMessage: the TPDUs of a message                  *)
Segments(end, message) ==
  LET f == TpduSize(end) - CotpDataHeaderSize
      n == IF Len(message) <= f THEN 1
           ELSE Len(message) \div f + (IF Len(message) % f # 0 THEN 1 ELSE 0)
  IN [i \in 1 .. n |-> [code |-> "DT", last |-> i = n,
                        data |-> SubSeq(message, (i - 1) * f + 1,
                                        IF i = n THEN Len(message) ELSE i * f)]]

(***************************************************************************)
(* Receiving one TPDU (parseIncomingMessage)                               *)
(***************************************************************************)
(* parseOptions                                                            *)
WithOptions(end, options) ==
  [end EXCEPT !.tpdu_size = TpduExponent(end.maxTpdu, 2 ^ options.tpdu_size),
              !.tsap_id_src = options.tsap_id_src, !.tsap_id_dst = options.tsap_id_dst]

(* Starts a message: CotpConnection_parseIncomingMessage clears the payload*)
Cleared(end) == [end EXCEPT !.payload = <<>>]

(* The end after a TPDU, and what the reader is told; "MORE": it goes on   *)
(* reading the next TPDU of the same message.                              *)
Received(end, tpdu) ==
  CASE tpdu.code = "CR" ->       \* parseConnectRequestTpdu
         [end |-> WithOptions([end EXCEPT !.dstRef = tpdu.first, !.srcRef = tpdu.second],
                              tpdu.options), indication |-> "CONNECT"]
    [] tpdu.code = "CC" ->       \* parseConnectConfirmTpdu
         [end |-> WithOptions([end EXCEPT !.srcRef = tpdu.first, !.dstRef = tpdu.second],
                              tpdu.options), indication |-> "CONNECT"]
    [] OTHER ->                  \* parseDataTpdu, addPayloadToBuffer
         IF Len(end.payload) + Len(tpdu.data) > end.room
         THEN [end |-> end, indication |-> "ERROR"]
         ELSE [end |-> [end EXCEPT !.payload = @ \o tpdu.data],
               indication |-> IF tpdu.last THEN "DATA" ELSE "MORE"]
=============================================================================
