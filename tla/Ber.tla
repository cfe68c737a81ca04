--------------------------------- MODULE Ber ---------------------------------
(***************************************************************************)
(* BER encoding and decoding (mms/asn1: ber_encoder.c, ber_decode.c,       *)
(* ber_integer.c, asn1_ber_primitive_value.c).                             *)
(*                                                                         *)
(* A buffer is a sequence of octets.  An encoder returns the octets that   *)
(* it appends; a decoder that advances bufPos takes what is left of the    *)
(* buffer up to maxBufPos and returns what it read and what remains.  A    *)
(* native integer is the sequence of its octets, most significant first    *)
(* (revertByteOrder has been applied), so that no width is lost.           *)
(***************************************************************************)
EXTENDS Integers, Sequences, SequencesExt

Octet == 0 .. 255
Bit7(o) == o \div 128                     \* o & 0x80

(* The value of unsigned octets; for small values only.                    *)
Unsigned(octets) == FoldLeft(LAMBDA v, o : v * 256 + o, 0, octets)

Zeros(n) == <<>> \o [i \in 1 .. n |-> 0]

(***************************************************************************)
(* Lengths                                                                 *)
(***************************************************************************)
(* BerEncoder_encodeLength; lengths above 65535 do not occur, a PDU being  *)
(* smaller.                                                                *)
EncodeLength(n) ==
  IF n < 128 THEN <<n>> ELSE IF n < 256 THEN <<129, n>> ELSE <<130, n \div 256, n % 256>>

DetermineLengthSize(n) == IF n < 128 THEN 1 ELSE IF n < 256 THEN 2 ELSE 3

EncodeTL(tag, n) == <<tag>> \o EncodeLength(n)

NoLength == [ok |-> FALSE, length |-> 0, rest |-> <<>>]

(* BerDecoder_decodeLength.  The indefinite form gives -1.                 *)
DecodeLength(buf) ==
  IF buf = <<>> THEN NoLength
  ELSE LET n == buf[1] % 128 IN
       IF Bit7(buf[1]) = 0 THEN [ok |-> TRUE, length |-> buf[1], rest |-> Tail(buf)]
       ELSE IF n = 0 THEN [ok |-> TRUE, length |-> -1, rest |-> Tail(buf)]
       ELSE IF Len(buf) <= n THEN NoLength
       ELSE [ok |-> TRUE, length |-> Unsigned(SubSeq(buf, 2, n + 1)),
             rest |-> SubSeq(buf, n + 2, Len(buf))]

(***************************************************************************)
(* Integers                                                                *)
(***************************************************************************)
(* Octet i is redundant in front of octet i + 1.                           *)
Redundant(octets, i) ==
  \/ octets[i] = 0 /\ Bit7(octets[i + 1]) = 0
  \/ octets[i] = 255 /\ Bit7(octets[i + 1]) = 1

(* Mutant: the sign of the next octet is not looked at.                    *)
CompressIntegerAllZeros(octets) ==
  LET keep == {i \in 1 .. Len(octets) : i = Len(octets) \/ octets[i] # 0}
      first == CHOOSE i \in keep : \A j \in keep : i <= j
  IN SubSeq(octets, first, Len(octets))

(* BerEncoder_compressInteger: the longest prefix of redundant octets is   *)
(* deleted.                                                                *)
CompressInteger(octets) ==
  LET first == CHOOSE i \in 1 .. Len(octets) :
                 /\ i = Len(octets) \/ ~Redundant(octets, i)
                 /\ \A j \in 1 .. i - 1 : Redundant(octets, j)
  IN SubSeq(octets, first, Len(octets))

(* BerEncoder_encodeUInt32: a zero octet is put in front.                  *)
EncodeUInt32(octets) == CompressInteger(<<0>> \o octets)
EncodeUInt32WithTL(tag, octets) == <<tag, Len(EncodeUInt32(octets))>> \o EncodeUInt32(octets)
UInt32DetermineEncodedSize(octets) == Len(EncodeUInt32(octets))

Last4(octets) == SubSeq(Zeros(4) \o octets, Len(octets) + 1, Len(octets) + 4)

(* BerDecoder_decodeUint32: more than four octets shift out at the top.    *)
DecodeUint32(octets) == Last4(octets)

(* Asn1PrimitiveValue: the octets in use and the room there is.            *)
PrimitiveValue(octets, maxSize) == [octets |-> octets, maxSize |-> maxSize]

(* Asn1PrimitiveValue_create: size is the whole room, all octets zero.     *)
PrimitiveValueCreate(size) == PrimitiveValue(Zeros(size), size)

BerIntegerCreateInt32 == PrimitiveValueCreate(4)
BerIntegerCreateInt64 == PrimitiveValueCreate(64)
BerIntegerCreateFromBuffer(octets) ==
  PrimitiveValue(octets, IF Len(octets) > 8 THEN Len(octets) ELSE 8)

(* setIntegerValue, with the octets of the native type.  BerInteger_setInt32,
   _setInt64, _setUint8, _setUint16 and _setUint32 differ in the type only. *)
SetIntegerValue(pv, native) ==
  LET c == CompressInteger(native) IN
  IF Len(c) <= pv.maxSize THEN [pv EXCEPT !.octets = c] ELSE pv

(* BerInteger_setFromBerInteger                                            *)
SetFromBerInteger(pv, value) ==
  IF pv.maxSize >= Len(value.octets)
  THEN [ok |-> TRUE, pv |-> [pv EXCEPT !.octets = value.octets]]
  ELSE [ok |-> FALSE, pv |-> pv]

(* Mutant: the room is compared too.                                       *)
CompareWithRoom(pv, other) == pv = other

(* Asn1PrimitivaValue_compare                                              *)
Compare(pv, other) == pv.octets = other.octets

Extended(octets, width, sign) ==
  [i \in 1 .. width |-> IF i <= width - Len(octets) THEN sign
                        ELSE octets[i - (width - Len(octets))]]

SignOctet(octets) == IF octets # <<>> /\ Bit7(octets[1]) = 1 THEN 255 ELSE 0

(* BerInteger_toInt32 and _toInt64: the native octets, sign extended;      *)
(* otherwise the caller keeps what it has.                                 *)
ToSigned(pv, width, otherwise) ==
  IF Len(pv.octets) <= width THEN Extended(pv.octets, width, SignOctet(pv.octets)) ELSE otherwise

(* BerInteger_toUint32                                                     *)
ToUint32(pv, otherwise) ==
  IF Len(pv.octets) <= 4 THEN Extended(pv.octets, 4, 0) ELSE otherwise

(***************************************************************************)
(* The other types                                                         *)
(***************************************************************************)
EncodeBoolean(tag, b) == <<tag, 1, IF b THEN 255 ELSE 0>>
DecodeBoolean(o) == o # 0

(* BerEncoder_encodeOctetString, _encodeStringWithTag and                  *)
(* _encodeAsn1PrimitiveValue                                               *)
EncodeOctetString(tag, octets) == EncodeTL(tag, Len(octets)) \o octets
DetermineEncodedStringSize(octets) == 1 + DetermineLengthSize(Len(octets)) + Len(octets)

ByteSize(bits) == bits \div 8 + (IF bits % 8 > 0 THEN 1 ELSE 0)
Padding(bits) == ByteSize(bits) * 8 - bits

(* o & ~((1 << n) - 1)                                                     *)
MaskLow(o, n) == (o \div 2 ^ n) * 2 ^ n

(* BerEncoder_encodeBitString                                              *)
EncodeBitString(tag, bits, octets) ==
  LET n == ByteSize(bits) IN
  EncodeTL(tag, n + 1) \o <<Padding(bits)>>
    \o [i \in 1 .. n |-> IF i = n THEN MaskLow(octets[i], Padding(bits)) ELSE octets[i]]

(* BerEncoder_determineEncodedBitStringSize                                *)
DetermineEncodedBitStringSize(bits) ==
  2 + DetermineLengthSize(ByteSize(bits)) + ByteSize(bits)

(* BerEncoder_encodeFloat, BerDecoder_decodeFloat and _decodeDouble, on    *)
(* the octets of the native value, most significant first.                 *)
EncodeFloat(exponentWidth, octets) == <<exponentWidth>> \o octets
DecodeFloat(octets) == Tail(octets)
=============================================================================
