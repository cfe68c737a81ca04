------------------------------ MODULE MmsValues ------------------------------
(***************************************************************************)
(* MMS values (iso_mms/common/mms_value.c).  A value is a record with its  *)
(* type and the members of the C union that the type uses; strings are     *)
(* sequences of characters, NULL stands for a string that was never set.   *)
(* The octets of a native number are most significant first.               *)
(***************************************************************************)
EXTENDS Ber

CONSTANTS NULL,
          SizeofValue, SizeofPointer, SizeofPrimitive   \* sizeof of the three C types

Types == {"array", "structure", "boolean", "float", "integer", "unsigned", "utc-time",
          "bit-string", "binary-time", "octet-string", "visible-string", "mms-string",
          "access-error"}

IsComplex(v) == v.type \in {"array", "structure"}
IsInteger(v) == v.type \in {"integer", "unsigned"}
IsString(v) == v.type \in {"visible-string", "mms-string"}

(***************************************************************************)
(* Constructors                                                            *)
(***************************************************************************)
NewBoolean(b) == [type |-> "boolean", boolean |-> b]
NewFloat(octets) ==
  [type |-> "float", formatWidth |-> 8 * Len(octets),
   exponentWidth |-> IF Len(octets) = 4 THEN 8 ELSE 11, buf |-> octets]
NewIntegerFrom(native, room) ==
  [type |-> "integer", integer |-> SetIntegerValue(PrimitiveValueCreate(room), native)]
(* MmsValue_newInteger and _newUnsigned: not set, so all octets are in use *)
NewInteger(type, bits) ==
  [type |-> type, integer |-> IF bits <= 32 THEN BerIntegerCreateInt32 ELSE BerIntegerCreateInt64]
NewBitString(bits) == [type |-> "bit-string", size |-> bits, buf |-> Zeros(ByteSize(bits))]
NewOctetString(size, maxSize) ==
  [type |-> "octet-string", size |-> size, maxSize |-> maxSize, buf |-> Zeros(maxSize)]
NewString(type, s) == [type |-> type, str |-> s]
NewUtcTime(sec) == [type |-> "utc-time", utcTime |-> sec \o Zeros(4)]
NewBinaryTime(timeOfDay) ==
  [type |-> "binary-time", size |-> IF timeOfDay THEN 4 ELSE 6, buf |-> Zeros(6)]
NewComplex(type, cs) == [type |-> type, components |-> cs]

StringOctets(v) == IF v.str = NULL THEN <<>> ELSE v.str

AbsVal(n) == IF n < 0 THEN -n ELSE n

(* MmsValue_newDefaultValue, MmsValue_newStructure, MmsValue_createArray.  *)
(* spec is a type specification: [type, n] or [type, elements].            *)
RECURSIVE NewDefaultValue(_)
NewDefaultValue(spec) ==
  CASE spec.type \in {"integer", "unsigned"} -> NewInteger(spec.type, spec.n)
    [] spec.type = "float" -> NewFloat(Zeros(spec.n \div 8))
    [] spec.type = "bit-string" -> NewBitString(AbsVal(spec.n))
    [] spec.type = "octet-string" ->
         NewOctetString(IF spec.n < 0 THEN 0 ELSE spec.n, AbsVal(spec.n))
    [] spec.type \in {"visible-string", "mms-string"} -> NewString(spec.type, NULL)
    [] spec.type = "boolean" -> NewBoolean(FALSE)
    [] spec.type = "utc-time" -> NewUtcTime(Zeros(4))
    [] spec.type = "binary-time" -> NewBinaryTime(spec.n = 4)
    [] spec.type = "array" ->
         NewComplex("array", [i \in 1 .. spec.n |-> NewDefaultValue(spec.element)])
    [] OTHER -> NewComplex("structure",
                           [i \in DOMAIN spec.elements |-> NewDefaultValue(spec.elements[i])])

(***************************************************************************)
(* Comparison and update                                                   *)
(***************************************************************************)
(* MmsValue_equals                                                         *)
RECURSIVE Equals(_, _)
Equals(v, w) ==
  /\ v.type = w.type
  /\ CASE IsComplex(v) -> /\ Len(v.components) = Len(w.components)
                          /\ \A i \in DOMAIN v.components :
                               Equals(v.components[i], w.components[i])
       [] v.type = "boolean" -> v.boolean = w.boolean
       [] v.type = "float" ->     \* compares the octets of the first value's width
            SubSeq(v.buf, 1, v.formatWidth \div 8) = SubSeq(w.buf, 1, v.formatWidth \div 8)
       [] IsInteger(v) -> Compare(v.integer, w.integer)
       [] v.type = "utc-time" -> v.utcTime = w.utcTime
       [] v.type = "bit-string" -> v.size = w.size /\ v.buf = w.buf
       [] v.type \in {"binary-time", "octet-string"} ->
            v.size = w.size /\ SubSeq(v.buf, 1, v.size) = SubSeq(w.buf, 1, w.size)
       [] IsString(v) -> v.str = w.str
       [] OTHER -> v.err = w.err

(* MmsValue_equalTypes                                                     *)
RECURSIVE EqualTypes(_, _)
EqualTypes(v, w) ==
  /\ v.type = w.type
  /\ IsComplex(v) => /\ Len(v.components) = Len(w.components)
                     /\ \A i \in DOMAIN v.components :
                          EqualTypes(v.components[i], w.components[i])

Overwrite(buf, octets) == [i \in DOMAIN buf |-> IF i <= Len(octets) THEN octets[i] ELSE buf[i]]

(* Mutant: a longer octet string is accepted and its size kept.            *)
UpdateOctetsKeepingSize(v, u) ==
  [ok |-> TRUE, value |-> [v EXCEPT !.buf = Overwrite(v.buf, SubSeq(u.buf, 1, u.size))]]

UpdateOctets(v, u) ==
  IF v.maxSize = u.maxSize
  THEN [ok |-> TRUE, value |-> [v EXCEPT !.buf = Overwrite(v.buf, SubSeq(u.buf, 1, u.size)),
                                         !.size = u.size]]
  ELSE [ok |-> FALSE, value |-> v]

(* MmsValue_update and updateStructuredComponent: what the update of a     *)
(* component returns is not looked at.                                     *)
RECURSIVE Update(_, _)
Update(v, u) ==
  LET done(w) == [ok |-> TRUE, value |-> w]
      refused == [ok |-> FALSE, value |-> v]
  IN CASE v.type # u.type -> refused
       [] IsComplex(v) ->
            done([v EXCEPT !.components =
                    [i \in DOMAIN v.components |->
                       Update(v.components[i], u.components[i]).value]])
       [] v.type = "boolean" -> done([v EXCEPT !.boolean = u.boolean])
       [] v.type = "float" ->
            IF v.formatWidth = u.formatWidth
            THEN done([v EXCEPT !.exponentWidth = u.exponentWidth, !.buf = u.buf])
            ELSE refused
       [] IsInteger(v) ->
            LET r == SetFromBerInteger(v.integer, u.integer)
            IN [ok |-> r.ok, value |-> [v EXCEPT !.integer = r.pv]]
       [] v.type = "utc-time" -> done([v EXCEPT !.utcTime = u.utcTime])
       [] v.type = "bit-string" ->
            IF v.size = u.size THEN done([v EXCEPT !.buf = u.buf]) ELSE refused
       [] v.type = "octet-string" -> UpdateOctets(v, u)
       [] IsString(v) -> done([v EXCEPT !.str = u.str])
       [] v.type = "binary-time" ->
            done([v EXCEPT !.size = u.size, !.buf = Overwrite(v.buf, SubSeq(u.buf, 1, u.size))])
       [] OTHER -> refused

(* The shapes agree in everything that Update depends on.                  *)
RECURSIVE SameShape(_, _)
SameShape(v, w) ==
  /\ EqualTypes(v, w)
  /\ CASE IsComplex(v) ->
            \A i \in DOMAIN v.components : SameShape(v.components[i], w.components[i])
       [] v.type = "float" -> v.formatWidth = w.formatWidth
       [] IsInteger(v) -> Len(w.integer.octets) <= v.integer.maxSize
       [] v.type = "bit-string" -> v.size = w.size
       [] v.type = "octet-string" -> v.maxSize = w.maxSize
       [] OTHER -> v.type # "access-error"

(***************************************************************************)
(* Copies                                                                  *)
(***************************************************************************)
(* MmsValue_clone: of an octet string only the octets in use are copied    *)
(* (those behind them are not initialized: zero here, and never read).     *)
RECURSIVE CloneValue(_)
CloneValue(v) ==
  CASE IsComplex(v) ->
         [v EXCEPT !.components = [i \in DOMAIN v.components |-> CloneValue(v.components[i])]]
    [] v.type = "octet-string" ->
         [v EXCEPT !.buf = Overwrite(Zeros(v.maxSize), SubSeq(v.buf, 1, v.size))]
    [] OTHER -> v

(* What follows the fixed part of a value in memory.                       *)
Extra(v) ==
  CASE v.type = "bit-string" -> ByteSize(v.size)
    [] IsInteger(v) -> SizeofPrimitive + v.integer.maxSize
    [] v.type = "float" -> v.formatWidth \div 8
    [] v.type = "octet-string" -> v.maxSize
    [] IsString(v) -> Len(StringOctets(v)) + 1
    [] OTHER -> 0

(* MmsValue_getSizeInMemory                                                *)
RECURSIVE SizeInMemory(_)
SizeInMemory(v) ==
  SizeofValue + (IF IsComplex(v)
                 THEN FoldLeft(LAMBDA n, c : n + SizeInMemory(c),
                               SizeofPointer * Len(v.components), v.components)
                 ELSE Extra(v))

(* The octets a simple value takes in the buffer, in the order in which    *)
(* MmsValue_cloneToBuffer advances destinationAddress.                     *)
LeafSpan(v) ==
  SizeofValue + (CASE v.type = "bit-string" -> ByteSize(v.size)
                   [] IsInteger(v) -> SizeofPrimitive + v.integer.maxSize
                   [] v.type = "float" -> Len(v.buf)
                   [] v.type = "octet-string" -> Len(v.buf)
                   [] IsString(v) -> Len(StringOctets(v) \o <<0>>)
                   [] OTHER -> 0)

(* MmsValue_cloneToBuffer: the address behind the copy.  The components    *)
(* follow the array of pointers to them.                                   *)
RECURSIVE CloneToBuffer(_, _)
CloneToBuffer(v, dest) ==
  IF IsComplex(v)
  THEN FoldLeft(LAMBDA d, c : CloneToBuffer(c, d),
                dest + SizeofValue + SizeofPointer * Len(v.components), v.components)
  ELSE dest + LeafSpan(v)

(***************************************************************************)
(* Bit strings                                                             *)
(***************************************************************************)
(* Bit n of an octet, 0 for the least significant.                         *)
OctetBit(o, n) == (o \div 2 ^ n) % 2

(* MmsValue_setBitStringBit                                                *)
SetBit(v, pos, b) ==
  IF pos >= v.size THEN v
  ELSE LET i == pos \div 8 + 1
           n == 7 - (pos % 8)
           cleared == v.buf[i] - OctetBit(v.buf[i], n) * 2 ^ n
       IN [v EXCEPT !.buf[i] = IF b THEN cleared + 2 ^ n ELSE cleared]

(* Mutant: bits are counted from the least significant one.                *)
GetBitReversed(v, pos) == pos < v.size /\ OctetBit(v.buf[pos \div 8 + 1], pos % 8) = 1

(* MmsValue_getBitStringBit                                                *)
GetBit(v, pos) == pos < v.size /\ OctetBit(v.buf[pos \div 8 + 1], 7 - (pos % 8)) = 1

Positions(v) == [i \in 1 .. v.size |-> i - 1]

(* MmsValue_getBitStringAsInteger                                          *)
BitsAsInteger(v) == FoldLeft(LAMBDA n, p : n + (IF GetBit(v, p) THEN 2 ^ p ELSE 0), 0, Positions(v))

(* MmsValue_setBitStringFromInteger                                        *)
BitsFromInteger(v, n) == FoldLeft(LAMBDA w, p : SetBit(w, p, OctetBit(n, p) = 1), v, Positions(v))

(* MmsValue_deleteAllBitStringBits, MmsValue_setAllBitStringBits           *)
DeleteAllBits(v) == [v EXCEPT !.buf = Zeros(Len(v.buf))]
SetAllBits(v) ==
  [v EXCEPT !.buf = [i \in DOMAIN v.buf |->
     IF i = Len(v.buf) THEN MaskLow(255, Padding(v.size)) ELSE 255]]

(* MmsValue_getNumberOfSetBits                                             *)
NumberOfSetBits(v) ==
  FoldLeft(LAMBDA n, o : n + FoldLeft(LAMBDA k, i : k + OctetBit(o, i), 0, <<0,1,2,3,4,5,6,7>>),
           0, v.buf)

(***************************************************************************)
(* Times.  A time in ms is given by its whole seconds (four octets) and    *)
(* the rest; for binary time by days since 1984 and the ms of the day.     *)
(***************************************************************************)
(* MmsValue_setUtcTimeMs                                                   *)
SetUtcTimeMs(v, sec, ms) ==
  LET fraction == ms * 16777 + (ms * 216) \div 1000 IN
  [v EXCEPT !.utcTime = sec \o <<(fraction \div 65536) % 256, (fraction \div 256) % 256,
                                 fraction % 256, 10>>]

(* MmsValue_getUtcTimeInMs                                                 *)
GetUtcTimeInMs(v) ==
  [sec |-> SubSeq(v.utcTime, 1, 4), ms |-> Unsigned(SubSeq(v.utcTime, 5, 7)) \div 16777]

(* MmsValue_setUtcTime and _toUnixTimestamp: the seconds only.             *)
SetUtcTime(v, sec) == [v EXCEPT !.utcTime = Overwrite(v.utcTime, sec)]
ToUnixTimestamp(v) == SubSeq(v.utcTime, 1, 4)
SetUtcTimeQuality(v, q) == [v EXCEPT !.utcTime[8] = q]

TwoOctets(n) == <<(n \div 256) % 256, n % 256>>

(* MmsValue_setBinaryTime: 16 bits for the days.                           *)
SetBinaryTime(v, day, ms) ==
  [v EXCEPT !.buf = TwoOctets(ms \div 65536) \o TwoOctets(ms)
                    \o (IF v.size = 6 THEN TwoOctets(day) ELSE SubSeq(v.buf, 5, 6))]

(* MmsValue_getBinaryTimeAsUtcMs; without days the time is since 1970.     *)
GetBinaryTime(v) ==
  [day |-> IF v.size = 6 THEN Unsigned(SubSeq(v.buf, 5, 6)) ELSE 0,
   ms |-> Unsigned(SubSeq(v.buf, 1, 4))]

(***************************************************************************)
(* Strings: MmsValue_setOctetString, _setVisibleString, _setMmsString      *)
(***************************************************************************)
SetOctetString(v, octets) ==
  IF Len(octets) <= v.maxSize
  THEN [v EXCEPT !.buf = Overwrite(@, octets), !.size = Len(octets)] ELSE v
SetString(v, type, s) == IF v.type = type THEN [v EXCEPT !.str = s] ELSE v

(***************************************************************************)
(* Elements                                                                *)
(***************************************************************************)
InRange(v, i) == IsComplex(v) /\ i \in 0 .. Len(v.components) - 1
SetElement(v, i, e) == IF InRange(v, i) THEN [v EXCEPT !.components[i + 1] = e] ELSE v
GetElement(v, i) == IF InRange(v, i) THEN v.components[i + 1] ELSE NULL

(***************************************************************************)
(* Native integers: MmsValue_setInt32 and its kin look at the room first,  *)
(* MmsValue_toInt32 and its kin give 0 where there is no conversion.       *)
(***************************************************************************)
SetInteger(v, type, native, room) ==
  IF v.type = type /\ v.integer.maxSize >= room
  THEN [v EXCEPT !.integer = SetIntegerValue(@, native)] ELSE v
ToInt(v, width) ==
  IF IsInteger(v) THEN ToSigned(v.integer, width, Zeros(width)) ELSE Zeros(width)
ToUint(v) == IF IsInteger(v) THEN ToUint32(v.integer, Zeros(4)) ELSE Zeros(4)
=============================================================================
