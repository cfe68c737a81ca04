----------------------------- MODULE MmsValueApi -----------------------------
(***************************************************************************)
(* A structured MMS value in the hands of an application and of the        *)
(* library: its components are set and read with the functions of          *)
(* mms_value.c; as a whole it is copied, updated from another value of its *)
(* type, read and written by a client and received by a GOOSE subscriber.  *)
(* wrote[i] holds what was written last to component i, if anything was.   *)
(***************************************************************************)
EXTENDS MmsData

CONSTANTS Leaf,             \* the type specifications of components
          Natives(_),       \* what an application writes to a component
          MaxOperations

VARIABLES value, specs, wrote, operations

apiVars == <<value, specs, wrote, operations>>

Components == 1 .. 2
StructureOf(ss) == [type |-> "structure", elements |-> ss]

Init ==
  /\ specs \in [Components -> Leaf]
  /\ value = NewDefaultValue(StructureOf(specs))
  /\ wrote = [i \in Components |-> <<>>]
  /\ operations = 0

(* The setter for the type of a component, with a native argument n.       *)
Written(v, n) ==
  CASE v.type = "boolean" -> [v EXCEPT !.boolean = n]
    [] IsInteger(v) -> SetInteger(v, v.type, n, Len(n))
    [] v.type = "float" -> [v EXCEPT !.buf = n]
    [] v.type = "bit-string" -> BitsFromInteger(v, n)
    [] v.type = "octet-string" -> SetOctetString(v, n)
    [] v.type = "utc-time" -> SetUtcTimeMs(v, n.sec, n.ms)
    [] v.type = "binary-time" -> SetBinaryTime(v, n.day, n.ms)
    [] OTHER -> SetString(v, v.type, n)

(* The getter, for an argument of the form of n.                           *)
Read(v, n) ==
  CASE v.type = "boolean" -> v.boolean
    [] v.type = "integer" -> ToInt(v, Len(n))
    [] v.type = "unsigned" -> ToUint(v)
    [] v.type = "float" -> v.buf
    [] v.type = "bit-string" -> BitsAsInteger(v)
    [] v.type = "octet-string" -> SubSeq(v.buf, 1, v.size)
    [] v.type = "utc-time" -> GetUtcTimeInMs(v)
    [] v.type = "binary-time" -> [GetBinaryTime(v) EXCEPT !.day = IF v.size = 4 THEN n.day ELSE @]
    [] OTHER -> StringOctets(v)

Operation == operations < MaxOperations /\ operations' = operations + 1 /\ UNCHANGED specs

(* The native argument fits; the setters leave the value alone otherwise.  *)
Fits(v, n) ==
  /\ v.type = "octet-string" => Len(n) <= v.maxSize
  /\ IsInteger(v) => Len(n) <= v.integer.maxSize

Write(i, n) ==
  LET v == GetElement(value, i - 1) IN
  /\ Operation
  /\ value' = SetElement(value, i - 1, Written(v, n))
  /\ wrote' = [wrote EXCEPT ![i] = IF Fits(v, n) THEN <<n>> ELSE @]

Become(v) == Operation /\ value' = v /\ UNCHANGED wrote

(* Strings that were never set are NULL, which the functions that copy a   *)
(* value or take its size do not expect.                                   *)
StringsSet == \A i \in Components : IsString(value.components[i]) => value.components[i].str # NULL

CloneIt == StringsSet /\ Become(CloneValue(value))

(* A value of the same type is updated from this one: a variable of the    *)
(* server that an application or a client updates.  An octet string with   *)
(* another maximum is skipped by MmsValue_update.                          *)
UpdateAnother ==
  LET variable == NewDefaultValue(StructureOf(specs)) IN
  /\ SameShape(variable, value)
  /\ Become(Update(variable, value).value)

ClientReads == Become(ReadByClient(value))
ClientWrites == Become(WrittenByClient(value))

GooseReceives ==
  /\ \A i \in Components : specs[i].type # "mms-string"
  /\ Become(ParseAllData(EncodeAccessResult(value),
                         <<NewDefaultValue(StructureOf(specs))>>, 1).values[1])

(* All bits of a bit string are cleared, or set, at once.                  *)
AllBits(i) ==
  /\ Operation
  /\ specs[i].type = "bit-string"
  /\ \E set \in BOOLEAN :
       /\ value' = SetElement(value, i - 1, IF set THEN SetAllBits(GetElement(value, i - 1))
                                            ELSE DeleteAllBits(GetElement(value, i - 1)))
       /\ wrote' = [wrote EXCEPT ![i] = <<IF set THEN 2 ^ AbsVal(specs[i].n) - 1 ELSE 0>>]

(* MmsValue_setUtcTime and _setUtcTimeQuality change their octets only.    *)
TouchTime(i) ==
  /\ Operation
  /\ specs[i].type = "utc-time"
  /\ \/ /\ value' = SetElement(value, i - 1, SetUtcTimeQuality(GetElement(value, i - 1), 128))
        /\ UNCHANGED wrote
     \/ \E sec \in {<<0, 0, 0, 0>>, <<127, 255, 255, 255>>} :
          /\ value' = SetElement(value, i - 1, SetUtcTime(GetElement(value, i - 1), sec))
          /\ wrote' = [wrote EXCEPT ![i] = IF @ = <<>> THEN @ ELSE <<[@[1] EXCEPT !.sec = sec]>>]

Next ==
  \/ \E i \in Components : \E n \in Natives(specs[i]) : Write(i, n)
  \/ CloneIt \/ UpdateAnother \/ ClientReads \/ ClientWrites \/ GooseReceives
  \/ \E i \in Components : AllBits(i) \/ TouchTime(i)

Spec == Init /\ [][Next]_apiVars

(***************************************************************************)
(* Properties                                                              *)
(***************************************************************************)
(* What was written to a component is read from it, whatever copies,       *)
(* updates, reads, writes and GOOSE messages the value went through.       *)
ReadsAsWritten ==
  \A i \in Components :
    \A n \in Range(wrote[i]) :
      LET v == GetElement(value, i - 1) IN
      /\ Read(v, n) = n
      /\ v.type = "bit-string" => NumberOfSetBits(v) = SumFunction([b \in 0 .. v.size - 1 |-> OctetBit(n, b)])
      /\ v.type = "utc-time" => ToUnixTimestamp(v) = n.sec

(* A value and its copies are equal for MmsValue_equals, so that dchg      *)
(* triggers fire on changes only, and each copy takes the octets that were *)
(* computed for it before: mmsServer_encodeAccessResult announces with     *)
(* encode = false what it writes with encode = true, and                   *)
(* MmsValue_cloneToBuffer fills MmsValue_getSizeInMemory octets, by which  *)
(* the report buffer allocates.                                            *)
CopiesEqual ==
  /\ AccessResultSize(value) = Len(EncodeAccessResult(value))
  /\ StringsSet =>
       /\ Equals(CloneValue(value), value)
       /\ CloneToBuffer(value, 0) = SizeInMemory(value)
       /\ Equals(ReadByClient(value), value)
       /\ EqualTypes(value, NewDefaultValue(StructureOf(specs)))
=============================================================================
