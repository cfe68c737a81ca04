------------------------------ MODULE MCValues -------------------------------
(* One component of every type that the server maps attributes to, and     *)
(* native values around the limits of their encodings.                     *)
EXTENDS VariableAccess

MCLeaf ==
  {[type |-> t, n |-> k] :
     <<t, k>> \in {<<"boolean", 0>>, <<"integer", 32>>, <<"integer", 64>>, <<"unsigned", 32>>,
                   <<"float", 32>>, <<"float", 64>>, <<"bit-string", 8>>, <<"bit-string", -13>>,
                   <<"octet-string", -130>>, <<"visible-string", -129>>, <<"mms-string", -255>>,
                   <<"utc-time", 0>>, <<"binary-time", 4>>, <<"binary-time", 6>>}}

Repeated(n) == <<>> \o [i \in 1 .. n |-> 65]

MCNatives(s) ==
  CASE s.type = "boolean" -> BOOLEAN
    [] s.type = "integer" /\ s.n = 32 ->
         {<<0, 0, 0, 127>>, <<0, 0, 0, 128>>, <<255, 255, 255, 127>>, <<128, 0, 0, 0>>}
    [] s.type = "integer" -> {<<0, 0, 0, 0, 0, 128, 0, 0>>, <<128, 0, 0, 0, 0, 0, 0, 1>>}
    [] s.type = "unsigned" -> {<<0, 0, 0, 255>>, <<0, 0, 128, 0>>, <<127, 255, 255, 255>>}
    [] s.type = "float" -> {<<66>> \o Zeros(s.n \div 8 - 1)}
    [] s.type = "bit-string" -> {5, 2 ^ AbsVal(s.n) - 2}
    [] s.type = "octet-string" -> {<<>>, Repeated(119), Repeated(130)}
    [] s.type = "utc-time" -> {[sec |-> <<80, 1, 2, 3>>, ms |-> m] : m \in {0, 1, 999}}
    [] s.type = "binary-time" -> {[day |-> 10000, ms |-> m] : m \in {0, 86399999}}
    [] OTHER -> {<<>>, Repeated(127), Repeated(128)}

(* Two of them for a variable of the model.                                *)
MCOffered(s) ==
  CASE s.type = "boolean" -> BOOLEAN
    [] s.type = "integer" /\ s.n = 32 -> {<<0, 0, 0, 128>>, <<128, 0, 0, 0>>}
    [] s.type = "integer" -> {<<128, 0, 0, 0, 0, 0, 0, 1>>}
    [] s.type = "unsigned" -> {<<0, 0, 0, 255>>, <<127, 255, 255, 255>>}
    [] s.type = "octet-string" -> {Repeated(119), Repeated(130)}
    [] s.type = "utc-time" -> {[sec |-> <<80, 1, 2, 3>>, ms |-> 999]}
    [] s.type = "binary-time" -> {[day |-> 10000, ms |-> 86399999]}
    [] s.type \in {"float", "bit-string"} -> MCNatives(s)
    [] OTHER -> {Repeated(128)}

Only(types) == {s \in MCLeaf : s.type \in types}
Pairs(first, second) == {<<s, t>> : s \in Only(first), t \in Only(second)}

(* Values in the hands of an application; constructed attributes and data  *)
(* objects with one component of every type, a constraint that may be      *)
(* written by default, one that may not, one that never may, and data sets *)
(* with the whole, one component, and members that overlap.                *)
MCConfigurations ==
  {[kind |-> "value", fc |-> "ST", options |-> {}, members |-> <<>>, types |-> [Components -> MCLeaf]]}
  \cup {[kind |-> k, fc |-> x[1], options |-> x[2], members |-> x[3], types |-> x[4]] :
           k \in {"attribute", "object"},
           x \in {<<"SP", {"dchg"}, <<0>>, {<<s, t>> : s \in MCLeaf, t \in Only({"boolean"})}>>,
                  <<"CF", {"dchg", "dupd"}, <<1, 2>>, Pairs({"bit-string", "visible-string"}, {"octet-string"})>>,
                  <<"SP", {"dchg"}, <<2, 0>>, Pairs({"unsigned"}, {"boolean"})>>,
                  <<"ST", {"dchg"}, <<0>>, Pairs({"boolean"}, {"boolean"})>>}}
=============================================================================
