----------------------------- MODULE CodecProofs -----------------------------
(***************************************************************************)
(* What one end of an association encodes is what the other decodes: for   *)
(* each of the layers of IsoPdus and for the associate request and answer  *)
(* as a whole, whatever the password, the titles, the selectors and the    *)
(* PDU sizes are, within the lengths that the layers' headers can state.   *)
(* The parsers are recursive functions of octets; what they compute is     *)
(* proved by induction over the length of the buffer, which rests on the   *)
(* least element of a set of naturals.                                     *)
(***************************************************************************)
EXTENDS Association, FiniteSetTheorems, SequenceTheorems, WellFoundedInduction, TLAPS

-----------------------------------------------------------------------------
(* A set of naturals that is not empty has a least element.                *)
LEMMA LeastNatural ==
  ASSUME NEW T \in SUBSET Nat, T # {}
  PROVE  \E x \in T : \A y \in T : x <= y
<1> DEFINE R == OpToRel(<, Nat)
<1>1. IsWellFoundedOn(R, Nat)
  BY NatLessThanWellFounded, Zenon
<1>2. R = {ss \in Nat \X Nat : ss[1] < ss[2]}
  BY DEF OpToRel
<1> HIDE DEF R
<1>3. PICK x \in T : \A y \in T : ~(<<y, x>> \in R)
  BY <1>1, WFMin, Zenon
<1>4. ASSUME NEW y \in T PROVE x <= y
  <2>1. ~(<<y, x>> \in R)
    BY <1>3
  <2>2. x \in Nat /\ y \in Nat /\ (y < x => <<y, x>> \in R)
    BY <1>2
  <2> QED BY <2>1, <2>2
<1> QED BY <1>4

(* Induction: a set of naturals with 0 and the successor of each of its    *)
(* elements has them all.                                                  *)
LEMMA NaturalInduction ==
  ASSUME NEW I \in SUBSET Nat, 0 \in I, \A n \in I : n + 1 \in I
  PROVE  I = Nat
<1> DEFINE T == Nat \ I
<1>1. SUFFICES ASSUME T # {} PROVE FALSE
  OBVIOUS
<1>2. T \in SUBSET Nat
  OBVIOUS
<1> HIDE DEF T
<1>3. PICK x \in T : \A y \in T : x <= y
  BY <1>1, <1>2, LeastNatural
<1>4. x \in Nat /\ x \notin I /\ x # 0
  BY <1>3 DEF T
<1>5. x - 1 \in Nat /\ x - 1 \notin T
  BY <1>3, <1>4
<1>6. x - 1 \in I
  BY <1>5 DEF T
<1>7. (x - 1) + 1 \in I
  BY <1>6
<1> QED BY <1>4, <1>7

(***************************************************************************)
(* A recursive function exists: f[x] is given for x in stop and otherwise  *)
(* follows from f[next[x]], where next[x] is smaller than x.               *)
(***************************************************************************)
Recursive(f, S, stop, base, comb, next) ==
  \A x \in S : f[x] = IF x \in stop THEN base[x] ELSE comb[<<x, f[next[x]]>>]

\* f is as it should be on what is smaller than n.
Solutions(S, V, stop, base, comb, next, size, n) ==
  {f \in [S -> V] : \A x \in S : size[x] < n =>
                      f[x] = IF x \in stop THEN base[x] ELSE comb[<<x, f[next[x]]>>]}

\* There is a function that satisfies such a recursion.
LEMMA RecursiveFunction ==
  ASSUME NEW S, NEW V, NEW stop, NEW base \in [S -> V], NEW comb \in [S \X V -> V],
         NEW next \in [S -> S], NEW size \in [S -> Nat],
         \A x \in S : x \notin stop => size[next[x]] < size[x]
  PROVE  \E f \in [S -> V] : Recursive(f, S, stop, base, comb, next)
<1> DEFINE Sol(n) == Solutions(S, V, stop, base, comb, next, size, n)
           E(f, x) == IF x \in stop THEN base[x] ELSE comb[<<x, f[next[x]]>>]
<1>1. \A n \in Nat : Sol(n) # {}
  <2> DEFINE I == {n \in Nat : Sol(n) # {}}
  <2>1. 0 \in I
    <3>1. \A x \in S : ~(size[x] < 0)
      OBVIOUS
    <3>2. base \in Sol(0)
      BY <3>1 DEF Solutions
    <3> QED BY <3>2
  <2>2. ASSUME NEW n \in I PROVE n + 1 \in I
    <3>1. PICK f \in Sol(n) : TRUE
      OBVIOUS
    <3>2. f \in [S -> V] /\ \A x \in S : size[x] < n => f[x] = E(f, x)
      BY <3>1 DEF Solutions
    <3> DEFINE g == [x \in S |-> IF size[x] < n THEN f[x] ELSE E(f, x)]
    <3>3. \A x \in S : E(f, x) \in V
      BY <3>2
    <3>4. g \in [S -> V]
      BY <3>2, <3>3
    <3>5. ASSUME NEW x \in S, size[x] < n + 1 PROVE g[x] = E(g, x)
      <4>1. CASE x \in stop
        BY <3>2, <4>1
      <4>2. CASE x \notin stop
        <5>1. next[x] \in S /\ size[next[x]] < n
          BY <4>2, <3>5
        <5>2. g[next[x]] = f[next[x]]
          BY <5>1
        <5>3. g[x] = E(f, x)
          BY <3>2
        <5> QED BY <5>2, <5>3, <4>2
      <4> QED BY <4>1, <4>2
    <3>6. g \in Sol(n + 1)
      <4> HIDE DEF g
      <4> QED BY <3>4, <3>5 DEF Solutions
    <3> QED BY <3>6
  <2>3. I \in SUBSET Nat
    OBVIOUS
  <2> HIDE DEF I
  <2>4. I = Nat
    BY <2>1, <2>2, <2>3, NaturalInduction
  <2> QED BY <2>4 DEF I
<1>2. \A n \in Nat : \A f, g \in Sol(n), x \in S : size[x] < n => f[x] = g[x]
  <2> DEFINE I == {n \in Nat : \A f, g \in Sol(n), x \in S : size[x] < n => f[x] = g[x]}
  <2>1. 0 \in I
    BY \A x \in S : ~(size[x] < 0)
  <2>2. ASSUME NEW n \in I PROVE n + 1 \in I
    <3> SUFFICES ASSUME NEW f \in Sol(n + 1), NEW g \in Sol(n + 1), NEW x \in S, size[x] < n + 1
                 PROVE  f[x] = g[x]
      OBVIOUS
    <3>1. f \in Sol(n) /\ g \in Sol(n)
      <4>1. \A y \in S : size[y] < n => size[y] < n + 1
        OBVIOUS
      <4> QED BY <4>1 DEF Solutions
    <3>2. f[x] = E(f, x) /\ g[x] = E(g, x)
      BY DEF Solutions
    <3>3. CASE x \in stop
      BY <3>2, <3>3
    <3>4. CASE x \notin stop
      <4>1. next[x] \in S /\ size[next[x]] < n
        BY <3>4
      <4>2. f[next[x]] = g[next[x]]
        BY <4>1, <3>1
      <4> QED BY <4>2, <3>2, <3>4
    <3> QED BY <3>3, <3>4
  <2>3. I \in SUBSET Nat
    OBVIOUS
  <2> HIDE DEF I
  <2>4. I = Nat
    BY <2>1, <2>2, <2>3, NaturalInduction
  <2> QED BY <2>4 DEF I
<1> DEFINE at == [n \in Nat |-> CHOOSE f \in Sol(n) : TRUE]
           f == [x \in S |-> at[size[x] + 1][x]]
<1>3. \A n \in Nat : at[n] \in Sol(n)
  BY <1>1
<1> HIDE DEF at
<1>4. \A n \in Nat : at[n] \in [S -> V]
  BY <1>3 DEF Solutions
<1>5. f \in [S -> V]
  BY <1>4
<1>6. ASSUME NEW x \in S PROVE f[x] = E(f, x)
  <2>1. PICK n \in Nat : n = size[x]
    OBVIOUS
  <2>2. n + 1 \in Nat /\ n < n + 1
    OBVIOUS
  <2>3. f[x] = at[n + 1][x]
    BY <2>1
  <2>4. at[n + 1][x] = E(at[n + 1], x)
    BY <2>1, <2>2, <1>3 DEF Solutions
  <2>5. CASE x \in stop
    BY <2>3, <2>4, <2>5
  <2>6. CASE x \notin stop
    <3>1. PICK y \in S : y = next[x]
      OBVIOUS
    <3>2. PICK m \in Nat : m = size[y]
      OBVIOUS
    <3>3. m < n
      BY <2>1, <2>6, <3>1, <3>2
    <3>4. f[y] = at[m + 1][y]
      BY <3>2
    <3>5. at[n + 1] \in Sol(m + 1)
      <4>1. at[n + 1] \in Sol(n + 1)
        BY <2>2, <1>3
      <4>2. \A z \in S : size[z] < m + 1 => size[z] < n + 1
        BY <3>3
      <4> QED BY <4>1, <4>2 DEF Solutions
    <3>6. m + 1 \in Nat /\ m < m + 1 /\ at[m + 1] \in Sol(m + 1)
      BY <1>3
    <3>7. at[n + 1][y] = at[m + 1][y]
      <4> HIDE DEF Sol
      <4> QED BY <3>2, <3>5, <3>6, <1>2
    <3> QED BY <2>3, <2>4, <2>6, <3>1, <3>4, <3>7
  <2> QED BY <2>5, <2>6
<1> HIDE DEF f
<1> QED BY <1>5, <1>6 DEF Recursive

(* Induction over a size.                                                  *)
LEMMA SizeInduction ==
  ASSUME NEW S, NEW size \in [S -> Nat], NEW I \in SUBSET S,
         \A x \in S : (\A y \in S : size[y] < size[x] => y \in I) => x \in I
  PROVE  I = S
<1> DEFINE J == {n \in Nat : \A x \in S : size[x] < n => x \in I}
<1>1. 0 \in J
  BY \A x \in S : ~(size[x] < 0)
<1>2. ASSUME NEW n \in J PROVE n + 1 \in J
  <2> SUFFICES ASSUME NEW x \in S, size[x] < n + 1 PROVE x \in I
    OBVIOUS
  <2>1. \A y \in S : size[y] < size[x] => size[y] < n
    OBVIOUS
  <2> QED BY <2>1
<1>3. J \in SUBSET Nat
  OBVIOUS
<1> HIDE DEF J
<1>4. J = Nat
  BY <1>1, <1>2, <1>3, NaturalInduction
<1>5. ASSUME NEW x \in S PROVE x \in I
  <2>1. size[x] + 1 \in J /\ size[x] < size[x] + 1
    BY <1>4
  <2> QED BY <2>1 DEF J
<1> QED BY <1>5

(* The largest of some indices.                                            *)
LEMMA Greatest ==
  ASSUME NEW n \in Nat, NEW s \in SUBSET (1 .. n), s # {}
  PROVE  Max(s) \in s /\ \A y \in s : y <= Max(s)
<1> DEFINE T == {n - x : x \in s}
<1>1. T \in SUBSET Nat /\ T # {}
  <2>1. \A x \in s : x \in 1 .. n /\ n - x \in Nat
    OBVIOUS
  <2> QED BY <2>1
<1>2. PICK t \in T : \A u \in T : t <= u
  <2> HIDE DEF T
  <2> QED BY <1>1, LeastNatural
<1>3. PICK x \in s : t = n - x
  OBVIOUS
<1>4. \A y \in s : y <= x
  <2> TAKE y \in s
  <2>1. n - x <= n - y
    BY <1>2, <1>3
  <2> QED BY <2>1
<1>5. \E z \in s : \A y \in s : z >= y
  BY <1>4
<1> QED BY <1>5 DEF Max

(* A sequence of octets.                                                   *)
LEMMA OctetsAre ==
  ASSUME NEW s \in Octets
  PROVE  /\ Len(s) \in Nat /\ DOMAIN s = 1 .. Len(s)
         /\ \A i \in 1 .. Len(s) : s[i] \in Octet /\ s[i] \in Nat
<1>1. s \in Seq(Octet)
  BY DEF Octets
<1>2. \A i \in 1 .. Len(s) : s[i] \in Octet
  BY <1>1, ElementOfSeq
<1>3. \A o \in Octet : o \in Nat
  BY DEF Octet
<1> QED BY <1>1, <1>2, <1>3, LenProperties

(* The recursion of FoldLeft over the indices of the octets.               *)
FoldsOctets(octets, n, f) ==
  /\ f \in [SUBSET (1 .. n) -> Nat]
  /\ Unsigned(octets) = f[1 .. n] /\ f[{}] = 0
  /\ \A s \in SUBSET (1 .. n) : s # {} => f[s] = f[s \ {Max(s)}] * 256 + octets[Max(s)]

\* FoldLeft over octets: the accumulated values exist, one for each prefix.
LEMMA UnsignedFold ==
  ASSUME NEW octets \in Octets, NEW n \in Nat, n = Len(octets)
  PROVE  \E f : FoldsOctets(octets, n, f)
<1> DEFINE D == 1 .. n
           Step(g, s) == IF s = {} THEN 0 ELSE g[s \ {Max(s)}] * 256 + octets[Max(s)]
           f == CHOOSE g : g = [s \in SUBSET D |-> Step(g, s)]
<1>1. n \in Nat /\ DOMAIN octets = D /\ \A i \in D : octets[i] \in Nat
  BY OctetsAre
<1>2. Unsigned(octets) = f[D]
  BY <1>1 DEF Unsigned, FoldLeft, MapThenFoldSet
<1>3. \A s \in SUBSET D : s # {} => Max(s) \in s /\ \A y \in s : y <= Max(s)
  BY <1>1, Greatest
<1>4. \E g \in [SUBSET D -> Nat] : g = [s \in SUBSET D |-> Step(g, s)]
  <2> DEFINE S == SUBSET D
             base == [s \in S |-> 0]
             comb == [p \in S \X Nat |-> IF p[1] = {} THEN 0 ELSE p[2] * 256 + octets[Max(p[1])]]
             next == [s \in S |-> IF s = {} THEN s ELSE s \ {Max(s)}]
             size == [s \in S |-> IF s = {} THEN 0 ELSE Max(s)]
             stop == {{}}
  <2>1. base \in [S -> Nat] /\ next \in [S -> S]
    OBVIOUS
  <2>2. comb \in [S \X Nat -> Nat]
    <3>1. ASSUME NEW p \in S \X Nat, p[1] # {} PROVE p[2] * 256 + octets[Max(p[1])] \in Nat
      <4>1. p[2] \in Nat /\ p[1] \in SUBSET D
        OBVIOUS
      <4>2. Max(p[1]) \in D
        BY <4>1, <3>1, <1>3
      <4> QED BY <4>1, <4>2, <1>1
    <3> QED BY <3>1
  <2>3. size \in [S -> Nat]
    BY <1>1, <1>3
  <2>4. ASSUME NEW s \in S, s \notin stop PROVE size[next[s]] < size[s]
    <3>1. PICK m \in D : m = Max(s) /\ \A y \in s : y <= m
      BY <2>4, <1>3
    <3>2. size[s] = m /\ next[s] = s \ {m}
      BY <2>4, <3>1
    <3>3. CASE next[s] = {}
      BY <3>1, <3>2, <3>3
    <3>4. CASE next[s] # {}
      <4>1. Max(next[s]) \in next[s] /\ next[s] \in S
        BY <3>2, <3>4, <1>3
      <4>2. size[next[s]] = Max(next[s])
        BY <3>4, <4>1
      <4> QED BY <3>1, <3>2, <4>1, <4>2
    <3> QED BY <3>3, <3>4
  <2> HIDE DEF base, comb, next, size, stop, S
  <2>5. PICK g \in [S -> Nat] : Recursive(g, S, stop, base, comb, next)
    BY <2>1, <2>2, <2>3, <2>4, RecursiveFunction
  <2> USE DEF base, comb, next, size, stop, S
  <2>6. ASSUME NEW s \in S PROVE g[s] = Step(g, s)
    <3>1. g[s] = IF s \in stop THEN base[s] ELSE comb[<<s, g[next[s]]>>]
      BY <2>5 DEF Recursive
    <3>2. CASE s = {}
      BY <3>1, <3>2
    <3>3. CASE s # {}
      <4>1. next[s] = s \ {Max(s)} /\ next[s] \in S
        BY <3>3
      <4>2. PICK v \in Nat : v = g[s \ {Max(s)}]
        BY <4>1
      <4>3. g[s] = comb[<<s, v>>]
        BY <3>1, <3>3, <4>1, <4>2
      <4>4. comb[<<s, v>>] = v * 256 + octets[Max(s)]
        BY <3>3
      <4> QED BY <4>2, <4>3, <4>4, <3>3
    <3> QED BY <3>2, <3>3
  <2> HIDE DEF Step
  <2>7. g = [s \in SUBSET D |-> Step(g, s)]
    BY <2>6
  <2> QED BY <2>7
<1>5. f = [s \in SUBSET D |-> Step(f, s)]
  <2> HIDE DEF Step
  <2> QED BY <1>4
<1> HIDE DEF f
<1>6. \A s \in SUBSET D : f[s] \in Nat
  <2> DEFINE S == SUBSET D
             size == [s \in S |-> IF s = {} THEN 0 ELSE Max(s)]
             I == {s \in S : f[s] \in Nat}
  <2>1. size \in [S -> Nat]
    BY <1>1, <1>3
  <2>2. ASSUME NEW s \in S, \A t \in S : size[t] < size[s] => t \in I PROVE s \in I
    <3>1. f[s] = Step(f, s)
      BY <1>5
    <3>2. CASE s = {}
      BY <3>1, <3>2
    <3>3. CASE s # {}
      <4>1. PICK m \in D : m = Max(s) /\ \A y \in s : y <= m
        BY <3>3, <1>3
      <4>2. PICK t \in S : t = s \ {m}
        OBVIOUS
      <4>3. size[t] < size[s]
        <5>1. size[s] = m
          BY <3>3, <4>1
        <5>2. CASE t = {}
          BY <5>1, <5>2
        <5>3. CASE t # {}
          <6>1. Max(t) \in t /\ size[t] = Max(t)
            BY <5>3, <1>3
          <6> QED BY <6>1, <5>1, <4>1, <4>2
        <5> QED BY <5>2, <5>3
      <4>4. f[t] \in Nat
        BY <4>3, <2>2
      <4>5. f[s] = f[t] * 256 + octets[m]
        BY <3>1, <3>3, <4>1, <4>2
      <4> QED BY <4>4, <4>5, <1>1
    <3> QED BY <3>2, <3>3
  <2> HIDE DEF size
  <2>3. I \in SUBSET S
    OBVIOUS
  <2> HIDE DEF I, S
  <2>4. I = S
    BY <2>1, <2>2, <2>3, SizeInduction
  <2> QED BY <2>4 DEF I, S
<1>7. f \in [SUBSET D -> Nat]
  <2> HIDE DEF Step
  <2> QED BY <1>5, <1>6
<1>8. f[{}] = 0 /\ \A s \in SUBSET D : s # {} => f[s] = f[s \ {Max(s)}] * 256 + octets[Max(s)]
  <2>1. \A s \in SUBSET D : f[s] = Step(f, s)
    BY <1>5
  <2> QED BY <2>1
<1>9. FoldsOctets(octets, n, f)
  BY <1>2, <1>7, <1>8 DEF FoldsOctets
<1> QED BY <1>9

(* Unsigned, octet after octet.                                            *)
SumsOctets(octets, n, v) ==
  /\ v \in [0 .. n -> Nat] /\ Unsigned(octets) = v[n] /\ v[0] = 0
  /\ \A k \in 1 .. n : v[k] = v[k - 1] * 256 + octets[k]

\* The value that Unsigned accumulates is a number.
LEMMA UnsignedSum ==
  ASSUME NEW octets \in Octets, NEW n \in Nat, n = Len(octets)
  PROVE  \E v : SumsOctets(octets, n, v)
<1>0. PICK f : FoldsOctets(octets, n, f)
  BY UnsignedFold
<1>1. /\ f \in [SUBSET (1 .. n) -> Nat] /\ Unsigned(octets) = f[1 .. n] /\ f[{}] = 0
      /\ \A s \in SUBSET (1 .. n) : s # {} => f[s] = f[s \ {Max(s)}] * 256 + octets[Max(s)]
  BY <1>0 DEF FoldsOctets
<1>2. ASSUME NEW k \in 1 .. n PROVE f[1 .. k] = f[1 .. k - 1] * 256 + octets[k]
  <2>1. PICK s \in SUBSET (1 .. n) : s = 1 .. k /\ s # {}
    <3>1. 1 .. k \in SUBSET (1 .. n) /\ k \in 1 .. k
      OBVIOUS
    <3> QED BY <3>1
  <2>2. f[s] = f[s \ {Max(s)}] * 256 + octets[Max(s)]
    BY <2>1, <1>1
  <2>3. Max(s) \in s /\ \A y \in s : y <= Max(s)
    BY <2>1, Greatest
  <2>4. Max(s) = k /\ s \ {k} = 1 .. k - 1
    BY <2>1, <2>3
  <2> QED BY <2>1, <2>2, <2>4
<1> DEFINE v == [k \in 0 .. n |-> f[1 .. k]]
<1>3. v \in [0 .. n -> Nat]
  <2>1. \A k \in 0 .. n : 1 .. k \in SUBSET (1 .. n)
    OBVIOUS
  <2>2. \A k \in 0 .. n : f[1 .. k] \in Nat
    BY <2>1, <1>1
  <2> QED BY <2>2
<1>4. v[n] = Unsigned(octets) /\ v[0] = 0
  <2>1. 1 .. 0 = {} /\ 0 \in 0 .. n /\ n \in 0 .. n
    OBVIOUS
  <2> QED BY <2>1, <1>1
<1>5. ASSUME NEW k \in 1 .. n PROVE v[k] = v[k - 1] * 256 + octets[k]
  <2>1. k \in 0 .. n /\ k - 1 \in 0 .. n
    OBVIOUS
  <2> QED BY <2>1, <1>2
<1> HIDE DEF v
<1> QED BY <1>3, <1>4, <1>5 DEF SumsOctets

(* Unsigned is a number, and what it is for up to three octets.            *)
LEMMA UnsignedOf ==
  /\ \A octets \in Octets : Unsigned(octets) \in Nat
  /\ \A a \in Octet : Unsigned(<<a>>) = a
  /\ \A a \in Octet, b \in Octet : Unsigned(<<a, b>>) = a * 256 + b
  /\ \A a \in Octet, b \in Octet, c \in Octet :
       Unsigned(<<a, b, c>>) = (a * 256 + b) * 256 + c
<1>1. ASSUME NEW octets \in Octets PROVE Unsigned(octets) \in Nat
  <2>1. PICK n \in Nat : n = Len(octets)
    BY OctetsAre
  <2>2. PICK v : SumsOctets(octets, n, v)
    BY <2>1, UnsignedSum
  <2> QED BY <2>2 DEF SumsOctets
<1>2. ASSUME NEW a \in Octet PROVE Unsigned(<<a>>) = a
  <2>1. <<a>> \in Octets /\ Len(<<a>>) = 1 /\ <<a>>[1] = a
    BY DEF Octets
  <2>2. PICK o \in Octets : o = <<a>> /\ 1 = Len(o) /\ o[1] = a
    BY <2>1
  <2>s. PICK v : SumsOctets(o, 1, v)
    BY <2>2, UnsignedSum
  <2>3. /\ v \in [0 .. 1 -> Nat] /\ Unsigned(o) = v[1] /\ v[0] = 0
        /\ \A k \in 1 .. 1 : v[k] = v[k - 1] * 256 + o[k]
    BY <2>s DEF SumsOctets
  <2>4. v[1] = v[1 - 1] * 256 + o[1]
    BY <2>3
  <2> QED BY <2>2, <2>3, <2>4 DEF Octet
<1>3. ASSUME NEW a \in Octet, NEW b \in Octet PROVE Unsigned(<<a, b>>) = a * 256 + b
  <2>1. <<a, b>> \in Octets /\ Len(<<a, b>>) = 2 /\ <<a, b>>[1] = a /\ <<a, b>>[2] = b
    BY DEF Octets
  <2>2. PICK o \in Octets : o = <<a, b>> /\ 2 = Len(o) /\ o[1] = a /\ o[2] = b
    BY <2>1
  <2>s. PICK v : SumsOctets(o, 2, v)
    BY <2>2, UnsignedSum
  <2>3. /\ v \in [0 .. 2 -> Nat] /\ Unsigned(o) = v[2] /\ v[0] = 0
        /\ \A k \in 1 .. 2 : v[k] = v[k - 1] * 256 + o[k]
    BY <2>s DEF SumsOctets
  <2>4. v[1] = v[1 - 1] * 256 + o[1] /\ v[2] = v[2 - 1] * 256 + o[2]
    BY <2>3
  <2> QED BY <2>2, <2>3, <2>4 DEF Octet
<1>4. ASSUME NEW a \in Octet, NEW b \in Octet, NEW c \in Octet
      PROVE  Unsigned(<<a, b, c>>) = (a * 256 + b) * 256 + c
  <2>1. <<a, b, c>> \in Octets /\ Len(<<a, b, c>>) = 3
        /\ <<a, b, c>>[1] = a /\ <<a, b, c>>[2] = b /\ <<a, b, c>>[3] = c
    BY DEF Octets
  <2>2. PICK o \in Octets : o = <<a, b, c>> /\ 3 = Len(o) /\ o[1] = a /\ o[2] = b /\ o[3] = c
    BY <2>1
  <2>s. PICK v : SumsOctets(o, 3, v)
    BY <2>2, UnsignedSum
  <2>3. /\ v \in [0 .. 3 -> Nat] /\ Unsigned(o) = v[3] /\ v[0] = 0
        /\ \A k \in 1 .. 3 : v[k] = v[k - 1] * 256 + o[k]
    BY <2>s DEF SumsOctets
  <2>4. v[1] = v[1 - 1] * 256 + o[1] /\ v[2] = v[2 - 1] * 256 + o[2] /\ v[3] = v[3 - 1] * 256 + o[3]
    BY <2>3
  <2> QED BY <2>2, <2>3, <2>4 DEF Octet
<1> QED BY <1>1, <1>2, <1>3, <1>4

-----------------------------------------------------------------------------
(* What BerDecoder_decodeLength returns.                                   *)
LEMMA LengthIs ==
  ASSUME NEW buf \in Octets
  PROVE  /\ LengthOf[buf] = DecodeLength(buf) /\ DecodeLength(buf) \in Length
         /\ DecodeLength(buf).ok => Len(DecodeLength(buf).rest) < Len(buf)
<1>1. PICK n \in Nat : n = Len(buf)
  BY OctetsAre
<1>2. DecodeLength(buf) \in Length
      /\ (DecodeLength(buf).ok => Len(DecodeLength(buf).rest) < Len(buf))
  <2>1. CASE buf = <<>>
    <3>1. NoLength \in Length /\ ~NoLength.ok
      BY EmptySeq DEF NoLength, Length, Octets
    <3> QED BY <2>1, <3>1 DEF DecodeLength
  <2>2. CASE buf # <<>>
    <3>1. n >= 1 /\ buf[1] \in Octet /\ buf \in Seq(Octet)
      BY <2>2, <1>1, OctetsAre, EmptySeq DEF Octets
    <3>2. Tail(buf) \in Octets /\ Len(Tail(buf)) = n - 1
      BY <2>2, <3>1, <1>1, HeadTailProperties DEF Octets
    <3>0. PICK o \in Nat : o = buf[1]
      BY <3>1, <1>1, OctetsAre
    <3>3. PICK k \in Nat : k = buf[1] % 128
      <4>1. o % 128 \in Nat
        OBVIOUS
      <4> QED BY <4>1, <3>0
    <3>4. CASE Bit7(buf[1]) = 0
      <4>1. DecodeLength(buf) = [ok |-> TRUE, length |-> buf[1], rest |-> Tail(buf)]
        BY <2>2, <3>4 DEF DecodeLength
      <4>2. buf[1] \in Int
        BY <3>0
      <4> QED BY <4>1, <4>2, <3>2, <1>1 DEF Length
    <3>5. CASE Bit7(buf[1]) # 0 /\ k = 0
      <4>1. DecodeLength(buf) = [ok |-> TRUE, length |-> -1, rest |-> Tail(buf)]
        BY <2>2, <3>3, <3>5 DEF DecodeLength
      <4> QED BY <4>1, <3>2, <1>1 DEF Length
    <3>6. CASE Bit7(buf[1]) # 0 /\ k # 0 /\ n <= k
      <4>1. DecodeLength(buf) = NoLength
        BY <2>2, <3>3, <3>6, <1>1 DEF DecodeLength
      <4>2. NoLength \in Length /\ ~NoLength.ok
        BY EmptySeq DEF NoLength, Length, Octets
      <4> QED BY <4>1, <4>2
    <3>7. CASE Bit7(buf[1]) # 0 /\ k # 0 /\ ~(n <= k)
      <4>1. DecodeLength(buf) = [ok |-> TRUE, length |-> Unsigned(SubSeq(buf, 2, k + 1)),
                                 rest |-> SubSeq(buf, k + 2, n)]
        BY <2>2, <3>3, <3>7, <1>1 DEF DecodeLength
      <4>2. SubSeq(buf, 2, k + 1) \in Octets
        <5>1. \A i \in 2 .. k + 1 : buf[i] \in Octet
          BY <3>7, <1>1, OctetsAre
        <5> QED BY <5>1, SubSeqProperties DEF Octets
      <4>3. SubSeq(buf, k + 2, n) \in Octets /\ Len(SubSeq(buf, k + 2, n)) < n
        <5>1. \A i \in k + 2 .. n : buf[i] \in Octet
          BY <1>1, OctetsAre
        <5> QED BY <5>1, <3>7, SubSeqProperties DEF Octets
      <4>4. Unsigned(SubSeq(buf, 2, k + 1)) \in Int
        BY <4>2, UnsignedOf
      <4> QED BY <4>1, <4>3, <4>4, <1>1 DEF Length
    <3> QED BY <3>4, <3>5, <3>6, <3>7
  <2> QED BY <2>1, <2>2
<1> QED BY <1>2 DEF LengthOf

(***************************************************************************)
(* The loop of the parsers is a recursion that ends: each element is       *)
(* followed by less than there was.                                        *)
(***************************************************************************)
Cut(buf) ==
  LET l == DecodeLength(Tail(buf)) IN ~l.ok \/ l.length < 0 \/ l.length > Len(l.rest)

FirstTlv(buf) ==
  LET l == DecodeLength(Tail(buf)) IN [tag |-> buf[1], val |-> SubSeq(l.rest, 1, l.length)]

BehindTlv(buf) ==
  LET l == DecodeLength(Tail(buf)) IN SubSeq(l.rest, l.length + 1, Len(l.rest))

\* The first element of a buffer and what is behind it.
LEMMA TlvParts ==
  ASSUME NEW buf \in Octets, buf # <<>>
  PROVE  /\ Tail(buf) \in Octets
         /\ ~Cut(buf) => /\ FirstTlv(buf) \in Tlv /\ BehindTlv(buf) \in Octets
                         /\ Len(BehindTlv(buf)) < Len(buf)
<1>1. buf \in Seq(Octet) /\ Len(buf) \in Nat /\ Len(buf) >= 1 /\ buf[1] \in Octet
  BY OctetsAre, EmptySeq DEF Octets
<1>2. Tail(buf) \in Octets /\ Len(Tail(buf)) = Len(buf) - 1
  BY <1>1, HeadTailProperties DEF Octets
<1>3. PICK l : l = DecodeLength(Tail(buf))
  OBVIOUS
<1>4. l \in Length /\ (l.ok => Len(l.rest) < Len(Tail(buf)))
  BY <1>2, <1>3, LengthIs
<1>5. l.rest \in Octets /\ l.length \in Int
  BY <1>4 DEF Length
<1>6. PICK n \in Nat : n = Len(l.rest)
  BY <1>5, OctetsAre
<1>7. ASSUME ~Cut(buf) PROVE FirstTlv(buf) \in Tlv /\ BehindTlv(buf) \in Octets
                             /\ Len(BehindTlv(buf)) < Len(buf)
  <2>1. l.ok /\ l.length \in 0 .. n
    BY <1>3, <1>5, <1>6, <1>7 DEF Cut
  <2>2. \A i \in 1 .. n : l.rest[i] \in Octet
    BY <1>5, <1>6, OctetsAre
  <2>3. SubSeq(l.rest, 1, l.length) \in Octets
    <3>1. \A i \in 1 .. l.length : l.rest[i] \in Octet
      BY <2>1, <2>2
    <3> QED BY <3>1, <2>1, SubSeqProperties DEF Octets
  <2>4. SubSeq(l.rest, l.length + 1, n) \in Octets /\ Len(SubSeq(l.rest, l.length + 1, n)) <= n
    <3>1. \A i \in l.length + 1 .. n : l.rest[i] \in Octet
      BY <2>1, <2>2
    <3> QED BY <3>1, <2>1, SubSeqProperties DEF Octets
  <2>5. FirstTlv(buf) \in Tlv
    <3>1. buf[1] \in -1 .. 255
      BY <1>1 DEF Octet
    <3> QED BY <3>1, <2>3, <1>3 DEF FirstTlv, Tlv
  <2>6. BehindTlv(buf) = SubSeq(l.rest, l.length + 1, n)
    BY <1>3, <1>6 DEF BehindTlv
  <2> QED BY <2>1, <2>4, <2>5, <2>6, <1>1, <1>2, <1>4, <1>6
<1> QED BY <1>2, <1>7

\* The elements of a buffer: the first one, then those behind it.
LEMMA TlvsOf ==
  ASSUME NEW buf \in Octets
  PROVE  Tlvs[buf] = IF buf = <<>> THEN <<>>
                     ELSE IF Cut(buf) THEN <<BadTlv>>
                     ELSE <<FirstTlv(buf)>> \o Tlvs[BehindTlv(buf)]
<1> DEFINE Step(f, b) == IF b = <<>> THEN <<>> ELSE IF Cut(b) THEN <<BadTlv>>
                         ELSE <<FirstTlv(b)>> \o f[BehindTlv(b)]
           stop == {b \in Octets : b = <<>> \/ Cut(b)}
           base == [b \in Octets |-> IF b = <<>> THEN <<>> ELSE <<BadTlv>>]
           comb == [p \in Octets \X TlvSeq |->
                      IF p[1] \in stop THEN <<>> ELSE <<FirstTlv(p[1])>> \o p[2]]
           next == [b \in Octets |-> IF b \in stop THEN b ELSE BehindTlv(b)]
           size == [b \in Octets |-> Len(b)]
<1>1. BadTlv \in Tlv /\ <<>> \in TlvSeq /\ <<BadTlv>> \in TlvSeq
  <2>1. BadTlv \in Tlv
    BY EmptySeq DEF BadTlv, Tlv, Octets
  <2> QED BY <2>1 DEF TlvSeq
<1>2. base \in [Octets -> TlvSeq]
  BY <1>1
<1>3. comb \in [Octets \X TlvSeq -> TlvSeq]
  <2>1. ASSUME NEW p \in Octets \X TlvSeq, p[1] \notin stop PROVE <<FirstTlv(p[1])>> \o p[2] \in TlvSeq
    <3>1. p[1] \in Octets /\ p[2] \in TlvSeq /\ p[1] # <<>> /\ ~Cut(p[1])
      BY <2>1
    <3>2. FirstTlv(p[1]) \in Tlv
      BY <3>1, TlvParts
    <3>3. <<FirstTlv(p[1])>> \in Seq(Tlv) /\ p[2] \in Seq(Tlv)
      BY <3>1, <3>2 DEF TlvSeq
    <3> QED BY <3>3, ConcatProperties DEF TlvSeq
  <2> QED BY <2>1, <1>1
<1>4. next \in [Octets -> Octets]
  BY TlvParts
<1>5. size \in [Octets -> Nat]
  BY OctetsAre
<1>6. \A b \in Octets : b \notin stop => size[next[b]] < size[b]
  BY TlvParts
<1> HIDE DEF stop, base, comb, next, size
<1>7. PICK g \in [Octets -> TlvSeq] : Recursive(g, Octets, stop, base, comb, next)
  BY <1>2, <1>3, <1>4, <1>5, <1>6, RecursiveFunction
<1>8. ASSUME NEW b \in Octets PROVE g[b] = Step(g, b)
  <2>1. g[b] = IF b \in stop THEN base[b] ELSE comb[<<b, g[next[b]]>>]
    BY <1>7 DEF Recursive
  <2>2. CASE b \in stop
    BY <2>1, <2>2 DEF stop, base
  <2>3. CASE b \notin stop
    <3>1. b # <<>> /\ ~Cut(b) /\ next[b] = BehindTlv(b) /\ next[b] \in Octets
      BY <2>3, <1>4 DEF stop, next
    <3>2. PICK t \in TlvSeq : t = g[next[b]]
      BY <3>1
    <3>3. comb[<<b, t>>] = <<FirstTlv(b)>> \o t
      BY <2>3 DEF comb
    <3> QED BY <2>1, <2>3, <3>1, <3>2, <3>3
  <2> QED BY <2>2, <2>3
<1> HIDE DEF Step
<1>9. g = [b \in Octets |-> Step(g, b)]
  BY <1>8
<1>10. Tlvs = CHOOSE f : f = [b \in Octets |-> Step(f, b)]
  <2>1. ASSUME NEW f, NEW b \in Octets, b # <<>>
        PROVE  [l \in Length |->
                  IF ~l.ok \/ l.length < 0 \/ l.length > Len(l.rest) THEN <<BadTlv>>
                  ELSE <<[tag |-> b[1], val |-> SubSeq(l.rest, 1, l.length)]>>
                         \o f[SubSeq(l.rest, l.length + 1, Len(l.rest))]][LengthOf[Tail(b)]]
               = Step(f, b)
    <3>1. PICK l \in Length : l = DecodeLength(Tail(b)) /\ l = LengthOf[Tail(b)]
      BY <2>1, TlvParts, LengthIs
    <3> QED BY <3>1, <2>1 DEF Step, Cut, FirstTlv, BehindTlv
  <2>2. ASSUME NEW f
        PROVE  [b \in Octets |-> IF b = <<>> THEN <<>>
                 ELSE [l \in Length |->
                  IF ~l.ok \/ l.length < 0 \/ l.length > Len(l.rest) THEN <<BadTlv>>
                  ELSE <<[tag |-> b[1], val |-> SubSeq(l.rest, 1, l.length)]>>
                         \o f[SubSeq(l.rest, l.length + 1, Len(l.rest))]][LengthOf[Tail(b)]]]
               = [b \in Octets |-> Step(f, b)]
    BY <2>1 DEF Step
  <2> QED BY <2>2 DEF Tlvs
<1>11. Tlvs = [b \in Octets |-> Step(Tlvs, b)]
  BY <1>9, <1>10
<1>12. Tlvs[buf] = Step(Tlvs, buf)
  BY <1>11
<1> QED BY <1>12 DEF Step

-----------------------------------------------------------------------------
(* Octets in front of others, and taken off again.                         *)
LEMMA JoinOctets ==
  ASSUME NEW a \in Octets, NEW b \in Octets
  PROVE  /\ a \o b \in Octets /\ Len(a \o b) = Len(a) + Len(b)
         /\ Len(a) \in Nat /\ Len(b) \in Nat
         /\ SubSeq(a \o b, 1, Len(a)) = a
         /\ SubSeq(a \o b, Len(a) + 1, Len(a \o b)) = b
<1>1. a \in Seq(Octet) /\ b \in Seq(Octet)
  BY DEF Octets
<1>2. PICK m \in Nat, n \in Nat : m = Len(a) /\ n = Len(b)
  BY OctetsAre
<1>0. /\ a \o b \in Seq(Octet) /\ Len(a \o b) = m + n
      /\ \A i \in 1 .. m + n : (a \o b)[i] = IF i <= m THEN a[i] ELSE b[i - m]
  BY <1>1, <1>2, ConcatProperties
<1>3. PICK c \in Seq(Octet) : c = a \o b /\ Len(c) = m + n
                              /\ \A i \in 1 .. m + n : c[i] = IF i <= m THEN a[i] ELSE b[i - m]
  BY <1>0
<1>4. \A i \in 1 .. m + n : c[i] \in Octet
  BY <1>3, ElementOfSeq
<1>5. SubSeq(c, 1, m) = a
  <2>1. \A i \in 1 .. m : c[i] \in Octet
    BY <1>4
  <2>2. SubSeq(c, 1, m) \in Seq(Octet) /\ Len(SubSeq(c, 1, m)) = m
        /\ \A i \in 1 .. m - 1 + 1 : SubSeq(c, 1, m)[i] = c[1 + i - 1]
    BY <2>1, SubSeqProperties
  <2>3. \A i \in 1 .. m : SubSeq(c, 1, m)[i] = a[i]
    BY <2>2, <1>3
  <2> QED BY <2>2, <2>3, <1>1, <1>2, SeqEqual
<1>6. SubSeq(c, m + 1, m + n) = b
  <2>1. \A i \in m + 1 .. m + n : c[i] \in Octet
    BY <1>4
  <2>2. SubSeq(c, m + 1, m + n) \in Seq(Octet) /\ Len(SubSeq(c, m + 1, m + n)) = n
        /\ \A i \in 1 .. (m + n) - (m + 1) + 1 : SubSeq(c, m + 1, m + n)[i] = c[m + 1 + i - 1]
    BY <2>1, SubSeqProperties
  <2>3. \A i \in 1 .. n : SubSeq(c, m + 1, m + n)[i] = b[i]
    <3> TAKE i \in 1 .. n
    <3>1. i \in 1 .. (m + n) - (m + 1) + 1 /\ m + i \in 1 .. m + n /\ ~(m + i <= m) /\ (m + i) - m = i
      OBVIOUS
    <3>2. SubSeq(c, m + 1, m + n)[i] = c[m + i]
      BY <3>1, <2>2
    <3> QED BY <3>1, <3>2, <1>3
  <2> QED BY <2>2, <2>3, <1>1, <1>2, SeqEqual
<1> QED BY <1>2, <1>3, <1>5, <1>6 DEF Octets

\* Concatenation of octets is associative.
LEMMA JoinAssociative ==
  ASSUME NEW a \in Octets, NEW b \in Octets, NEW c \in Octets
  PROVE  (a \o b) \o c = a \o (b \o c)
BY ConcatAssociative DEF Octets

\* Nothing is neutral in concatenations.
LEMMA JoinEmpty ==
  ASSUME NEW a \in Octets
  PROVE  a \o <<>> = a /\ <<>> \o a = a /\ <<>> \in Octets /\ Len(<<>>) = 0
BY ConcatEmptySeq, EmptySeq DEF Octets

\* An octet in front of octets.
LEMMA InFront ==
  ASSUME NEW o \in Octet, NEW b \in Octets
  PROVE  /\ <<o>> \in Octets /\ Len(<<o>>) = 1 /\ <<o>> \o b \in Octets
         /\ <<o>> \o b # <<>> /\ (<<o>> \o b)[1] = o /\ Tail(<<o>> \o b) = b
         /\ Len(<<o>> \o b) = 1 + Len(b)
<1>1. <<o>> \in Octets /\ Len(<<o>>) = 1 /\ <<o>>[1] = o
  BY DEF Octets
<1>2. PICK a \in Octets : a = <<o>> /\ Len(a) = 1 /\ a[1] = o
  BY <1>1
<1>3. PICK n \in Nat : n = Len(b)
  BY OctetsAre
<1>4. PICK c \in Octets : c = a \o b
  BY JoinOctets
<1>5. Len(c) = 1 + n /\ SubSeq(c, 1 + 1, Len(c)) = b
  BY <1>2, <1>3, <1>4, JoinOctets
<1>6. c[1] = o
  BY <1>2, <1>4, ConcatProperties, OctetsAre DEF Octets
<1>7. c # <<>>
  BY <1>5, EmptySeq
<1>8. Tail(c) = SubSeq(c, 2, Len(c))
  BY <1>7, TailIsSubSeq DEF Octets
<1> QED BY <1>1, <1>2, <1>3, <1>4, <1>5, <1>6, <1>7, <1>8

InTwoOctets(n) == n < 256 * 256

(* A length is read as it was written.                                     *)
LEMMA LengthRead ==
  ASSUME NEW n \in Nat, InTwoOctets(n), NEW r \in Octets
  PROVE  /\ EncodeLength(n) \in Octets /\ Len(EncodeLength(n)) = DetermineLengthSize(n)
         /\ DecodeLength(EncodeLength(n) \o r) = [ok |-> TRUE, length |-> n, rest |-> r]
<1>1. CASE n < 128
  <2>1. n \in Octet /\ EncodeLength(n) = <<n>> /\ DetermineLengthSize(n) = 1
    BY <1>1 DEF Octet, EncodeLength, DetermineLengthSize
  <2>2. PICK b \in Octets : b = <<n>> \o r /\ b # <<>> /\ b[1] = n /\ Tail(b) = r
    BY <2>1, InFront
  <2>3. Bit7(n) = 0
    BY <1>1 DEF Bit7
  <2>4. DecodeLength(b) = [ok |-> TRUE, length |-> n, rest |-> r]
    BY <2>2, <2>3 DEF DecodeLength
  <2> QED BY <2>1, <2>2, <2>4, InFront
<1>2. CASE n >= 128 /\ n < 256
  <2>1. n \in Octet /\ 129 \in Octet /\ EncodeLength(n) = <<129, n>> /\ DetermineLengthSize(n) = 2
    BY <1>2 DEF Octet, EncodeLength, DetermineLengthSize
  <2>2. <<129, n>> \in Octets /\ Len(<<129, n>>) = 2 /\ <<129, n>>[1] = 129 /\ <<129, n>>[2] = n
    BY <2>1 DEF Octets
  <2>3. PICK a \in Octets : a = <<129, n>> /\ Len(a) = 2 /\ a[1] = 129 /\ a[2] = n
    BY <2>2
  <2>4. PICK b \in Octets : b = a \o r
    BY JoinOctets
  <2>5. Len(b) = 2 + Len(r) /\ SubSeq(b, 3, Len(b)) = r /\ Len(r) \in Nat
    BY <2>3, <2>4, JoinOctets
  <2>6. b[1] = 129 /\ b[2] = n
    BY <2>3, <2>4, <2>5, ConcatProperties DEF Octets
  <2>7. SubSeq(b, 2, 2) = <<n>>
    <3>1. \A i \in 2 .. 2 : b[i] \in Octet
      BY <2>1, <2>6
    <3>2. SubSeq(b, 2, 2) \in Seq(Octet) /\ Len(SubSeq(b, 2, 2)) = 1 /\ SubSeq(b, 2, 2)[1] = n
      BY <3>1, <2>6, SubSeqProperties
    <3>3. <<n>> \in Seq(Octet) /\ Len(<<n>>) = 1 /\ <<n>>[1] = n
      BY <2>1
    <3>4. PICK x \in Seq(Octet) : x = SubSeq(b, 2, 2) /\ Len(x) = 1 /\ x[1] = n
      BY <3>2
    <3>5. PICK y \in Seq(Octet) : y = <<n>> /\ Len(y) = 1 /\ y[1] = n
      BY <3>3
    <3>6. \A i \in 1 .. Len(x) : x[i] = y[i]
      BY <3>4, <3>5
    <3> QED BY <3>4, <3>5, <3>6, SeqEqual
  <2>8. b # <<>>
    BY <2>5, EmptySeq
  <2>9. Bit7(129) # 0 /\ 129 % 128 = 1
    BY DEF Bit7
  <2>10. DecodeLength(b) = [ok |-> TRUE, length |-> Unsigned(SubSeq(b, 2, 2)), rest |-> SubSeq(b, 3, Len(b))]
    BY <2>5, <2>6, <2>8, <2>9 DEF DecodeLength
  <2>11. Unsigned(<<n>>) = n
    BY <2>1, UnsignedOf
  <2> QED BY <2>1, <2>3, <2>4, <2>5, <2>7, <2>10, <2>11
<1>3. CASE n >= 256
  <2> DEFINE h == n \div 256
             l == n % 256
  <2>1. h \in Octet /\ l \in Octet /\ h * 256 + l = n
    BY <1>3 DEF Octet, InTwoOctets
  <2>0. EncodeLength(n) = <<130, h, l>> /\ DetermineLengthSize(n) = 3 /\ 130 \in Octet
    BY <1>3 DEF Octet, EncodeLength, DetermineLengthSize
  <2> HIDE DEF h, l
  <2>2. <<130, h, l>> \in Octets /\ Len(<<130, h, l>>) = 3 /\ <<130, h, l>>[1] = 130
        /\ <<130, h, l>>[2] = h /\ <<130, h, l>>[3] = l
    BY <2>0, <2>1 DEF Octets
  <2>3. PICK a \in Octets : a = <<130, h, l>> /\ Len(a) = 3 /\ a[1] = 130 /\ a[2] = h /\ a[3] = l
    BY <2>2
  <2>4. PICK b \in Octets : b = a \o r
    BY JoinOctets
  <2>5. Len(b) = 3 + Len(r) /\ SubSeq(b, 4, Len(b)) = r /\ Len(r) \in Nat
    BY <2>3, <2>4, JoinOctets
  <2>6. b[1] = 130 /\ b[2] = h /\ b[3] = l
    BY <2>3, <2>4, <2>5, ConcatProperties DEF Octets
  <2>7. SubSeq(b, 2, 3) = <<h, l>>
    <3>1. \A i \in 2 .. 3 : b[i] \in Octet
      BY <2>1, <2>6
    <3>2. SubSeq(b, 2, 3) \in Seq(Octet) /\ Len(SubSeq(b, 2, 3)) = 2
          /\ SubSeq(b, 2, 3)[1] = h /\ SubSeq(b, 2, 3)[2] = l
      BY <3>1, <2>6, SubSeqProperties
    <3>3. <<h, l>> \in Seq(Octet) /\ Len(<<h, l>>) = 2 /\ <<h, l>>[1] = h /\ <<h, l>>[2] = l
      BY <2>1
    <3>4. PICK x \in Seq(Octet) : x = SubSeq(b, 2, 3) /\ Len(x) = 2 /\ x[1] = h /\ x[2] = l
      BY <3>2
    <3>5. PICK y \in Seq(Octet) : y = <<h, l>> /\ Len(y) = 2 /\ y[1] = h /\ y[2] = l
      BY <3>3
    <3>6. \A i \in 1 .. Len(x) : x[i] = y[i]
      BY <3>4, <3>5
    <3> QED BY <3>4, <3>5, <3>6, SeqEqual
  <2>8. b # <<>>
    BY <2>5, EmptySeq
  <2>9. Bit7(130) # 0 /\ 130 % 128 = 2
    BY DEF Bit7
  <2>10. DecodeLength(b) = [ok |-> TRUE, length |-> Unsigned(SubSeq(b, 2, 3)), rest |-> SubSeq(b, 4, Len(b))]
    BY <2>5, <2>6, <2>8, <2>9 DEF DecodeLength
  <2>11. Unsigned(<<h, l>>) = n
    BY <2>1, UnsignedOf
  <2> QED BY <2>0, <2>3, <2>4, <2>5, <2>7, <2>10, <2>11
<1> QED BY <1>1, <1>2, <1>3

-----------------------------------------------------------------------------
(***************************************************************************)
(* The elements of octets are elements.                                    *)
(***************************************************************************)
LEMMA TlvsAre ==
  ASSUME NEW buf \in Octets
  PROVE  Tlvs[buf] \in TlvSeq
<1> DEFINE size == [b \in Octets |-> Len(b)]
           I == {b \in Octets : Tlvs[b] \in TlvSeq}
<1>1. BadTlv \in Tlv
  BY EmptySeq DEF BadTlv, Tlv, Octets
<1>2. size \in [Octets -> Nat]
  BY OctetsAre
<1>3. ASSUME NEW b \in Octets, \A c \in Octets : size[c] < size[b] => c \in I PROVE b \in I
  <2>1. CASE b = <<>>
    <3>1. Tlvs[b] = <<>>
      BY <2>1, TlvsOf
    <3>2. <<>> \in TlvSeq
      BY EmptySeq DEF TlvSeq
    <3> QED BY <3>1, <3>2
  <2>2. CASE b # <<>> /\ Cut(b)
    <3>1. Tlvs[b] = <<BadTlv>>
      BY <2>2, TlvsOf
    <3>2. <<BadTlv>> \in TlvSeq
      BY <1>1 DEF TlvSeq
    <3> QED BY <3>1, <3>2
  <2>3. CASE b # <<>> /\ ~Cut(b)
    <3>1. FirstTlv(b) \in Tlv /\ BehindTlv(b) \in Octets /\ Len(BehindTlv(b)) < Len(b)
      BY <2>3, TlvParts
    <3>2. PICK c \in Octets : c = BehindTlv(b)
      BY <3>1
    <3>3. size[c] < size[b]
      BY <3>1, <3>2
    <3>4. PICK t \in Seq(Tlv) : t = Tlvs[c]
      BY <1>3, <3>3 DEF TlvSeq
    <3>5. PICK f \in Tlv : f = FirstTlv(b)
      BY <3>1
    <3>6. Tlvs[b] = <<f>> \o t
      BY <2>3, <3>2, <3>4, <3>5, TlvsOf
    <3>7. <<f>> \in Seq(Tlv)
      OBVIOUS
    <3>8. <<f>> \o t \in Seq(Tlv)
      BY <3>7, ConcatProperties
    <3> QED BY <3>6, <3>8 DEF TlvSeq
  <2> QED BY <2>1, <2>2, <2>3
<1>4. I \in SUBSET Octets
  OBVIOUS
<1> HIDE DEF size, I
<1>5. I = Octets
  BY <1>2, <1>3, <1>4, SizeInduction
<1> QED BY <1>5 DEF I

(***************************************************************************)
(* An element, and octets that are read as a sequence of elements          *)
(* whatever follows them.                                                  *)
(***************************************************************************)
Element(tag, val) == [tag |-> tag, val |-> val]
Wrap(tag, v) == EncodeTL(tag, Len(v)) \o v

Splits(a, t) ==
  /\ a \in Octets /\ t \in TlvSeq
  /\ \A rest \in Octets : Tlvs[a \o rest] = t \o Tlvs[rest]

Short16(v) == v \in Octets /\ InTwoOctets(Len(v))

\* A tag and a length take two to four octets.
LEMMA HeaderIs ==
  ASSUME NEW tag \in Octet, NEW n \in Nat, InTwoOctets(n)
  PROVE  EncodeTL(tag, n) \in Octets /\ Len(EncodeTL(tag, n)) = 1 + DetermineLengthSize(n)
         /\ DetermineLengthSize(n) \in 1 .. 3
<1>1. EncodeLength(n) \in Octets /\ Len(EncodeLength(n)) = DetermineLengthSize(n)
  BY LengthRead, EmptySeq DEF Octets
<1>2. DetermineLengthSize(n) \in 1 .. 3
  BY DEF DetermineLengthSize
<1> QED BY <1>1, <1>2, InFront DEF EncodeTL

\* BerDecoder_decodeLength undoes BerEncoder_encodeTL, whatever follows.
LEMMA WrapIs ==
  ASSUME NEW tag \in Octet, NEW v, Short16(v)
  PROVE  /\ Wrap(tag, v) \in Octets /\ Wrap(tag, v) # <<>> /\ Wrap(tag, v)[1] = tag
         /\ Len(Wrap(tag, v)) = 1 + DetermineLengthSize(Len(v)) + Len(v)
         /\ DetermineLengthSize(Len(v)) \in 1 .. 3 /\ Len(v) \in Nat
         /\ \A rest \in Octets :
              /\ (Wrap(tag, v) \o rest)[1] = tag /\ Wrap(tag, v) \o rest # <<>>
              /\ DecodeLength(Tail(Wrap(tag, v) \o rest))
                   = [ok |-> TRUE, length |-> Len(v), rest |-> v \o rest]
<1>1. PICK n \in Nat : n = Len(v) /\ InTwoOctets(n) /\ v \in Octets
  BY OctetsAre DEF Short16
<1>2. PICK e \in Octets : e = EncodeLength(n) /\ Len(e) = DetermineLengthSize(n)
  BY <1>1, LengthRead
<1>3. Wrap(tag, v) = (<<tag>> \o e) \o v
  BY <1>1, <1>2 DEF Wrap, EncodeTL
<1>4. e \o v \in Octets /\ Len(e \o v) = DetermineLengthSize(n) + n
  BY <1>1, <1>2, JoinOctets
<1>5. Wrap(tag, v) = <<tag>> \o (e \o v)
  <2>1. PICK t \in Octets : t = <<tag>>
    BY InFront
  <2>2. (t \o e) \o v = t \o (e \o v)
    BY <1>1, <1>2, JoinAssociative
  <2> QED BY <1>3, <2>1, <2>2
<1>6. DetermineLengthSize(n) \in 1 .. 3
  BY DEF DetermineLengthSize
<1>7. ASSUME NEW rest \in Octets
      PROVE  /\ (Wrap(tag, v) \o rest)[1] = tag /\ Wrap(tag, v) \o rest # <<>>
             /\ DecodeLength(Tail(Wrap(tag, v) \o rest))
                   = [ok |-> TRUE, length |-> n, rest |-> v \o rest]
  <2>1. PICK r \in Octets : r = v \o rest
    BY <1>1, JoinOctets
  <2>2. PICK b \in Octets : b = e \o r
    BY <1>2, JoinOctets
  <2>3. (e \o v) \o rest = b
    <3>1. (e \o v) \o rest = e \o (v \o rest)
      BY <1>1, JoinAssociative
    <3> QED BY <3>1, <2>1, <2>2
  <2>4. Wrap(tag, v) \o rest = <<tag>> \o b
    <3>1. PICK t \in Octets : t = <<tag>>
      BY InFront
    <3>2. PICK ev \in Octets : ev = e \o v
      BY <1>4
    <3>3. (t \o ev) \o rest = t \o (ev \o rest)
      BY JoinAssociative
    <3> QED BY <1>5, <2>3, <3>1, <3>2, <3>3
  <2>5. DecodeLength(b) = [ok |-> TRUE, length |-> n, rest |-> r]
    BY <1>1, <1>2, <2>2, LengthRead
  <2>6. PICK c \in Octets : c = <<tag>> \o b /\ c # <<>> /\ c[1] = tag /\ Tail(c) = b
    BY InFront
  <2> QED BY <2>1, <2>2, <2>4, <2>5, <2>6
<1>8. Wrap(tag, v) \in Octets /\ Wrap(tag, v) # <<>> /\ Wrap(tag, v)[1] = tag
      /\ Len(Wrap(tag, v)) = 1 + (DetermineLengthSize(n) + n)
  BY <1>4, <1>5, InFront
<1> QED BY <1>1, <1>6, <1>7, <1>8

\* An encoded element is read as that element.
LEMMA WrapReads ==
  ASSUME NEW tag \in Octet, NEW v, Short16(v)
  PROVE  Splits(Wrap(tag, v), <<Element(tag, v)>>)
<1>1. PICK n \in Nat : n = Len(v) /\ v \in Octets
  BY OctetsAre DEF Short16
<1>2. Element(tag, v) \in Tlv
  BY <1>1 DEF Element, Tlv, Octet
<1>3. ASSUME NEW rest \in Octets
      PROVE  Tlvs[Wrap(tag, v) \o rest] = <<Element(tag, v)>> \o Tlvs[rest]
  <2>1. PICK b \in Octets : b = Wrap(tag, v) \o rest
    BY WrapIs, JoinOctets
  <2>2. b # <<>> /\ b[1] = tag
        /\ DecodeLength(Tail(b)) = [ok |-> TRUE, length |-> n, rest |-> v \o rest]
    BY <1>1, <2>1, WrapIs
  <2>3. PICK r \in Octets : r = v \o rest /\ Len(r) = n + Len(rest) /\ Len(rest) \in Nat
                            /\ SubSeq(r, 1, n) = v /\ SubSeq(r, n + 1, Len(r)) = rest
    <3>1. /\ v \o rest \in Octets /\ Len(v \o rest) = Len(v) + Len(rest)
          /\ Len(v) \in Nat /\ Len(rest) \in Nat
          /\ SubSeq(v \o rest, 1, Len(v)) = v
          /\ SubSeq(v \o rest, Len(v) + 1, Len(v \o rest)) = rest
      BY <1>1, JoinOctets
    <3> QED BY <1>1, <3>1
  <2>4. PICK l : l = DecodeLength(Tail(b)) /\ l.ok = TRUE /\ l.length = n /\ l.rest = r
    BY <2>2, <2>3
  <2>5. ~Cut(b)
    BY <2>3, <2>4 DEF Cut
  <2>6. FirstTlv(b) = Element(tag, v)
    BY <2>2, <2>3, <2>4 DEF FirstTlv, Element
  <2>7. BehindTlv(b) = rest
    BY <2>3, <2>4 DEF BehindTlv
  <2> QED BY <2>1, <2>2, <2>5, <2>6, <2>7, TlvsOf
<1>4. <<Element(tag, v)>> \in TlvSeq
  BY <1>2 DEF TlvSeq
<1> QED BY <1>3, <1>4, WrapIs DEF Splits

\* Nothing is read as no elements.
LEMMA NothingReads == Splits(<<>>, <<>>)
<1>1. <<>> \in Octets /\ <<>> \in TlvSeq
  BY EmptySeq DEF Octets, TlvSeq
<1>2. ASSUME NEW rest \in Octets PROVE Tlvs[<<>> \o rest] = <<>> \o Tlvs[rest]
  OBVIOUS
<1> QED BY <1>1, <1>2 DEF Splits

\* Octets one behind the other are read as their elements one behind the other.
LEMMA ReadsJoin ==
  ASSUME NEW a, NEW b, NEW t, NEW u, Splits(a, t), Splits(b, u)
  PROVE  Splits(a \o b, t \o u)
<1>1. a \in Octets /\ b \in Octets /\ t \in TlvSeq /\ u \in TlvSeq
  BY DEF Splits
<1>2. a \o b \in Octets
  BY <1>1, JoinOctets
<1>3. t \in Seq(Tlv) /\ u \in Seq(Tlv)
  BY <1>1 DEF TlvSeq
<1>4. t \o u \in Seq(Tlv)
  BY <1>3, ConcatProperties
<1>5. ASSUME NEW rest \in Octets PROVE Tlvs[(a \o b) \o rest] = (t \o u) \o Tlvs[rest]
  <2>1. (a \o b) \o rest = a \o (b \o rest)
    BY <1>1, JoinAssociative
  <2>2. b \o rest \in Octets
    BY <1>1, JoinOctets
  <2>3. Tlvs[a \o (b \o rest)] = t \o Tlvs[b \o rest]
    BY <2>2 DEF Splits
  <2>4. Tlvs[b \o rest] = u \o Tlvs[rest]
    BY DEF Splits
  <2>5. PICK w : w = Tlvs[rest] /\ w \in Seq(Tlv)
    BY TlvsAre DEF TlvSeq
  <2>6. (t \o u) \o w = t \o (u \o w)
    <3>1. \A x, y, z \in Seq(Tlv) : (x \o y) \o z = x \o (y \o z)
      BY ConcatAssociative
    <3> QED BY <1>3, <2>5, <3>1
  <2> QED BY <2>1, <2>3, <2>4, <2>5, <2>6
<1> QED BY <1>2, <1>4, <1>5 DEF Splits, TlvSeq

\* What Splits says when nothing follows.
LEMMA ReadsAll ==
  ASSUME NEW a, NEW t, Splits(a, t)
  PROVE  a \in Octets /\ t \in TlvSeq /\ Tlvs[a] = t
<1>1. a \in Octets /\ t \in Seq(Tlv) /\ <<>> \in Octets
  BY EmptySeq DEF Splits, TlvSeq, Octets
<1>2. Tlvs[a \o <<>>] = t \o Tlvs[<<>>]
  BY <1>1 DEF Splits
<1>3. Tlvs[<<>>] = <<>>
  BY <1>1, TlvsOf
<1>4. a \o <<>> = a /\ t \o <<>> = t
  BY <1>1, ConcatEmptySeq DEF Octets
<1> QED BY <1>1, <1>2, <1>3, <1>4 DEF TlvSeq

-----------------------------------------------------------------------------
(* The element that a parser's switch leaves in a variable.                *)
LEMMA GetIs ==
  ASSUME NEW t \in TlvSeq, NEW tag \in Octet, NEW n \in Nat, n = Len(t), NEW k \in 1 .. n,
         t[k].tag = tag, \A i \in k + 1 .. n : t[i].tag # tag
  PROVE  Has(t, tag) /\ Get(t, tag) = t[k].val
<1> DEFINE I == {i \in 1 .. n : t[i].tag = tag}
<1>1. I \in SUBSET (1 .. n) /\ I # {} /\ k \in I
  OBVIOUS
<1>2. \A i \in I : i <= k
  OBVIOUS
<1>3. SelectLastInSeq(t, LAMBDA x : x.tag = tag) = IF I # {} THEN Max(I) ELSE 0
  BY DEF SelectLastInSeq
<1> HIDE DEF I
<1>4. Max(I) \in I /\ \A y \in I : y <= Max(I)
  BY <1>1, Greatest
<1>5. Max(I) = k
  <2>1. PICK m \in 1 .. n : m = Max(I)
    BY <1>1, <1>4
  <2> QED BY <1>1, <1>2, <1>4, <2>1
<1>6. SelectLastInSeq(t, LAMBDA x : x.tag = tag) = k
  BY <1>1, <1>3, <1>5
<1>7. Get(t, tag) = t[SelectLastInSeq(t, LAMBDA x : x.tag = tag)].val
  BY DEF Get
<1>8. k \in DOMAIN t
  BY LenProperties DEF TlvSeq
<1> QED BY <1>6, <1>7, <1>8 DEF Has

\* Get takes the last element with the tag, as the loops of the parsers do.
LEMMA GetHas ==
  ASSUME NEW t \in TlvSeq, NEW tag \in Octet, NEW n \in Nat, n = Len(t), Has(t, tag)
  PROVE  \E k \in 1 .. n : /\ t[k].tag = tag /\ Get(t, tag) = t[k].val
                           /\ \A i \in k + 1 .. n : t[i].tag # tag
<1> DEFINE I == {i \in 1 .. n : t[i].tag = tag}
<1>1. I \in SUBSET (1 .. n) /\ I # {}
  BY LenProperties DEF Has, TlvSeq
<1> HIDE DEF I
<1>2. PICK k \in I : \A y \in I : y <= k
  BY <1>1, Greatest
<1>3. k \in 1 .. n /\ t[k].tag = tag
  BY <1>2 DEF I
<1>4. \A i \in k + 1 .. n : t[i].tag # tag
  BY <1>2, <1>3 DEF I
<1>5. Get(t, tag) = t[k].val
  BY <1>3, <1>4, GetIs
<1> QED BY <1>3, <1>4, <1>5

\* Which element of two lists Get takes.
LEMMA GetJoin ==
  ASSUME NEW t \in TlvSeq, NEW u \in TlvSeq, NEW tag \in Octet
  PROVE  /\ Has(t \o u, tag) <=> Has(t, tag) \/ Has(u, tag)
         /\ Has(u, tag) => Get(t \o u, tag) = Get(u, tag)
         /\ Has(t, tag) /\ ~Has(u, tag) => Get(t \o u, tag) = Get(t, tag)
<1>1. t \in Seq(Tlv) /\ u \in Seq(Tlv)
  BY DEF TlvSeq
<1>2. PICK m \in Nat, n \in Nat : m = Len(t) /\ n = Len(u)
  BY <1>1, LenProperties
<1>3. DOMAIN t = 1 .. m /\ DOMAIN u = 1 .. n
  BY <1>1, <1>2, LenProperties
<1>4. /\ t \o u \in Seq(Tlv) /\ Len(t \o u) = m + n
      /\ \A i \in 1 .. m + n : (t \o u)[i] = IF i <= m THEN t[i] ELSE u[i - m]
  BY <1>1, <1>2, ConcatProperties
<1>5. PICK c \in TlvSeq : c = t \o u /\ m + n = Len(c) /\ DOMAIN c = 1 .. m + n
                          /\ \A i \in 1 .. m + n : c[i] = IF i <= m THEN t[i] ELSE u[i - m]
  BY <1>4, LenProperties DEF TlvSeq
<1>6. \A i \in 1 .. m : c[i] = t[i]
  BY <1>5
<1>7. \A i \in 1 .. n : m + i \in 1 .. m + n /\ c[m + i] = u[i]
  BY <1>5
<1>8. ASSUME Has(u, tag) PROVE Has(c, tag) /\ Get(c, tag) = Get(u, tag)
  <2>1. PICK k \in 1 .. n : /\ u[k].tag = tag /\ Get(u, tag) = u[k].val
                            /\ \A i \in k + 1 .. n : u[i].tag # tag
    BY <1>2, <1>8, GetHas
  <2>2. m + k \in 1 .. m + n /\ c[m + k] = u[k] /\ m + n \in Nat
    BY <1>7
  <2>3. \A i \in (m + k) + 1 .. m + n : c[i].tag # tag
    <3> TAKE i \in (m + k) + 1 .. m + n
    <3>1. i - m \in k + 1 .. n /\ i - m \in 1 .. n /\ m + (i - m) = i
      OBVIOUS
    <3>2. c[i] = u[i - m]
      BY <3>1, <1>7
    <3> QED BY <3>1, <3>2, <2>1
  <2>4. PICK N \in Nat, j \in Nat : N = m + n /\ j \in 1 .. N /\ j = m + k
    BY <2>2
  <2>5. N = Len(c) /\ c[j].tag = tag /\ j \in 1 .. N /\ \A i \in j + 1 .. N : c[i].tag # tag
    BY <2>1, <2>2, <2>3, <2>4, <1>5
  <2>6. Has(c, tag) /\ Get(c, tag) = c[j].val
    BY <2>5, GetIs
  <2> QED BY <2>1, <2>2, <2>4, <2>6
<1>9. ASSUME Has(t, tag), ~Has(u, tag) PROVE Has(c, tag) /\ Get(c, tag) = Get(t, tag)
  <2>1. PICK k \in 1 .. m : /\ t[k].tag = tag /\ Get(t, tag) = t[k].val
                            /\ \A i \in k + 1 .. m : t[i].tag # tag
    BY <1>2, <1>9, GetHas
  <2>2. k \in 1 .. m + n /\ c[k] = t[k] /\ m + n \in Nat
    BY <1>6
  <2>3. \A i \in k + 1 .. m + n : c[i].tag # tag
    <3> TAKE i \in k + 1 .. m + n
    <3>1. CASE i <= m
      BY <3>1, <2>1, <1>6
    <3>2. CASE i > m
      <4>1. i - m \in 1 .. n /\ m + (i - m) = i
        BY <3>2
      <4>2. c[i] = u[i - m]
        BY <4>1, <1>7
      <4> QED BY <4>1, <4>2, <1>9, <1>3 DEF Has
    <3> QED BY <3>1, <3>2
  <2>4. PICK N \in Nat, j \in Nat : N = m + n /\ j \in 1 .. N /\ j = k
    BY <2>2
  <2>5. N = Len(c) /\ c[j].tag = tag /\ j \in 1 .. N /\ \A i \in j + 1 .. N : c[i].tag # tag
    BY <2>1, <2>2, <2>3, <2>4, <1>5
  <2>6. Has(c, tag) /\ Get(c, tag) = c[j].val
    BY <2>5, GetIs
  <2> QED BY <2>1, <2>2, <2>4, <2>6
<1>10. ASSUME Has(c, tag) PROVE Has(t, tag) \/ Has(u, tag)
  <2>1. PICK i \in 1 .. m + n : c[i].tag = tag
    BY <1>5, <1>10 DEF Has
  <2>2. CASE i <= m
    BY <2>1, <2>2, <1>3, <1>6 DEF Has
  <2>3. CASE i > m
    <3>1. i - m \in 1 .. n /\ m + (i - m) = i
      BY <2>3
    <3>2. c[i] = u[i - m]
      BY <3>1, <1>7
    <3> QED BY <2>1, <3>1, <3>2, <1>3 DEF Has
  <2> QED BY <2>2, <2>3
<1> QED BY <1>5, <1>8, <1>9, <1>10

\* A list of one element.
LEMMA OneElement ==
  ASSUME NEW g \in Octet, NEW v \in Octets
  PROVE  /\ Element(g, v) \in Tlv /\ <<Element(g, v)>> \in TlvSeq
         /\ Len(<<Element(g, v)>>) = 1 /\ <<Element(g, v)>>[1] = Element(g, v)
         /\ <<Element(g, v)>> # <<>>
         /\ Element(g, v).tag = g /\ Element(g, v).val = v /\ Element(g, v) # BadTlv
         /\ WellFormed(<<Element(g, v)>>)
         /\ \A tag \in Octet : Has(<<Element(g, v)>>, tag) <=> g = tag
         /\ Get(<<Element(g, v)>>, g) = v
<1>1. PICK e \in Tlv : e = Element(g, v) /\ e.tag = g /\ e.val = v /\ e # BadTlv
  <2>1. Element(g, v) \in Tlv
    BY DEF Element, Tlv, Octet
  <2>2. Element(g, v).tag = g /\ Element(g, v).val = v
    BY DEF Element
  <2>3. g # -1 /\ BadTlv.tag = -1
    BY DEF Octet, BadTlv
  <2> QED BY <2>1, <2>2, <2>3
<1>2. PICK t \in TlvSeq : t = <<e>> /\ Len(t) = 1 /\ t[1] = e /\ DOMAIN t = 1 .. 1 /\ t # <<>>
  <2>1. <<e>> \in Seq(Tlv) /\ Len(<<e>>) = 1 /\ <<e>>[1] = e /\ DOMAIN <<e>> = 1 .. 1
    OBVIOUS
  <2>2. <<e>> # <<>>
    BY <2>1, EmptySeq
  <2> QED BY <2>1, <2>2 DEF TlvSeq
<1>3. WellFormed(t)
  BY <1>1, <1>2 DEF WellFormed, Last
<1>4. \A tag \in Octet : Has(t, tag) <=> g = tag
  BY <1>1, <1>2 DEF Has
<1>5. Get(t, g) = v
  <2>1. 1 \in Nat /\ 1 = Len(t) /\ 1 \in 1 .. 1 /\ t[1].tag = g /\ \A i \in 1 + 1 .. 1 : t[i].tag # g
    BY <1>1, <1>2
  <2>2. Get(t, g) = t[1].val
    BY <2>1, GetIs
  <2> QED BY <1>1, <1>2, <2>2
<1> QED BY <1>1, <1>2, <1>3, <1>4, <1>5

\* The empty list of elements.
LEMMA NoElement ==
  <<>> \in TlvSeq /\ WellFormed(<<>>) /\ \A tag \in Octet : ~Has(<<>>, tag)
BY EmptySeq DEF TlvSeq, WellFormed, Has

\* Elements that end with one are well formed.
LEMMA WellFormedEnd ==
  ASSUME NEW t \in TlvSeq, NEW g \in Octet, NEW v \in Octets
  PROVE  /\ t \o <<Element(g, v)>> \in TlvSeq /\ t \o <<Element(g, v)>> # <<>>
         /\ WellFormed(t \o <<Element(g, v)>>)
<1>1. PICK e \in Tlv : e = Element(g, v) /\ e # BadTlv
  BY OneElement
<1>2. t \in Seq(Tlv) /\ <<e>> \in Seq(Tlv) /\ Len(<<e>>) = 1 /\ <<e>>[1] = e
  BY DEF TlvSeq
<1>3. PICK m \in Nat : m = Len(t)
  BY <1>2, LenProperties
<1>4. t \o <<e>> \in Seq(Tlv) /\ Len(t \o <<e>>) = m + 1 /\ (t \o <<e>>)[m + 1] = e
  <2>1. PICK s \in Seq(Tlv) : s = <<e>> /\ Len(s) = 1 /\ s[1] = e
    BY <1>2
  <2>2. /\ t \o s \in Seq(Tlv) /\ Len(t \o s) = m + 1
        /\ \A i \in 1 .. m + 1 : (t \o s)[i] = IF i <= m THEN t[i] ELSE s[i - m]
    BY <1>2, <1>3, <2>1, ConcatProperties
  <2>3. (t \o s)[m + 1] = s[(m + 1) - m] /\ (m + 1) - m = 1
    BY <2>2
  <2> QED BY <2>1, <2>2, <2>3
<1>5. t \o <<e>> # <<>>
  BY <1>4, EmptySeq
<1> QED BY <1>1, <1>3, <1>4, <1>5 DEF WellFormed, Last, TlvSeq

-----------------------------------------------------------------------------
(***************************************************************************)
(* Integers: BerEncoder_compressInteger deletes what is redundant in front.*)
(***************************************************************************)
Foremost(s, n, k) ==
  k \in 1 .. n /\ (k = n \/ ~Redundant(s, k)) /\ \A j \in 1 .. k - 1 : Redundant(s, j)

\* What is left when the octets from k on are the foremost that matter.
LEMMA CompressAt ==
  ASSUME NEW s \in Octets, NEW n \in Nat, n = Len(s), NEW k \in 1 .. n, Foremost(s, n, k)
  PROVE  CompressInteger(s) = SubSeq(s, k, n)
<1> DEFINE P(i) == (i = Len(s) \/ ~Redundant(s, i)) /\ \A j \in 1 .. i - 1 : Redundant(s, j)
<1>1. P(k)
  BY DEF Foremost
<1>2. ASSUME NEW i \in 1 .. n, P(i) PROVE i = k
  <2>1. ~(i < k)
    <3>1. i < k => i \in 1 .. k - 1 /\ i # n
      OBVIOUS
    <3> QED BY <3>1, <1>2 DEF Foremost
  <2>2. ~(k < i)
    <3>1. k < i => k \in 1 .. i - 1 /\ k # n
      OBVIOUS
    <3> QED BY <3>1, <1>2 DEF Foremost
  <2> QED BY <2>1, <2>2
<1> HIDE DEF P
<1>3. (CHOOSE i \in 1 .. n : P(i)) = k
  BY <1>1, <1>2
<1> QED BY <1>3 DEF CompressInteger, P

\* Something is always left.
LEMMA CompressIs ==
  ASSUME NEW s \in Octets, NEW n \in Nat, n = Len(s), n >= 1
  PROVE  \E k \in 1 .. n : /\ Foremost(s, n, k) /\ CompressInteger(s) = SubSeq(s, k, n)
                           /\ SubSeq(s, k, n) \in Octets /\ Len(SubSeq(s, k, n)) = n - k + 1
<1> DEFINE T == {i \in 1 .. n : i = n \/ ~Redundant(s, i)}
<1>1. T \in SUBSET Nat /\ T # {}
  <2>1. n \in T
    OBVIOUS
  <2> QED BY <2>1
<1> HIDE DEF T
<1>2. PICK k \in T : \A i \in T : k <= i
  BY <1>1, LeastNatural
<1>3. k \in 1 .. n /\ (k = n \/ ~Redundant(s, k))
  BY <1>2 DEF T
<1>4. \A j \in 1 .. k - 1 : Redundant(s, j)
  BY <1>2, <1>3 DEF T
<1>5. Foremost(s, n, k)
  BY <1>3, <1>4 DEF Foremost
<1>6. CompressInteger(s) = SubSeq(s, k, n)
  BY <1>3, <1>5, CompressAt
<1>7. \A i \in k .. n : s[i] \in Octet
  BY <1>3, OctetsAre
<1>8. SubSeq(s, k, n) \in Octets /\ Len(SubSeq(s, k, n)) = n - k + 1
  BY <1>3, <1>7, SubSeqProperties DEF Octets
<1> QED BY <1>3, <1>5, <1>6, <1>8

(* Octets written one by one.                                              *)
LEMMA Tuples ==
  /\ \A a \in Octet : <<a>> \in Octets /\ Len(<<a>>) = 1 /\ <<a>>[1] = a
  /\ \A a, b \in Octet : <<a, b>> \in Octets /\ Len(<<a, b>>) = 2 /\ <<a, b>>[1] = a /\ <<a, b>>[2] = b
  /\ \A a, b, c \in Octet : /\ <<a, b, c>> \in Octets /\ Len(<<a, b, c>>) = 3
                           /\ <<a, b, c>>[1] = a /\ <<a, b, c>>[2] = b /\ <<a, b, c>>[3] = c
<1>1. ASSUME NEW a \in Octet PROVE <<a>> \in Octets /\ Len(<<a>>) = 1 /\ <<a>>[1] = a
  BY DEF Octets
<1>2. ASSUME NEW a \in Octet, NEW b \in Octet
      PROVE  <<a, b>> \in Octets /\ Len(<<a, b>>) = 2 /\ <<a, b>>[1] = a /\ <<a, b>>[2] = b
  BY DEF Octets
<1>3. ASSUME NEW a \in Octet, NEW b \in Octet, NEW c \in Octet
      PROVE  /\ <<a, b, c>> \in Octets /\ Len(<<a, b, c>>) = 3
             /\ <<a, b, c>>[1] = a /\ <<a, b, c>>[2] = b /\ <<a, b, c>>[3] = c
  BY DEF Octets
<1> QED BY <1>1, <1>2, <1>3

\* Octets are equal when they agree in length and at each index.
LEMMA OctetsEqual ==
  ASSUME NEW s \in Octets, NEW t \in Octets, Len(s) = Len(t), \A i \in 1 .. Len(s) : s[i] = t[i]
  PROVE  s = t
BY SeqEqual DEF Octets

\* Up to three octets, written out.
LEMMA AsTuple ==
  ASSUME NEW s \in Octets
  PROVE  /\ Len(s) = 1 => s = <<s[1]>>
         /\ Len(s) = 2 => s = <<s[1], s[2]>>
         /\ Len(s) = 3 => s = <<s[1], s[2], s[3]>>
<1>1. ASSUME Len(s) = 1 PROVE s = <<s[1]>>
  <2>1. PICK a \in Octet : a = s[1]
    BY <1>1, OctetsAre
  <2>2. PICK t \in Octets : t = <<a>> /\ Len(t) = 1 /\ t[1] = a
    BY Tuples
  <2>3. \A i \in 1 .. Len(s) : s[i] = t[i]
    BY <1>1, <2>1, <2>2
  <2> QED BY <1>1, <2>1, <2>2, <2>3, OctetsEqual
<1>2. ASSUME Len(s) = 2 PROVE s = <<s[1], s[2]>>
  <2>1. PICK a \in Octet, b \in Octet : a = s[1] /\ b = s[2]
    BY <1>2, OctetsAre
  <2>4. <<a, b>> \in Octets /\ Len(<<a, b>>) = 2 /\ <<a, b>>[1] = a /\ <<a, b>>[2] = b
    BY DEF Octets
  <2>2. PICK t \in Octets : t = <<a, b>> /\ Len(t) = 2 /\ t[1] = a /\ t[2] = b
    BY <2>4
  <2>3. \A i \in 1 .. Len(s) : s[i] = t[i]
    BY <1>2, <2>1, <2>2
  <2> QED BY <1>2, <2>1, <2>2, <2>3, OctetsEqual
<1>3. ASSUME Len(s) = 3 PROVE s = <<s[1], s[2], s[3]>>
  <2>1. PICK a \in Octet, b \in Octet, c \in Octet : a = s[1] /\ b = s[2] /\ c = s[3]
    <3>1. s[1] \in Octet /\ s[2] \in Octet /\ s[3] \in Octet
      <4>1. 1 \in 1 .. Len(s) /\ 2 \in 1 .. Len(s) /\ 3 \in 1 .. Len(s)
        BY <1>3
      <4> QED BY <4>1, OctetsAre
    <3> QED BY <3>1
  <2>4. <<a, b, c>> \in Octets /\ Len(<<a, b, c>>) = 3
        /\ <<a, b, c>>[1] = a /\ <<a, b, c>>[2] = b /\ <<a, b, c>>[3] = c
    BY DEF Octets
  <2>2. PICK t \in Octets : t = <<a, b, c>> /\ Len(t) = 3 /\ t[1] = a /\ t[2] = b /\ t[3] = c
    BY <2>4
  <2>3. \A i \in 1 .. Len(s) : s[i] = t[i]
    BY <1>3, <2>1, <2>2
  <2> QED BY <1>3, <2>1, <2>2, <2>3, OctetsEqual
<1> QED BY <1>1, <1>2, <1>3

\* The content octets of an unsigned integer.
LEMMA UInt32Octets ==
  ASSUME NEW s \in Octets, Len(s) = 4
  PROVE  EncodeUInt32(s) \in Octets /\ Len(EncodeUInt32(s)) \in 1 .. 5
<1>1. 0 \in Octet
  BY DEF Octet
<1>2. PICK z \in Octets : z = <<0>> \o s /\ Len(z) = 5
  <2>1. <<0>> \o s \in Octets /\ Len(<<0>> \o s) = 1 + Len(s)
    BY <1>1, InFront
  <2>2. Len(<<0>> \o s) = 5
    BY <2>1
  <2> QED BY <2>1, <2>2
<1>3. PICK k \in 1 .. 5 : /\ Foremost(z, 5, k) /\ CompressInteger(z) = SubSeq(z, k, 5)
                          /\ SubSeq(z, k, 5) \in Octets /\ Len(SubSeq(z, k, 5)) = 5 - k + 1
  <2>1. 5 \in Nat /\ 5 = Len(z) /\ 5 >= 1
    BY <1>2
  <2> QED BY <2>1, CompressIs
<1>4. EncodeUInt32(s) = SubSeq(z, k, 5)
  BY <1>2, <1>3 DEF EncodeUInt32
<1> QED BY <1>3, <1>4

\* A number of at most two octets survives compression and decoding.
LEMMA Numbers ==
  ASSUME NEW n \in Nat, InTwoOctets(n)
  PROVE  /\ FourOctets(n) \in Octets /\ Len(FourOctets(n)) = 4
         /\ Unsigned(EncodeUInt32(FourOctets(n))) = n
         /\ n < 128 => Len(EncodeUInt32(FourOctets(n))) = 1
<1>1. PICK h \in Octet, l \in Octet : h = (n \div 256) % 256 /\ l = n % 256 /\ h * 256 + l = n
  <2>1. n \div 256 < 256 /\ n \div 256 \in Nat /\ n % 256 \in 0 .. 255 /\ (n \div 256) * 256 + (n % 256) = n
    BY DEF InTwoOctets
  <2>2. (n \div 256) % 256 = n \div 256
    BY <2>1
  <2>3. (n \div 256) % 256 \in Octet /\ n % 256 \in Octet
    BY <2>1, <2>2 DEF Octet
  <2>4. ((n \div 256) % 256) * 256 + (n % 256) = n
    BY <2>1, <2>2
  <2> QED BY <2>3, <2>4
<1>2. PICK f \in Octets : f = FourOctets(n) /\ Len(f) = 4 /\ f[1] = 0 /\ f[2] = 0 /\ f[3] = h /\ f[4] = l
  <2>1. FourOctets(n) = <<0, 0>> \o <<h, l>>
    BY <1>1 DEF FourOctets, TwoShort
  <2>2. 0 \in Octet
    BY DEF Octet
  <2>8. <<0, 0>> \in Octets /\ Len(<<0, 0>>) = 2 /\ <<0, 0>>[1] = 0 /\ <<0, 0>>[2] = 0
    BY <2>2 DEF Octets
  <2>9. <<h, l>> \in Octets /\ Len(<<h, l>>) = 2 /\ <<h, l>>[1] = h /\ <<h, l>>[2] = l
    BY DEF Octets
  <2>3. PICK a \in Octets : a = <<0, 0>> /\ Len(a) = 2 /\ a[1] = 0 /\ a[2] = 0
    BY <2>8
  <2>4. PICK b \in Octets : b = <<h, l>> /\ Len(b) = 2 /\ b[1] = h /\ b[2] = l
    BY <2>9
  <2>5. /\ a \o b \in Seq(Octet) /\ Len(a \o b) = Len(a) + Len(b)
        /\ \A i \in 1 .. Len(a) + Len(b) : (a \o b)[i] = IF i <= Len(a) THEN a[i] ELSE b[i - Len(a)]
    BY ConcatProperties DEF Octets
  <2>6. (a \o b)[1] = a[1] /\ (a \o b)[2] = a[2] /\ (a \o b)[3] = b[3 - 2] /\ (a \o b)[4] = b[4 - 2]
    BY <2>3, <2>4, <2>5
  <2>7. FourOctets(n) = a \o b
    BY <2>1, <2>3, <2>4
  <2>10. a \o b \in Octets
    BY <2>5 DEF Octets
  <2>11. Len(a \o b) = 4
    BY <2>3, <2>4, <2>5
  <2>12. (a \o b)[1] = 0 /\ (a \o b)[2] = 0 /\ (a \o b)[3] = h /\ (a \o b)[4] = l
    BY <2>3, <2>4, <2>6
  <2> QED BY <2>7, <2>10, <2>11, <2>12
<1>3. 0 \in Octet
  BY DEF Octet
<1>4. PICK z \in Octets : z = <<0>> \o f /\ Len(z) = 5 /\ Tail(z) = f /\ z[1] = 0
  <2>1. /\ <<0>> \o f \in Octets /\ Len(<<0>> \o f) = 1 + Len(f)
        /\ (<<0>> \o f)[1] = 0 /\ Tail(<<0>> \o f) = f
    BY <1>2, <1>3, InFront
  <2>2. Len(<<0>> \o f) = 5
    BY <2>1, <1>2
  <2> QED BY <2>1, <2>2
<1>5. z[2] = 0 /\ z[3] = 0 /\ z[4] = h /\ z[5] = l
  <2>1. z # <<>> /\ z \in Seq(Octet)
    BY <1>4, EmptySeq DEF Octets
  <2>2. \A i \in 1 .. Len(Tail(z)) : Tail(z)[i] = z[i + 1]
    BY <2>1, HeadTailProperties
  <2>3. \A i \in 1 .. 4 : f[i] = z[i + 1]
    BY <2>2, <1>2, <1>4
  <2>4. f[1] = z[1 + 1] /\ f[2] = z[2 + 1] /\ f[3] = z[3 + 1] /\ f[4] = z[4 + 1]
    BY <2>3
  <2> QED BY <2>4, <1>2
<1>6. EncodeUInt32(f) = CompressInteger(z)
  BY <1>4 DEF EncodeUInt32
<1>7. \A i \in 1 .. 5 : z[i] \in Octet
  BY <1>4, OctetsAre
<1>8. \A k \in 1 .. 5 : /\ SubSeq(z, k, 5) \in Seq(Octet) /\ Len(SubSeq(z, k, 5)) = 5 - k + 1
                        /\ \A i \in 1 .. 5 - k + 1 : SubSeq(z, k, 5)[i] = z[k + i - 1]
  <2> TAKE k \in 1 .. 5
  <2>1. \A i \in k .. 5 : z[i] \in Octet
    BY <1>7
  <2> QED BY <2>1, SubSeqProperties
<1>9. h \in 0 .. 255 /\ l \in 0 .. 255
  BY DEF Octet
<1>10. ASSUME h >= 128
      PROVE  Unsigned(EncodeUInt32(f)) = n
  <2>1. Redundant(z, 1) /\ Redundant(z, 2) /\ ~Redundant(z, 3)
    BY <1>4, <1>5, <1>9, <1>10 DEF Redundant, Bit7
  <2>2. Foremost(z, 5, 3)
    BY <2>1 DEF Foremost
  <2>3. CompressInteger(z) = SubSeq(z, 3, 5)
    <3>1. 5 \in Nat /\ 5 = Len(z) /\ 3 \in 1 .. 5
      BY <1>4
    <3> QED BY <2>2, <3>1, CompressAt
  <2>4. PICK c \in Octets : c = SubSeq(z, 3, 5) /\ Len(c) = 3 /\ c[1] = 0 /\ c[2] = h /\ c[3] = l
    <3>1. /\ SubSeq(z, 3, 5) \in Octets /\ Len(SubSeq(z, 3, 5)) = 5 - 3 + 1
          /\ \A i \in 1 .. 5 - 3 + 1 : SubSeq(z, 3, 5)[i] = z[3 + i - 1]
      BY <1>8 DEF Octets
    <3>2. Len(SubSeq(z, 3, 5)) = 3 /\ SubSeq(z, 3, 5)[1] = 0 /\ SubSeq(z, 3, 5)[2] = h /\ SubSeq(z, 3, 5)[3] = l
      BY <3>1, <1>5
    <3> QED BY <3>1, <3>2
  <2>5. c = <<0, h, l>>
    BY <2>4, AsTuple
  <2>6. Unsigned(<<0, h, l>>) = (0 * 256 + h) * 256 + l
    BY <1>3, UnsignedOf
  <2>8. Unsigned(c) = n
    BY <1>1, <1>9, <2>5, <2>6
  <2> QED BY <1>6, <2>3, <2>4, <2>8
<1>11. ASSUME h < 128 /\ (h # 0 \/ l >= 128)
      PROVE  Unsigned(EncodeUInt32(f)) = n
  <2>7. Bit7(h) = 0 /\ Bit7(0) = 0 /\ (l >= 128 => Bit7(l) # 0) /\ h # 255
    BY <1>9, <1>11 DEF Bit7
  <2>1. Redundant(z, 1) /\ Redundant(z, 2) /\ Redundant(z, 3) /\ ~Redundant(z, 4)
    BY <1>4, <1>5, <1>11, <2>7 DEF Redundant
  <2>2. Foremost(z, 5, 4)
    BY <2>1 DEF Foremost
  <2>3. CompressInteger(z) = SubSeq(z, 4, 5)
    <3>1. 5 \in Nat /\ 5 = Len(z) /\ 4 \in 1 .. 5
      BY <1>4
    <3> QED BY <2>2, <3>1, CompressAt
  <2>4. PICK c \in Octets : c = SubSeq(z, 4, 5) /\ Len(c) = 2 /\ c[1] = h /\ c[2] = l
    <3>1. /\ SubSeq(z, 4, 5) \in Octets /\ Len(SubSeq(z, 4, 5)) = 5 - 4 + 1
          /\ \A i \in 1 .. 5 - 4 + 1 : SubSeq(z, 4, 5)[i] = z[4 + i - 1]
      BY <1>8 DEF Octets
    <3>2. Len(SubSeq(z, 4, 5)) = 2 /\ SubSeq(z, 4, 5)[1] = h /\ SubSeq(z, 4, 5)[2] = l
      BY <3>1, <1>5
    <3> QED BY <3>1, <3>2
  <2>5. c = <<h, l>>
    BY <2>4, AsTuple
  <2>6. Unsigned(<<h, l>>) = h * 256 + l
    BY UnsignedOf
  <2>8. Unsigned(c) = n
    BY <1>1, <1>9, <2>5, <2>6
  <2> QED BY <1>6, <2>3, <2>4, <2>8
<1>12. ASSUME h = 0 /\ l < 128
      PROVE  Unsigned(EncodeUInt32(f)) = n /\ Len(EncodeUInt32(f)) = 1
  <2>7. Bit7(0) = 0 /\ Bit7(l) = 0
    BY <1>9, <1>12 DEF Bit7
  <2>1. Redundant(z, 1) /\ Redundant(z, 2) /\ Redundant(z, 3) /\ Redundant(z, 4)
    BY <1>4, <1>5, <1>12, <2>7 DEF Redundant
  <2>2. Foremost(z, 5, 5)
    BY <2>1 DEF Foremost
  <2>3. CompressInteger(z) = SubSeq(z, 5, 5)
    <3>1. 5 \in Nat /\ 5 = Len(z) /\ 5 \in 1 .. 5
      BY <1>4
    <3> QED BY <2>2, <3>1, CompressAt
  <2>4. PICK c \in Octets : c = SubSeq(z, 5, 5) /\ Len(c) = 1 /\ c[1] = l
    <3>1. /\ SubSeq(z, 5, 5) \in Octets /\ Len(SubSeq(z, 5, 5)) = 5 - 5 + 1
          /\ \A i \in 1 .. 5 - 5 + 1 : SubSeq(z, 5, 5)[i] = z[5 + i - 1]
      BY <1>8 DEF Octets
    <3>2. Len(SubSeq(z, 5, 5)) = 1 /\ SubSeq(z, 5, 5)[1] = l
      BY <3>1, <1>5
    <3> QED BY <3>1, <3>2
  <2>5. c = <<l>>
    BY <2>4, AsTuple
  <2>6. Unsigned(<<l>>) = l
    BY UnsignedOf
  <2>8. Unsigned(c) = n
    BY <1>1, <1>9, <1>12, <2>5, <2>6
  <2> QED BY <1>6, <2>3, <2>4, <2>8
<1>13. Unsigned(EncodeUInt32(f)) = n
  BY <1>9, <1>10, <1>11, <1>12
<1>14. ASSUME n < 128 PROVE Len(EncodeUInt32(f)) = 1
  <2>1. h = 0 /\ l < 128
    BY <1>1, <1>9, <1>14
  <2> QED BY <1>12, <2>1
<1> QED BY <1>2, <1>13, <1>14

-----------------------------------------------------------------------------
(***************************************************************************)
(* Headers in front of headers.  The encoders append one after the other;  *)
(* what they append encloses what follows.                                 *)
(***************************************************************************)
a ++ b == a \o b

\* The laws of ++ that the proofs below use.
LEMMA JoinIs ==
  /\ \A a, b \in Octets : a ++ b \in Octets /\ Len(a ++ b) = Len(a) + Len(b)
  /\ \A a, b, c \in Octets : (a ++ b) ++ c = a ++ (b ++ c)
  /\ \A a \in Octets : Len(a) \in Nat /\ a ++ <<>> = a /\ <<>> ++ a = a
  /\ <<>> \in Octets /\ Len(<<>>) = 0
<1>1. ASSUME NEW a \in Octets, NEW b \in Octets
      PROVE  a ++ b \in Octets /\ Len(a ++ b) = Len(a) + Len(b)
  BY JoinOctets DEF ++
<1>2. ASSUME NEW a \in Octets, NEW b \in Octets, NEW c \in Octets
      PROVE  (a ++ b) ++ c = a ++ (b ++ c)
  BY JoinAssociative DEF ++
<1>3. ASSUME NEW a \in Octets PROVE Len(a) \in Nat /\ a ++ <<>> = a /\ <<>> ++ a = a
  BY JoinEmpty, OctetsAre DEF ++
<1>4. <<>> \in Octets /\ Len(<<>>) = 0
  BY EmptySeq DEF Octets
<1> QED BY <1>1, <1>2, <1>3, <1>4

\* One of them alone.
LEMMA Associative == \A a, b, c \in Octets : (a ++ b) ++ c = a ++ (b ++ c)
BY JoinIs

\* And another.
LEMMA Closed == \A a, b \in Octets : a ++ b \in Octets
BY JoinIs

\* The lengths add up.
LEMMA Sized == \A a, b \in Octets : a ++ b \in Octets /\ Len(a ++ b) = Len(a) + Len(b) /\ Len(a) \in Nat
                                    /\ Len(b) \in Nat
BY JoinIs

\* A sum of three, nested to the right.
LEMMA Nest3 ==
  \A a, b, c \in Octets :
    a ++ b ++ c \in Octets /\ a ++ b ++ c = a ++ (b ++ c)
BY JoinIs

\* A sum of four.
LEMMA Nest4 ==
  \A a, b, c, d \in Octets :
    a ++ b ++ c ++ d \in Octets /\ a ++ b ++ c ++ d = a ++ (b ++ (c ++ d))
<1> SUFFICES ASSUME NEW a \in Octets, NEW b \in Octets, NEW c \in Octets, NEW d \in Octets
             PROVE  a ++ b ++ c ++ d \in Octets /\ a ++ b ++ c ++ d = a ++ (b ++ (c ++ d))
  OBVIOUS
<1>1. PICK h \in Octets : h = a ++ b
  BY Closed
<1>2. h ++ c ++ d \in Octets /\ h ++ c ++ d = h ++ (c ++ d)
  BY Nest3
<1>3. PICK t \in Octets : t = c ++ d
  BY Closed
<1>4. (a ++ b) ++ t = a ++ (b ++ t)
  BY Associative
<1> QED BY <1>1, <1>2, <1>3, <1>4

\* A sum of five.
LEMMA Nest5 ==
  \A a, b, c, d, e \in Octets :
    a ++ b ++ c ++ d ++ e \in Octets /\ a ++ b ++ c ++ d ++ e = a ++ (b ++ (c ++ (d ++ e)))
<1> SUFFICES ASSUME NEW a \in Octets, NEW b \in Octets, NEW c \in Octets, NEW d \in Octets,
                    NEW e \in Octets
             PROVE  a ++ b ++ c ++ d ++ e \in Octets /\ a ++ b ++ c ++ d ++ e = a ++ (b ++ (c ++ (d ++ e)))
  OBVIOUS
<1>1. PICK h \in Octets : h = a ++ b
  BY Closed
<1>2. h ++ c ++ d ++ e \in Octets /\ h ++ c ++ d ++ e = h ++ (c ++ (d ++ e))
  BY Nest4
<1>3. PICK t \in Octets : t = c ++ (d ++ e)
  BY Closed
<1>4. (a ++ b) ++ t = a ++ (b ++ t)
  BY Associative
<1> QED BY <1>1, <1>2, <1>3, <1>4

\* Two octets that are written at once.
LEMMA PairIs ==
  ASSUME NEW a \in Octet, NEW b \in Octet
  PROVE  <<a, b>> = <<a>> \o <<b>>
<1>1. PICK x \in Octets : x = <<a>> /\ Len(x) = 1 /\ x[1] = a
  BY Tuples
<1>2. PICK y \in Octets : y = <<b>> /\ Len(y) = 1 /\ y[1] = b
  BY Tuples
<1>3. /\ x \o y \in Seq(Octet) /\ Len(x \o y) = Len(x) + Len(y)
      /\ \A i \in 1 .. Len(x) + Len(y) : (x \o y)[i] = IF i <= Len(x) THEN x[i] ELSE y[i - Len(x)]
  BY ConcatProperties DEF Octets
<1>4. PICK z \in Octets : z = x \o y
  BY <1>3 DEF Octets
<1>5. Len(z) = 2 /\ z[1] = a /\ z[2] = y[2 - 1]
  BY <1>1, <1>2, <1>3, <1>4
<1>6. z = <<a, b>>
  BY <1>2, <1>5, AsTuple
<1> QED BY <1>1, <1>2, <1>4, <1>6

\* An element with a short value.
LEMMA ShortWrap ==
  ASSUME NEW tag \in Octet, NEW v \in Octets, Len(v) < 128
  PROVE  Short16(v) /\ Wrap(tag, v) = <<tag, Len(v)>> \o v /\ Len(Wrap(tag, v)) = 2 + Len(v)
         /\ Wrap(tag, v) \in Octets
<1>1. PICK n \in Nat : n = Len(v) /\ n < 128
  BY OctetsAre
<1>2. Short16(v)
  BY <1>1 DEF Short16, InTwoOctets
<1>3. DetermineLengthSize(n) = 1 /\ EncodeLength(n) = <<n>> /\ n \in Octet
  <2>0. n < 128
    BY <1>1
  <2>1. n \in 0 .. 255
    BY <2>0
  <2> QED BY <1>1, <2>1 DEF DetermineLengthSize, EncodeLength, Octet
<1>4. Len(Wrap(tag, v)) = 1 + DetermineLengthSize(n) + n /\ Wrap(tag, v) \in Octets
  BY <1>1, <1>2, WrapIs
<1>5. <<tag, n>> = <<tag>> \o <<n>>
  BY <1>3, PairIs
<1> QED BY <1>1, <1>2, <1>3, <1>4, <1>5 DEF Wrap, EncodeTL

\* BerEncoder_encodeUInt32WithTL makes an element.
LEMMA IntegerElement ==
  ASSUME NEW tag \in Octet, NEW s \in Octets, Len(s) = 4
  PROVE  /\ EncodeUInt32WithTL(tag, s) = Wrap(tag, EncodeUInt32(s))
         /\ Short16(EncodeUInt32(s)) /\ EncodeUInt32(s) \in Octets /\ Len(EncodeUInt32(s)) \in 1 .. 5
         /\ Len(EncodeUInt32WithTL(tag, s)) = 2 + Len(EncodeUInt32(s))
<1>1. PICK e \in Octets : e = EncodeUInt32(s) /\ Len(e) \in 1 .. 5
  BY UInt32Octets
<1>2. Short16(e) /\ Wrap(tag, e) = <<tag, Len(e)>> \o e /\ Len(Wrap(tag, e)) = 2 + Len(e)
  <2>2. PICK n \in 1 .. 5 : n = Len(e)
    BY <1>1
  <2>3. n < 128
    OBVIOUS
  <2>1. Len(e) < 128
    BY <2>2, <2>3
  <2> QED BY <2>1, ShortWrap
<1> QED BY <1>1, <1>2 DEF EncodeUInt32WithTL

\* What ends with well formed elements is well formed.
LEMMA WellFormedJoin ==
  ASSUME NEW t \in TlvSeq, NEW u \in TlvSeq, u # <<>>, WellFormed(u)
  PROVE  t \o u \in TlvSeq /\ t \o u # <<>> /\ WellFormed(t \o u)
<1>1. t \in Seq(Tlv) /\ u \in Seq(Tlv)
  BY DEF TlvSeq
<1>2. PICK m \in Nat, n \in Nat : m = Len(t) /\ n = Len(u) /\ n >= 1
  BY <1>1, LenProperties, EmptySeq
<1>3. PICK c \in Seq(Tlv) : c = t \o u /\ Len(c) = m + n /\ c[m + n] = u[n]
  <2>1. /\ t \o u \in Seq(Tlv) /\ Len(t \o u) = m + n
        /\ \A i \in 1 .. m + n : (t \o u)[i] = IF i <= m THEN t[i] ELSE u[i - m]
    BY <1>1, <1>2, ConcatProperties
  <2>2. (t \o u)[m + n] = u[(m + n) - m] /\ (m + n) - m = n
    BY <2>1, <1>2
  <2> QED BY <2>1, <2>2
<1>4. c # <<>>
  BY <1>2, <1>3, EmptySeq
<1>5. u[n] # BadTlv
  BY <1>2 DEF WellFormed, Last
<1> QED BY <1>3, <1>4, <1>5 DEF WellFormed, Last, TlvSeq

\* ReadsJoin for the infix form.
LEMMA ReadsBoth ==
  ASSUME NEW a, NEW b, NEW t, NEW u, Splits(a, t), Splits(b, u)
  PROVE  Splits(a ++ b, t \o u)
BY ReadsJoin DEF ++

\* A header whose length is that of what follows.
LEMMA Encloses ==
  ASSUME NEW tag \in Octet, NEW v \in Octets, NEW n \in Nat, n = Len(v), InTwoOctets(n)
  PROVE  /\ EncodeTL(tag, n) ++ v = Wrap(tag, v) /\ Wrap(tag, v) \in Octets /\ Short16(v)
         /\ EncodeTL(tag, n) \in Octets
         /\ Len(Wrap(tag, v)) = 1 + DetermineLengthSize(n) + n /\ DetermineLengthSize(n) \in 1 .. 3
<1>1. Short16(v)
  BY DEF Short16
<1>2. EncodeTL(tag, n) \in Octets
  BY HeaderIs
<1>3. EncodeTL(tag, n) ++ v = Wrap(tag, v)
  BY DEF Wrap, ++
<1> QED BY <1>1, <1>2, <1>3, WrapIs

-----------------------------------------------------------------------------
(* User information of the ACSE PDUs                                       *)
AssociationData(ref, pdu) == Wrap(2, ref) ++ Wrap(160, pdu)
Enclosed(ref, pdu) == Wrap(40, AssociationData(ref, pdu))

\* Lengths that leave room for the headers.
Half(n) == n < 128 * 256

\* The lengths that the encoders compute before the contents.
InformationSizes(ref, pdu, m, n, L2, L1) ==
  /\ m \in 1 .. 5 /\ m = Len(ref) /\ n \in Nat /\ n = Len(pdu) /\ Half(n)
  /\ L2 \in Nat /\ L2 = n + 1 + DetermineLengthSize(n) + m + 2
  /\ L1 \in Nat /\ L1 = L2 + DetermineLengthSize(L2) + 1

\* The user information field encloses the reference and the PDU.
LEMMA InformationIs ==
  ASSUME NEW ref \in Octets, NEW pdu \in Octets, NEW m, NEW n, NEW L2, NEW L1,
         InformationSizes(ref, pdu, m, n, L2, L1)
  PROVE  /\ UserInformation(L1, L2, ref, n) \in Octets
         /\ UserInformation(L1, L2, ref, n) ++ pdu = Wrap(190, Enclosed(ref, pdu))
         /\ Enclosed(ref, pdu) \in Octets /\ Len(Enclosed(ref, pdu)) = L1 /\ InTwoOctets(L1)
         /\ AssociationData(ref, pdu) \in Octets /\ Short16(AssociationData(ref, pdu))
         /\ L1 <= n + 16
<1>1. 190 \in Octet /\ 40 \in Octet /\ 2 \in Octet /\ 160 \in Octet
  BY DEF Octet
<1> n \in Nat /\ L2 \in Nat /\ L1 \in Nat /\ Half(n) /\ n = Len(pdu)
      /\ L1 = L2 + DetermineLengthSize(L2) + 1
  BY DEF InformationSizes
<1>2. PICK s \in 1 .. 3 : s = DetermineLengthSize(n)
  BY DEF DetermineLengthSize
<1>3. PICK k \in 1 .. 5 : k = Len(ref) /\ L2 = n + 1 + DetermineLengthSize(n) + k + 2
  BY DEF InformationSizes
<1>4. InTwoOctets(n) /\ L2 = n + 1 + s + k + 2
  BY <1>2, <1>3 DEF Half, InTwoOctets
<1>5. PICK W \in Octets : /\ W = Wrap(160, pdu) /\ W = EncodeTL(160, n) ++ pdu
                          /\ Len(W) = 1 + s + n /\ EncodeTL(160, n) \in Octets
  <2>1. /\ EncodeTL(160, n) ++ pdu = Wrap(160, pdu) /\ Wrap(160, pdu) \in Octets
        /\ EncodeTL(160, n) \in Octets /\ Len(Wrap(160, pdu)) = 1 + DetermineLengthSize(n) + n
    BY <1>1, <1>4, Encloses
  <2>2. Len(Wrap(160, pdu)) = 1 + s + n
    BY <2>1, <1>2
  <2> QED BY <2>1, <2>2
<1>6. PICK R \in Octets : /\ R = Wrap(2, ref) /\ R = EncodeTL(2, k) ++ ref /\ Len(R) = 2 + k
                          /\ EncodeTL(2, k) \in Octets
  <2>1. k \in Nat /\ InTwoOctets(k) /\ DetermineLengthSize(k) = 1
    BY DEF InTwoOctets, DetermineLengthSize
  <2>2. /\ EncodeTL(2, k) ++ ref = Wrap(2, ref) /\ Wrap(2, ref) \in Octets
        /\ EncodeTL(2, k) \in Octets /\ Len(Wrap(2, ref)) = 1 + DetermineLengthSize(k) + k
    BY <1>1, <1>3, <2>1, Encloses
  <2>3. Len(Wrap(2, ref)) = 2 + k
    BY <2>1, <2>2
  <2> QED BY <2>2, <2>3
<1>7. PICK D \in Octets : D = AssociationData(ref, pdu) /\ D = R ++ W /\ Len(D) = L2
  <2>1. R ++ W \in Octets /\ Len(R ++ W) = Len(R) + Len(W)
    BY JoinIs
  <2>2. Len(R ++ W) = L2
    BY <2>1, <1>4, <1>5, <1>6
  <2> QED BY <2>1, <2>2, <1>5, <1>6 DEF AssociationData
<1>8. InTwoOctets(L2)
  BY <1>4 DEF Half, InTwoOctets
<1>9. PICK s2 \in 1 .. 3 : s2 = DetermineLengthSize(L2)
  BY DEF DetermineLengthSize
<1>10. PICK I \in Octets : /\ I = Wrap(40, D) /\ I = EncodeTL(40, L2) ++ D /\ Len(I) = L1
                           /\ EncodeTL(40, L2) \in Octets /\ Short16(D)
  <2>1. /\ EncodeTL(40, L2) ++ D = Wrap(40, D) /\ Wrap(40, D) \in Octets /\ Short16(D)
        /\ EncodeTL(40, L2) \in Octets /\ Len(Wrap(40, D)) = 1 + DetermineLengthSize(L2) + L2
    BY <1>1, <1>7, <1>8, Encloses
  <2>2. Len(Wrap(40, D)) = L1
    BY <2>1, <1>9
  <2> QED BY <2>1, <2>2
<1>11. InTwoOctets(L1) /\ L1 <= n + 16
  <2>1. L1 = (n + 1 + s + k + 2) + s2 + 1
    BY <1>4, <1>9
  <2>2. n < 128 * 256
    BY DEF Half
  <2>3. L1 < 256 * 256 /\ L1 <= n + 16
    BY <2>1, <2>2
  <2> QED BY <2>3 DEF InTwoOctets
<1>12. PICK U \in Octets : U = Wrap(190, I) /\ U = EncodeTL(190, L1) ++ I /\ EncodeTL(190, L1) \in Octets
  BY <1>1, <1>10, <1>11, Encloses
<1>13. PICK A \in Octets, B \in Octets, C \in Octets, E \in Octets :
         A = EncodeTL(190, L1) /\ B = EncodeTL(40, L2) /\ C = EncodeTL(2, k) /\ E = EncodeTL(160, n)
  BY <1>5, <1>6, <1>10, <1>12
<1>14. PICK H : H = UserInformation(L1, L2, ref, n) /\ H = A ++ B ++ C ++ ref ++ E
  BY <1>3, <1>13 DEF UserInformation, ++
<1>15. H \in Octets
  BY <1>14, Nest5
<1>16. H ++ pdu = A ++ (B ++ (C ++ (ref ++ (E ++ pdu))))
  <2>1. PICK h \in Octets : h = A ++ B ++ C ++ ref
    BY Nest4
  <2>2. PICK X \in Octets : X = E ++ pdu
    BY Closed
  <2>3. (h ++ E) ++ pdu = h ++ X
    BY <2>2, Associative
  <2>4. h ++ X = A ++ (B ++ (C ++ (ref ++ X)))
    BY <2>1, Nest5
  <2> QED BY <1>14, <2>1, <2>2, <2>3, <2>4
<1>17. E ++ pdu = W /\ C ++ ref = R /\ R ++ W = D /\ B ++ D = I /\ A ++ I = U
  BY <1>5, <1>6, <1>7, <1>10, <1>12, <1>13
<1>18. C ++ (ref ++ W) = R ++ W
  <2>1. (C ++ ref) ++ W = C ++ (ref ++ W)
    BY Associative
  <2> QED BY <2>1, <1>17
<1>19. H ++ pdu = U
  BY <1>16, <1>17, <1>18
<1> QED BY <1>7, <1>10, <1>11, <1>12, <1>14, <1>15, <1>19 DEF Enclosed

\* A reference is decoded into the four octets of a native integer.
LEMMA DecodedReference ==
  ASSUME NEW r \in Octets
  PROVE  DecodeUint32(r) \in Octets /\ Len(DecodeUint32(r)) = 4
<1>1. PICK z : z = [i \in 1 .. 4 |-> 0]
  OBVIOUS
<1>2. z \in Octets /\ Len(z) = 4
  BY <1>1 DEF Octets, Octet
<1>3. Zeros(4) = z
  BY <1>1, <1>2, JoinEmpty DEF Zeros
<1>4. PICK n \in Nat : n = Len(r)
  BY OctetsAre
<1>5. PICK s \in Octets : s = z \o r /\ Len(s) = 4 + n
  <2>1. z \o r \in Octets /\ Len(z \o r) = Len(z) + Len(r)
    BY <1>2, JoinOctets
  <2>2. Len(z \o r) = 4 + n
    BY <1>2, <1>4, <2>1
  <2> QED BY <2>1, <2>2
<1>6. SubSeq(s, n + 1, n + 4) \in Octets /\ Len(SubSeq(s, n + 1, n + 4)) = 4
  <2>1. s \in Seq(Octet) /\ n + 1 \in 1 .. Len(s) /\ n + 4 \in n + 1 .. Len(s)
    BY <1>5 DEF Octets
  <2> QED BY <2>1, SubSeqProperties DEF Octets
<1> QED BY <1>3, <1>4, <1>5, <1>6 DEF DecodeUint32, Last4

\* Two elements, one after the other.
LEMMA TwoElements ==
  ASSUME NEW g \in Octet, NEW v, Short16(v), NEW h \in Octet, NEW w, Short16(w), g # h
  PROVE  \E t \in TlvSeq :
           /\ Splits(Wrap(g, v) ++ Wrap(h, w), t) /\ t # <<>> /\ WellFormed(t)
           /\ Has(t, g) /\ Has(t, h) /\ Get(t, g) = v /\ Get(t, h) = w
           /\ Len(t) = 2 /\ t[1] = Element(g, v) /\ t[2] = Element(h, w)
<1>1. v \in Octets /\ w \in Octets
  BY DEF Short16
<1>2. PICK a \in TlvSeq : /\ a = <<Element(g, v)>> /\ Splits(Wrap(g, v), a) /\ Len(a) = 1
                          /\ a[1] = Element(g, v)
                          /\ \A tag \in Octet : Has(a, tag) <=> g = tag
                          /\ Get(a, g) = v
  <2>1. Splits(Wrap(g, v), <<Element(g, v)>>)
    BY WrapReads
  <2>2. /\ <<Element(g, v)>> \in TlvSeq
        /\ Len(<<Element(g, v)>>) = 1 /\ <<Element(g, v)>>[1] = Element(g, v)
        /\ \A tag \in Octet : Has(<<Element(g, v)>>, tag) <=> g = tag
        /\ Get(<<Element(g, v)>>, g) = v
    BY <1>1, OneElement
  <2> QED BY <2>1, <2>2
<1>3. PICK b \in TlvSeq : /\ b = <<Element(h, w)>> /\ Splits(Wrap(h, w), b) /\ Len(b) = 1
                          /\ b[1] = Element(h, w)
                          /\ \A tag \in Octet : Has(b, tag) <=> h = tag
                          /\ Get(b, h) = w
  <2>1. Splits(Wrap(h, w), <<Element(h, w)>>)
    BY WrapReads
  <2>2. /\ <<Element(h, w)>> \in TlvSeq
        /\ Len(<<Element(h, w)>>) = 1 /\ <<Element(h, w)>>[1] = Element(h, w)
        /\ \A tag \in Octet : Has(<<Element(h, w)>>, tag) <=> h = tag
        /\ Get(<<Element(h, w)>>, h) = w
    BY <1>1, OneElement
  <2> QED BY <2>1, <2>2
<1>4. PICK t \in TlvSeq : t = a \o b /\ t # <<>> /\ WellFormed(t)
  BY <1>1, <1>3, WellFormedEnd
<1>5. Splits(Wrap(g, v) ++ Wrap(h, w), t)
  BY <1>2, <1>3, <1>4, ReadsBoth
<1>6. Has(t, g) /\ Has(t, h) /\ Get(t, g) = v /\ Get(t, h) = w
  BY <1>2, <1>3, <1>4, GetJoin
<1>7. Len(t) = 2 /\ t[1] = a[1] /\ t[2] = b[1]
  BY <1>2, <1>3, <1>4, ConcatProperties DEF TlvSeq
<1> QED BY <1>2, <1>3, <1>4, <1>5, <1>6, <1>7

\* One element alone.
LEMMA OneRead ==
  ASSUME NEW g \in Octet, NEW v, Short16(v)
  PROVE  \E t \in TlvSeq :
           /\ Wrap(g, v) \in Octets
           /\ Tlvs[Wrap(g, v)] = t /\ t # <<>> /\ WellFormed(t) /\ Has(t, g) /\ Get(t, g) = v
           /\ t[1] = Element(g, v) /\ t[1].tag = g /\ t[1].val = v
<1>1. v \in Octets
  BY DEF Short16
<1>2. Wrap(g, v) \in Octets /\ Tlvs[Wrap(g, v)] = <<Element(g, v)>>
  <2>1. Splits(Wrap(g, v), <<Element(g, v)>>)
    BY WrapReads
  <2> QED BY <2>1, ReadsAll
<1>3. /\ <<Element(g, v)>> \in TlvSeq /\ <<Element(g, v)>> # <<>> /\ WellFormed(<<Element(g, v)>>)
      /\ <<Element(g, v)>>[1] = Element(g, v) /\ Element(g, v).tag = g /\ Element(g, v).val = v
      /\ Has(<<Element(g, v)>>, g) /\ Get(<<Element(g, v)>>, g) = v
  BY <1>1, OneElement
<1> QED BY <1>2, <1>3

\* parseUserInformation reads what the create functions put around a PDU.
LEMMA InformationRead ==
  ASSUME NEW ref \in Octets, NEW pdu \in Octets, Short16(ref), Short16(pdu),
         Short16(AssociationData(ref, pdu))
  PROVE  ParseUserInformation[Enclosed(ref, pdu)]
           = [valid |-> TRUE, nextReference |-> DecodeUint32(ref), data |-> pdu]
<1>1. 40 \in Octet /\ 2 \in Octet /\ 160 \in Octet
  BY DEF Octet
<1>2. PICK D \in Octets : D = AssociationData(ref, pdu) /\ Short16(D)
  BY DEF Short16
<1>3. PICK t \in TlvSeq : /\ Splits(D, t) /\ WellFormed(t) /\ Has(t, 2) /\ Has(t, 160)
                          /\ Get(t, 2) = ref /\ Get(t, 160) = pdu
  BY <1>1, <1>2, TwoElements DEF AssociationData
<1>4. Tlvs[D] = t
  BY <1>3, ReadsAll
<1>5. PICK B \in Octets : B = Enclosed(ref, pdu) /\ B = Wrap(40, D)
  BY <1>1, <1>2, WrapIs DEF Enclosed
<1>6. PICK o \in TlvSeq : Tlvs[B] = o /\ WellFormed(o) /\ Has(o, 40) /\ Get(o, 40) = D
  BY <1>1, <1>2, <1>5, OneRead
<1>7. ParseUserInformation[B] = [valid |-> TRUE, nextReference |-> DecodeUint32(ref), data |-> pdu]
  BY <1>3, <1>4, <1>6 DEF ParseUserInformation
<1> QED BY <1>5, <1>7

-----------------------------------------------------------------------------
(***************************************************************************)
(* The fields of the AARQ and AARE in front of the user information        *)
(***************************************************************************)
OnlyTags(t, tags) == \A tag \in Octet : Has(t, tag) => tag \in tags

\* One element with a short value, as the parsers see it.
LEMMA ShortReads ==
  ASSUME NEW g \in Octet, NEW v \in Octets, Len(v) < 128
  PROVE  \E t \in TlvSeq : /\ Splits(Wrap(g, v), t) /\ OnlyTags(t, {g}) /\ Has(t, g) /\ Get(t, g) = v
                           /\ t # <<>> /\ WellFormed(t)
<1>1. Short16(v)
  BY ShortWrap
<1>2. Splits(Wrap(g, v), <<Element(g, v)>>)
  BY <1>1, WrapReads
<1>3. /\ <<Element(g, v)>> \in TlvSeq /\ <<Element(g, v)>> # <<>> /\ WellFormed(<<Element(g, v)>>)
      /\ \A tag \in Octet : Has(<<Element(g, v)>>, tag) <=> g = tag
      /\ Get(<<Element(g, v)>>, g) = v
  BY OneElement
<1>4. OnlyTags(<<Element(g, v)>>, {g}) /\ Has(<<Element(g, v)>>, g)
  BY <1>3 DEF OnlyTags
<1> QED BY <1>2, <1>3, <1>4

\* Four octets and five octets.
LEMMA LongTuples ==
  /\ \A a, b, c, d \in Octet : <<a, b, c, d>> \in Octets /\ Len(<<a, b, c, d>>) = 4
  /\ \A a, b, c, d, e \in Octet : <<a, b, c, d, e>> \in Octets /\ Len(<<a, b, c, d, e>>) = 5
<1>1. ASSUME NEW a \in Octet, NEW b \in Octet, NEW c \in Octet, NEW d \in Octet
      PROVE  <<a, b, c, d>> \in Octets /\ Len(<<a, b, c, d>>) = 4
  BY DEF Octets
<1>2. ASSUME NEW a \in Octet, NEW b \in Octet, NEW c \in Octet, NEW d \in Octet, NEW e \in Octet
      PROVE  <<a, b, c, d, e>> \in Octets /\ Len(<<a, b, c, d, e>>) = 5
  BY DEF Octets
<1> QED BY <1>1, <1>2

\* A header written apart from a short value.
LEMMA ShortHeader ==
  ASSUME NEW g \in Octet, NEW v \in Octets, NEW n \in Nat, n < 128, n = Len(v)
  PROVE  /\ EncodeTL(g, n) \in Octets /\ EncodeTL(g, n) ++ v = Wrap(g, v)
         /\ Wrap(g, v) \in Octets /\ Len(Wrap(g, v)) = 2 + n /\ Short16(v)
<1>1. Len(v) < 128
  OBVIOUS
<1>2. Wrap(g, v) \in Octets /\ Len(Wrap(g, v)) = 2 + Len(v) /\ Short16(v)
  BY <1>1, ShortWrap
<1>3. InTwoOctets(n)
  BY DEF InTwoOctets
<1>4. EncodeTL(g, n) ++ v = Wrap(g, v) /\ EncodeTL(g, n) \in Octets
  BY <1>3, Encloses
<1> QED BY <1>2, <1>4

(* An octet string and its length.                                         *)
Measures(v, n) == v \in Octets /\ n \in Nat /\ n = Len(v)

\* Octets written out and how many they are.
LEMMA MeasuredTuples ==
  /\ Measures(<<>>, 0)
  /\ \A a \in Octet : Measures(<<a>>, 1)
  /\ \A a, b \in Octet : Measures(<<a, b>>, 2)
  /\ \A a, b, c \in Octet : Measures(<<a, b, c>>, 3)
  /\ \A a, b, c, d \in Octet : Measures(<<a, b, c, d>>, 4)
  /\ \A a, b, c, d, e \in Octet : Measures(<<a, b, c, d, e>>, 5)
<1>1. Measures(<<>>, 0)
  BY JoinIs DEF Measures
<1>2. ASSUME NEW a \in Octet PROVE Measures(<<a>>, 1)
  <2>1. <<a>> \in Octets /\ Len(<<a>>) = 1
    BY Tuples
  <2> QED BY <2>1 DEF Measures
<1>3. ASSUME NEW a \in Octet, NEW b \in Octet PROVE Measures(<<a, b>>, 2)
  <2>1. <<a, b>> \in Octets /\ Len(<<a, b>>) = 2
    BY Tuples
  <2> QED BY <2>1 DEF Measures
<1>4. ASSUME NEW a \in Octet, NEW b \in Octet, NEW c \in Octet PROVE Measures(<<a, b, c>>, 3)
  <2>1. <<a, b, c>> \in Octets /\ Len(<<a, b, c>>) = 3
    BY Tuples
  <2> QED BY <2>1 DEF Measures
<1>5. ASSUME NEW a \in Octet, NEW b \in Octet, NEW c \in Octet, NEW d \in Octet
      PROVE  Measures(<<a, b, c, d>>, 4)
  <2>1. <<a, b, c, d>> \in Octets /\ Len(<<a, b, c, d>>) = 4
    BY LongTuples
  <2> QED BY <2>1 DEF Measures
<1>6. ASSUME NEW a \in Octet, NEW b \in Octet, NEW c \in Octet, NEW d \in Octet, NEW e \in Octet
      PROVE  Measures(<<a, b, c, d, e>>, 5)
  <2>1. <<a, b, c, d, e>> \in Octets /\ Len(<<a, b, c, d, e>>) = 5
    BY LongTuples
  <2> QED BY <2>1 DEF Measures
<1> QED BY <1>1, <1>2, <1>3, <1>4, <1>5, <1>6

\* A header apart from a value of known length.
LEMMA MeasuredHeader ==
  ASSUME NEW g \in Octet, NEW v, NEW n, Measures(v, n), n < 128
  PROVE  /\ v \in Octets /\ EncodeTL(g, n) \in Octets /\ EncodeTL(g, n) ++ v = Wrap(g, v)
         /\ Measures(Wrap(g, v), n + 2) /\ Wrap(g, v) \in Octets /\ Short16(v)
<1>1. v \in Octets /\ n \in Nat /\ n = Len(v)
  BY DEF Measures
<1>2. /\ EncodeTL(g, n) \in Octets /\ EncodeTL(g, n) ++ v = Wrap(g, v)
      /\ Wrap(g, v) \in Octets /\ Len(Wrap(g, v)) = 2 + n /\ Short16(v)
  BY <1>1, ShortHeader
<1>3. n + 2 \in Nat /\ n + 2 = 2 + n
  BY <1>1
<1> QED BY <1>1, <1>2, <1>3 DEF Measures

\* Lengths of concatenations.
LEMMA MeasuresJoin ==
  ASSUME NEW a, NEW b, NEW m, NEW n, Measures(a, m), Measures(b, n)
  PROVE  Measures(a ++ b, m + n) /\ a \in Octets /\ b \in Octets /\ a ++ b \in Octets
<1>1. a \in Octets /\ b \in Octets /\ m \in Nat /\ n \in Nat /\ m = Len(a) /\ n = Len(b)
  BY DEF Measures
<1>2. a ++ b \in Octets /\ Len(a ++ b) = m + n
  BY <1>1, JoinIs
<1>3. m + n \in Nat
  BY <1>1
<1> QED BY <1>1, <1>2, <1>3 DEF Measures

\* ShortReads for a value of known length.
LEMMA MeasuredReads ==
  ASSUME NEW g \in Octet, NEW v, NEW n, Measures(v, n), n < 128
  PROVE  \E t \in TlvSeq : /\ Splits(Wrap(g, v), t) /\ OnlyTags(t, {g}) /\ Has(t, g) /\ Get(t, g) = v
                           /\ t # <<>> /\ WellFormed(t)
<1>1. v \in Octets /\ Len(v) < 128
  BY DEF Measures
<1> QED BY <1>1, ShortReads

\* The application context name, in AARQ and AARE.
LEMMA ContextNameIs ==
  /\ Measures(AppContextName, 9)
  /\ \E t \in TlvSeq : Splits(AppContextName, t) /\ OnlyTags(t, {161})
<1>1. 161 \in Octet /\ 6 \in Octet /\ 5 < 128 /\ 7 < 128
  BY DEF Octet
<1>2. PICK o : o = appContextNameMms /\ Measures(o, 5)
  <2>1. 40 \in Octet /\ 202 \in Octet /\ 34 \in Octet /\ 2 \in Octet /\ 3 \in Octet
    BY DEF Octet
  <2>2. Measures(<<40, 202, 34, 2, 3>>, 5)
    BY <2>1, MeasuredTuples
  <2> QED BY <2>2 DEF appContextNameMms
<1>3. PICK v, A : /\ v = Wrap(6, o) /\ Measures(v, 7) /\ A = EncodeTL(6, 5) /\ A \in Octets
                  /\ A ++ o = v /\ o \in Octets
  <2>1. PICK n : n = 5 /\ Measures(o, n) /\ n < 128
    BY <1>2
  <2>2. /\ EncodeTL(6, n) \in Octets /\ EncodeTL(6, n) ++ o = Wrap(6, o) /\ Measures(Wrap(6, o), n + 2)
        /\ o \in Octets
    BY <1>1, <2>1, MeasuredHeader
  <2> QED BY <2>1, <2>2
<1>4. PICK w, B : /\ w = Wrap(161, v) /\ Measures(w, 9) /\ B = EncodeTL(161, 7) /\ B \in Octets
                  /\ B ++ v = w
  <2>1. PICK n : n = 7 /\ Measures(v, n) /\ n < 128
    BY <1>3
  <2>2. /\ EncodeTL(161, n) \in Octets /\ EncodeTL(161, n) ++ v = Wrap(161, v)
        /\ Measures(Wrap(161, v), n + 2)
    BY <1>1, <2>1, MeasuredHeader
  <2> QED BY <2>1, <2>2
<1>5. AppContextName = w
  <2>1. AppContextName = B ++ A ++ o
    BY <1>2, <1>3, <1>4 DEF AppContextName, ++
  <2>2. B ++ A ++ o = B ++ (A ++ o)
    BY <1>3, <1>4, Nest3
  <2> QED BY <1>3, <1>4, <2>1, <2>2
<1>6. PICK t \in TlvSeq : Splits(Wrap(161, v), t) /\ OnlyTags(t, {161})
  BY <1>1, <1>3, MeasuredReads
<1> QED BY <1>4, <1>5, <1>6

TitleFits(title) == title \in Octets /\ Len(title) <= 10
OctetsOf32(s) == s \in Octets /\ Len(s) = 4

ApTitleRead(a, L, tags) ==
  Measures(a, L) /\ L \in 0 .. 23 /\ \E t \in TlvSeq : Splits(a, t) /\ OnlyTags(t, tags)

\* AP titles of at most ten octets and AE qualifiers of 32 bits.
LEMMA ApTitleIs ==
  ASSUME NEW g \in Octet, NEW g1 \in Octet, g1 = g + 1,
         NEW title, TitleFits(title), NEW qualifier, OctetsOf32(qualifier)
  PROVE  ApTitleRead(ApTitle(g, title, qualifier), ApTitleLength(title, qualifier), {g, g1})
<1> title \in Octets /\ Len(title) <= 10 /\ qualifier \in Octets /\ Len(qualifier) = 4
  BY DEF TitleFits, OctetsOf32
<1>1. CASE title = <<>>
  <2>1. Splits(<<>>, <<>>) /\ <<>> \in TlvSeq /\ \A tag \in Octet : ~Has(<<>>, tag)
    BY NothingReads, NoElement
  <2>2. <<>> \in Octets /\ Len(<<>>) = 0
    BY JoinIs
  <2>3. OnlyTags(<<>>, {g, g1})
    BY <2>1 DEF OnlyTags
  <2>4. Measures(<<>>, 0) /\ 0 \in 0 .. 23
    BY MeasuredTuples
  <2> QED BY <1>1, <2>1, <2>3, <2>4 DEF ApTitle, ApTitleLength, ApTitleRead
<1>2. CASE title # <<>>
  <2>1. PICK n \in 0 .. 10 : n = Len(title)
    <3>1. Len(title) \in Nat
      BY OctetsAre
    <3>2. \A k \in Nat : k <= 10 => k \in 0 .. 10
      OBVIOUS
    <3> QED BY <3>1, <3>2
  <2>2. PICK q \in Octets, m \in 1 .. 5 : q = EncodeUInt32(qualifier) /\ m = Len(q)
    BY UInt32Octets
  <2>3. 6 \in Octet /\ 2 \in Octet
    BY DEF Octet
  <2>4. PICK A \in Octets, T \in Octets : /\ A = EncodeTL(6, n) /\ T = Wrap(6, title) /\ Len(T) = n + 2
                                          /\ A ++ title = T
    <3>1. /\ EncodeTL(6, n) \in Octets /\ EncodeTL(6, n) ++ title = Wrap(6, title)
          /\ Wrap(6, title) \in Octets /\ Len(Wrap(6, title)) = 2 + n
      <4>1. n \in Nat /\ n < 128
        OBVIOUS
      <4> QED BY <2>1, <2>3, <4>1, ShortHeader
    <3>2. Len(Wrap(6, title)) = n + 2
      BY <3>1
    <3> QED BY <3>1, <3>2
  <2>5. PICK B \in Octets, U \in Octets : /\ B = EncodeTL(g, n + 2) /\ U = Wrap(g, T) /\ Len(U) = n + 4
                                          /\ B ++ T = U
    <3>1. /\ EncodeTL(g, n + 2) \in Octets /\ EncodeTL(g, n + 2) ++ T = Wrap(g, T)
          /\ Wrap(g, T) \in Octets /\ Len(Wrap(g, T)) = 2 + (n + 2)
      <4>1. n + 2 \in Nat /\ n + 2 < 128
        OBVIOUS
      <4> QED BY <2>4, <4>1, ShortHeader
    <3>2. Len(Wrap(g, T)) = n + 4
      BY <3>1
    <3> QED BY <3>1, <3>2
  <2>6. PICK C \in Octets, Q \in Octets : /\ C = EncodeTL(2, m) /\ Q = Wrap(2, q) /\ Len(Q) = m + 2
                                          /\ C ++ q = Q
    <3>1. /\ EncodeTL(2, m) \in Octets /\ EncodeTL(2, m) ++ q = Wrap(2, q)
          /\ Wrap(2, q) \in Octets /\ Len(Wrap(2, q)) = 2 + m
      <4>1. m \in Nat /\ m < 128
        OBVIOUS
      <4> QED BY <2>2, <2>3, <4>1, ShortHeader
    <3>2. Len(Wrap(2, q)) = m + 2
      BY <3>1
    <3> QED BY <3>1, <3>2
  <2>7. PICK D \in Octets, V \in Octets : /\ D = EncodeTL(g1, m + 2) /\ V = Wrap(g1, Q) /\ Len(V) = m + 4
                                          /\ D ++ Q = V
    <3>1. /\ EncodeTL(g1, m + 2) \in Octets /\ EncodeTL(g1, m + 2) ++ Q = Wrap(g1, Q)
          /\ Wrap(g1, Q) \in Octets /\ Len(Wrap(g1, Q)) = 2 + (m + 2)
      <4>1. m + 2 \in Nat /\ m + 2 < 128
        OBVIOUS
      <4> QED BY <2>6, <4>1, ShortHeader
    <3>2. Len(Wrap(g1, Q)) = m + 4
      BY <3>1
    <3> QED BY <3>1, <3>2
  <2>8. ApTitle(g, title, qualifier) = B ++ A ++ title ++ D ++ C ++ q
    BY <1>2, <2>1, <2>2, <2>4, <2>5, <2>6, <2>7 DEF ApTitle, ++
  <2>9. ApTitle(g, title, qualifier) = U ++ V
    <3>1. B ++ A ++ title = U
      BY <2>4, <2>5, Nest3
    <3>2. U ++ D ++ C ++ q = U ++ (D ++ (C ++ q))
      BY Nest4
    <3> QED BY <2>6, <2>7, <2>8, <3>1, <3>2
  <2>10. PICK a \in Octets : a = U ++ V /\ Len(a) = (n + 4) + (m + 4)
    <3>1. U ++ V \in Octets /\ Len(U ++ V) = Len(U) + Len(V)
      BY JoinIs
    <3> QED BY <2>5, <2>7, <3>1
  <2>11. Len(a) = ApTitleLength(title, qualifier)
    <3>1. ApTitleLength(title, qualifier) = 4 + n + 4 + m
      BY <1>2, <2>1, <2>2 DEF ApTitleLength, UInt32DetermineEncodedSize
    <3> QED BY <2>10, <3>1
  <2>12. Len(T) < 128 /\ Len(Q) < 128 /\ g # g1
    BY <2>4, <2>6 DEF Octet
  <2>13. PICK t \in TlvSeq : Splits(U, t) /\ OnlyTags(t, {g})
    BY <2>5, <2>12, ShortReads
  <2>14. PICK u \in TlvSeq : Splits(V, u) /\ OnlyTags(u, {g1})
    BY <2>7, <2>12, ShortReads
  <2>15. Splits(a, t \o u) /\ t \o u \in TlvSeq
    <3>1. Splits(U ++ V, t \o u)
      BY <2>13, <2>14, ReadsBoth
    <3> QED BY <2>10, <3>1 DEF Splits
  <2>16. OnlyTags(t \o u, {g, g1})
    BY <2>13, <2>14, GetJoin DEF OnlyTags
  <2>17. Len(a) \in 0 .. 23
    BY <2>10
  <2>18. PICK L \in 0 .. 23 : L = Len(a) /\ L = ApTitleLength(title, qualifier)
    BY <2>11, <2>17
  <2>19. Measures(a, L)
    <3>1. \A i \in 0 .. 23 : i \in Nat
      OBVIOUS
    <3> QED BY <2>18, <3>1 DEF Measures
  <2>20. ApTitleRead(a, L, {g, g1})
    BY <2>15, <2>16, <2>19 DEF ApTitleRead
  <2> QED BY <2>9, <2>10, <2>18, <2>20
<1> QED BY <1>1, <1>2

\* An element whose length may take several octets.
LEMMA LongHeader ==
  ASSUME NEW g \in Octet, NEW v, NEW n, Measures(v, n), InTwoOctets(n)
  PROVE  /\ v \in Octets /\ EncodeTL(g, n) \in Octets /\ EncodeTL(g, n) ++ v = Wrap(g, v)
         /\ Measures(Wrap(g, v), 1 + DetermineLengthSize(n) + n) /\ Wrap(g, v) \in Octets /\ Short16(v)
<1>1. v \in Octets /\ n \in Nat /\ n = Len(v)
  BY DEF Measures
<1>2. /\ EncodeTL(g, n) \in Octets /\ EncodeTL(g, n) ++ v = Wrap(g, v)
      /\ Wrap(g, v) \in Octets /\ Len(Wrap(g, v)) = 1 + DetermineLengthSize(n) + n /\ Short16(v)
      /\ DetermineLengthSize(n) \in 1 .. 3
  BY <1>1, Encloses
<1>3. 1 + DetermineLengthSize(n) + n \in Nat
  BY <1>1, <1>2
<1> QED BY <1>1, <1>2, <1>3 DEF Measures

SameAt(t, u, tag) == (Has(t, tag) <=> Has(u, tag)) /\ (Has(t, tag) => Get(t, tag) = Get(u, tag))

\* Elements with other tags in front change nothing.
LEMMA SameBehind ==
  ASSUME NEW t \in TlvSeq, NEW u \in TlvSeq, NEW tag \in Octet, NEW tags, OnlyTags(t, tags), tag \notin tags
  PROVE  SameAt(u, t \o u, tag)
<1>1. ~Has(t, tag)
  BY DEF OnlyTags
<1> QED BY <1>1, GetJoin DEF SameAt

\* Elements with other tags behind change nothing.
LEMMA SameInFront ==
  ASSUME NEW t \in TlvSeq, NEW u \in TlvSeq, NEW tag \in Octet, NEW tags, OnlyTags(u, tags), tag \notin tags
  PROVE  SameAt(t, t \o u, tag)
<1>1. ~Has(u, tag)
  BY DEF OnlyTags
<1> QED BY <1>1, GetJoin DEF SameAt

\* What the parser makes of the authentication fields alone.
AuthRead(t, pw) ==
  /\ MechanismOf(t) = IF pw = <<>> THEN "none" ELSE "password"
  /\ AuthValueOf(t) = pw

\* What the parser knows of the authentication depends on two tags only.
LEMMA AuthElsewhere ==
  ASSUME NEW t \in TlvSeq, NEW u \in TlvSeq, NEW pw, AuthRead(t, pw), SameAt(t, u, 139), SameAt(t, u, 172)
  PROVE  AuthRead(u, pw)
<1>1. MechanismOf(u) = MechanismOf(t)
  BY DEF MechanismOf, SameAt
<1>2. AuthValueOf(u) = AuthValueOf(t)
  BY DEF AuthValueOf, SameAt
<1> QED BY <1>1, <1>2 DEF AuthRead

\* A client without a password writes no authentication fields.
LEMMA NoAuthentication ==
  /\ \E t \in TlvSeq : Splits(<<>>, t) /\ OnlyTags(t, {138, 139, 172}) /\ AuthRead(t, <<>>)
<1>1. 139 \in Octet /\ 172 \in Octet
  BY DEF Octet
<1>2. Splits(<<>>, <<>>) /\ <<>> \in TlvSeq /\ \A tag \in Octet : ~Has(<<>>, tag)
  BY NothingReads, NoElement
<1>3. OnlyTags(<<>>, {138, 139, 172})
  BY <1>2 DEF OnlyTags
<1>4. MechanismOf(<<>>) = "none"
  BY <1>1, <1>2 DEF MechanismOf
<1>5. AuthValueOf(<<>>) = <<>>
  BY <1>1, <1>2 DEF AuthValueOf
<1>6. AuthRead(<<>>, <<>>)
  BY <1>4, <1>5 DEF AuthRead
<1> QED BY <1>2, <1>3, <1>6

Challenge(pw) == Wrap(138, <<4, 128>>) ++ (Wrap(139, auth_mech_password_oid) ++ Wrap(172, Wrap(128, pw)))

\* The authentication fields of a client with a password, and their length.
LEMMA PasswordIs ==
  ASSUME NEW pw, NEW n, Measures(pw, n), Half(n), n # 0,
         NEW auth, auth = [mechanism |-> "password", password |-> pw]
  PROVE  \E L \in Nat : /\ L = AuthLength(auth) /\ Measures(AuthFields(auth), L) /\ L <= n + 20
                        /\ AuthFields(auth) = Challenge(pw)
                        /\ Short16(pw) /\ Short16(Wrap(128, pw))
                        /\ Measures(<<4, 128>>, 2) /\ Measures(auth_mech_password_oid, 3)
<1>1. /\ 138 \in Octet /\ 139 \in Octet /\ 172 \in Octet /\ 128 \in Octet /\ 4 \in Octet /\ 82 \in Octet
      /\ 3 \in Octet /\ 1 \in Octet
  BY DEF Octet
<1>2. n \in Nat /\ n = Len(pw) /\ pw \in Octets
  BY DEF Measures
<1>3. PICK a : a = <<4, 128>> /\ Measures(a, 2)
  BY <1>1, MeasuredTuples
<1>4. PICK o : o = auth_mech_password_oid /\ Measures(o, 3)
  BY <1>1, MeasuredTuples DEF auth_mech_password_oid
<1>5. PICK s \in 1 .. 3 : s = DetermineLengthSize(n)
  BY DEF DetermineLengthSize
<1>6. PICK A, WA : /\ A = EncodeTL(138, 2) /\ WA = Wrap(138, a) /\ Measures(WA, 4) /\ A \in Octets
                   /\ A ++ a = WA /\ a \in Octets /\ WA \in Octets
  <2>1. PICK k : k = 2 /\ Measures(a, k) /\ k < 128
    BY <1>3
  <2>2. /\ EncodeTL(138, k) \in Octets /\ EncodeTL(138, k) ++ a = Wrap(138, a) /\ a \in Octets
        /\ Measures(Wrap(138, a), k + 2) /\ Wrap(138, a) \in Octets
    BY <1>1, <2>1, MeasuredHeader
  <2> QED BY <2>1, <2>2
<1>7. PICK B, WB : /\ B = EncodeTL(139, 3) /\ WB = Wrap(139, o) /\ Measures(WB, 5) /\ B \in Octets
                   /\ B ++ o = WB /\ o \in Octets /\ WB \in Octets
  <2>1. PICK k : k = 3 /\ Measures(o, k) /\ k < 128
    BY <1>4
  <2>2. /\ EncodeTL(139, k) \in Octets /\ EncodeTL(139, k) ++ o = Wrap(139, o) /\ o \in Octets
        /\ Measures(Wrap(139, o), k + 2) /\ Wrap(139, o) \in Octets
    BY <1>1, <2>1, MeasuredHeader
  <2> QED BY <2>1, <2>2
<1>8. InTwoOctets(n)
  BY <1>2 DEF Half, InTwoOctets
<1>9. PICK C, WC : /\ C = EncodeTL(128, n) /\ WC = Wrap(128, pw) /\ Measures(WC, 1 + s + n) /\ C \in Octets
                   /\ C ++ pw = WC /\ Short16(pw) /\ WC \in Octets
  BY <1>1, <1>5, <1>8, LongHeader
<1>10. PICK m \in Nat : m = s + n + 1 /\ m = 1 + s + n /\ InTwoOctets(m)
  <2>1. n < 128 * 256
    BY DEF Half
  <2>2. s + n + 1 \in Nat /\ s + n + 1 < 256 * 256 /\ s + n + 1 = 1 + s + n
    BY <1>2, <2>1
  <2> QED BY <2>2 DEF InTwoOctets
<1>11. PICK r \in 1 .. 3 : r = DetermineLengthSize(m)
  BY DEF DetermineLengthSize
<1>12. PICK D, WD : /\ D = EncodeTL(172, m) /\ WD = Wrap(172, WC) /\ Measures(WD, 1 + r + m) /\ D \in Octets
                    /\ D ++ WC = WD /\ Short16(WC) /\ WD \in Octets
  BY <1>1, <1>9, <1>10, <1>11, LongHeader
<1>13. AuthFields(auth) = A ++ a ++ B ++ o ++ D ++ C ++ pw
  <2>1. auth.mechanism = "password" /\ auth.password = pw
    OBVIOUS
  <2>2. AuthFields(auth) = EncodeTL(138, 2) \o <<4, 128>> \o EncodeTL(139, 3) \o auth_mech_password_oid
           \o EncodeTL(172, DetermineLengthSize(n) + n + 1) \o EncodeTL(128, n) \o pw
    BY <1>2, <2>1 DEF AuthFields
  <2>3. DetermineLengthSize(n) + n + 1 = m
    BY <1>5, <1>10
  <2>4. AuthFields(auth) = EncodeTL(138, 2) \o <<4, 128>> \o EncodeTL(139, 3) \o auth_mech_password_oid
           \o EncodeTL(172, m) \o EncodeTL(128, n) \o pw
    BY <2>2, <2>3
  <2> QED BY <2>4, <1>3, <1>4, <1>6, <1>7, <1>9, <1>12 DEF ++
<1>14. AuthFields(auth) = WA ++ (WB ++ WD)
  <2>1. AuthFields(auth) = WA ++ B ++ o ++ D ++ C ++ pw
    BY <1>6, <1>13
  <2>2. PICK h \in Octets : h = WA ++ B ++ o
    BY <1>6, <1>7, Nest3
  <2>3. h = WA ++ WB
    BY <2>2, <1>6, <1>7, Nest3
  <2>4. h ++ D ++ C ++ pw = h ++ (D ++ (C ++ pw))
    BY <2>2, <1>2, <1>9, <1>12, Nest4
  <2>5. AuthFields(auth) = (WA ++ WB) ++ WD
    BY <2>1, <2>2, <2>3, <2>4, <1>9, <1>12
  <2> QED BY <2>5, <1>6, <1>7, <1>12, Associative
<1>15. Measures(WA ++ (WB ++ WD), 4 + (5 + (1 + r + m)))
  <2>1. PICK i, j, k : i = 4 /\ j = 5 /\ k = 1 + r + m
    OBVIOUS
  <2>2. Measures(WA, i) /\ Measures(WB, j) /\ Measures(WD, k)
    BY <2>1, <1>6, <1>7, <1>12
  <2>3. Measures(WB ++ WD, j + k)
    BY <2>2, MeasuresJoin
  <2>4. Measures(WA ++ (WB ++ WD), i + (j + k))
    BY <2>2, <2>3, MeasuresJoin
  <2> QED BY <2>1, <2>4
<1>16. PICK L \in Nat : L = AuthLength(auth) /\ L = 4 + (5 + (1 + r + m)) /\ L <= n + 20
  <2>1. auth.mechanism = "password" /\ auth.password = pw
    OBVIOUS
  <2>2. AuthLength(auth) = 4 + 5 + 2 + n + s + DetermineLengthSize(n + s + 1)
    BY <1>2, <1>5, <2>1 DEF AuthLength
  <2>3. n + s + 1 = m
    BY <1>2, <1>10
  <2>4. AuthLength(auth) = 4 + 5 + 2 + n + s + r
    BY <2>2, <2>3, <1>11
  <2>5. 4 + 5 + 2 + n + s + r = 4 + (5 + (1 + r + m)) /\ 4 + (5 + (1 + r + m)) \in Nat
        /\ 4 + 5 + 2 + n + s + r <= n + 20
    BY <1>2, <1>10
  <2> QED BY <2>4, <2>5
<1>17. Challenge(pw) = WA ++ (WB ++ WD)
  BY <1>3, <1>4, <1>6, <1>7, <1>9, <1>12 DEF Challenge
<1>18. Measures(AuthFields(auth), L)
  BY <1>14, <1>15, <1>16
<1>19. Short16(Wrap(128, pw)) /\ Measures(<<4, 128>>, 2) /\ Measures(auth_mech_password_oid, 3)
  BY <1>3, <1>4, <1>9, <1>12
<1> QED BY <1>9, <1>14, <1>16, <1>17, <1>18, <1>19

\* ShortReads for a value of up to two octets of length.
LEMMA LongReads ==
  ASSUME NEW g \in Octet, NEW v, Short16(v)
  PROVE  \E t \in TlvSeq : /\ Splits(Wrap(g, v), t) /\ OnlyTags(t, {g}) /\ Has(t, g) /\ Get(t, g) = v
                           /\ t # <<>> /\ WellFormed(t)
<1>1. v \in Octets
  BY DEF Short16
<1>2. Splits(Wrap(g, v), <<Element(g, v)>>)
  BY WrapReads
<1>3. /\ <<Element(g, v)>> \in TlvSeq /\ <<Element(g, v)>> # <<>> /\ WellFormed(<<Element(g, v)>>)
      /\ \A tag \in Octet : Has(<<Element(g, v)>>, tag) <=> g = tag
      /\ Get(<<Element(g, v)>>, g) = v
  BY <1>1, OneElement
<1>4. OnlyTags(<<Element(g, v)>>, {g}) /\ Has(<<Element(g, v)>>, g)
  BY <1>3 DEF OnlyTags
<1> QED BY <1>2, <1>3, <1>4

\* The tags of a concatenation.
LEMMA OnlyTagsJoin ==
  ASSUME NEW t \in TlvSeq, NEW u \in TlvSeq, NEW S, NEW T, OnlyTags(t, S), OnlyTags(u, T)
  PROVE  OnlyTags(t \o u, S \cup T) /\ t \o u \in TlvSeq
<1>1. t \o u \in TlvSeq
  BY ConcatProperties DEF TlvSeq
<1> QED BY <1>1, GetJoin DEF OnlyTags

\* The authentication value is read as the password it was written from.
LEMMA PasswordRead ==
  ASSUME NEW pw, pw # <<>>, Short16(pw), Short16(Wrap(128, pw)), Measures(<<4, 128>>, 2),
         Measures(auth_mech_password_oid, 3)
  PROVE  \E t \in TlvSeq : Splits(Challenge(pw), t) /\ OnlyTags(t, {138, 139, 172}) /\ AuthRead(t, pw)
<1>1. 138 \in Octet /\ 139 \in Octet /\ 172 \in Octet /\ 128 \in Octet /\ 2 < 128 /\ 3 < 128
  BY DEF Octet
<1>2. PICK a \in TlvSeq : Splits(Wrap(138, <<4, 128>>), a) /\ OnlyTags(a, {138})
  BY <1>1, MeasuredReads
<1>3. PICK b \in TlvSeq : /\ Splits(Wrap(139, auth_mech_password_oid), b) /\ OnlyTags(b, {139})
                          /\ Has(b, 139) /\ Get(b, 139) = auth_mech_password_oid
  BY <1>1, MeasuredReads
<1>4. PICK c \in TlvSeq : /\ Splits(Wrap(172, Wrap(128, pw)), c) /\ OnlyTags(c, {172})
                          /\ Has(c, 172) /\ Get(c, 172) = Wrap(128, pw)
  <2>1. PICK w : w = Wrap(128, pw) /\ Short16(w)
    OBVIOUS
  <2>2. PICK g \in Octet : g = 172
    BY <1>1
  <2>3. \E t \in TlvSeq : /\ Splits(Wrap(g, w), t) /\ OnlyTags(t, {g}) /\ Has(t, g) /\ Get(t, g) = w
    BY <2>1, LongReads
  <2> QED BY <2>1, <2>2, <2>3
<1>5. PICK bc \in TlvSeq : /\ bc = b \o c
                           /\ Splits(Wrap(139, auth_mech_password_oid) ++ Wrap(172, Wrap(128, pw)), bc)
                           /\ OnlyTags(bc, {139} \cup {172}) /\ SameAt(b, bc, 139) /\ SameAt(c, bc, 172)
  <2>1. Splits(Wrap(139, auth_mech_password_oid) ++ Wrap(172, Wrap(128, pw)), b \o c)
    BY <1>3, <1>4, ReadsBoth
  <2>2. OnlyTags(b \o c, {139} \cup {172}) /\ b \o c \in TlvSeq
    BY <1>3, <1>4, OnlyTagsJoin
  <2>3. SameAt(b, b \o c, 139)
    <3>1. 139 \notin {172}
      OBVIOUS
    <3> QED BY <1>1, <1>4, <3>1, SameInFront
  <2>4. SameAt(c, b \o c, 172)
    <3>1. 172 \notin {139}
      OBVIOUS
    <3> QED BY <1>1, <1>3, <3>1, SameBehind
  <2> QED BY <2>1, <2>2, <2>3, <2>4
<1>6. PICK t \in TlvSeq : /\ t = a \o bc /\ Splits(Challenge(pw), t)
                          /\ OnlyTags(t, {138} \cup ({139} \cup {172}))
                          /\ SameAt(bc, t, 139) /\ SameAt(bc, t, 172)
  <2>1. Splits(Challenge(pw), a \o bc)
    BY <1>2, <1>5, ReadsBoth DEF Challenge
  <2>2. OnlyTags(a \o bc, {138} \cup ({139} \cup {172})) /\ a \o bc \in TlvSeq
    <3>1. PICK S, T : S = {138} /\ T = {139} \cup {172} /\ OnlyTags(a, S) /\ OnlyTags(bc, T)
      BY <1>2, <1>5
    <3>2. OnlyTags(a \o bc, S \cup T) /\ a \o bc \in TlvSeq
      BY <3>1, OnlyTagsJoin
    <3> QED BY <3>1, <3>2
  <2>3. SameAt(bc, a \o bc, 139) /\ SameAt(bc, a \o bc, 172)
    <3>1. 139 \notin {138} /\ 172 \notin {138}
      OBVIOUS
    <3> QED BY <1>1, <1>2, <3>1, SameBehind
  <2> QED BY <2>1, <2>2, <2>3
<1>7. Has(t, 139) /\ Get(t, 139) = auth_mech_password_oid
  BY <1>3, <1>5, <1>6 DEF SameAt
<1>8. Has(t, 172) /\ Get(t, 172) = Wrap(128, pw)
  BY <1>4, <1>5, <1>6 DEF SameAt
<1>9. MechanismOf(t) = "password"
  BY <1>7 DEF MechanismOf
<1>10. AuthValueOf(t) = pw
  <2>1. PICK v \in TlvSeq : /\ Tlvs[Wrap(128, pw)] = v /\ v # <<>> /\ v[1] = Element(128, pw)
                            /\ v[1].val = pw
    BY <1>1, OneRead
  <2>2. v[1] # BadTlv
    <3>1. Element(128, pw) # BadTlv
      BY <1>1, OneElement DEF Short16
    <3> QED BY <2>1, <3>1
  <2> QED BY <1>8, <2>1, <2>2 DEF AuthValueOf
<1>11. AuthRead(t, pw)
  BY <1>9, <1>10 DEF AuthRead
<1>12. OnlyTags(t, {138, 139, 172})
  <2>1. {138} \cup ({139} \cup {172}) = {138, 139, 172}
    OBVIOUS
  <2> QED BY <1>6, <2>1
<1> QED BY <1>6, <1>11, <1>12

(***************************************************************************)
(* What createAssociateRequestMessage needs of the IsoConnectionParameters *)
(***************************************************************************)
ParamsFit ==
  /\ TitleFits(Params.remoteApTitle) /\ TitleFits(Params.localApTitle)
  /\ OctetsOf32(Params.remoteAEQualifier) /\ OctetsOf32(Params.localAEQualifier)

\* The authentication fields of a client with a password or without.
LEMMA AuthIs ==
  ASSUME NEW pw, NEW n, Measures(pw, n), Half(n),
         NEW auth, auth = [mechanism |-> IF pw = <<>> THEN "absent" ELSE "password", password |-> pw]
  PROVE  \E t \in TlvSeq, L \in Nat :
           /\ L = AuthLength(auth) /\ L <= n + 20 /\ Measures(AuthFields(auth), L)
           /\ Splits(AuthFields(auth), t) /\ OnlyTags(t, {138, 139, 172}) /\ AuthRead(t, pw)
<1>0. n \in Nat /\ n = Len(pw) /\ pw \in Octets
  BY DEF Measures
<1>1. CASE pw = <<>>
  <2>1. auth.mechanism = "absent"
    BY <1>1
  <2>2. AuthLength(auth) = 0 /\ AuthFields(auth) = <<>>
    BY <2>1 DEF AuthLength, AuthFields
  <2>3. 0 <= n + 20
    BY <1>0
  <2> QED BY <1>1, <2>2, <2>3, NoAuthentication, MeasuredTuples
<1>2. CASE pw # <<>>
  <2>1. auth = [mechanism |-> "password", password |-> pw]
    BY <1>2
  <2>2. n # 0
    BY <1>0, <1>2, EmptySeq DEF Octets
  <2>3. PICK L \in Nat : /\ L = AuthLength(auth) /\ Measures(AuthFields(auth), L) /\ L <= n + 20
                         /\ AuthFields(auth) = Challenge(pw)
                         /\ Short16(pw) /\ Short16(Wrap(128, pw))
                         /\ Measures(<<4, 128>>, 2) /\ Measures(auth_mech_password_oid, 3)
    BY <2>1, <2>2, PasswordIs
  <2>4. PICK t \in TlvSeq : /\ Splits(Challenge(pw), t) /\ OnlyTags(t, {138, 139, 172})
                            /\ AuthRead(t, pw)
    BY <1>2, <2>3, PasswordRead
  <2> QED BY <2>3, <2>4
<1> QED BY <1>1, <1>2

\* The user information behind the other fields, and what it measures.
LEMMA InformationMeasured ==
  ASSUME NEW ref, NEW m \in 1 .. 5, Measures(ref, m), NEW pdu, NEW n, Measures(pdu, n), n < 128,
         NEW L2, L2 = n + 1 + DetermineLengthSize(n) + m + 2,
         NEW L1, L1 = L2 + DetermineLengthSize(L2) + 1
  PROVE  \E E, U, I :
           /\ E = Enclosed(ref, pdu) /\ U = Wrap(190, E) /\ I = UserInformation(L1, L2, ref, n)
           /\ I \in Octets /\ pdu \in Octets /\ U \in Octets /\ I ++ pdu = U
           /\ Measures(U, L1 + DetermineLengthSize(L1) + 1)
           /\ DetermineLengthSize(L1) \in 1 .. 3 /\ L1 \in 0 .. n + 16
           /\ \E t \in TlvSeq : /\ Splits(U, t) /\ OnlyTags(t, {190}) /\ Has(t, 190)
                                /\ Get(t, 190) = E /\ t # <<>> /\ WellFormed(t)
           /\ ParseUserInformation[E]
                = [valid |-> TRUE, nextReference |-> DecodeUint32(ref), data |-> pdu]
<1>1. /\ ref \in Octets /\ pdu \in Octets /\ n \in Nat /\ n = Len(pdu) /\ m = Len(ref)
  BY DEF Measures
<1>2. Half(n) /\ 190 \in Octet
  BY <1>1 DEF Half, Octet
<1>3. PICK s \in 1 .. 3 : s = DetermineLengthSize(n)
  BY DEF DetermineLengthSize
<1>4. PICK r \in 1 .. 3 : r = DetermineLengthSize(L2)
  BY DEF DetermineLengthSize
<1>5. L2 \in Nat /\ L1 \in Nat
  <2>1. PICK n1 \in Nat, m1 \in 1 .. 5 : n1 = n /\ m1 = m
    BY <1>1
  <2>2. L2 = n1 + 1 + s + m1 + 2
    BY <1>3, <2>1
  <2>3. L2 \in Nat
    BY <2>2
  <2>4. L1 = L2 + r + 1
    BY <1>4
  <2>5. L1 \in Nat
    BY <2>3, <2>4
  <2> QED BY <2>3, <2>5
<1>6. /\ UserInformation(L1, L2, ref, n) \in Octets
      /\ UserInformation(L1, L2, ref, n) ++ pdu = Wrap(190, Enclosed(ref, pdu))
      /\ Enclosed(ref, pdu) \in Octets /\ Len(Enclosed(ref, pdu)) = L1 /\ InTwoOctets(L1)
      /\ AssociationData(ref, pdu) \in Octets /\ Short16(AssociationData(ref, pdu))
      /\ L1 <= n + 16
  <2>1. PICK n1 \in Nat, l2 \in Nat, l1 \in Nat : n1 = n /\ l2 = L2 /\ l1 = L1
    BY <1>1, <1>5
  <2>2. m = Len(ref) /\ n1 = Len(pdu) /\ Half(n1)
    BY <1>1, <1>2, <2>1
  <2>3. l2 = n1 + 1 + DetermineLengthSize(n1) + m + 2 /\ l1 = l2 + DetermineLengthSize(l2) + 1
    BY <1>1, <2>1
  <2>4. /\ UserInformation(l1, l2, ref, n1) \in Octets
        /\ UserInformation(l1, l2, ref, n1) ++ pdu = Wrap(190, Enclosed(ref, pdu))
        /\ Enclosed(ref, pdu) \in Octets /\ Len(Enclosed(ref, pdu)) = l1 /\ InTwoOctets(l1)
        /\ AssociationData(ref, pdu) \in Octets /\ Short16(AssociationData(ref, pdu))
        /\ l1 <= n1 + 16
    <3>1. InformationSizes(ref, pdu, m, n1, l2, l1)
      BY <2>2, <2>3 DEF InformationSizes
    <3> QED BY <1>1, <3>1, InformationIs
  <2> QED BY <2>1, <2>4
<1>7. PICK E : E = Enclosed(ref, pdu) /\ Measures(E, L1)
  BY <1>5, <1>6 DEF Measures
<1>8. PICK d \in 1 .. 3 : d = DetermineLengthSize(L1)
  BY DEF DetermineLengthSize
<1>9. /\ Measures(Wrap(190, E), 1 + DetermineLengthSize(L1) + L1)
      /\ Wrap(190, E) \in Octets /\ Short16(E)
  BY <1>2, <1>6, <1>7, LongHeader
<1>10. Measures(Wrap(190, E), L1 + DetermineLengthSize(L1) + 1)
  <2>1. 1 + DetermineLengthSize(L1) + L1 = L1 + DetermineLengthSize(L1) + 1
    BY <1>5, <1>8
  <2> QED BY <1>9, <2>1
<1>11. \E t \in TlvSeq : /\ Splits(Wrap(190, E), t) /\ OnlyTags(t, {190}) /\ Has(t, 190)
                         /\ Get(t, 190) = E /\ t # <<>> /\ WellFormed(t)
  BY <1>2, <1>9, LongReads
<1>12. ParseUserInformation[E] = [valid |-> TRUE, nextReference |-> DecodeUint32(ref), data |-> pdu]
  <2>1. Short16(ref) /\ Short16(pdu)
    <3>1. m < 256 * 256 /\ n < 256 * 256
      <4>1. \A i \in 1 .. 5 : i < 256 * 256
        OBVIOUS
      <4>2. \A i \in Nat : i < 128 => i < 256 * 256
        OBVIOUS
      <4> QED BY <1>1, <4>1, <4>2
    <3> QED BY <1>1, <3>1 DEF Short16, InTwoOctets
  <2> QED BY <1>1, <1>6, <1>7, <2>1, InformationRead
<1>13. L1 \in 0 .. n + 16
  BY <1>1, <1>5, <1>6
<1>14. PICK U, I : U = Wrap(190, E) /\ I = UserInformation(L1, L2, ref, n)
  OBVIOUS
<1>15. I \in Octets /\ U \in Octets /\ I ++ pdu = U
  BY <1>6, <1>7, <1>14, <1>9
<1> QED BY <1>1, <1>7, <1>8, <1>10, <1>11, <1>12, <1>13, <1>14, <1>15

\* Nested concatenations of six parts.
LEMMA FrontOfSix ==
  ASSUME NEW a \in Octets, NEW b \in Octets, NEW c \in Octets, NEW d \in Octets, NEW e \in Octets,
         NEW i \in Octets, NEW p \in Octets
  PROVE  /\ (a ++ b ++ c ++ d ++ e ++ i) ++ p = a ++ (b ++ (c ++ (d ++ (e ++ (i ++ p)))))
         /\ a ++ b ++ c ++ d ++ e ++ i \in Octets
<1>1. PICK g \in Octets : g = a ++ b ++ c ++ d
  BY Nest4
<1>2. PICK y \in Octets : y = i ++ p
  BY Closed
<1>3. PICK x \in Octets : x = e ++ y
  BY Closed
<1>4. g ++ x = a ++ (b ++ (c ++ (d ++ x)))
  BY <1>1, Nest5
<1>5. PICK h \in Octets : h = g ++ e
  BY Closed
<1>6. h ++ i \in Octets /\ (h ++ i) ++ p = h ++ (i ++ p)
  BY Associative, Closed
<1>7. (g ++ e) ++ y = g ++ (e ++ y)
  BY Associative
<1> QED BY <1>1, <1>2, <1>3, <1>4, <1>5, <1>6, <1>7

\* Fields in front of the user information do not touch it.
Informs(a, t, E) ==
  /\ t \in TlvSeq /\ Splits(a, t) /\ t # <<>> /\ WellFormed(t) /\ Has(t, 190) /\ Get(t, 190) = E

\* Fields in front leave the user information as it is.
LEMMA FieldsInFront ==
  ASSUME NEW a, NEW t \in TlvSeq, NEW tags, Splits(a, t), OnlyTags(t, tags), 190 \notin tags,
         NEW b, NEW u, NEW E, Informs(b, u, E)
  PROVE  Informs(a ++ b, t \o u, E)
<1>1. 190 \in Octet
  BY DEF Octet
<1>2. u \in TlvSeq /\ Splits(b, u) /\ u # <<>> /\ WellFormed(u) /\ Has(u, 190) /\ Get(u, 190) = E
  BY DEF Informs
<1>3. t \o u \in TlvSeq /\ t \o u # <<>> /\ WellFormed(t \o u)
  BY <1>2, WellFormedJoin
<1>4. Splits(a ++ b, t \o u)
  BY <1>2, ReadsBoth
<1>5. SameAt(u, t \o u, 190)
  BY <1>1, <1>2, SameBehind
<1> QED BY <1>2, <1>3, <1>4, <1>5 DEF SameAt, Informs

\* Fields in front leave the authentication as it is.
LEMMA AuthBehind ==
  ASSUME NEW t \in TlvSeq, NEW u \in TlvSeq, NEW tags, OnlyTags(t, tags), 139 \notin tags, 172 \notin tags,
         NEW pw, AuthRead(u, pw)
  PROVE  AuthRead(t \o u, pw)
<1>1. 139 \in Octet /\ 172 \in Octet
  BY DEF Octet
<1>2. SameAt(u, t \o u, 139) /\ SameAt(u, t \o u, 172)
  BY <1>1, SameBehind
<1>3. t \o u \in TlvSeq
  BY ConcatProperties DEF TlvSeq
<1> QED BY <1>2, <1>3, AuthElsewhere

\* The request of a client: what it measures and what its fields read.
AarqRead(content, pw, pdu) ==
  \E t \in TlvSeq, E \in Octets :
    /\ Splits(content, t) /\ WellFormed(t) /\ AuthRead(t, pw) /\ Has(t, 190) /\ Get(t, 190) = E
    /\ ParseUserInformation[E]
         = [valid |-> TRUE, nextReference |-> DecodeUint32(<<3>>), data |-> pdu]

\* createAssociateRequestMessage writes what AcseConnection_parseMessage reads.
LEMMA AarqIs ==
  ASSUME ParamsFit, NEW pw, NEW n, Measures(pw, n), Half(n), NEW pdu, NEW k, Measures(pdu, k), k < 128
  PROVE  \E content, L : /\ Aarq(pw, pdu) = Wrap(96, content) /\ Measures(content, L) /\ L <= n + k + 150
                         /\ InTwoOctets(L) /\ AarqRead(content, pw, pdu)
<1>1. /\ 96 \in Octet /\ 162 \in Octet /\ 163 \in Octet /\ 166 \in Octet /\ 167 \in Octet /\ 3 \in Octet
      /\ 139 \in Octet /\ 172 \in Octet
  BY DEF Octet
<1>2. PICK n1 \in Nat, k1 \in Nat : n1 = n /\ k1 = k /\ k1 < 128 /\ Half(n1)
  BY DEF Measures
<1>3. PICK auth : auth = [mechanism |-> IF pw = <<>> THEN "absent" ELSE "password", password |-> pw]
  OBVIOUS
<1>4. PICK tA \in TlvSeq, LA \in Nat :
        /\ LA = AuthLength(auth) /\ LA <= n1 + 20 /\ Measures(AuthFields(auth), LA)
        /\ Splits(AuthFields(auth), tA) /\ OnlyTags(tA, {138, 139, 172}) /\ AuthRead(tA, pw)
  BY <1>2, <1>3, AuthIs
<1>5. PICK A1 \in Octets, t1 \in TlvSeq, L1 \in 0 .. 23 :
        /\ A1 = ApTitle(162, Params.remoteApTitle, Params.remoteAEQualifier)
        /\ L1 = ApTitleLength(Params.remoteApTitle, Params.remoteAEQualifier)
        /\ Measures(A1, L1) /\ Splits(A1, t1) /\ OnlyTags(t1, {162, 163})
  <2>1. PICK title, q : /\ title = Params.remoteApTitle /\ q = Params.remoteAEQualifier
                        /\ TitleFits(title) /\ OctetsOf32(q)
    BY DEF ParamsFit
  <2>2. PICK g \in Octet, g1 \in Octet : g = 162 /\ g1 = 163 /\ g1 = g + 1
    BY <1>1
  <2>3. ApTitleRead(ApTitle(g, title, q), ApTitleLength(title, q), {g, g1})
    BY <2>1, <2>2, ApTitleIs
  <2> QED BY <2>1, <2>2, <2>3 DEF ApTitleRead, Measures
<1>6. PICK A2 \in Octets, t2 \in TlvSeq, L2 \in 0 .. 23 :
        /\ A2 = ApTitle(166, Params.localApTitle, Params.localAEQualifier)
        /\ L2 = ApTitleLength(Params.localApTitle, Params.localAEQualifier)
        /\ Measures(A2, L2) /\ Splits(A2, t2) /\ OnlyTags(t2, {166, 167})
  <2>1. PICK title, q : /\ title = Params.localApTitle /\ q = Params.localAEQualifier
                        /\ TitleFits(title) /\ OctetsOf32(q)
    BY DEF ParamsFit
  <2>2. PICK g \in Octet, g1 \in Octet : g = 166 /\ g1 = 167 /\ g1 = g + 1
    BY <1>1
  <2>3. ApTitleRead(ApTitle(g, title, q), ApTitleLength(title, q), {g, g1})
    BY <2>1, <2>2, ApTitleIs
  <2> QED BY <2>1, <2>2, <2>3 DEF ApTitleRead, Measures
<1>7. PICK tC \in TlvSeq : /\ Measures(AppContextName, 9) /\ Splits(AppContextName, tC)
                           /\ OnlyTags(tC, {161})
  BY ContextNameIs
<1>8. PICK ref : ref = <<3>> /\ Measures(ref, 1) /\ 1 = Len(ref)
  <2>1. Measures(<<3>>, 1)
    BY <1>1, MeasuredTuples
  <2> QED BY <2>1 DEF Measures
<1>9. PICK assoc \in Nat, info \in Nat :
        /\ assoc = k1 + 1 + DetermineLengthSize(k1) + 1 + 2
        /\ info = assoc + DetermineLengthSize(assoc) + 1
  BY DEF DetermineLengthSize
<1>10. PICK E, U, I :
         /\ U = Wrap(190, E) /\ I = UserInformation(info, assoc, ref, k1)
         /\ I \in Octets /\ pdu \in Octets /\ U \in Octets /\ I ++ pdu = U
         /\ Measures(U, info + DetermineLengthSize(info) + 1)
         /\ DetermineLengthSize(info) \in 1 .. 3 /\ info \in 0 .. k1 + 16
         /\ \E t \in TlvSeq : /\ Splits(U, t) /\ OnlyTags(t, {190}) /\ Has(t, 190)
                              /\ Get(t, 190) = E /\ t # <<>> /\ WellFormed(t)
         /\ ParseUserInformation[E]
              = [valid |-> TRUE, nextReference |-> DecodeUint32(ref), data |-> pdu]
         /\ E \in Octets
  <2>1. PICK m \in 1 .. 5 : m = 1
    OBVIOUS
  <2>2. Measures(ref, m) /\ Measures(pdu, k1) /\ assoc = k1 + 1 + DetermineLengthSize(k1) + m + 2
    BY <1>2, <1>8, <1>9, <2>1
  <2>3. PICK E, U, I :
           /\ E = Enclosed(ref, pdu) /\ U = Wrap(190, E) /\ I = UserInformation(info, assoc, ref, k1)
           /\ I \in Octets /\ pdu \in Octets /\ U \in Octets /\ I ++ pdu = U
           /\ Measures(U, info + DetermineLengthSize(info) + 1)
           /\ DetermineLengthSize(info) \in 1 .. 3 /\ info \in 0 .. k1 + 16
           /\ \E t \in TlvSeq : /\ Splits(U, t) /\ OnlyTags(t, {190}) /\ Has(t, 190)
                                /\ Get(t, 190) = E /\ t # <<>> /\ WellFormed(t)
           /\ ParseUserInformation[E]
                = [valid |-> TRUE, nextReference |-> DecodeUint32(ref), data |-> pdu]
    BY <1>2, <1>9, <2>2, InformationMeasured
  <2>4. E \in Octets
    <3>1. PICK t \in TlvSeq : Has(t, 190) /\ Get(t, 190) = E
      BY <2>3
    <3>2. 190 \in Octet
      BY DEF Octet
    <3>3. PICK j \in 1 .. Len(t) : Get(t, 190) = t[j].val
      <4>1. Len(t) \in Nat
        BY DEF TlvSeq
      <4> QED BY <3>1, <3>2, <4>1, GetHas
    <3>4. t[j] \in Tlv
      BY <3>3 DEF TlvSeq
    <3> QED BY <3>1, <3>3, <3>4 DEF Tlv
  <2> QED BY <2>3, <2>4
<1>11. PICK tU \in TlvSeq : /\ Splits(U, tU) /\ Has(tU, 190) /\ Get(tU, 190) = E /\ tU # <<>> /\ WellFormed(tU)
                           /\ OnlyTags(tU, {190})
  BY <1>10
<1>12. PICK d \in 1 .. 3 : d = DetermineLengthSize(info)
  BY <1>10
<1>13. PICK LU \in Nat : LU = info + d + 1 /\ Measures(U, LU) /\ LU <= k1 + 20
  BY <1>10, <1>12
<1>14. PICK AU \in Octets : AU = AuthFields(auth)
  BY <1>4 DEF Measures
<1>15. PICK CN \in Octets : CN = AppContextName
  BY <1>7 DEF Measures
<1> DEFINE rest3 == AU ++ U
           rest2 == A2 ++ rest3
           rest1 == A1 ++ rest2
           content == CN ++ rest1
<1>16. PICK L \in Nat : L = 9 + (L1 + (L2 + (LA + LU))) /\ Measures(content, L)
  <2>1. Measures(rest3, LA + LU)
    BY <1>4, <1>13, <1>14, MeasuresJoin
  <2>2. Measures(rest2, L2 + (LA + LU))
    BY <1>6, <2>1, MeasuresJoin
  <2>3. Measures(rest1, L1 + (L2 + (LA + LU)))
    BY <1>5, <2>2, MeasuresJoin
  <2>4. Measures(content, 9 + (L1 + (L2 + (LA + LU))))
    BY <1>7, <1>15, <2>3, MeasuresJoin
  <2> QED BY <2>4
<1>17. L <= n1 + k1 + 150 /\ InTwoOctets(L)
  <2>1. L <= n1 + k1 + 150
    BY <1>4, <1>13, <1>16
  <2>2. L < 256 * 256
    BY <2>1, <1>2 DEF Half
  <2> QED BY <2>1, <2>2 DEF InTwoOctets
<1>18. PICK X : X = EncodeTL(96, L) /\ X \in Octets /\ X ++ content = Wrap(96, content)
  BY <1>1, <1>16, <1>17, LongHeader
<1>19. Aarq(pw, pdu) = Wrap(96, content)
  <2>1. AarqHeader(Params, auth, k1) = X ++ CN ++ A1 ++ A2 ++ AU ++ I
    <3>1. L = 9 + ApTitleLength(Params.remoteApTitle, Params.remoteAEQualifier)
                + ApTitleLength(Params.localApTitle, Params.localAEQualifier)
                + AuthLength(auth) + info + DetermineLengthSize(info) + 1
      <4>1. L = 9 + L1 + L2 + LA + info + d + 1
        BY <1>13, <1>16
      <4> QED BY <4>1, <1>4, <1>5, <1>6, <1>12
    <3>2. AarqHeader(Params, auth, k1) =
            EncodeTL(96, 9 + ApTitleLength(Params.remoteApTitle, Params.remoteAEQualifier)
                + ApTitleLength(Params.localApTitle, Params.localAEQualifier)
                + AuthLength(auth) + info + DetermineLengthSize(info) + 1) \o AppContextName
              \o ApTitle(162, Params.remoteApTitle, Params.remoteAEQualifier)
              \o ApTitle(166, Params.localApTitle, Params.localAEQualifier)
              \o AuthFields(auth) \o UserInformation(info, assoc, <<3>>, k1)
      BY <1>9 DEF AarqHeader
    <3> QED BY <3>1, <3>2, <1>5, <1>6, <1>8, <1>10, <1>14, <1>15, <1>18 DEF ++
  <2>2. Aarq(pw, pdu) = AarqHeader(Params, auth, k1) ++ pdu
    BY <1>2, <1>3 DEF Aarq, ++, Measures
  <2>3. (X ++ CN ++ A1 ++ A2 ++ AU ++ I) ++ pdu = X ++ (CN ++ (A1 ++ (A2 ++ (AU ++ (I ++ pdu)))))
    <3>1. X \in Octets /\ I \in Octets /\ pdu \in Octets
      BY <1>10, <1>18
    <3> QED BY <3>1, FrontOfSix
  <2> QED BY <1>10, <1>18, <2>1, <2>2, <2>3
<1>20. AarqRead(content, pw, pdu)
  <2>1. PICK t3 \in TlvSeq : Informs(rest3, t3, E) /\ AuthRead(t3, pw)
    <3>1. PICK S : S = {138, 139, 172} /\ 190 \notin S /\ OnlyTags(tA, S)
      BY <1>4
    <3>2. Informs(AU ++ U, tA \o tU, E)
      <4>1. Informs(U, tU, E)
        BY <1>11 DEF Informs
      <4> QED BY <1>4, <1>14, <3>1, <4>1, FieldsInFront
    <3>3. PICK S1 : S1 = {190} /\ 139 \notin S1 /\ 172 \notin S1 /\ OnlyTags(tU, S1)
      BY <1>11
    <3>4. SameAt(tA, tA \o tU, 139) /\ SameAt(tA, tA \o tU, 172)
      BY <1>1, <3>3, SameInFront
    <3>5. AuthRead(tA \o tU, pw)
      BY <1>4, <3>2, <3>4, AuthElsewhere DEF Informs
    <3> QED BY <3>2, <3>5 DEF Informs
  <2>2. PICK t4 \in TlvSeq : Informs(rest2, t4, E) /\ AuthRead(t4, pw)
    <3>1. PICK S : S = {166, 167} /\ 190 \notin S /\ 139 \notin S /\ 172 \notin S /\ OnlyTags(t2, S)
      BY <1>6
    <3> HIDE DEF rest3
    <3>2. Informs(A2 ++ rest3, t2 \o t3, E)
      BY <1>6, <2>1, <1>15, <3>1, FieldsInFront
    <3>3. AuthRead(t2 \o t3, pw) /\ t2 \o t3 \in TlvSeq
      BY <2>1, <3>1, <3>2, AuthBehind DEF Informs
    <3> QED BY <3>2, <3>3
  <2>3. PICK t5 \in TlvSeq : Informs(rest1, t5, E) /\ AuthRead(t5, pw)
    <3>1. PICK S : S = {162, 163} /\ 190 \notin S /\ 139 \notin S /\ 172 \notin S /\ OnlyTags(t1, S)
      BY <1>5
    <3> HIDE DEF rest2
    <3>2. Informs(A1 ++ rest2, t1 \o t4, E)
      BY <1>5, <2>2, <1>15, <3>1, FieldsInFront
    <3>3. AuthRead(t1 \o t4, pw) /\ t1 \o t4 \in TlvSeq
      BY <2>2, <3>1, <3>2, AuthBehind DEF Informs
    <3> QED BY <3>2, <3>3
  <2>4. PICK t6 \in TlvSeq : Informs(content, t6, E) /\ AuthRead(t6, pw)
    <3>1. PICK S : S = {161} /\ 190 \notin S /\ 139 \notin S /\ 172 \notin S /\ OnlyTags(tC, S)
      BY <1>7
    <3> HIDE DEF rest1
    <3>2. Informs(CN ++ rest1, tC \o t5, E)
      BY <1>7, <2>3, <1>15, <3>1, FieldsInFront
    <3>3. AuthRead(tC \o t5, pw) /\ tC \o t5 \in TlvSeq
      BY <2>3, <3>1, <3>2, AuthBehind DEF Informs
    <3> QED BY <3>2, <3>3
  <2> HIDE DEF content
  <2> QED BY <1>8, <1>10, <2>4 DEF AarqRead, Informs
<1> QED BY <1>2, <1>16, <1>17, <1>19, <1>20

\* The first tag and length of a PDU, and what remains.
LEMMA HeaderRead ==
  ASSUME NEW g \in Octet, NEW v, Short16(v)
  PROVE  /\ Wrap(g, v) \in Octets /\ Wrap(g, v)[1] = g /\ Wrap(g, v) # <<>>
         /\ LengthOf[Tail(Wrap(g, v))] \in Length
         /\ LengthOf[Tail(Wrap(g, v))].ok /\ LengthOf[Tail(Wrap(g, v))].rest = v
<1>1. PICK w \in Octets : w = Wrap(g, v) /\ w # <<>> /\ w[1] = g
  BY WrapIs
<1>2. v \in Octets /\ <<>> \in Octets
  BY JoinIs DEF Short16
<1>3. DecodeLength(Tail(w)) = [ok |-> TRUE, length |-> Len(v), rest |-> v]
  <2>1. DecodeLength(Tail(w \o <<>>)) = [ok |-> TRUE, length |-> Len(v), rest |-> v \o <<>>]
    BY <1>1, <1>2, WrapIs
  <2>2. w \o <<>> = w /\ v \o <<>> = v
    BY <1>2, JoinEmpty
  <2> QED BY <2>1, <2>2
<1>4. Tail(w) \in Octets
  BY <1>1, TlvParts
<1>5. LengthOf[Tail(w)] = DecodeLength(Tail(w)) /\ DecodeLength(Tail(w)) \in Length
  BY <1>4, LengthIs
<1> QED BY <1>1, <1>3, <1>5

\* AcseConnection_parseMessage reads an AARQ as it was written.
LEMMA AarqParsed ==
  ASSUME NEW content, Short16(content), NEW pw, NEW pdu \in Octets, AarqRead(content, pw, pdu)
  PROVE  LET a == ParseAcse[Wrap(96, content)]
         IN  /\ a.indication = "ACSE_ASSOCIATE" /\ a.userData = pdu
             /\ a.nextReference = DecodeUint32(<<3>>)
             /\ a.mechanism = (IF pw = <<>> THEN "none" ELSE "password") /\ a.password = pw
<1>1. 96 \in Octet /\ 3 \in Octet /\ 190 \in Octet
  BY DEF Octet
<1>2. PICK t \in TlvSeq, E \in Octets :
        /\ Splits(content, t) /\ WellFormed(t) /\ AuthRead(t, pw) /\ Has(t, 190) /\ Get(t, 190) = E
        /\ ParseUserInformation[E]
             = [valid |-> TRUE, nextReference |-> DecodeUint32(<<3>>), data |-> pdu]
  BY DEF AarqRead
<1>3. Tlvs[content] = t
  BY <1>2, ReadsAll
<1>4. PICK info : info = [valid |-> TRUE, nextReference |-> DecodeUint32(<<3>>), data |-> pdu]
  OBVIOUS
<1>5. info \in Information /\ info.valid /\ info.data = pdu /\ info.nextReference = DecodeUint32(<<3>>)
  <2>1. <<3>> \in Octets
    BY <1>1, Tuples
  <2>2. DecodeUint32(<<3>>) \in Octets
    BY <2>1, DecodedReference
  <2> QED BY <1>4, <2>2 DEF Information
<1>6. UserInformationOf(t) = info
  BY <1>2, <1>4 DEF UserInformationOf
<1>7. ParseAarq[t] = AcseAssociated("ACSE_ASSOCIATE", info, MechanismOf(t), AuthValueOf(t))
  BY <1>2, <1>5, <1>6 DEF ParseAarq
<1>8. PICK w \in Octets : w = Wrap(96, content)
  BY <1>1, HeaderRead
<1>9. /\ w[1] = 96 /\ LengthOf[Tail(w)] \in Length
      /\ LengthOf[Tail(w)].ok /\ LengthOf[Tail(w)].rest = content
  BY <1>1, <1>8, HeaderRead
<1>10. ParseAcse[w] = ParseAarq[t]
  <2>1. PICK l \in Length : l = LengthOf[Tail(w)] /\ l.ok /\ l.rest = content
    BY <1>9
  <2> QED BY <2>1, <1>3, <1>9 DEF ParseAcse
<1>11. MechanismOf(t) = (IF pw = <<>> THEN "none" ELSE "password") /\ AuthValueOf(t) = pw
  BY <1>2 DEF AuthRead
<1> QED BY <1>5, <1>7, <1>8, <1>10, <1>11 DEF AcseAssociated

(***************************************************************************)
(* The answer                                                              *)
(***************************************************************************)
ResultField == Wrap(162, Wrap(2, <<0>>))
DiagnosticField == Wrap(163, Wrap(161, Wrap(2, <<0>>)))

\* The result and the diagnostic of an AARE.
LEMMA AnswerFields ==
  \E A, B, C, D, E, F, z, r, s, t :
    /\ A = EncodeTL(162, 3) /\ B = EncodeTL(2, 1) /\ z = <<0>> /\ C = EncodeTL(163, 5) /\ D = EncodeTL(161, 3)
    /\ E = Wrap(2, z) /\ F = Wrap(161, E)
    /\ A \in Octets /\ B \in Octets /\ C \in Octets /\ D \in Octets /\ z \in Octets /\ E \in Octets
    /\ F \in Octets
    /\ B ++ z = E /\ A ++ E = ResultField /\ D ++ E = F /\ C ++ F = DiagnosticField
    /\ Measures(ResultField, 5) /\ Measures(DiagnosticField, 7)
    /\ r \in TlvSeq /\ Splits(ResultField, r) /\ OnlyTags(r, {162})
    /\ s \in TlvSeq /\ Splits(DiagnosticField, s) /\ OnlyTags(s, {163})
<1>1. /\ 162 \in Octet /\ 163 \in Octet /\ 161 \in Octet /\ 2 \in Octet /\ 0 \in Octet
  BY DEF Octet
<1>2. PICK z : z = <<0>> /\ Measures(z, 1)
  BY <1>1, MeasuredTuples
<1>3. PICK B, E : /\ B = EncodeTL(2, 1) /\ E = Wrap(2, z) /\ B ++ z = E /\ B \in Octets /\ z \in Octets
                  /\ Measures(E, 3) /\ E \in Octets
  <2>1. PICK n : n = 1 /\ n < 128 /\ Measures(z, n)
    BY <1>2
  <2>2. /\ EncodeTL(2, n) ++ z = Wrap(2, z) /\ EncodeTL(2, n) \in Octets /\ z \in Octets
        /\ Measures(Wrap(2, z), n + 2) /\ Wrap(2, z) \in Octets
    BY <1>1, <2>1, MeasuredHeader
  <2> QED BY <2>1, <2>2
<1>4. PICK A, R : /\ A = EncodeTL(162, 3) /\ R = Wrap(162, E) /\ A ++ E = R /\ A \in Octets
                  /\ Measures(R, 5)
  <2>1. PICK n : n = 3 /\ n < 128 /\ Measures(E, n)
    BY <1>3
  <2>2. /\ EncodeTL(162, n) ++ E = Wrap(162, E) /\ EncodeTL(162, n) \in Octets
        /\ Measures(Wrap(162, E), n + 2)
    BY <1>1, <2>1, MeasuredHeader
  <2> QED BY <2>1, <2>2
<1>5. PICK D, F : /\ D = EncodeTL(161, 3) /\ F = Wrap(161, E) /\ D ++ E = F /\ D \in Octets
                  /\ Measures(F, 5) /\ F \in Octets
  <2>1. PICK n : n = 3 /\ n < 128 /\ Measures(E, n)
    BY <1>3
  <2>2. /\ EncodeTL(161, n) ++ E = Wrap(161, E) /\ EncodeTL(161, n) \in Octets
        /\ Measures(Wrap(161, E), n + 2) /\ Wrap(161, E) \in Octets
    BY <1>1, <2>1, MeasuredHeader
  <2> QED BY <2>1, <2>2
<1>6. PICK C, G : /\ C = EncodeTL(163, 5) /\ G = Wrap(163, F) /\ C ++ F = G /\ C \in Octets
                  /\ Measures(G, 7)
  <2>1. PICK n : n = 5 /\ n < 128 /\ Measures(F, n)
    BY <1>5
  <2>2. /\ EncodeTL(163, n) ++ F = Wrap(163, F) /\ EncodeTL(163, n) \in Octets
        /\ Measures(Wrap(163, F), n + 2)
    BY <1>1, <2>1, MeasuredHeader
  <2> QED BY <2>1, <2>2
<1>7. PICK r \in TlvSeq : Splits(R, r) /\ OnlyTags(r, {162})
  <2>1. PICK n : n = 3 /\ n < 128 /\ Measures(E, n)
    BY <1>3
  <2>2. \E t \in TlvSeq : Splits(Wrap(162, E), t) /\ OnlyTags(t, {162})
    BY <1>1, <2>1, MeasuredReads
  <2> QED BY <1>4, <2>2
<1>8. PICK s \in TlvSeq : Splits(G, s) /\ OnlyTags(s, {163})
  <2>1. PICK n : n = 5 /\ n < 128 /\ Measures(F, n)
    BY <1>5
  <2>2. \E t \in TlvSeq : Splits(Wrap(163, F), t) /\ OnlyTags(t, {163})
    BY <1>1, <2>1, MeasuredReads
  <2> QED BY <1>6, <2>2
<1>9. R = ResultField /\ G = DiagnosticField
  BY <1>2, <1>3, <1>4, <1>5, <1>6 DEF ResultField, DiagnosticField
<1> QED BY <1>2, <1>3, <1>4, <1>5, <1>6, <1>7, <1>8, <1>9

\* The answer of a server: what it measures and what it reads.
AareRead(content, ref, pdu) ==
  \E t \in TlvSeq, E \in Octets :
    /\ Splits(content, t) /\ WellFormed(t) /\ Has(t, 190) /\ Get(t, 190) = E
    /\ ParseUserInformation[E] = [valid |-> TRUE, nextReference |-> DecodeUint32(ref), data |-> pdu]

\* createAssociateResponseMessage writes what the client reads.
LEMMA AareIs ==
  ASSUME NEW next, OctetsOf32(next), NEW pdu, NEW k, Measures(pdu, k), k < 64
  PROVE  \E content, L : /\ Aare(next, pdu) = Wrap(97, content) /\ Measures(content, L) /\ L < 128
                         /\ L <= k + 41 /\ AareRead(content, EncodeUInt32(next), pdu)
<1>1. 97 \in Octet /\ 190 \in Octet
  BY DEF Octet
<1>2. PICK k1 \in Nat : k1 = k /\ k1 < 64 /\ k1 < 128 /\ k1 = Len(pdu) /\ pdu \in Octets
  BY DEF Measures
<1>3. PICK ref \in Octets, m \in 1 .. 5 : ref = EncodeUInt32(next) /\ m = Len(ref) /\ Measures(ref, m)
  <2>1. EncodeUInt32(next) \in Octets /\ Len(EncodeUInt32(next)) \in 1 .. 5
    BY UInt32Octets DEF OctetsOf32
  <2>2. PICK ref \in Octets, m \in 1 .. 5 : ref = EncodeUInt32(next) /\ m = Len(ref)
    BY <2>1
  <2>3. \A i \in 1 .. 5 : i \in Nat
    OBVIOUS
  <2>4. Measures(ref, m)
    BY <2>2, <2>3 DEF Measures
  <2> QED BY <2>2, <2>4
<1>4. PICK s \in 1 .. 3 : s = DetermineLengthSize(k1)
  BY DEF DetermineLengthSize
<1>5. PICK assoc \in Nat : assoc = k1 + 1 + DetermineLengthSize(k1) + m + 2
  <2>1. k1 + 1 + s + m + 2 \in Nat
    OBVIOUS
  <2> QED BY <1>4, <2>1
<1>6. PICK info \in Nat : info = assoc + DetermineLengthSize(assoc) + 1
  BY DEF DetermineLengthSize
<1>7. PICK E, U, I :
         /\ U = Wrap(190, E) /\ I = UserInformation(info, assoc, ref, k1)
         /\ I \in Octets /\ U \in Octets /\ I ++ pdu = U
         /\ Measures(U, info + DetermineLengthSize(info) + 1)
         /\ DetermineLengthSize(info) \in 1 .. 3 /\ info \in 0 .. k1 + 16
         /\ \E t \in TlvSeq : /\ Splits(U, t) /\ OnlyTags(t, {190}) /\ Has(t, 190)
                              /\ Get(t, 190) = E /\ t # <<>> /\ WellFormed(t)
         /\ ParseUserInformation[E]
              = [valid |-> TRUE, nextReference |-> DecodeUint32(ref), data |-> pdu]
  <2>1. Measures(ref, m) /\ Measures(pdu, k1)
    BY <1>2, <1>3
  <2> QED BY <1>2, <1>5, <1>6, <2>1, InformationMeasured
<1>8. E \in Octets
  <2>1. PICK t \in TlvSeq : Has(t, 190) /\ Get(t, 190) = E
    BY <1>7
  <2>2. PICK j \in 1 .. Len(t) : Get(t, 190) = t[j].val
    <3>1. Len(t) \in Nat
      BY DEF TlvSeq
    <3> QED BY <1>1, <2>1, <3>1, GetHas
  <2>3. t[j] \in Tlv
    BY <2>2 DEF TlvSeq
  <2> QED BY <2>1, <2>2, <2>3 DEF Tlv
<1>9. PICK tU : Informs(U, tU, E)
  BY <1>7 DEF Informs
<1>10. PICK d \in 1 .. 3 : d = DetermineLengthSize(info)
  BY <1>7
<1>11. PICK LU \in Nat : LU = info + d + 1 /\ Measures(U, LU) /\ LU <= k1 + 20
  BY <1>7, <1>10
<1>12. PICK A, B, C, D, Y, F, z, r, s1 :
    /\ A = EncodeTL(162, 3) /\ B = EncodeTL(2, 1) /\ z = <<0>> /\ C = EncodeTL(163, 5) /\ D = EncodeTL(161, 3)
    /\ A \in Octets /\ B \in Octets /\ C \in Octets /\ D \in Octets /\ z \in Octets /\ Y \in Octets
    /\ F \in Octets
    /\ B ++ z = Y /\ A ++ Y = ResultField /\ D ++ Y = F /\ C ++ F = DiagnosticField
    /\ Measures(ResultField, 5) /\ Measures(DiagnosticField, 7)
    /\ r \in TlvSeq /\ Splits(ResultField, r) /\ OnlyTags(r, {162})
    /\ s1 \in TlvSeq /\ Splits(DiagnosticField, s1) /\ OnlyTags(s1, {163})
  BY AnswerFields
<1>13. PICK RF \in Octets, DF \in Octets : RF = ResultField /\ DF = DiagnosticField
  BY <1>12 DEF Measures
<1> Measures(RF, 5) /\ Measures(DF, 7)
  BY <1>12, <1>13
<1>14. PICK CN \in Octets, tC \in TlvSeq : /\ CN = AppContextName /\ Measures(CN, 9) /\ Splits(CN, tC)
                                           /\ OnlyTags(tC, {161})
  BY ContextNameIs DEF Measures
<1> DEFINE rest2 == DF ++ U
           rest1 == RF ++ rest2
           content == CN ++ rest1
<1>15. PICK L \in Nat : L = 9 + (5 + (7 + LU)) /\ Measures(content, L)
  <2>1. Measures(rest2, 7 + LU)
    BY <1>11, MeasuresJoin
  <2>2. Measures(rest1, 5 + (7 + LU))
    BY <2>1, MeasuresJoin
  <2>3. Measures(content, 9 + (5 + (7 + LU)))
    BY <1>14, <2>2, MeasuresJoin
  <2> QED BY <2>3
<1>16. L < 128 /\ L <= k1 + 41
  BY <1>2, <1>11, <1>15
<1>17. PICK X : X = EncodeTL(97, L) /\ X \in Octets /\ X ++ content = Wrap(97, content)
  BY <1>1, <1>15, <1>16, MeasuredHeader
<1>18. Aare(next, pdu) = Wrap(97, content)
  <2>1. AareHeader(0, next, k1) = X ++ CN ++ A ++ B ++ z ++ C ++ D ++ B ++ z ++ I
    <3>1. AareHeader(0, next, k1) =
            EncodeTL(97, 9 + 5 + 5 + info + DetermineLengthSize(info) + 1 + 2) \o AppContextName
              \o EncodeTL(162, 3) \o EncodeTL(2, 1) \o <<0>>
              \o EncodeTL(163, 5) \o EncodeTL(161, 3) \o EncodeTL(2, 1) \o <<0>>
              \o UserInformation(info, assoc, ref, k1)
      BY <1>3, <1>5, <1>6 DEF AareHeader
    <3>2. L = 9 + 5 + 5 + info + DetermineLengthSize(info) + 1 + 2
      BY <1>10, <1>11, <1>15
    <3> QED BY <3>1, <3>2, <1>7, <1>12, <1>14, <1>17 DEF ++
  <2>2. Aare(next, pdu) = AareHeader(0, next, k1) ++ pdu
    BY <1>2 DEF Aare, ++
  <2>3. PICK h1 \in Octets : h1 = X ++ CN
    BY <1>17, Closed
  <2>4. h1 ++ A ++ B ++ z = h1 ++ RF
    <3>1. h1 ++ A ++ B ++ z = h1 ++ (A ++ (B ++ z))
      BY <1>12, Nest4
    <3> QED BY <3>1, <1>12, <1>13
  <2>5. PICK h2 \in Octets : h2 = h1 ++ RF
    BY Closed
  <2>6. h2 ++ C ++ D ++ B ++ z = h2 ++ DF
    <3>1. h2 ++ C ++ D ++ B ++ z = h2 ++ (C ++ (D ++ (B ++ z)))
      BY <1>12, Nest5
    <3> QED BY <3>1, <1>12, <1>13
  <2>7. PICK h3 \in Octets : h3 = h2 ++ DF
    BY Closed
  <2>8. AareHeader(0, next, k1) = h3 ++ I
    BY <2>1, <2>3, <2>4, <2>5, <2>6, <2>7
  <2>9. (h3 ++ I) ++ pdu = h3 ++ U
    <3>1. (h3 ++ I) ++ pdu = h3 ++ (I ++ pdu)
      BY <1>2, <1>7, Associative
    <3> QED BY <3>1, <1>7
  <2>10. h3 ++ U = X ++ (CN ++ (RF ++ (DF ++ U)))
    <3>1. h3 = X ++ CN ++ RF ++ DF
      BY <2>3, <2>5, <2>7
    <3>2. X \in Octets /\ U \in Octets
      BY <1>7, <1>17
    <3> QED BY <3>1, <3>2, Nest5
  <2> QED BY <1>17, <2>2, <2>8, <2>9, <2>10
<1>19. AareRead(content, ref, pdu)
  <2>1. Informs(rest2, s1 \o tU, E)
    <3>1. PICK S : S = {163} /\ 190 \notin S /\ OnlyTags(s1, S)
      BY <1>12
    <3> QED BY <1>9, <1>12, <1>13, <3>1, FieldsInFront
  <2>2. PICK t1 : t1 = s1 \o tU
    OBVIOUS
  <2>3. Informs(rest1, r \o t1, E)
    <3>1. PICK S : S = {162} /\ 190 \notin S /\ OnlyTags(r, S)
      BY <1>12
    <3> HIDE DEF rest2
    <3> QED BY <1>12, <1>13, <2>1, <2>2, <3>1, FieldsInFront
  <2>4. PICK t2 : t2 = r \o t1
    OBVIOUS
  <2>5. Informs(content, tC \o t2, E)
    <3>1. PICK S : S = {161} /\ 190 \notin S /\ OnlyTags(tC, S)
      BY <1>14
    <3> HIDE DEF rest1
    <3> QED BY <1>14, <2>3, <2>4, <3>1, FieldsInFront
  <2> HIDE DEF content
  <2> QED BY <1>7, <1>8, <2>5 DEF AareRead, Informs
<1>20. L <= k + 41
  BY <1>2, <1>11, <1>15
<1> HIDE DEF content
<1> QED BY <1>3, <1>15, <1>16, <1>18, <1>19, <1>20

\* The client takes the user data of the answer.
LEMMA AareParsed ==
  ASSUME NEW content, Short16(content), NEW ref \in Octets, NEW pdu \in Octets, AareRead(content, ref, pdu)
  PROVE  ParseAcse[Wrap(97, content)].userData = pdu
<1>1. 97 \in Octet /\ 190 \in Octet
  BY DEF Octet
<1>2. PICK t \in TlvSeq, E \in Octets :
        /\ Splits(content, t) /\ WellFormed(t) /\ Has(t, 190) /\ Get(t, 190) = E
        /\ ParseUserInformation[E] = [valid |-> TRUE, nextReference |-> DecodeUint32(ref), data |-> pdu]
  BY DEF AareRead
<1>3. Tlvs[content] = t
  BY <1>2, ReadsAll
<1>4. PICK info : info = [valid |-> TRUE, nextReference |-> DecodeUint32(ref), data |-> pdu]
  OBVIOUS
<1>5. info \in Information /\ info.valid /\ info.data = pdu
  <2>1. DecodeUint32(ref) \in Octets
    BY DecodedReference
  <2> QED BY <1>4, <2>1 DEF Information
<1>6. UserInformationOf(t) = info
  BY <1>2, <1>4 DEF UserInformationOf
<1>7. ParseAare[t].userData = pdu
  BY <1>2, <1>5, <1>6 DEF ParseAare, AcseAssociated
<1>8. PICK w \in Octets : w = Wrap(97, content)
  BY <1>1, HeaderRead
<1>9. /\ w[1] = 97 /\ LengthOf[Tail(w)] \in Length
      /\ LengthOf[Tail(w)].ok /\ LengthOf[Tail(w)].rest = content
  BY <1>1, <1>8, HeaderRead
<1>10. ParseAcse[w] = ParseAare[t]
  <2>1. PICK l \in Length : l = LengthOf[Tail(w)] /\ l.ok /\ l.rest = content
    BY <1>9
  <2> QED BY <2>1, <1>3, <1>9 DEF ParseAcse
<1> QED BY <1>7, <1>8, <1>10

-----------------------------------------------------------------------------
(***************************************************************************)
(* Presentation user data                                                  *)
(***************************************************************************)
\* Payloads that leave room for the headers of all layers.
RoomFor(n) == n + 512 < 256 * 256

\* Three octets are two and one.
LEMMA TripleIs ==
  ASSUME NEW a \in Octet, NEW b \in Octet, NEW c \in Octet
  PROVE  <<a, b, c>> = <<a, b>> \o <<c>>
<1>1. PICK x \in Octets : x = <<a, b>> /\ Len(x) = 2 /\ x[1] = a /\ x[2] = b
  <2>1. <<a, b>> \in Octets /\ Len(<<a, b>>) = 2 /\ <<a, b>>[1] = a /\ <<a, b>>[2] = b
    BY Tuples
  <2> QED BY <2>1
<1>2. PICK y \in Octets : y = <<c>> /\ Len(y) = 1 /\ y[1] = c
  BY Tuples
<1>3. /\ x \o y \in Seq(Octet) /\ Len(x \o y) = Len(x) + Len(y)
      /\ \A i \in 1 .. Len(x) + Len(y) : (x \o y)[i] = IF i <= Len(x) THEN x[i] ELSE y[i - Len(x)]
  BY ConcatProperties DEF Octets
<1>4. PICK z \in Octets : z = x \o y
  BY <1>3 DEF Octets
<1>5. Len(z) = 3 /\ z[1] = a /\ z[2] = b /\ z[3] = y[3 - 2]
  BY <1>1, <1>2, <1>3, <1>4
<1>6. z = <<a, b, c>>
  BY <1>2, <1>5, AsTuple
<1> QED BY <1>1, <1>2, <1>4, <1>6

\* An element with one octet, written at once.
LEMMA OctetElement ==
  ASSUME NEW g \in Octet, NEW c \in Octet
  PROVE  /\ <<g, 1, c>> = Wrap(g, <<c>>) /\ Measures(<<g, 1, c>>, 3) /\ Measures(<<c>>, 1)
         /\ <<g, 1, c>> \in Octets /\ Short16(<<c>>)
<1>1. 1 \in Octet
  BY DEF Octet
<1>2. PICK v : v = <<c>> /\ Measures(v, 1)
  BY MeasuredTuples
<1>3. v \in Octets /\ 1 = Len(v)
  BY <1>2 DEF Measures
<1>4. Wrap(g, v) = <<g, 1>> \o v /\ Short16(v)
  <2>1. Len(v) < 128
    BY <1>3
  <2>2. Wrap(g, v) = <<g, Len(v)>> \o v /\ Short16(v)
    BY <1>3, <2>1, ShortWrap
  <2> QED BY <1>3, <2>2
<1>5. <<g, 1, c>> = <<g, 1>> \o <<c>>
  BY <1>1, TripleIs
<1>6. Measures(<<g, 1, c>>, 3)
  BY <1>1, MeasuredTuples
<1> QED BY <1>2, <1>4, <1>5, <1>6 DEF Measures

PdvList(c, pl) == Wrap(48, Wrap(2, <<c>>) ++ Wrap(160, pl))

\* encodeUserData encloses the payload, for any payload that leaves room.
LEMMA UserDataIs ==
  ASSUME NEW c \in Octet, NEW pl, NEW n, Measures(pl, n), RoomFor(n)
  PROVE  /\ UserDataHeader(c, n) \in Octets
         /\ UserDataHeader(c, n) ++ pl = Wrap(97, PdvList(c, pl)) /\ Short16(PdvList(c, pl))
         /\ Measures(Wrap(97, PdvList(c, pl)), UserDataLength[n])
         /\ UserDataLength[n] \in Nat /\ UserDataLength[n] <= n + 16
         /\ Short16(pl) /\ Short16(Wrap(2, <<c>>) ++ Wrap(160, pl))
<1>1. 97 \in Octet /\ 48 \in Octet /\ 2 \in Octet /\ 160 \in Octet
  BY DEF Octet
<1>2. n \in Nat /\ pl \in Octets /\ InTwoOctets(n)
  BY DEF Measures, RoomFor, InTwoOctets
<1>3. PICK k \in Nat : k = n /\ k + 512 < 256 * 256
  BY <1>2 DEF RoomFor
<1>4. PICK s \in 1 .. 3 : s = DetermineLengthSize(n)
  BY DEF DetermineLengthSize
<1>5. PICK A, P : /\ A = EncodeTL(160, n) /\ A \in Octets /\ P = Wrap(160, pl) /\ P \in Octets /\ A ++ pl = P
                  /\ Measures(P, 1 + s + n) /\ Short16(pl)
  BY <1>1, <1>2, <1>4, LongHeader
<1>6. PICK v, w : /\ v = <<c>> /\ w = <<2, 1, c>> /\ w = Wrap(2, v) /\ Measures(w, 3) /\ w \in Octets
  BY <1>1, OctetElement
<1>7. PICK D : D = w ++ P /\ Measures(D, 3 + (1 + s + n)) /\ D \in Octets
  BY <1>5, <1>6, MeasuresJoin
<1>8. PICK l1 \in Nat : l1 = n + s + 4 /\ l1 = 3 + (1 + s + n) /\ l1 <= k + 7
  BY <1>3
<1>9. InTwoOctets(l1)
  BY <1>3, <1>8 DEF InTwoOctets
<1>10. PICK r \in 1 .. 3 : r = DetermineLengthSize(l1)
  BY DEF DetermineLengthSize
<1>11. PICK B, W : /\ B = EncodeTL(48, l1) /\ B \in Octets /\ W = Wrap(48, D) /\ W \in Octets /\ B ++ D = W
                   /\ Measures(W, 1 + r + l1) /\ Short16(D)
  BY <1>1, <1>7, <1>8, <1>9, <1>10, LongHeader
<1>12. PICK l2 \in Nat : l2 = l1 + r + 1 /\ l2 = 1 + r + l1 /\ l2 <= k + 11
  BY <1>8
<1>13. InTwoOctets(l2)
  BY <1>3, <1>12 DEF InTwoOctets
<1>14. PICK q \in 1 .. 3 : q = DetermineLengthSize(l2)
  BY DEF DetermineLengthSize
<1>15. PICK C, V : /\ C = EncodeTL(97, l2) /\ C \in Octets /\ V = Wrap(97, W) /\ V \in Octets /\ C ++ W = V
                   /\ Measures(V, 1 + q + l2) /\ Short16(W)
  BY <1>1, <1>11, <1>12, <1>13, <1>14, LongHeader
<1>16. PICK h : h = UserDataHeader(c, n) /\ h = C ++ B ++ w ++ A
  <2>1. UserDataHeader(c, n) = EncodeTL(97, l1 + DetermineLengthSize(l1) + 1) \o EncodeTL(48, l1)
                                 \o <<2, 1, c>> \o EncodeTL(160, n)
    <3>1. l1 = n + DetermineLengthSize(n) + 4
      BY <1>4, <1>8
    <3> QED BY <3>1 DEF UserDataHeader
  <2>2. l1 + DetermineLengthSize(l1) + 1 = l2
    BY <1>10, <1>12
  <2> QED BY <2>1, <2>2, <1>5, <1>6, <1>11, <1>15 DEF ++
<1>17. h \in Octets
  BY <1>5, <1>6, <1>11, <1>15, <1>16, Nest4
<1>18. h ++ pl = V
  <2>1. C ++ B ++ w ++ A ++ pl = C ++ (B ++ (w ++ (A ++ pl)))
    <3>1. C \in Octets /\ B \in Octets /\ w \in Octets /\ A \in Octets /\ pl \in Octets
      BY <1>2, <1>5, <1>6, <1>11, <1>15
    <3> QED BY <3>1, Nest5
  <2> QED BY <2>1, <1>5, <1>7, <1>11, <1>15, <1>16
<1>19. UserDataLength[n] = 1 + q + l2
  <2>1. UserDataLength[n] = (3 + n + 1 + s + DetermineLengthSize(3 + n + 1 + s) + 1) + 1
                            + DetermineLengthSize(3 + n + 1 + s + DetermineLengthSize(3 + n + 1 + s) + 1)
    BY <1>2, <1>4 DEF UserDataLength
  <2>2. 3 + n + 1 + s = l1
    BY <1>2, <1>8
  <2>3. l1 + r + 1 = l2
    BY <1>12
  <2>4. UserDataLength[n] = l2 + 1 + q
    BY <2>1, <2>2, <2>3, <1>10, <1>14
  <2> QED BY <2>4
<1>20. 1 + q + l2 \in Nat /\ 1 + q + l2 <= n + 16
  BY <1>3, <1>12
<1>21. W = PdvList(c, pl) /\ D = Wrap(2, <<c>>) ++ Wrap(160, pl)
  BY <1>5, <1>6, <1>7, <1>11 DEF PdvList
<1> QED BY <1>5, <1>11, <1>15, <1>16, <1>17, <1>18, <1>19, <1>20, <1>21

\* parseFullyEncodedData finds the payload and the context it is in.
LEMMA UserDataRead ==
  ASSUME NEW c \in Octet, NEW pl, Short16(pl), Short16(Wrap(2, <<c>>) ++ Wrap(160, pl)),
         Short16(PdvList(c, pl))
  PROVE  ParseFullyEncodedData[PdvList(c, pl)] = [ok |-> TRUE, payload |-> pl, nextContextId |-> c]
<1>1. 48 \in Octet /\ 2 \in Octet /\ 160 \in Octet
  BY DEF Octet
<1>2. PICK D : D = Wrap(2, <<c>>) ++ Wrap(160, pl) /\ Short16(D)
  OBVIOUS
<1>3. PICK v : v = <<c>> /\ Short16(v)
  BY OctetElement
<1>4. PICK t \in TlvSeq : /\ Splits(D, t) /\ WellFormed(t) /\ Has(t, 2) /\ Has(t, 160)
                          /\ Get(t, 2) = v /\ Get(t, 160) = pl
  <2>1. \E t \in TlvSeq : /\ Splits(Wrap(2, v) ++ Wrap(160, pl), t) /\ WellFormed(t) /\ Has(t, 2) /\ Has(t, 160)
                          /\ Get(t, 2) = v /\ Get(t, 160) = pl
    BY <1>1, <1>3, TwoElements
  <2> QED BY <1>2, <1>3, <2>1
<1>5. Tlvs[D] = t
  BY <1>4, ReadsAll
<1>6. PICK W \in Octets : W = PdvList(c, pl) /\ W = Wrap(48, D)
  BY <1>2 DEF PdvList, Short16
<1>7. PICK o \in TlvSeq : /\ Tlvs[W] = o /\ o # <<>> /\ WellFormed(o) /\ o[1].tag = 48 /\ o[1].val = D
  BY <1>1, <1>2, <1>6, OneRead
<1>8. Unsigned(v) = c
  BY <1>3, UnsignedOf
<1>9. ParseFullyEncodedData[W] = [ok |-> TRUE, payload |-> pl, nextContextId |-> c]
  BY <1>4, <1>5, <1>6, <1>7, <1>8 DEF ParseFullyEncodedData
<1> QED BY <1>6, <1>9

\* The mode selector of a connect PDU.
LEMMA ModeSelectorIs ==
  /\ Measures(ModeSelector, 5)
  /\ \E t \in TlvSeq : Splits(ModeSelector, t) /\ OnlyTags(t, {160})
<1>1. 160 \in Octet /\ 128 \in Octet /\ 1 \in Octet
  BY DEF Octet
<1>2. PICK z : z = <<1>> /\ Measures(z, 1)
  BY <1>1, MeasuredTuples
<1>3. PICK B, E : /\ B = EncodeTL(128, 1) /\ E = Wrap(128, z) /\ B ++ z = E /\ B \in Octets /\ z \in Octets
                  /\ Measures(E, 3) /\ E \in Octets
  <2>1. PICK n : n = 1 /\ n < 128 /\ Measures(z, n)
    BY <1>2
  <2>2. /\ EncodeTL(128, n) ++ z = Wrap(128, z) /\ EncodeTL(128, n) \in Octets /\ z \in Octets
        /\ Measures(Wrap(128, z), n + 2) /\ Wrap(128, z) \in Octets
    BY <1>1, <2>1, MeasuredHeader
  <2> QED BY <2>1, <2>2
<1>4. PICK A, R : /\ A = EncodeTL(160, 3) /\ R = Wrap(160, E) /\ A ++ E = R /\ A \in Octets
                  /\ Measures(R, 5) /\ \E t \in TlvSeq : Splits(R, t) /\ OnlyTags(t, {160})
  <2>1. PICK n : n = 3 /\ n < 128 /\ Measures(E, n)
    BY <1>3
  <2>2. /\ EncodeTL(160, n) ++ E = Wrap(160, E) /\ EncodeTL(160, n) \in Octets
        /\ Measures(Wrap(160, E), n + 2)
    BY <1>1, <2>1, MeasuredHeader
  <2>3. \E t \in TlvSeq : Splits(Wrap(160, E), t) /\ OnlyTags(t, {160})
    BY <1>1, <2>1, MeasuredReads
  <2> QED BY <2>1, <2>2, <2>3
<1>5. ModeSelector = R
  <2>1. ModeSelector = A ++ B ++ z
    BY <1>2, <1>3, <1>4 DEF ModeSelector, ++
  <2>2. A ++ B ++ z = A ++ (B ++ z)
    BY <1>3, <1>4, Nest3
  <2> QED BY <2>1, <2>2, <1>3, <1>4
<1> QED BY <1>4, <1>5

\* An entry of the context definition list and what parsePCDLEntry finds.
EntryRead(item, id, oid) ==
  \E t \in TlvSeq : Tlvs[item] = t /\ Get(t, 6) = oid /\ Get(t, 2) = <<id>>

\* The id and the abstract syntax of an entry.
LEMMA ContextItemIs ==
  ASSUME NEW id \in Octet, NEW oid, NEW k \in 1 .. 10, Measures(oid, k)
  PROVE  \E item : /\ ContextItem(id, oid) = Wrap(48, item) /\ Measures(item, 11 + k)
                   /\ Measures(Wrap(48, item), 13 + k) /\ EntryRead(item, id, oid)
<1>1. 48 \in Octet /\ 2 \in Octet /\ 6 \in Octet /\ 81 \in Octet /\ 1 \in Octet
  BY DEF Octet
<1>2. PICK v, O : v = <<id>> /\ O = <<2, 1, id>> /\ O = Wrap(2, v) /\ Measures(O, 3) /\ Measures(v, 1)
                  /\ O \in Octets
  BY <1>1, OctetElement
<1>3. PICK b : b = ber_id /\ Measures(b, 2)
  BY <1>1, MeasuredTuples DEF ber_id
<1>4. k \in Nat /\ k < 128
  OBVIOUS
<1>5. PICK A, P : A = EncodeTL(6, k) /\ P = Wrap(6, oid) /\ A ++ oid = P /\ A \in Octets /\ oid \in Octets
                  /\ Measures(P, k + 2) /\ P \in Octets
  BY <1>1, <1>4, MeasuredHeader
<1>6. PICK B, E : /\ B = EncodeTL(6, 2) /\ E = Wrap(6, b) /\ B ++ b = E /\ B \in Octets /\ b \in Octets
                  /\ Measures(E, 4) /\ E \in Octets
  <2>1. PICK n : n = 2 /\ n < 128 /\ Measures(b, n)
    BY <1>3
  <2>2. /\ EncodeTL(6, n) ++ b = Wrap(6, b) /\ EncodeTL(6, n) \in Octets /\ b \in Octets
        /\ Measures(Wrap(6, b), n + 2) /\ Wrap(6, b) \in Octets
    BY <1>1, <2>1, MeasuredHeader
  <2> QED BY <2>1, <2>2
<1>7. PICK C, Q : /\ C = EncodeTL(48, 4) /\ Q = Wrap(48, E) /\ C ++ E = Q /\ C \in Octets
                  /\ Measures(Q, 6) /\ Q \in Octets
  <2>1. PICK n : n = 4 /\ n < 128 /\ Measures(E, n)
    BY <1>6
  <2>2. /\ EncodeTL(48, n) ++ E = Wrap(48, E) /\ EncodeTL(48, n) \in Octets
        /\ Measures(Wrap(48, E), n + 2) /\ Wrap(48, E) \in Octets
    BY <1>1, <2>1, MeasuredHeader
  <2> QED BY <2>1, <2>2
<1>8. PICK R : R = P ++ Q /\ R \in Octets /\ Measures(R, (k + 2) + 6)
  BY <1>5, <1>7, MeasuresJoin
<1>9. PICK item : item = O ++ R /\ item \in Octets /\ Measures(item, 11 + k)
  <2>1. Measures(O ++ R, 3 + ((k + 2) + 6)) /\ O ++ R \in Octets
    BY <1>2, <1>8, MeasuresJoin
  <2>2. 3 + ((k + 2) + 6) = 11 + k
    BY <1>4
  <2> QED BY <2>1, <2>2
<1>10. PICK D, W : /\ D = EncodeTL(48, 11 + k) /\ W = Wrap(48, item) /\ D ++ item = W /\ D \in Octets
                   /\ Measures(W, 13 + k)
  <2>1. PICK n : n = 11 + k /\ n < 128 /\ Measures(item, n) /\ n + 2 = 13 + k
    BY <1>4, <1>9
  <2>2. /\ EncodeTL(48, n) ++ item = Wrap(48, item) /\ EncodeTL(48, n) \in Octets
        /\ Measures(Wrap(48, item), n + 2)
    BY <1>1, <2>1, MeasuredHeader
  <2> QED BY <2>1, <2>2
<1>11. ContextItem(id, oid) = W
  <2>1. ContextItem(id, oid) = D ++ O ++ A ++ oid ++ C ++ B ++ b
    <3>1. Len(oid) = k
      BY DEF Measures
    <3> QED BY <3>1, <1>2, <1>3, <1>5, <1>6, <1>7, <1>10 DEF ContextItem, ++
  <2>2. PICK h \in Octets : h = D ++ O
    BY <1>2, <1>10, Closed
  <2>3. h ++ A ++ oid = h ++ P
    <3>1. h ++ A ++ oid = h ++ (A ++ oid)
      BY <1>5, Nest3
    <3> QED BY <3>1, <1>5
  <2>4. PICK g \in Octets : g = h ++ P
    BY <1>5, Closed
  <2>5. g ++ C ++ B ++ b = g ++ Q
    <3>1. g ++ C ++ B ++ b = g ++ (C ++ (B ++ b))
      BY <1>6, <1>7, Nest4
    <3> QED BY <3>1, <1>6, <1>7
  <2>6. D ++ O ++ P ++ Q = D ++ (O ++ (P ++ Q))
    BY <1>2, <1>5, <1>7, <1>10, Nest4
  <2> QED BY <2>1, <2>2, <2>3, <2>4, <2>5, <2>6, <1>8, <1>9, <1>10
<1>12. PICK o \in TlvSeq : Splits(O, o) /\ OnlyTags(o, {2}) /\ Has(o, 2) /\ Get(o, 2) = v
  <2>1. PICK n : n = 1 /\ n < 128 /\ Measures(v, n)
    BY <1>2
  <2>2. \E o \in TlvSeq : Splits(Wrap(2, v), o) /\ OnlyTags(o, {2}) /\ Has(o, 2) /\ Get(o, 2) = v
    BY <1>1, <2>1, MeasuredReads
  <2> QED BY <2>2, <1>2
<1>13. PICK p \in TlvSeq : Splits(P, p) /\ OnlyTags(p, {6}) /\ Has(p, 6) /\ Get(p, 6) = oid
  <2>1. \E p \in TlvSeq : Splits(Wrap(6, oid), p) /\ OnlyTags(p, {6}) /\ Has(p, 6) /\ Get(p, 6) = oid
    BY <1>1, <1>4, MeasuredReads
  <2> QED BY <2>1, <1>5
<1>14. PICK q \in TlvSeq : Splits(Q, q) /\ OnlyTags(q, {48})
  <2>1. PICK n : n = 4 /\ n < 128 /\ Measures(E, n)
    BY <1>6
  <2>2. \E q \in TlvSeq : Splits(Wrap(48, E), q) /\ OnlyTags(q, {48})
    BY <1>1, <2>1, MeasuredReads
  <2> QED BY <2>2, <1>7
<1>15. PICK pq \in TlvSeq : pq = p \o q /\ Splits(R, pq) /\ SameAt(p, pq, 6) /\ OnlyTags(pq, {6} \cup {48})
  <2>1. Splits(P ++ Q, p \o q)
    BY <1>13, <1>14, ReadsBoth
  <2>2. PICK S, T : S = {6} /\ T = {48} /\ OnlyTags(p, S) /\ OnlyTags(q, T) /\ 6 \notin T
    BY <1>13, <1>14
  <2>3. OnlyTags(p \o q, S \cup T) /\ p \o q \in TlvSeq
    BY <2>2, OnlyTagsJoin
  <2>4. SameAt(p, p \o q, 6)
    BY <1>1, <2>2, SameInFront
  <2> QED BY <1>8, <2>1, <2>2, <2>3, <2>4
<1>16. PICK t \in TlvSeq : t = o \o pq /\ Splits(item, t) /\ SameAt(pq, t, 6) /\ SameAt(o, t, 2)
  <2>1. Splits(O ++ R, o \o pq)
    BY <1>12, <1>15, ReadsBoth
  <2>2. PICK S, T : S = {2} /\ T = {6} \cup {48} /\ OnlyTags(o, S) /\ OnlyTags(pq, T) /\ 6 \notin S /\ 2 \notin T
    <3>1. 6 \notin {2} /\ 2 \notin {6} \cup {48}
      OBVIOUS
    <3>2. OnlyTags(o, {2}) /\ OnlyTags(pq, {6} \cup {48})
      BY <1>12, <1>15
    <3> QED BY <3>1, <3>2
  <2>3. SameAt(o, o \o pq, 2)
    BY <1>1, <2>2, SameInFront
  <2>4. SameAt(pq, o \o pq, 6)
    BY <1>1, <2>2, SameBehind
  <2>5. o \o pq \in TlvSeq
    BY <2>2, OnlyTagsJoin
  <2> QED BY <1>9, <2>1, <2>3, <2>4, <2>5
<1>17. Get(t, 6) = oid /\ Get(t, 2) = v
  BY <1>12, <1>13, <1>15, <1>16 DEF SameAt
<1>18. Tlvs[item] = t
  BY <1>16, ReadsAll
<1>19. EntryRead(item, id, oid)
  BY <1>2, <1>17, <1>18 DEF EntryRead
<1> QED BY <1>9, <1>10, <1>11, <1>19

\* Two elements are read as two.
LEMMA TwoReads ==
  ASSUME NEW g \in Octet, NEW v, Short16(v), NEW h \in Octet, NEW w, Short16(w)
  PROVE  \E t \in TlvSeq :
           /\ Splits(Wrap(g, v) ++ Wrap(h, w), t) /\ t # <<>> /\ WellFormed(t)
           /\ Len(t) = 2 /\ t[1].val = v /\ t[2].val = w
<1>1. v \in Octets /\ w \in Octets
  BY DEF Short16
<1>2. PICK a \in TlvSeq : /\ a = <<Element(g, v)>> /\ Splits(Wrap(g, v), a) /\ Len(a) = 1
                          /\ a[1].val = v
  <2>1. Splits(Wrap(g, v), <<Element(g, v)>>)
    BY WrapReads
  <2>2. /\ <<Element(g, v)>> \in TlvSeq
        /\ Len(<<Element(g, v)>>) = 1 /\ <<Element(g, v)>>[1] = Element(g, v) /\ Element(g, v).val = v
    BY <1>1, OneElement
  <2> QED BY <2>1, <2>2
<1>3. PICK b \in TlvSeq : /\ b = <<Element(h, w)>> /\ Splits(Wrap(h, w), b) /\ Len(b) = 1
                          /\ b[1].val = w
  <2>1. Splits(Wrap(h, w), <<Element(h, w)>>)
    BY WrapReads
  <2>2. /\ <<Element(h, w)>> \in TlvSeq
        /\ Len(<<Element(h, w)>>) = 1 /\ <<Element(h, w)>>[1] = Element(h, w) /\ Element(h, w).val = w
    BY <1>1, OneElement
  <2> QED BY <2>1, <2>2
<1>4. PICK t \in TlvSeq : t = a \o b /\ t # <<>> /\ WellFormed(t)
  BY <1>1, <1>3, WellFormedEnd
<1>5. Splits(Wrap(g, v) ++ Wrap(h, w), t)
  BY <1>2, <1>3, <1>4, ReadsBoth
<1>6. Len(t) = 2 /\ t[1] = a[1] /\ t[2] = b[1]
  BY <1>2, <1>3, <1>4, ConcatProperties DEF TlvSeq
<1> QED BY <1>2, <1>3, <1>4, <1>5, <1>6

\* The id of a context is that of the last entry with its abstract syntax.
LEMMA ContextIs ==
  ASSUME NEW list \in TlvSeq, Len(list) = 2, NEW oid, NEW k \in 1 .. 2, NEW id \in Octet,
         Get(Tlvs[list[k].val], 6) = oid, \A i \in 1 .. 2 : i > k => Get(Tlvs[list[i].val], 6) # oid,
         Get(Tlvs[list[k].val], 2) = <<id>>
  PROVE  ContextIdOf(list, oid) = id
<1> DEFINE Entry(i) == Get(Tlvs[list[i].val], 6) = oid
           I == {i \in 1 .. 2 : Entry(i)}
<1>1. I \in SUBSET (1 .. 2) /\ I # {} /\ k \in I
  OBVIOUS
<1>2. \A i \in I : i <= k
  OBVIOUS
<1>3. SelectLastInSeq(list, LAMBDA entry : Get(Tlvs[entry.val], 6) = oid) = IF I # {} THEN Max(I) ELSE 0
  BY DEF SelectLastInSeq
<1> HIDE DEF I
<1>4. Max(I) \in I /\ \A y \in I : y <= Max(I)
  <2>1. 2 \in Nat
    OBVIOUS
  <2> QED BY <1>1, <2>1, Greatest
<1>5. Max(I) = k
  <2>1. PICK m \in 1 .. 2 : m = Max(I)
    BY <1>1, <1>4
  <2> QED BY <1>1, <1>2, <1>4, <2>1
<1>6. SelectLastInSeq(list, LAMBDA entry : Get(Tlvs[entry.val], 6) = oid) = k
  BY <1>1, <1>3, <1>5
<1>7. Unsigned(Get(Tlvs[list[k].val], 2)) = id
  BY UnsignedOf
<1>8. k \in Nat /\ k # 0
  OBVIOUS
<1>9. PICK j \in Nat : j = SelectLastInSeq(list, LAMBDA entry : Get(Tlvs[entry.val], 6) = oid) /\ j = k
  BY <1>6, <1>8
<1> QED BY <1>7, <1>8, <1>9 DEF ContextIdOf

\* The two contexts that a client proposes, as the server reads them.
ContextListRead(body) ==
  \E list \in TlvSeq : /\ Tlvs[body] = list
                       /\ ContextIdOf(list, asn_id_as_acse) = 1 /\ ContextIdOf(list, asn_id_mms) = 3

\* The list of the two contexts is 35 octets long, and read as it was written.
LEMMA ContextListIs ==
  \E body, A, X, Y : /\ A = EncodeTL(164, 35) /\ X = ContextItem(1, asn_id_as_acse)
                     /\ Y = ContextItem(3, asn_id_mms)
                     /\ A \in Octets /\ X \in Octets /\ Y \in Octets
                     /\ body = X ++ Y /\ A ++ body = Wrap(164, body) /\ Measures(body, 35)
                     /\ Measures(Wrap(164, body), 37) /\ ContextListRead(body)
<1>1. /\ 164 \in Octet /\ 48 \in Octet /\ 1 \in Octet /\ 3 \in Octet /\ 82 \in Octet /\ 0 \in Octet
      /\ 40 \in Octet /\ 202 \in Octet /\ 34 \in Octet /\ 2 \in Octet
  BY DEF Octet
<1>2. PICK a : a = asn_id_as_acse /\ Measures(a, 4)
  BY <1>1, MeasuredTuples DEF asn_id_as_acse
<1>3. PICK m : m = asn_id_mms /\ Measures(m, 5)
  BY <1>1, MeasuredTuples DEF asn_id_mms
<1>4. PICK i1, X : /\ X = ContextItem(1, a) /\ X = Wrap(48, i1) /\ Measures(i1, 15) /\ Measures(X, 17)
                   /\ EntryRead(i1, 1, a)
  <2>1. PICK k \in 1 .. 10 : k = 4
    OBVIOUS
  <2>2. PICK i1 : /\ ContextItem(1, a) = Wrap(48, i1) /\ Measures(i1, 11 + k)
                  /\ Measures(Wrap(48, i1), 13 + k) /\ EntryRead(i1, 1, a)
    BY <1>1, <1>2, <2>1, ContextItemIs
  <2> QED BY <2>1, <2>2
<1>5. PICK i3, Y : /\ Y = ContextItem(3, m) /\ Y = Wrap(48, i3) /\ Measures(i3, 16) /\ Measures(Y, 18)
                   /\ EntryRead(i3, 3, m)
  <2>1. PICK k \in 1 .. 10 : k = 5
    OBVIOUS
  <2>2. PICK i3 : /\ ContextItem(3, m) = Wrap(48, i3) /\ Measures(i3, 11 + k)
                  /\ Measures(Wrap(48, i3), 13 + k) /\ EntryRead(i3, 3, m)
    BY <1>1, <1>3, <2>1, ContextItemIs
  <2> QED BY <2>1, <2>2
<1>6. PICK body : body = X ++ Y /\ Measures(body, 35) /\ X \in Octets /\ Y \in Octets
  <2>1. Measures(X ++ Y, 17 + 18) /\ X \in Octets /\ Y \in Octets
    <3>1. PICK p, q : p = 17 /\ q = 18 /\ Measures(X, p) /\ Measures(Y, q)
      BY <1>4, <1>5
    <3>2. Measures(X ++ Y, p + q) /\ X \in Octets /\ Y \in Octets
      BY <3>1, MeasuresJoin
    <3> QED BY <3>1, <3>2
  <2> QED BY <2>1
<1>7. PICK A : /\ A = EncodeTL(164, 35) /\ A \in Octets /\ A ++ body = Wrap(164, body)
               /\ Measures(Wrap(164, body), 37)
  <2>1. PICK n : n = 35 /\ n < 128 /\ Measures(body, n)
    BY <1>6
  <2>2. /\ EncodeTL(164, n) ++ body = Wrap(164, body) /\ EncodeTL(164, n) \in Octets
        /\ Measures(Wrap(164, body), n + 2)
    BY <1>1, <2>1, MeasuredHeader
  <2> QED BY <2>1, <2>2
<1>8. Short16(i1) /\ Short16(i3)
  <2>1. PICK p, q : p = 15 /\ q = 16 /\ p < 128 /\ q < 128 /\ Measures(i1, p) /\ Measures(i3, q)
    BY <1>4, <1>5
  <2> QED BY <1>1, <2>1, MeasuredHeader
<1>9. PICK list \in TlvSeq : /\ Splits(body, list) /\ Len(list) = 2 /\ list[1].val = i1 /\ list[2].val = i3
  <2>1. \E t \in TlvSeq :
           /\ Splits(Wrap(48, i1) ++ Wrap(48, i3), t) /\ t # <<>> /\ WellFormed(t)
           /\ Len(t) = 2 /\ t[1].val = i1 /\ t[2].val = i3
    BY <1>1, <1>8, TwoReads
  <2> QED BY <2>1, <1>4, <1>5, <1>6
<1>10. Tlvs[body] = list
  BY <1>9, ReadsAll
<1>11. a # m
  BY <1>2, <1>3 DEF Measures
<1>12. /\ Get(Tlvs[list[1].val], 6) = a /\ Get(Tlvs[list[1].val], 2) = <<1>>
       /\ Get(Tlvs[list[2].val], 6) = m /\ Get(Tlvs[list[2].val], 2) = <<3>>
  BY <1>4, <1>5, <1>9 DEF EntryRead
<1>13. ContextIdOf(list, a) = 1
  <2>1. PICK k \in 1 .. 2 : k = 1
    OBVIOUS
  <2>2. \A i \in 1 .. 2 : i > k => Get(Tlvs[list[i].val], 6) # a
    <3>1. \A i \in 1 .. 2 : i > k => i = 2
      BY <2>1
    <3> QED BY <3>1, <1>11, <1>12
  <2> QED BY <1>1, <1>9, <1>12, <2>1, <2>2, ContextIs
<1>14. ContextIdOf(list, m) = 3
  <2>1. PICK k \in 1 .. 2 : k = 2
    OBVIOUS
  <2>2. \A i \in 1 .. 2 : i > k => Get(Tlvs[list[i].val], 6) # m
    BY <2>1
  <2> QED BY <1>1, <1>9, <1>12, <2>1, <2>2, ContextIs
<1>15. ContextListRead(body)
  BY <1>2, <1>3, <1>10, <1>13, <1>14 DEF ContextListRead
<1> QED BY <1>2, <1>3, <1>4, <1>5, <1>6, <1>7, <1>15

\* IsoPresentation_parseConnect and _parseAcceptMessage find the payload, and
\* the contexts when they are proposed.
LEMMA NormalModeRead ==
  ASSUME NEW normal, Short16(normal), NEW content, Short16(content),
         content = ModeSelector ++ Wrap(162, normal),
         NEW t \in TlvSeq, Splits(normal, t), WellFormed(t), Has(t, 97),
         NEW c \in Octet, NEW pl \in Octets, Get(t, 97) = PdvList(c, pl), PdvList(c, pl) \in Octets,
         ParseFullyEncodedData[PdvList(c, pl)] = [ok |-> TRUE, payload |-> pl, nextContextId |-> c]
  PROVE  LET p == ParseNormalMode[Wrap(49, content)]
         IN  /\ p.ok /\ p.payload = pl /\ p.nextContextId = c
             /\ \A body : Has(t, 164) /\ Get(t, 164) = body /\ ContextListRead(body)
                            => p.acseContextId = 1 /\ p.mmsContextId = 3
<1>1. 49 \in Octet /\ 162 \in Octet /\ 160 \in Octet
  BY DEF Octet
<1>2. Tlvs[normal] = t
  BY ReadsAll
<1>3. PICK m \in TlvSeq : Splits(ModeSelector, m) /\ OnlyTags(m, {160})
  BY ModeSelectorIs
<1>4. PICK o \in TlvSeq : /\ Splits(Wrap(162, normal), o) /\ Has(o, 162) /\ Get(o, 162) = normal
                          /\ o # <<>> /\ WellFormed(o)
  <2>1. PICK g \in Octet : g = 162
    BY <1>1
  <2>2. \E o \in TlvSeq : /\ Splits(Wrap(g, normal), o) /\ OnlyTags(o, {g}) /\ Has(o, g)
                          /\ Get(o, g) = normal /\ o # <<>> /\ WellFormed(o)
    BY LongReads
  <2> QED BY <2>1, <2>2
<1>5. PICK u \in TlvSeq : Tlvs[content] = u /\ WellFormed(u) /\ Has(u, 162) /\ Get(u, 162) = normal
  <2>1. Splits(content, m \o o)
    BY <1>3, <1>4, ReadsBoth
  <2>2. m \o o \in TlvSeq /\ WellFormed(m \o o)
    BY <1>4, WellFormedJoin
  <2>3. PICK S : S = {160} /\ 162 \notin S /\ OnlyTags(m, S)
    BY <1>3
  <2>4. SameAt(o, m \o o, 162)
    BY <1>1, <2>3, SameBehind
  <2>5. Tlvs[content] = m \o o
    BY <2>1, ReadsAll
  <2> QED BY <1>4, <2>2, <2>4, <2>5 DEF SameAt
<1>6. PICK data \in FullyEncodedData : /\ data = ParseFullyEncodedData[Get(t, 97)] /\ data.ok
                                       /\ data.payload = pl /\ data.nextContextId = c
  <2>1. PICK d : d = [ok |-> TRUE, payload |-> pl, nextContextId |-> c]
    OBVIOUS
  <2>2. c \in Int
    BY DEF Octet
  <2>3. d \in FullyEncodedData /\ d.ok /\ d.payload = pl /\ d.nextContextId = c
    BY <2>1, <2>2 DEF FullyEncodedData
  <2> QED BY <2>1, <2>3
<1>7. PICK contexts : contexts = IF Has(t, 164) THEN Tlvs[Get(t, 164)] ELSE <<>>
  OBVIOUS
<1>8. PICK p : /\ p = ParseNormalModeParameters[t]
               /\ p = [ok |-> TRUE, payload |-> pl, nextContextId |-> c,
                       acseContextId |-> ContextIdOf(contexts, asn_id_as_acse),
                       mmsContextId |-> ContextIdOf(contexts, asn_id_mms)]
  BY <1>6, <1>7 DEF ParseNormalModeParameters
<1>9. PICK w \in Octets : w = Wrap(49, content)
  BY <1>1, HeaderRead
<1>10. /\ w[1] = 49 /\ LengthOf[Tail(w)] \in Length
       /\ LengthOf[Tail(w)].ok /\ LengthOf[Tail(w)].rest = content
  BY <1>1, <1>9, HeaderRead
<1>11. PICK l \in Length : l = LengthOf[Tail(w)] /\ l.ok /\ l.rest = content
  BY <1>10
<1>12. ParseNormalMode[w] = p
  BY <1>2, <1>5, <1>8, <1>10, <1>11 DEF ParseNormalMode
<1>13. ASSUME NEW body, Has(t, 164), Get(t, 164) = body, ContextListRead(body)
       PROVE  p.acseContextId = 1 /\ p.mmsContextId = 3
  BY <1>7, <1>8, <1>13 DEF ContextListRead
<1> QED BY <1>8, <1>9, <1>12, <1>13

\* A selector of four octets.
LEMMA SelectorIs ==
  ASSUME NEW g \in Octet, NEW s, OctetsOf32(s)
  PROVE  \E A, W : /\ A = EncodeTL(g, 4) /\ A \in Octets /\ s \in Octets /\ W = Wrap(g, s) /\ W \in Octets
                   /\ A ++ s = W /\ Measures(W, 6)
                   /\ \E t \in TlvSeq : Splits(W, t) /\ OnlyTags(t, {g})
<1>1. PICK n : n = 4 /\ Measures(s, n) /\ n < 128
  BY DEF OctetsOf32, Measures
<1>2. /\ EncodeTL(g, n) \in Octets /\ EncodeTL(g, n) ++ s = Wrap(g, s) /\ Measures(Wrap(g, s), n + 2)
      /\ s \in Octets /\ Wrap(g, s) \in Octets
  BY <1>1, MeasuredHeader
<1>3. \E t \in TlvSeq : Splits(Wrap(g, s), t) /\ OnlyTags(t, {g})
  BY <1>1, MeasuredReads
<1> QED BY <1>1, <1>2, <1>3

\* What a presentation connect PDU reads.
ConnectRead(ppdu, apdu) ==
  LET p == ParseNormalMode[ppdu]
  IN p.ok /\ p.payload = apdu /\ p.acseContextId = 1 /\ p.mmsContextId = 3

\* Fields in front of elements that do not have their tags.
LEMMA HideBehind ==
  ASSUME NEW a, NEW t \in TlvSeq, NEW tags, Splits(a, t), OnlyTags(t, tags),
         NEW b, NEW u \in TlvSeq, Splits(b, u), u # <<>>, WellFormed(u)
  PROVE  /\ Splits(a ++ b, t \o u) /\ t \o u \in TlvSeq /\ t \o u # <<>> /\ WellFormed(t \o u)
         /\ \A tag \in Octet : tag \notin tags => SameAt(u, t \o u, tag)
<1>1. Splits(a ++ b, t \o u)
  BY ReadsBoth
<1>2. t \o u \in TlvSeq /\ t \o u # <<>> /\ WellFormed(t \o u)
  BY WellFormedJoin
<1>3. \A tag \in Octet : tag \notin tags => SameAt(u, t \o u, tag)
  BY SameBehind
<1> QED BY <1>1, <1>2, <1>3

\* The elements of the user data, in front of nothing else.
LEMMA UserDataMeasured ==
  ASSUME NEW c \in Octet, NEW pl, NEW n, Measures(pl, n), RoomFor(n)
  PROVE  \E H, V, P : /\ H = UserDataHeader(c, n) /\ H \in Octets /\ pl \in Octets /\ P = PdvList(c, pl)
                      /\ V = Wrap(97, P) /\ V \in Octets /\ H ++ pl = V /\ Measures(V, UserDataLength[n])
                      /\ UserDataLength[n] \in Nat /\ UserDataLength[n] <= n + 16
                      /\ Short16(P) /\ P \in Octets
                      /\ ParseFullyEncodedData[P] = [ok |-> TRUE, payload |-> pl, nextContextId |-> c]
                      /\ \E t \in TlvSeq : /\ Splits(V, t) /\ OnlyTags(t, {97}) /\ Has(t, 97)
                                           /\ Get(t, 97) = P /\ t # <<>> /\ WellFormed(t)
<1>1. /\ UserDataHeader(c, n) \in Octets
      /\ UserDataHeader(c, n) ++ pl = Wrap(97, PdvList(c, pl)) /\ Short16(PdvList(c, pl))
      /\ Measures(Wrap(97, PdvList(c, pl)), UserDataLength[n])
      /\ UserDataLength[n] \in Nat /\ UserDataLength[n] <= n + 16
      /\ Short16(pl) /\ Short16(Wrap(2, <<c>>) ++ Wrap(160, pl))
  BY UserDataIs
<1>2. ParseFullyEncodedData[PdvList(c, pl)] = [ok |-> TRUE, payload |-> pl, nextContextId |-> c]
  BY <1>1, UserDataRead
<1>3. PICK g \in Octet : g = 97
  BY DEF Octet
<1>4. \E t \in TlvSeq : /\ Splits(Wrap(97, PdvList(c, pl)), t) /\ OnlyTags(t, {97}) /\ Has(t, 97)
                        /\ Get(t, 97) = PdvList(c, pl) /\ t # <<>> /\ WellFormed(t)
  <2>1. PICK P : P = PdvList(c, pl) /\ Short16(P)
    BY <1>1
  <2>2. \E t \in TlvSeq : /\ Splits(Wrap(g, P), t) /\ OnlyTags(t, {g}) /\ Has(t, g)
                          /\ Get(t, g) = P /\ t # <<>> /\ WellFormed(t)
    BY <2>1, LongReads
  <2> QED BY <1>3, <2>1, <2>2
<1>5. pl \in Octets /\ PdvList(c, pl) \in Octets /\ Wrap(97, PdvList(c, pl)) \in Octets
  BY <1>1 DEF Short16, Measures
<1> QED BY <1>1, <1>2, <1>4, <1>5

\* IsoPresentation_createConnectPdu around an APDU, and what the server reads of it.
LEMMA ConnectPpduIs ==
  ASSUME OctetsOf32(Params.localPSelector), OctetsOf32(Params.remotePSelector),
         NEW apdu \in Octets, NEW n, Measures(apdu, n), RoomFor(n)
  PROVE  \E L : /\ L \in Nat /\ Measures(ConnectPpdu[apdu], L) /\ L <= n + 80
                /\ ConnectRead(ConnectPpdu[apdu], apdu)
<1>1. /\ 49 \in Octet /\ 162 \in Octet /\ 129 \in Octet /\ 130 \in Octet /\ 164 \in Octet /\ 1 \in Octet
      /\ 97 \in Octet /\ 160 \in Octet
  BY DEF Octet
<1>2. n \in Nat /\ n = Len(apdu)
  BY DEF Measures
<1>3. PICK k \in Nat : k = n /\ k + 512 < 256 * 256
  BY <1>2 DEF RoomFor
<1>4. PICK H, V, P : /\ H = UserDataHeader(1, n) /\ H \in Octets /\ P = PdvList(1, apdu)
                     /\ V = Wrap(97, P) /\ V \in Octets /\ H ++ apdu = V /\ Measures(V, UserDataLength[n])
                     /\ UserDataLength[n] \in Nat /\ UserDataLength[n] <= n + 16
                     /\ Short16(P) /\ P \in Octets
                     /\ ParseFullyEncodedData[P] = [ok |-> TRUE, payload |-> apdu, nextContextId |-> 1]
                     /\ \E t \in TlvSeq : /\ Splits(V, t) /\ OnlyTags(t, {97}) /\ Has(t, 97)
                                          /\ Get(t, 97) = P /\ t # <<>> /\ WellFormed(t)
  BY <1>1, UserDataMeasured
<1>5. PICK u \in Nat : u = UserDataLength[n] /\ u <= k + 16 /\ Measures(V, u)
  BY <1>3, <1>4
<1>6. PICK tV \in TlvSeq : Splits(V, tV) /\ Has(tV, 97) /\ Get(tV, 97) = P /\ tV # <<>> /\ WellFormed(tV)
                           /\ OnlyTags(tV, {97})
  BY <1>4
<1>7. PICK body, C, X, Y : /\ C = EncodeTL(164, 35) /\ X = ContextItem(1, asn_id_as_acse)
                     /\ Y = ContextItem(3, asn_id_mms)
                     /\ C \in Octets /\ X \in Octets /\ Y \in Octets
                     /\ body = X ++ Y /\ C ++ body = Wrap(164, body) /\ Measures(body, 35)
                     /\ Measures(Wrap(164, body), 37) /\ ContextListRead(body)
  BY ContextListIs
<1>8. PICK Q \in Octets, tQ \in TlvSeq : /\ Q = Wrap(164, body) /\ Measures(Q, 37) /\ Splits(Q, tQ)
                                         /\ Has(tQ, 164) /\ Get(tQ, 164) = body /\ OnlyTags(tQ, {164})
  <2>1. PICK m : m = 35 /\ m < 128 /\ Measures(body, m)
    BY <1>7
  <2>2. PICK g \in Octet : g = 164
    BY <1>1
  <2>3. \E t \in TlvSeq : /\ Splits(Wrap(g, body), t) /\ OnlyTags(t, {g}) /\ Has(t, g) /\ Get(t, g) = body
                          /\ t # <<>> /\ WellFormed(t)
    BY <2>1, MeasuredReads
  <2> QED BY <1>7, <2>2, <2>3 DEF Measures
<1>9. PICK A \in Octets, S \in Octets, tS \in TlvSeq : /\ A = EncodeTL(129, 4) /\ A \in Octets /\ Params.localPSelector \in Octets
                                 /\ S \in Octets /\ A ++ Params.localPSelector = S /\ Measures(S, 6)
                                 /\ Splits(S, tS) /\ OnlyTags(tS, {129})
  <2>1. PICK s : s = Params.localPSelector /\ OctetsOf32(s)
    OBVIOUS
  <2>2. PICK g \in Octet : g = 129
    BY <1>1
  <2>3. \E hd, wr : /\ hd = EncodeTL(g, 4) /\ hd \in Octets /\ s \in Octets /\ wr = Wrap(g, s) /\ wr \in Octets
                    /\ hd ++ s = wr /\ Measures(wr, 6)
                    /\ \E t \in TlvSeq : Splits(wr, t) /\ OnlyTags(t, {g})
    BY <2>1, SelectorIs
  <2>4. PICK hd, wr : /\ hd = EncodeTL(g, 4) /\ hd \in Octets /\ s \in Octets /\ wr \in Octets
                      /\ hd ++ s = wr /\ Measures(wr, 6)
                      /\ \E t \in TlvSeq : Splits(wr, t) /\ OnlyTags(t, {g})
    BY <2>3
  <2>5. PICK t \in TlvSeq : Splits(wr, t) /\ OnlyTags(t, {g})
    BY <2>4
  <2>6. hd = EncodeTL(129, 4) /\ OnlyTags(t, {129})
    BY <2>2, <2>4, <2>5
  <2>7. Params.localPSelector \in Octets /\ hd ++ Params.localPSelector = wr
    BY <2>1, <2>4
  <2> QED BY <2>4, <2>5, <2>6, <2>7
<1>10. PICK B \in Octets, R \in Octets, tR \in TlvSeq : /\ B = EncodeTL(130, 4) /\ B \in Octets /\ Params.remotePSelector \in Octets
                                  /\ R \in Octets /\ B ++ Params.remotePSelector = R /\ Measures(R, 6)
                                  /\ Splits(R, tR) /\ OnlyTags(tR, {130})
  <2>1. PICK s : s = Params.remotePSelector /\ OctetsOf32(s)
    OBVIOUS
  <2>2. PICK g \in Octet : g = 130
    BY <1>1
  <2>3. \E hd, wr : /\ hd = EncodeTL(g, 4) /\ hd \in Octets /\ s \in Octets /\ wr = Wrap(g, s) /\ wr \in Octets
                    /\ hd ++ s = wr /\ Measures(wr, 6)
                    /\ \E t \in TlvSeq : Splits(wr, t) /\ OnlyTags(t, {g})
    BY <2>1, SelectorIs
  <2>4. PICK hd, wr : /\ hd = EncodeTL(g, 4) /\ hd \in Octets /\ s \in Octets /\ wr \in Octets
                      /\ hd ++ s = wr /\ Measures(wr, 6)
                      /\ \E t \in TlvSeq : Splits(wr, t) /\ OnlyTags(t, {g})
    BY <2>3
  <2>5. PICK t \in TlvSeq : Splits(wr, t) /\ OnlyTags(t, {g})
    BY <2>4
  <2>6. hd = EncodeTL(130, 4) /\ OnlyTags(t, {130})
    BY <2>2, <2>4, <2>5
  <2>7. Params.remotePSelector \in Octets /\ hd ++ Params.remotePSelector = wr
    BY <2>1, <2>4
  <2> QED BY <2>4, <2>5, <2>6, <2>7
<1>11. PICK calling \in Octets, called \in Octets : calling = Params.localPSelector /\ called = Params.remotePSelector
  BY <1>9, <1>10
<1>12. PICK n3 : n3 = Q ++ V /\ n3 \in Octets /\ Measures(n3, 37 + u)
  BY <1>5, <1>8, MeasuresJoin
<1>13. PICK n2 : n2 = R ++ n3 /\ n2 \in Octets /\ Measures(n2, 6 + (37 + u))
  <2>1. PICK a \in Nat : a = 6 /\ Measures(R, a)
    BY <1>10
  <2>2. PICK b \in Nat : b = 37 + u /\ Measures(n3, b)
    BY <1>5, <1>12
  <2>3. Measures(R, a) /\ Measures(n3, b)
    BY <2>1, <2>2
  <2>4. R ++ n3 \in Octets /\ Measures(R ++ n3, a + b)
    BY <2>3, MeasuresJoin
  <2> QED BY <2>1, <2>2, <2>4
<1>14. PICK normal : normal = S ++ n2 /\ normal \in Octets /\ Measures(normal, 6 + (6 + (37 + u)))
  BY <1>9, <1>13, MeasuresJoin
<1>15. PICK nml \in Nat : /\ nml = 6 + (6 + (37 + u)) /\ nml = 12 + 35 + UserDataLength[n] + 2 /\ nml <= k + 65
                          /\ InTwoOctets(nml) /\ Measures(normal, nml)
  <2>1. PICK l \in Nat : l = 6 + (6 + (37 + u)) /\ l = 12 + 35 + u + 2 /\ l <= k + 65
    BY <1>5
  <2>2. InTwoOctets(l)
    BY <1>3, <2>1 DEF InTwoOctets
  <2> QED BY <1>5, <1>14, <2>1, <2>2
<1>16. PICK d \in 1 .. 3 : d = DetermineLengthSize(nml)
  BY DEF DetermineLengthSize
<1>17. PICK N, W : /\ N = EncodeTL(162, nml) /\ N \in Octets /\ W = Wrap(162, normal) /\ W \in Octets
                   /\ N ++ normal = W /\ Measures(W, 1 + d + nml) /\ Short16(normal)
  BY <1>1, <1>15, <1>16, LongHeader
<1>18. PICK M : M = ModeSelector /\ Measures(M, 5) /\ M \in Octets
  BY ModeSelectorIs DEF Measures
<1>19. PICK content : content = M ++ W /\ content \in Octets /\ Measures(content, 5 + (1 + d + nml))
  BY <1>17, <1>18, MeasuresJoin
<1>20. PICK cl \in Nat : /\ cl = 5 + nml + 1 + d /\ Measures(content, cl) /\ cl <= k + 74 /\ InTwoOctets(cl)
  <2>1. PICK l \in Nat : l = 5 + (1 + d + nml) /\ l = 5 + nml + 1 + d /\ l <= k + 74
    BY <1>15
  <2>2. InTwoOctets(l)
    BY <1>3, <2>1 DEF InTwoOctets
  <2> QED BY <1>19, <2>1, <2>2
<1>21. PICK e \in 1 .. 3 : e = DetermineLengthSize(cl)
  BY DEF DetermineLengthSize
<1>22. PICK Z, ppdu : /\ Z = EncodeTL(49, cl) /\ Z \in Octets /\ ppdu = Wrap(49, content) /\ ppdu \in Octets
                      /\ Z ++ content = ppdu /\ Measures(ppdu, 1 + e + cl) /\ Short16(content)
  BY <1>1, <1>20, <1>21, LongHeader
<1>23. ConnectPpdu[apdu] = ppdu
  <2>1. PICK h : /\ h = ConnectPduHeader(Params.localPSelector, Params.remotePSelector, 1, n)
                 /\ h = Z ++ M ++ N ++ A ++ calling ++ B ++ called ++ C ++ X ++ Y ++ H
    <3>1. cl = 5 + nml + 1 + DetermineLengthSize(nml)
      BY <1>16, <1>20
    <3>2. /\ Z = EncodeTL(49, cl) /\ N = EncodeTL(162, nml) /\ A = EncodeTL(129, 4) /\ B = EncodeTL(130, 4)
          /\ C = EncodeTL(164, 35) /\ X = ContextItem(1, asn_id_as_acse) /\ Y = ContextItem(3, asn_id_mms)
          /\ H = UserDataHeader(1, n)
      BY <1>4, <1>7, <1>9, <1>10, <1>17, <1>22
    <3>3. PICK m : m = ModeSelector /\ m = M
      BY <1>18
    <3>4. ConnectPduHeader(calling, called, 1, n) =
            Z \o m \o N \o A \o calling \o B \o called \o C \o X \o Y \o H
      BY <1>15, <3>1, <3>2, <3>3 DEF ConnectPduHeader
    <3>5. PICK h : /\ h = ConnectPduHeader(Params.localPSelector, Params.remotePSelector, 1, n)
                   /\ h = Z \o m \o N \o A \o calling \o B \o called \o C \o X \o Y \o H
      BY <1>11, <3>4
    <3> QED BY <3>3, <3>5 DEF ++
  <2>2. ConnectPpdu[apdu] = h ++ apdu
    BY <1>2, <2>1 DEF ConnectPpdu, ++
  <2>3. PICK h1 \in Octets : h1 = Z ++ M ++ N
    <3>1. Z \in Octets /\ M \in Octets /\ N \in Octets
      BY <1>17, <1>18, <1>22
    <3> QED BY <3>1, Nest3
  <2>4. h1 ++ A ++ calling = h1 ++ S
    <3>0. h1 \in Octets /\ A \in Octets /\ calling \in Octets
      BY <1>9, <1>11, <2>3
    <3>1. h1 ++ A ++ calling = h1 ++ (A ++ calling)
      BY <3>0, Nest3
    <3> QED BY <3>1, <1>9, <1>11
  <2>5. PICK h2 \in Octets : h2 = h1 ++ S
    BY <1>9, <2>3, Closed
  <2>6. h2 ++ B ++ called = h2 ++ R
    <3>0. h2 \in Octets /\ B \in Octets /\ called \in Octets
      BY <1>10, <1>11, <2>5
    <3>1. h2 ++ B ++ called = h2 ++ (B ++ called)
      BY <3>0, Nest3
    <3> QED BY <3>1, <1>10, <1>11
  <2>7. PICK h3 \in Octets : h3 = h2 ++ R
    BY <1>10, <2>5, Closed
  <2>8. h3 ++ C ++ X ++ Y = h3 ++ Q
    <3>0. h3 \in Octets /\ C \in Octets /\ X \in Octets /\ Y \in Octets
      BY <1>7, <2>7
    <3>1. h3 ++ C ++ X ++ Y = h3 ++ (C ++ (X ++ Y))
      BY <3>0, Nest4
    <3> QED BY <3>1, <1>7, <1>8
  <2>9. PICK h4 \in Octets : h4 = h3 ++ Q
    BY <1>8, <2>7, Closed
  <2>10. h = h4 ++ H
    BY <2>1, <2>3, <2>4, <2>5, <2>6, <2>7, <2>8, <2>9
  <2>11. (h4 ++ H) ++ apdu = h4 ++ V
    <3>1. (h4 ++ H) ++ apdu = h4 ++ (H ++ apdu)
      BY <1>4, Associative
    <3> QED BY <3>1, <1>4
  <2>12. h4 ++ V = h1 ++ normal
    <3>0. h1 \in Octets /\ S \in Octets /\ R \in Octets /\ Q \in Octets /\ V \in Octets
      BY <1>4, <1>9, <1>10, <1>8, <2>3
    <3>1. h1 ++ S ++ R ++ Q ++ V = h1 ++ (S ++ (R ++ (Q ++ V)))
      BY <3>0, Nest5
    <3> QED BY <3>1, <2>5, <2>7, <2>9, <1>12, <1>13, <1>14
  <2>13. h1 ++ normal = ppdu
    <3>0. Z \in Octets /\ M \in Octets /\ N \in Octets /\ normal \in Octets
      BY <1>14, <1>17, <1>18, <1>22
    <3>1. Z ++ M ++ N ++ normal = Z ++ (M ++ (N ++ normal))
      BY <3>0, Nest4
    <3> QED BY <3>1, <2>3, <1>17, <1>19, <1>22
  <2> QED BY <2>2, <2>10, <2>11, <2>12, <2>13
<1>24. PICK t \in TlvSeq : /\ Splits(normal, t) /\ WellFormed(t) /\ Has(t, 97) /\ Get(t, 97) = P
                           /\ Has(t, 164) /\ Get(t, 164) = body
  <2>1. PICK t3 \in TlvSeq : /\ Splits(n3, t3) /\ t3 # <<>> /\ WellFormed(t3) /\ SameAt(tV, t3, 97)
                             /\ SameAt(tQ, t3, 164)
    <3>1. /\ Splits(Q ++ V, tQ \o tV) /\ tQ \o tV \in TlvSeq /\ tQ \o tV # <<>> /\ WellFormed(tQ \o tV)
          /\ \A tag \in Octet : tag \notin {164} => SameAt(tV, tQ \o tV, tag)
      BY <1>6, <1>8, HideBehind
    <3>2. PICK T : T = {97} /\ OnlyTags(tV, T) /\ 164 \notin T
      BY <1>6
    <3>3. SameAt(tQ, tQ \o tV, 164)
      BY <1>1, <3>2, SameInFront
    <3>4. SameAt(tV, tQ \o tV, 97)
      <4>1. 97 \notin {164}
        OBVIOUS
      <4> QED BY <1>1, <3>1, <4>1
    <3> QED BY <1>12, <3>1, <3>3, <3>4
  <2>2. PICK t2 \in TlvSeq : /\ Splits(n2, t2) /\ t2 # <<>> /\ WellFormed(t2) /\ SameAt(t3, t2, 97)
                             /\ SameAt(t3, t2, 164)
    <3>1. /\ Splits(R ++ n3, tR \o t3) /\ tR \o t3 \in TlvSeq /\ tR \o t3 # <<>> /\ WellFormed(tR \o t3)
          /\ \A tag \in Octet : tag \notin {130} => SameAt(t3, tR \o t3, tag)
      BY <1>10, <2>1, HideBehind
    <3>2. 97 \notin {130} /\ 164 \notin {130}
      OBVIOUS
    <3>3. SameAt(t3, tR \o t3, 97) /\ SameAt(t3, tR \o t3, 164)
      BY <1>1, <3>1, <3>2
    <3>4. PICK w \in TlvSeq : w = tR \o t3
      BY <3>1
    <3> QED BY <1>13, <3>1, <3>3, <3>4
  <2>3. PICK t1 \in TlvSeq : /\ Splits(normal, t1) /\ t1 # <<>> /\ WellFormed(t1) /\ SameAt(t2, t1, 97)
                             /\ SameAt(t2, t1, 164)
    <3>1. /\ Splits(S ++ n2, tS \o t2) /\ tS \o t2 \in TlvSeq /\ tS \o t2 # <<>> /\ WellFormed(tS \o t2)
          /\ \A tag \in Octet : tag \notin {129} => SameAt(t2, tS \o t2, tag)
      BY <1>9, <2>2, HideBehind
    <3>2. 97 \notin {129} /\ 164 \notin {129}
      OBVIOUS
    <3>3. SameAt(t2, tS \o t2, 97) /\ SameAt(t2, tS \o t2, 164)
      BY <1>1, <3>1, <3>2
    <3>4. PICK w \in TlvSeq : w = tS \o t2
      BY <3>1
    <3> QED BY <1>14, <3>1, <3>3, <3>4
  <2> QED BY <1>6, <1>8, <2>1, <2>2, <2>3 DEF SameAt
<1>25. ConnectRead(ppdu, apdu)
  <2>1. PICK c \in Octet : c = 1
    BY <1>1
  <2>2. /\ Get(t, 97) = PdvList(c, apdu) /\ PdvList(c, apdu) \in Octets
        /\ ParseFullyEncodedData[PdvList(c, apdu)] = [ok |-> TRUE, payload |-> apdu, nextContextId |-> c]
    BY <1>4, <1>24, <2>1
  <2>3. content = ModeSelector ++ Wrap(162, normal)
    BY <1>17, <1>18, <1>19
  <2>4. LET p == ParseNormalMode[Wrap(49, content)]
        IN  /\ p.ok /\ p.payload = apdu /\ p.nextContextId = c
            /\ \A b : Has(t, 164) /\ Get(t, 164) = b /\ ContextListRead(b)
                           => p.acseContextId = 1 /\ p.mmsContextId = 3
    BY <1>17, <1>22, <1>24, <2>2, <2>3, NormalModeRead
  <2> QED BY <1>7, <1>22, <1>24, <2>4 DEF ConnectRead
<1>26. PICK L \in Nat : L = 1 + e + cl /\ L <= k + 80
  BY <1>20
<1>27. L <= n + 80
  BY <1>3, <1>26
<1> QED BY <1>22, <1>23, <1>25, <1>26, <1>27

\* A result element of the list in a CPA: nine octets.
LEMMA AcceptBerIs == Measures(AcceptBer, 9)
<1>1. 48 \in Octet /\ 128 \in Octet /\ 129 \in Octet /\ 0 \in Octet /\ 81 \in Octet /\ 1 \in Octet
  BY DEF Octet
<1>2. PICK g \in Octet, h \in Octet, k \in Octet : g = 48 /\ h = 128 /\ k = 129
  BY <1>1
<1>3. PICK v, n : v = <<0>> /\ n = 1 /\ n < 128 /\ Measures(v, n)
  <2>1. Measures(<<0>>, 1)
    BY <1>1, MeasuredTuples
  <2> QED BY <2>1
<1>4. PICK w, m : w = ber_id /\ m = 2 /\ m < 128 /\ Measures(w, m)
  <2>1. Measures(<<81, 1>>, 2)
    BY <1>1, MeasuredTuples
  <2> QED BY <2>1 DEF ber_id
<1>5. /\ v \in Octets /\ EncodeTL(h, n) \in Octets /\ EncodeTL(h, n) ++ v = Wrap(h, v)
      /\ Measures(Wrap(h, v), n + 2) /\ Wrap(h, v) \in Octets
  BY <1>3, MeasuredHeader
<1>6. /\ w \in Octets /\ EncodeTL(k, m) \in Octets /\ EncodeTL(k, m) ++ w = Wrap(k, w)
      /\ Measures(Wrap(k, w), m + 2) /\ Wrap(k, w) \in Octets
  BY <1>4, MeasuredHeader
<1>7. PICK c, l : c = Wrap(h, v) ++ Wrap(k, w) /\ l = 7 /\ l < 128 /\ Measures(c, l)
  <2>1. Measures(Wrap(h, v) ++ Wrap(k, w), (n + 2) + (m + 2))
    BY <1>5, <1>6, MeasuresJoin
  <2>2. (n + 2) + (m + 2) = 7
    BY <1>3, <1>4
  <2> QED BY <2>1, <2>2
<1>8. /\ c \in Octets /\ EncodeTL(g, l) \in Octets /\ EncodeTL(g, l) ++ c = Wrap(g, c)
      /\ Measures(Wrap(g, c), l + 2)
  BY <1>7, MeasuredHeader
<1>9. PICK A \in Octets, B \in Octets, C \in Octets : /\ A = EncodeTL(g, l) /\ B = EncodeTL(h, n)
                                                      /\ C = EncodeTL(k, m)
  BY <1>5, <1>6, <1>8
<1>10. AcceptBer = A ++ B ++ v ++ C ++ w
  <2>1. A = EncodeTL(48, 7) /\ B = EncodeTL(128, 1) /\ C = EncodeTL(129, 2)
    BY <1>2, <1>3, <1>4, <1>7, <1>9
  <2>2. AcceptBer = A \o B \o v \o C \o w
    BY <2>1, <1>3, <1>4 DEF AcceptBer
  <2> QED BY <2>2 DEF ++
<1>11. A ++ B ++ v ++ C ++ w = A ++ c
  <2>1. v \in Octets /\ w \in Octets
    BY <1>5, <1>6
  <2>2. A ++ B ++ v ++ C ++ w = A ++ (B ++ (v ++ (C ++ w)))
    BY <2>1, Nest5
  <2>3. PICK r \in Octets : r = C ++ w
    BY <2>1, Closed
  <2>4. (B ++ v) ++ r = B ++ (v ++ r)
    BY <2>1, Associative
  <2>5. B ++ v = Wrap(h, v) /\ r = Wrap(k, w)
    BY <1>5, <1>6, <1>9, <2>3
  <2>6. c = B ++ (v ++ (C ++ w))
    BY <1>7, <2>3, <2>4, <2>5
  <2> QED BY <2>2, <2>6
<1>12. A ++ c = Wrap(g, c)
  BY <1>8, <1>9
<1>13. Measures(AcceptBer, l + 2)
  BY <1>8, <1>10, <1>11, <1>12
<1> QED BY <1>7, <1>13

\* The list of the two results.
LEMMA ResultListIs ==
  \E C, b, Q, t : /\ b \in Octets /\ b = AcceptBer /\ C = EncodeTL(165, 18) /\ C \in Octets /\ Q \in Octets
                  /\ C ++ (b ++ b) = Q /\ Measures(Q, 20)
                  /\ t \in TlvSeq /\ Splits(Q, t) /\ OnlyTags(t, {165})
<1>1. PICK g \in Octet : g = 165
  BY DEF Octet
<1>2. PICK b \in Octets : b = AcceptBer /\ Measures(b, 9)
  BY AcceptBerIs DEF Measures
<1>3. PICK v, n : v = b ++ b /\ n = 18 /\ n < 128 /\ Measures(v, n)
  BY <1>2, MeasuresJoin
<1>4. /\ v \in Octets /\ EncodeTL(g, n) \in Octets /\ EncodeTL(g, n) ++ v = Wrap(g, v)
      /\ Measures(Wrap(g, v), n + 2) /\ Wrap(g, v) \in Octets
  BY <1>3, MeasuredHeader
<1>5. PICK t \in TlvSeq : Splits(Wrap(g, v), t) /\ OnlyTags(t, {g})
  BY <1>3, MeasuredReads
<1>6. PICK C, Q : C = EncodeTL(g, n) /\ C \in Octets /\ Q = Wrap(g, v) /\ Q \in Octets
  BY <1>4
<1>7. C = EncodeTL(165, 18) /\ C ++ (b ++ b) = Q /\ Measures(Q, 20)
  <2>1. n + 2 = 20
    BY <1>3
  <2> QED BY <1>1, <1>3, <1>4, <1>6, <2>1
<1>8. Splits(Q, t) /\ OnlyTags(t, {165})
  BY <1>1, <1>5, <1>6
<1> QED BY <1>2, <1>6, <1>7, <1>8

\* IsoPresentation_createCpaMessage around an APDU, and what
\* IsoPresentation_parseAcceptMessage reads of it.
LEMMA CpaIs ==
  ASSUME NEW c \in Octet, NEW apdu \in Octets, NEW n, Measures(apdu, n), RoomFor(n)
  PROVE  \E L : /\ L \in Nat /\ Measures(Cpa(c, apdu), L) /\ L <= n + 60
                /\ ParseNormalMode[Cpa(c, apdu)].ok /\ ParseNormalMode[Cpa(c, apdu)].payload = apdu
<1>1. /\ 49 \in Octet /\ 162 \in Octet /\ 131 \in Octet /\ 0 \in Octet /\ 1 \in Octet /\ 97 \in Octet
      /\ 165 \in Octet
  BY DEF Octet
<1>2. n \in Nat /\ n = Len(apdu)
  BY DEF Measures
<1>3. PICK k \in Nat : k = n /\ k + 512 < 256 * 256
  BY <1>2 DEF RoomFor
<1>4. PICK H, V, P : /\ H = UserDataHeader(c, n) /\ H \in Octets /\ P = PdvList(c, apdu)
                     /\ V = Wrap(97, P) /\ V \in Octets /\ H ++ apdu = V /\ Measures(V, UserDataLength[n])
                     /\ UserDataLength[n] \in Nat /\ UserDataLength[n] <= n + 16
                     /\ Short16(P) /\ P \in Octets
                     /\ ParseFullyEncodedData[P] = [ok |-> TRUE, payload |-> apdu, nextContextId |-> c]
                     /\ \E t \in TlvSeq : /\ Splits(V, t) /\ OnlyTags(t, {97}) /\ Has(t, 97)
                                          /\ Get(t, 97) = P /\ t # <<>> /\ WellFormed(t)
  BY UserDataMeasured
<1>5. PICK u \in Nat : u = UserDataLength[n] /\ u <= k + 16 /\ Measures(V, u)
  BY <1>3, <1>4
<1>6. PICK tV \in TlvSeq : Splits(V, tV) /\ Has(tV, 97) /\ Get(tV, 97) = P /\ tV # <<>> /\ WellFormed(tV)
  BY <1>4
<1>7. PICK C \in Octets, b \in Octets, Q \in Octets, tQ \in TlvSeq :
        /\ b = AcceptBer /\ C = EncodeTL(165, 18) /\ C ++ (b ++ b) = Q /\ Measures(Q, 20)
        /\ Splits(Q, tQ) /\ OnlyTags(tQ, {165})
  BY ResultListIs
<1>8. PICK s \in Octets : s = <<0, 0, 0, 1>> /\ OctetsOf32(s)
  <2>1. Measures(<<0, 0, 0, 1>>, 4)
    BY <1>1, MeasuredTuples
  <2> QED BY <2>1 DEF OctetsOf32, Measures
<1>9. PICK A \in Octets, S \in Octets, tS \in TlvSeq :
        /\ A = EncodeTL(131, 4) /\ A ++ s = S /\ Measures(S, 6) /\ Splits(S, tS) /\ OnlyTags(tS, {131})
  <2>1. PICK g \in Octet : g = 131
    BY <1>1
  <2>2. PICK hd, wr : /\ hd = EncodeTL(g, 4) /\ hd \in Octets /\ s \in Octets /\ wr = Wrap(g, s)
                      /\ wr \in Octets /\ hd ++ s = wr /\ Measures(wr, 6)
                      /\ \E t \in TlvSeq : Splits(wr, t) /\ OnlyTags(t, {g})
    BY <1>8, SelectorIs
  <2>3. PICK t \in TlvSeq : Splits(wr, t) /\ OnlyTags(t, {g})
    BY <2>2
  <2>4. hd = EncodeTL(131, 4) /\ OnlyTags(t, {131})
    BY <2>1, <2>2, <2>3
  <2> QED BY <2>2, <2>3, <2>4
<1>10. PICK n2 \in Octets : n2 = Q ++ V /\ Measures(n2, 20 + u)
  BY <1>5, <1>7, MeasuresJoin
<1>11. PICK normal \in Octets : normal = S ++ n2 /\ Measures(normal, 6 + (20 + u))
  <2>1. Measures(S, 6) /\ Measures(n2, 20 + u)
    BY <1>9, <1>10
  <2>2. S ++ n2 \in Octets /\ Measures(S ++ n2, 6 + (20 + u))
    BY <2>1, MeasuresJoin
  <2> QED BY <2>2
<1>12. PICK nml \in Nat : /\ nml = 6 + (20 + u) /\ nml = 6 + 20 + UserDataLength[n] /\ nml <= k + 42
                          /\ InTwoOctets(nml) /\ Measures(normal, nml)
  <2>1. PICK l \in Nat : l = 6 + (20 + u) /\ l = 6 + 20 + u /\ l <= k + 42
    BY <1>5
  <2>2. InTwoOctets(l)
    BY <1>3, <2>1 DEF InTwoOctets
  <2> QED BY <1>5, <1>11, <2>1, <2>2
<1>13. PICK d \in 1 .. 3 : d = DetermineLengthSize(nml)
  BY DEF DetermineLengthSize
<1>14. PICK N, W : /\ N = EncodeTL(162, nml) /\ N \in Octets /\ W = Wrap(162, normal) /\ W \in Octets
                   /\ N ++ normal = W /\ Measures(W, 1 + d + nml) /\ Short16(normal)
  BY <1>1, <1>12, <1>13, LongHeader
<1>15. PICK M \in Octets : M = ModeSelector /\ Measures(M, 5)
  BY ModeSelectorIs DEF Measures
<1>16. PICK content \in Octets : content = M ++ W /\ Measures(content, 5 + (1 + d + nml))
  BY <1>14, <1>15, MeasuresJoin
<1>17. PICK cl \in Nat : /\ cl = 5 + nml + d + 1 /\ Measures(content, cl) /\ cl <= k + 51 /\ InTwoOctets(cl)
  <2>1. PICK l \in Nat : l = 5 + (1 + d + nml) /\ l = 5 + nml + d + 1 /\ l <= k + 51
    BY <1>12
  <2>2. InTwoOctets(l)
    BY <1>3, <2>1 DEF InTwoOctets
  <2> QED BY <1>16, <2>1, <2>2
<1>18. PICK e \in 1 .. 3 : e = DetermineLengthSize(cl)
  BY DEF DetermineLengthSize
<1>19. PICK Z, ppdu : /\ Z = EncodeTL(49, cl) /\ Z \in Octets /\ ppdu = Wrap(49, content) /\ ppdu \in Octets
                      /\ Z ++ content = ppdu /\ Measures(ppdu, 1 + e + cl) /\ Short16(content)
  BY <1>1, <1>17, <1>18, LongHeader
<1>20. Cpa(c, apdu) = ppdu
  <2>1. PICK h : /\ h = CpaHeader(c, n) /\ h = Z ++ M ++ N ++ A ++ s ++ C ++ b ++ b ++ H
    <3>1. cl = 5 + nml + DetermineLengthSize(nml) + 1
      BY <1>13, <1>17
    <3>2. /\ Z = EncodeTL(49, cl) /\ N = EncodeTL(162, nml) /\ A = EncodeTL(131, 4)
          /\ C = EncodeTL(165, 18) /\ H = UserDataHeader(c, n) /\ s = <<0, 0, 0, 1>>
      BY <1>4, <1>7, <1>8, <1>9, <1>14, <1>19
    <3>3. PICK m, r : m = ModeSelector /\ m = M /\ r = AcceptBer /\ r = b
      BY <1>7, <1>15
    <3>4. CpaHeader(c, n) = Z \o m \o N \o A \o s \o C \o r \o r \o H
      BY <1>12, <3>1, <3>2, <3>3 DEF CpaHeader
    <3>5. PICK h : h = CpaHeader(c, n) /\ h = Z \o m \o N \o A \o s \o C \o r \o r \o H
      BY <3>4
    <3> QED BY <3>3, <3>5 DEF ++
  <2>2. Cpa(c, apdu) = h ++ apdu
    BY <1>2, <2>1 DEF Cpa, ++
  <2>3. PICK h1 \in Octets : h1 = Z ++ M ++ N
    <3>1. Z \in Octets /\ M \in Octets /\ N \in Octets
      BY <1>14, <1>15, <1>19
    <3> QED BY <3>1, Nest3
  <2>4. h1 ++ A ++ s = h1 ++ S
    <3>1. h1 ++ A ++ s = h1 ++ (A ++ s)
      BY Nest3
    <3> QED BY <3>1, <1>9
  <2>5. PICK h2 \in Octets : h2 = h1 ++ S
    BY Closed
  <2>6. h2 ++ C ++ b ++ b = h2 ++ Q
    <3>1. h2 ++ C ++ b ++ b = h2 ++ (C ++ (b ++ b))
      BY Nest4
    <3> QED BY <3>1, <1>7
  <2>7. PICK h3 \in Octets : h3 = h2 ++ Q
    BY Closed
  <2>8. h = h3 ++ H
    BY <2>1, <2>3, <2>4, <2>5, <2>6, <2>7
  <2>9. (h3 ++ H) ++ apdu = h3 ++ V
    <3>1. (h3 ++ H) ++ apdu = h3 ++ (H ++ apdu)
      BY <1>4, Associative
    <3> QED BY <3>1, <1>4
  <2>10. h3 ++ V = h1 ++ normal
    <3>0. V \in Octets
      BY <1>4
    <3>1. h1 ++ S ++ Q ++ V = h1 ++ (S ++ (Q ++ V))
      BY <3>0, Nest4
    <3> QED BY <3>1, <2>5, <2>7, <1>10, <1>11
  <2>11. h1 ++ normal = ppdu
    <3>0. Z \in Octets /\ M \in Octets /\ N \in Octets
      BY <1>14, <1>15, <1>19
    <3>1. Z ++ M ++ N ++ normal = Z ++ (M ++ (N ++ normal))
      BY <3>0, Nest4
    <3> QED BY <3>1, <2>3, <1>14, <1>16, <1>19
  <2> QED BY <2>2, <2>8, <2>9, <2>10, <2>11
<1>21. PICK t \in TlvSeq : Splits(normal, t) /\ WellFormed(t) /\ Has(t, 97) /\ Get(t, 97) = P
  <2>1. PICK t2 \in TlvSeq : Splits(n2, t2) /\ t2 # <<>> /\ WellFormed(t2) /\ SameAt(tV, t2, 97)
    <3>0. PICK only : only = {165} /\ Splits(Q, tQ) /\ OnlyTags(tQ, only) /\ Splits(V, tV) /\ tV # <<>>
                      /\ WellFormed(tV)
      BY <1>6, <1>7
    <3>1. /\ Splits(Q ++ V, tQ \o tV) /\ tQ \o tV \in TlvSeq /\ tQ \o tV # <<>> /\ WellFormed(tQ \o tV)
          /\ \A tag \in Octet : tag \notin only => SameAt(tV, tQ \o tV, tag)
      BY <3>0, HideBehind
    <3>2. 97 \notin only
      BY <3>0
    <3>3. SameAt(tV, tQ \o tV, 97)
      BY <1>1, <3>1, <3>2
    <3> QED BY <1>10, <3>1, <3>3
  <2>2. PICK t1 \in TlvSeq : Splits(normal, t1) /\ WellFormed(t1) /\ SameAt(t2, t1, 97)
    <3>1. /\ Splits(S ++ n2, tS \o t2) /\ tS \o t2 \in TlvSeq /\ tS \o t2 # <<>> /\ WellFormed(tS \o t2)
          /\ \A tag \in Octet : tag \notin {131} => SameAt(t2, tS \o t2, tag)
      BY <1>9, <2>1, HideBehind
    <3>2. 97 \notin {131}
      OBVIOUS
    <3>3. SameAt(t2, tS \o t2, 97)
      BY <1>1, <3>1, <3>2
    <3> QED BY <1>11, <3>1, <3>3
  <2> QED BY <1>6, <2>1, <2>2 DEF SameAt
<1>22. ParseNormalMode[ppdu].ok /\ ParseNormalMode[ppdu].payload = apdu
  <2>1. /\ Get(t, 97) = PdvList(c, apdu) /\ PdvList(c, apdu) \in Octets
        /\ ParseFullyEncodedData[PdvList(c, apdu)] = [ok |-> TRUE, payload |-> apdu, nextContextId |-> c]
    BY <1>4, <1>21
  <2>2. content = ModeSelector ++ Wrap(162, normal)
    BY <1>14, <1>15, <1>16
  <2>3. LET p == ParseNormalMode[Wrap(49, content)]
        IN  /\ p.ok /\ p.payload = apdu /\ p.nextContextId = c
            /\ \A x : Has(t, 164) /\ Get(t, 164) = x /\ ContextListRead(x)
                           => p.acseContextId = 1 /\ p.mmsContextId = 3
    BY <1>14, <1>19, <1>21, <2>1, <2>2, NormalModeRead
  <2> QED BY <1>19, <2>3
<1>23. PICK L \in Nat : L = 1 + e + cl /\ L <= k + 60
  BY <1>17
<1>24. L <= n + 60
  BY <1>3, <1>23
<1> QED BY <1>19, <1>20, <1>22, <1>23, <1>24

-----------------------------------------------------------------------------
(***************************************************************************)
(* The initiate PDUs of MMS                                                *)
(***************************************************************************)
\* A parameter of l octets, read as the number it was written from.
NumberRead(w, l, g, n) ==
  /\ Measures(w, l) /\ l \in 3 .. 7
  /\ \E t \in TlvSeq : /\ Splits(w, t) /\ OnlyTags(t, {g}) /\ t # <<>> /\ WellFormed(t)
                       /\ Has(t, g) /\ Unsigned(Get(t, g)) = n

\* A number, the length of its encoding, and its decoding.
LEMMA NumberElement ==
  ASSUME NEW g \in Octet, NEW n \in Nat, InTwoOctets(n)
  PROVE  \E l : /\ l = 2 + UInt32DetermineEncodedSize(FourOctets(n))
                /\ NumberRead(EncodeUInt32WithTL(g, FourOctets(n)), l, g, n)
<1>1. PICK f \in Octets : f = FourOctets(n) /\ Len(f) = 4 /\ Unsigned(EncodeUInt32(f)) = n
  BY Numbers
<1>2. /\ EncodeUInt32WithTL(g, f) = Wrap(g, EncodeUInt32(f))
      /\ EncodeUInt32(f) \in Octets /\ Len(EncodeUInt32(f)) \in 1 .. 5
  BY <1>1, IntegerElement
<1>3. PICK e \in Octets, m \in 1 .. 5 : e = EncodeUInt32(f) /\ m = Len(e)
  BY <1>2
<1>4. Measures(e, m) /\ m < 128
  <2>1. m \in Nat /\ m < 128
    OBVIOUS
  <2> QED BY <1>3, <2>1 DEF Measures
<1>5. Measures(Wrap(g, e), m + 2)
  BY <1>4, MeasuredHeader
<1>6. PICK t \in TlvSeq : /\ Splits(Wrap(g, e), t) /\ OnlyTags(t, {g}) /\ Has(t, g) /\ Get(t, g) = e
                          /\ t # <<>> /\ WellFormed(t)
  BY <1>4, MeasuredReads
<1>7. PICK l \in 3 .. 7 : l = 2 + m /\ l = m + 2
  OBVIOUS
<1>8. l = 2 + UInt32DetermineEncodedSize(FourOctets(n))
  BY <1>1, <1>3, <1>7 DEF UInt32DetermineEncodedSize
<1>9. PICK w : w = Wrap(g, e) /\ w = EncodeUInt32WithTL(g, FourOctets(n))
  BY <1>1, <1>2, <1>3
<1>10. Measures(w, l) /\ Splits(w, t) /\ Unsigned(Get(t, g)) = n
  BY <1>1, <1>3, <1>5, <1>6, <1>7, <1>9
<1>11. NumberRead(w, l, g, n)
  BY <1>6, <1>10 DEF NumberRead
<1> QED BY <1>8, <1>9, <1>11

\* What stays of the numbers read when another element follows or precedes.
NumberIn(t, g, n) == Has(t, g) /\ Unsigned(Get(t, g)) = n

\* A number is found at its tag, wherever the elements are.
LEMMA NumberSame ==
  ASSUME NEW t, NEW u, NEW g, NEW n, SameAt(t, u, g), NumberIn(t, g, n)
  PROVE  NumberIn(u, g, n)
BY DEF SameAt, NumberIn

Fitting == {p \in Parameters : /\ InTwoOctets(p.maxPduSize) /\ InTwoOctets(p.calling)
                               /\ InTwoOctets(p.called) /\ InTwoOctets(p.nesting)}

\* The four numbers that both PDUs carry.
ParametersIn(t, p) ==
  /\ NumberIn(t, 128, p.maxPduSize) /\ NumberIn(t, 129, p.calling)
  /\ NumberIn(t, 130, p.called) /\ NumberIn(t, 131, p.nesting)

\* Two number elements, one behind the other.
LEMMA NumberJoin ==
  ASSUME NEW w, NEW l, NEW g \in Octet, NEW n, NumberRead(w, l, g, n),
         NEW v, NEW u \in TlvSeq, Splits(v, u), u # <<>>, WellFormed(u),
         NEW tags, OnlyTags(u, tags), g \notin tags
  PROVE  \E t \in TlvSeq : /\ Splits(w ++ v, t) /\ t # <<>> /\ WellFormed(t)
                           /\ OnlyTags(t, {g} \cup tags) /\ NumberIn(t, g, n)
                           /\ \A h \in Octet : h # g => SameAt(u, t, h)
<1>1. PICK s \in TlvSeq : /\ Splits(w, s) /\ OnlyTags(s, {g}) /\ Has(s, g) /\ Unsigned(Get(s, g)) = n
  BY DEF NumberRead
<1>2. PICK T : T = {g} /\ OnlyTags(s, T)
  BY <1>1
<1>3. PICK t : t = s \o u
  OBVIOUS
<1>4. /\ Splits(w ++ v, t) /\ t \in TlvSeq /\ t # <<>> /\ WellFormed(t)
      /\ \A h \in Octet : h \notin T => SameAt(u, t, h)
  BY <1>1, <1>2, <1>3, HideBehind
<1>5. OnlyTags(t, T \cup tags)
  BY <1>2, <1>3, OnlyTagsJoin
<1>6. SameAt(s, t, g)
  BY <1>3, SameInFront
<1>7. NumberIn(t, g, n)
  BY <1>1, <1>6 DEF SameAt, NumberIn
<1>8. \A h \in Octet : h # g => SameAt(u, t, h)
  BY <1>2, <1>4
<1> QED BY <1>2, <1>4, <1>5, <1>7, <1>8

BodyRead(b, p) == \E t \in TlvSeq : Splits(b, t) /\ ParametersIn(t, p)

\* The four numbers in front of the detail.
LEMMA FourNumbers ==
  ASSUME NEW w1, NEW w2, NEW w3, NEW w4, NEW l1, NEW l2, NEW l3, NEW l4, NEW p,
         NumberRead(w1, l1, 128, p.maxPduSize), NumberRead(w2, l2, 129, p.calling),
         NumberRead(w3, l3, 130, p.called), NumberRead(w4, l4, 131, p.nesting),
         NEW d, NEW u \in TlvSeq, Splits(d, u), u # <<>>, WellFormed(u), OnlyTags(u, {164})
  PROVE  BodyRead(w1 ++ (w2 ++ (w3 ++ (w4 ++ d))), p)
<1>1. PICK g1 \in Octet, g2 \in Octet, g3 \in Octet, g4 \in Octet :
        g1 = 128 /\ g2 = 129 /\ g3 = 130 /\ g4 = 131
  BY DEF Octet
<1>0. PICK v4, v3, v2 : v4 = w4 ++ d /\ v3 = w3 ++ v4 /\ v2 = w2 ++ v3
  OBVIOUS
<1>2. PICK n1, n2, n3, n4 : n1 = p.maxPduSize /\ n2 = p.calling /\ n3 = p.called /\ n4 = p.nesting
  OBVIOUS
<1>3. /\ NumberRead(w1, l1, g1, n1) /\ NumberRead(w2, l2, g2, n2)
      /\ NumberRead(w3, l3, g3, n3) /\ NumberRead(w4, l4, g4, n4)
  BY <1>1, <1>2
<1>4. PICK S0 : S0 = {164} /\ OnlyTags(u, S0) /\ g4 \notin S0
  BY <1>1
<1>5. PICK t4 \in TlvSeq : /\ Splits(w4 ++ d, t4) /\ t4 # <<>> /\ WellFormed(t4)
                              /\ OnlyTags(t4, {g4} \cup S0) /\ NumberIn(t4, g4, n4)
  BY <1>3, <1>4, NumberJoin
<1>23. S0 = {164} /\ g1 \notin S0 /\ g2 \notin S0 /\ g3 \notin S0
  BY <1>1, <1>4
<1>12. g1 # g2 /\ g1 # g3 /\ g1 # g4 /\ g2 # g3 /\ g2 # g4 /\ g3 # g4
  BY <1>1
<1>6. PICK S4 : S4 = {g4} \cup S0 /\ g1 \notin S4 /\ g2 \notin S4 /\ g3 \notin S4
  <2>1. g1 \notin {g4} \cup S0 /\ g2 \notin {g4} \cup S0 /\ g3 \notin {g4} \cup S0
    BY <1>12, <1>23
  <2> QED BY <2>1
<1>20. Splits(v4, t4)
  BY <1>0, <1>5
<1>7. PICK t3 \in TlvSeq : /\ Splits(w3 ++ v4, t3) /\ t3 # <<>> /\ WellFormed(t3)
                              /\ OnlyTags(t3, {g3} \cup S4) /\ NumberIn(t3, g3, n3)
                              /\ \A h \in Octet : h # g3 => SameAt(t4, t3, h)
  BY <1>3, <1>5, <1>6, <1>20, NumberJoin
<1>8. PICK S3 : S3 = {g3} \cup S4 /\ g1 \notin S3 /\ g2 \notin S3
  <2>1. g1 \notin {g3} \cup S4 /\ g2 \notin {g3} \cup S4
    BY <1>12, <1>6
  <2> QED BY <2>1
<1>21. Splits(v3, t3)
  BY <1>0, <1>7
<1>9. PICK t2 \in TlvSeq : /\ Splits(w2 ++ v3, t2) /\ t2 # <<>> /\ WellFormed(t2)
                              /\ OnlyTags(t2, {g2} \cup S3) /\ NumberIn(t2, g2, n2)
                              /\ \A h \in Octet : h # g2 => SameAt(t3, t2, h)
  BY <1>3, <1>7, <1>8, <1>21, NumberJoin
<1>10. PICK S2 : S2 = {g2} \cup S3 /\ g1 \notin S2
  <2>1. g1 \notin {g2} \cup S3
    BY <1>12, <1>8
  <2> QED BY <2>1
<1>22. Splits(v2, t2)
  BY <1>0, <1>9
<1>11. PICK t1 \in TlvSeq : /\ Splits(w1 ++ v2, t1) /\ NumberIn(t1, g1, n1)
                               /\ \A h \in Octet : h # g1 => SameAt(t2, t1, h)
  BY <1>3, <1>9, <1>10, <1>22, NumberJoin
<1>13. NumberIn(t1, g2, n2)
  BY <1>9, <1>11, <1>12, NumberSame
<1>14. NumberIn(t1, g3, n3)
  <2>1. NumberIn(t2, g3, n3)
    BY <1>7, <1>9, <1>12, NumberSame
  <2> QED BY <1>11, <1>12, <2>1, NumberSame
<1>15. NumberIn(t1, g4, n4)
  <2>1. NumberIn(t3, g4, n4)
    BY <1>5, <1>7, <1>12, NumberSame
  <2>2. NumberIn(t2, g4, n4)
    BY <1>9, <1>12, <2>1, NumberSame
  <2> QED BY <1>11, <1>12, <2>2, NumberSame
<1>16. ParametersIn(t1, p)
  BY <1>1, <1>2, <1>11, <1>13, <1>14, <1>15 DEF ParametersIn
<1> QED BY <1>0, <1>11, <1>16 DEF BodyRead

\* What createInitiateRequestPdu and createInitiateResponse put in front of the detail.
LEMMA InitiateBody ==
  ASSUME NEW p \in Fitting, NEW D, Measures(D, 22)
  PROVE  \E L, B :
           /\ InitiateParameters[p] \in Octets
           /\ L = (2 + UInt32DetermineEncodedSize(FourOctets(p.maxPduSize)))
                  + (2 + UInt32DetermineEncodedSize(FourOctets(p.calling)))
                  + (2 + UInt32DetermineEncodedSize(FourOctets(p.called)))
                  + (2 + UInt32DetermineEncodedSize(FourOctets(p.nesting))) + (14 + 5 + 3) + 2
           /\ L \in 36 .. 52
           /\ EncodeTL(164, 22) \in Octets /\ D \in Octets
           /\ InitiateParameters[p] ++ (EncodeTL(164, 22) ++ D) = B
           /\ Measures(B, L) /\ BodyRead(B, p)
<1>1. PICK g1 \in Octet, g2 \in Octet, g3 \in Octet, g4 \in Octet, g5 \in Octet :
        g1 = 128 /\ g2 = 129 /\ g3 = 130 /\ g4 = 131 /\ g5 = 164
  BY DEF Octet
<1>2. PICK n1 \in Nat, n2 \in Nat, n3 \in Nat, n4 \in Nat :
        /\ n1 = p.maxPduSize /\ n2 = p.calling /\ n3 = p.called /\ n4 = p.nesting
        /\ InTwoOctets(n1) /\ InTwoOctets(n2) /\ InTwoOctets(n3) /\ InTwoOctets(n4)
  BY DEF Fitting, Parameters
<1>3. PICK w1, l1 : /\ w1 = EncodeUInt32WithTL(g1, FourOctets(n1)) /\ NumberRead(w1, l1, g1, n1)
                    /\ l1 = 2 + UInt32DetermineEncodedSize(FourOctets(n1))
  BY <1>2, NumberElement
<1>4. PICK w2, l2 : /\ w2 = EncodeUInt32WithTL(g2, FourOctets(n2)) /\ NumberRead(w2, l2, g2, n2)
                    /\ l2 = 2 + UInt32DetermineEncodedSize(FourOctets(n2))
  BY <1>2, NumberElement
<1>5. PICK w3, l3 : /\ w3 = EncodeUInt32WithTL(g3, FourOctets(n3)) /\ NumberRead(w3, l3, g3, n3)
                    /\ l3 = 2 + UInt32DetermineEncodedSize(FourOctets(n3))
  BY <1>2, NumberElement
<1>6. PICK w4, l4 : /\ w4 = EncodeUInt32WithTL(g4, FourOctets(n4)) /\ NumberRead(w4, l4, g4, n4)
                    /\ l4 = 2 + UInt32DetermineEncodedSize(FourOctets(n4))
  BY <1>2, NumberElement
<1>7. PICK m : m = 22 /\ m < 128 /\ Measures(D, m)
  OBVIOUS
<1>8. PICK E \in Octets, H \in Octets : /\ H = EncodeTL(g5, m) /\ E = Wrap(g5, D) /\ H ++ D = E
                                        /\ Measures(E, m + 2) /\ D \in Octets
  BY <1>7, MeasuredHeader
<1>9. PICK u \in TlvSeq : Splits(E, u) /\ OnlyTags(u, {g5}) /\ u # <<>> /\ WellFormed(u)
  BY <1>7, <1>8, MeasuredReads
<1>10. /\ Measures(w1, l1) /\ Measures(w2, l2) /\ Measures(w3, l3) /\ Measures(w4, l4)
       /\ l1 \in 3 .. 7 /\ l2 \in 3 .. 7 /\ l3 \in 3 .. 7 /\ l4 \in 3 .. 7
  BY <1>3, <1>4, <1>5, <1>6 DEF NumberRead
<1>11. w1 \in Octets /\ w2 \in Octets /\ w3 \in Octets /\ w4 \in Octets
  BY <1>10 DEF Measures
<1>12. PICK x : x = InitiateParameters[p] /\ x = w1 ++ w2 ++ w3 ++ w4 /\ x \in Octets
  <2>1. InitiateParameters[p] = w1 \o w2 \o w3 \o w4
    <3>1. p \in Parameters
      BY DEF Fitting
    <3> QED BY <3>1, <1>1, <1>2, <1>3, <1>4, <1>5, <1>6 DEF InitiateParameters
  <2>2. InitiateParameters[p] = w1 ++ w2 ++ w3 ++ w4
    BY <2>1 DEF ++
  <2>3. w1 ++ w2 ++ w3 ++ w4 \in Octets
    BY <1>11, Nest4
  <2> QED BY <2>2, <2>3
<1>13. PICK v4 : v4 = w4 ++ E /\ Measures(v4, l4 + (m + 2))
  BY <1>8, <1>10, MeasuresJoin
<1>14. PICK v3 : v3 = w3 ++ v4 /\ Measures(v3, l3 + (l4 + (m + 2)))
  BY <1>10, <1>13, MeasuresJoin
<1>15. PICK v2 : v2 = w2 ++ v3 /\ Measures(v2, l2 + (l3 + (l4 + (m + 2))))
  BY <1>10, <1>14, MeasuresJoin
<1>16. PICK v1 : v1 = w1 ++ v2 /\ Measures(v1, l1 + (l2 + (l3 + (l4 + (m + 2)))))
  BY <1>10, <1>15, MeasuresJoin
<1>17. x ++ E = v1
  <2>1. w1 ++ w2 ++ w3 ++ w4 ++ E = w1 ++ (w2 ++ (w3 ++ (w4 ++ E)))
    BY <1>11, Nest5
  <2> QED BY <2>1, <1>12, <1>13, <1>14, <1>15, <1>16
<1>18. BodyRead(v1, p)
  <2>1. /\ NumberRead(w1, l1, 128, p.maxPduSize) /\ NumberRead(w2, l2, 129, p.calling)
        /\ NumberRead(w3, l3, 130, p.called) /\ NumberRead(w4, l4, 131, p.nesting)
    BY <1>1, <1>2, <1>3, <1>4, <1>5, <1>6
  <2>2. Splits(E, u) /\ OnlyTags(u, {164}) /\ u # <<>> /\ WellFormed(u)
    BY <1>1, <1>9
  <2>3. BodyRead(w1 ++ (w2 ++ (w3 ++ (w4 ++ E))), p)
    BY <2>1, <2>2, FourNumbers
  <2> QED BY <2>3, <1>13, <1>14, <1>15, <1>16
<1>19. PICK L \in 36 .. 52 : /\ L = l1 + (l2 + (l3 + (l4 + (m + 2)))) /\ L = l1 + l2 + l3 + l4 + (14 + 5 + 3) + 2
  BY <1>7, <1>10
<1>20. EncodeTL(164, 22) = H
  BY <1>1, <1>7, <1>8
<1>21. L = (2 + UInt32DetermineEncodedSize(FourOctets(p.maxPduSize)))
             + (2 + UInt32DetermineEncodedSize(FourOctets(p.calling)))
             + (2 + UInt32DetermineEncodedSize(FourOctets(p.called)))
             + (2 + UInt32DetermineEncodedSize(FourOctets(p.nesting))) + (14 + 5 + 3) + 2
  BY <1>2, <1>3, <1>4, <1>5, <1>6, <1>19
<1>22. Measures(v1, L)
  BY <1>16, <1>19
<1>23. InitiateParameters[p] \in Octets /\ InitiateParameters[p] ++ (EncodeTL(164, 22) ++ D) = v1
  BY <1>8, <1>12, <1>17, <1>20
<1> QED BY <1>8, <1>18, <1>20, <1>21, <1>22, <1>23

\* A function on 1 .. n is a sequence of n elements.
LEMMA AsSequence ==
  ASSUME NEW n \in Nat, NEW s \in [1 .. n -> Octet]
  PROVE  Measures(s, n)
<1>1. s \in Seq(Octet) /\ Len(s) = n
  BY IsASeq
<1> QED BY <1>1 DEF Measures, Octets

\* n octets that are zero.
LEMMA ZerosAre ==
  ASSUME NEW n \in Nat
  PROVE  Measures(Zeros(n), n)
<1>1. 0 \in Octet
  BY DEF Octet
<1>2. PICK s \in [1 .. n -> Octet] : s = [i \in 1 .. n |-> 0]
  BY <1>1
<1>3. Measures(s, n)
  BY AsSequence
<1>4. Zeros(n) = <<>> \o s
  BY <1>2 DEF Zeros
<1>5. <<>> \o s = s
  BY <1>3, JoinEmpty DEF Measures
<1> QED BY <1>3, <1>4, <1>5

\* The octets of a bit string, the last one with its unused bits cleared.
LEMMA BitStringIs ==
  ASSUME NEW g \in Octet, NEW bits, NEW octets, NEW n \in 1 .. 100, n = ByteSize(bits),
         NEW pad \in Octet, pad = Padding(bits),
         \A i \in 1 .. n : octets[i] \in Octet, MaskLow(octets[n], pad) \in Octet
  PROVE  Measures(EncodeBitString(g, bits, octets), n + 3)
<1>1. n \in Nat /\ n + 1 \in Nat /\ n + 1 < 128
  OBVIOUS
<1>2. PICK s \in [1 .. n -> Octet] :
        s = [i \in 1 .. n |-> IF i = n THEN MaskLow(octets[i], pad) ELSE octets[i]]
  <2>1. \A i \in 1 .. n : (IF i = n THEN MaskLow(octets[i], pad) ELSE octets[i]) \in Octet
    OBVIOUS
  <2> QED BY <2>1
<1>3. Measures(s, n)
  BY <1>1, AsSequence
<1>4. PICK a : a = <<pad>> /\ Measures(a, 1)
  BY MeasuredTuples
<1>5. PICK v : v = a ++ s /\ Measures(v, 1 + n)
  BY <1>3, <1>4, MeasuresJoin
<1>6. PICK m \in Nat : m = n + 1 /\ m < 128 /\ Measures(v, m)
  <2>1. n + 1 = 1 + n
    OBVIOUS
  <2> QED BY <1>1, <1>5, <2>1
<1>7. /\ EncodeTL(g, m) \in Octets /\ EncodeTL(g, m) ++ v = Wrap(g, v) /\ Measures(Wrap(g, v), m + 2)
  BY <1>6, MeasuredHeader
<1>8. PICK h \in Octets : h = EncodeTL(g, n + 1)
  BY <1>6, <1>7
<1>9. EncodeBitString(g, bits, octets) = h ++ a ++ s
  <2>1. EncodeBitString(g, bits, octets) = h \o a \o s
    BY <1>2, <1>4, <1>8 DEF EncodeBitString
  <2> QED BY <2>1 DEF ++
<1>10. h ++ a ++ s = h ++ v
  <2>1. a \in Octets /\ s \in Octets
    BY <1>3, <1>4 DEF Measures
  <2> QED BY <1>5, <2>1, Nest3
<1>11. n + 3 = m + 2
  BY <1>6
<1>12. h ++ v = Wrap(g, v)
  BY <1>6, <1>7, <1>8
<1> QED BY <1>7, <1>9, <1>10, <1>11, <1>12

\* What the masks of the last octet are made of.
LEMMA Masks == 2 ^ 5 = 32 /\ 2 ^ 3 = 8
  OBVIOUS

\* The detail of the answer: version, parameter CBB and services.
LEMMA DetailIs ==
  \E a, b, c :
    /\ a = EncodeUInt32WithTL(128, FourOctets(1)) /\ b = EncodeBitString(129, 11, <<241, 0>>)
    /\ c = EncodeBitString(130, 85, <<238, 28, 0, 0, 0, 0, 0, 0, 0, 237, 24>>)
    /\ a \in Octets /\ b \in Octets /\ c \in Octets /\ Measures(a ++ b ++ c, 22)
<1>1. PICK g \in Octet, h \in Octet, k \in Octet : g = 128 /\ h = 129 /\ k = 130
  BY DEF Octet
<1>2. PICK a : a = EncodeUInt32WithTL(128, FourOctets(1)) /\ Measures(a, 3)
  <2>1. PICK n \in Nat : n = 1 /\ n < 128 /\ InTwoOctets(n)
    BY DEF InTwoOctets
  <2>2. PICK f \in Octets : f = FourOctets(n) /\ Len(f) = 4 /\ Len(EncodeUInt32(f)) = 1
    BY <2>1, Numbers
  <2>3. /\ EncodeUInt32WithTL(g, f) = Wrap(g, EncodeUInt32(f)) /\ EncodeUInt32(f) \in Octets
    BY <2>2, IntegerElement
  <2>4. PICK e, m : e = EncodeUInt32(f) /\ m = 1 /\ m < 128 /\ Measures(e, m)
    <3>1. PICK e \in Octets : e = EncodeUInt32(f) /\ Len(e) = 1
      BY <2>2, <2>3
    <3>2. Measures(e, 1)
      BY <3>1 DEF Measures
    <3> QED BY <3>1, <3>2
  <2>5. Measures(Wrap(g, e), m + 2)
    BY <2>4, MeasuredHeader
  <2>6. m + 2 = 3
    BY <2>4
  <2>7. PICK a : a = EncodeUInt32WithTL(g, f) /\ Measures(a, 3)
    BY <2>3, <2>4, <2>5, <2>6
  <2> QED BY <1>1, <2>1, <2>2, <2>7
<1>3. PICK b : b = EncodeBitString(129, 11, <<241, 0>>) /\ Measures(b, 5)
  <2>1. PICK n \in 1 .. 100, bits, pad \in Octet :
          n = 2 /\ bits = 11 /\ pad = 5 /\ n = ByteSize(bits) /\ pad = Padding(bits)
    BY DEF ByteSize, Padding, Octet
  <2>2. 241 \in Octet /\ 0 \in Octet
    BY DEF Octet
  <2>3. PICK o : o = <<241, 0>> /\ (\A i \in 1 .. n : o[i] \in Octet) /\ o[n] = 0
    <3>0. <<241, 0>>[1] = 241 /\ <<241, 0>>[2] = 0
      OBVIOUS
    <3>1. PICK o : o = <<241, 0>> /\ o[1] = 241 /\ o[2] = 0
      BY <3>0
    <3>2. \A i \in 1 .. 2 : i = 1 \/ i = 2
      OBVIOUS
    <3>3. \A i \in 1 .. 2 : o[i] \in Octet
      BY <2>2, <3>1, <3>2
    <3> QED BY <2>1, <3>1, <3>3
  <2>4. MaskLow(o[n], pad) \in Octet
    BY <2>1, <2>3, Masks DEF MaskLow, Octet
  <2>5. Measures(EncodeBitString(h, bits, o), n + 3)
    BY <2>1, <2>3, <2>4, BitStringIs
  <2>6. n + 3 = 5
    BY <2>1
  <2>7. PICK b : b = EncodeBitString(h, bits, o) /\ Measures(b, 5)
    BY <2>5, <2>6
  <2> QED BY <1>1, <2>1, <2>3, <2>7
<1>4. PICK c : c = EncodeBitString(130, 85, <<238, 28, 0, 0, 0, 0, 0, 0, 0, 237, 24>>) /\ Measures(c, 14)
  <2>1. PICK n \in 1 .. 100, bits, pad \in Octet :
          n = 11 /\ bits = 85 /\ pad = 3 /\ n = ByteSize(bits) /\ pad = Padding(bits)
    BY DEF ByteSize, Padding, Octet
  <2>2. 238 \in Octet /\ 28 \in Octet /\ 0 \in Octet /\ 237 \in Octet /\ 24 \in Octet
    BY DEF Octet
  <2>3. PICK o : o = <<238, 28, 0, 0, 0, 0, 0, 0, 0, 237, 24>> /\ (\A i \in 1 .. 11 : o[i] \in Octet) /\ o[11] = 24
    <3>0. /\ <<238, 28, 0, 0, 0, 0, 0, 0, 0, 237, 24>>[1] = 238
          /\ <<238, 28, 0, 0, 0, 0, 0, 0, 0, 237, 24>>[2] = 28
          /\ <<238, 28, 0, 0, 0, 0, 0, 0, 0, 237, 24>>[3] = 0
          /\ <<238, 28, 0, 0, 0, 0, 0, 0, 0, 237, 24>>[4] = 0
          /\ <<238, 28, 0, 0, 0, 0, 0, 0, 0, 237, 24>>[5] = 0
          /\ <<238, 28, 0, 0, 0, 0, 0, 0, 0, 237, 24>>[6] = 0
          /\ <<238, 28, 0, 0, 0, 0, 0, 0, 0, 237, 24>>[7] = 0
          /\ <<238, 28, 0, 0, 0, 0, 0, 0, 0, 237, 24>>[8] = 0
          /\ <<238, 28, 0, 0, 0, 0, 0, 0, 0, 237, 24>>[9] = 0
          /\ <<238, 28, 0, 0, 0, 0, 0, 0, 0, 237, 24>>[10] = 237
          /\ <<238, 28, 0, 0, 0, 0, 0, 0, 0, 237, 24>>[11] = 24
      OBVIOUS
    <3>1. PICK o : /\ o = <<238, 28, 0, 0, 0, 0, 0, 0, 0, 237, 24>> /\ o[1] = 238 /\ o[2] = 28 /\ o[3] = 0 /\ o[4] = 0
                   /\ o[5] = 0 /\ o[6] = 0 /\ o[7] = 0 /\ o[8] = 0 /\ o[9] = 0 /\ o[10] = 237 /\ o[11] = 24
      BY <3>0
    <3>2. \A i \in 1 .. 11 : \/ i = 1 \/ i = 2 \/ i = 3 \/ i = 4 \/ i = 5 \/ i = 6
                             \/ i = 7 \/ i = 8 \/ i = 9 \/ i = 10 \/ i = 11
      OBVIOUS
    <3>3. \A i \in 1 .. 11 : o[i] \in Octet
      BY <2>2, <3>1, <3>2
    <3> QED BY <3>1, <3>3
  <2>4. MaskLow(o[n], pad) \in Octet
    BY <2>1, <2>3, Masks DEF MaskLow, Octet
  <2>5. \A i \in 1 .. n : o[i] \in Octet
    BY <2>1, <2>3
  <2>6. Measures(EncodeBitString(k, bits, o), n + 3)
    BY <2>1, <2>4, <2>5, BitStringIs
  <2>7. n + 3 = 14
    BY <2>1
  <2>8. PICK c : c = EncodeBitString(k, bits, o) /\ Measures(c, 14)
    BY <2>6, <2>7
  <2> QED BY <1>1, <2>1, <2>3, <2>8
<1>5. PICK d : d = a ++ b /\ Measures(d, 3 + 5)
  BY <1>2, <1>3, MeasuresJoin
<1>6. Measures(d ++ c, (3 + 5) + 14)
  BY <1>4, <1>5, MeasuresJoin
<1>7. (3 + 5) + 14 = 22
  OBVIOUS
<1>8. Measures(a ++ b ++ c, 22)
  BY <1>5, <1>6, <1>7
<1>9. a \in Octets /\ b \in Octets /\ c \in Octets
  BY <1>2, <1>3, <1>4 DEF Measures
<1> QED BY <1>2, <1>3, <1>4, <1>8, <1>9

\* The first element of what encloses a body.
LEMMA FirstElement ==
  ASSUME NEW g \in Octet, NEW v, NEW n, Measures(v, n), n < 128
  PROVE  Tlvs[Wrap(g, v)] \in TlvSeq /\ Tlvs[Wrap(g, v)][1].val = v
<1>1. Short16(v)
  BY MeasuredHeader
<1>2. Splits(Wrap(g, v), <<Element(g, v)>>)
  BY <1>1, WrapReads
<1>3. Tlvs[Wrap(g, v)] = <<Element(g, v)>>
  BY <1>2, ReadsAll
<1>4. <<Element(g, v)>> \in TlvSeq
  BY <1>2 DEF Splits
<1>5. Element(g, v).val = v /\ <<Element(g, v)>>[1] = Element(g, v)
  BY DEF Element
<1> QED BY <1>3, <1>4, <1>5

\* What parseInitiateRequestPdu makes of the numbers of the client.
Settling(p) ==
  [maxPduSize |-> Least(p.maxPduSize, ServerMaxPdu), calling |-> Least(p.calling, DefaultOutstanding),
   called |-> Least(p.called, DefaultOutstanding), nesting |-> p.nesting]

\* The server settles for the lesser of what is offered and its own.
LEMMA BodyNegotiated ==
  ASSUME NEW p, NEW b, BodyRead(b, p)
  PROVE  NegotiatedOf[Tlvs[b]] = Settling(p)
<1>1. PICK t \in TlvSeq : Splits(b, t) /\ ParametersIn(t, p)
  BY DEF BodyRead
<1>2. Tlvs[b] = t
  BY <1>1, ReadsAll
<1>3. /\ Unsigned(Get(t, 128)) = p.maxPduSize /\ Unsigned(Get(t, 129)) = p.calling
      /\ Unsigned(Get(t, 130)) = p.called /\ Unsigned(Get(t, 131)) = p.nesting
  BY <1>1 DEF ParametersIn, NumberIn
<1>4. NegotiatedOf[t] = Negotiated(t)
  BY DEF NegotiatedOf
<1>5. Negotiated(t) = Settling(p)
  BY <1>3 DEF Negotiated, Settling
<1> QED BY <1>2, <1>4, <1>5

\* parseInitiateRequestPdu reads the offer that createInitiateRequestPdu wrote.
LEMMA RequestIs ==
  ASSUME NEW p \in Fitting
  PROVE  \E n : /\ n \in 0 .. 60 /\ Measures(InitiateRequest[p], n)
                /\ NegotiatedBy[InitiateRequest[p]] = Settling(p)
<1>1. PICK g \in Octet : g = 168
  BY DEF Octet
<1>2. PICK D : D = Zeros(22) /\ Measures(D, 22)
  BY ZerosAre
<1>3. PICK I, H, L, B :
        /\ I \in Octets /\ H \in Octets /\ L \in 36 .. 52 /\ I = InitiateParameters[p] /\ H = EncodeTL(164, 22) /\ D \in Octets
        /\ I ++ (H ++ D) = B /\ Measures(B, L) /\ BodyRead(B, p)
  BY <1>2, InitiateBody
<1>4. PICK n \in Nat : n = L /\ n < 128 /\ n \in 36 .. 52 /\ Measures(B, n)
  BY <1>3
<1>5. /\ EncodeTL(g, n) ++ B = Wrap(g, B) /\ Measures(Wrap(g, B), n + 2) /\ Wrap(g, B) \in Octets
  BY <1>4, MeasuredHeader
<1>6. InitiateRequest[p] = Wrap(g, B)
  <2>1. p \in Parameters
    BY DEF Fitting
  <2>2. PICK body : body = InitiateParameters[p] \o EncodeTL(164, 22) \o Zeros(22)
    OBVIOUS
  <2>3. InitiateRequest[p] = EncodeTL(168, Len(body)) \o body
    BY <2>1, <2>2 DEF InitiateRequest
  <2>4. body = I ++ H ++ D
    BY <1>2, <1>3, <2>2 DEF ++
  <2>5. body = B
    <3>1. I \in Octets /\ H \in Octets /\ D \in Octets
      BY <1>3
    <3>2. I ++ H ++ D = I ++ (H ++ D)
      BY <3>1, Nest3
    <3> QED BY <1>3, <2>4, <3>2
  <2>6. n = Len(body)
    BY <1>4, <2>5 DEF Measures
  <2>7. InitiateRequest[p] = EncodeTL(g, n) ++ B
    BY <1>1, <2>3, <2>5, <2>6 DEF ++
  <2> QED BY <1>5, <2>7
<1>7. NegotiatedBy[Wrap(g, B)] = NegotiatedOf[Tlvs[B]]
  <2>1. PICK w \in Octets : w = Wrap(g, B)
    BY <1>5
  <2>2. Tlvs[w][1].val = B
    BY <1>4, <2>1, FirstElement
  <2>3. NegotiatedBy[w] = NegotiatedOf[Tlvs[Tlvs[w][1].val]]
    BY DEF NegotiatedBy
  <2> QED BY <2>1, <2>2, <2>3
<1>8. NegotiatedOf[Tlvs[B]] = Settling(p)
  BY <1>3, BodyNegotiated
<1>9. PICK m \in 0 .. 60 : m = n + 2
  BY <1>4
<1> QED BY <1>5, <1>6, <1>7, <1>8, <1>9

\* The client takes the parameters as they are in the answer.
LEMMA BodyAnswered ==
  ASSUME NEW p \in Parameters, NEW b, BodyRead(b, p), NEW w \in Octets, Tlvs[w][1].val = b
  PROVE  ParseInitiateResponse[w] = p
<1>1. PICK t \in TlvSeq : Splits(b, t) /\ ParametersIn(t, p)
  BY DEF BodyRead
<1>2. Tlvs[b] = t
  BY <1>1, ReadsAll
<1>3. /\ Unsigned(Get(t, 128)) = p.maxPduSize /\ Unsigned(Get(t, 129)) = p.calling
      /\ Unsigned(Get(t, 130)) = p.called /\ Unsigned(Get(t, 131)) = p.nesting
  BY <1>1 DEF ParametersIn, NumberIn
<1>4. ParseInitiateResponse[w] =
        [maxPduSize |-> Unsigned(Get(t, 128)), calling |-> Unsigned(Get(t, 129)),
         called |-> Unsigned(Get(t, 130)), nesting |-> Unsigned(Get(t, 131))]
  BY <1>2 DEF ParseInitiateResponse
<1>5. p = [maxPduSize |-> p.maxPduSize, calling |-> p.calling, called |-> p.called, nesting |-> p.nesting]
  BY DEF Parameters
<1> QED BY <1>3, <1>4, <1>5

\* mmsClient_parseInitiateResponse reads the parameters that createInitiateResponse wrote.
LEMMA ResponseIs ==
  ASSUME NEW p \in Fitting
  PROVE  \E n : /\ n \in 1 .. 60 /\ Measures(InitiateResponse[p], n)
                /\ ParseInitiateResponse[InitiateResponse[p]] = p
<1>0. p \in Parameters
  BY DEF Fitting
<1>1. PICK g \in Octet : g = 169
  BY DEF Octet
<1>2. PICK a, b, c : /\ a = EncodeUInt32WithTL(128, FourOctets(1)) /\ b = EncodeBitString(129, 11, <<241, 0>>)
                     /\ c = EncodeBitString(130, 85, <<238, 28, 0, 0, 0, 0, 0, 0, 0, 237, 24>>)
                     /\ a \in Octets /\ b \in Octets /\ c \in Octets /\ Measures(a ++ b ++ c, 22)
  BY DetailIs
<1>3. PICK D : D = a ++ b ++ c /\ Measures(D, 22)
  BY <1>2
<1>4. PICK I, H, L, B :
        /\ I \in Octets /\ H \in Octets /\ L \in 36 .. 52 /\ I = InitiateParameters[p] /\ H = EncodeTL(164, 22) /\ D \in Octets
        /\ L = (2 + UInt32DetermineEncodedSize(FourOctets(p.maxPduSize)))
                  + (2 + UInt32DetermineEncodedSize(FourOctets(p.calling)))
                  + (2 + UInt32DetermineEncodedSize(FourOctets(p.called)))
                  + (2 + UInt32DetermineEncodedSize(FourOctets(p.nesting))) + (14 + 5 + 3) + 2
        /\ I ++ (H ++ D) = B /\ Measures(B, L) /\ BodyRead(B, p)
  BY <1>3, InitiateBody
<1>5. PICK n \in Nat : n = L /\ n < 128 /\ n \in 36 .. 52 /\ Measures(B, n)
  BY <1>4
<1>6. /\ EncodeTL(g, n) ++ B = Wrap(g, B) /\ Measures(Wrap(g, B), n + 2) /\ Wrap(g, B) \in Octets
      /\ EncodeTL(g, n) \in Octets
  BY <1>5, MeasuredHeader
<1>7. InitiateResponse[p] = Wrap(g, B)
  <2>1. PICK h \in Octets : h = EncodeTL(g, n)
    BY <1>6
  <2>2. InitiateResponse[p] = h \o I \o H \o a \o b \o c
    <3>1. (2 + UInt32DetermineEncodedSize(FourOctets(p.maxPduSize)))
             + (2 + UInt32DetermineEncodedSize(FourOctets(p.calling)))
             + (2 + UInt32DetermineEncodedSize(FourOctets(p.called)))
             + (2 + UInt32DetermineEncodedSize(FourOctets(p.nesting))) + (14 + 5 + 3) + 2 = n
      BY <1>4, <1>5
    <3>2. PICK l : /\ l = n /\ h = EncodeTL(169, l)
                   /\ l = (2 + UInt32DetermineEncodedSize(FourOctets(p.maxPduSize)))
                          + (2 + UInt32DetermineEncodedSize(FourOctets(p.calling)))
                          + (2 + UInt32DetermineEncodedSize(FourOctets(p.called)))
                          + (2 + UInt32DetermineEncodedSize(FourOctets(p.nesting))) + (14 + 5 + 3) + 2
      BY <1>1, <2>1, <3>1
    <3>3. I = InitiateParameters[p] /\ H = EncodeTL(164, 22)
      BY <1>4
    <3> QED BY <1>0, <1>2, <3>2, <3>3 DEF InitiateResponse
  <2>3. InitiateResponse[p] = h ++ I ++ H ++ a ++ b ++ c
    BY <2>2 DEF ++
  <2>8. h \in Octets /\ I \in Octets /\ H \in Octets /\ D \in Octets
    BY <1>4, <2>1
  <2>4. PICK k \in Octets : k = h ++ I ++ H
    BY <2>8, Nest3
  <2>5. k ++ a ++ b ++ c = k ++ D
    <3>0. a \in Octets /\ b \in Octets /\ c \in Octets
      BY <1>2
    <3>1. k ++ a ++ b ++ c = k ++ (a ++ (b ++ c))
      BY <3>0, Nest4
    <3>2. a ++ b ++ c = a ++ (b ++ c)
      BY <3>0, Nest3
    <3> QED BY <1>3, <3>1, <3>2
  <2>6. h ++ I ++ H ++ D = h ++ (I ++ (H ++ D))
    BY <2>8, Nest4
  <2> QED BY <1>4, <1>6, <2>1, <2>3, <2>4, <2>5, <2>6
<1>8. ParseInitiateResponse[Wrap(g, B)] = p
  <2>1. PICK w \in Octets : w = Wrap(g, B)
    BY <1>6
  <2>2. Tlvs[w][1].val = B
    BY <1>5, <2>1, FirstElement
  <2>3. ParseInitiateResponse[w] = p
    BY <1>0, <1>4, <2>2, BodyAnswered
  <2> QED BY <2>1, <2>3
<1>9. PICK m \in 1 .. 60 : m = n + 2
  BY <1>5
<1> QED BY <1>6, <1>7, <1>8, <1>9

-----------------------------------------------------------------------------
(***************************************************************************)
(* Session                                                                 *)
(***************************************************************************)
\* What is behind a parameter of m octets.
LEMMA Skipped ==
  ASSUME NEW b \in Octets, Len(b) >= 2, NEW m \in Nat
  PROVE  SubSeq(b, 3 + m, Len(b)) \in Octets /\ Len(SubSeq(b, 3 + m, Len(b))) < Len(b)
<1>1. PICK n \in Nat : n = Len(b) /\ n >= 2
  BY OctetsAre
<1>2. \A i \in 3 + m .. n : b[i] \in Octet
  BY <1>1, OctetsAre
<1>3. /\ SubSeq(b, 3 + m, n) \in Seq(Octet)
      /\ Len(SubSeq(b, 3 + m, n)) = IF 3 + m <= n THEN n - (3 + m) + 1 ELSE 0
  BY <1>2, SubSeqProperties
<1>4. Len(SubSeq(b, 3 + m, n)) < n
  BY <1>1, <1>3
<1> QED BY <1>1, <1>3, <1>4 DEF Octets

\* The loop over the parameters: it stops, or skips some octets behind the
\* identifier and the length.
Loops(f, stop, base, comb, skip) ==
  \A b \in Octets : f[b] = IF b \in stop THEN base[b]
                           ELSE comb[<<b, f[SubSeq(b, 3 + skip[b], Len(b))]>>]

\* Such a loop ends on every sequence of octets.
LEMMA SessionLoop ==
  ASSUME NEW V, NEW stop, NEW base \in [Octets -> V], NEW comb \in [Octets \X V -> V],
         NEW skip \in [Octets -> Nat], \A b \in Octets : b \notin stop => Len(b) >= 2
  PROVE  \E f \in [Octets -> V] : Loops(f, stop, base, comb, skip)
<1> DEFINE next == [b \in Octets |-> IF b \in stop THEN b ELSE SubSeq(b, 3 + skip[b], Len(b))]
           size == [b \in Octets |-> Len(b)]
<1>1. next \in [Octets -> Octets]
  BY Skipped
<1>2. size \in [Octets -> Nat]
  BY OctetsAre
<1>3. \A b \in Octets : b \notin stop => size[next[b]] < size[b]
  BY Skipped
<1>4. \A b \in Octets : b \notin stop => next[b] = SubSeq(b, 3 + skip[b], Len(b))
  OBVIOUS
<1> HIDE DEF next, size
<1>5. PICK f \in [Octets -> V] : Recursive(f, Octets, stop, base, comb, next)
  BY <1>1, <1>2, <1>3, RecursiveFunction
<1>6. Loops(f, stop, base, comb, skip)
  BY <1>4, <1>5 DEF Recursive, Loops
<1> QED BY <1>6

(* parseAcceptParameters                                                   *)
AcceptStops(b) ==
  \/ Len(b) < 2
  \/ b[1] = 19 /\ b[2] # 1
  \/ b[1] = 22 /\ b[3] # 2

AcceptSkip(b) ==
  CASE b[1] = 19 -> 1 [] b[1] = 22 -> 1 [] b[1] = 21 -> 4 [] b[1] = 26 -> 1
    [] b[1] \in {23, 55, 56, 57, 58} -> b[2] [] OTHER -> 0

AcceptEnd(b) == IF b = <<>> THEN {} ELSE {Malformed}

\* One turn of the loop, for any octets.
LEMMA AcceptParametersOf ==
  ASSUME NEW b \in Octets
  PROVE  AcceptParameters[b] = IF AcceptStops(b) THEN AcceptEnd(b)
                               ELSE {b[1]} \cup AcceptParameters[SubSeq(b, 3 + AcceptSkip(b), Len(b))]
<1> DEFINE stop == {x \in Octets : AcceptStops(x)}
           base == [x \in Octets |-> AcceptEnd(x)]
           comb == [p \in Octets \X SUBSET Int |-> IF p[1] \in stop THEN {} ELSE {p[1][1]} \cup p[2]]
           skip == [x \in Octets |-> IF x \in stop THEN 0 ELSE AcceptSkip(x)]
           Step(f, x) == IF AcceptStops(x) THEN AcceptEnd(x)
                         ELSE {x[1]} \cup f[SubSeq(x, 3 + AcceptSkip(x), Len(x))]
<1>1. base \in [Octets -> SUBSET Int]
  BY DEF AcceptEnd, Malformed
<1>2. ASSUME NEW x \in Octets, x \notin stop
      PROVE  x[1] \in Octet /\ x[2] \in Octet /\ Len(x) >= 2
  <2>1. Len(x) \in Nat /\ Len(x) >= 2
    BY <1>2, OctetsAre DEF AcceptStops
  <2>2. 1 \in 1 .. Len(x) /\ 2 \in 1 .. Len(x)
    BY <2>1
  <2> QED BY <2>1, <2>2, OctetsAre
<1>3. \A o \in Octet : o \in Int /\ o \in Nat
  BY DEF Octet
<1>4. comb \in [Octets \X SUBSET Int -> SUBSET Int]
  BY <1>2, <1>3
<1>5. skip \in [Octets -> Nat]
  BY <1>2, <1>3 DEF AcceptSkip
<1>6. \A x \in Octets : x \notin stop => Len(x) >= 2
  BY <1>2
<1>7. \A x \in Octets : (x \in stop) <=> AcceptStops(x)
  OBVIOUS
<1>8. \A x \in Octets : x \notin stop => skip[x] = AcceptSkip(x)
  OBVIOUS
<1>9. \A x \in Octets, v \in SUBSET Int : x \notin stop => comb[<<x, v>>] = {x[1]} \cup v
  OBVIOUS
<1>10. \A x \in Octets : base[x] = AcceptEnd(x)
  OBVIOUS
<1> HIDE DEF stop, base, comb, skip
<1>11. PICK g \in [Octets -> SUBSET Int] : Loops(g, stop, base, comb, skip)
  BY <1>1, <1>4, <1>5, <1>6, SessionLoop
<1>12. ASSUME NEW x \in Octets PROVE g[x] = Step(g, x)
  <2>1. g[x] = IF x \in stop THEN base[x] ELSE comb[<<x, g[SubSeq(x, 3 + skip[x], Len(x))]>>]
    BY <1>11 DEF Loops
  <2>2. CASE x \in stop
    BY <2>1, <2>2, <1>7, <1>10
  <2>3. CASE x \notin stop
    <3>1. SubSeq(x, 3 + skip[x], Len(x)) \in Octets
      BY <2>3, <1>5, <1>6, Skipped
    <3>2. PICK y \in Octets : y = SubSeq(x, 3 + skip[x], Len(x)) /\ y = SubSeq(x, 3 + AcceptSkip(x), Len(x))
      BY <2>3, <3>1, <1>8
    <3>3. g[y] \in SUBSET Int
      OBVIOUS
    <3>4. g[x] = {x[1]} \cup g[y]
      BY <2>1, <2>3, <3>2, <3>3, <1>9
    <3> QED BY <2>3, <3>2, <3>4, <1>7
  <2> QED BY <2>2, <2>3
<1>13. g = [x \in Octets |-> Step(g, x)]
  <2> HIDE DEF Step
  <2> QED BY <1>12
<1>14. AcceptParameters = CHOOSE f : f = [x \in Octets |-> Step(f, x)]
  <2>1. ASSUME NEW f, NEW x \in Octets
        PROVE  (IF Len(x) < 2 THEN IF x = <<>> THEN {} ELSE {Malformed}
                ELSE CASE x[1] = 19 -> IF x[2] = 1 THEN {x[1]} \cup f[SubSeq(x, 3 + 1, Len(x))] ELSE {Malformed}
                       [] x[1] = 22 -> IF x[3] = 2 THEN {x[1]} \cup f[SubSeq(x, 3 + 1, Len(x))] ELSE {Malformed}
                       [] x[1] = 21 -> {x[1]} \cup f[SubSeq(x, 3 + 4, Len(x))]
                       [] x[1] = 26 -> {x[1]} \cup f[SubSeq(x, 3 + 1, Len(x))]
                       [] x[1] \in {23, 55, 56, 57, 58} -> {x[1]} \cup f[SubSeq(x, 3 + x[2], Len(x))]
                       [] OTHER -> {x[1]} \cup f[SubSeq(x, 3 + 0, Len(x))]) = Step(f, x)
    <3>1. CASE Len(x) < 2
      BY <3>1 DEF AcceptStops, AcceptEnd
    <3>2. CASE ~(Len(x) < 2)
      <4>1. x # <<>>
        BY <3>2, EmptySeq
      <4>2. CASE x[1] = 19
        BY <3>2, <4>1, <4>2 DEF AcceptStops, AcceptEnd, AcceptSkip
      <4>3. CASE x[1] = 22
        BY <3>2, <4>1, <4>3 DEF AcceptStops, AcceptEnd, AcceptSkip
      <4>4. CASE x[1] # 19 /\ x[1] # 22
        <5>1. ~AcceptStops(x)
          BY <3>2, <4>4 DEF AcceptStops
        <5>2. CASE x[1] = 21
          BY <3>2, <4>4, <5>1, <5>2 DEF AcceptSkip
        <5>3. CASE x[1] = 26
          BY <3>2, <4>4, <5>1, <5>3 DEF AcceptSkip
        <5>4. CASE x[1] \in {23, 55, 56, 57, 58}
          <6>1. x[1] # 21 /\ x[1] # 26
            BY <5>4
          <6>2. AcceptSkip(x) = x[2]
            BY <4>4, <5>4, <6>1 DEF AcceptSkip
          <6> QED BY <3>2, <4>4, <5>1, <5>4, <6>1, <6>2
        <5>5. CASE x[1] # 21 /\ x[1] # 26 /\ x[1] \notin {23, 55, 56, 57, 58}
          <6>1. AcceptSkip(x) = 0
            BY <4>4, <5>5 DEF AcceptSkip
          <6> QED BY <3>2, <4>4, <5>1, <5>5, <6>1
        <5> QED BY <5>2, <5>3, <5>4, <5>5
      <4> QED BY <4>2, <4>3, <4>4
    <3> QED BY <3>1, <3>2
  <2> HIDE DEF Step
  <2>2. ASSUME NEW f
        PROVE  [x \in Octets |->
                IF Len(x) < 2 THEN IF x = <<>> THEN {} ELSE {Malformed}
                ELSE CASE x[1] = 19 -> IF x[2] = 1 THEN {x[1]} \cup f[SubSeq(x, 3 + 1, Len(x))] ELSE {Malformed}
                       [] x[1] = 22 -> IF x[3] = 2 THEN {x[1]} \cup f[SubSeq(x, 3 + 1, Len(x))] ELSE {Malformed}
                       [] x[1] = 21 -> {x[1]} \cup f[SubSeq(x, 3 + 4, Len(x))]
                       [] x[1] = 26 -> {x[1]} \cup f[SubSeq(x, 3 + 1, Len(x))]
                       [] x[1] \in {23, 55, 56, 57, 58} -> {x[1]} \cup f[SubSeq(x, 3 + x[2], Len(x))]
                       [] OTHER -> {x[1]} \cup f[SubSeq(x, 3 + 0, Len(x))]]
               = [x \in Octets |-> Step(f, x)]
    BY <2>1
  <2> QED BY <2>2 DEF AcceptParameters
<1>15. AcceptParameters = [x \in Octets |-> Step(AcceptParameters, x)]
  <2> HIDE DEF Step
  <2> QED BY <1>13, <1>14
<1> QED BY <1>15

(* parseSessionHeaderParameters                                            *)
ParseStops(b) ==
  \/ Len(b) < 2
  \/ b[1] = 193
  \/ b[1] = 5 /\ ~AcceptParametersOk(AcceptParameters[SubSeq(b, 3, 2 + b[2])])
  \/ b[1] \in {20, 51, 52} /\ b[2] # 2

ParseEnd(b) ==
  IF Len(b) >= 2 /\ b[1] = 193 THEN [ok |-> TRUE, userData |-> SubSeq(b, 3, Len(b))] ELSE NotParsed

ParseSkip(b) == IF b[1] \in {1, 5, 17, 20, 25, 49, 51, 52, 60} THEN b[2] ELSE 0

\* One turn of the loop, for any octets.
LEMMA ParseParametersOf ==
  ASSUME NEW b \in Octets
  PROVE  /\ ParseParameters[b] \in Parsed
         /\ ParseParameters[b] = IF ParseStops(b) THEN ParseEnd(b)
                                 ELSE ParseParameters[SubSeq(b, 3 + ParseSkip(b), Len(b))]
<1> DEFINE stop == {x \in Octets : ParseStops(x)}
           base == [x \in Octets |-> ParseEnd(x)]
           comb == [p \in Octets \X Parsed |-> p[2]]
           skip == [x \in Octets |-> IF x \in stop THEN 0 ELSE ParseSkip(x)]
           Step(f, x) == IF ParseStops(x) THEN ParseEnd(x)
                         ELSE f[SubSeq(x, 3 + ParseSkip(x), Len(x))]
<1>1. base \in [Octets -> Parsed]
  <2>1. ASSUME NEW x \in Octets PROVE ParseEnd(x) \in Parsed
    <3>1. NotParsed \in Parsed
      BY JoinEmpty DEF NotParsed, Parsed, Octets
    <3>2. CASE Len(x) >= 2 /\ x[1] = 193
      <4>1. PICK s \in Octets : s = SubSeq(x, 3, Len(x))
        <5>1. PICK m \in Nat : m = 0 /\ 3 + m = 3
          OBVIOUS
        <5>2. SubSeq(x, 3 + m, Len(x)) \in Octets
          BY <3>2, Skipped
        <5> QED BY <5>1, <5>2
      <4> QED BY <3>2, <4>1 DEF ParseEnd, Parsed
    <3>3. CASE ~(Len(x) >= 2 /\ x[1] = 193)
      BY <3>1, <3>3 DEF ParseEnd
    <3> QED BY <3>2, <3>3
  <2> QED BY <2>1
<1>2. ASSUME NEW x \in Octets, x \notin stop
      PROVE  x[1] \in Octet /\ x[2] \in Octet /\ Len(x) >= 2
  <2>1. Len(x) \in Nat /\ Len(x) >= 2
    BY <1>2, OctetsAre DEF ParseStops
  <2>2. 1 \in 1 .. Len(x) /\ 2 \in 1 .. Len(x)
    BY <2>1
  <2> QED BY <2>1, <2>2, OctetsAre
<1>3. \A o \in Octet : o \in Int /\ o \in Nat
  BY DEF Octet
<1>4. comb \in [Octets \X Parsed -> Parsed]
  OBVIOUS
<1>5. skip \in [Octets -> Nat]
  BY <1>2, <1>3 DEF ParseSkip
<1>6. \A x \in Octets : x \notin stop => Len(x) >= 2
  BY <1>2
<1>7. \A x \in Octets : (x \in stop) <=> ParseStops(x)
  OBVIOUS
<1>8. \A x \in Octets : x \notin stop => skip[x] = ParseSkip(x)
  OBVIOUS
<1>9. \A x \in Octets, v \in Parsed : comb[<<x, v>>] = v
  OBVIOUS
<1>10. \A x \in Octets : base[x] = ParseEnd(x)
  OBVIOUS
<1> HIDE DEF stop, base, comb, skip
<1>11. PICK g \in [Octets -> Parsed] : Loops(g, stop, base, comb, skip)
  BY <1>1, <1>4, <1>5, <1>6, SessionLoop
<1>12. ASSUME NEW x \in Octets PROVE g[x] = Step(g, x)
  <2>1. g[x] = IF x \in stop THEN base[x] ELSE comb[<<x, g[SubSeq(x, 3 + skip[x], Len(x))]>>]
    BY <1>11 DEF Loops
  <2>2. CASE x \in stop
    BY <2>1, <2>2, <1>7, <1>10
  <2>3. CASE x \notin stop
    <3>1. SubSeq(x, 3 + skip[x], Len(x)) \in Octets
      BY <2>3, <1>5, <1>6, Skipped
    <3>2. PICK y \in Octets : y = SubSeq(x, 3 + skip[x], Len(x)) /\ y = SubSeq(x, 3 + ParseSkip(x), Len(x))
      BY <2>3, <3>1, <1>8
    <3>3. g[y] \in Parsed
      OBVIOUS
    <3>4. g[x] = g[y]
      BY <2>1, <2>3, <3>2, <3>3, <1>9
    <3> QED BY <2>3, <3>2, <3>4, <1>7
  <2> QED BY <2>2, <2>3
<1>13. g = [x \in Octets |-> Step(g, x)]
  <2> HIDE DEF Step
  <2> QED BY <1>12
<1>14. ParseParameters = CHOOSE f : f = [x \in Octets |-> Step(f, x)]
  <2>1. ASSUME NEW f, NEW x \in Octets
        PROVE  (IF Len(x) < 2 THEN NotParsed
                ELSE CASE x[1] = 193 -> [ok |-> TRUE, userData |-> SubSeq(x, 3, Len(x))]
                       [] x[1] = 5 -> IF AcceptParametersOk(AcceptParameters[SubSeq(x, 3, 2 + x[2])])
                                      THEN f[SubSeq(x, 3 + x[2], Len(x))] ELSE NotParsed
                       [] x[1] \in {20, 51, 52} -> IF x[2] = 2 THEN f[SubSeq(x, 3 + x[2], Len(x))] ELSE NotParsed
                       [] x[1] \in {1, 17, 25, 49, 60} -> f[SubSeq(x, 3 + x[2], Len(x))]
                       [] OTHER -> f[SubSeq(x, 3, Len(x))]) = Step(f, x)
    <3>0. Len(x) \in Nat
      BY OctetsAre
    <3>1. CASE Len(x) < 2
      BY <3>0, <3>1 DEF ParseStops, ParseEnd
    <3>2. CASE ~(Len(x) < 2)
      <4>1. Len(x) >= 2
        BY <3>0, <3>2
      <4>2. CASE x[1] = 193
        BY <3>2, <4>1, <4>2 DEF ParseStops, ParseEnd
      <4>3. CASE x[1] = 5
        BY <3>2, <4>1, <4>3 DEF ParseStops, ParseEnd, ParseSkip
      <4>4. CASE x[1] \in {20, 51, 52}
        <5>1. x[1] # 193 /\ x[1] # 5
          BY <4>4
        <5>2. ParseSkip(x) = x[2] /\ ParseEnd(x) = NotParsed /\ (ParseStops(x) <=> x[2] # 2)
          BY <3>2, <4>4, <5>1 DEF ParseStops, ParseEnd, ParseSkip
        <5> QED BY <3>2, <4>4, <5>1, <5>2
      <4>5. CASE x[1] \in {1, 17, 25, 49, 60}
        <5>1. x[1] # 193 /\ x[1] # 5 /\ x[1] \notin {20, 51, 52}
          BY <4>5
        <5>2. ParseSkip(x) = x[2] /\ ~ParseStops(x)
          BY <3>2, <4>5, <5>1 DEF ParseStops, ParseSkip
        <5> QED BY <3>2, <4>5, <5>1, <5>2
      <4>6. CASE x[1] # 193 /\ x[1] # 5 /\ x[1] \notin {20, 51, 52} /\ x[1] \notin {1, 17, 25, 49, 60}
        <5>1. ParseSkip(x) = 0 /\ ~ParseStops(x)
          BY <3>2, <4>6 DEF ParseStops, ParseSkip
        <5> QED BY <3>2, <4>6, <5>1
      <4> QED BY <4>2, <4>3, <4>4, <4>5, <4>6
    <3> QED BY <3>1, <3>2
  <2> HIDE DEF Step
  <2>2. ASSUME NEW f
        PROVE  [x \in Octets |->
                LET rest == SubSeq(x, 3 + x[2], Len(x)) IN
                IF Len(x) < 2 THEN NotParsed
                ELSE CASE x[1] = 193 -> [ok |-> TRUE, userData |-> SubSeq(x, 3, Len(x))]
                       [] x[1] = 5 -> IF AcceptParametersOk(AcceptParameters[SubSeq(x, 3, 2 + x[2])])
                                      THEN f[rest] ELSE NotParsed
                       [] x[1] \in {20, 51, 52} -> IF x[2] = 2 THEN f[rest] ELSE NotParsed
                       [] x[1] \in {1, 17, 25, 49, 60} -> f[rest]
                       [] OTHER -> f[SubSeq(x, 3, Len(x))]]
               = [x \in Octets |-> Step(f, x)]
    BY <2>1
  <2> QED BY <2>2, ZenonT(120) DEF ParseParameters
<1>15. ParseParameters = [x \in Octets |-> Step(ParseParameters, x)]
  <2> HIDE DEF Step
  <2> QED BY <1>13, <1>14
<1>16. ParseParameters \in [Octets -> Parsed]
  <2>1. ASSUME NEW x \in Octets PROVE ParseParameters[x] = Step(ParseParameters, x)
    BY <1>15
  <2> HIDE DEF Step
  <2>2. ParseParameters = (CHOOSE f : f = [x \in Octets |-> Step(f, x)])
    BY <1>14
  <2> DEFINE I == {x \in Octets : ParseParameters[x] \in Parsed}
             size == [x \in Octets |-> Len(x)]
  <2>3. I \in SUBSET Octets /\ size \in [Octets -> Nat]
    BY OctetsAre
  <2>4. ASSUME NEW x \in Octets, \A y \in Octets : size[y] < size[x] => y \in I
        PROVE  x \in I
    <3>1. CASE ParseStops(x)
      <4>1. ParseEnd(x) \in Parsed
        BY <1>1, <1>10
      <4> QED BY <2>1, <3>1, <4>1 DEF Step
    <3>2. CASE ~ParseStops(x)
      <4>1. x \notin stop
        BY <3>2, <1>7
      <4>2. skip[x] \in Nat /\ skip[x] = ParseSkip(x) /\ Len(x) >= 2
        BY <4>1, <1>5, <1>6, <1>8
      <4>3. PICK y \in Octets : y = SubSeq(x, 3 + ParseSkip(x), Len(x)) /\ Len(y) < Len(x)
        BY <4>2, Skipped
      <4>4. y \in I
        BY <2>4, <4>3
      <4> QED BY <2>1, <3>2, <4>3, <4>4 DEF Step
    <3> QED BY <3>1, <3>2
  <2> HIDE DEF I, size
  <2>5. I = Octets
    BY <2>3, <2>4, SizeInduction
  <2>6. DOMAIN ParseParameters = Octets
    BY <1>15
  <2> QED BY <1>15, <2>5, <2>6 DEF I
<1> QED BY <1>15, <1>16

\* What stands in front of octets, and what stands behind.
Leads(s, a, k, b) ==
  /\ s \in Octets /\ Len(s) = k + Len(b) /\ Len(b) \in Nat /\ k \in Nat /\ a \in Octets
  /\ \A i \in 1 .. k : s[i] = a[i]
  /\ \A i \in 1 .. Len(b) : s[k + i] = b[i]
  /\ SubSeq(s, k + 1, k + Len(b)) = b

\* Octets of known length lead to what follows them.
LEMMA BehindOctets ==
  ASSUME NEW a, NEW k, Measures(a, k), NEW b \in Octets
  PROVE  Leads(a ++ b, a, k, b)
<1>1. a \in Octets /\ k \in Nat /\ k = Len(a)
  BY DEF Measures
<1>2. /\ a \o b \in Octets /\ Len(a \o b) = k + Len(b) /\ Len(b) \in Nat
      /\ SubSeq(a \o b, k + 1, k + Len(b)) = b
  BY <1>1, JoinOctets
<1>3. a \in Seq(Octet) /\ b \in Seq(Octet)
  BY <1>1 DEF Octets
<1>4. \A i \in 1 .. Len(a) + Len(b) : (a \o b)[i] = IF i <= Len(a) THEN a[i] ELSE b[i - Len(a)]
  BY <1>3, ConcatProperties
<1>5. \A i \in 1 .. k : (a \o b)[i] = a[i]
  BY <1>1, <1>2, <1>4
<1>6. \A i \in 1 .. Len(b) : k + i \in 1 .. Len(a) + Len(b) /\ ~(k + i <= Len(a)) /\ (k + i) - Len(a) = i
  BY <1>1, <1>2
<1>7. \A i \in 1 .. Len(b) : (a \o b)[k + i] = b[i]
  BY <1>4, <1>6
<1> QED BY <1>1, <1>2, <1>5, <1>7 DEF ++, Leads

\* Octets between others.
Inside(s, k, m, c) == SubSeq(s, k + 1, k + m) = c

\* Octets of known length between two others.
LEMMA Between ==
  ASSUME NEW a, NEW k, Measures(a, k), NEW c, NEW m, Measures(c, m), NEW b \in Octets
  PROVE  Inside(a ++ (c ++ b), k, m, c)
<1>1. c \in Octets /\ m \in Nat /\ m = Len(c) /\ k \in Nat
  BY DEF Measures
<1>20. Leads(c ++ b, c, m, b)
  BY BehindOctets
<1>2. PICK d \in Octets : d = c ++ b /\ Len(d) = m + Len(b) /\ Len(b) \in Nat /\ \A i \in 1 .. m : d[i] = c[i]
  BY <1>20 DEF Leads
<1>30. Leads(a ++ d, a, k, d)
  BY BehindOctets
<1>3. PICK s \in Octets : /\ s = a ++ d /\ Len(s) = k + Len(d)
                          /\ \A i \in 1 .. Len(d) : s[k + i] = d[i]
  BY <1>30 DEF Leads
<1>4. \A i \in 1 .. m : s[k + i] = c[i]
  <2>1. \A i \in 1 .. m : i \in 1 .. Len(d)
    BY <1>1, <1>2
  <2> QED BY <1>2, <1>3, <2>1
<1>5. \A i \in k + 1 .. k + m : s[i] \in Octet
  <2>1. \A i \in k + 1 .. k + m : i \in 1 .. Len(s)
    BY <1>1, <1>2, <1>3
  <2> QED BY <2>1, OctetsAre
<1>6. /\ SubSeq(s, k + 1, k + m) \in Seq(Octet)
      /\ Len(SubSeq(s, k + 1, k + m)) = IF k + 1 <= k + m THEN (k + m) - (k + 1) + 1 ELSE 0
      /\ \A i \in 1 .. (k + m) - (k + 1) + 1 : SubSeq(s, k + 1, k + m)[i] = s[(k + 1) + i - 1]
  BY <1>1, <1>5, SubSeqProperties
<1>7. PICK r \in Octets : /\ r = SubSeq(s, k + 1, k + m)
                          /\ Len(r) = IF k + 1 <= k + m THEN (k + m) - (k + 1) + 1 ELSE 0
                          /\ \A i \in 1 .. (k + m) - (k + 1) + 1 : r[i] = s[(k + 1) + i - 1]
  BY <1>6 DEF Octets
<1>8. Len(r) = m /\ (k + m) - (k + 1) + 1 = m /\ \A i \in 1 .. m : (k + 1) + i - 1 = k + i
  BY <1>1, <1>7
<1>9. \A i \in 1 .. m : r[i] = c[i]
  BY <1>4, <1>7, <1>8
<1>10. r = c
  BY <1>1, <1>8, <1>9, OctetsEqual
<1> QED BY <1>2, <1>3, <1>7, <1>10 DEF Inside

\* A parameter of two octets is skipped.
LEMMA ParameterSkipped ==
  ASSUME NEW w, Measures(w, 4), w[1] \in {20, 51, 52}, w[2] = 2, NEW b \in Octets
  PROVE  ParseParameters[w ++ b] = ParseParameters[b]
<1>1. PICK k \in Nat : k = 4 /\ Measures(w, k)
  OBVIOUS
<1>0. Measures(w, k)
  BY <1>1
<1>00. Leads(w ++ b, w, k, b)
  BY <1>0, BehindOctets
<1>2. PICK s \in Octets : /\ s = w ++ b /\ Len(s) = k + Len(b) /\ Len(b) \in Nat
                          /\ \A i \in 1 .. k : s[i] = w[i]
                          /\ SubSeq(s, k + 1, k + Len(b)) = b
  BY <1>00 DEF Leads
<1>3. 1 \in 1 .. k /\ 2 \in 1 .. k
  BY <1>1
<1>4. s[1] \in {20, 51, 52} /\ s[2] = 2 /\ Len(s) >= 2
  BY <1>1, <1>2, <1>3
<1>5. ~ParseStops(s) /\ ParseSkip(s) = 2
  BY <1>4 DEF ParseStops, ParseSkip
<1>6. 3 + ParseSkip(s) = k + 1
  BY <1>1, <1>5
<1>7. SubSeq(s, 3 + ParseSkip(s), Len(s)) = b
  BY <1>2, <1>6
<1> QED BY <1>2, <1>5, <1>7, ParseParametersOf

\* The user data are all that is behind their header.
LEMMA UserDataLast ==
  ASSUME NEW w, Measures(w, 2), w[1] = 193, NEW b \in Octets
  PROVE  ParseParameters[w ++ b] = [ok |-> TRUE, userData |-> b]
<1>1. PICK k \in Nat : k = 2 /\ Measures(w, k)
  OBVIOUS
<1>0. Measures(w, k)
  BY <1>1
<1>00. Leads(w ++ b, w, k, b)
  BY <1>0, BehindOctets
<1>2. PICK s \in Octets : /\ s = w ++ b /\ Len(s) = k + Len(b) /\ Len(b) \in Nat
                          /\ \A i \in 1 .. k : s[i] = w[i]
                          /\ SubSeq(s, k + 1, k + Len(b)) = b
  BY <1>00 DEF Leads
<1>3. 1 \in 1 .. k /\ k + 1 = 3
  BY <1>1
<1>4. s[1] = 193 /\ Len(s) >= 2
  BY <1>1, <1>2, <1>3
<1>5. ParseStops(s) /\ ParseEnd(s) = [ok |-> TRUE, userData |-> SubSeq(s, 3, Len(s))]
  BY <1>4 DEF ParseStops, ParseEnd
<1>6. SubSeq(s, 3, Len(s)) = b
  BY <1>2, <1>3
<1> QED BY <1>2, <1>5, <1>6, ParseParametersOf

-----------------------------------------------------------------------------
\* Options and version, and what the parser makes of them.
LEMMA AcceptItemsRead ==
  ASSUME NEW u, Measures(u, 3), u[1] = 19, u[2] = 1, NEW v, Measures(v, 3), v[1] = 22, v[3] = 2
  PROVE  AcceptParametersOk(AcceptParameters[u ++ v])
<1>1. PICK k \in Nat : k = 3 /\ Measures(u, k) /\ Measures(v, k)
  OBVIOUS
<1>2. v \in Octets /\ <<>> \in Octets /\ v ++ <<>> = v /\ Len(<<>>) = 0 /\ Len(v) = k
  BY <1>1, JoinIs DEF Measures
<1>0. Measures(u, k) /\ v \in Octets
  BY <1>1, <1>2
<1>00. Leads(u ++ v, u, k, v)
  BY <1>0, BehindOctets
<1>3. PICK s \in Octets : /\ s = u ++ v /\ Len(s) = k + Len(v)
                          /\ \A i \in 1 .. k : s[i] = u[i]
                          /\ SubSeq(s, k + 1, k + Len(v)) = v
  BY <1>00 DEF Leads
<1>4. 1 \in 1 .. k /\ 2 \in 1 .. k
  BY <1>1
<1>5. s[1] = 19 /\ s[2] = 1 /\ Len(s) = 6
  BY <1>1, <1>2, <1>3, <1>4
<1>6. ~AcceptStops(s) /\ AcceptSkip(s) = 1
  BY <1>5 DEF AcceptStops, AcceptSkip
<1>7. SubSeq(s, 3 + AcceptSkip(s), Len(s)) = v
  BY <1>1, <1>3, <1>6
<1>8. AcceptParameters[s] = {19} \cup AcceptParameters[v]
  BY <1>5, <1>6, <1>7, AcceptParametersOf
<1>9. ~AcceptStops(v) /\ AcceptSkip(v) = 1
  BY <1>1, <1>2 DEF AcceptStops, AcceptSkip
<1>10. SubSeq(v, 3 + AcceptSkip(v), Len(v)) = <<>>
  <2>0. Measures(v, k) /\ <<>> \in Octets
    BY <1>1, <1>2
  <2>00. Leads(v ++ <<>>, v, k, <<>>)
    BY <2>0, BehindOctets
  <2>1. SubSeq(v ++ <<>>, k + 1, k + Len(<<>>)) = <<>>
    BY <2>00 DEF Leads
  <2>2. 3 + AcceptSkip(v) = k + 1 /\ k + Len(<<>>) = Len(v)
    BY <1>1, <1>2, <1>9
  <2> QED BY <1>2, <2>1, <2>2
<1>11. AcceptParameters[v] = {22} \cup AcceptParameters[<<>>]
  BY <1>2, <1>9, <1>10, AcceptParametersOf
<1>12. AcceptStops(<<>>) /\ AcceptEnd(<<>>) = {}
  BY <1>2 DEF AcceptStops, AcceptEnd
<1>13. AcceptParameters[<<>>] = {}
  BY <1>2, <1>12, AcceptParametersOf
<1>14. AcceptParameters[s] = {19, 22}
  BY <1>8, <1>11, <1>13
<1> QED BY <1>3, <1>14 DEF AcceptParametersOk, Malformed

\* The connect accept item.
LEMMA AcceptItemIs ==
  ASSUME NEW o \in Octet
  PROVE  /\ Measures(ConnectAcceptItem(o), 8)
         /\ \A b \in Octets : ParseParameters[ConnectAcceptItem(o) ++ b] = ParseParameters[b]
<1>1. PICK h, u, v : h = <<5, 6>> /\ u = <<19, 1, o>> /\ v = <<22, 1, 2>>
  OBVIOUS
<1>2. 5 \in Octet /\ 6 \in Octet /\ 19 \in Octet /\ 1 \in Octet /\ 22 \in Octet /\ 2 \in Octet
  BY DEF Octet
<1>3. Measures(h, 2) /\ Measures(u, 3) /\ Measures(v, 3)
  BY <1>1, <1>2, MeasuredTuples
<1>4. h[1] = 5 /\ h[2] = 6 /\ u[1] = 19 /\ u[2] = 1 /\ u[3] = o /\ v[1] = 22 /\ v[2] = 1 /\ v[3] = 2
  BY <1>1
<1>5. PICK m \in Nat : m = 6
  OBVIOUS
<1>6. PICK n \in Nat : n = 2 /\ Measures(h, n)
  BY <1>3
<1>7. PICK e \in Nat : e = 3 /\ Measures(u, e) /\ Measures(v, e) /\ v \in Octets /\ Len(v) = e
  BY <1>3 DEF Measures
<1>71. Measures(u, e) /\ v \in Octets
  BY <1>7
<1>72. Leads(u ++ v, u, e, v)
  BY <1>71, BehindOctets
<1>8. PICK x \in Octets : /\ x = u ++ v /\ Len(x) = e + Len(v) /\ \A i \in 1 .. e : x[i] = u[i]
                          /\ \A i \in 1 .. Len(v) : x[e + i] = v[i]
  BY <1>72 DEF Leads
<1>9. Measures(x, m) /\ Len(v) = 3 /\ Len(x) = 6
  <2>1. Len(v) = 3 /\ Len(x) = 6 /\ Len(x) = m
    BY <1>5, <1>7, <1>8
  <2> QED BY <2>1, <1>5 DEF Measures
<1>10. x[1] = 19 /\ x[2] = 1 /\ x[3] = o /\ x[4] = 22 /\ x[5] = 1 /\ x[6] = 2
  BY <1>4, <1>7, <1>8, <1>9
<1>91. Measures(h, n) /\ Measures(x, m) /\ x \in Octets
  BY <1>6, <1>9
<1>92. Leads(h ++ x, h, n, x)
  BY <1>91, BehindOctets
<1>11. PICK w \in Octets : /\ w = h ++ x /\ Len(w) = n + Len(x) /\ \A i \in 1 .. n : w[i] = h[i]
                           /\ \A i \in 1 .. Len(x) : w[n + i] = x[i]
  BY <1>92 DEF Leads
<1>12. Len(w) = 8 /\ w[1] = 5 /\ w[2] = 6 /\ w[3] = 19 /\ w[4] = 1 /\ w[5] = o /\ w[6] = 22 /\ w[7] = 1 /\ w[8] = 2
  BY <1>4, <1>6, <1>9, <1>10, <1>11
<1>13. PICK z : z = <<5, 6, 19, 1, o, 22, 1, 2>>
  OBVIOUS
<1>14. Len(z) = 8 /\ z[1] = 5 /\ z[2] = 6 /\ z[3] = 19 /\ z[4] = 1 /\ z[5] = o /\ z[6] = 22 /\ z[7] = 1 /\ z[8] = 2
  BY <1>13
<1>15. z \in Octets
  BY <1>2, <1>13 DEF Octets
<1>16. w = z
  <2>1. \A i \in 1 .. 8 : w[i] = z[i]
    BY <1>12, <1>14
  <2> QED BY <1>12, <1>14, <1>15, <2>1, OctetsEqual
<1>17. ConnectAcceptItem(o) = w
  BY <1>13, <1>16 DEF ConnectAcceptItem
<1>18. Measures(w, 8)
  BY <1>12 DEF Measures
<1>19. ASSUME NEW b \in Octets PROVE ParseParameters[w ++ b] = ParseParameters[b]
  <2>1. PICK k \in Nat : k = 8 /\ Measures(w, k)
    BY <1>18
  <2>0. Measures(w, k)
    BY <2>1
  <2>00. Leads(w ++ b, w, k, b)
    BY <2>0, BehindOctets
  <2>2. PICK s \in Octets : /\ s = w ++ b /\ Len(s) = k + Len(b) /\ Len(b) \in Nat
                            /\ \A i \in 1 .. k : s[i] = w[i]
                            /\ SubSeq(s, k + 1, k + Len(b)) = b
    BY <2>00 DEF Leads
  <2>3. 1 \in 1 .. k /\ 2 \in 1 .. k
    BY <2>1
  <2>4. s[1] = 5 /\ s[2] = 6 /\ Len(s) >= 2
    BY <1>12, <2>1, <2>2, <2>3
  <2>5. s = h ++ (x ++ b)
    <3>1. h \in Octets /\ x \in Octets
      BY <1>3 DEF Measures
    <3> QED BY <1>11, <2>2, <3>1, Associative
  <2>6. SubSeq(s, 3, 2 + s[2]) = x
    <3>0. Measures(h, n) /\ Measures(x, m) /\ b \in Octets
      BY <1>91
    <3>1. SubSeq(h ++ (x ++ b), n + 1, n + m) = x
      <4>1. Inside(h ++ (x ++ b), n, m, x)
        BY <3>0, Between
      <4> QED BY <4>1 DEF Inside
    <3>2. n + 1 = 3 /\ n + m = 2 + s[2]
      BY <1>5, <1>6, <2>4
    <3> QED BY <2>5, <3>1, <3>2
  <2>7. AcceptParametersOk(AcceptParameters[x])
    BY <1>3, <1>4, <1>8, AcceptItemsRead
  <2>71. AcceptParametersOk(AcceptParameters[SubSeq(s, 3, 2 + s[2])])
    BY <2>6, <2>7
  <2>72. s[1] = 5 /\ Len(s) >= 2
    BY <2>4
  <2>8. ~ParseStops(s)
    BY <2>71, <2>72 DEF ParseStops
  <2>9. ParseSkip(s) = 6
    BY <2>4 DEF ParseSkip
  <2>10. 3 + ParseSkip(s) = k + 1
    BY <2>1, <2>9
  <2>11. SubSeq(s, 3 + ParseSkip(s), Len(s)) = b
    BY <2>2, <2>10
  <2> QED BY <2>2, <2>8, <2>11, ParseParametersOf
<1> QED BY <1>17, <1>18, <1>19

\* An SPDU: its code, the octet of its length, its parameters and its data.
SpduRead(m, code, P, k, ppdu, n) ==
  /\ Measures(m, k + n + 2) /\ m[1] = code /\ m[2] = (k + n) % 256 /\ Len(m) - 2 = k + n
  /\ SubSeq(m, 3, Len(m)) = P ++ ppdu

\* An SPDU begins with its code and the length of its parameters.
LEMMA SpduIs ==
  ASSUME NEW code \in Octet, NEW P, NEW k, Measures(P, k), NEW ppdu, NEW n, Measures(ppdu, n)
  PROVE  SpduRead(Spdu(code, P, n) \o ppdu, code, P, k, ppdu, n)
<1>1. P \in Octets /\ k \in Nat /\ k = Len(P) /\ ppdu \in Octets /\ n \in Nat /\ n = Len(ppdu)
  BY DEF Measures
<1>2. PICK x \in Octet : x = (k + n) % 256 /\ x = Short(Len(P) + n)
  <2>1. PICK z \in Nat : z = k + n /\ z = Len(P) + n
    BY <1>1
  <2>2. z % 256 \in Octet
    BY DEF Octet
  <2> QED BY <2>1, <2>2 DEF Short
<1>3. PICK h : h = <<code, x>>
  OBVIOUS
<1>4. PICK two \in Nat : two = 2 /\ Measures(h, two)
  BY <1>2, <1>3, MeasuredTuples
<1>5. h[1] = code /\ h[2] = x /\ h \in Octets
  BY <1>2, <1>3, <1>4 DEF Measures
<1>6. Measures(P ++ ppdu, k + n)
  BY MeasuresJoin
<1>7. PICK q \in Octets : q = P ++ ppdu /\ Len(q) = k + n
  BY <1>6 DEF Measures
<1>8. Measures(h, two)
  BY <1>4
<1>9. Leads(h ++ q, h, two, q)
  BY <1>8, BehindOctets
<1>10. PICK m \in Octets : /\ m = h ++ q /\ Len(m) = two + Len(q) /\ \A i \in 1 .. two : m[i] = h[i]
                           /\ SubSeq(m, two + 1, two + Len(q)) = q
  BY <1>9 DEF Leads
<1>11. 1 \in 1 .. two /\ 2 \in 1 .. two /\ two + 1 = 3
  BY <1>4
<1>12. m[1] = code /\ m[2] = x
  BY <1>5, <1>10, <1>11
<1>13. SubSeq(m, 3, Len(m)) = q
  BY <1>10, <1>11
<1>14. Len(m) = k + n + 2
  BY <1>1, <1>4, <1>7, <1>10
<1>15. (h ++ P) ++ ppdu = h ++ (P ++ ppdu)
  BY <1>1, <1>5, Associative
<1>16. Spdu(code, P, n) \o ppdu = m
  <2>1. Spdu(code, P, n) = h ++ P
    BY <1>2, <1>3 DEF Spdu, ++
  <2>2. Spdu(code, P, n) \o ppdu = (h ++ P) ++ ppdu
    BY <2>1 DEF ++
  <2> QED BY <1>7, <1>10, <1>15, <2>2
<1>17. Measures(m, k + n + 2) /\ Len(m) - 2 = k + n
  BY <1>1, <1>14 DEF Measures
<1> QED BY <1>2, <1>7, <1>12, <1>13, <1>16, <1>17 DEF SpduRead

\* What an SPDU with user data carries: parameters that are read over.
HoldsData(P, ppdu) ==
  /\ P ++ ppdu \in Octets /\ ParseParameters[P ++ ppdu] = [ok |-> TRUE, userData |-> ppdu]

\* The parser reads t octets behind the header when one octet holds t.
SpduParsed(m, t, ppdu) ==
  /\ t > 255 => ParseSpdu(m).indication = "SESSION_ERROR"
  /\ t <= 255 => ParseSpdu(m) = [indication |-> "SESSION_CONNECT", userData |-> ppdu]

\* An SPDU whose length fits its octet is read back.
LEMMA HeaderParsed ==
  ASSUME NEW m, NEW code \in {13, 14}, NEW P, NEW k \in Nat, NEW ppdu \in Octets, NEW n \in Nat,
         SpduRead(m, code, P, k, ppdu, n), HoldsData(P, ppdu)
  PROVE  SpduParsed(m, k + n, ppdu)
<1>0. P ++ ppdu \in Octets /\ ParseParameters[P ++ ppdu] = [ok |-> TRUE, userData |-> ppdu]
  BY DEF HoldsData
<1>1. /\ m \in Octets /\ Len(m) = k + n + 2 /\ m[1] = code /\ m[2] = (k + n) % 256 /\ Len(m) - 2 = k + n
      /\ SubSeq(m, 3, Len(m)) = P ++ ppdu
  BY DEF SpduRead, Measures
<1>2. m[1] \in {13, 14} /\ ~(Len(m) <= 1)
  BY <1>1
<1>3. ParseSpdu(m) = IF m[2] # Len(m) - 2 THEN SessionError ELSE WithHeader(m, "SESSION_CONNECT")
  BY <1>2 DEF ParseSpdu
<1>4. CASE k + n > 255
  <2>1. (k + n) % 256 <= 255
    OBVIOUS
  <2>2. m[2] # Len(m) - 2
    BY <1>1, <1>4, <2>1
  <2> QED BY <1>3, <1>4, <2>2 DEF SessionError, SpduParsed
<1>5. CASE k + n <= 255
  <2>1. (k + n) % 256 = k + n
    BY <1>5
  <2>2. m[2] = Len(m) - 2
    BY <1>1, <2>1
  <2>3. PICK p \in Parsed : p = ParseParameters[SubSeq(m, 3, Len(m))] /\ p.ok /\ p.userData = ppdu
    <3>1. [ok |-> TRUE, userData |-> ppdu] \in Parsed
      BY DEF Parsed
    <3> QED BY <1>0, <1>1, <3>1
  <2>4. WithHeader(m, "SESSION_CONNECT") = [indication |-> "SESSION_CONNECT", userData |-> ppdu]
    BY <2>3 DEF WithHeader
  <2> QED BY <1>3, <1>5, <2>2, <2>4 DEF SpduParsed
<1> QED BY <1>4, <1>5 DEF SpduParsed

\* A parameter of two octets: requirement or selector.
LEMMA TwoOctetParameter ==
  ASSUME NEW g \in Octet, NEW r \in Nat
  PROVE  /\ Measures(<<g, 2>> \o TwoShort(r), 4)
         /\ (<<g, 2>> \o TwoShort(r))[1] = g /\ (<<g, 2>> \o TwoShort(r))[2] = 2
<1>1. PICK h, q : h = <<g, 2>> /\ q = TwoShort(r)
  OBVIOUS
<1>2. PICK two \in Nat : two = 2 /\ Measures(h, two) /\ Measures(q, two)
  <2>1. 2 \in Octet /\ (r \div 256) % 256 \in Octet /\ r % 256 \in Octet
    BY DEF Octet
  <2> QED BY <1>1, <2>1, MeasuredTuples DEF TwoShort
<1>3. Measures(h, two) /\ q \in Octets /\ Len(q) = two
  BY <1>2 DEF Measures
<1>4. Leads(h ++ q, h, two, q)
  BY <1>3, BehindOctets
<1>5. PICK m \in Octets : m = h ++ q /\ Len(m) = two + Len(q) /\ \A i \in 1 .. two : m[i] = h[i]
  BY <1>4 DEF Leads
<1>6. 1 \in 1 .. two /\ 2 \in 1 .. two
  BY <1>2
<1>7. m[1] = h[1] /\ m[2] = h[2]
  BY <1>5, <1>6
<1>8. m[1] = g /\ m[2] = 2
  BY <1>1, <1>7
<1>9. Measures(m, 4)
  <2>1. Len(m) = 4
    BY <1>2, <1>3, <1>5
  <2> QED BY <2>1 DEF Measures
<1>10. <<g, 2>> \o TwoShort(r) = m
  BY <1>1, <1>5 DEF ++
<1> QED BY <1>8, <1>9, <1>10

\* The header of the user data.
LEMMA UserDataParameter ==
  ASSUME NEW n \in Nat
  PROVE  Measures(SessionUserData(n), 2) /\ SessionUserData(n)[1] = 193
<1>1. 193 \in Octet /\ n % 256 \in Octet
  BY DEF Octet
<1>2. PICK x \in Octet : x = Short(n)
  BY <1>1 DEF Short
<1>3. PICK g \in Octet : g = 193
  BY <1>1
<1>4. Measures(<<g, x>>, 2) /\ <<g, x>>[1] = g
  BY MeasuredTuples
<1> QED BY <1>2, <1>3, <1>4 DEF SessionUserData

ConnectCarries(r1, r2, r3, n, ppdu) ==
  \E P : /\ ConnectSpdu(r1, r2, r3, n) = Spdu(13, P, n)
         /\ Measures(P, 22) /\ HoldsData(P, ppdu)

\* The parameters of a connect SPDU.
LEMMA ConnectParameters ==
  ASSUME NEW r1 \in Nat, NEW r2 \in Nat, NEW r3 \in Nat, NEW n, NEW ppdu, Measures(ppdu, n)
  PROVE  ConnectCarries(r1, r2, r3, n, ppdu)
<1>0. n \in Nat /\ ppdu \in Octets
  BY DEF Measures
<1>1. PICK o \in Octet : o = 0
  BY DEF Octet
<1>2. PICK g1 \in Octet : g1 = 20
  BY DEF Octet
<1>3. PICK g2 \in Octet : g2 = 51
  BY DEF Octet
<1>4. PICK g3 \in Octet : g3 = 52
  BY DEF Octet
<1>5. PICK a : a = ConnectAcceptItem(o)
  OBVIOUS
<1>6. PICK b : b = <<g1, 2>> \o TwoShort(r1)
  OBVIOUS
<1>7. PICK c : c = <<g2, 2>> \o TwoShort(r2)
  OBVIOUS
<1>8. PICK d : d = <<g3, 2>> \o TwoShort(r3)
  OBVIOUS
<1>9. PICK e : e = SessionUserData(n)
  OBVIOUS
<1>10. Measures(a, 8) /\ \A x \in Octets : ParseParameters[a ++ x] = ParseParameters[x]
  BY <1>5, AcceptItemIs
<1>11. Measures(b, 4) /\ b[1] = g1 /\ b[2] = 2
  BY <1>6, TwoOctetParameter
<1>12. Measures(c, 4) /\ c[1] = g2 /\ c[2] = 2
  BY <1>7, TwoOctetParameter
<1>13. Measures(d, 4) /\ d[1] = g3 /\ d[2] = 2
  BY <1>8, TwoOctetParameter
<1>14. Measures(e, 2) /\ e[1] = 193
  BY <1>0, <1>9, UserDataParameter
<1>15. a \in Octets /\ b \in Octets /\ c \in Octets /\ d \in Octets /\ e \in Octets /\ ppdu \in Octets
  BY <1>0, <1>10, <1>11, <1>12, <1>13, <1>14 DEF Measures
<1>16. PICK s5 \in Octets : s5 = e ++ ppdu
  BY <1>15, Closed
<1>17. PICK s4 \in Octets : s4 = d ++ s5
  BY <1>15, Closed
<1>18. PICK s3 \in Octets : s3 = c ++ s4
  BY <1>15, Closed
<1>19. PICK s2 \in Octets : s2 = b ++ s3
  BY <1>15, Closed
<1>20. PICK s1 \in Octets : s1 = a ++ s2
  BY <1>15, Closed
<1>21. ParseParameters[s5] = [ok |-> TRUE, userData |-> ppdu]
  BY <1>14, <1>15, <1>16, UserDataLast
<1>22. ParseParameters[s4] = ParseParameters[s5]
  BY <1>4, <1>13, <1>17, ParameterSkipped
<1>23. ParseParameters[s3] = ParseParameters[s4]
  BY <1>3, <1>12, <1>18, ParameterSkipped
<1>24. ParseParameters[s2] = ParseParameters[s3]
  BY <1>2, <1>11, <1>19, ParameterSkipped
<1>25. ParseParameters[s1] = ParseParameters[s2]
  BY <1>10, <1>20
<1>26. PICK P \in Octets : P = a ++ b ++ c ++ d ++ e /\ P = a ++ (b ++ (c ++ (d ++ e)))
  BY <1>15, Nest5
<1>27. P ++ ppdu = s1
  <2>1. PICK q4 \in Octets : q4 = d ++ e
    BY <1>15, Closed
  <2>2. PICK q3 \in Octets : q3 = c ++ q4
    BY <1>15, <2>1, Closed
  <2>3. PICK q2 \in Octets : q2 = b ++ q3
    BY <1>15, <2>2, Closed
  <2>4. P = a ++ q2
    BY <1>26, <2>1, <2>2, <2>3
  <2>5. P ++ ppdu = a ++ (q2 ++ ppdu)
    BY <1>15, <2>4, Associative
  <2>6. q2 ++ ppdu = b ++ (q3 ++ ppdu)
    BY <1>15, <2>3, Associative
  <2>7. q3 ++ ppdu = c ++ (q4 ++ ppdu)
    BY <1>15, <2>2, Associative
  <2>8. q4 ++ ppdu = d ++ s5
    BY <1>15, <1>16, <2>1, Associative
  <2> QED BY <2>5, <2>6, <2>7, <2>8, <1>17, <1>18, <1>19, <1>20
<1>28. Measures(P, 22)
  <2>1. Len(a) = 8 /\ Len(b) = 4 /\ Len(c) = 4 /\ Len(d) = 4 /\ Len(e) = 2
    BY <1>10, <1>11, <1>12, <1>13, <1>14 DEF Measures
  <2>2. PICK q4 \in Octets : q4 = d ++ e /\ Len(q4) = Len(d) + Len(e)
    BY <1>15, Sized
  <2>3. PICK q3 \in Octets : q3 = c ++ q4 /\ Len(q3) = Len(c) + Len(q4)
    BY <1>15, Sized
  <2>4. PICK q2 \in Octets : q2 = b ++ q3 /\ Len(q2) = Len(b) + Len(q3)
    BY <1>15, Sized
  <2>5. P = a ++ q2
    BY <1>26, <2>2, <2>3, <2>4
  <2>6. Len(P) = Len(a) + Len(q2)
    BY <1>15, <2>5, Sized
  <2>7. Len(P) = 22
    BY <2>1, <2>2, <2>3, <2>4, <2>6
  <2> QED BY <2>7 DEF Measures
<1>29. ConnectSpdu(r1, r2, r3, n) = Spdu(13, P, n)
  <2>1. SessionRequirement(r1) = b
    BY <1>2, <1>6 DEF SessionRequirement
  <2>2. CallingSessionSelector(r2) = c
    BY <1>3, <1>7 DEF CallingSessionSelector
  <2>3. CalledSessionSelector(r3) = d
    BY <1>4, <1>8 DEF CalledSessionSelector
  <2>4. ConnectAcceptItem(0) = a
    BY <1>1, <1>5
  <2>5. ConnectAcceptItem(0) \o SessionRequirement(r1) \o CallingSessionSelector(r2)
          \o CalledSessionSelector(r3) \o SessionUserData(n) = a ++ b ++ c ++ d ++ e
    BY <1>9, <2>1, <2>2, <2>3, <2>4 DEF ++
  <2> QED BY <1>26, <2>5 DEF ConnectSpdu
<1>30. HoldsData(P, ppdu)
  BY <1>20, <1>21, <1>22, <1>23, <1>24, <1>25, <1>27 DEF HoldsData
<1> QED BY <1>28, <1>29, <1>30 DEF ConnectCarries

\* The parameters of an accept SPDU.
LEMMA AcceptSpduParameters ==
  ASSUME NEW r1 \in Nat, NEW r3 \in Nat, NEW n, NEW ppdu, Measures(ppdu, n)
  PROVE  \E P : /\ AcceptSpdu(0, r1, r3, n) = Spdu(14, P, n)
                /\ Measures(P, 18) /\ HoldsData(P, ppdu)
<1>0. n \in Nat /\ ppdu \in Octets
  BY DEF Measures
<1>1. PICK o \in Octet : o = 0
  BY DEF Octet
<1>2. PICK g1 \in Octet : g1 = 20
  BY DEF Octet
<1>4. PICK g3 \in Octet : g3 = 52
  BY DEF Octet
<1>5. PICK a : a = ConnectAcceptItem(o)
  OBVIOUS
<1>6. PICK b : b = <<g1, 2>> \o TwoShort(r1)
  OBVIOUS
<1>8. PICK d : d = <<g3, 2>> \o TwoShort(r3)
  OBVIOUS
<1>9. PICK e : e = SessionUserData(n)
  OBVIOUS
<1>10. Measures(a, 8) /\ \A x \in Octets : ParseParameters[a ++ x] = ParseParameters[x]
  BY <1>5, AcceptItemIs
<1>11. Measures(b, 4) /\ b[1] = g1 /\ b[2] = 2
  BY <1>6, TwoOctetParameter
<1>13. Measures(d, 4) /\ d[1] = g3 /\ d[2] = 2
  BY <1>8, TwoOctetParameter
<1>14. Measures(e, 2) /\ e[1] = 193
  BY <1>0, <1>9, UserDataParameter
<1>15. a \in Octets /\ b \in Octets /\ d \in Octets /\ e \in Octets /\ ppdu \in Octets
  BY <1>0, <1>10, <1>11, <1>13, <1>14 DEF Measures
<1>16. PICK s5 \in Octets : s5 = e ++ ppdu
  BY <1>15, Closed
<1>17. PICK s4 \in Octets : s4 = d ++ s5
  BY <1>15, Closed
<1>19. PICK s2 \in Octets : s2 = b ++ s4
  BY <1>15, Closed
<1>20. PICK s1 \in Octets : s1 = a ++ s2
  BY <1>15, Closed
<1>21. ParseParameters[s5] = [ok |-> TRUE, userData |-> ppdu]
  BY <1>14, <1>15, <1>16, UserDataLast
<1>22. ParseParameters[s4] = ParseParameters[s5]
  BY <1>4, <1>13, <1>17, ParameterSkipped
<1>24. ParseParameters[s2] = ParseParameters[s4]
  BY <1>2, <1>11, <1>19, ParameterSkipped
<1>25. ParseParameters[s1] = ParseParameters[s2]
  BY <1>10, <1>20
<1>26. PICK P \in Octets : P = a ++ b ++ d ++ e /\ P = a ++ (b ++ (d ++ e))
  BY <1>15, Nest4
<1>27. P ++ ppdu = s1
  <2>1. PICK q4 \in Octets : q4 = d ++ e
    BY <1>15, Closed
  <2>3. PICK q2 \in Octets : q2 = b ++ q4
    BY <1>15, <2>1, Closed
  <2>4. P = a ++ q2
    BY <1>26, <2>1, <2>3
  <2>5. P ++ ppdu = a ++ (q2 ++ ppdu)
    BY <1>15, <2>4, Associative
  <2>6. q2 ++ ppdu = b ++ (q4 ++ ppdu)
    BY <1>15, <2>3, Associative
  <2>8. q4 ++ ppdu = d ++ s5
    BY <1>15, <1>16, <2>1, Associative
  <2> QED BY <2>5, <2>6, <2>8, <1>17, <1>19, <1>20
<1>28. Measures(P, 18)
  <2>1. Len(a) = 8 /\ Len(b) = 4 /\ Len(d) = 4 /\ Len(e) = 2
    BY <1>10, <1>11, <1>13, <1>14 DEF Measures
  <2>2. PICK q4 \in Octets : q4 = d ++ e /\ Len(q4) = Len(d) + Len(e)
    BY <1>15, Sized
  <2>4. PICK q2 \in Octets : q2 = b ++ q4 /\ Len(q2) = Len(b) + Len(q4)
    BY <1>15, Sized
  <2>5. P = a ++ q2
    BY <1>26, <2>2, <2>4
  <2>6. Len(P) = Len(a) + Len(q2)
    BY <1>15, <2>5, Sized
  <2>7. Len(P) = 18
    BY <2>1, <2>2, <2>4, <2>6
  <2> QED BY <2>7 DEF Measures
<1>29. AcceptSpdu(0, r1, r3, n) = Spdu(14, P, n)
  <2>1. SessionRequirement(r1) = b
    BY <1>2, <1>6 DEF SessionRequirement
  <2>3. CalledSessionSelector(r3) = d
    BY <1>4, <1>8 DEF CalledSessionSelector
  <2>4. ConnectAcceptItem(0) = a
    BY <1>1, <1>5
  <2>5. ConnectAcceptItem(0) \o SessionRequirement(r1) \o CalledSessionSelector(r3) \o SessionUserData(n)
          = a ++ b ++ d ++ e
    BY <1>9, <2>1, <2>3, <2>4 DEF ++
  <2> QED BY <1>26, <2>5 DEF AcceptSpdu
<1>30. HoldsData(P, ppdu)
  BY <1>20, <1>21, <1>22, <1>24, <1>25, <1>27 DEF HoldsData
<1> QED BY <1>28, <1>29, <1>30

\* A session selector is a number.
LEMMA SessionSelectorIs ==
  ASSUME NEW s, OctetsOf32(s) PROVE SessionSelector(s) \in Nat
<1>1. s \in Octets /\ Len(s) = 4
  BY DEF OctetsOf32
<1>2. 3 \in 1 .. Len(s) /\ 4 \in 1 .. Len(s)
  BY <1>1
<1>3. PICK x, y \in Nat : x = s[3] /\ y = s[4]
  BY <1>1, <1>2, OctetsAre
<1>4. x * 256 + y \in Nat
  OBVIOUS
<1> QED BY <1>3, <1>4 DEF SessionSelector

\* The connect SPDU, from the initiator's ppdu to the responder's.
LEMMA ConnectionIs ==
  ASSUME OctetsOf32(Params.localPSelector), OctetsOf32(Params.remotePSelector),
         NEW ppdu, NEW n, Measures(ppdu, n)
  PROVE  /\ Measures(Connection[ppdu], n + 24)
         /\ n + 22 > 255 => ParseSpdu(Connection[ppdu]).indication = "SESSION_ERROR"
         /\ n + 22 <= 255 => ParseSpdu(Connection[ppdu])
                               = [indication |-> "SESSION_CONNECT", userData |-> ppdu]
<1>1. ppdu \in Octets /\ n \in Nat /\ n = Len(ppdu)
  BY DEF Measures
<1>2. PICK r1, r2, r3 \in Nat : /\ r1 = SessionRequirementDefault
                                /\ r2 = SessionSelector(Params.localPSelector)
                                /\ r3 = SessionSelector(Params.remotePSelector)
  BY SessionSelectorIs DEF SessionRequirementDefault
<1>3. Connection[ppdu] = ConnectSpdu(r1, r2, r3, n) \o ppdu
  BY <1>1, <1>2 DEF Connection
<1>4. PICK P : /\ ConnectSpdu(r1, r2, r3, n) = Spdu(13, P, n)
               /\ Measures(P, 22) /\ HoldsData(P, ppdu)
  <2>1. ConnectCarries(r1, r2, r3, n, ppdu)
    BY ConnectParameters
  <2> QED BY <2>1 DEF ConnectCarries
<1>5. PICK k \in Nat : k = 22 /\ Measures(P, k)
  BY <1>4
<1>6. PICK code \in Octet : code = 13
  BY DEF Octet
<1>7. Measures(P, k)
  BY <1>5
<1>8. PICK m : m = Spdu(code, P, n) \o ppdu
  OBVIOUS
<1>9. SpduRead(m, code, P, k, ppdu, n)
  BY <1>7, <1>8, SpduIs
<1>10. m = Connection[ppdu]
  BY <1>3, <1>4, <1>6, <1>8
<1>11. code \in {13, 14} /\ HoldsData(P, ppdu)
  BY <1>4, <1>6
<1>14. SpduParsed(m, k + n, ppdu)
  BY <1>1, <1>9, <1>11, HeaderParsed
<1>12. /\ k + n > 255 => ParseSpdu(m).indication = "SESSION_ERROR"
       /\ k + n <= 255 => ParseSpdu(m) = [indication |-> "SESSION_CONNECT", userData |-> ppdu]
  BY <1>14 DEF SpduParsed
<1>13. k + n = n + 22 /\ k + n + 2 = n + 24
  BY <1>1, <1>5
<1> QED BY <1>9, <1>10, <1>12, <1>13 DEF SpduRead

\* The accept SPDU.
LEMMA AcceptanceIs ==
  ASSUME OctetsOf32(Params.remotePSelector), NEW ppdu, NEW n, Measures(ppdu, n)
  PROVE  /\ Measures(Acceptance[ppdu], n + 20)
         /\ n + 18 <= 255 => ParseSpdu(Acceptance[ppdu])
                               = [indication |-> "SESSION_CONNECT", userData |-> ppdu]
<1>1. ppdu \in Octets /\ n \in Nat /\ n = Len(ppdu)
  BY DEF Measures
<1>2. PICK r1, r3 \in Nat : r1 = SessionRequirementDefault /\ r3 = SessionSelector(Params.remotePSelector)
  BY SessionSelectorIs DEF SessionRequirementDefault
<1>3. Acceptance[ppdu] = AcceptSpdu(0, r1, r3, n) \o ppdu
  BY <1>1, <1>2 DEF Acceptance
<1>4. PICK P : /\ AcceptSpdu(0, r1, r3, n) = Spdu(14, P, n)
               /\ Measures(P, 18) /\ HoldsData(P, ppdu)
  BY AcceptSpduParameters
<1>5. PICK k \in Nat : k = 18 /\ Measures(P, k)
  BY <1>4
<1>6. PICK code \in Octet : code = 14
  BY DEF Octet
<1>7. Measures(P, k)
  BY <1>5
<1>8. PICK m : m = Spdu(code, P, n) \o ppdu
  OBVIOUS
<1>9. SpduRead(m, code, P, k, ppdu, n)
  BY <1>7, <1>8, SpduIs
<1>10. m = Acceptance[ppdu]
  BY <1>3, <1>4, <1>6, <1>8
<1>11. code \in {13, 14} /\ HoldsData(P, ppdu)
  BY <1>4, <1>6
<1>14. SpduParsed(m, k + n, ppdu)
  BY <1>1, <1>9, <1>11, HeaderParsed
<1>12. k + n <= 255 => ParseSpdu(m) = [indication |-> "SESSION_CONNECT", userData |-> ppdu]
  BY <1>14 DEF SpduParsed
<1>13. k + n = n + 18 /\ k + n + 2 = n + 20
  BY <1>1, <1>5
<1> QED BY <1>9, <1>10, <1>12, <1>13 DEF SpduRead

Offered(q) == [maxPduSize |-> q, calling |-> DefaultOutstanding, called |-> DefaultOutstanding,
               nesting |-> DefaultNesting]

Asking(pw, q) == AssociateMessage(pw, InitiateRequest[Offered(q)])

\* The parameters of a client fit their encodings.
LEMMA OfferedFits ==
  ASSUME NEW q \in Nat, InTwoOctets(q)
  PROVE  Offered(q) \in Fitting
<1>1. InTwoOctets(5) /\ InTwoOctets(10)
  BY DEF InTwoOctets
<1> QED BY <1>1 DEF Offered, Fitting, Parameters, DefaultOutstanding, DefaultNesting

\* What the server makes of the connect PPDU that carries the request.
AskRead(ppdu, pw, q) ==
  /\ ParseNormalMode[ppdu].ok
  /\ ParseNormalMode[ppdu].acseContextId = 1 /\ ParseNormalMode[ppdu].mmsContextId = 3
  /\ LET a == ParseAcse[ParseNormalMode[ppdu].payload]
     IN  /\ a.indication = "ACSE_ASSOCIATE" /\ a.nextReference = DecodeUint32(<<3>>)
         /\ NegotiatedBy[a.userData] = Settling(Offered(q))
         /\ Accepts(a) <=> SecretPassword = <<>> \/ pw = SecretPassword

\* The request of a client, through ACSE and presentation.
LEMMA AskIs ==
  ASSUME ParamsFit, OctetsOf32(Params.localPSelector), OctetsOf32(Params.remotePSelector),
         NEW pw, NEW n, Measures(pw, n), Half(n), NEW q \in Nat, InTwoOctets(q)
  PROVE  \E ppdu, L : /\ Measures(ppdu, L) /\ Asking(pw, q) = Connection[ppdu] /\ AskRead(ppdu, pw, q)
<1>1. PICK pdu, k : /\ pdu = InitiateRequest[Offered(q)] /\ k \in 0 .. 60 /\ Measures(pdu, k)
                    /\ NegotiatedBy[pdu] = Settling(Offered(q))
  BY OfferedFits, RequestIs
<1>2. k < 128 /\ k \in Nat /\ pdu \in Octets
  <2>1. k \in 0 .. 60
    BY <1>1
  <2>2. pdu \in Octets
    BY <1>1 DEF Measures
  <2> QED BY <2>1, <2>2
<1>3. PICK content, L : /\ Aarq(pw, pdu) = Wrap(96, content) /\ Measures(content, L) /\ L <= n + k + 150
                        /\ InTwoOctets(L) /\ AarqRead(content, pw, pdu)
  BY <1>1, <1>2, AarqIs
<1>4. PICK g \in Octet : g = 96
  BY DEF Octet
<1>5. PICK apdu : apdu = Wrap(g, content)
  OBVIOUS
<1>6. /\ content \in Octets /\ Measures(apdu, 1 + DetermineLengthSize(L) + L) /\ apdu \in Octets
      /\ Short16(content)
  BY <1>3, <1>5, LongHeader
<1>7. DetermineLengthSize(L) \in 1 .. 3 /\ L \in Nat
  BY <1>3, <1>4, HeaderIs DEF Measures
<1>8. PICK M \in Nat : M = 1 + DetermineLengthSize(L) + L /\ M <= L + 4
  BY <1>7
<1>9. RoomFor(M)
  <2>1. n \in Nat /\ n < 128 * 256
    BY DEF Measures, Half
  <2>2. M <= n + 60 + 150 + 4
    BY <1>1, <1>3, <1>7, <1>8, <2>1
  <2> QED BY <2>1, <2>2, <1>8 DEF RoomFor
<1>10. Measures(apdu, M)
  BY <1>6, <1>8
<1>11. PICK L2 : /\ L2 \in Nat /\ Measures(ConnectPpdu[apdu], L2) /\ ConnectRead(ConnectPpdu[apdu], apdu)
  BY <1>6, <1>9, <1>10, ConnectPpduIs
<1>12. PICK ppdu : ppdu = ConnectPpdu[apdu] /\ Measures(ppdu, L2) /\ ConnectRead(ppdu, apdu)
  BY <1>11
<1>13. Asking(pw, q) = Connection[ppdu]
  BY <1>1, <1>3, <1>4, <1>5, <1>12 DEF Asking, AssociateMessage
<1>14. PICK a : /\ a = ParseAcse[apdu] /\ a.indication = "ACSE_ASSOCIATE" /\ a.userData = pdu
                /\ a.nextReference = DecodeUint32(<<3>>)
                /\ a.mechanism = (IF pw = <<>> THEN "none" ELSE "password") /\ a.password = pw
  BY <1>2, <1>3, <1>4, <1>5, <1>6, AarqParsed
<1>15. Accepts(a) <=> SecretPassword = <<>> \/ pw = SecretPassword
  BY <1>14 DEF Accepts
<1>16. AskRead(ppdu, pw, q)
  BY <1>1, <1>12, <1>14, <1>15 DEF AskRead, ConnectRead
<1> QED BY <1>12, <1>13, <1>16

\* The associate request, at the server.
AskedOf(m, pw, q) ==
  LET s == ParseSpdu(m)
      p == ServerPpdu(s)
      a == ServerApdu(s, p)
  IN  /\ m \in Octets
      /\ Len(m) - 2 > 255 => s.indication = "SESSION_ERROR"
      /\ Len(m) - 2 <= 255 =>
           /\ s.indication = "SESSION_CONNECT" /\ p.ok /\ p.acseContextId = 1 /\ p.mmsContextId = 3
           /\ a.indication = "ACSE_ASSOCIATE" /\ a.nextReference = DecodeUint32(<<3>>)
           /\ NegotiatedBy[a.userData] = Settling(Offered(q))
           /\ Accepts(a) <=> SecretPassword = <<>> \/ pw = SecretPassword

\* The request as a whole: what the server reads when the length fits its octet.
LEMMA AskingIs ==
  ASSUME ParamsFit, OctetsOf32(Params.localPSelector), OctetsOf32(Params.remotePSelector),
         NEW pw, NEW n, Measures(pw, n), Half(n), NEW q \in Nat, InTwoOctets(q)
  PROVE  AskedOf(Asking(pw, q), pw, q)
<1>1. PICK ppdu, L : /\ Measures(ppdu, L) /\ Asking(pw, q) = Connection[ppdu] /\ AskRead(ppdu, pw, q)
  BY AskIs
<1>2. PICK m : m = Connection[ppdu]
  OBVIOUS
<1>3. /\ Measures(m, L + 24)
      /\ L + 22 > 255 => ParseSpdu(m).indication = "SESSION_ERROR"
      /\ L + 22 <= 255 => ParseSpdu(m) = [indication |-> "SESSION_CONNECT", userData |-> ppdu]
  BY <1>1, <1>2, ConnectionIs
<1>4. L \in Nat
  BY <1>1 DEF Measures
<1>5. m \in Octets /\ Len(m) - 2 = L + 22
  BY <1>3, <1>4 DEF Measures
<1>6. PICK s : s = ParseSpdu(m)
  OBVIOUS
<1>7. CASE L + 22 > 255
  BY <1>1, <1>2, <1>3, <1>4, <1>5, <1>7 DEF AskedOf
<1>8. CASE L + 22 <= 255
  <2>1. s.indication = "SESSION_CONNECT" /\ s.userData = ppdu
    BY <1>3, <1>6, <1>8
  <2>2. ServerPpdu(s) = ParseNormalMode[ppdu]
    BY <2>1 DEF ServerPpdu
  <2>3. ServerApdu(s, ServerPpdu(s)) = ParseAcse[ParseNormalMode[ppdu].payload]
    BY <1>1, <2>1, <2>2 DEF ServerApdu, AskRead
  <2>4. AskedOf(m, pw, q)
    BY <1>1, <1>4, <1>5, <1>6, <1>8, <2>1, <2>2, <2>3 DEF AskedOf, AskRead
  <2> QED BY <1>1, <1>2, <2>4
<1> QED BY <1>4, <1>7, <1>8

Answering(q) == AcceptMessage(1, DecodeUint32(<<3>>), InitiateResponse[Settling(Offered(q))])

\* The answer, at the client.
AnswerOf(m, q) ==
  /\ m \in Octets /\ Len(m) <= 257 /\ AnswerApdu(m) # <<>>
  /\ AnswerParameters[AnswerPdu(AnswerApdu(m))] = Settling(Offered(q))

\* The answer as a whole.
LEMMA AnsweringIs ==
  ASSUME OctetsOf32(Params.remotePSelector), NEW q \in Nat, Settling(Offered(q)) \in Fitting
  PROVE  AnswerOf(Answering(q), q)
<1>1. PICK pdu, k : /\ pdu = InitiateResponse[Settling(Offered(q))] /\ k \in 1 .. 60 /\ Measures(pdu, k)
                    /\ ParseInitiateResponse[pdu] = Settling(Offered(q))
  BY ResponseIs
<1>2. k < 64 /\ k \in Nat /\ k >= 1
  BY <1>1
<1>3. pdu \in Octets /\ Len(pdu) = k
  BY <1>1 DEF Measures
<1>4. pdu # <<>>
  BY <1>2, <1>3, JoinIs
<1>5. PICK ref : ref = DecodeUint32(<<3>>) /\ OctetsOf32(ref)
  <2>1. PICK o \in Octet : o = 3
    BY DEF Octet
  <2>2. <<o>> \in Octets
    BY Tuples
  <2> QED BY <2>1, <2>2, DecodedReference DEF OctetsOf32
<1>6. PICK content, L : /\ Aare(ref, pdu) = Wrap(97, content) /\ Measures(content, L) /\ L < 128
                        /\ L <= k + 41 /\ AareRead(content, EncodeUInt32(ref), pdu)
  BY <1>1, <1>2, <1>5, AareIs
<1>7. PICK g \in Octet : g = 97
  BY DEF Octet
<1>8. PICK apdu : apdu = Wrap(g, content)
  OBVIOUS
<1>9. Measures(apdu, L + 2) /\ apdu \in Octets /\ Short16(content)
  BY <1>6, <1>8, MeasuredHeader
<1>10. L \in Nat /\ EncodeUInt32(ref) \in Octets
  BY <1>5, <1>6, UInt32Octets DEF Measures, OctetsOf32
<1>11. PICK M \in Nat : M = L + 2 /\ M <= 103
  BY <1>1, <1>6, <1>10
<1>12. Measures(apdu, M) /\ RoomFor(M)
  BY <1>9, <1>11 DEF RoomFor
<1>13. PICK c \in Octet : c = 1
  BY DEF Octet
<1>14. PICK L2 : /\ L2 \in Nat /\ Measures(Cpa(c, apdu), L2) /\ L2 <= M + 60
                 /\ ParseNormalMode[Cpa(c, apdu)].ok /\ ParseNormalMode[Cpa(c, apdu)].payload = apdu
  BY <1>9, <1>12, CpaIs
<1>15. PICK ppdu : /\ ppdu = Cpa(c, apdu) /\ Measures(ppdu, L2) /\ ParseNormalMode[ppdu].payload = apdu
  BY <1>14
<1>16. PICK m : m = Acceptance[ppdu]
  OBVIOUS
<1>17. /\ Measures(m, L2 + 20)
       /\ L2 + 18 <= 255 => ParseSpdu(m) = [indication |-> "SESSION_CONNECT", userData |-> ppdu]
  BY <1>15, <1>16, AcceptanceIs
<1>18. L2 + 18 <= 255 /\ L2 + 20 <= 257
  BY <1>11, <1>14
<1>19. m \in Octets /\ Len(m) <= 257
  BY <1>17, <1>18 DEF Measures
<1>20. m = Answering(q)
  BY <1>1, <1>5, <1>6, <1>7, <1>8, <1>13, <1>15, <1>16 DEF Answering, AcceptMessage
<1>21. AnswerApdu(m) = apdu
  <2>1. PICK s \in Spdus : s = ParseSpdu(m) /\ s.indication = "SESSION_CONNECT" /\ s.userData = ppdu
    <3>1. [indication |-> "SESSION_CONNECT", userData |-> ppdu] \in Spdus
      <4>1. ppdu \in Octets
        BY <1>15 DEF Measures
      <4> QED BY <4>1 DEF Spdus
    <3> QED BY <1>17, <1>18, <3>1
  <2> QED BY <1>15, <2>1 DEF AnswerApdu
<1>22. apdu # <<>>
  <2>1. Len(apdu) = M
    BY <1>12 DEF Measures
  <2>2. M >= 1
    BY <1>10, <1>11
  <2> QED BY <2>1, <2>2, JoinIs
<1>23. AnswerPdu(apdu) = pdu
  BY <1>3, <1>6, <1>7, <1>8, <1>9, <1>10, AareParsed DEF AnswerPdu
<1>24. AnswerParameters[pdu] = Settling(Offered(q))
  BY <1>1, <1>3, <1>4 DEF AnswerParameters
<1> QED BY <1>19, <1>20, <1>21, <1>22, <1>23, <1>24 DEF AnswerOf

-----------------------------------------------------------------------------
\* A message that starts with an octet of another SPDU is no connect SPDU.
NoConnect(m) == m \in Octets /\ ParseSpdu(m).indication # "SESSION_CONNECT"

\* The code tells them apart.
LEMMA OtherSpdus ==
  ASSUME NEW m \in Octets, m[1] \in {1, 9, 10, 25}
  PROVE  NoConnect(m)
<1>1. CASE Len(m) <= 1
  BY <1>1 DEF NoConnect, ParseSpdu, SessionError
<1>2. CASE ~(Len(m) <= 1)
  <2>1. CASE m[1] = 1
    BY <1>2, <2>1 DEF NoConnect, ParseSpdu, SessionError
  <2>2. CASE m[1] = 25
    BY <1>2, <2>2 DEF NoConnect, ParseSpdu, SessionError
  <2>3. ASSUME NEW i, i # "SESSION_CONNECT"
        PROVE  WithHeader(m, i).indication # "SESSION_CONNECT"
    <3>1. Len(m) \in Nat /\ Len(m) >= 2
      BY <1>2, OctetsAre
    <3>2. SubSeq(m, 3, Len(m)) \in Octets
      <4>1. PICK z \in Nat : z = 0 /\ 3 + z = 3
        OBVIOUS
      <4>2. SubSeq(m, 3 + z, Len(m)) \in Octets
        BY <3>1, Skipped
      <4> QED BY <4>1, <4>2
    <3>3. PICK p \in Parsed : p = ParseParameters[SubSeq(m, 3, Len(m))]
      BY <3>2, ParseParametersOf
    <3> QED BY <2>3, <3>3 DEF WithHeader, SessionError
  <2>4. CASE m[1] = 9
    <3>1. ParseSpdu(m) = IF m[2] # Len(m) - 2 THEN SessionError ELSE WithHeader(m, "SESSION_FINISH")
      BY <1>2, <2>4 DEF ParseSpdu
    <3> QED BY <2>3, <3>1 DEF NoConnect, SessionError
  <2>5. CASE m[1] = 10
    <3>1. ParseSpdu(m) = IF m[2] # Len(m) - 2 THEN SessionError ELSE WithHeader(m, "SESSION_DISCONNECT")
      BY <1>2, <2>5 DEF ParseSpdu
    <3> QED BY <2>3, <3>1 DEF NoConnect, SessionError
  <2> QED BY <2>1, <2>2, <2>4, <2>5
<1> QED BY <1>1, <1>2

\* The PDUs of the model are octets.
LEMMA PduIs ==
  ASSUME NEW e, NEW n \in Nat, NEW length \in Nat
  PROVE  Measures(Pdu(e, n, length), length)
<1>1. \A i \in 1 .. length : (i + n * 7 + (IF e = "client" THEN 0 ELSE 3)) % 256 \in Octet
  BY DEF Octet
<1>2. Pdu(e, n, length) \in [1 .. length -> Octet]
  BY <1>1 DEF Pdu
<1> QED BY <1>2, AsSequence

\* A message of user data is as long as UserDataLength says.
LEMMA UserDataOctets ==
  ASSUME NEW c \in Octet, NEW pl, NEW n, Measures(pl, n), RoomFor(n)
  PROVE  Measures(UserData(c, pl), UserDataLength[n])
<1>1. pl \in Octets /\ n = Len(pl) /\ n \in Nat
  BY DEF Measures
<1>2. UserData(c, pl) = UserDataHeader(c, n) ++ pl
  BY <1>1 DEF UserData, ++
<1> QED BY <1>2, UserDataIs

\* Data messages.
LEMMA DataMessageIs ==
  ASSUME NEW c \in Octet, NEW pl, NEW n, Measures(pl, n), RoomFor(n)
  PROVE  NoConnect(DataMessage(c, pl))
<1>1. PICK u \in Octets : u = UserData(c, pl)
  BY UserDataOctets DEF Measures
<1>2. 1 \in Octet /\ 0 \in Octet
  BY DEF Octet
<1>3. PICK h : h = DataSpdu
  OBVIOUS
<1>4. PICK k \in Nat : k = 4 /\ Measures(h, k)
  BY <1>2, <1>3, MeasuredTuples DEF DataSpdu
<1>5. h[1] = 1
  BY <1>3 DEF DataSpdu
<1>6. Measures(h, k)
  BY <1>4
<1>7. Leads(h ++ u, h, k, u)
  BY <1>6, BehindOctets
<1>8. PICK m \in Octets : m = h ++ u /\ \A i \in 1 .. k : m[i] = h[i]
  BY <1>7 DEF Leads
<1>9. m[1] = 1
  BY <1>4, <1>5, <1>8
<1>10. NoConnect(m)
  BY <1>9, OtherSpdus
<1>11. DataMessage(c, pl) = m
  BY <1>1, <1>3, <1>8 DEF DataMessage, ++
<1> QED BY <1>10, <1>11

\* SPDUs of other codes.
LEMMA ClosingSpdu ==
  ASSUME NEW code \in Octet, code \in {9, 10, 25}, NEW P, NEW k, Measures(P, k), NEW ppdu, NEW n, Measures(ppdu, n)
  PROVE  NoConnect(Spdu(code, P, n) \o ppdu)
<1>1. PICK m : m = Spdu(code, P, n) \o ppdu
  OBVIOUS
<1>2. SpduRead(m, code, P, k, ppdu, n)
  BY <1>1, SpduIs
<1>3. m \in Octets /\ m[1] \in {1, 9, 10, 25}
  BY <1>2 DEF SpduRead, Measures
<1> QED BY <1>1, <1>3, OtherSpdus

\* The parameters of an abort SPDU in front of its user data.
LEMMA ReasonAndData ==
  ASSUME NEW r \in Octet, NEW n \in Nat
  PROVE  Measures(<<17, 1, r>> \o SessionUserData(n), 5)
<1>1. PICK a \in Octet : a = 17
  BY DEF Octet
<1>2. PICK b \in Octet : b = 1
  BY DEF Octet
<1>3. PICK h : h = <<a, b, r>>
  OBVIOUS
<1>4. Measures(h, 3)
  BY <1>3, MeasuredTuples
<1>5. PICK e : e = SessionUserData(n) /\ Measures(e, 2)
  BY UserDataParameter
<1>6. PICK i, j \in Nat : i = 3 /\ j = 2 /\ Measures(h, i) /\ Measures(e, j)
  BY <1>4, <1>5
<1>7. Measures(h, i) /\ Measures(e, j)
  BY <1>6
<1>8. Measures(h ++ e, i + j)
  BY <1>7, MeasuresJoin
<1>9. i + j = 5
  BY <1>6
<1>10. <<17, 1, r>> \o SessionUserData(n) = h ++ e
  BY <1>1, <1>2, <1>3, <1>5 DEF ++
<1> QED BY <1>8, <1>9, <1>10

\* Release and abort.
LEMMA ReleaseIs ==
  ASSUME NEW c \in Octet
  PROVE  NoConnect(ReleaseMessage(c))
<1>1. PICK pl : pl = ReleaseRequestApdu
  OBVIOUS
<1>2. PICK k \in Nat : k = 5 /\ Measures(pl, k) /\ RoomFor(k)
  <2>1. 98 \in Octet /\ 3 \in Octet /\ 128 \in Octet /\ 1 \in Octet /\ 0 \in Octet
    BY DEF Octet
  <2> QED BY <1>1, <2>1, MeasuredTuples DEF ReleaseRequestApdu, RoomFor
<1>3. Measures(pl, k) /\ RoomFor(k)
  BY <1>2
<1>4. PICK u, n : u = UserData(c, pl) /\ Measures(u, n)
  BY <1>3, UserDataOctets
<1>5. u \in Octets /\ n \in Nat /\ n = Len(u)
  BY <1>4 DEF Measures
<1>6. PICK r \in Octet : r = 2
  BY DEF Octet
<1>7. PICK P : P = <<17, 1, r>> \o SessionUserData(n)
  OBVIOUS
<1>8. PICK i \in Nat : i = 5 /\ Measures(P, i)
  BY <1>5, <1>7, ReasonAndData
<1>9. PICK code \in Octet : code = 9
  BY DEF Octet
<1>10. Measures(P, i) /\ code \in {9, 10, 25}
  BY <1>8, <1>9
<1>11. NoConnect(Spdu(code, P, n) \o u)
  BY <1>4, <1>10, ClosingSpdu
<1>12. ReleaseMessage(c) = Spdu(code, P, n) \o u
  BY <1>1, <1>4, <1>5, <1>6, <1>7, <1>9 DEF ReleaseMessage, Finish, FinishSpdu
<1> QED BY <1>11, <1>12

\* The answer to a release is no connect SPDU.
LEMMA ReleaseAnswerIs ==
  ASSUME NEW c \in Octet
  PROVE  NoConnect(ReleaseAnswer(c))
<1>1. PICK pl : pl = ReleaseResponseApdu
  OBVIOUS
<1>2. PICK k \in Nat : k = 2 /\ Measures(pl, k) /\ RoomFor(k)
  <2>1. 99 \in Octet /\ 0 \in Octet
    BY DEF Octet
  <2> QED BY <1>1, <2>1, MeasuredTuples DEF ReleaseResponseApdu, RoomFor
<1>3. Measures(pl, k) /\ RoomFor(k)
  BY <1>2
<1>4. PICK u, n : u = UserData(c, pl) /\ Measures(u, n)
  BY <1>3, UserDataOctets
<1>5. u \in Octets /\ n \in Nat /\ n = Len(u)
  BY <1>4 DEF Measures
<1>7. PICK P : P = SessionUserData(n)
  OBVIOUS
<1>8. PICK i \in Nat : i = 2 /\ Measures(P, i)
  BY <1>5, <1>7, UserDataParameter
<1>9. PICK code \in Octet : code = 10
  BY DEF Octet
<1>10. Measures(P, i) /\ code \in {9, 10, 25}
  BY <1>8, <1>9
<1>11. NoConnect(Spdu(code, P, n) \o u)
  BY <1>4, <1>10, ClosingSpdu
<1>12. ReleaseAnswer(c) = Spdu(code, P, n) \o u
  BY <1>1, <1>4, <1>5, <1>7, <1>9 DEF ReleaseAnswer, Disconnect, DisconnectSpdu
<1> QED BY <1>11, <1>12

\* Neither is an abort.
LEMMA AbortIs ==
  ASSUME NEW c \in Octet
  PROVE  NoConnect(AbortMessage(c))
<1>1. PICK pl : pl = AbortApdu(FALSE)
  OBVIOUS
<1>2. PICK k \in Nat : k = 5 /\ Measures(pl, k) /\ RoomFor(k)
  <2>1. 100 \in Octet /\ 3 \in Octet /\ 128 \in Octet /\ 1 \in Octet /\ 0 \in Octet
    BY DEF Octet
  <2> QED BY <1>1, <2>1, MeasuredTuples DEF AbortApdu, RoomFor
<1>3. Measures(pl, k) /\ RoomFor(k)
  BY <1>2
<1>31. pl \in Octets /\ Len(pl) = k
  BY <1>3 DEF Measures
<1>32. PICK N \in Nat : N = UserDataLength[k] /\ N <= k + 16
  BY <1>3, UserDataIs
<1>33. UserDataHeader(c, k) \in Octets
  BY <1>3, UserDataIs
<1>34. PICK g \in Octet : g = 160
  BY DEF Octet
<1>35. InTwoOctets(N)
  BY <1>2, <1>32 DEF InTwoOctets
<1>36. DetermineLengthSize(N) \in 1 .. 3
  BY <1>34, <1>35, HeaderIs
<1>37. PICK M \in Nat : M = N + DetermineLengthSize(N) + 1 /\ M <= N + 4
  BY <1>36
<1>38. InTwoOctets(M)
  BY <1>2, <1>32, <1>37 DEF InTwoOctets
<1>39. EncodeTL(g, M) \in Octets
  BY <1>38, HeaderIs
<1>40. PICK h \in Octets : h = EncodeTL(g, M) ++ UserDataHeader(c, k)
  BY <1>33, <1>39, Closed
<1>41. AbortUserHeader(c, k) = h
  BY <1>32, <1>34, <1>37, <1>40 DEF AbortUserHeader, ++
<1>42. PICK u \in Octets : u = h ++ pl
  BY <1>31, Closed
<1>4. PICK n : n = Len(u) /\ Measures(u, n)
  BY OctetsAre DEF Measures
<1>5. u \in Octets /\ n \in Nat /\ n = Len(u)
  BY <1>4 DEF Measures
<1>6. PICK r \in Octet : r = 11
  BY DEF Octet
<1>7. PICK P : P = <<17, 1, r>> \o SessionUserData(n)
  OBVIOUS
<1>8. PICK i \in Nat : i = 5 /\ Measures(P, i)
  BY <1>5, <1>7, ReasonAndData
<1>9. PICK code \in Octet : code = 25
  BY DEF Octet
<1>10. Measures(P, i) /\ code \in {9, 10, 25}
  BY <1>8, <1>9
<1>11. NoConnect(Spdu(code, P, n) \o u)
  BY <1>4, <1>10, ClosingSpdu
<1>12. AbortMessage(c) = Spdu(code, P, n) \o u
  <2>1. AbortUserHeader(c, Len(AbortApdu(FALSE))) \o AbortApdu(FALSE) = u
    BY <1>1, <1>31, <1>41, <1>42 DEF ++
  <2>2. AbortWith[u] = AbortSpdu(n) \o u
    BY <1>5 DEF AbortWith
  <2>3. AbortSpdu(n) = Spdu(code, P, n)
    BY <1>6, <1>7, <1>9 DEF AbortSpdu
  <2> QED BY <2>1, <2>2, <2>3 DEF AbortMessage
<1> QED BY <1>11, <1>12
=============================================================================
