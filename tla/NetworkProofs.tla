---------------------------- MODULE NetworkProofs ----------------------------
(***************************************************************************)
(* Theorems about the two ways a message travels: through the connection   *)
(* of an association, whatever the layers above the transport hand over,   *)
(* and as the GOOSE messages of a control block.                           *)
(***************************************************************************)
EXTENDS Goose, CodecProofs

-----------------------------------------------------------------------------
(* The powers of two that a TPDU size may be.                              *)
LEMMA Powers ==
  /\ 2 ^ 0 = 1 /\ 2 ^ 1 = 2 /\ 2 ^ 2 = 4 /\ 2 ^ 3 = 8 /\ 2 ^ 4 = 16 /\ 2 ^ 5 = 32
  /\ 2 ^ 6 = 64 /\ 2 ^ 7 = 128 /\ 2 ^ 8 = 256 /\ 2 ^ 9 = 512 /\ 2 ^ 10 = 1024
  /\ 2 ^ 11 = 2048 /\ 2 ^ 12 = 4096 /\ 2 ^ 13 = 8192 /\ 2 ^ 14 = 16384
  /\ 2 ^ 15 = 32768 /\ 2 ^ 16 = 65536
  OBVIOUS

(* A size that a TPDU may have.                                            *)
TpduSizes == {n \in Nat : 4 <= n /\ n < 2 ^ 16}

(* Every exponent below 16 is one of the numbers.                          *)
LEMMA PowerOf ==
  ASSUME NEW e \in 0 .. 15
  PROVE  /\ 2 ^ e \in Nat /\ 2 ^ (e + 1) = 2 * 2 ^ e
         /\ e >= 2 <=> 2 ^ e >= 4
         /\ 2 ^ e < 2 ^ 16
<1>1. CASE e = 0
  <2>1. e + 1 = 1
    BY <1>1
  <2> QED BY <1>1, <2>1, Powers
<1>2. CASE e = 1
  <2>1. e + 1 = 2
    BY <1>2
  <2> QED BY <1>2, <2>1, Powers
<1>3. CASE e = 2
  <2>1. e + 1 = 3
    BY <1>3
  <2> QED BY <1>3, <2>1, Powers
<1>4. CASE e = 3
  <2>1. e + 1 = 4
    BY <1>4
  <2> QED BY <1>4, <2>1, Powers
<1>5. CASE e = 4
  <2>1. e + 1 = 5
    BY <1>5
  <2> QED BY <1>5, <2>1, Powers
<1>6. CASE e = 5
  <2>1. e + 1 = 6
    BY <1>6
  <2> QED BY <1>6, <2>1, Powers
<1>7. CASE e = 6
  <2>1. e + 1 = 7
    BY <1>7
  <2> QED BY <1>7, <2>1, Powers
<1>8. CASE e = 7
  <2>1. e + 1 = 8
    BY <1>8
  <2> QED BY <1>8, <2>1, Powers
<1>9. CASE e = 8
  <2>1. e + 1 = 9
    BY <1>9
  <2> QED BY <1>9, <2>1, Powers
<1>10. CASE e = 9
  <2>1. e + 1 = 10
    BY <1>10
  <2> QED BY <1>10, <2>1, Powers
<1>11. CASE e = 10
  <2>1. e + 1 = 11
    BY <1>11
  <2> QED BY <1>11, <2>1, Powers
<1>12. CASE e = 11
  <2>1. e + 1 = 12
    BY <1>12
  <2> QED BY <1>12, <2>1, Powers
<1>13. CASE e = 12
  <2>1. e + 1 = 13
    BY <1>13
  <2> QED BY <1>13, <2>1, Powers
<1>14. CASE e = 13
  <2>1. e + 1 = 14
    BY <1>14
  <2> QED BY <1>14, <2>1, Powers
<1>15. CASE e = 14
  <2>1. e + 1 = 15
    BY <1>15
  <2> QED BY <1>15, <2>1, Powers
<1>16. CASE e = 15
  <2>1. e + 1 = 16
    BY <1>16
  <2> QED BY <1>16, <2>1, Powers
<1> QED BY <1>1, <1>2, <1>3, <1>4, <1>5, <1>6, <1>7, <1>8, <1>9, <1>10, <1>11, <1>12, <1>13, <1>14, <1>15, <1>16

(* A number between two powers is between two that follow each other.      *)
LEMMA Reached ==
  ASSUME NEW n \in TpduSizes
  PROVE  \E e \in 0 .. 15 : 2 ^ e <= n /\ n < 2 ^ (e + 1)
<1> DEFINE Fits(e) == 2 ^ e <= n /\ n < 2 ^ (e + 1)
<1>1. CASE 2 ^ 2 <= n /\ n < 2 ^ 3
  <2>1. 2 + 1 = 3
    OBVIOUS
  <2> QED BY <1>1, <2>1
<1>2. CASE 2 ^ 3 <= n /\ n < 2 ^ 4
  <2>1. 3 + 1 = 4
    OBVIOUS
  <2> QED BY <1>2, <2>1
<1>3. CASE 2 ^ 4 <= n /\ n < 2 ^ 5
  <2>1. 4 + 1 = 5
    OBVIOUS
  <2> QED BY <1>3, <2>1
<1>4. CASE 2 ^ 5 <= n /\ n < 2 ^ 6
  <2>1. 5 + 1 = 6
    OBVIOUS
  <2> QED BY <1>4, <2>1
<1>5. CASE 2 ^ 6 <= n /\ n < 2 ^ 7
  <2>1. 6 + 1 = 7
    OBVIOUS
  <2> QED BY <1>5, <2>1
<1>6. CASE 2 ^ 7 <= n /\ n < 2 ^ 8
  <2>1. 7 + 1 = 8
    OBVIOUS
  <2> QED BY <1>6, <2>1
<1>7. CASE 2 ^ 8 <= n /\ n < 2 ^ 9
  <2>1. 8 + 1 = 9
    OBVIOUS
  <2> QED BY <1>7, <2>1
<1>8. CASE 2 ^ 9 <= n /\ n < 2 ^ 10
  <2>1. 9 + 1 = 10
    OBVIOUS
  <2> QED BY <1>8, <2>1
<1>9. CASE 2 ^ 10 <= n /\ n < 2 ^ 11
  <2>1. 10 + 1 = 11
    OBVIOUS
  <2> QED BY <1>9, <2>1
<1>10. CASE 2 ^ 11 <= n /\ n < 2 ^ 12
  <2>1. 11 + 1 = 12
    OBVIOUS
  <2> QED BY <1>10, <2>1
<1>11. CASE 2 ^ 12 <= n /\ n < 2 ^ 13
  <2>1. 12 + 1 = 13
    OBVIOUS
  <2> QED BY <1>11, <2>1
<1>12. CASE 2 ^ 13 <= n /\ n < 2 ^ 14
  <2>1. 13 + 1 = 14
    OBVIOUS
  <2> QED BY <1>12, <2>1
<1>13. CASE 2 ^ 14 <= n /\ n < 2 ^ 15
  <2>1. 14 + 1 = 15
    OBVIOUS
  <2> QED BY <1>13, <2>1
<1>14. CASE 2 ^ 15 <= n /\ n < 2 ^ 16
  <2>1. 15 + 1 = 16
    OBVIOUS
  <2> QED BY <1>14, <2>1
<1>15. n \in Nat /\ 2 ^ 2 <= n /\ n < 2 ^ 16
  BY Powers DEF TpduSizes
<1> QED BY <1>1, <1>2, <1>3, <1>4, <1>5, <1>6, <1>7, <1>8, <1>9, <1>10, <1>11, <1>12, <1>13, <1>14, <1>15, Powers

(* CotpConnection_setTpduSize finds a size that leaves room for data.       *)
LEMMA ExponentFits ==
  ASSUME NEW maxSize \in TpduSizes, NEW size \in TpduSizes
  PROVE  TpduExponent(maxSize, size) \in 2 .. 15
<1> DEFINE n == IF size > maxSize THEN maxSize ELSE size
           Fits(e) == 2 ^ e <= n /\ n < 2 ^ (e + 1)
<1>1. n \in TpduSizes
  OBVIOUS
<1>2. TpduExponent(maxSize, size) = CHOOSE e \in 0 .. 15 : Fits(e)
  BY DEF TpduExponent
<1> HIDE DEF n
<1>3. \E e \in 0 .. 15 : Fits(e)
  BY <1>1, Reached
<1>4. TpduExponent(maxSize, size) \in 0 .. 15 /\ Fits(TpduExponent(maxSize, size))
  BY <1>2, <1>3
<1>5. ASSUME NEW e \in 0 .. 15, Fits(e) PROVE e \in 2 .. 15
  <2>1. n \in Nat /\ 4 <= n
    BY <1>1 DEF TpduSizes
  <2>2. 2 ^ (e + 1) >= 4
    BY <1>5, <2>1, PowerOf
  <2>3. e # 0 /\ e # 1
    <3>1. CASE e = 0
      BY <3>1, <2>2, Powers
    <3>2. CASE e = 1
      BY <3>2, <1>5, <2>1, Powers
    <3> QED BY <3>1, <3>2
  <2> QED BY <2>3
<1> QED BY <1>4, <1>5

-----------------------------------------------------------------------------
(***************************************************************************)
(* Where a stream of messages has got to is a position: k messages less    *)
(* one are complete, and o octets of message k.  A TPDU leads from one     *)
(* position to another.                                                    *)
(***************************************************************************)
ConnectTpdu ==
  [code : {"CR", "CC"}, first : Int, second : Int,
   options : [tpdu_size : 2 .. 15, tsap_id_dst : Int, tsap_id_src : Int]]
DataTpdu == [code : {"DT"}, last : BOOLEAN, data : Octets]
Tpdu == ConnectTpdu \cup DataTpdu

(* A data TPDU has the octets of a message S[k] behind the first o, and    *)
(* the last TPDU of a message has them all.                                *)
CarriesData(t, S, k, o, l, p) ==
  /\ k \in 1 .. Len(S)
  /\ o + Len(t.data) <= Len(S[k])
  /\ t.data = SubSeq(S[k], o + 1, o + Len(t.data))
  /\ t.last => o + Len(t.data) = Len(S[k]) /\ l = k + 1 /\ p = 0
  /\ ~t.last => l = k /\ p = o + Len(t.data)

Carries(t, S, k, o, l, p) ==
  /\ t \in DataTpdu => CarriesData(t, S, k, o, l, p)
  /\ t \in ConnectTpdu => o = 0 /\ l = k /\ p = 0

(* TPDUs w one behind the other, from message k, octet o, to message l,    *)
(* octet p, of the messages S.                                             *)
Path(w, S, msg, off) ==
  /\ msg \in [1 .. Len(w) + 1 -> Nat] /\ off \in [1 .. Len(w) + 1 -> Nat]
  /\ \A i \in 1 .. Len(w) : Carries(w[i], S, msg[i], off[i], msg[i + 1], off[i + 1])

Chained(w, S, k, o, l, p) ==
  \E msg, off : /\ Path(w, S, msg, off)
                /\ msg[1] = k /\ off[1] = o /\ msg[Len(w) + 1] = l /\ off[Len(w) + 1] = p

(* Nothing leads nowhere.                                                  *)
LEMMA ChainEmpty ==
  ASSUME NEW S, NEW k \in Nat, NEW o \in Nat
  PROVE  Chained(<<>>, S, k, o, k, o)
<1> DEFINE msg == [i \in 1 .. 1 |-> k]
           off == [i \in 1 .. 1 |-> o]
<1>1. Path(<<>>, S, msg, off)
  BY DEF Path
<1>2. msg[1] = k /\ off[1] = o
  OBVIOUS
<1> QED BY <1>1, <1>2 DEF Chained

(* The first TPDU of a chain leads to the chain of the rest.               *)
LEMMA ChainHead ==
  ASSUME NEW w \in Seq(Tpdu), w # <<>>, NEW S, NEW k \in Nat, NEW o \in Nat, NEW l, NEW p,
         Chained(w, S, k, o, l, p)
  PROVE  \E k1 \in Nat, o1 \in Nat :
           Carries(Head(w), S, k, o, k1, o1) /\ Chained(Tail(w), S, k1, o1, l, p)
<1>1. PICK msg, off : /\ Path(w, S, msg, off)
                      /\ msg[1] = k /\ off[1] = o /\ msg[Len(w) + 1] = l /\ off[Len(w) + 1] = p
  BY DEF Chained
<1>2. Len(w) \in Nat \ {0} /\ Len(Tail(w)) = Len(w) - 1 /\ Head(w) = w[1]
      /\ \A i \in 1 .. Len(Tail(w)) : Tail(w)[i] = w[i + 1]
  OBVIOUS
<1> DEFINE msg1 == [i \in 1 .. Len(w) |-> msg[i + 1]]
           off1 == [i \in 1 .. Len(w) |-> off[i + 1]]
<1>3. \A i \in 1 .. Len(w) : msg1[i] = msg[i + 1] /\ off1[i] = off[i + 1]
  OBVIOUS
<1>4. msg1 \in [1 .. Len(w) -> Nat] /\ off1 \in [1 .. Len(w) -> Nat]
  BY <1>1, <1>2 DEF Path
<1>5. Carries(w[1], S, k, o, msg[2], off[2]) /\ msg[2] \in Nat /\ off[2] \in Nat
  BY <1>1, <1>2 DEF Path
<1> HIDE DEF msg1, off1
<1>6. ASSUME NEW i \in 1 .. Len(Tail(w))
      PROVE  Carries(Tail(w)[i], S, msg1[i], off1[i], msg1[i + 1], off1[i + 1])
  <2>1. i + 1 \in 1 .. Len(w) /\ i \in 1 .. Len(w) /\ Tail(w)[i] = w[i + 1]
    BY <1>2
  <2>2. Carries(w[i + 1], S, msg[i + 1], off[i + 1], msg[i + 1 + 1], off[i + 1 + 1])
    BY <1>1, <2>1 DEF Path
  <2>3. msg1[i] = msg[i + 1] /\ off1[i] = off[i + 1]
        /\ msg1[i + 1] = msg[i + 1 + 1] /\ off1[i + 1] = off[i + 1 + 1]
    BY <1>3, <2>1
  <2> QED BY <2>1, <2>2, <2>3
<1>7. Path(Tail(w), S, msg1, off1)
  BY <1>2, <1>4, <1>6 DEF Path
<1>8. msg1[1] = msg[2] /\ off1[1] = off[2]
      /\ msg1[Len(Tail(w)) + 1] = l /\ off1[Len(Tail(w)) + 1] = p
  BY <1>1, <1>2, <1>3
<1> QED BY <1>2, <1>5, <1>7, <1>8 DEF Chained

(* What is left of a chain that breaks off is a chain.                     *)
LEMMA ChainPrefix ==
  ASSUME NEW w \in Seq(Tpdu), NEW n \in 0 .. Len(w), NEW S, NEW k, NEW o, NEW l, NEW p,
         Chained(w, S, k, o, l, p)
  PROVE  \E l1 \in Nat, p1 \in Nat : Chained(SubSeq(w, 1, n), S, k, o, l1, p1)
<1>1. PICK msg, off : Path(w, S, msg, off) /\ msg[1] = k /\ off[1] = o
  BY DEF Chained
<1> DEFINE v == SubSeq(w, 1, n)
           msg1 == [i \in 1 .. n + 1 |-> msg[i]]
           off1 == [i \in 1 .. n + 1 |-> off[i]]
<1>2. Len(w) \in Nat /\ n \in Nat /\ n <= Len(w)
  OBVIOUS
<1>3. Len(v) = n /\ \A i \in 1 .. n : v[i] = w[i]
  BY <1>2
<1>4. \A i \in 1 .. n + 1 : msg1[i] = msg[i] /\ off1[i] = off[i]
  OBVIOUS
<1>5. msg1 \in [1 .. n + 1 -> Nat] /\ off1 \in [1 .. n + 1 -> Nat]
  <2>1. \A i \in 1 .. n + 1 : msg[i] \in Nat /\ off[i] \in Nat
    BY <1>1, <1>2 DEF Path
  <2> QED BY <2>1
<1> HIDE DEF v, msg1, off1
<1>6. ASSUME NEW i \in 1 .. n
      PROVE  Carries(v[i], S, msg1[i], off1[i], msg1[i + 1], off1[i + 1])
  <2>1. i \in 1 .. Len(w) /\ i \in 1 .. n + 1 /\ i + 1 \in 1 .. n + 1
    BY <1>2
  <2>2. Carries(w[i], S, msg[i], off[i], msg[i + 1], off[i + 1])
    BY <1>1, <2>1 DEF Path
  <2> QED BY <1>3, <1>4, <2>1, <2>2
<1>7. Path(v, S, msg1, off1)
  BY <1>3, <1>5, <1>6 DEF Path
<1>8. msg1[1] = k /\ off1[1] = o /\ msg1[n + 1] \in Nat /\ off1[n + 1] \in Nat
  BY <1>1, <1>2, <1>4, <1>5
<1>9. Chained(v, S, k, o, msg1[n + 1], off1[n + 1])
  BY <1>3, <1>7, <1>8 DEF Chained
<1> QED BY <1>8, <1>9 DEF v

(* A chain goes on where the one before it ends.                           *)
LEMMA ChainConcat ==
  ASSUME NEW v \in Seq(Tpdu), NEW w \in Seq(Tpdu), NEW S,
         NEW k, NEW o, NEW l, NEW p, NEW m, NEW q,
         Chained(v, S, k, o, l, p), Chained(w, S, l, p, m, q)
  PROVE  Chained(v \o w, S, k, o, m, q)
<1>1. PICK msg1, off1 : /\ Path(v, S, msg1, off1)
                        /\ msg1[1] = k /\ off1[1] = o
                        /\ msg1[Len(v) + 1] = l /\ off1[Len(v) + 1] = p
  BY DEF Chained
<1>2. PICK msg2, off2 : /\ Path(w, S, msg2, off2)
                        /\ msg2[1] = l /\ off2[1] = p
                        /\ msg2[Len(w) + 1] = m /\ off2[Len(w) + 1] = q
  BY DEF Chained
<1>3. PICK a \in Nat : a = Len(v)
  OBVIOUS
<1>4. PICK b \in Nat : b = Len(w)
  OBVIOUS
<1> DEFINE u == v \o w
           msg == [i \in 1 .. a + b + 1 |-> IF i <= a THEN msg1[i] ELSE msg2[i - a]]
           off == [i \in 1 .. a + b + 1 |-> IF i <= a THEN off1[i] ELSE off2[i - a]]
<1>5. Len(u) = a + b /\ (\A i \in 1 .. a : u[i] = v[i])
      /\ (\A i \in 1 .. b : u[a + i] = w[i])
  BY <1>3, <1>4
<1>6. /\ \A i \in 1 .. a : msg[i] = msg1[i] /\ off[i] = off1[i]
      /\ \A i \in 1 .. b + 1 : msg[a + i] = msg2[i] /\ off[a + i] = off2[i]
  OBVIOUS
<1>7. msg[a + 1] = msg1[a + 1] /\ off[a + 1] = off1[a + 1]
  BY <1>1, <1>2, <1>3, <1>6
<1>8. msg \in [1 .. a + b + 1 -> Nat] /\ off \in [1 .. a + b + 1 -> Nat]
  <2>1. ASSUME NEW i \in 1 .. a + b + 1
        PROVE  (IF i <= a THEN msg1[i] ELSE msg2[i - a]) \in Nat
               /\ (IF i <= a THEN off1[i] ELSE off2[i - a]) \in Nat
    <3>1. CASE i <= a
      BY <3>1, <1>1, <1>3 DEF Path
    <3>2. CASE ~(i <= a)
      <4>1. i - a \in 1 .. b + 1
        BY <3>2
      <4> QED BY <4>1, <3>2, <1>2, <1>4 DEF Path
    <3> QED BY <3>1, <3>2
  <2> QED BY <2>1
<1> HIDE DEF u, msg, off
<1>9. ASSUME NEW i \in 1 .. a + b
      PROVE  Carries(u[i], S, msg[i], off[i], msg[i + 1], off[i + 1])
  <2>1. CASE i \in 1 .. a
    <3>1. Carries(v[i], S, msg1[i], off1[i], msg1[i + 1], off1[i + 1])
      BY <2>1, <1>1, <1>3 DEF Path
    <3>2. msg[i + 1] = msg1[i + 1] /\ off[i + 1] = off1[i + 1]
      <4>1. CASE i = a
        BY <4>1, <1>7
      <4>2. CASE i + 1 \in 1 .. a
        BY <4>2, <1>6
      <4> QED BY <2>1, <4>1, <4>2
    <3> QED BY <2>1, <3>1, <3>2, <1>5, <1>6
  <2>2. CASE ~(i \in 1 .. a)
    <3>1. PICK j \in 1 .. b : i = a + j
      <4>1. i - a \in 1 .. b /\ i = a + (i - a)
        BY <2>2
      <4> QED BY <4>1
    <3>2. Carries(w[j], S, msg2[j], off2[j], msg2[j + 1], off2[j + 1])
      BY <1>2, <1>4 DEF Path
    <3>3. j \in 1 .. b + 1 /\ j + 1 \in 1 .. b + 1 /\ i + 1 = a + (j + 1)
      BY <3>1
    <3> QED BY <3>1, <3>2, <3>3, <1>5, <1>6
  <2> QED BY <2>1, <2>2
<1>10. Path(u, S, msg, off)
  BY <1>5, <1>8, <1>9 DEF Path
<1>11. msg[1] = k /\ off[1] = o
  <2>1. CASE a = 0
    BY <2>1, <1>1, <1>3, <1>7
  <2>2. CASE 1 \in 1 .. a
    BY <2>2, <1>1, <1>6
  <2> QED BY <2>1, <2>2
<1>12. msg[a + b + 1] = m /\ off[a + b + 1] = q
  <2>1. b + 1 \in 1 .. b + 1 /\ a + b + 1 = a + (b + 1)
    OBVIOUS
  <2> QED BY <2>1, <1>2, <1>4, <1>6
<1> QED BY <1>5, <1>10, <1>11, <1>12 DEF Chained, u

(* A chain stays one when messages are added.                              *)
LEMMA ChainGrows ==
  ASSUME NEW w, NEW S \in Seq(Octets), NEW x \in Octets,
         NEW k, NEW o, NEW l, NEW p, Chained(w, S, k, o, l, p)
  PROVE  Chained(w, Append(S, x), k, o, l, p)
<1> DEFINE T == Append(S, x)
<1>1. PICK msg, off : /\ Path(w, S, msg, off)
                      /\ msg[1] = k /\ off[1] = o /\ msg[Len(w) + 1] = l /\ off[Len(w) + 1] = p
  BY DEF Chained
<1>2. Len(T) = Len(S) + 1 /\ Len(S) \in Nat /\ \A i \in 1 .. Len(S) : T[i] = S[i]
  OBVIOUS
<1> HIDE DEF T
<1>3. ASSUME NEW t, NEW k0, NEW o0, NEW l0, NEW p0, Carries(t, S, k0, o0, l0, p0)
      PROVE  Carries(t, T, k0, o0, l0, p0)
  <2>1. ASSUME t \in DataTpdu PROVE CarriesData(t, T, k0, o0, l0, p0)
    <3>1. k0 \in 1 .. Len(S) /\ k0 \in 1 .. Len(T) /\ T[k0] = S[k0]
      BY <1>2, <1>3, <2>1 DEF Carries, CarriesData
    <3> QED BY <1>3, <2>1, <3>1 DEF Carries, CarriesData
  <2> QED BY <2>1, <1>3 DEF Carries
<1>4. Path(w, T, msg, off)
  BY <1>1, <1>3 DEF Path
<1> QED BY <1>1, <1>4 DEF Chained, T

(* The number of pieces of f octets that L octets take.                    *)
LEMMA Pieces ==
  ASSUME NEW L \in Nat, NEW f \in Nat \ {0}, NEW n,
         n = IF L <= f THEN 1 ELSE L \div f + (IF L % f # 0 THEN 1 ELSE 0)
  PROVE  n \in Nat \ {0} /\ (n - 1) * f <= L /\ L <= n * f
<1>1. CASE L <= f
  BY <1>1
<1>2. CASE L > f
  <2>1. PICK q \in Nat, r \in Nat : q = L \div f /\ r = L % f /\ L = f * q + r /\ r < f
    OBVIOUS
  <2>2. q >= 1
    <3>1. q = 0 => L < f
      BY <2>1
    <3> QED BY <1>2, <2>1, <3>1
  <2>3. CASE r = 0
    <3>1. n = q
      BY <1>2, <2>1, <2>3
    <3>2. f * q = q * f /\ (q - 1) * f = q * f - f
      BY <2>1
    <3> QED BY <2>1, <2>2, <2>3, <3>1, <3>2
  <2>4. CASE r # 0
    <3>1. n = q + 1
      BY <1>2, <2>1, <2>4
    <3>2. f * q = q * f /\ (q + 1) * f = q * f + f /\ n - 1 = q
      BY <2>1, <3>1
    <3> QED BY <2>1, <2>2, <3>1, <3>2
  <2> QED BY <2>1, <2>3, <2>4
<1> QED BY <1>1, <1>2

(* Multiples of f are ordered as their factors.                            *)
LEMMA Multiples ==
  ASSUME NEW i \in Nat, NEW j \in Nat, NEW f \in Nat, i <= j
  PROVE  i * f \in Nat /\ i * f <= j * f /\ (i + 1) * f = i * f + f
<1>1. (j - i) * f \in Nat
  OBVIOUS
<1>2. (j - i) * f = j * f - i * f
  OBVIOUS
<1>3. i * f \in Nat /\ j * f \in Nat
  OBVIOUS
<1>4. (i + 1) * f = i * f + f
  OBVIOUS
<1> QED BY <1>1, <1>2, <1>3, <1>4

(* A part of a message, from octet s + 1 to octet e.                       *)
LEMMA PartOf ==
  ASSUME NEW m \in Octets, NEW s \in Nat, NEW e \in Nat, s <= e, e <= Len(m)
  PROVE  SubSeq(m, s + 1, e) \in Octets /\ Len(SubSeq(m, s + 1, e)) = e - s
<1>1. \A i \in s + 1 .. e : m[i] \in Octet
  BY DEF Octets
<1>2. s + 1 \in Int /\ e \in Int
  OBVIOUS
<1>3. /\ SubSeq(m, s + 1, e) \in Seq(Octet)
      /\ Len(SubSeq(m, s + 1, e)) = IF s + 1 <= e THEN e - (s + 1) + 1 ELSE 0
  BY <1>1, <1>2, SubSeqProperties
<1> QED BY <1>3 DEF Octets

(* Data TPDUs that are not longer than a size.                             *)
Bounded(size, w) ==
  \A i \in 1 .. Len(w) : w[i].code = "DT" /\ Len(w[i].data) + CotpDataHeaderSize <= size

(* CotpConnection_sendDataMessage cuts a message into TPDUs that lead from *)
(* its first octet to the next message.                                    *)
LEMMA ChainSegments ==
  ASSUME NEW end, TpduSize(end) \in Nat, TpduSize(end) >= 4,
         NEW S \in Seq(Octets), NEW k \in 1 .. Len(S)
  PROVE  /\ Segments(end, S[k]) \in Seq(Tpdu)
         /\ Chained(Segments(end, S[k]), S, k, 0, k + 1, 0)
         /\ Bounded(TpduSize(end), Segments(end, S[k]))
<1>1. PICK m \in Octets : m = S[k]
  OBVIOUS
<1>2. PICK f \in Nat \ {0} : f = TpduSize(end) - CotpDataHeaderSize
  BY DEF CotpDataHeaderSize
<1>3. PICK L \in Nat : L = Len(m)
  BY DEF Octets
<1>4. PICK n : n = IF L <= f THEN 1 ELSE L \div f + (IF L % f # 0 THEN 1 ELSE 0)
  OBVIOUS
<1>5. n \in Nat \ {0} /\ (n - 1) * f <= L /\ L <= n * f
  BY <1>4, Pieces
<1> DEFINE w == Segments(end, S[k])
           stop(i) == IF i = n THEN L ELSE i * f
<1>6. w = [i \in 1 .. n |-> [code |-> "DT", last |-> i = n,
                             data |-> SubSeq(m, (i - 1) * f + 1, stop(i))]]
  BY <1>1, <1>2, <1>3, <1>4 DEF Segments
<1>7. ASSUME NEW i \in 1 .. n
      PROVE  /\ (i - 1) * f \in Nat /\ stop(i) \in Nat
             /\ (i - 1) * f <= stop(i) /\ stop(i) <= L /\ stop(i) <= (i - 1) * f + f
  <2>1. i - 1 \in Nat /\ n - 1 \in Nat /\ i - 1 <= n - 1
    BY <1>5
  <2>2. (i - 1) * f \in Nat /\ (i - 1) * f <= (n - 1) * f /\ (i - 1 + 1) * f = (i - 1) * f + f
    BY <2>1, Multiples
  <2>3. CASE i = n
    BY <2>2, <2>3, <1>5
  <2>4. CASE i # n
    <3>1. i <= n - 1 /\ i - 1 + 1 = i
      BY <1>5, <2>1, <2>4
    <3>2. i * f \in Nat /\ i * f <= (n - 1) * f
      BY <2>1, <3>1, Multiples
    <3>3. (n - 1) * f \in Nat
      BY <2>1
    <3> QED BY <1>5, <2>2, <2>4, <3>1, <3>2, <3>3
  <2> QED BY <2>3, <2>4
<1>8. ASSUME NEW i \in 1 .. n
      PROVE  /\ w[i] \in DataTpdu /\ w[i].last = (i = n)
             /\ Len(w[i].data) = stop(i) - (i - 1) * f
             /\ w[i].data = SubSeq(m, (i - 1) * f + 1, (i - 1) * f + Len(w[i].data))
  <2>1. PICK s \in Nat, e \in Nat : s = (i - 1) * f /\ e = stop(i) /\ s <= e /\ e <= L
    BY <1>7
  <2>2. w[i] = [code |-> "DT", last |-> i = n, data |-> SubSeq(m, s + 1, e)]
    BY <1>6, <2>1
  <2> HIDE DEF w, stop
  <2>3. SubSeq(m, s + 1, e) \in Octets /\ Len(SubSeq(m, s + 1, e)) = e - s
    BY <2>1, <1>3, PartOf
  <2>4. s + (e - s) = e
    OBVIOUS
  <2> QED BY <2>1, <2>2, <2>3, <2>4 DEF DataTpdu
<1>9. w \in Seq(Tpdu) /\ Len(w) = n
  <2>1. \A i \in 1 .. n : w[i] \in Tpdu
    BY <1>8 DEF Tpdu
  <2>2. w \in [1 .. n -> Tpdu]
    BY <1>6, <2>1
  <2> QED BY <2>2, <1>5, LenProperties
<1> DEFINE msg == [i \in 1 .. n + 1 |-> IF i <= n THEN k ELSE k + 1]
           off == [i \in 1 .. n + 1 |-> IF i <= n THEN (i - 1) * f ELSE 0]
<1>10. /\ \A i \in 1 .. n : msg[i] = k /\ off[i] = (i - 1) * f
       /\ msg[n + 1] = k + 1 /\ off[n + 1] = 0
  BY <1>5
<1>11. msg \in [1 .. n + 1 -> Nat] /\ off \in [1 .. n + 1 -> Nat]
  <2>1. k \in Nat
    OBVIOUS
  <2>2. \A i \in 1 .. n + 1 : (IF i <= n THEN (i - 1) * f ELSE 0) \in Nat
    BY <1>5, <1>7
  <2> QED BY <2>1, <2>2
<1> HIDE DEF w, stop, msg, off
<1>12. ASSUME NEW i \in 1 .. n
       PROVE  Carries(w[i], S, msg[i], off[i], msg[i + 1], off[i + 1])
  <2>1. PICK s \in Nat, e \in Nat : s = (i - 1) * f /\ e = stop(i) /\ s <= e /\ e <= L
    BY <1>7
  <2>2. /\ w[i] \in DataTpdu /\ w[i].last = (i = n)
        /\ Len(w[i].data) = e - s /\ w[i].data = SubSeq(m, s + 1, s + Len(w[i].data))
        /\ s + Len(w[i].data) = e
    <3>1. /\ w[i] \in DataTpdu /\ w[i].last = (i = n)
          /\ Len(w[i].data) = e - s /\ w[i].data = SubSeq(m, s + 1, s + Len(w[i].data))
      BY <1>8, <2>1
    <3>2. s + (e - s) = e
      BY <2>1
    <3> QED BY <3>1, <3>2
  <2>3. msg[i] = k /\ off[i] = s
    BY <1>10, <2>1
  <2>4. IF i = n THEN e = L /\ msg[i + 1] = k + 1 /\ off[i + 1] = 0
                 ELSE msg[i + 1] = k /\ off[i + 1] = e
    <3>1. CASE i = n
      BY <3>1, <1>10, <2>1 DEF stop
    <3>2. CASE i # n
      <4>1. i + 1 \in 1 .. n /\ i + 1 - 1 = i
        BY <3>2, <1>5
      <4>2. e = i * f
        BY <3>2, <2>1 DEF stop
      <4> QED BY <3>2, <4>1, <4>2, <1>10
    <3> QED BY <3>1, <3>2
  <2>5. w[i] \notin ConnectTpdu
    BY <2>2 DEF DataTpdu, ConnectTpdu
  <2>6. CarriesData(w[i], S, msg[i], off[i], msg[i + 1], off[i + 1])
    BY <1>1, <1>3, <2>1, <2>2, <2>3, <2>4 DEF CarriesData
  <2> QED BY <2>5, <2>6 DEF Carries
<1>13. Path(w, S, msg, off)
  BY <1>9, <1>11, <1>12 DEF Path
<1>14. msg[1] = k /\ off[1] = 0
  <2>1. (1 - 1) * f = 0
    OBVIOUS
  <2> QED BY <2>1, <1>5, <1>10
<1>15. Bounded(TpduSize(end), w)
  <2> SUFFICES ASSUME NEW i \in 1 .. n
               PROVE  w[i].code = "DT" /\ Len(w[i].data) + CotpDataHeaderSize <= TpduSize(end)
    BY <1>9 DEF Bounded
  <2>1. PICK s \in Nat, e \in Nat : s = (i - 1) * f /\ e = stop(i) /\ s <= e /\ e <= s + f
    BY <1>7
  <2>2. w[i].code = "DT" /\ Len(w[i].data) = e - s
    BY <1>8, <2>1 DEF DataTpdu
  <2>3. PICK T \in Nat : T = TpduSize(end) /\ f = T - 3
    BY <1>2 DEF CotpDataHeaderSize
  <2>4. e - s + 3 <= T
    <3>1. ASSUME NEW x \in Nat, NEW y \in Nat, y <= x + f PROVE y - x + 3 <= T
      BY <2>3, <3>1
    <3> QED BY <2>1, <3>1
  <2> QED BY <2>2, <2>3, <2>4 DEF CotpDataHeaderSize
<1> QED BY <1>9, <1>10, <1>13, <1>14, <1>15 DEF Chained, w

-----------------------------------------------------------------------------
(***************************************************************************)
(* An end has been given d of the messages S; it holds the octets q of the *)
(* next one, and the TPDUs w are under way to it.  They go on where q ends *)
(* and, when none is lost, to the end of S.                                *)
(***************************************************************************)
Delivered(S, d) == Len(d) <= Len(S) /\ \A i \in 1 .. Len(d) : d[i] = S[i]

Collected(S, d, q) ==
  q # <<>> => /\ Len(d) + 1 <= Len(S) /\ Len(q) <= Len(S[Len(d) + 1])
              /\ q = SubSeq(S[Len(d) + 1], 1, Len(q))

Arriving(S, d, q, w, all) ==
  /\ Collected(S, d, q)
  /\ \E l \in Nat, p \in Nat :
       Chained(w, S, Len(d) + 1, Len(q), l, p) /\ (all => l = Len(S) + 1 /\ p = 0)

(* A delivered message is the next one of those sent.                      *)
LEMMA DeliverNext ==
  ASSUME NEW S \in Seq(Octets), NEW d \in Seq(Octets), Delivered(S, d), Len(d) + 1 <= Len(S)
  PROVE  /\ Append(d, S[Len(d) + 1]) = SubSeq(S, 1, Len(d) + 1)
         /\ Delivered(S, Append(d, S[Len(d) + 1]))
         /\ Len(Append(d, S[Len(d) + 1])) = Len(d) + 1
<1>1. PICK n \in Nat : n = Len(d)
  OBVIOUS
<1>2. n + 1 \in 1 .. Len(S) /\ Len(S) \in Nat
  BY <1>1
<1> DEFINE c == Append(d, S[n + 1])
           s == SubSeq(S, 1, n + 1)
<1>3. c \in Seq(Octets) /\ Len(c) = n + 1 /\ (\A i \in 1 .. n : c[i] = d[i]) /\ c[n + 1] = S[n + 1]
  BY <1>1, <1>2
<1>4. s \in Seq(Octets) /\ Len(s) = n + 1 /\ \A i \in 1 .. n + 1 : s[i] = S[i]
  BY <1>2
<1> HIDE DEF c, s
<1>5. \A i \in 1 .. n + 1 : c[i] = S[i]
  <2> TAKE i \in 1 .. n + 1
  <2>1. CASE i = n + 1
    BY <2>1, <1>3
  <2>2. CASE i \in 1 .. n
    BY <2>2, <1>1, <1>3 DEF Delivered
  <2>3. i = n + 1 \/ i \in 1 .. n
    BY <1>1
  <2> QED BY <2>1, <2>2, <2>3
<1>6. c = s
  BY <1>3, <1>4, <1>5, SeqEqual
<1> QED BY <1>1, <1>2, <1>3, <1>5, <1>6 DEF c, s, Delivered

(* The octets of a message up to s and from there to e are those up to e.  *)
LEMMA Joined ==
  ASSUME NEW m \in Octets, NEW s \in Nat, NEW e \in Nat, s <= e, e <= Len(m)
  PROVE  SubSeq(m, 1, s) \o SubSeq(m, s + 1, e) = SubSeq(m, 1, e)
<1>1. m \in Seq(Octet) /\ Len(m) \in Nat
  BY DEF Octets
<1> DEFINE a == SubSeq(m, 1, s)
           b == SubSeq(m, s + 1, e)
           c == SubSeq(m, 1, e)
<1>2. a \in Seq(Octet) /\ Len(a) = s /\ \A i \in 1 .. s : a[i] = m[i]
  BY <1>1
<1>3. b \in Seq(Octet) /\ Len(b) = e - s /\ \A i \in 1 .. e - s : b[i] = m[s + i]
  <2>1. b \in Seq(Octet) /\ Len(b) = e - s
    BY PartOf DEF Octets
  <2>2. \A i \in 1 .. e - s : b[i] = m[s + i]
    BY <1>1
  <2> QED BY <2>1, <2>2
<1>4. c \in Seq(Octet) /\ Len(c) = e /\ \A i \in 1 .. e : c[i] = m[i]
  BY <1>1
<1> HIDE DEF a, b, c
<1>5. a \o b \in Seq(Octet) /\ Len(a \o b) = e
  <2>1. s + (e - s) = e
    OBVIOUS
  <2>2. a \o b \in Seq(Octet) /\ Len(a \o b) = Len(a) + Len(b)
    BY <1>2, <1>3, ConcatProperties
  <2> QED BY <2>1, <2>2, <1>2, <1>3
<1>6. \A i \in 1 .. e : (a \o b)[i] = m[i]
  <2> TAKE i \in 1 .. e
  <2>1. CASE i \in 1 .. s
    BY <2>1, <1>2, <1>3
  <2>2. CASE i > s
    <3>1. i - s \in 1 .. e - s /\ s + (i - s) = i
      BY <2>2
    <3> QED BY <2>2, <3>1, <1>2, <1>3
  <2>3. i \in 1 .. s \/ i > s
    OBVIOUS
  <2> QED BY <2>1, <2>2, <2>3
<1>7. a \o b = c
  BY <1>4, <1>5, <1>6, SeqEqual
<1> QED BY <1>7 DEF a, b, c

(* A TPDU that does not end its message.                                   *)
LEMMA ReceiveMore ==
  ASSUME NEW S \in Seq(Octets), NEW d \in Seq(Octets), NEW q \in Octets, NEW w \in Seq(Tpdu),
         NEW all, Arriving(S, d, q, w, all), w # <<>>, Head(w) \in DataTpdu, ~Head(w).last
  PROVE  Arriving(S, d, q \o Head(w).data, Tail(w), all)
<1>1. PICK l \in Nat, p \in Nat :
        Chained(w, S, Len(d) + 1, Len(q), l, p) /\ (all => l = Len(S) + 1 /\ p = 0)
  BY DEF Arriving
<1>2. PICK k \in Nat : k = Len(d) + 1
  OBVIOUS
<1>3. PICK o \in Nat : o = Len(q)
  BY DEF Octets
<1>4. PICK k1 \in Nat, o1 \in Nat :
        Carries(Head(w), S, k, o, k1, o1) /\ Chained(Tail(w), S, k1, o1, l, p)
  BY <1>1, <1>2, <1>3, ChainHead
<1>5. CarriesData(Head(w), S, k, o, k1, o1)
  BY <1>4 DEF Carries
<1>6. PICK x \in Octets : x = Head(w).data
  BY DEF DataTpdu
<1>7. PICK n \in Nat : n = Len(x)
  BY DEF Octets
<1>8. /\ k \in 1 .. Len(S) /\ o + n <= Len(S[k])
      /\ x = SubSeq(S[k], o + 1, o + n) /\ k1 = k /\ o1 = o + n
  BY <1>5, <1>6, <1>7 DEF CarriesData
<1>9. PICK m \in Octets : m = S[k]
  BY <1>8
<1>10. q = SubSeq(m, 1, o)
  <2>1. CASE q = <<>>
    BY <2>1, <1>3, SubSeqEmpty
  <2>2. CASE q # <<>>
    BY <2>2, <1>2, <1>3, <1>9 DEF Arriving, Collected
  <2> QED BY <2>1, <2>2
<1>11. q \o x = SubSeq(m, 1, o + n)
  <2>1. o + n \in Nat /\ o <= o + n /\ o + n <= Len(m)
    BY <1>8, <1>9
  <2>2. SubSeq(m, 1, o) \o SubSeq(m, o + 1, o + n) = SubSeq(m, 1, o + n)
    BY <2>1, Joined
  <2> QED BY <2>2, <1>8, <1>9, <1>10
<1>12. Len(q \o x) = o + n
  BY <1>3, <1>6, <1>7 DEF Octets
<1>13. Collected(S, d, q \o x)
  <2>1. k <= Len(S)
    BY <1>8
  <2> QED BY <2>1, <1>2, <1>8, <1>9, <1>11, <1>12 DEF Collected
<1>14. Chained(Tail(w), S, Len(d) + 1, Len(q \o x), l, p)
  BY <1>2, <1>4, <1>8, <1>12
<1> QED BY <1>1, <1>6, <1>13, <1>14 DEF Arriving

(* The last TPDU of a message completes it.                                *)
LEMMA ReceiveLast ==
  ASSUME NEW S \in Seq(Octets), NEW d \in Seq(Octets), NEW q \in Octets, NEW w \in Seq(Tpdu),
         NEW all, Arriving(S, d, q, w, all), w # <<>>, Head(w) \in DataTpdu, Head(w).last
  PROVE  /\ Len(d) + 1 <= Len(S)
         /\ q \o Head(w).data = S[Len(d) + 1]
         /\ Arriving(S, Append(d, S[Len(d) + 1]), <<>>, Tail(w), all)
<1>1. PICK l \in Nat, p \in Nat :
        Chained(w, S, Len(d) + 1, Len(q), l, p) /\ (all => l = Len(S) + 1 /\ p = 0)
  BY DEF Arriving
<1>2. PICK k \in Nat : k = Len(d) + 1
  OBVIOUS
<1>3. PICK o \in Nat : o = Len(q)
  BY DEF Octets
<1>4. PICK k1 \in Nat, o1 \in Nat :
        Carries(Head(w), S, k, o, k1, o1) /\ Chained(Tail(w), S, k1, o1, l, p)
  BY <1>1, <1>2, <1>3, ChainHead
<1>5. CarriesData(Head(w), S, k, o, k1, o1)
  BY <1>4 DEF Carries
<1>6. PICK x \in Octets : x = Head(w).data
  BY DEF DataTpdu
<1>7. PICK n \in Nat : n = Len(x)
  BY DEF Octets
<1>8. /\ k \in 1 .. Len(S) /\ o + n = Len(S[k])
      /\ x = SubSeq(S[k], o + 1, o + n) /\ k1 = k + 1 /\ o1 = 0
  BY <1>5, <1>6, <1>7 DEF CarriesData
<1>9. PICK m \in Octets : m = S[k]
  BY <1>8
<1>10. q = SubSeq(m, 1, o)
  <2>1. CASE q = <<>>
    BY <2>1, <1>3, SubSeqEmpty
  <2>2. CASE q # <<>>
    BY <2>2, <1>2, <1>3, <1>9 DEF Arriving, Collected
  <2> QED BY <2>1, <2>2
<1>11. q \o x = SubSeq(m, 1, o + n)
  <2>1. o + n \in Nat /\ o <= o + n /\ o + n <= Len(m)
    BY <1>8, <1>9
  <2>2. SubSeq(m, 1, o) \o SubSeq(m, o + 1, o + n) = SubSeq(m, 1, o + n)
    BY <2>1, Joined
  <2> QED BY <2>2, <1>8, <1>9, <1>10
<1>12. SubSeq(m, 1, o + n) = m
  BY <1>8, <1>9 DEF Octets
<1>13. Len(Append(d, S[Len(d) + 1])) = k
  BY <1>2
<1>14. Len(<<>>) = 0
  OBVIOUS
<1>15. Chained(Tail(w), S, Len(Append(d, S[Len(d) + 1])) + 1, Len(<<>>), l, p)
  BY <1>4, <1>8, <1>13, <1>14
<1>16. Arriving(S, Append(d, S[Len(d) + 1]), <<>>, Tail(w), all)
  BY <1>1, <1>15 DEF Arriving, Collected
<1>17. Len(d) + 1 <= Len(S)
  BY <1>2, <1>8
<1>18. q \o Head(w).data = S[Len(d) + 1]
  BY <1>2, <1>6, <1>9, <1>11, <1>12
<1> QED BY <1>16, <1>17, <1>18

(* A TPDU of the connection comes between two messages.                    *)
LEMMA ReceiveConnect ==
  ASSUME NEW S \in Seq(Octets), NEW d \in Seq(Octets), NEW q \in Octets, NEW w \in Seq(Tpdu),
         NEW all, Arriving(S, d, q, w, all), w # <<>>, Head(w) \in ConnectTpdu
  PROVE  q = <<>> /\ Arriving(S, d, <<>>, Tail(w), all)
<1>1. PICK l \in Nat, p \in Nat :
        Chained(w, S, Len(d) + 1, Len(q), l, p) /\ (all => l = Len(S) + 1 /\ p = 0)
  BY DEF Arriving
<1>2. PICK k \in Nat : k = Len(d) + 1
  OBVIOUS
<1>3. PICK o \in Nat : o = Len(q)
  BY DEF Octets
<1>4. PICK k1 \in Nat, o1 \in Nat :
        Carries(Head(w), S, k, o, k1, o1) /\ Chained(Tail(w), S, k1, o1, l, p)
  BY <1>1, <1>2, <1>3, ChainHead
<1>5. o = 0 /\ k1 = k /\ o1 = 0
  BY <1>4 DEF Carries
<1>6. q = <<>>
  BY <1>3, <1>5, EmptySeq DEF Octets
<1>7. Len(<<>>) = 0
  OBVIOUS
<1> QED BY <1>1, <1>2, <1>4, <1>5, <1>6, <1>7 DEF Arriving, Collected

(* What was collected stays a part of its message.                         *)
LEMMA CollectedGrows ==
  ASSUME NEW S \in Seq(Octets), NEW x \in Octets, NEW d \in Seq(Octets), NEW q,
         Collected(S, d, q)
  PROVE  Collected(Append(S, x), d, q)
<1>1. PICK k \in Nat : k = Len(d) + 1
  OBVIOUS
<1>2. Len(Append(S, x)) = Len(S) + 1 /\ Len(S) \in Nat
      /\ (k <= Len(S) => Append(S, x)[k] = S[k])
  BY <1>1
<1>3. CASE q # <<>>
  <2>1. k <= Len(S) /\ k <= Len(S) + 1
    BY <1>1, <1>2, <1>3 DEF Collected
  <2> QED BY <1>1, <1>2, <1>3, <2>1 DEF Collected
<1>4. CASE q = <<>>
  BY <1>4 DEF Collected
<1> QED BY <1>3, <1>4

(* A message is sent: its TPDUs come last, or they are lost.               *)
LEMMA SendData ==
  ASSUME NEW S \in Seq(Octets), NEW x \in Octets, NEW d \in Seq(Octets), NEW q \in Octets,
         NEW w \in Seq(Tpdu), NEW all \in BOOLEAN, Arriving(S, d, q, w, all),
         NEW end, TpduSize(end) \in Nat, TpduSize(end) >= 4
  PROVE  /\ Segments(end, x) \in Seq(Tpdu)
         /\ Arriving(Append(S, x), d, q, IF all THEN w \o Segments(end, x) ELSE w, all)
<1>1. PICK l \in Nat, p \in Nat :
        Chained(w, S, Len(d) + 1, Len(q), l, p) /\ (all => l = Len(S) + 1 /\ p = 0)
  BY DEF Arriving
<1>2. PICK T \in Seq(Octets) : T = Append(S, x)
  BY AppendProperties
<1>3. PICK n \in Nat : n = Len(S)
  OBVIOUS
<1>4. Len(T) = n + 1 /\ T[n + 1] = x /\ n + 1 \in 1 .. Len(T)
  BY <1>2, <1>3
<1>5. PICK v : v = Segments(end, x)
  OBVIOUS
<1>6. v \in Seq(Tpdu) /\ Chained(v, T, n + 1, 0, n + 1 + 1, 0)
  BY <1>4, <1>5, ChainSegments
<1>7. Chained(w, T, Len(d) + 1, Len(q), l, p)
  BY <1>1, <1>2, ChainGrows
<1>8. Collected(T, d, q)
  BY <1>2, CollectedGrows DEF Arriving
<1>9. CASE all
  <2>1. Chained(w, T, Len(d) + 1, Len(q), n + 1, 0)
    BY <1>1, <1>3, <1>7, <1>9
  <2>2. Chained(w \o v, T, Len(d) + 1, Len(q), n + 1 + 1, 0)
    BY <2>1, <1>6, ChainConcat
  <2>3. n + 1 + 1 \in Nat /\ n + 1 + 1 = Len(T) + 1
    BY <1>4
  <2>4. Arriving(T, d, q, w \o v, all)
    BY <2>2, <2>3, <1>8 DEF Arriving
  <2> QED BY <2>4, <1>2, <1>5, <1>6, <1>9
<1>10. CASE ~all
  <2>1. Arriving(T, d, q, w, all)
    BY <1>7, <1>8, <1>10 DEF Arriving
  <2> QED BY <2>1, <1>2, <1>5, <1>6, <1>10
<1> QED BY <1>9, <1>10

(* A TPDU of the connection follows a complete message.                    *)
LEMMA SendConnect ==
  ASSUME NEW S \in Seq(Octets), NEW d \in Seq(Octets), NEW q \in Octets, NEW w \in Seq(Tpdu),
         Arriving(S, d, q, w, TRUE), NEW t \in ConnectTpdu
  PROVE  Arriving(S, d, q, Append(w, t), TRUE)
<1>1. PICK l \in Nat, p \in Nat :
        Chained(w, S, Len(d) + 1, Len(q), l, p) /\ l = Len(S) + 1 /\ p = 0
  BY DEF Arriving
<1>2. Chained(<<t>>, S, l, 0, l, 0)
  <2> DEFINE msg == [i \in 1 .. 2 |-> l]
             off == [i \in 1 .. 2 |-> 0]
  <2>1. msg[1] = l /\ msg[2] = l /\ off[1] = 0 /\ off[2] = 0
        /\ msg \in [1 .. 2 -> Nat] /\ off \in [1 .. 2 -> Nat]
    OBVIOUS
  <2>2. t \notin DataTpdu
    BY DEF DataTpdu, ConnectTpdu
  <2>3. Carries(t, S, l, 0, l, 0)
    BY <2>2 DEF Carries
  <2>4. PICK u : u = <<t>>
    OBVIOUS
  <2>5. Len(u) = 1 /\ u[1] = t /\ Len(u) + 1 = 2
    BY <2>4
  <2> HIDE DEF msg, off
  <2>6. Path(u, S, msg, off)
    <3>1. \A i \in 1 .. Len(u) : Carries(u[i], S, msg[i], off[i], msg[i + 1], off[i + 1])
      <4>1. \A i \in 1 .. 1 : i = 1
        OBVIOUS
      <4>2. 1 + 1 = 2
        OBVIOUS
      <4> QED BY <4>1, <4>2, <2>1, <2>3, <2>5
    <3> QED BY <3>1, <2>1, <2>5 DEF Path
  <2>7. Chained(u, S, l, 0, l, 0)
    BY <2>1, <2>5, <2>6 DEF Chained
  <2> QED BY <2>4, <2>7
<1>3. <<t>> \in Seq(Tpdu) /\ Append(w, t) = w \o <<t>>
  <2>1. t \in Tpdu
    BY DEF Tpdu
  <2> QED BY <2>1, AppendIsConcat
<1>4. Chained(w \o <<t>>, S, Len(d) + 1, Len(q), l, 0)
  BY <1>1, <1>2, <1>3, ChainConcat
<1> QED BY <1>1, <1>3, <1>4 DEF Arriving

(* The connection breaks: the first n TPDUs still arrive.                  *)
LEMMA LoseRest ==
  ASSUME NEW S, NEW d, NEW q, NEW w \in Seq(Tpdu), NEW n \in 0 .. Len(w), NEW all,
         Arriving(S, d, q, w, all)
  PROVE  Arriving(S, d, q, SubSeq(w, 1, n), FALSE)
<1>1. PICK l \in Nat, p \in Nat : Chained(w, S, Len(d) + 1, Len(q), l, p)
  BY DEF Arriving
<1>2. \E l1 \in Nat, p1 \in Nat : Chained(SubSeq(w, 1, n), S, Len(d) + 1, Len(q), l1, p1)
  BY <1>1, ChainPrefix
<1> QED BY <1>2 DEF Arriving

(* What arrives when nothing is lost arrives when something may be.        *)
LEMMA MayLose ==
  ASSUME NEW S, NEW d, NEW q, NEW w, NEW all, Arriving(S, d, q, w, all)
  PROVE  Arriving(S, d, q, w, FALSE)
  BY DEF Arriving

-----------------------------------------------------------------------------
(***************************************************************************)
(* The invariant of an association: whatever is lost, each end has been    *)
(* given the first messages that the other one sent, and what it reads     *)
(* continues them.  A client that met an error reads no more.              *)
(***************************************************************************)
CotpEnd ==
  [maxTpdu : TpduSizes, tpdu_size : 2 .. 15, srcRef : Int, dstRef : Int,
   tsap_id_src : Int, tsap_id_dst : Int, payload : Octets, room : Nat]

MessagesAreOctets == sent \in [Ends -> Seq(Octets)]

TransportTypeOK ==
  /\ cotp \in [Ends -> CotpEnd] /\ wire \in [Ends -> Seq(Tpdu)]
  /\ open \in [Ends -> BOOLEAN] /\ lost \in BOOLEAN
  /\ sent \in [Ends -> Seq(Octets)] /\ delivered \in [Ends -> Seq(Octets)]

Reads(e) == e = "client" => client # "closed"
AllArrives(e) == open[e] /\ ~lost

InOrderAt(e) ==
  /\ Delivered(sent[Other(e)], delivered[e])
  /\ Reads(e) => Arriving(sent[Other(e)], delivered[e], cotp[e].payload, wire[e], AllArrives(e))

TransportInv == TransportTypeOK /\ \A e \in Ends : InOrderAt(e)

(* The two ends.                                                           *)
LEMMA TwoEnds ==
  /\ Ends = {"client", "server"} /\ Other("client") = "server" /\ Other("server") = "client"
  /\ \A e \in Ends : Other(e) \in Ends /\ Other(e) # e /\ Other(Other(e)) = e
                     /\ Stream!Peer(e) = Other(e)
<1>1. Ends = {"client", "server"}
  BY DEF Ends
<1>2. Other("client") = "server"
  BY DEF Ends, Other
<1>3. Other("server") = "client"
  BY DEF Ends, Other
<1>4. \A e \in Ends : Stream!Peer(e) = Other(e)
  BY DEF Stream!Peer, Other
<1> QED BY <1>1, <1>2, <1>3, <1>4

(* A power of two with one of the exponents is a size.                     *)
LEMMA SizeOf ==
  ASSUME NEW n \in 2 .. 15
  PROVE  2 ^ n \in TpduSizes
<1>1. n \in 0 .. 15 /\ n >= 2
  OBVIOUS
<1>2. 2 ^ n \in Nat /\ 2 ^ n >= 4 /\ 2 ^ n < 2 ^ 16
  BY <1>1, PowerOf
<1> QED BY <1>2 DEF TpduSizes

(* A new CotpConnection.                                                   *)
LEMMA CotpInitEnd ==
  ASSUME NEW n \in TpduSizes
  PROVE  CotpInit(n, BufferSize) \in CotpEnd /\ CotpInit(n, BufferSize).payload = <<>>
<1>1. TpduExponent(n, n) \in 2 .. 15
  BY ExponentFits
<1>2. <<>> \in Octets
  BY EmptySeq DEF Octets
<1>3. -1 \in Int /\ BufferSize \in Nat
  BY SizesAssumption
<1> QED BY <1>1, <1>2, <1>3 DEF CotpInit, CotpEnd

(* The end after a TPDU.                                                   *)
LEMMA ReceivedEnd ==
  ASSUME NEW end \in CotpEnd, NEW t \in Tpdu
  PROVE  LET r == Received(end, t) IN
         /\ r.end \in CotpEnd
         /\ r.indication = "CONNECT" => t \in ConnectTpdu
         /\ r.indication = "MORE" =>
              t \in DataTpdu /\ ~t.last /\ r.end.payload = end.payload \o t.data
         /\ r.indication = "DATA" =>
              t \in DataTpdu /\ t.last /\ r.end.payload = end.payload \o t.data
<1> DEFINE r == Received(end, t)
<1>1. CASE t \in ConnectTpdu
  <2>1. t.code \in {"CR", "CC"} /\ t.first \in Int /\ t.second \in Int
        /\ t.options \in [tpdu_size : 2 .. 15, tsap_id_dst : Int, tsap_id_src : Int]
    BY <1>1 DEF ConnectTpdu
  <2>2. PICK n : n = TpduExponent(end.maxTpdu, 2 ^ t.options.tpdu_size)
    OBVIOUS
  <2>3. n \in 2 .. 15
    <3>1. t.options.tpdu_size \in 2 .. 15 /\ end.maxTpdu \in TpduSizes
      BY <2>1 DEF CotpEnd
    <3> QED BY <3>1, <2>2, SizeOf, ExponentFits
  <2>4. \A e0 \in CotpEnd : WithOptions(e0, t.options) =
          [e0 EXCEPT !.tpdu_size = TpduExponent(e0.maxTpdu, 2 ^ t.options.tpdu_size),
                     !.tsap_id_src = t.options.tsap_id_src, !.tsap_id_dst = t.options.tsap_id_dst]
    BY DEF WithOptions
  <2>5. ASSUME NEW e0 \in CotpEnd, e0.maxTpdu = end.maxTpdu,
               r = [end |-> WithOptions(e0, t.options), indication |-> "CONNECT"]
        PROVE  r.end \in CotpEnd /\ r.indication = "CONNECT"
    <3>1. WithOptions(e0, t.options) =
            [e0 EXCEPT !.tpdu_size = n, !.tsap_id_src = t.options.tsap_id_src,
                       !.tsap_id_dst = t.options.tsap_id_dst]
      BY <2>2, <2>4, <2>5
    <3>2. WithOptions(e0, t.options) \in CotpEnd
      BY <2>1, <2>3, <3>1 DEF CotpEnd
    <3> QED BY <2>5, <3>2
  <2>6. r.end \in CotpEnd /\ r.indication = "CONNECT"
    <3>1. CASE t.code = "CR"
      <4>1. r = [end |-> WithOptions([end EXCEPT !.dstRef = t.first, !.srcRef = t.second],
                                     t.options), indication |-> "CONNECT"]
        BY <3>1 DEF Received
      <4>2. PICK e0 : e0 = [end EXCEPT !.dstRef = t.first, !.srcRef = t.second]
        OBVIOUS
      <4>3. e0 \in CotpEnd /\ e0.maxTpdu = end.maxTpdu
        BY <4>2, <2>1 DEF CotpEnd
      <4> QED BY <4>1, <4>2, <4>3, <2>5
    <3>2. CASE t.code = "CC"
      <4>1. r = [end |-> WithOptions([end EXCEPT !.srcRef = t.first, !.dstRef = t.second],
                                     t.options), indication |-> "CONNECT"]
        BY <3>2 DEF Received
      <4>2. PICK e0 : e0 = [end EXCEPT !.srcRef = t.first, !.dstRef = t.second]
        OBVIOUS
      <4>3. e0 \in CotpEnd /\ e0.maxTpdu = end.maxTpdu
        BY <4>2, <2>1 DEF CotpEnd
      <4> QED BY <4>1, <4>2, <4>3, <2>5
    <3> QED BY <2>1, <3>1, <3>2
  <2> QED BY <2>6, <1>1
<1>2. CASE t \in DataTpdu
  <2>1. t.code = "DT" /\ t.last \in BOOLEAN /\ t.data \in Octets
    BY <1>2 DEF DataTpdu
  <2>2. end.payload \in Octets
    BY DEF CotpEnd
  <2>3. end.payload \o t.data \in Octets
    BY <2>1, <2>2, ConcatProperties DEF Octets
  <2>4. r = IF Len(end.payload) + Len(t.data) > end.room
            THEN [end |-> end, indication |-> "ERROR"]
            ELSE [end |-> [end EXCEPT !.payload = @ \o t.data],
                  indication |-> IF t.last THEN "DATA" ELSE "MORE"]
    BY <2>1 DEF Received
  <2>5. CASE Len(end.payload) + Len(t.data) > end.room
    BY <2>4, <2>5, <1>2
  <2>6. CASE ~(Len(end.payload) + Len(t.data) > end.room)
    <3>1. PICK x \in Octets : x = end.payload \o t.data
      BY <2>3
    <3>2. r = [end |-> [end EXCEPT !.payload = x], indication |-> IF t.last THEN "DATA" ELSE "MORE"]
      BY <2>4, <2>6, <3>1
    <3>3. PICK y : y = [end EXCEPT !.payload = x]
      OBVIOUS
    <3>4. y \in CotpEnd /\ y.payload = x
      BY <3>3 DEF CotpEnd
    <3>5. r.end = y /\ r.indication = IF t.last THEN "DATA" ELSE "MORE"
      BY <3>2, <3>3
    <3> QED BY <3>1, <3>4, <3>5, <1>2, <2>1
  <2> QED BY <2>5, <2>6
<1> QED BY <1>1, <1>2 DEF Tpdu

(***************************************************************************)
(* A step of an end e: what it reads, and what it sends to the other end.  *)
(***************************************************************************)
ReadOk(e) ==
  /\ cotp' \in [Ends -> CotpEnd] /\ cotp'[Other(e)] = cotp[Other(e)]
  /\ delivered' \in [Ends -> Seq(Octets)] /\ delivered'[Other(e)] = delivered[Other(e)]
  /\ wire'[e] \in Seq(Tpdu)
  /\ Delivered(sent[Other(e)], delivered'[e])
  /\ delivered'[e] = delivered[e] \/ Stream!Deliver(e)
  /\ Reads(e)' => Arriving(sent[Other(e)], delivered'[e], cotp'[e].payload, wire'[e],
                           AllArrives(e)')

SendOk(e) ==
  /\ sent'[Other(e)] = sent[Other(e)]
  /\ sent'[e] = sent[e] \/ \E m \in Octets : sent'[e] = Append(sent[e], m)
  /\ wire'[Other(e)] \in Seq(Tpdu)
  /\ Reads(Other(e)) => Arriving(sent'[e], delivered[Other(e)], cotp[Other(e)].payload,
                                 wire'[Other(e)], AllArrives(Other(e)))

\* A step of MessageStream, or none.
StreamStep == [Stream!Next]_<<sent, delivered>>

(* Both together keep the invariant and are a step of MessageStream.       *)
LEMMA StepOfEnd ==
  ASSUME TransportInv, MessagesAreOctets', NEW e \in Ends, ReadOk(e), SendOk(e),
         wire' = [f \in Ends |-> wire'[f]], open' \in [Ends -> BOOLEAN], lost' = lost,
         open'[Other(e)] = open[Other(e)], Reads(Other(e))' => Reads(Other(e))
  PROVE  TransportInv' /\ StreamStep
<1>1. PICK o \in Ends : o = Other(e) /\ o # e /\ Other(o) = e /\ Stream!Peer(e) = o
  BY TwoEnds
<1>2. \A f \in Ends : f = e \/ f = o
  BY <1>1 DEF Ends
<1>3. sent[e] \in Seq(Octets) /\ delivered[o] \in Seq(Octets) /\ sent'[e] \in Seq(Octets)
  BY <1>1 DEF TransportInv, TransportTypeOK, MessagesAreOctets
<1>4. /\ Len(sent'[e]) >= Len(sent[e]) /\ SubSeq(sent'[e], 1, Len(sent[e])) = sent[e]
      /\ Delivered(sent'[e], delivered[o])
  <2>1. Delivered(sent[e], delivered[o])
    BY <1>1 DEF TransportInv, InOrderAt
  <2>2. CASE sent'[e] = sent[e]
    BY <2>1, <2>2, <1>3
  <2>3. CASE sent'[e] # sent[e]
    <3>1. PICK m \in Octets : sent'[e] = Append(sent[e], m)
      BY <2>3 DEF SendOk
    <3>2. Len(sent'[e]) = Len(sent[e]) + 1 /\ \A i \in 1 .. Len(sent[e]) : sent'[e][i] = sent[e][i]
      BY <3>1, <1>3, AppendProperties
    <3>3. PICK n \in Nat : n = Len(sent[e])
      BY <1>3
    <3>4. PICK s : s = SubSeq(sent'[e], 1, n)
      OBVIOUS
    <3>5. s \in Seq(Octets) /\ Len(s) = n /\ \A i \in 1 .. n : s[i] = sent'[e][i]
      BY <3>2, <3>3, <3>4, <1>3
    <3>6. s = sent[e]
      BY <3>2, <3>3, <3>5, <1>3, SeqEqual
    <3>7. Delivered(sent'[e], delivered[o])
      BY <2>1, <3>2, <1>3 DEF Delivered
    <3> QED BY <3>2, <3>3, <3>4, <3>6, <3>7
  <2> QED BY <2>2, <2>3
<1>5. TransportTypeOK'
  <2>1. wire' \in [Ends -> Seq(Tpdu)]
    BY <1>1, <1>2 DEF ReadOk, SendOk
  <2> QED BY <2>1 DEF TransportInv, TransportTypeOK, MessagesAreOctets, ReadOk
<1>6. InOrderAt(e)'
  <2>1. sent'[o] = sent[o]
    BY <1>1 DEF SendOk
  <2> QED BY <2>1, <1>1 DEF ReadOk, InOrderAt
<1>7. InOrderAt(o)'
  <2>1. AllArrives(o)' = AllArrives(o)
    BY <1>1 DEF AllArrives
  <2>2. cotp'[o] = cotp[o] /\ delivered'[o] = delivered[o]
    BY <1>1 DEF ReadOk
  <2> QED BY <2>1, <2>2, <1>1, <1>4 DEF SendOk, InOrderAt
<1>8. StreamStep
  <2>1. Stream!Step(e)
    BY <1>1, <1>3, <1>4 DEF Stream!Step, ReadOk, SendOk
  <2> QED BY <2>1 DEF StreamStep, Stream!Next
<1> QED BY <1>2, <1>5, <1>6, <1>7, <1>8 DEF TransportInv

(* The end reads nothing, and may close its socket.                        *)
LEMMA ReadsNothing ==
  ASSUME TransportInv, NEW e \in Ends, cotp' = cotp, delivered' = delivered,
         wire'[e] = wire[e], lost' = lost, open'[e] = open[e] \/ open'[e] = FALSE,
         Reads(e)' => Reads(e)
  PROVE  ReadOk(e)
<1>1. Other(e) \in Ends
  BY TwoEnds
<1>2. InOrderAt(e)
  BY DEF TransportInv
<1>3. AllArrives(e)' = AllArrives(e) \/ AllArrives(e)' = FALSE
  BY DEF AllArrives
<1>4. ASSUME Reads(e)'
      PROVE  Arriving(sent[Other(e)], delivered'[e], cotp'[e].payload, wire'[e], AllArrives(e)')
  <2>1. Arriving(sent[Other(e)], delivered[e], cotp[e].payload, wire[e], AllArrives(e))
    BY <1>2, <1>4 DEF InOrderAt
  <2> QED BY <2>1, <1>3, MayLose
<1> QED BY <1>2, <1>4 DEF ReadOk, InOrderAt, TransportInv, TransportTypeOK

(* The end sends nothing.                                                  *)
LEMMA SendsNothing ==
  ASSUME TransportInv, NEW e \in Ends, sent' = sent, wire'[Other(e)] = wire[Other(e)]
  PROVE  SendOk(e)
<1>1. Other(e) \in Ends /\ Other(Other(e)) = e
  BY TwoEnds
<1>2. InOrderAt(Other(e)) /\ wire[Other(e)] \in Seq(Tpdu)
  BY <1>1 DEF TransportInv, TransportTypeOK
<1> QED BY <1>1, <1>2 DEF SendOk, InOrderAt

(* The end sends a message.                                                *)
LEMMA SendsMessage ==
  ASSUME TransportInv, MessagesAreOctets', NEW e \in Ends, NEW end \in CotpEnd, NEW m,
         sent' = [sent EXCEPT ![e] = Append(@, m)],
         wire'[Other(e)] = IF open[Other(e)] /\ ~lost THEN wire[Other(e)] \o Segments(end, m)
                           ELSE wire[Other(e)]
  PROVE  SendOk(e)
<1>1. PICK o \in Ends : o = Other(e) /\ o # e /\ Other(o) = e
  BY TwoEnds
<1>2. sent[e] \in Seq(Octets) /\ sent'[e] \in Seq(Octets) /\ sent'[e] = Append(sent[e], m)
      /\ sent'[o] = sent[o]
  BY <1>1 DEF TransportInv, TransportTypeOK, MessagesAreOctets
<1>3. m \in Octets
  <2>1. PICK n \in Nat : n = Len(sent[e])
    BY <1>2
  <2>2. Len(sent'[e]) = n + 1 /\ sent'[e][n + 1] = m
    BY <2>1, <1>2
  <2> QED BY <2>1, <2>2, <1>2, ElementOfSeq
<1>4. TpduSize(end) \in Nat /\ TpduSize(end) >= 4
  <2>1. end.tpdu_size \in 2 .. 15
    BY DEF CotpEnd
  <2>2. 2 ^ end.tpdu_size \in TpduSizes
    BY <2>1, SizeOf
  <2> QED BY <2>2 DEF TpduSizes, TpduSize
<1>5. /\ wire[o] \in Seq(Tpdu) /\ delivered[o] \in Seq(Octets) /\ cotp[o].payload \in Octets
      /\ AllArrives(o) \in BOOLEAN
  BY DEF TransportInv, TransportTypeOK, CotpEnd, AllArrives
<1>6. PICK w : w = IF AllArrives(o) THEN wire[o] \o Segments(end, m) ELSE wire[o]
  OBVIOUS
<1>7. wire'[o] = w
  BY <1>1, <1>6 DEF AllArrives
<1>8. CASE Reads(o)
  <2>1. Arriving(sent[e], delivered[o], cotp[o].payload, wire[o], AllArrives(o))
    BY <1>1, <1>8 DEF TransportInv, InOrderAt
  <2>2. Segments(end, m) \in Seq(Tpdu)
        /\ Arriving(Append(sent[e], m), delivered[o], cotp[o].payload, w, AllArrives(o))
    BY <2>1, <1>2, <1>3, <1>4, <1>5, <1>6, SendData
  <2>3. w \in Seq(Tpdu)
    BY <2>2, <1>5, <1>6, ConcatProperties
  <2> QED BY <2>2, <2>3, <1>1, <1>2, <1>3, <1>7 DEF SendOk
<1>9. CASE ~Reads(o)
  <2>1. Segments(end, m) \in Seq(Tpdu)
    <3>1. PICK n \in Nat : n = Len(sent[e])
      BY <1>2
    <3>2. n + 1 \in 1 .. Len(sent'[e]) /\ sent'[e][n + 1] = m
      BY <3>1, <1>2
    <3> QED BY <3>2, <1>2, <1>4, ChainSegments
  <2>2. w \in Seq(Tpdu)
    BY <2>1, <1>5, <1>6, ConcatProperties
  <2> QED BY <2>2, <1>1, <1>2, <1>3, <1>7, <1>9 DEF SendOk
<1> QED BY <1>8, <1>9

(* What the next TPDU brings.                                              *)
LEMMA ReadingTpdu ==
  ASSUME TransportInv, NEW e \in Ends, Readable(e), Reads(e)
  PROVE  LET S == sent[Other(e)]
             d == delivered[e]
             r == Reading(e)
             rest == Tail(wire[e])
             all == AllArrives(e)
         IN /\ r.end \in CotpEnd /\ rest \in Seq(Tpdu)
            /\ r.indication = "MORE" => Arriving(S, d, r.end.payload, rest, all)
            /\ r.indication = "CONNECT" => Arriving(S, d, <<>>, rest, all)
            /\ r.indication = "DATA" =>
                 /\ Len(d) + 1 <= Len(S) /\ r.end.payload = S[Len(d) + 1]
                 /\ Arriving(S, Append(d, r.end.payload), <<>>, rest, all)
<1>1. PICK S \in Seq(Octets) : S = sent[Other(e)]
  BY TwoEnds DEF TransportInv, TransportTypeOK
<1>2. PICK d \in Seq(Octets) : d = delivered[e]
  BY DEF TransportInv, TransportTypeOK
<1>3. PICK w \in Seq(Tpdu) : w = wire[e]
  BY DEF TransportInv, TransportTypeOK
<1>4. PICK end \in CotpEnd : end = cotp[e]
  BY DEF TransportInv, TransportTypeOK
<1>5. w # <<>> /\ Head(w) \in Tpdu /\ Tail(w) \in Seq(Tpdu)
  BY <1>3, HeadTailProperties DEF Readable
<1>6. PICK all : all = AllArrives(e)
  OBVIOUS
<1>7. Arriving(S, d, end.payload, w, all) /\ end.payload \in Octets
  BY <1>1, <1>2, <1>3, <1>4, <1>6 DEF TransportInv, InOrderAt, CotpEnd
<1>8. PICK r : r = Reading(e) /\ r = Received(end, Head(w))
  BY <1>3, <1>4 DEF Reading
<1>9. /\ r.end \in CotpEnd
      /\ r.indication = "CONNECT" => Head(w) \in ConnectTpdu
      /\ r.indication = "MORE" =>
           Head(w) \in DataTpdu /\ ~Head(w).last /\ r.end.payload = end.payload \o Head(w).data
      /\ r.indication = "DATA" =>
           Head(w) \in DataTpdu /\ Head(w).last /\ r.end.payload = end.payload \o Head(w).data
  BY <1>5, <1>8, ReceivedEnd
<1>10. r.indication = "MORE" => Arriving(S, d, r.end.payload, Tail(w), all)
  BY <1>5, <1>7, <1>9, ReceiveMore
<1>11. r.indication = "CONNECT" => Arriving(S, d, <<>>, Tail(w), all)
  BY <1>5, <1>7, <1>9, ReceiveConnect
<1>12. r.indication = "DATA" =>
         /\ Len(d) + 1 <= Len(S) /\ r.end.payload = S[Len(d) + 1]
         /\ Arriving(S, Append(d, r.end.payload), <<>>, Tail(w), all)
  <2> SUFFICES ASSUME r.indication = "DATA"
               PROVE  /\ Len(d) + 1 <= Len(S) /\ r.end.payload = S[Len(d) + 1]
                      /\ Arriving(S, Append(d, r.end.payload), <<>>, Tail(w), all)
    OBVIOUS
  <2>1. /\ Len(d) + 1 <= Len(S) /\ end.payload \o Head(w).data = S[Len(d) + 1]
        /\ Arriving(S, Append(d, S[Len(d) + 1]), <<>>, Tail(w), all)
    BY <1>5, <1>7, <1>9, ReceiveLast
  <2> QED BY <2>1, <1>9
<1> QED BY <1>1, <1>2, <1>3, <1>5, <1>6, <1>8, <1>9, <1>10, <1>11, <1>12

(* The end after a message or a TPDU of the connection.                    *)
LEMMA ClearedEnd ==
  ASSUME NEW end \in CotpEnd
  PROVE  Cleared(end) \in CotpEnd /\ Cleared(end).payload = <<>>
<1>1. <<>> \in Octets
  BY EmptySeq DEF Octets
<1> QED BY <1>1 DEF Cleared, CotpEnd

(* The end reads a TPDU that does not end a message.                       *)
LEMMA ReadsMore ==
  ASSUME TransportInv, NEW e \in Ends, ReadMore(e)
  PROVE  ReadOk(e)
<1>1. Other(e) \in Ends /\ Other(e) # e
  BY TwoEnds
<1>2. wire[e] \in Seq(Tpdu) /\ wire[e] # <<>> /\ Head(wire[e]) \in Tpdu /\ Tail(wire[e]) \in Seq(Tpdu)
  BY HeadTailProperties DEF ReadMore, Readable, TransportInv, TransportTypeOK
<1>3. Reading(e).end \in CotpEnd
  BY <1>2, ReceivedEnd DEF Reading, TransportInv, TransportTypeOK
<1>4. cotp' \in [Ends -> CotpEnd] /\ cotp'[e] = Reading(e).end /\ cotp'[Other(e)] = cotp[Other(e)]
  BY <1>1, <1>3 DEF ReadMore, TransportInv, TransportTypeOK
<1>5. wire'[e] = Tail(wire[e])
  BY DEF ReadMore, TransportInv, TransportTypeOK
<1>6. InOrderAt(e)
  BY DEF TransportInv
<1>7. Reads(e)' => Arriving(sent[Other(e)], delivered'[e], cotp'[e].payload, wire'[e],
                            AllArrives(e)')
  <2> SUFFICES ASSUME Reads(e)'
               PROVE  Arriving(sent[Other(e)], delivered'[e], cotp'[e].payload, wire'[e],
                               AllArrives(e)')
    OBVIOUS
  <2>1. Reads(e) /\ AllArrives(e)' = AllArrives(e) /\ delivered' = delivered
    BY DEF ReadMore, Reads, AllArrives
  <2>2. Arriving(sent[Other(e)], delivered[e], Reading(e).end.payload, Tail(wire[e]), AllArrives(e))
    BY <2>1, ReadingTpdu DEF ReadMore
  <2> QED BY <2>1, <2>2, <1>4, <1>5
<1>8. delivered' = delivered
  BY DEF ReadMore
<1> QED BY <1>2, <1>4, <1>5, <1>6, <1>7, <1>8 DEF ReadOk, InOrderAt, TransportInv, TransportTypeOK

(* The end reads a TPDU of the connection.                                 *)
LEMMA ReadsConnect ==
  ASSUME TransportInv, NEW e \in Ends, Readable(e), Reads(e), Reading(e).indication = "CONNECT",
         cotp' = [cotp EXCEPT ![e] = Cleared(Reading(e).end)], delivered' = delivered,
         wire'[e] = Tail(wire[e]), UNCHANGED <<open, lost>>
  PROVE  ReadOk(e)
<1>1. Other(e) \in Ends /\ Other(e) # e
  BY TwoEnds
<1>2. /\ Reading(e).end \in CotpEnd /\ Tail(wire[e]) \in Seq(Tpdu)
      /\ Arriving(sent[Other(e)], delivered[e], <<>>, Tail(wire[e]), AllArrives(e))
  BY ReadingTpdu
<1>3. PICK end \in CotpEnd : end = Cleared(Reading(e).end) /\ end.payload = <<>>
  BY <1>2, ClearedEnd
<1>4. cotp' \in [Ends -> CotpEnd] /\ cotp'[e] = end /\ cotp'[Other(e)] = cotp[Other(e)]
  BY <1>1, <1>3 DEF TransportInv, TransportTypeOK
<1>5. AllArrives(e)' = AllArrives(e)
  BY DEF AllArrives
<1>6. InOrderAt(e)
  BY DEF TransportInv
<1> QED BY <1>2, <1>3, <1>4, <1>5, <1>6 DEF ReadOk, InOrderAt, TransportInv, TransportTypeOK

(* The end reads the last TPDU of a message, and may close its socket.     *)
LEMMA ReadsMessage ==
  ASSUME TransportInv, NEW e \in Ends, Readable(e), Reads(e), Reading(e).indication = "DATA",
         cotp' = [cotp EXCEPT ![e] = Cleared(Reading(e).end)],
         delivered' = [delivered EXCEPT ![e] = Append(@, Reading(e).end.payload)],
         wire'[e] = Tail(wire[e]), lost' = lost, open'[e] = open[e] \/ open'[e] = FALSE
  PROVE  ReadOk(e)
<1>1. Other(e) \in Ends /\ Other(e) # e /\ Stream!Peer(e) = Other(e)
  BY TwoEnds
<1>2. PICK S \in Seq(Octets) : S = sent[Other(e)]
  BY <1>1 DEF TransportInv, TransportTypeOK
<1>3. PICK d \in Seq(Octets) : d = delivered[e]
  BY DEF TransportInv, TransportTypeOK
<1>4. PICK x : x = Reading(e).end.payload
  OBVIOUS
<1>5. /\ Reading(e).end \in CotpEnd /\ Tail(wire[e]) \in Seq(Tpdu)
      /\ Len(d) + 1 <= Len(S) /\ x = S[Len(d) + 1]
      /\ Arriving(S, Append(d, x), <<>>, Tail(wire[e]), AllArrives(e))
  BY <1>2, <1>3, <1>4, ReadingTpdu
<1>6. PICK end \in CotpEnd : end = Cleared(Reading(e).end) /\ end.payload = <<>>
  BY <1>5, ClearedEnd
<1>7. cotp' \in [Ends -> CotpEnd] /\ cotp'[e] = end /\ cotp'[Other(e)] = cotp[Other(e)]
  BY <1>1, <1>6 DEF TransportInv, TransportTypeOK
<1>8. Delivered(S, d)
  BY <1>2, <1>3 DEF TransportInv, InOrderAt
<1>9. Append(d, x) = SubSeq(S, 1, Len(d) + 1) /\ Delivered(S, Append(d, x))
      /\ Len(Append(d, x)) = Len(d) + 1 /\ x \in Octets
  BY <1>5, <1>8, DeliverNext
<1>10. /\ delivered' \in [Ends -> Seq(Octets)] /\ delivered'[e] = Append(d, x)
       /\ delivered'[Other(e)] = delivered[Other(e)]
  <2>1. Append(d, x) \in Seq(Octets)
    BY <1>9, AppendProperties
  <2>2. delivered' = [delivered EXCEPT ![e] = Append(d, x)]
    BY <1>3, <1>4
  <2> QED BY <2>1, <2>2, <1>1 DEF TransportInv, TransportTypeOK
<1>11. AllArrives(e)' = AllArrives(e) \/ AllArrives(e)' = FALSE
  BY DEF AllArrives
<1>12. Arriving(S, Append(d, x), <<>>, Tail(wire[e]), AllArrives(e)')
  BY <1>5, <1>11, MayLose
<1>13. Stream!Deliver(e)
  <2>1. Len(d) < Len(S)
    BY <1>5
  <2> QED BY <2>1, <1>1, <1>2, <1>3, <1>9, <1>10 DEF Stream!Deliver
<1> QED BY <1>2, <1>5, <1>6, <1>7, <1>9, <1>10, <1>12, <1>13 DEF ReadOk

(* The initial states satisfy the invariant.                               *)
LEMMA InitTransport == AssociationInit => TransportInv /\ Stream!Init
<1> SUFFICES ASSUME AssociationInit PROVE TransportInv /\ Stream!Init
  OBVIOUS
<1>1. PICK c \in ClientTpdu, s \in ServerTpdu :
        cotp = [e \in Ends |-> CotpInit(IF e = "client" THEN c ELSE s, BufferSize)]
  BY DEF AssociationInit
<1>2. c \in TpduSizes /\ s \in TpduSizes
  BY SizesAssumption DEF TpduSizes
<1>3. \A e \in Ends : cotp[e] \in CotpEnd /\ cotp[e].payload = <<>>
  <2> TAKE e \in Ends
  <2>1. PICK n \in TpduSizes : n = IF e = "client" THEN c ELSE s
    BY <1>2
  <2>2. cotp[e] = CotpInit(n, BufferSize)
    BY <1>1, <2>1
  <2> QED BY <2>2, CotpInitEnd
<1>4. cotp \in [Ends -> CotpEnd]
  BY <1>1, <1>3
<1>5. /\ wire = [e \in Ends |-> <<>>] /\ open = [e \in Ends |-> FALSE] /\ lost = FALSE
      /\ sent = [e \in Ends |-> <<>>] /\ delivered = [e \in Ends |-> <<>>]
  BY DEF AssociationInit
<1>6. TransportTypeOK
  BY <1>4, <1>5, EmptySeq DEF TransportTypeOK
<1>7. ASSUME NEW e \in Ends PROVE InOrderAt(e)
  <2>1. Other(e) \in Ends
    BY TwoEnds
  <2>2. /\ sent[Other(e)] = <<>> /\ delivered[e] = <<>> /\ cotp[e].payload = <<>>
        /\ wire[e] = <<>> /\ ~AllArrives(e) /\ Len(<<>>) = 0
    BY <2>1, <1>3, <1>5, EmptySeq DEF AllArrives
  <2>3. Arriving(<<>>, <<>>, <<>>, <<>>, FALSE)
    <3>1. Chained(<<>>, <<>>, 1, 0, 1, 0)
      BY ChainEmpty
    <3>2. Len(<<>>) + 1 = 1 /\ 1 \in Nat /\ 0 \in Nat
      BY <2>2
    <3> QED BY <2>2, <3>1, <3>2 DEF Arriving, Collected
  <2>4. AllArrives(e) = FALSE
    BY <2>2, <1>5 DEF AllArrives
  <2>5. Delivered(<<>>, <<>>)
    BY DEF Delivered
  <2> QED BY <2>2, <2>3, <2>4, <2>5 DEF InOrderAt
<1>8. Stream!Init
  BY <1>5 DEF Stream!Init
<1> QED BY <1>6, <1>7, <1>8 DEF TransportInv

(* A function of the two ends, written as a record.                        *)
LEMMA TwoFields ==
  ASSUME NEW a, NEW b, NEW w, w = [client |-> a, server |-> b]
  PROVE  w["client"] = a /\ w["server"] = b /\ w = [e \in Ends |-> w[e]]
  BY DEF Ends

(* What is under way to each of the two ends.                              *)
LEMMA TwoWires ==
  ASSUME NEW a \in Seq(Tpdu), NEW b \in Seq(Tpdu), NEW w, w = [client |-> a, server |-> b]
  PROVE  w \in [Ends -> Seq(Tpdu)] /\ w["client"] = a /\ w["server"] = b
<1>1. w["client"] = a /\ w["server"] = b /\ w = [e \in Ends |-> w[e]]
  BY TwoFields
<1>2. \A e \in Ends : w[e] \in Seq(Tpdu)
  BY <1>1 DEF Ends
<1> QED BY <1>1, <1>2

(* A new connection: only the connection request is under way.             *)
LEMMA ConnectKeeps ==
  ASSUME TransportInv, NEW pw, Connect(pw)
  PROVE  TransportInv' /\ StreamStep
<1>1. PICK c : c = ConnectionRequest(CotpInit(cotp["client"].maxTpdu, BufferSize),
                                     Params.remoteTSelector)
               /\ cotp' = [client |-> c.end, server |-> CotpInit(cotp["server"].maxTpdu, BufferSize)]
               /\ wire' = [client |-> <<>>, server |-> <<c.tpdu>>]
  BY DEF Connect
<1>2. \A e \in Ends : cotp[e].maxTpdu \in TpduSizes
  BY DEF TransportInv, TransportTypeOK, CotpEnd
<1>3. c.end \in CotpEnd /\ c.end.payload = <<>> /\ c.tpdu \in ConnectTpdu
  <2>1. PICK i \in CotpEnd : i = CotpInit(cotp["client"].maxTpdu, BufferSize) /\ i.payload = <<>>
    BY <1>2, CotpInitEnd, TwoEnds
  <2>2. PICK x \in CotpEnd : x = [i EXCEPT !.tsap_id_dst = Params.remoteTSelector, !.tsap_id_src = 0]
                             /\ x.payload = <<>>
    <3>1. PICK t \in Int : t = Params.remoteTSelector
      BY SizesAssumption
    <3>2. PICK x : x = [i EXCEPT !.tsap_id_dst = t, !.tsap_id_src = 0]
      OBVIOUS
    <3>3. 0 \in Int
      OBVIOUS
    <3>4. x \in CotpEnd /\ x.payload = <<>>
      BY <3>2, <3>3, <2>1 DEF CotpEnd
    <3> QED BY <3>1, <3>2, <3>4
  <2>3. c = [end |-> x, tpdu |-> [code |-> "CR", first |-> 0, second |-> 2, options |-> Options(x)]]
    BY <1>1, <2>1, <2>2 DEF ConnectionRequest
  <2>4. Options(x) \in [tpdu_size : 2 .. 15, tsap_id_dst : Int, tsap_id_src : Int]
    BY DEF Options, CotpEnd
  <2>5. c.tpdu \in ConnectTpdu
    BY <2>3, <2>4 DEF ConnectTpdu
  <2> QED BY <2>2, <2>3, <2>5
<1>4. /\ CotpInit(cotp["server"].maxTpdu, BufferSize) \in CotpEnd
      /\ CotpInit(cotp["server"].maxTpdu, BufferSize).payload = <<>>
  BY <1>2, CotpInitEnd, TwoEnds
<1>5. \A e \in Ends : cotp'[e] \in CotpEnd /\ cotp'[e].payload = <<>>
  BY <1>1, <1>3, <1>4, TwoEnds
<1>6. cotp' \in [Ends -> CotpEnd]
  <2>1. cotp' = [e \in Ends |-> cotp'[e]]
    BY <1>1 DEF Ends
  <2> QED BY <2>1, <1>5
<1>7. wire' \in [Ends -> Seq(Tpdu)] /\ wire'["client"] = <<>> /\ wire'["server"] = <<c.tpdu>>
  <2>1. <<>> \in Seq(Tpdu) /\ <<c.tpdu>> \in Seq(Tpdu)
    BY <1>3 DEF Tpdu
  <2> QED BY <2>1, <1>1, TwoWires
<1>8. /\ open' = [e \in Ends |-> TRUE] /\ lost' = FALSE
      /\ sent' = [e \in Ends |-> <<>>] /\ delivered' = [e \in Ends |-> <<>>]
  BY DEF Connect
<1>9. TransportTypeOK'
  BY <1>6, <1>7, <1>8, EmptySeq DEF TransportTypeOK
<1>10. Arriving(<<>>, <<>>, <<>>, <<>>, TRUE)
  <2>1. Chained(<<>>, <<>>, 1, 0, 1, 0)
    BY ChainEmpty
  <2>2. Len(<<>>) = 0 /\ Len(<<>>) + 1 = 1 /\ 1 \in Nat /\ 0 \in Nat
    OBVIOUS
  <2> QED BY <2>1, <2>2 DEF Arriving, Collected
<1>11. Arriving(<<>>, <<>>, <<>>, <<c.tpdu>>, TRUE)
  <2>1. <<>> \in Seq(Octets) /\ <<>> \in Octets /\ <<>> \in Seq(Tpdu)
    BY EmptySeq DEF Octets
  <2>2. Append(<<>>, c.tpdu) = <<c.tpdu>>
    OBVIOUS
  <2> QED BY <2>1, <2>2, <1>3, <1>10, SendConnect
<1>12. ASSUME NEW e \in Ends PROVE InOrderAt(e)'
  <2>1. sent'[Other(e)] = <<>> /\ delivered'[e] = <<>> /\ cotp'[e].payload = <<>>
    BY <1>5, <1>8, TwoEnds
  <2>2. AllArrives(e)' = TRUE
    BY <1>8 DEF AllArrives
  <2>3. Delivered(<<>>, <<>>)
    BY DEF Delivered
  <2>4. Arriving(<<>>, <<>>, <<>>, wire'[e], TRUE)
    BY <1>7, <1>10, <1>11, TwoEnds
  <2> QED BY <2>1, <2>2, <2>3, <2>4 DEF InOrderAt
<1>13. StreamStep
  BY <1>8 DEF StreamStep, Stream!Next, Stream!Reconnect, Stream!Init
<1> QED BY <1>9, <1>12, <1>13 DEF TransportInv

(* The connection breaks.                                                  *)
LEMMA BreakKeeps ==
  ASSUME TransportInv, Break
  PROVE  TransportInv' /\ StreamStep
<1>1. PICK k \in [Ends -> 0 .. 3] : /\ \A e \in Ends : k[e] <= Len(wire[e])
                                    /\ wire' = [e \in Ends |-> SubSeq(wire[e], 1, k[e])]
  BY DEF Break
<1>2. \A e \in Ends : k[e] \in 0 .. Len(wire[e]) /\ wire'[e] = SubSeq(wire[e], 1, k[e])
                      /\ wire[e] \in Seq(Tpdu) /\ wire'[e] \in Seq(Tpdu)
  <2> TAKE e \in Ends
  <2>1. PICK w \in Seq(Tpdu) : w = wire[e]
    BY DEF TransportInv, TransportTypeOK
  <2>2. PICK n \in 0 .. Len(w) : n = k[e]
    BY <1>1, <2>1
  <2>3. SubSeq(w, 1, n) \in Seq(Tpdu)
    BY <2>2
  <2> QED BY <1>1, <2>1, <2>2, <2>3
<1>3. lost' = TRUE /\ UNCHANGED <<cotp, open, client, sent, delivered>>
  BY DEF Break, layers
<1>4. wire' \in [Ends -> Seq(Tpdu)]
  BY <1>1, <1>2
<1>5. ASSUME NEW e \in Ends PROVE InOrderAt(e)'
  <2>1. AllArrives(e)' = FALSE
    BY <1>3 DEF AllArrives
  <2>2. InOrderAt(e) /\ Reads(e)' = Reads(e)
    BY <1>3 DEF TransportInv, Reads
  <2>3. Reads(e) => Arriving(sent[Other(e)], delivered[e], cotp[e].payload, wire'[e], FALSE)
    BY <2>2, <1>2, LoseRest DEF InOrderAt
  <2> QED BY <2>1, <2>2, <2>3, <1>3 DEF InOrderAt
<1>6. StreamStep
  BY <1>3 DEF StreamStep
<1> QED BY <1>3, <1>4, <1>5, <1>6 DEF TransportInv, TransportTypeOK

(* A TPDU that cannot be taken: the client that meets it reads no more.    *)
LEMMA ReadsError ==
  ASSUME TransportInv, NEW e \in Ends, Readable(e), Reads(e), ~Reads(e)',
         cotp' = [cotp EXCEPT ![e] = Cleared(Reading(e).end)], delivered' = delivered,
         wire'[e] = Tail(wire[e])
  PROVE  ReadOk(e)
<1>1. Other(e) \in Ends /\ Other(e) # e
  BY TwoEnds
<1>2. Reading(e).end \in CotpEnd /\ Tail(wire[e]) \in Seq(Tpdu)
  BY ReadingTpdu
<1>3. PICK end \in CotpEnd : end = Cleared(Reading(e).end)
  BY <1>2, ClearedEnd
<1>4. cotp' \in [Ends -> CotpEnd] /\ cotp'[Other(e)] = cotp[Other(e)]
  BY <1>1, <1>3 DEF TransportInv, TransportTypeOK
<1>5. InOrderAt(e)
  BY DEF TransportInv
<1> QED BY <1>2, <1>4, <1>5 DEF ReadOk, InOrderAt, TransportInv, TransportTypeOK

(* The server confirms the transport connection.                           *)
LEMMA SendsConfirm ==
  ASSUME TransportInv, NEW end \in CotpEnd, sent' = sent,
         wire'["client"] = IF open["client"] /\ ~lost
                           THEN Append(wire["client"], ConnectionResponse(end))
                           ELSE wire["client"]
  PROVE  SendOk("server")
<1>1. Other("server") = "client" /\ "client" \in Ends /\ Other("client") = "server" /\ "server" \in Ends
  BY TwoEnds
<1>2. PICK t \in ConnectTpdu : t = ConnectionResponse(end)
  <2>1. Options(end) \in [tpdu_size : 2 .. 15, tsap_id_dst : Int, tsap_id_src : Int]
        /\ end.srcRef \in Int /\ end.dstRef \in Int
    BY DEF Options, CotpEnd
  <2> QED BY <2>1 DEF ConnectionResponse, ConnectTpdu
<1>3. PICK w \in Seq(Tpdu) : w = wire["client"]
  BY <1>1 DEF TransportInv, TransportTypeOK
<1>4. Append(w, t) \in Seq(Tpdu)
  BY AppendProperties DEF Tpdu
<1>5. PICK S \in Seq(Octets) : S = sent["server"]
  BY <1>1 DEF TransportInv, TransportTypeOK
<1>6. PICK d \in Seq(Octets) : d = delivered["client"]
  BY <1>1 DEF TransportInv, TransportTypeOK
<1>7. PICK q \in Octets : q = cotp["client"].payload
  BY <1>1 DEF TransportInv, TransportTypeOK, CotpEnd
<1>8. Reads("client") => Arriving(S, d, q, wire'["client"], AllArrives("client"))
  <2>1. Reads("client") => Arriving(S, d, q, w, AllArrives("client"))
    BY <1>1, <1>3, <1>5, <1>6, <1>7 DEF TransportInv, InOrderAt
  <2>2. CASE AllArrives("client")
    <3>1. AllArrives("client") = TRUE
      BY <2>2 DEF AllArrives
    <3>2. wire'["client"] = Append(w, t)
      BY <2>2, <1>2, <1>3 DEF AllArrives
    <3> QED BY <2>1, <3>1, <3>2, SendConnect
  <2>3. CASE ~AllArrives("client")
    BY <2>1, <2>3, <1>3 DEF AllArrives
  <2> QED BY <2>2, <2>3
<1>9. wire'["client"] \in Seq(Tpdu)
  BY <1>2, <1>3, <1>4
<1> QED BY <1>1, <1>5, <1>6, <1>7, <1>8, <1>9 DEF SendOk

-----------------------------------------------------------------------------
(***************************************************************************)
(* The actions                                                             *)
(***************************************************************************)
(* A TPDU in the middle of a message.                                      *)
LEMMA ReadMoreKeeps ==
  ASSUME TransportInv, MessagesAreOctets', NEW e \in Ends, ReadMore(e)
  PROVE  TransportInv' /\ StreamStep
<1>1. Other(e) \in Ends /\ Other(e) # e
  BY TwoEnds
<1>2. ReadOk(e)
  BY ReadsMore
<1>3. /\ wire' = [f \in Ends |-> wire'[f]] /\ wire'[Other(e)] = wire[Other(e)]
      /\ UNCHANGED <<open, lost, client, sent>>
  BY <1>1 DEF ReadMore, TransportInv, TransportTypeOK
<1>4. SendOk(e)
  BY <1>3, SendsNothing
<1>5. open' \in [Ends -> BOOLEAN] /\ (Reads(Other(e))' => Reads(Other(e)))
  BY <1>3 DEF Reads, TransportInv, TransportTypeOK
<1> QED BY <1>2, <1>3, <1>4, <1>5, StepOfEnd

(* Nothing is read or sent: an end gives up or closes its socket.          *)
LEMMA QuietKeeps ==
  ASSUME TransportInv, MessagesAreOctets', NEW e \in Ends,
         UNCHANGED <<cotp, wire, lost, sent, delivered>>,
         open' = open \/ open' = [open EXCEPT ![e] = FALSE],
         Reads("client")' => Reads("client")
  PROVE  TransportInv' /\ StreamStep
<1>1. Other(e) \in Ends /\ Other(e) # e
  BY TwoEnds
<1>2. \A f \in Ends : Reads(f)' => Reads(f)
  BY DEF Ends, Reads
<1>3. /\ open' \in [Ends -> BOOLEAN] /\ open'[Other(e)] = open[Other(e)]
      /\ open'[e] = open[e] \/ open'[e] = FALSE
  BY <1>1 DEF TransportInv, TransportTypeOK
<1>4. ReadOk(e)
  BY <1>2, <1>3, ReadsNothing
<1>5. SendOk(e)
  BY SendsNothing
<1>6. wire' = [f \in Ends |-> wire'[f]]
  BY DEF TransportInv, TransportTypeOK
<1> QED BY <1>1, <1>2, <1>3, <1>4, <1>5, <1>6, StepOfEnd

(* The client sends a message.                                             *)
LEMMA ClientSendsKeeps ==
  ASSUME TransportInv, MessagesAreOctets', NEW m, SendMessage("client", cotp["client"], m),
         UNCHANGED <<cotp, open, lost, delivered>>, Reads("client")' => Reads("client")
  PROVE  TransportInv' /\ StreamStep
<1>1. /\ "client" \in Ends /\ "server" \in Ends
      /\ Other("client") = "server" /\ Other("server") = "client"
  BY TwoEnds
<1>2. /\ wire' = [wire EXCEPT !["server"] = IF open["server"] /\ ~lost
                                            THEN @ \o Segments(cotp["client"], m) ELSE @]
      /\ sent' = [sent EXCEPT !["client"] = Append(@, m)]
  BY <1>1 DEF SendMessage, Put
<1>3. /\ wire' = [f \in Ends |-> wire'[f]] /\ wire'["client"] = wire["client"]
      /\ wire'["server"] = IF open["server"] /\ ~lost
                           THEN wire["server"] \o Segments(cotp["client"], m) ELSE wire["server"]
  BY <1>1, <1>2 DEF TransportInv, TransportTypeOK
<1>4. ReadOk("client")
  BY <1>1, <1>3, ReadsNothing
<1>5. cotp["client"] \in CotpEnd
  BY <1>1 DEF TransportInv, TransportTypeOK
<1>6. SendOk("client")
  BY <1>1, <1>2, <1>3, <1>5, SendsMessage
<1>7. open' \in [Ends -> BOOLEAN] /\ (Reads("server")' => Reads("server"))
  BY DEF Reads, TransportInv, TransportTypeOK
<1> QED BY <1>1, <1>3, <1>4, <1>6, <1>7, StepOfEnd

(* The transport connection of the client: the associate request is sent.  *)
LEMMA TransportConnectedKeeps ==
  ASSUME TransportInv, MessagesAreOctets', TransportConnected
  PROVE  TransportInv' /\ StreamStep
<1>1. /\ "client" \in Ends /\ "server" \in Ends
      /\ Other("client") = "server" /\ Other("server") = "client"
  BY TwoEnds
<1>2. PICK end, m :
        /\ end = Cleared(Reading("client").end)
        /\ cotp' = [cotp EXCEPT !["client"] = end]
        /\ wire' = [client |-> Tail(wire["client"]),
                    server |-> IF open["server"] /\ ~lost
                               THEN wire["server"] \o Segments(end, m) ELSE wire["server"]]
        /\ sent' = [sent EXCEPT !["client"] = Append(@, m)]
  BY DEF TransportConnected
<1>3. /\ Readable("client") /\ Reading("client").indication = "CONNECT" /\ Reads("client")
      /\ UNCHANGED <<open, lost, delivered>>
  BY DEF TransportConnected, Reads
<1>4. Reading("client").end \in CotpEnd
  BY <1>1, <1>3, ReadingTpdu
<1>5. end \in CotpEnd
  BY <1>2, <1>4, ClearedEnd
<1>6. PICK v : v = IF open["server"] /\ ~lost
                   THEN wire["server"] \o Segments(end, m) ELSE wire["server"]
  OBVIOUS
<1>7. wire' = [client |-> Tail(wire["client"]), server |-> v]
  BY <1>2, <1>6
<1>8. wire'["client"] = Tail(wire["client"]) /\ wire'["server"] = v /\ wire' = [f \in Ends |-> wire'[f]]
  BY <1>7 DEF Ends
<1>9. ReadOk("client")
  BY <1>1, <1>2, <1>3, <1>8, ReadsConnect
<1>10. SendOk("client")
  BY <1>1, <1>2, <1>5, <1>6, <1>8, SendsMessage
<1>11. open' \in [Ends -> BOOLEAN] /\ (Reads("server")' => Reads("server"))
  BY <1>3 DEF Reads, TransportInv, TransportTypeOK
<1> QED BY <1>1, <1>3, <1>8, <1>9, <1>10, <1>11, StepOfEnd

(* The answer to the associate request.                                    *)
LEMMA AssociateAnsweredKeeps ==
  ASSUME TransportInv, MessagesAreOctets', AssociateAnswered
  PROVE  TransportInv' /\ StreamStep
<1>1. /\ "client" \in Ends /\ "server" \in Ends
      /\ Other("client") = "server" /\ Other("server") = "client"
  BY TwoEnds
<1>2. /\ cotp' = [cotp EXCEPT !["client"] = Cleared(Reading("client").end)]
      /\ delivered' = [delivered EXCEPT !["client"] = Append(@, Reading("client").end.payload)]
      /\ open' = open \/ open' = [open EXCEPT !["client"] = FALSE]
  BY DEF AssociateAnswered, ClientFails
<1>3. /\ Readable("client") /\ Reading("client").indication = "DATA" /\ Reads("client")
      /\ wire' = [wire EXCEPT !["client"] = Tail(@)] /\ UNCHANGED <<lost, sent>>
  BY DEF AssociateAnswered, Reads
<1>4. /\ wire'["client"] = Tail(wire["client"]) /\ wire'["server"] = wire["server"]
      /\ wire' = [f \in Ends |-> wire'[f]]
  BY <1>1, <1>3 DEF TransportInv, TransportTypeOK
<1>5. /\ open' \in [Ends -> BOOLEAN] /\ open'["server"] = open["server"]
      /\ open'["client"] = open["client"] \/ open'["client"] = FALSE
  BY <1>1, <1>2 DEF TransportInv, TransportTypeOK
<1>6. ReadOk("client")
  BY <1>1, <1>2, <1>3, <1>4, <1>5, ReadsMessage
<1>7. SendOk("client")
  BY <1>1, <1>3, <1>4, SendsNothing
<1>8. Reads("server")' => Reads("server")
  BY DEF Reads
<1> QED BY <1>1, <1>3, <1>4, <1>5, <1>6, <1>7, <1>8, StepOfEnd

(* The client reads a message, or a TPDU that does not fit its buffer.     *)
LEMMA ClientReceivesKeeps ==
  ASSUME TransportInv, MessagesAreOctets', ClientReceives
  PROVE  TransportInv' /\ StreamStep
<1>1. /\ "client" \in Ends /\ "server" \in Ends
      /\ Other("client") = "server" /\ Other("server") = "client"
  BY TwoEnds
<1>2. /\ cotp' = [cotp EXCEPT !["client"] = Cleared(Reading("client").end)]
      /\ Reading("client").indication = "DATA" =>
           delivered' = [delivered EXCEPT !["client"] = Append(@, Reading("client").end.payload)]
      /\ Reading("client").indication = "ERROR" => delivered' = delivered /\ client' = "closed"
      /\ Reading("client").indication \in {"DATA", "ERROR"}
  BY DEF ClientReceives
<1>3. /\ Readable("client") /\ Reads("client")
      /\ wire' = [wire EXCEPT !["client"] = Tail(@)] /\ UNCHANGED <<open, lost, sent>>
  BY DEF ClientReceives, Reads
<1>4. /\ wire'["client"] = Tail(wire["client"]) /\ wire'["server"] = wire["server"]
      /\ wire' = [f \in Ends |-> wire'[f]]
  BY <1>1, <1>3 DEF TransportInv, TransportTypeOK
<1>5. ReadOk("client")
  <2>1. CASE Reading("client").indication = "DATA"
    BY <2>1, <1>1, <1>2, <1>3, <1>4, ReadsMessage
  <2>2. CASE Reading("client").indication = "ERROR"
    <3>1. ~Reads("client")'
      BY <2>2, <1>2 DEF Reads
    <3> QED BY <2>2, <3>1, <1>1, <1>2, <1>3, <1>4, ReadsError
  <2> QED BY <2>1, <2>2, <1>2
<1>6. SendOk("client")
  BY <1>1, <1>3, <1>4, SendsNothing
<1>7. open' \in [Ends -> BOOLEAN] /\ (Reads("server")' => Reads("server"))
  BY <1>3 DEF Reads, TransportInv, TransportTypeOK
<1> QED BY <1>1, <1>3, <1>4, <1>5, <1>6, <1>7, StepOfEnd

(* The server's transport connection.                                      *)
LEMMA ServerConnectedKeeps ==
  ASSUME TransportInv, MessagesAreOctets', ServerConnected
  PROVE  TransportInv' /\ StreamStep
<1>1. /\ "client" \in Ends /\ "server" \in Ends
      /\ Other("client") = "server" /\ Other("server") = "client"
  BY TwoEnds
<1>2. PICK end : end = Cleared(Reading("server").end)
  OBVIOUS
<1>3. PICK v : v = IF open["client"] /\ ~lost
                   THEN Append(wire["client"], ConnectionResponse(end)) ELSE wire["client"]
  OBVIOUS
<1>4. /\ cotp' = [cotp EXCEPT !["server"] = end]
      /\ wire' = [client |-> v, server |-> Tail(wire["server"])]
  BY <1>2, <1>3 DEF ServerConnected
<1>5. /\ Readable("server") /\ Reading("server").indication = "CONNECT" /\ Reads("server")
      /\ UNCHANGED <<open, lost, sent, delivered, client>>
  BY DEF ServerConnected, Reads
<1>6. Reading("server").end \in CotpEnd
  BY <1>1, <1>5, ReadingTpdu
<1>7. end \in CotpEnd
  BY <1>2, <1>6, ClearedEnd
<1>8. wire'["client"] = v /\ wire'["server"] = Tail(wire["server"]) /\ wire' = [f \in Ends |-> wire'[f]]
  BY <1>4 DEF Ends
<1>9. ReadOk("server")
  BY <1>1, <1>2, <1>4, <1>5, <1>8, ReadsConnect
<1>10. SendOk("server")
  BY <1>3, <1>5, <1>7, <1>8, SendsConfirm
<1>11. open' \in [Ends -> BOOLEAN] /\ (Reads("client")' => Reads("client"))
  BY <1>5 DEF Reads, TransportInv, TransportTypeOK
<1> QED BY <1>1, <1>5, <1>8, <1>9, <1>10, <1>11, StepOfEnd

(* The server answers a message with at most one.                          *)
LEMMA OneReply ==
  ASSUME NEW s, NEW p, NEW a, NEW n
  PROVE  Handled(s, p, a, n).reply = <<>> \/ \E m : Handled(s, p, a, n).reply = <<m>>
<1>1. Stop.reply = <<>> /\ Proceed.reply = <<>>
  BY DEF Stop, Proceed
<1>2. HandleConnect(p, a).reply = <<>> \/ \E m : HandleConnect(p, a).reply = <<m>>
  BY <1>1 DEF HandleConnect, Accepted
<1>3. HandleData(p, n).reply = <<>> \/ \E m : HandleData(p, n).reply = <<m>>
  BY <1>1 DEF HandleData, Proceed
<1>4. HandleFinish(p).reply = <<>> \/ \E m : HandleFinish(p).reply = <<m>>
  BY <1>1 DEF HandleFinish, Stop
<1> QED BY <1>1, <1>2, <1>3, <1>4 DEF Handled

(* The server reads a message and answers it, if it does.                  *)
LEMMA ServerReceivesKeeps ==
  ASSUME TransportInv, MessagesAreOctets', NEW n, ServerReceives(n)
  PROVE  TransportInv' /\ StreamStep
<1>1. /\ "client" \in Ends /\ "server" \in Ends
      /\ Other("client") = "server" /\ Other("server") = "client"
  BY TwoEnds
<1> DEFINE Handles(message, end, h) ==
        /\ cotp' = [cotp EXCEPT !["server"] = end]
        /\ delivered' = [delivered EXCEPT !["server"] = Append(@, message)]
        /\ pres' = [pres EXCEPT !["server"] = h.pres]
        /\ mms' = [mms EXCEPT !["server"] = h.mms]
        /\ sent' = [sent EXCEPT !["server"] = @ \o h.reply]
        /\ wire' = [server |-> Tail(wire["server"]),
                    client |-> IF open["client"] /\ ~lost /\ h.reply # <<>>
                               THEN wire["client"] \o Segments(end, h.reply[1])
                               ELSE wire["client"]]
        /\ IF h.go THEN UNCHANGED <<server, open>> ELSE ServerStops
<1>e. \E message \in {Reading("server").end.payload} :
      \E end \in {Cleared(Reading("server").end)}, s \in {ParseSpdu(message)} :
      \E p \in {ServerPpdu(s)} : \E a \in {ServerApdu(s, p)} :
      \E h \in {Handled(s, p, AuthenticateClient(a), n)} : Handles(message, end, h)
  BY DEF ServerReceives
<1> HIDE DEF Handles
<1>p. PICK message, end, s, p, a, h :
        /\ message = Reading("server").end.payload /\ end = Cleared(Reading("server").end)
        /\ h = Handled(s, p, AuthenticateClient(a), n) /\ Handles(message, end, h)
  BY <1>e
<1>2. /\ message = Reading("server").end.payload /\ end = Cleared(Reading("server").end)
      /\ h = Handled(s, p, AuthenticateClient(a), n)
      /\ cotp' = [cotp EXCEPT !["server"] = end]
      /\ delivered' = [delivered EXCEPT !["server"] = Append(@, message)]
      /\ sent' = [sent EXCEPT !["server"] = @ \o h.reply]
      /\ wire' = [server |-> Tail(wire["server"]),
                  client |-> IF open["client"] /\ ~lost /\ h.reply # <<>>
                             THEN wire["client"] \o Segments(end, h.reply[1])
                             ELSE wire["client"]]
      /\ open' = open \/ open' = [open EXCEPT !["server"] = FALSE]
  BY <1>p DEF Handles, ServerStops
<1>3. /\ Readable("server") /\ Reading("server").indication = "DATA" /\ Reads("server")
      /\ UNCHANGED <<lost, client>>
  BY DEF ServerReceives, Reads
<1>4. PICK v : v = IF open["client"] /\ ~lost /\ h.reply # <<>>
                   THEN wire["client"] \o Segments(end, h.reply[1]) ELSE wire["client"]
  OBVIOUS
<1>5. wire' = [client |-> v, server |-> Tail(wire["server"])]
  BY <1>2, <1>4
<1>6. wire'["client"] = v /\ wire'["server"] = Tail(wire["server"]) /\ wire' = [f \in Ends |-> wire'[f]]
  BY <1>5 DEF Ends
<1>7. /\ open' \in [Ends -> BOOLEAN] /\ open'["client"] = open["client"]
      /\ open'["server"] = open["server"] \/ open'["server"] = FALSE
  BY <1>1, <1>2 DEF TransportInv, TransportTypeOK
<1>8. ReadOk("server")
  BY <1>1, <1>2, <1>3, <1>6, <1>7, ReadsMessage
<1>9. Reading("server").end \in CotpEnd
  BY <1>1, <1>3, ReadingTpdu
<1>10. end \in CotpEnd
  BY <1>2, <1>9, ClearedEnd
<1>11. PICK S \in Seq(Octets) : S = sent["server"]
  BY <1>1 DEF TransportInv, TransportTypeOK
<1>12. SendOk("server")
  <2>1. CASE h.reply = <<>>
    <3>1. S \o <<>> = S
      OBVIOUS
    <3>2. sent' = sent /\ wire'["client"] = wire["client"]
      BY <2>1, <3>1, <1>1, <1>2, <1>4, <1>6, <1>11 DEF TransportInv, TransportTypeOK
    <3> QED BY <3>2, <1>1, SendsNothing
  <2>2. ASSUME NEW m, h.reply = <<m>> PROVE SendOk("server")
    <3>1. h.reply # <<>> /\ h.reply[1] = m
      BY <2>2
    <3>2. S \o <<m>> = Append(S, m)
      OBVIOUS
    <3>3. sent' = [sent EXCEPT !["server"] = Append(@, m)]
      BY <2>2, <3>2, <1>2, <1>11
    <3>4. wire'["client"] = IF open["client"] /\ ~lost
                            THEN wire["client"] \o Segments(end, m) ELSE wire["client"]
      BY <3>1, <1>4, <1>6
    <3> QED BY <3>3, <3>4, <1>1, <1>10, SendsMessage
  <2> QED BY <2>1, <2>2, <1>2, OneReply
<1>13. Reads("client")' => Reads("client")
  BY <1>3 DEF Reads
<1> QED BY <1>1, <1>3, <1>6, <1>7, <1>8, <1>12, <1>13, StepOfEnd

-----------------------------------------------------------------------------
(* Every step keeps the invariant and is a step of MessageStream.          *)
LEMMA NextTransport ==
  ASSUME TransportInv, MessagesAreOctets', [AssociationNext]_associationVars
  PROVE  TransportInv' /\ StreamStep
<1>1. ASSUME NEW pw \in Passwords, Connect(pw) PROVE TransportInv' /\ StreamStep
  BY <1>1, ConnectKeeps
<1>2. ASSUME NEW e \in Ends, ReadMore(e) PROVE TransportInv' /\ StreamStep
  BY <1>2, ReadMoreKeeps
<1>3. CASE TransportConnected
  BY <1>3, TransportConnectedKeeps
<1>4. CASE AssociateAnswered
  BY <1>4, AssociateAnsweredKeeps
<1>5. CASE AssociateFails
  <2>1. /\ "client" \in Ends /\ UNCHANGED <<cotp, wire, lost, sent, delivered>>
        /\ open' = [open EXCEPT !["client"] = FALSE] /\ Reads("client")
    BY <1>5, TwoEnds DEF AssociateFails, ClientFails, layers, Reads
  <2> QED BY <2>1, QuietKeeps
<1>6. CASE ClientReceives
  BY <1>6, ClientReceivesKeeps
<1>7. CASE ClientSeesEnd
  <2>1. /\ "client" \in Ends /\ UNCHANGED <<cotp, wire, open, lost, sent, delivered>>
        /\ Reads("client")
    BY <1>7, TwoEnds DEF ClientSeesEnd, layers, Reads
  <2> QED BY <2>1, QuietKeeps
<1>8. CASE ServerConnected
  BY <1>8, ServerConnectedKeeps
<1>9. ASSUME NEW n \in PduLengths, ServerReceives(n) PROVE TransportInv' /\ StreamStep
  BY <1>9, ServerReceivesKeeps
<1>10. CASE ServerSeesEnd
  <2>1. /\ "server" \in Ends /\ UNCHANGED <<cotp, wire, lost, sent, delivered, client>>
        /\ open' = [open EXCEPT !["server"] = FALSE]
    BY <1>10, TwoEnds DEF ServerSeesEnd, ServerStops, layers
  <2>2. Reads("client")' => Reads("client")
    BY <2>1 DEF Reads
  <2> QED BY <2>1, <2>2, QuietKeeps
<1>11. ASSUME NEW n \in PduLengths, Request(n) PROVE TransportInv' /\ StreamStep
  <2>1. PICK m : SendMessage("client", cotp["client"], m)
    BY <1>11 DEF Request
  <2>2. UNCHANGED <<cotp, open, lost, delivered, client>>
    BY <1>11 DEF Request, layers
  <2>3. Reads("client")' => Reads("client")
    BY <2>2 DEF Reads
  <2> QED BY <2>1, <2>2, <2>3, ClientSendsKeeps
<1>12. CASE Release
  <2>1. PICK m : SendMessage("client", cotp["client"], m)
    BY <1>12 DEF Release
  <2>2. UNCHANGED <<cotp, open, lost, delivered>> /\ Reads("client")
    BY <1>12 DEF Release, layers, Reads
  <2> QED BY <2>1, <2>2, ClientSendsKeeps
<1>13. CASE Abort
  <2>1. PICK m : SendMessage("client", cotp["client"], m)
    BY <1>13 DEF Abort
  <2>2. UNCHANGED <<cotp, open, lost, delivered>> /\ Reads("client")
    BY <1>13 DEF Abort, layers, Reads
  <2> QED BY <2>1, <2>2, ClientSendsKeeps
<1>14. CASE Close
  <2>1. /\ "client" \in Ends /\ UNCHANGED <<cotp, wire, lost, sent, delivered, client>>
        /\ open' = [open EXCEPT !["client"] = FALSE]
    BY <1>14, TwoEnds DEF Close, layers
  <2>2. Reads("client")' => Reads("client")
    BY <2>1 DEF Reads
  <2> QED BY <2>1, <2>2, QuietKeeps
<1>15. CASE Break
  BY <1>15, BreakKeeps
<1>16. CASE UNCHANGED associationVars
  <2>1. /\ "client" \in Ends
        /\ UNCHANGED <<cotp, wire, open, lost, sent, delivered, client>>
    BY <1>16, TwoEnds DEF associationVars, layers
  <2>2. Reads("client")' => Reads("client")
    BY <2>1 DEF Reads
  <2> QED BY <2>1, <2>2, QuietKeeps
<1> QED
  BY <1>1, <1>2, <1>3, <1>4, <1>5, <1>6, <1>7, <1>8, <1>9, <1>10, <1>11, <1>12, <1>13, <1>14,
     <1>15, <1>16 DEF AssociationNext, ClientStep, ServerStep

-----------------------------------------------------------------------------
(***************************************************************************)
(* What the ends agree on.  While the client connects, there is the        *)
(* connection request under way, or nothing, or the confirm; the server    *)
(* that confirms has a size that is no larger than what was asked for.     *)
(* Once the client has the confirm, there are data only.                   *)
(***************************************************************************)
Negotiable(end) == TpduSize(end) <= end.maxTpdu

SameParameters(end, f) ==
  /\ end.tpdu_size = f.tpdu_size /\ end.srcRef = f.srcRef /\ end.dstRef = f.dstRef
  /\ end.tsap_id_dst = f.tsap_id_dst /\ end.tsap_id_src = f.tsap_id_src

RequestOf(end) == [code |-> "CR", first |-> 0, second |-> 2, options |-> Options(end)]

Asked ==
  wire["client"] = <<>> /\ (wire["server"] = <<>> \/ wire["server"] = <<RequestOf(cotp["client"])>>)

Confirmed ==
  LET c == cotp["client"]
      s == cotp["server"]
  IN /\ s.srcRef = 2 /\ s.dstRef = 0 /\ TpduSize(s) <= TpduSize(c)
     /\ s.tsap_id_dst = c.tsap_id_dst /\ s.tsap_id_src = c.tsap_id_src
     /\ wire["server"] = <<>>
     /\ wire["client"] = <<>> \/ wire["client"] = <<ConnectionResponse(s)>>

HasConfirm == client \in {"associating", "associated", "releasing", "closed"}

AgreeInv ==
  /\ \A e \in Ends : Negotiable(cotp[e])
  /\ client = "connecting" => Asked \/ Confirmed
  /\ HasConfirm => /\ SameParameters(cotp["client"], cotp["server"])
                   /\ \A e \in Ends : Bounded(TpduSize(cotp[e]), wire[e])

(* The powers of two by their exponents.                                   *)
IsPower(e, p) ==
  \/ e = 0 /\ p = 1
  \/ e = 1 /\ p = 2
  \/ e = 2 /\ p = 4
  \/ e = 3 /\ p = 8
  \/ e = 4 /\ p = 16
  \/ e = 5 /\ p = 32
  \/ e = 6 /\ p = 64
  \/ e = 7 /\ p = 128
  \/ e = 8 /\ p = 256
  \/ e = 9 /\ p = 512
  \/ e = 10 /\ p = 1024
  \/ e = 11 /\ p = 2048
  \/ e = 12 /\ p = 4096
  \/ e = 13 /\ p = 8192
  \/ e = 14 /\ p = 16384
  \/ e = 15 /\ p = 32768

(* They are.                                                               *)
LEMMA PowerValue ==
  ASSUME NEW e \in 0 .. 15
  PROVE  \E p \in Nat : p = 2 ^ e /\ IsPower(e, p)
<1> USE DEF IsPower
<1>1. CASE e = 0
  BY <1>1, Powers
<1>2. CASE e = 1
  BY <1>2, Powers
<1>3. CASE e = 2
  BY <1>3, Powers
<1>4. CASE e = 3
  BY <1>4, Powers
<1>5. CASE e = 4
  BY <1>5, Powers
<1>6. CASE e = 5
  BY <1>6, Powers
<1>7. CASE e = 6
  BY <1>7, Powers
<1>8. CASE e = 7
  BY <1>8, Powers
<1>9. CASE e = 8
  BY <1>9, Powers
<1>10. CASE e = 9
  BY <1>10, Powers
<1>11. CASE e = 10
  BY <1>11, Powers
<1>12. CASE e = 11
  BY <1>12, Powers
<1>13. CASE e = 12
  BY <1>13, Powers
<1>14. CASE e = 13
  BY <1>14, Powers
<1>15. CASE e = 14
  BY <1>15, Powers
<1>16. CASE e = 15
  BY <1>16, Powers
<1> QED BY <1>1, <1>2, <1>3, <1>4, <1>5, <1>6, <1>7, <1>8, <1>9, <1>10, <1>11, <1>12, <1>13, <1>14, <1>15, <1>16

(* Powers of two are ordered as their exponents.                           *)
LEMMA PowersOrdered ==
  ASSUME NEW a \in 0 .. 15, NEW b \in 0 .. 15, 2 ^ a <= 2 ^ b, 2 ^ b < 2 ^ (a + 1)
  PROVE  a = b
<1>1. PICK p \in Nat : p = 2 ^ a /\ IsPower(a, p)
  BY PowerValue
<1>2. PICK q \in Nat : q = 2 ^ b /\ IsPower(b, q)
  BY PowerValue
<1>3. p <= q /\ q < 2 * p
  BY <1>1, <1>2, PowerOf
<1>4. IsPower(a, p) /\ IsPower(b, q)
  BY <1>1, <1>2
<1> QED BY <1>3, <1>4 DEF IsPower

(* CotpConnection_setTpduSize keeps to the limit of the build and to what  *)
(* the other end asks for, and takes that if it is within the limit.       *)
LEMMA SizeTaken ==
  ASSUME NEW maxSize \in TpduSizes, NEW n \in 2 .. 15
  PROVE  LET e == TpduExponent(maxSize, 2 ^ n) IN
         /\ e \in 2 .. 15 /\ 2 ^ e <= maxSize /\ 2 ^ e <= 2 ^ n
         /\ 2 ^ n <= maxSize => e = n
<1>1. PICK p \in TpduSizes : p = 2 ^ n
  BY SizeOf
<1>2. PICK k : k = IF p > maxSize THEN maxSize ELSE p
  OBVIOUS
<1>3. k \in TpduSizes /\ k <= maxSize /\ k <= p /\ (p <= maxSize => k = p)
  BY <1>2 DEF TpduSizes
<1>4. TpduExponent(maxSize, p) = CHOOSE e \in 0 .. 15 : 2 ^ e <= k /\ k < 2 ^ (e + 1)
  BY <1>2 DEF TpduExponent
<1>5. PICK e : e = TpduExponent(maxSize, p)
  OBVIOUS
<1>6. e \in 0 .. 15 /\ 2 ^ e <= k /\ k < 2 ^ (e + 1)
  BY <1>3, <1>4, <1>5, Reached
<1>7. e \in 2 .. 15
  BY <1>5, ExponentFits
<1>8. 2 ^ e \in Nat /\ 2 ^ e <= maxSize /\ 2 ^ e <= p
  <2>1. PICK t : t = 2 ^ e
    OBVIOUS
  <2>2. t \in Nat /\ t <= k
    BY <2>1, <1>6, PowerOf
  <2>3. k \in Nat /\ maxSize \in Nat /\ p \in Nat
    BY <1>3 DEF TpduSizes
  <2> QED BY <2>1, <2>2, <2>3, <1>3
<1>9. p <= maxSize => e = n
  <2> SUFFICES ASSUME p <= maxSize PROVE e = n
    OBVIOUS
  <2>1. n \in 0 .. 15 /\ 2 ^ e <= 2 ^ n /\ 2 ^ n < 2 ^ (e + 1)
    BY <1>1, <1>3, <1>6
  <2> QED BY <2>1, <1>6, PowersOrdered
<1> QED BY <1>1, <1>5, <1>7, <1>8, <1>9


(* The end after a TPDU: data change no parameters, the connection takes   *)
(* those of the other end.                                                 *)
LEMMA ReceivedParameters ==
  ASSUME NEW end \in CotpEnd, NEW t \in Tpdu, Negotiable(end)
  PROVE  LET r == Received(end, t) IN
         /\ Negotiable(r.end)
         /\ t.code = "DT" => r.indication # "CONNECT" /\ SameParameters(r.end, end)
         /\ t.code # "DT" =>
              /\ r.indication = "CONNECT"
              /\ r.end.tpdu_size = TpduExponent(end.maxTpdu, 2 ^ t.options.tpdu_size)
              /\ r.end.tsap_id_src = t.options.tsap_id_src
              /\ r.end.tsap_id_dst = t.options.tsap_id_dst
         /\ t.code = "CR" => r.end.srcRef = t.second /\ r.end.dstRef = t.first
         /\ t.code = "CC" => r.end.srcRef = t.first /\ r.end.dstRef = t.second
<1> DEFINE r == Received(end, t)
<1>1. CASE t \in ConnectTpdu
  <2>1. t.code \in {"CR", "CC"} /\ t.first \in Int /\ t.second \in Int
        /\ t.options \in [tpdu_size : 2 .. 15, tsap_id_dst : Int, tsap_id_src : Int]
    BY <1>1 DEF ConnectTpdu
  <2>2. PICK n : n = TpduExponent(end.maxTpdu, 2 ^ t.options.tpdu_size)
    OBVIOUS
  <2>3. n \in 2 .. 15 /\ 2 ^ n <= end.maxTpdu
    <3>1. t.options.tpdu_size \in 2 .. 15 /\ end.maxTpdu \in TpduSizes
      BY <2>1 DEF CotpEnd
    <3> QED BY <3>1, <2>2, SizeTaken
  <2>4. ASSUME NEW e0 \in CotpEnd, e0.maxTpdu = end.maxTpdu,
               r = [end |-> WithOptions(e0, t.options), indication |-> "CONNECT"]
        PROVE  /\ r.indication = "CONNECT" /\ Negotiable(r.end) /\ r.end.tpdu_size = n
               /\ r.end.tsap_id_src = t.options.tsap_id_src
               /\ r.end.tsap_id_dst = t.options.tsap_id_dst
               /\ r.end.srcRef = e0.srcRef /\ r.end.dstRef = e0.dstRef
    <3>1. PICK x : x = [e0 EXCEPT !.tpdu_size = n, !.tsap_id_src = t.options.tsap_id_src,
                                  !.tsap_id_dst = t.options.tsap_id_dst]
      OBVIOUS
    <3>2. x = WithOptions(e0, t.options)
      BY <2>2, <2>4, <3>1 DEF WithOptions
    <3>3. /\ x.tpdu_size = n /\ x.tsap_id_src = t.options.tsap_id_src
          /\ x.tsap_id_dst = t.options.tsap_id_dst /\ x.maxTpdu = end.maxTpdu
          /\ x.srcRef = e0.srcRef /\ x.dstRef = e0.dstRef
      BY <2>4, <3>1 DEF CotpEnd
    <3>4. r.end = x /\ r.indication = "CONNECT"
      BY <2>4, <3>2
    <3> QED BY <2>3, <3>3, <3>4 DEF Negotiable, TpduSize
  <2>5. CASE t.code = "CR"
    <3>1. r = [end |-> WithOptions([end EXCEPT !.dstRef = t.first, !.srcRef = t.second],
                                   t.options), indication |-> "CONNECT"]
      BY <2>5 DEF Received
    <3>2. PICK e0 : e0 = [end EXCEPT !.dstRef = t.first, !.srcRef = t.second]
      OBVIOUS
    <3>3. e0 \in CotpEnd /\ e0.maxTpdu = end.maxTpdu /\ e0.dstRef = t.first /\ e0.srcRef = t.second
      BY <3>2, <2>1 DEF CotpEnd
    <3>4. /\ r.indication = "CONNECT" /\ Negotiable(r.end) /\ r.end.tpdu_size = n
          /\ r.end.tsap_id_src = t.options.tsap_id_src
          /\ r.end.tsap_id_dst = t.options.tsap_id_dst
          /\ r.end.srcRef = e0.srcRef /\ r.end.dstRef = e0.dstRef
      BY <3>1, <3>2, <3>3, <2>4
    <3> QED BY <2>2, <2>5, <3>3, <3>4
  <2>6. CASE t.code = "CC"
    <3>1. r = [end |-> WithOptions([end EXCEPT !.srcRef = t.first, !.dstRef = t.second],
                                   t.options), indication |-> "CONNECT"]
      BY <2>6 DEF Received
    <3>2. PICK e0 : e0 = [end EXCEPT !.srcRef = t.first, !.dstRef = t.second]
      OBVIOUS
    <3>3. e0 \in CotpEnd /\ e0.maxTpdu = end.maxTpdu /\ e0.srcRef = t.first /\ e0.dstRef = t.second
      BY <3>2, <2>1 DEF CotpEnd
    <3>4. /\ r.indication = "CONNECT" /\ Negotiable(r.end) /\ r.end.tpdu_size = n
          /\ r.end.tsap_id_src = t.options.tsap_id_src
          /\ r.end.tsap_id_dst = t.options.tsap_id_dst
          /\ r.end.srcRef = e0.srcRef /\ r.end.dstRef = e0.dstRef
      BY <3>1, <3>2, <3>3, <2>4
    <3> QED BY <2>2, <2>6, <3>3, <3>4
  <2> QED BY <2>1, <2>5, <2>6
<1>2. CASE t \in DataTpdu
  <2>1. t.code = "DT"
    BY <1>2 DEF DataTpdu
  <2>2. \/ r.end = end /\ r.indication = "ERROR"
        \/ \E x : r.end = [end EXCEPT !.payload = x] /\ r.indication \in {"DATA", "MORE"}
    BY <2>1 DEF Received
  <2>3. SameParameters(r.end, end) /\ r.end.maxTpdu = end.maxTpdu /\ r.indication # "CONNECT"
    <3>1. CASE r.end = end /\ r.indication = "ERROR"
      BY <3>1 DEF SameParameters
    <3>2. ASSUME NEW x, r.end = [end EXCEPT !.payload = x], r.indication \in {"DATA", "MORE"}
          PROVE  SameParameters(r.end, end) /\ r.end.maxTpdu = end.maxTpdu /\ r.indication # "CONNECT"
      <4>1. PICK y : y = [end EXCEPT !.payload = x]
        OBVIOUS
      <4>2. SameParameters(y, end) /\ y.maxTpdu = end.maxTpdu
        BY <4>1 DEF SameParameters, CotpEnd
      <4> QED BY <3>2, <4>1, <4>2
    <3> QED BY <2>2, <3>1, <3>2
  <2>4. Negotiable(r.end)
    BY <2>3 DEF Negotiable, TpduSize, SameParameters
  <2> QED BY <2>1, <2>3, <2>4
<1> QED BY <1>1, <1>2 DEF Tpdu

(* The next message begins with the same parameters.                       *)
LEMMA ClearedParameters ==
  ASSUME NEW end \in CotpEnd
  PROVE  /\ SameParameters(Cleared(end), end)
         /\ Negotiable(end) => Negotiable(Cleared(end))
<1>1. PICK x : x = [end EXCEPT !.payload = <<>>]
  OBVIOUS
<1>2. SameParameters(x, end) /\ x.maxTpdu = end.maxTpdu
  BY <1>1 DEF SameParameters, CotpEnd
<1> QED BY <1>1, <1>2 DEF Cleared, Negotiable, TpduSize, SameParameters

(* Parts of what is under way.                                             *)
LEMMA BoundedParts ==
  ASSUME NEW size, NEW w \in Seq(Tpdu), Bounded(size, w)
  PROVE  /\ w # <<>> => Bounded(size, Tail(w)) /\ Head(w).code = "DT"
         /\ \A k \in 0 .. Len(w) : Bounded(size, SubSeq(w, 1, k))
<1>1. ASSUME w # <<>> PROVE Bounded(size, Tail(w)) /\ Head(w).code = "DT"
  <2>1. /\ Len(w) \in Nat /\ Len(w) >= 1 /\ Len(Tail(w)) = Len(w) - 1 /\ Head(w) = w[1]
        /\ \A i \in 1 .. Len(Tail(w)) : Tail(w)[i] = w[i + 1]
    BY <1>1, HeadTailProperties
  <2>2. \A i \in 1 .. Len(Tail(w)) : i + 1 \in 1 .. Len(w)
    BY <2>1
  <2>3. 1 \in 1 .. Len(w)
    BY <2>1
  <2> QED BY <2>1, <2>2, <2>3 DEF Bounded
<1>2. ASSUME NEW k \in 0 .. Len(w) PROVE Bounded(size, SubSeq(w, 1, k))
  <2>1. PICK u : u = SubSeq(w, 1, k)
    OBVIOUS
  <2>2. Len(u) = k /\ \A i \in 1 .. k : u[i] = w[i] /\ i \in 1 .. Len(w)
    BY <2>1
  <2> QED BY <2>1, <2>2 DEF Bounded
<1> QED BY <1>1, <1>2

(* A message added to what is under way.                                   *)
LEMMA BoundedJoin ==
  ASSUME NEW size, NEW w \in Seq(Tpdu), NEW v \in Seq(Tpdu), Bounded(size, w), Bounded(size, v)
  PROVE  Bounded(size, w \o v)
<1>1. PICK u : u = w \o v
  OBVIOUS
<1>2. /\ Len(u) = Len(w) + Len(v)
      /\ \A i \in 1 .. Len(u) : u[i] = IF i <= Len(w) THEN w[i] ELSE v[i - Len(w)]
  BY <1>1, ConcatProperties
<1>3. ASSUME NEW i \in 1 .. Len(u)
      PROVE  u[i].code = "DT" /\ Len(u[i].data) + CotpDataHeaderSize <= size
  <2>1. CASE i <= Len(w)
    BY <2>1, <1>2 DEF Bounded
  <2>2. CASE ~(i <= Len(w))
    <3>1. i - Len(w) \in 1 .. Len(v)
      BY <2>2, <1>2
    <3> QED BY <2>2, <3>1, <1>2 DEF Bounded
  <2> QED BY <2>1, <2>2
<1> QED BY <1>1, <1>3 DEF Bounded

(* What an end is after the next TPDU, and that only the connection        *)
(* request and the confirm are read before the client has the confirm.     *)
LEMMA ReadingAgrees ==
  ASSUME TransportInv, AgreeInv, NEW e \in Ends, Readable(e)
  PROVE  LET r == Reading(e) IN
         /\ r.end \in CotpEnd /\ Negotiable(r.end)
         /\ HasConfirm => r.indication # "CONNECT" /\ SameParameters(r.end, cotp[e])
         /\ client = "connecting" => r.indication = "CONNECT"
<1>1. PICK w \in Seq(Tpdu) : w = wire[e] /\ w # <<>>
  BY DEF TransportInv, TransportTypeOK, Readable
<1>2. PICK t \in Tpdu : t = Head(w)
  BY <1>1, HeadTailProperties
<1>3. PICK end \in CotpEnd : end = cotp[e]
  BY DEF TransportInv, TransportTypeOK
<1>4. Negotiable(end)
  BY <1>3 DEF AgreeInv
<1>5. PICK r : r = Received(end, t)
  OBVIOUS
<1>6. Reading(e) = r
  BY <1>1, <1>2, <1>3, <1>5 DEF Reading
<1>7. /\ Negotiable(r.end)
      /\ t.code = "DT" => r.indication # "CONNECT" /\ SameParameters(r.end, end)
      /\ t.code # "DT" => r.indication = "CONNECT"
  BY <1>4, <1>5, ReceivedParameters
<1>8. r.end \in CotpEnd
  BY <1>5, ReceivedEnd
<1>9. HasConfirm => t.code = "DT"
  <2> SUFFICES ASSUME HasConfirm PROVE t.code = "DT"
    OBVIOUS
  <2>1. PICK size : size = TpduSize(cotp[e])
    OBVIOUS
  <2>2. Bounded(size, w)
    BY <1>1, <2>1 DEF AgreeInv
  <2> QED BY <2>2, <1>1, <1>2, BoundedParts
<1>10. client = "connecting" => t.code # "DT"
  <2> SUFFICES ASSUME client = "connecting" PROVE t.code # "DT"
    OBVIOUS
  <2>1. \/ e = "client" /\ w = <<ConnectionResponse(cotp["server"])>>
        \/ e = "server" /\ w = <<RequestOf(cotp["client"])>>
    BY <1>1, TwoEnds DEF AgreeInv, Asked, Confirmed
  <2>2. \A x : Head(<<x>>) = x
    OBVIOUS
  <2>3. t = ConnectionResponse(cotp["server"]) \/ t = RequestOf(cotp["client"])
    BY <2>1, <2>2, <1>2
  <2>4. ConnectionResponse(cotp["server"]).code = "CC" /\ RequestOf(cotp["client"]).code = "CR"
    BY DEF ConnectionResponse, RequestOf
  <2> QED BY <2>3, <2>4
<1> QED BY <1>3, <1>6, <1>7, <1>8, <1>9, <1>10

(* A step that changes nothing of it.                                      *)
LEMMA AgreeUnchanged ==
  ASSUME AgreeInv, UNCHANGED <<cotp, wire>>,
         client' = client \/ client' = "failed" \/ (HasConfirm /\ HasConfirm')
  PROVE  AgreeInv'
<1>1. client' = "connecting" => client = "connecting"
  BY DEF HasConfirm
<1>2. HasConfirm' => HasConfirm
  BY DEF HasConfirm
<1> QED BY <1>1, <1>2 DEF AgreeInv, Asked, Confirmed

(* A client that has given up, or has not begun.                           *)
LEMMA AgreeIdle ==
  ASSUME \A e \in Ends : Negotiable(cotp'[e]), client' # "connecting", ~HasConfirm'
  PROVE  AgreeInv'
  BY DEF AgreeInv

(* What was sent is octets.                                                *)
LEMMA SentOctets ==
  ASSUME TransportInv, TransportInv', NEW e \in Ends, NEW m,
         sent' = [sent EXCEPT ![e] = Append(@, m)]
  PROVE  m \in Octets
<1>1. sent[e] \in Seq(Octets) /\ sent'[e] \in Seq(Octets) /\ sent'[e] = Append(sent[e], m)
  BY DEF TransportInv, TransportTypeOK
<1>2. PICK n \in Nat : n = Len(sent[e])
  BY <1>1
<1>3. Len(sent'[e]) = n + 1 /\ sent'[e][n + 1] = m
  BY <1>1, <1>2
<1> QED BY <1>1, <1>2, <1>3, ElementOfSeq

(* The TPDUs of a message have the size of the end that sends it.          *)
LEMMA BoundedSegments ==
  ASSUME NEW end \in CotpEnd, NEW m \in Octets
  PROVE  Segments(end, m) \in Seq(Tpdu) /\ Bounded(TpduSize(end), Segments(end, m))
<1>1. PICK S \in Seq(Octets) : S = <<m>>
  <2>1. <<m>> \in Seq(Octets)
    OBVIOUS
  <2> QED BY <2>1
<1>2. Len(S) = 1 /\ S[1] = m /\ 1 \in 1 .. Len(S)
  BY <1>1
<1>3. TpduSize(end) \in Nat /\ TpduSize(end) >= 4
  <2>1. end.tpdu_size \in 2 .. 15
    BY DEF CotpEnd
  <2> QED BY <2>1, SizeOf DEF TpduSizes, TpduSize
<1> QED BY <1>2, <1>3, ChainSegments

(***************************************************************************)
(* A step of an end e of a connection that is established: it reads at     *)
(* most one TPDU and sends at most one message.                            *)
(***************************************************************************)
ReadsOne(e) ==
  /\ cotp'[Other(e)] = cotp[Other(e)]
  /\ SameParameters(cotp'[e], cotp[e])
  /\ wire'[e] = wire[e] \/ (wire[e] # <<>> /\ wire'[e] = Tail(wire[e]))

SendsOne(e) ==
  \/ wire'[Other(e)] = wire[Other(e)]
  \/ \E end \in CotpEnd, m \in Octets :
       SameParameters(end, cotp[e]) /\ wire'[Other(e)] = wire[Other(e)] \o Segments(end, m)

(* It keeps the invariant.                                                 *)
LEMMA StepAgrees ==
  ASSUME TransportInv, AgreeInv, NEW e \in Ends, client # "connecting",
         cotp'[Other(e)] = cotp[Other(e)], Negotiable(cotp'[e]),
         HasConfirm => ReadsOne(e) /\ SendsOne(e),
         client' = client \/ client' = "failed" \/ (HasConfirm /\ HasConfirm')
  PROVE  AgreeInv'
<1>1. PICK o \in Ends : o = Other(e) /\ o # e /\ Other(o) = e
  BY TwoEnds
<1>2. \A f \in Ends : f = e \/ f = o
  BY <1>1 DEF Ends
<1>3. \A f \in Ends : Negotiable(cotp'[f])
  <2>1. Negotiable(cotp[o])
    BY DEF AgreeInv
  <2> QED BY <2>1, <1>1, <1>2
<1>4. client' # "connecting"
  BY DEF HasConfirm
<1>5. CASE ~HasConfirm'
  BY <1>3, <1>4, <1>5, AgreeIdle
<1>6. CASE HasConfirm'
  <2>1. HasConfirm
    BY <1>6 DEF HasConfirm
  <2>2. SameParameters(cotp["client"], cotp["server"])
    BY <2>1 DEF AgreeInv
  <2>3. SameParameters(cotp'[e], cotp[e]) /\ cotp'[o] = cotp[o]
    BY <2>1, <1>1 DEF ReadsOne
  <2>4. SameParameters(cotp'["client"], cotp'["server"])
    BY <2>2, <2>3, <1>1, <1>2, TwoEnds DEF SameParameters
  <2>5. PICK size : /\ size = TpduSize(cotp[e]) /\ size = TpduSize(cotp[o])
                    /\ size = TpduSize(cotp'[e]) /\ size = TpduSize(cotp'[o])
    <3>1. cotp[e].tpdu_size = cotp[o].tpdu_size
      BY <2>2, <1>1, <1>2, TwoEnds DEF SameParameters
    <3>2. cotp'[e].tpdu_size = cotp[e].tpdu_size
      BY <2>3 DEF SameParameters
    <3> QED BY <3>1, <3>2, <2>3 DEF TpduSize
  <2>6. Bounded(size, wire[e]) /\ Bounded(size, wire[o])
    BY <2>1, <2>5, <1>1 DEF AgreeInv
  <2>7. wire[e] \in Seq(Tpdu) /\ wire[o] \in Seq(Tpdu)
    BY DEF TransportInv, TransportTypeOK
  <2>8. Bounded(size, wire'[e])
    BY <2>1, <2>6, <2>7, BoundedParts DEF ReadsOne
  <2>9. Bounded(size, wire'[o])
    <3>1. CASE wire'[o] = wire[o]
      BY <3>1, <2>6
    <3>2. ASSUME NEW end \in CotpEnd, NEW m \in Octets, SameParameters(end, cotp[e]),
                 wire'[o] = wire[o] \o Segments(end, m)
          PROVE  Bounded(size, wire'[o])
      <4>1. TpduSize(end) = size
        BY <3>2, <2>5 DEF SameParameters, TpduSize
      <4>2. Segments(end, m) \in Seq(Tpdu) /\ Bounded(size, Segments(end, m))
        BY <4>1, BoundedSegments
      <4> QED BY <3>2, <4>2, <2>6, <2>7, BoundedJoin
    <3> QED BY <3>1, <3>2, <2>1, <1>1 DEF SendsOne
  <2>10. \A f \in Ends : Bounded(TpduSize(cotp'[f]), wire'[f])
    BY <2>5, <2>8, <2>9, <1>2
  <2> QED BY <1>3, <1>4, <2>4, <2>10 DEF AgreeInv
<1> QED BY <1>5, <1>6

-----------------------------------------------------------------------------
(* A TPDU in the middle of a message.                                      *)
LEMMA ReadMoreAgrees ==
  ASSUME TransportInv, AgreeInv, NEW e \in Ends, ReadMore(e)
  PROVE  AgreeInv'
<1>1. Other(e) \in Ends /\ Other(e) # e
  BY TwoEnds
<1>2. Readable(e) /\ Reading(e).indication = "MORE" /\ client' = client
  BY DEF ReadMore
<1>3. PICK x \in CotpEnd : /\ x = Reading(e).end /\ Negotiable(x) /\ client # "connecting"
                           /\ HasConfirm => SameParameters(x, cotp[e])
  BY <1>2, ReadingAgrees
<1>4. cotp'[e] = x /\ cotp'[Other(e)] = cotp[Other(e)]
  BY <1>1, <1>3 DEF ReadMore, TransportInv, TransportTypeOK
<1>5. wire'[e] = Tail(wire[e]) /\ wire[e] # <<>> /\ wire'[Other(e)] = wire[Other(e)]
  BY <1>1 DEF ReadMore, Readable, TransportInv, TransportTypeOK
<1>6. HasConfirm => ReadsOne(e) /\ SendsOne(e)
  BY <1>3, <1>4, <1>5 DEF ReadsOne, SendsOne
<1> QED BY <1>2, <1>3, <1>4, <1>6, StepAgrees

(* The client reads the end of a message, or what does not fit its buffer. *)
LEMMA ClientReadsAgrees ==
  ASSUME TransportInv, AgreeInv, Readable("client"), HasConfirm,
         cotp' = [cotp EXCEPT !["client"] = Cleared(Reading("client").end)],
         wire' = [wire EXCEPT !["client"] = Tail(@)], HasConfirm' \/ client' = "failed"
  PROVE  AgreeInv'
<1>1. /\ "client" \in Ends /\ "server" \in Ends
      /\ Other("client") = "server" /\ Other("server") = "client"
  BY TwoEnds
<1>2. PICK x \in CotpEnd : /\ x = Reading("client").end /\ Negotiable(x)
                           /\ SameParameters(x, cotp["client"])
  BY <1>1, ReadingAgrees
<1>3. PICK y : y = Cleared(x) /\ Negotiable(y) /\ SameParameters(y, cotp["client"])
  BY <1>2, ClearedParameters DEF SameParameters
<1>4. cotp'["client"] = y /\ cotp'["server"] = cotp["server"]
  BY <1>1, <1>2, <1>3 DEF TransportInv, TransportTypeOK
<1>5. /\ wire'["client"] = Tail(wire["client"]) /\ wire["client"] # <<>>
      /\ wire'["server"] = wire["server"]
  BY <1>1 DEF Readable, TransportInv, TransportTypeOK
<1>6. ReadsOne("client") /\ SendsOne("client")
  BY <1>1, <1>3, <1>4, <1>5 DEF ReadsOne, SendsOne
<1>7. client # "connecting"
  BY DEF HasConfirm
<1> QED BY <1>1, <1>3, <1>4, <1>6, <1>7, StepAgrees

(* The client sends a message.                                             *)
LEMMA ClientSendsAgrees ==
  ASSUME TransportInv, TransportInv', AgreeInv, NEW m, SendMessage("client", cotp["client"], m),
         HasConfirm, HasConfirm', cotp' = cotp
  PROVE  AgreeInv'
<1>1. /\ "client" \in Ends /\ "server" \in Ends
      /\ Other("client") = "server" /\ Other("server") = "client"
  BY TwoEnds
<1>2. /\ wire' = [wire EXCEPT !["server"] = IF open["server"] /\ ~lost
                                            THEN @ \o Segments(cotp["client"], m) ELSE @]
      /\ sent' = [sent EXCEPT !["client"] = Append(@, m)]
  BY <1>1 DEF SendMessage, Put
<1>3. m \in Octets
  BY <1>1, <1>2, SentOctets
<1>4. PICK end \in CotpEnd : end = cotp["client"] /\ Negotiable(end) /\ SameParameters(end, end)
  BY <1>1 DEF AgreeInv, TransportInv, TransportTypeOK, SameParameters
<1>5. /\ wire'["client"] = wire["client"]
      /\ wire'["server"] = wire["server"] \/ wire'["server"] = wire["server"] \o Segments(end, m)
  BY <1>1, <1>2, <1>4 DEF TransportInv, TransportTypeOK
<1>6. ReadsOne("client") /\ SendsOne("client")
  BY <1>1, <1>3, <1>4, <1>5 DEF ReadsOne, SendsOne
<1>7. client # "connecting"
  BY DEF HasConfirm
<1> QED BY <1>1, <1>4, <1>6, <1>7, StepAgrees

(* The server reads a message and answers it, if it does.                  *)
LEMMA ServerReceivesAgrees ==
  ASSUME TransportInv, TransportInv', AgreeInv, NEW n, ServerReceives(n)
  PROVE  AgreeInv'
<1>1. /\ "client" \in Ends /\ "server" \in Ends
      /\ Other("client") = "server" /\ Other("server") = "client"
  BY TwoEnds
<1> DEFINE Handles(message, end, h) ==
        /\ cotp' = [cotp EXCEPT !["server"] = end]
        /\ delivered' = [delivered EXCEPT !["server"] = Append(@, message)]
        /\ pres' = [pres EXCEPT !["server"] = h.pres]
        /\ mms' = [mms EXCEPT !["server"] = h.mms]
        /\ sent' = [sent EXCEPT !["server"] = @ \o h.reply]
        /\ wire' = [server |-> Tail(wire["server"]),
                    client |-> IF open["client"] /\ ~lost /\ h.reply # <<>>
                               THEN wire["client"] \o Segments(end, h.reply[1])
                               ELSE wire["client"]]
        /\ IF h.go THEN UNCHANGED <<server, open>> ELSE ServerStops
<1>e. \E message \in {Reading("server").end.payload} :
      \E end \in {Cleared(Reading("server").end)}, s \in {ParseSpdu(message)} :
      \E p \in {ServerPpdu(s)} : \E a \in {ServerApdu(s, p)} :
      \E h \in {Handled(s, p, AuthenticateClient(a), n)} : Handles(message, end, h)
  BY DEF ServerReceives
<1> HIDE DEF Handles
<1>p. PICK message, end, s, p, a, h :
        /\ end = Cleared(Reading("server").end)
        /\ h = Handled(s, p, AuthenticateClient(a), n) /\ Handles(message, end, h)
  BY <1>e
<1>2. Readable("server") /\ Reading("server").indication = "DATA" /\ client' = client
  BY DEF ServerReceives
<1>3. PICK x \in CotpEnd : /\ x = Reading("server").end /\ Negotiable(x) /\ client # "connecting"
                           /\ HasConfirm => SameParameters(x, cotp["server"])
  BY <1>1, <1>2, ReadingAgrees
<1>4. end \in CotpEnd /\ Negotiable(end) /\ (HasConfirm => SameParameters(end, cotp["server"]))
  BY <1>p, <1>3, ClearedParameters, ClearedEnd DEF SameParameters
<1>5. PICK v : v = IF open["client"] /\ ~lost /\ h.reply # <<>>
                   THEN wire["client"] \o Segments(end, h.reply[1]) ELSE wire["client"]
  OBVIOUS
<1>6. /\ cotp' = [cotp EXCEPT !["server"] = end]
      /\ sent' = [sent EXCEPT !["server"] = @ \o h.reply]
      /\ wire' = [client |-> v, server |-> Tail(wire["server"])]
  BY <1>p, <1>5 DEF Handles
<1>7. cotp'["server"] = end /\ cotp'["client"] = cotp["client"]
  BY <1>1, <1>4, <1>6 DEF TransportInv, TransportTypeOK
<1>8. wire'["client"] = v /\ wire'["server"] = Tail(wire["server"]) /\ wire["server"] # <<>>
  BY <1>2, <1>6 DEF Readable
<1>9. v = wire["client"] \/ \E m \in Octets : v = wire["client"] \o Segments(end, m)
  <2>1. CASE h.reply = <<>>
    BY <2>1, <1>5
  <2>2. ASSUME NEW m, h.reply = <<m>>
        PROVE  v = wire["client"] \/ \E k \in Octets : v = wire["client"] \o Segments(end, k)
    <3>1. PICK S \in Seq(Octets) : S = sent["server"]
      BY <1>1 DEF TransportInv, TransportTypeOK
    <3>2. S \o <<m>> = Append(S, m)
      OBVIOUS
    <3>3. sent' = [sent EXCEPT !["server"] = Append(@, m)]
      BY <2>2, <3>1, <3>2, <1>6
    <3>4. m \in Octets
      BY <3>3, <1>1, SentOctets
    <3>5. h.reply[1] = m
      BY <2>2
    <3> QED BY <3>4, <3>5, <1>5
  <2> QED BY <2>1, <2>2, <1>p, OneReply
<1>10. HasConfirm => ReadsOne("server") /\ SendsOne("server")
  <2> SUFFICES ASSUME HasConfirm PROVE ReadsOne("server") /\ SendsOne("server")
    OBVIOUS
  <2>1. ReadsOne("server")
    BY <1>1, <1>4, <1>7, <1>8 DEF ReadsOne
  <2>2. SendsOne("server")
    BY <1>1, <1>4, <1>8, <1>9 DEF SendsOne
  <2> QED BY <2>1, <2>2
<1> QED BY <1>1, <1>2, <1>3, <1>4, <1>7, <1>10, StepAgrees

(* A new CotpConnection keeps to the limit of the build.                   *)
LEMMA NewNegotiable ==
  ASSUME NEW n \in TpduSizes
  PROVE  Negotiable(CotpInit(n, BufferSize))
<1>1. TpduExponent(n, n) = CHOOSE e \in 0 .. 15 : 2 ^ e <= n /\ n < 2 ^ (e + 1)
  BY DEF TpduExponent
<1>2. PICK e : e = TpduExponent(n, n)
  OBVIOUS
<1>3. 2 ^ e <= n
  BY <1>1, <1>2, Reached
<1>4. PICK i : i = CotpInit(n, BufferSize)
  OBVIOUS
<1>5. i.tpdu_size = e /\ i.maxTpdu = n
  BY <1>2, <1>4 DEF CotpInit
<1> QED BY <1>3, <1>4, <1>5 DEF Negotiable, TpduSize

(* The initial states satisfy the invariant.                               *)
LEMMA InitAgrees == AssociationInit => AgreeInv
<1> SUFFICES ASSUME AssociationInit PROVE AgreeInv
  OBVIOUS
<1>1. PICK c \in ClientTpdu, s \in ServerTpdu :
        cotp = [e \in Ends |-> CotpInit(IF e = "client" THEN c ELSE s, BufferSize)]
  BY DEF AssociationInit
<1>2. c \in TpduSizes /\ s \in TpduSizes
  BY SizesAssumption DEF TpduSizes
<1>3. \A e \in Ends : Negotiable(cotp[e])
  <2> TAKE e \in Ends
  <2>1. PICK n \in TpduSizes : n = IF e = "client" THEN c ELSE s
    BY <1>2
  <2>2. cotp[e] = CotpInit(n, BufferSize)
    BY <1>1, <2>1
  <2> QED BY <2>2, NewNegotiable
<1>4. client = "idle"
  BY DEF AssociationInit
<1> QED BY <1>3, <1>4 DEF AgreeInv, HasConfirm

(* A new connection: the connection request is under way.                  *)
LEMMA ConnectAgrees ==
  ASSUME TransportInv, NEW pw, Connect(pw)
  PROVE  AgreeInv'
<1>1. PICK c : c = ConnectionRequest(CotpInit(cotp["client"].maxTpdu, BufferSize),
                                     Params.remoteTSelector)
               /\ cotp' = [client |-> c.end, server |-> CotpInit(cotp["server"].maxTpdu, BufferSize)]
               /\ wire' = [client |-> <<>>, server |-> <<c.tpdu>>]
  BY DEF Connect
<1>2. \A e \in Ends : cotp[e].maxTpdu \in TpduSizes
  BY DEF TransportInv, TransportTypeOK, CotpEnd
<1>3. PICK i \in CotpEnd : i = CotpInit(cotp["client"].maxTpdu, BufferSize) /\ Negotiable(i)
  BY <1>2, CotpInitEnd, NewNegotiable, TwoEnds
<1>4. PICK x : x = [i EXCEPT !.tsap_id_dst = Params.remoteTSelector, !.tsap_id_src = 0]
  OBVIOUS
<1>5. Negotiable(x)
  BY <1>3, <1>4 DEF Negotiable, TpduSize, CotpEnd
<1>6. c = [end |-> x, tpdu |-> RequestOf(x)]
  BY <1>1, <1>3, <1>4 DEF ConnectionRequest, RequestOf
<1>7. c.end = x /\ c.tpdu = RequestOf(x)
  BY <1>6
<1>8. /\ cotp'["client"] = x /\ cotp'["server"] = CotpInit(cotp["server"].maxTpdu, BufferSize)
      /\ wire'["client"] = <<>> /\ wire'["server"] = <<RequestOf(x)>>
  BY <1>1, <1>7
<1>9. \A e \in Ends : Negotiable(cotp'[e])
  BY <1>2, <1>5, <1>8, NewNegotiable, TwoEnds
<1>10. client' = "connecting"
  BY DEF Connect
<1>11. Asked'
  BY <1>8 DEF Asked
<1> QED BY <1>9, <1>10, <1>11 DEF AgreeInv, HasConfirm

(* The server answers the connection request.                              *)
LEMMA ServerConnectedAgrees ==
  ASSUME TransportInv, AgreeInv, ServerConnected
  PROVE  AgreeInv'
<1>1. /\ "client" \in Ends /\ "server" \in Ends
      /\ Other("client") = "server" /\ Other("server") = "client"
  BY TwoEnds
<1>2. Readable("server") /\ Reading("server").indication = "CONNECT" /\ client' = client
  BY DEF ServerConnected
<1>3. PICK x \in CotpEnd : x = Reading("server").end /\ Negotiable(x) /\ ~HasConfirm
  BY <1>1, <1>2, ReadingAgrees
<1>4. PICK y : y = Cleared(x) /\ Negotiable(y) /\ SameParameters(y, x)
  BY <1>3, ClearedParameters
<1>5. PICK v : v = IF open["client"] /\ ~lost
                   THEN Append(wire["client"], ConnectionResponse(y)) ELSE wire["client"]
  OBVIOUS
<1>6. /\ cotp' = [cotp EXCEPT !["server"] = y]
      /\ wire' = [client |-> v, server |-> Tail(wire["server"])]
  BY <1>3, <1>4, <1>5 DEF ServerConnected
<1>7. cotp'["server"] = y /\ cotp'["client"] = cotp["client"]
  BY <1>1, <1>6 DEF TransportInv, TransportTypeOK
<1>8. wire'["client"] = v /\ wire'["server"] = Tail(wire["server"])
  BY <1>6
<1>9. \A e \in Ends : Negotiable(cotp'[e])
  BY <1>4, <1>7, TwoEnds DEF AgreeInv
<1>10. ~HasConfirm'
  BY <1>2, <1>3 DEF HasConfirm
<1>11. CASE client # "connecting"
  BY <1>2, <1>9, <1>10, <1>11, AgreeIdle
<1>12. CASE client = "connecting"
  <2>1. PICK c \in CotpEnd : c = cotp["client"]
    BY <1>1 DEF TransportInv, TransportTypeOK
  <2>2. PICK s \in CotpEnd : s = cotp["server"] /\ Negotiable(s)
    BY <1>1 DEF AgreeInv, TransportInv, TransportTypeOK
  <2>3. PICK t : t = RequestOf(c)
    OBVIOUS
  <2>4. wire["server"] = <<t>> /\ wire["client"] = <<>>
    BY <1>2, <1>12, <2>1, <2>3 DEF AgreeInv, Asked, Confirmed, Readable
  <2>5. Head(<<t>>) = t /\ Tail(<<t>>) = <<>>
    OBVIOUS
  <2>6. t \in Tpdu
    <3>1. wire["server"] \in Seq(Tpdu) /\ wire["server"] # <<>>
      BY <1>1, <1>2 DEF TransportInv, TransportTypeOK, Readable
    <3>2. Head(wire["server"]) \in Tpdu
      BY <3>1, HeadTailProperties
    <3> QED BY <3>2, <2>4, <2>5
  <2>7. x = Received(s, t).end
    BY <1>3, <2>2, <2>4, <2>5 DEF Reading
  <2>8. /\ t.code = "CR" /\ t.first = 0 /\ t.second = 2
        /\ t.options.tpdu_size = c.tpdu_size
        /\ t.options.tsap_id_dst = c.tsap_id_dst /\ t.options.tsap_id_src = c.tsap_id_src
    BY <2>3 DEF RequestOf, Options
  <2>9. /\ x.tpdu_size = TpduExponent(s.maxTpdu, 2 ^ c.tpdu_size)
        /\ x.srcRef = 2 /\ x.dstRef = 0
        /\ x.tsap_id_dst = c.tsap_id_dst /\ x.tsap_id_src = c.tsap_id_src
    BY <2>2, <2>6, <2>7, <2>8, ReceivedParameters
  <2>10. TpduSize(x) <= TpduSize(c)
    <3>1. s.maxTpdu \in TpduSizes /\ c.tpdu_size \in 2 .. 15
      BY DEF CotpEnd
    <3> QED BY <2>9, <3>1, SizeTaken DEF TpduSize
  <2>11. /\ y.srcRef = 2 /\ y.dstRef = 0 /\ TpduSize(y) <= TpduSize(c)
         /\ y.tsap_id_dst = c.tsap_id_dst /\ y.tsap_id_src = c.tsap_id_src
    BY <1>4, <2>9, <2>10 DEF SameParameters, TpduSize
  <2>12. v = <<>> \/ v = <<ConnectionResponse(y)>>
    <3>1. \A z : Append(<<>>, z) = <<z>>
      OBVIOUS
    <3> QED BY <3>1, <1>5, <2>4
  <2>13. wire'["server"] = <<>>
    BY <1>8, <2>4, <2>5
  <2>14. Confirmed'
    BY <1>7, <1>8, <2>1, <2>11, <2>12, <2>13 DEF Confirmed
  <2> QED BY <1>9, <1>10, <2>14 DEF AgreeInv
<1> QED BY <1>11, <1>12

(* The client takes the confirm and sends the associate request.           *)
LEMMA TransportConnectedAgrees ==
  ASSUME TransportInv, TransportInv', AgreeInv, TransportConnected
  PROVE  AgreeInv'
<1>1. /\ "client" \in Ends /\ "server" \in Ends
      /\ Other("client") = "server" /\ Other("server") = "client"
  BY TwoEnds
<1>2. PICK y, m :
        /\ y = Cleared(Reading("client").end)
        /\ cotp' = [cotp EXCEPT !["client"] = y]
        /\ wire' = [client |-> Tail(wire["client"]),
                    server |-> IF open["server"] /\ ~lost
                               THEN wire["server"] \o Segments(y, m) ELSE wire["server"]]
        /\ sent' = [sent EXCEPT !["client"] = Append(@, m)]
  BY DEF TransportConnected
<1>3. Readable("client") /\ client = "connecting" /\ client' = "associating"
  BY DEF TransportConnected
<1>4. PICK x \in CotpEnd : x = Reading("client").end /\ Negotiable(x)
  BY <1>1, <1>3, ReadingAgrees
<1>5. y \in CotpEnd /\ Negotiable(y) /\ SameParameters(y, x)
  BY <1>2, <1>4, ClearedParameters, ClearedEnd
<1>6. m \in Octets
  BY <1>1, <1>2, SentOctets
<1>7. PICK c \in CotpEnd : c = cotp["client"] /\ Negotiable(c)
  BY <1>1 DEF AgreeInv, TransportInv, TransportTypeOK
<1>8. PICK s \in CotpEnd : s = cotp["server"] /\ Negotiable(s)
  BY <1>1 DEF AgreeInv, TransportInv, TransportTypeOK
<1>9. PICK t : t = ConnectionResponse(s)
  OBVIOUS
<1>10. /\ wire["client"] = <<t>> /\ wire["server"] = <<>>
       /\ TpduSize(s) <= TpduSize(c)
  BY <1>3, <1>7, <1>8, <1>9 DEF AgreeInv, Asked, Confirmed, Readable
<1>11. Head(<<t>>) = t /\ Tail(<<t>>) = <<>>
  OBVIOUS
<1>12. t \in Tpdu
  <2>1. wire["client"] \in Seq(Tpdu) /\ wire["client"] # <<>>
    BY <1>1, <1>3 DEF TransportInv, TransportTypeOK, Readable
  <2>2. Head(wire["client"]) \in Tpdu
    BY <2>1, HeadTailProperties
  <2> QED BY <2>2, <1>10, <1>11
<1>13. x = Received(c, t).end
  BY <1>4, <1>7, <1>10, <1>11 DEF Reading
<1>14. /\ t.code = "CC" /\ t.first = s.srcRef /\ t.second = s.dstRef
       /\ t.options.tpdu_size = s.tpdu_size
       /\ t.options.tsap_id_dst = s.tsap_id_dst /\ t.options.tsap_id_src = s.tsap_id_src
  BY <1>9 DEF ConnectionResponse, Options
<1>15. /\ x.tpdu_size = TpduExponent(c.maxTpdu, 2 ^ s.tpdu_size)
       /\ x.srcRef = s.srcRef /\ x.dstRef = s.dstRef
       /\ x.tsap_id_dst = s.tsap_id_dst /\ x.tsap_id_src = s.tsap_id_src
  BY <1>7, <1>12, <1>13, <1>14, ReceivedParameters
<1>16. x.tpdu_size = s.tpdu_size
  <2>1. c.maxTpdu \in TpduSizes /\ s.tpdu_size \in 2 .. 15 /\ c.tpdu_size \in 2 .. 15
    BY DEF CotpEnd
  <2>2. PICK p \in Nat : p = 2 ^ s.tpdu_size
    BY <2>1, SizeOf DEF TpduSizes
  <2>3. PICK q \in Nat : q = 2 ^ c.tpdu_size
    BY <2>1, SizeOf DEF TpduSizes
  <2>4. p <= q /\ q <= c.maxTpdu /\ c.maxTpdu \in Nat
    BY <1>7, <1>10, <2>1, <2>2, <2>3 DEF Negotiable, TpduSize, TpduSizes
  <2>5. p <= c.maxTpdu
    BY <2>4
  <2>6. 2 ^ s.tpdu_size <= c.maxTpdu
    BY <2>2, <2>5
  <2> QED BY <1>15, <2>1, <2>6, SizeTaken
<1>17. SameParameters(y, s)
  BY <1>5, <1>15, <1>16 DEF SameParameters
<1>18. cotp'["client"] = y /\ cotp'["server"] = s
  BY <1>1, <1>2, <1>8 DEF TransportInv, TransportTypeOK
<1>19. PICK v : v = IF open["server"] /\ ~lost
                    THEN wire["server"] \o Segments(y, m) ELSE wire["server"]
  OBVIOUS
<1>20. wire'["client"] = <<>> /\ wire'["server"] = v
  <2>1. wire' = [client |-> Tail(wire["client"]), server |-> v]
    BY <1>2, <1>19
  <2> QED BY <2>1, <1>10, <1>11
<1>21. PICK size : size = TpduSize(y) /\ size = TpduSize(s)
  BY <1>17 DEF SameParameters, TpduSize
<1>22. Bounded(size, <<>>)
  <2>1. Len(<<>>) = 0
    OBVIOUS
  <2> QED BY <2>1 DEF Bounded
<1>23. Bounded(size, v)
  <2>1. Segments(y, m) \in Seq(Tpdu) /\ Bounded(size, Segments(y, m))
    BY <1>5, <1>6, <1>21, BoundedSegments
  <2>2. <<>> \in Seq(Tpdu)
    OBVIOUS
  <2> QED BY <2>1, <2>2, <1>10, <1>19, <1>22, BoundedJoin
<1>24. \A e \in Ends : Negotiable(cotp'[e]) /\ Bounded(TpduSize(cotp'[e]), wire'[e])
  <2>1. Negotiable(cotp'["client"]) /\ Bounded(TpduSize(cotp'["client"]), wire'["client"])
    BY <1>5, <1>18, <1>20, <1>21, <1>22
  <2>2. Negotiable(cotp'["server"]) /\ Bounded(TpduSize(cotp'["server"]), wire'["server"])
    BY <1>8, <1>18, <1>20, <1>21, <1>23
  <2> QED BY <2>1, <2>2, TwoEnds
<1> QED BY <1>3, <1>17, <1>18, <1>24 DEF AgreeInv

(* What is left of one TPDU.                                               *)
LEMMA PartOfOne ==
  ASSUME NEW w, NEW t, w = <<>> \/ w = <<t>>, NEW k \in 0 .. Len(w)
  PROVE  SubSeq(w, 1, k) = <<>> \/ SubSeq(w, 1, k) = w
<1>1. CASE w = <<>>
  <2>1. k = 0
    BY <1>1
  <2> QED BY <2>1, SubSeqEmpty
<1>2. CASE w = <<t>>
  <2>1. k = 0 \/ k = 1
    BY <1>2
  <2>2. SubSeq(w, 1, 0) = <<>>
    BY SubSeqEmpty
  <2>3. SubSeq(<<t>>, 1, 1) = <<t>>
    <3>1. <<t>> \in Seq({t}) /\ Len(<<t>>) = 1
      OBVIOUS
    <3> QED BY <3>1, SubSeqFull
  <2> QED BY <2>1, <2>2, <2>3, <1>2
<1> QED BY <1>1, <1>2

(* The connection breaks.                                                  *)
LEMMA BreakAgrees ==
  ASSUME TransportInv, AgreeInv, Break
  PROVE  AgreeInv'
<1>1. PICK k \in [Ends -> 0 .. 3] : /\ \A e \in Ends : k[e] <= Len(wire[e])
                                    /\ wire' = [e \in Ends |-> SubSeq(wire[e], 1, k[e])]
  BY DEF Break
<1>2. \A e \in Ends : wire[e] \in Seq(Tpdu) /\ k[e] \in 0 .. Len(wire[e])
                      /\ wire'[e] = SubSeq(wire[e], 1, k[e])
  <2> TAKE e \in Ends
  <2>1. PICK w \in Seq(Tpdu) : w = wire[e]
    BY DEF TransportInv, TransportTypeOK
  <2>2. k[e] \in 0 .. Len(w)
    BY <1>1, <2>1
  <2> QED BY <1>1, <2>1, <2>2
<1>3. UNCHANGED <<cotp, client>>
  BY DEF Break, layers
<1>4. CASE HasConfirm
  <2>1. \A e \in Ends : Bounded(TpduSize(cotp[e]), wire'[e])
    BY <1>2, <1>4, BoundedParts DEF AgreeInv
  <2>2. client' # "connecting"
    BY <1>3, <1>4 DEF HasConfirm
  <2> QED BY <1>3, <1>4, <2>1, <2>2 DEF AgreeInv
<1>5. CASE client = "connecting"
  <2>1. PICK t, u : t = RequestOf(cotp["client"]) /\ u = ConnectionResponse(cotp["server"])
    OBVIOUS
  <2>2. ASSUME NEW e \in Ends, NEW z, wire[e] = <<>> \/ wire[e] = <<z>>
        PROVE  wire'[e] = <<>> \/ wire'[e] = wire[e]
    BY <1>2, <2>2, PartOfOne
  <2>3. CASE Asked
    <3>1. wire["client"] = <<>> /\ (wire["server"] = <<>> \/ wire["server"] = <<t>>)
      BY <2>1, <2>3 DEF Asked
    <3>2. wire'["client"] = <<>> /\ (wire'["server"] = <<>> \/ wire'["server"] = <<t>>)
      BY <3>1, <2>2, TwoEnds
    <3>3. Asked'
      BY <3>2, <2>1, <1>3 DEF Asked
    <3> QED BY <3>3, <1>3, <1>5 DEF AgreeInv, HasConfirm
  <2>4. CASE Confirmed
    <3>1. wire["server"] = <<>> /\ (wire["client"] = <<>> \/ wire["client"] = <<u>>)
      BY <2>1, <2>4 DEF Confirmed
    <3>2. wire'["server"] = <<>> /\ (wire'["client"] = <<>> \/ wire'["client"] = <<u>>)
      BY <3>1, <2>2, TwoEnds
    <3>3. Confirmed'
      BY <3>2, <2>1, <2>4, <1>3 DEF Confirmed
    <3> QED BY <3>3, <1>3, <1>5 DEF AgreeInv, HasConfirm
  <2> QED BY <2>3, <2>4, <1>5 DEF AgreeInv
<1>6. CASE ~HasConfirm /\ client # "connecting"
  BY <1>3, <1>6 DEF AgreeInv, HasConfirm
<1> QED BY <1>4, <1>5, <1>6

-----------------------------------------------------------------------------
(* Every step keeps what the ends agree on.                                *)
LEMMA NextAgrees ==
  ASSUME TransportInv, TransportInv', AgreeInv, [AssociationNext]_associationVars
  PROVE  AgreeInv'
<1>1. ASSUME NEW pw \in Passwords, Connect(pw) PROVE AgreeInv'
  BY <1>1, ConnectAgrees
<1>2. ASSUME NEW e \in Ends, ReadMore(e) PROVE AgreeInv'
  BY <1>2, ReadMoreAgrees
<1>3. CASE TransportConnected
  BY <1>3, TransportConnectedAgrees
<1>4. CASE AssociateAnswered
  <2>1. /\ Readable("client") /\ HasConfirm /\ (HasConfirm' \/ client' = "failed")
        /\ cotp' = [cotp EXCEPT !["client"] = Cleared(Reading("client").end)]
        /\ wire' = [wire EXCEPT !["client"] = Tail(@)]
    BY <1>4 DEF AssociateAnswered, ClientFails, HasConfirm
  <2> QED BY <2>1, ClientReadsAgrees
<1>5. CASE AssociateFails
  <2>1. UNCHANGED <<cotp, wire>> /\ client' = "failed"
    BY <1>5 DEF AssociateFails, ClientFails, layers
  <2> QED BY <2>1, AgreeUnchanged
<1>6. CASE ClientReceives
  <2>1. /\ Readable("client") /\ HasConfirm /\ HasConfirm'
        /\ cotp' = [cotp EXCEPT !["client"] = Cleared(Reading("client").end)]
        /\ wire' = [wire EXCEPT !["client"] = Tail(@)]
    BY <1>6 DEF ClientReceives, HasConfirm
  <2> QED BY <2>1, ClientReadsAgrees
<1>7. CASE ClientSeesEnd
  <2>1. UNCHANGED <<cotp, wire>> /\ HasConfirm /\ HasConfirm'
    BY <1>7 DEF ClientSeesEnd, layers, HasConfirm
  <2> QED BY <2>1, AgreeUnchanged
<1>8. CASE ServerConnected
  BY <1>8, ServerConnectedAgrees
<1>9. ASSUME NEW n \in PduLengths, ServerReceives(n) PROVE AgreeInv'
  BY <1>9, ServerReceivesAgrees
<1>10. CASE ServerSeesEnd
  <2>1. UNCHANGED <<cotp, wire, client>>
    BY <1>10 DEF ServerSeesEnd, layers
  <2> QED BY <2>1, AgreeUnchanged
<1>11. ASSUME NEW n \in PduLengths, Request(n) PROVE AgreeInv'
  <2>1. PICK m : SendMessage("client", cotp["client"], m)
    BY <1>11 DEF Request
  <2>2. cotp' = cotp /\ HasConfirm /\ HasConfirm'
    BY <1>11 DEF Request, layers, HasConfirm
  <2> QED BY <2>1, <2>2, ClientSendsAgrees
<1>12. CASE Release
  <2>1. PICK m : SendMessage("client", cotp["client"], m)
    BY <1>12 DEF Release
  <2>2. cotp' = cotp /\ HasConfirm /\ HasConfirm'
    BY <1>12 DEF Release, layers, HasConfirm
  <2> QED BY <2>1, <2>2, ClientSendsAgrees
<1>13. CASE Abort
  <2>1. PICK m : SendMessage("client", cotp["client"], m)
    BY <1>13 DEF Abort
  <2>2. cotp' = cotp /\ HasConfirm /\ HasConfirm'
    BY <1>13 DEF Abort, layers, HasConfirm
  <2> QED BY <2>1, <2>2, ClientSendsAgrees
<1>14. CASE Close
  <2>1. UNCHANGED <<cotp, wire, client>>
    BY <1>14 DEF Close, layers
  <2> QED BY <2>1, AgreeUnchanged
<1>15. CASE Break
  BY <1>15, BreakAgrees
<1>16. CASE UNCHANGED associationVars
  <2>1. UNCHANGED <<cotp, wire, client>>
    BY <1>16 DEF associationVars, layers
  <2> QED BY <2>1, AgreeUnchanged
<1> QED
  BY <1>1, <1>2, <1>3, <1>4, <1>5, <1>6, <1>7, <1>8, <1>9, <1>10, <1>11, <1>12, <1>13, <1>14,
     <1>15, <1>16 DEF AssociationNext, ClientStep, ServerStep

(* The invariant is more than what is promised.                            *)
LEMMA AgreeInvImplies == TransportInv /\ AgreeInv => TransportAgreed
<1> SUFFICES ASSUME TransportInv, AgreeInv, client \in {"associated", "releasing"}
             PROVE  LET c == cotp["client"]
                        s == cotp["server"]
                    IN /\ c.tpdu_size = s.tpdu_size
                       /\ TpduSize(c) <= c.maxTpdu /\ TpduSize(s) <= s.maxTpdu
                       /\ c.srcRef = s.srcRef /\ c.dstRef = s.dstRef
                       /\ c.tsap_id_dst = s.tsap_id_dst /\ c.tsap_id_src = s.tsap_id_src
                       /\ \A e \in Ends : \A i \in DOMAIN wire[e] :
                            wire[e][i].code = "DT"
                              => Len(wire[e][i].data) + CotpDataHeaderSize <= TpduSize(cotp[e])
  BY DEF TransportAgreed
<1>1. HasConfirm
  BY DEF HasConfirm
<1>2. SameParameters(cotp["client"], cotp["server"])
      /\ \A e \in Ends : Negotiable(cotp[e]) /\ Bounded(TpduSize(cotp[e]), wire[e])
  BY <1>1 DEF AgreeInv
<1>3. \A e \in Ends : DOMAIN wire[e] = 1 .. Len(wire[e])
  BY DEF TransportInv, TransportTypeOK
<1>4. \A e \in Ends : \A i \in DOMAIN wire[e] :
        wire[e][i].code = "DT" => Len(wire[e][i].data) + CotpDataHeaderSize <= TpduSize(cotp[e])
  BY <1>2, <1>3 DEF Bounded
<1> QED BY <1>2, <1>4, TwoEnds DEF SameParameters, Negotiable

-----------------------------------------------------------------------------
(***************************************************************************)
(* What the layers above the transport agree on.  A server has learned     *)
(* nothing before the first message, and from an admissible one the terms  *)
(* that the client offered, or offers again; the client learns the same    *)
(* terms from the first message that the server sends.                     *)
(***************************************************************************)
Offer == {ClientMaxPdu, Least(ClientMaxPdu, ServerMaxPdu)}
Terms == Settling(Offered(ClientMaxPdu))
Answer == Answering(ClientMaxPdu)
Contexts == [acse |-> 1, mms |-> 3]

Authorized == SecretPassword = <<>> \/ password = SecretPassword
Admissible == Len(sent["client"][1]) - 2 <= 255 /\ Authorized
Trying == client \in {"connecting", "associating"}
Associated == client \in {"associated", "releasing"}

RoomInv == \A e \in Ends : cotp[e].room = BufferSize

LayersOK ==
  /\ pres["client"] \in {NoContexts, Contexts} /\ pres["server"] \in {NoContexts, Contexts}
  /\ mms["client"] \in {NoParameters, Terms} /\ mms["server"] \in {NoParameters, Terms}
  /\ pres \in [Ends -> {NoContexts, Contexts}] /\ mms \in [Ends -> {NoParameters, Terms}]
  /\ maxPdu \in {-1} \cup Offer
  /\ client # "idle" => maxPdu \in Offer /\ password \in Passwords /\ pres["client"] = Contexts

ClientSends ==
  /\ client \in {"idle", "connecting"} => sent["client"] = <<>>
  /\ client = "associating" => Len(sent["client"]) = 1
  /\ sent["client"] # <<>> => \E q \in Offer : sent["client"][1] = Asking(password, q)
  /\ \A i \in 2 .. Len(sent["client"]) : NoConnect(sent["client"][i])

Unasked == pres["server"] = NoContexts /\ mms["server"] = NoParameters /\ sent["server"] = <<>>
Agreed == /\ pres["server"] = Contexts /\ mms["server"] = Terms
          /\ sent["server"] # <<>> /\ sent["server"][1] = Answer

ServerLearns ==
  /\ delivered["server"] = <<>> => Unasked
  /\ delivered["server"] # <<>> /\ Admissible => Agreed
  /\ delivered["server"] # <<>> /\ ~Admissible => Unasked /\ server = "stopped"

ClientLearns ==
  /\ Trying => open["client"] /\ delivered["client"] = <<>>
  /\ Trying /\ ~lost /\ ~open["server"] => sent["client"] # <<>> /\ ~Admissible
  /\ Associated => mms["client"] = Terms /\ delivered["server"] # <<>> /\ Admissible
  /\ client = "failed" => \/ lost \/ ~Authorized
                          \/ sent["client"] # <<>> /\ Len(sent["client"][1]) - 2 > 255

Protocol == LayersOK /\ ClientSends /\ ServerLearns /\ ClientLearns
ProtocolInv == RoomInv /\ Protocol

\* The parameters of the connection fit their encodings.
LEMMA ConstantsFit ==
  /\ ParamsFit /\ OctetsOf32(Params.localPSelector) /\ OctetsOf32(Params.remotePSelector)
  /\ \A pw \in Passwords : Measures(pw, Len(pw)) /\ Half(Len(pw))
  /\ ClientMaxPdu \in Nat /\ InTwoOctets(ClientMaxPdu)
  /\ ServerMaxPdu \in Nat /\ InTwoOctets(ServerMaxPdu)
  /\ \A n \in PduLengths : n \in Nat /\ RoomFor(n)
  /\ BufferSize \in Nat /\ BufferSize >= 257
<1>1. \A pw \in Passwords : Measures(pw, Len(pw)) /\ Half(Len(pw))
  BY MessagesAssumption, OctetsAre DEF Measures, Half
<1>2. ParamsFit /\ OctetsOf32(Params.localPSelector) /\ OctetsOf32(Params.remotePSelector)
  BY MessagesAssumption DEF ParamsFit, TitleFits, OctetsOf32
<1>3. /\ ClientMaxPdu \in Nat /\ InTwoOctets(ClientMaxPdu)
      /\ ServerMaxPdu \in Nat /\ InTwoOctets(ServerMaxPdu)
  BY MessagesAssumption DEF InTwoOctets
<1>4. \A n \in PduLengths : n \in Nat /\ RoomFor(n)
  BY MessagesAssumption DEF RoomFor
<1> QED BY <1>1, <1>2, <1>3, <1>4, MessagesAssumption, SizesAssumption

\* Whichever of the two the client offers, the terms are the same.
LEMMA OfferIs ==
  ASSUME NEW q \in Offer
  PROVE  q \in Nat /\ InTwoOctets(q) /\ Settling(Offered(q)) = Terms
<1>1. PICK a \in Nat : a = ClientMaxPdu /\ InTwoOctets(a)
  BY ConstantsFit
<1>2. PICK b \in Nat : b = ServerMaxPdu /\ InTwoOctets(b)
  BY ConstantsFit
<1>3. q = a \/ q = Least(a, b)
  BY <1>1, <1>2 DEF Offer
<1>4. q \in Nat /\ InTwoOctets(q) /\ Least(q, b) = Least(a, b)
  BY <1>1, <1>2, <1>3 DEF Least, InTwoOctets
<1>5. Settling(Offered(q)) = Terms
  BY <1>1, <1>2, <1>4 DEF Settling, Offered, Terms
<1> QED BY <1>4, <1>5

\* What the terms are.
LEMMA TermsAre ==
  /\ Terms \in Fitting /\ Terms.maxPduSize = Least(ClientMaxPdu, ServerMaxPdu)
  /\ Terms.maxPduSize \in Offer /\ Terms # NoParameters
<1>1. PICK a \in Nat : a = ClientMaxPdu /\ InTwoOctets(a)
  BY ConstantsFit
<1>2. PICK b \in Nat : b = ServerMaxPdu /\ InTwoOctets(b)
  BY ConstantsFit
<1>3. PICK c \in Nat : c = Least(a, b) /\ InTwoOctets(c)
  BY <1>1, <1>2 DEF Least, InTwoOctets
<1>4. Least(DefaultOutstanding, DefaultOutstanding) = 5
  BY DEF Least, DefaultOutstanding
<1>5. Terms = [maxPduSize |-> c, calling |-> 5, called |-> 5, nesting |-> 10]
  BY <1>1, <1>2, <1>3, <1>4 DEF Terms, Settling, Offered, DefaultNesting
<1>6. InTwoOctets(5) /\ InTwoOctets(10)
  BY DEF InTwoOctets
<1>7. Terms \in Fitting
  BY <1>3, <1>5, <1>6 DEF Fitting, Parameters
<1>8. Terms # NoParameters
  BY <1>5 DEF NoParameters
<1> QED BY <1>1, <1>2, <1>3, <1>5, <1>7, <1>8 DEF Offer

\* What the client asks, and what it is answered.
LEMMA AskingWith ==
  ASSUME NEW pw \in Passwords, NEW q \in Offer
  PROVE  AskedOf(Asking(pw, q), pw, q)
<1>1. q \in Nat /\ InTwoOctets(q)
  BY OfferIs
<1>2. PICK n : Measures(pw, n) /\ Half(n)
  BY ConstantsFit
<1> QED BY <1>1, <1>2, AskingIs, ConstantsFit

\* The answer of the server, which does not depend on what is offered.
LEMMA AnswerIs == AnswerOf(Answer, ClientMaxPdu) /\ ClientMaxPdu \in Offer
<1>1. ClientMaxPdu \in Nat /\ ClientMaxPdu \in Offer
  BY ConstantsFit DEF Offer
<1>2. Settling(Offered(ClientMaxPdu)) \in Fitting
  BY TermsAre DEF Terms
<1> QED BY <1>1, <1>2, AnsweringIs, ConstantsFit DEF Answer

\* The two context ids are octets.
LEMMA ContextsAre == Contexts.acse \in Octet /\ Contexts.mms \in Octet /\ Contexts # NoContexts
<1>1. 1 \in Octet /\ 3 \in Octet
  BY DEF Octet
<1> QED BY <1>1 DEF Contexts, NoContexts

-----------------------------------------------------------------------------
\* The buffer of an end stays as large as it is.
LEMMA RoomKept ==
  ASSUME NEW end, end \in CotpEnd, NEW t
  PROVE  Received(end, t).end.room = end.room /\ Cleared(end).room = end.room
<1>1. \A e0, o : WithOptions(e0, o).room = e0.room
  BY DEF WithOptions
<1>2. Cleared(end).room = end.room
  BY DEF Cleared
<1>3. CASE t.code = "CR"
  <2>1. PICK e0 : e0 = [end EXCEPT !.dstRef = t.first, !.srcRef = t.second]
    OBVIOUS
  <2>2. e0.room = end.room
    BY <2>1 DEF CotpEnd
  <2>3. Received(end, t).end = WithOptions(e0, t.options)
    BY <1>3, <2>1 DEF Received
  <2> QED BY <1>1, <1>2, <2>2, <2>3
<1>4. CASE t.code = "CC"
  <2>1. PICK e0 : e0 = [end EXCEPT !.srcRef = t.first, !.dstRef = t.second]
    OBVIOUS
  <2>2. e0.room = end.room
    BY <2>1 DEF CotpEnd
  <2>3. Received(end, t).end = WithOptions(e0, t.options)
    BY <1>4, <2>1 DEF Received
  <2> QED BY <1>1, <1>2, <2>2, <2>3
<1>5. CASE t.code # "CR" /\ t.code # "CC"
  <2>1. Received(end, t) = IF Len(end.payload) + Len(t.data) > end.room
                           THEN [end |-> end, indication |-> "ERROR"]
                           ELSE [end |-> [end EXCEPT !.payload = @ \o t.data],
                                 indication |-> IF t.last THEN "DATA" ELSE "MORE"]
    BY <1>5 DEF Received
  <2>2. \A x : [end EXCEPT !.payload = x].room = end.room
    BY DEF CotpEnd
  <2> QED BY <1>2, <2>1, <2>2
<1> QED BY <1>3, <1>4, <1>5

\* What an end reads leaves its buffer as large.
LEMMA ReadingRoom ==
  ASSUME TransportInv, RoomInv, NEW e \in Ends
  PROVE  Reading(e).end.room = BufferSize
         /\ (Readable(e) => Reading(e).end \in CotpEnd /\ Cleared(Reading(e).end).room = BufferSize)
<1>1. cotp[e] \in CotpEnd /\ cotp[e].room = BufferSize
  BY DEF TransportInv, TransportTypeOK, RoomInv
<1>2. Reading(e).end.room = BufferSize
  BY <1>1, RoomKept DEF Reading
<1>3. ASSUME Readable(e)
      PROVE  Reading(e).end \in CotpEnd
  <2>1. Head(wire[e]) \in Tpdu
    BY <1>3, HeadTailProperties DEF Readable, TransportInv, TransportTypeOK
  <2> QED BY <1>1, <2>1, ReceivedEnd DEF Reading
<1> QED BY <1>2, <1>3, RoomKept

\* One end is changed, by what it reads.
LEMMA RoomOfOne ==
  ASSUME TransportInv, RoomInv, NEW e \in Ends, NEW x, x.room = BufferSize,
         cotp' = [cotp EXCEPT ![e] = x]
  PROVE  RoomInv'
  BY DEF RoomInv, TransportInv, TransportTypeOK

\* Every step leaves them as large.
LEMMA NextRoom ==
  ASSUME TransportInv, RoomInv, [AssociationNext]_associationVars
  PROVE  RoomInv'
<1>1. "client" \in Ends /\ "server" \in Ends
  BY TwoEnds
<1>2. ASSUME UNCHANGED cotp PROVE RoomInv'
  BY <1>2 DEF RoomInv
<1>3. ASSUME NEW pw, Connect(pw) PROVE RoomInv'
  <2>1. cotp' = [client |-> ConnectionRequest(CotpInit(cotp["client"].maxTpdu, BufferSize),
                                              Params.remoteTSelector).end,
                 server |-> CotpInit(cotp["server"].maxTpdu, BufferSize)]
    BY <1>3 DEF Connect
  <2>2. \A n : CotpInit(n, BufferSize).room = BufferSize
    BY DEF CotpInit
  <2>3. \A n : ConnectionRequest(CotpInit(n, BufferSize), Params.remoteTSelector).end.room = BufferSize
    BY DEF CotpInit, ConnectionRequest
  <2> QED BY <2>1, <2>2, <2>3, TwoEnds DEF RoomInv
<1>4. ASSUME NEW e \in Ends, ReadMore(e) PROVE RoomInv'
  <2>1. cotp' = [cotp EXCEPT ![e] = Reading(e).end]
    BY <1>4 DEF ReadMore
  <2> QED BY <2>1, RoomOfOne, ReadingRoom
<1>5. ASSUME NEW e \in Ends, Readable(e), cotp' = [cotp EXCEPT ![e] = Cleared(Reading(e).end)]
      PROVE  RoomInv'
  BY <1>5, RoomOfOne, ReadingRoom
<1>6. CASE TransportConnected
  <2>1. Readable("client") /\ cotp' = [cotp EXCEPT !["client"] = Cleared(Reading("client").end)]
    BY <1>6 DEF TransportConnected
  <2> QED BY <1>1, <1>5, <2>1
<1>7. CASE AssociateAnswered
  <2>1. Readable("client") /\ cotp' = [cotp EXCEPT !["client"] = Cleared(Reading("client").end)]
    BY <1>7 DEF AssociateAnswered
  <2> QED BY <1>1, <1>5, <2>1
<1>8. CASE ClientReceives
  <2>1. Readable("client") /\ cotp' = [cotp EXCEPT !["client"] = Cleared(Reading("client").end)]
    BY <1>8 DEF ClientReceives
  <2> QED BY <1>1, <1>5, <2>1
<1>9. CASE ServerConnected
  <2>1. Readable("server") /\ cotp' = [cotp EXCEPT !["server"] = Cleared(Reading("server").end)]
    BY <1>9 DEF ServerConnected
  <2> QED BY <1>1, <1>5, <2>1
<1>10. ASSUME NEW n, ServerReceives(n) PROVE RoomInv'
  <2>1. Readable("server") /\ cotp' = [cotp EXCEPT !["server"] = Cleared(Reading("server").end)]
    BY <1>10 DEF ServerReceives
  <2> QED BY <1>1, <1>5, <2>1
<1>11. CASE AssociateFails
  BY <1>2, <1>11 DEF AssociateFails, layers
<1>12. CASE ClientSeesEnd
  BY <1>2, <1>12 DEF ClientSeesEnd, layers
<1>13. CASE ServerSeesEnd
  BY <1>2, <1>13 DEF ServerSeesEnd, layers
<1>14. ASSUME NEW n, Request(n) PROVE RoomInv'
  BY <1>2, <1>14 DEF Request, layers
<1>15. CASE Release
  BY <1>2, <1>15 DEF Release, layers
<1>16. CASE Abort
  BY <1>2, <1>16 DEF Abort, layers
<1>17. CASE Close
  BY <1>2, <1>17 DEF Close, layers
<1>18. CASE Break
  BY <1>2, <1>18 DEF Break, layers
<1>19. CASE UNCHANGED associationVars
  BY <1>2, <1>19 DEF associationVars, layers
<1> QED
  BY <1>3, <1>4, <1>6, <1>7, <1>8, <1>9, <1>10, <1>11, <1>12, <1>13, <1>14, <1>15, <1>16, <1>17,
     <1>18, <1>19 DEF AssociationNext, ClientStep, ServerStep

\* What does not fit its buffer is a message that is longer.
LEMMA ErrorMeansLong ==
  ASSUME TransportInv, RoomInv, NEW e \in Ends, Readable(e), Reads(e),
         Reading(e).indication = "ERROR"
  PROVE  LET S == sent[Other(e)]
             k == Len(delivered[e]) + 1
         IN k <= Len(S) /\ Len(S[k]) > BufferSize
<1>1. PICK S \in Seq(Octets) : S = sent[Other(e)]
  BY TwoEnds DEF TransportInv, TransportTypeOK
<1>2. PICK d \in Seq(Octets) : d = delivered[e]
  BY DEF TransportInv, TransportTypeOK
<1>3. PICK w \in Seq(Tpdu) : w = wire[e] /\ w # <<>> /\ Head(w) \in Tpdu
  BY HeadTailProperties DEF Readable, TransportInv, TransportTypeOK
<1>4. PICK end \in CotpEnd : end = cotp[e] /\ end.room = BufferSize
  BY DEF TransportInv, TransportTypeOK, RoomInv
<1>5. PICK all : all = AllArrives(e)
  OBVIOUS
<1>6. PICK q \in Octets : q = end.payload
  BY DEF CotpEnd
<1>7. Arriving(S, d, q, w, all)
  BY <1>1, <1>2, <1>3, <1>4, <1>5, <1>6 DEF TransportInv, InOrderAt
<1>8. Received(end, Head(w)).indication = "ERROR"
  BY <1>3, <1>4 DEF Reading
<1>9. Head(w) \in DataTpdu /\ Len(q) + Len(Head(w).data) > BufferSize
  <2>1. CASE Head(w) \in ConnectTpdu
    <3>1. Head(w).code \in {"CR", "CC"}
      BY <2>1 DEF ConnectTpdu
    <3>2. Received(end, Head(w)).indication = "CONNECT"
      BY <3>1 DEF Received
    <3> QED BY <1>8, <3>2
  <2>2. CASE Head(w) \in DataTpdu
    <3>1. Head(w).code = "DT" /\ Head(w).last \in BOOLEAN
      BY <2>2 DEF DataTpdu
    <3>2. Received(end, Head(w)) = IF Len(q) + Len(Head(w).data) > BufferSize
            THEN [end |-> end, indication |-> "ERROR"]
            ELSE [end |-> [end EXCEPT !.payload = @ \o Head(w).data],
                  indication |-> IF Head(w).last THEN "DATA" ELSE "MORE"]
      BY <3>1, <1>4, <1>6 DEF Received
    <3>3. ASSUME ~(Len(q) + Len(Head(w).data) > BufferSize)
          PROVE  Received(end, Head(w)).indication \in {"DATA", "MORE"}
      BY <3>1, <3>2, <3>3
    <3> QED BY <1>8, <2>2, <3>3
  <2> QED BY <1>3, <2>1, <2>2 DEF Tpdu
<1>10. PICK l \in Nat, p \in Nat : Chained(w, S, Len(d) + 1, Len(q), l, p)
  BY <1>7 DEF Arriving
<1>11. PICK k \in Nat : k = Len(d) + 1
  OBVIOUS
<1>12. PICK o \in Nat : o = Len(q)
  BY DEF Octets
<1>13. PICK k1 \in Nat, o1 \in Nat : Carries(Head(w), S, k, o, k1, o1)
  BY <1>3, <1>10, <1>11, <1>12, ChainHead
<1>14. CarriesData(Head(w), S, k, o, k1, o1)
  BY <1>9, <1>13 DEF Carries
<1>15. PICK n \in Nat : n = Len(Head(w).data)
  BY <1>9 DEF DataTpdu, Octets
<1>16. k \in 1 .. Len(S) /\ o + n <= Len(S[k])
  BY <1>14, <1>15 DEF CarriesData
<1>17. k <= Len(S) /\ Len(S[k]) > BufferSize
  <2>1. S[k] \in Octets
    BY <1>16
  <2>2. Len(S[k]) \in Nat
    BY <2>1, OctetsAre
  <2> QED BY <1>9, <1>12, <1>15, <1>16, <2>2, ConstantsFit
<1> QED BY <1>1, <1>2, <1>11, <1>17

-----------------------------------------------------------------------------
\* Facts of a state.
LEMMA SoFar ==
  ASSUME TransportInv, Protocol
  PROVE  /\ delivered["server"] # <<>> => sent["client"] # <<>>
         /\ client \in {"idle", "connecting"} => delivered["server"] = <<>>
         /\ sent["client"] \in Seq(Octets) /\ sent["server"] \in Seq(Octets)
         /\ delivered["client"] \in Seq(Octets) /\ delivered["server"] \in Seq(Octets)
         /\ Associated => sent["client"] # <<>> /\ pres["client"] = Contexts
<1>1. /\ "client" \in Ends /\ "server" \in Ends /\ Other("server") = "client"
  BY TwoEnds
<1>2. /\ sent["client"] \in Seq(Octets) /\ sent["server"] \in Seq(Octets)
      /\ delivered["client"] \in Seq(Octets) /\ delivered["server"] \in Seq(Octets)
  BY <1>1 DEF TransportInv, TransportTypeOK
<1>3. Len(delivered["server"]) <= Len(sent["client"])
  BY <1>1 DEF TransportInv, InOrderAt, Delivered
<1>4. delivered["server"] # <<>> => sent["client"] # <<>>
  BY <1>2, <1>3, EmptySeq
<1>5. client \in {"idle", "connecting"} => delivered["server"] = <<>>
  BY <1>4 DEF Protocol, ClientSends
<1>6. Associated => sent["client"] # <<>> /\ pres["client"] = Contexts
  BY <1>4 DEF Protocol, ClientLearns, Associated, LayersOK
<1> QED BY <1>2, <1>4, <1>5, <1>6

\* Nothing of it is changed, or the connection breaks.
LEMMA QuietProtocol ==
  ASSUME Protocol, UNCHANGED <<pres, mms, open, client, server, password, maxPdu, sent, delivered>>,
         lost' = lost \/ lost' = TRUE
  PROVE  Protocol'
<1>1. LayersOK'
  BY DEF Protocol, LayersOK
<1>2. ClientSends'
  BY DEF Protocol, ClientSends
<1>3. ServerLearns'
  BY DEF Protocol, ServerLearns, Unasked, Agreed, Admissible, Authorized
<1>4. ClientLearns'
  BY DEF Protocol, ClientLearns, Admissible, Authorized, Trying, Associated
<1> QED BY <1>1, <1>2, <1>3, <1>4 DEF Protocol

\* A new connection.
LEMMA ConnectProtocol ==
  ASSUME TransportInv, Protocol, NEW pw \in Passwords, Connect(pw)
  PROVE  Protocol'
<1>1. "client" \in Ends /\ "server" \in Ends /\ "client" # "server"
  BY TwoEnds
<1>2. /\ sent' = [e \in Ends |-> <<>>] /\ delivered' = [e \in Ends |-> <<>>]
      /\ open' = [e \in Ends |-> TRUE] /\ client' = "connecting" /\ server' = "running"
      /\ password' = pw /\ maxPdu' = (IF maxPdu = -1 THEN ClientMaxPdu ELSE maxPdu)
      /\ pres' = [client |-> [acse |-> 1, mms |-> 3], server |-> NoContexts]
      /\ mms' = [mms EXCEPT !["server"] = NoParameters]
  BY DEF Connect
<1>3. /\ sent'["client"] = <<>> /\ sent'["server"] = <<>>
      /\ delivered'["client"] = <<>> /\ delivered'["server"] = <<>>
      /\ open'["client"] = TRUE /\ open'["server"] = TRUE
  BY <1>1, <1>2
<1>4. pres' \in [Ends -> {NoContexts, Contexts}] /\ pres'["client"] = Contexts /\ pres'["server"] = NoContexts
  BY <1>2 DEF Contexts, Ends
<1>5. mms' \in [Ends -> {NoParameters, Terms}] /\ mms'["server"] = NoParameters
      /\ mms'["client"] = mms["client"]
  BY <1>1, <1>2 DEF Protocol, LayersOK
<1>6. maxPdu' \in Offer
  BY <1>2 DEF Protocol, LayersOK, Offer
<1>7. LayersOK'
  BY <1>1, <1>2, <1>4, <1>5, <1>6 DEF LayersOK
<1>8. ClientSends'
  BY <1>2, <1>3 DEF ClientSends
<1>9. ServerLearns'
  BY <1>3, <1>4, <1>5 DEF ServerLearns, Unasked
<1>10. ClientLearns'
  BY <1>2, <1>3 DEF ClientLearns, Trying, Associated
<1> QED BY <1>7, <1>8, <1>9, <1>10 DEF Protocol

\* The associate request is sent.
LEMMA TransportConnectedProtocol ==
  ASSUME TransportInv, Protocol, TransportConnected
  PROVE  MessagesAreOctets' /\ Protocol'
<1>1. "client" \in Ends /\ "server" \in Ends /\ "client" # "server"
  BY TwoEnds
<1>2. PICK m : /\ m = Asking(password, maxPdu)
               /\ sent' = [sent EXCEPT !["client"] = Append(@, m)]
  BY DEF TransportConnected, Asking, Offered
<1>3. /\ client = "connecting" /\ client' = "associating"
      /\ UNCHANGED <<pres, mms, open, server, password, maxPdu, lost, delivered>>
  BY DEF TransportConnected
<1>4. maxPdu \in Offer /\ password \in Passwords
  BY <1>3 DEF Protocol, LayersOK
<1>5. m \in Octets
  BY <1>2, <1>4, AskingWith DEF AskedOf
<1>6. sent["client"] = <<>> /\ delivered["server"] = <<>>
  BY <1>3, SoFar DEF Protocol, ClientSends
<1>7. sent \in [Ends -> Seq(Octets)]
  BY DEF TransportInv, TransportTypeOK
<1>8. sent'["client"] = <<m>> /\ sent'["server"] = sent["server"]
  BY <1>1, <1>2, <1>6, <1>7
<1>9. MessagesAreOctets'
  <2>1. Append(sent["client"], m) \in Seq(Octets)
    BY <1>1, <1>5, <1>7
  <2> QED BY <1>2, <1>7, <2>1 DEF MessagesAreOctets
<1>10. PICK t : t = <<m>> /\ Len(t) = 1 /\ t[1] = m /\ t # <<>>
  <2>1. PICK t : t = <<m>>
    OBVIOUS
  <2>2. Len(t) = 1 /\ t[1] = m /\ t # <<>>
    BY <2>1
  <2> QED BY <2>1, <2>2
<1>11. LayersOK'
  BY <1>3 DEF Protocol, LayersOK
<1>12. ClientSends'
  <2>1. \A i \in 2 .. Len(t) : FALSE
    BY <1>10
  <2> QED BY <1>2, <1>3, <1>4, <1>8, <1>10, <2>1 DEF ClientSends
<1>13. ServerLearns'
  BY <1>3, <1>6, <1>8 DEF Protocol, ServerLearns, Unasked
<1>14. ClientLearns'
  BY <1>3, <1>6 DEF Protocol, ClientLearns, Trying, Associated
<1> QED BY <1>9, <1>11, <1>12, <1>13, <1>14 DEF Protocol

\* The client reads while it tries: what the server has sent first.
LEMMA AnswerArrives ==
  ASSUME TransportInv, Protocol, Trying, NEW k, k = Len(delivered["client"]) + 1,
         k <= Len(sent["server"])
  PROVE  /\ sent["server"][k] = Answer /\ delivered["server"] # <<>> /\ Admissible
<1>1. delivered["client"] = <<>>
  BY DEF Protocol, ClientLearns
<1>2. k = 1
  BY <1>1
<1>3. sent["server"] # <<>>
  <2>1. Len(sent["server"]) >= 1
    BY <1>2
  <2>2. Len(<<>>) = 0
    OBVIOUS
  <2> QED BY <2>1, <2>2
<1>4. ~Unasked
  BY <1>3 DEF Unasked
<1>5. delivered["server"] # <<>> /\ Admissible
  BY <1>4 DEF Protocol, ServerLearns
<1>6. Agreed
  BY <1>5 DEF Protocol, ServerLearns
<1> QED BY <1>2, <1>5, <1>6 DEF Agreed

\* The associate request is answered.
LEMMA AssociateAnsweredProtocol ==
  ASSUME TransportInv, Protocol, AssociateAnswered
  PROVE  Protocol'
<1>1. "client" \in Ends /\ "server" \in Ends /\ "client" # "server" /\ Other("client") = "server"
  BY TwoEnds
<1>2. PICK x : /\ x = Reading("client").end.payload
               /\ delivered' = [delivered EXCEPT !["client"] = Append(@, x)]
               /\ AnswerApdu(x) # <<>> =>
                    /\ client' = "associated"
                    /\ mms' = [mms EXCEPT !["client"] = AnswerParameters[AnswerPdu(AnswerApdu(x))]]
                    /\ maxPdu' = mms'["client"].maxPduSize
                    /\ UNCHANGED open
  BY DEF AssociateAnswered
<1>3. /\ client = "associating" /\ Readable("client") /\ Reading("client").indication = "DATA"
      /\ UNCHANGED <<pres, server, password, lost, sent>>
  BY DEF AssociateAnswered
<1>4. Trying /\ Reads("client")
  BY <1>3 DEF Trying, Reads
<1>5. PICK k : k = Len(delivered["client"]) + 1
  OBVIOUS
<1>6. k <= Len(sent["server"]) /\ x = sent["server"][k]
  BY <1>1, <1>2, <1>3, <1>4, <1>5, ReadingTpdu
<1>7. x = Answer /\ delivered["server"] # <<>> /\ Admissible
  BY <1>4, <1>5, <1>6, AnswerArrives
<1>8. AnswerApdu(x) # <<>> /\ AnswerParameters[AnswerPdu(AnswerApdu(x))] = Terms
  BY <1>7, AnswerIs DEF AnswerOf, Terms
<1>9. /\ client' = "associated" /\ mms' = [mms EXCEPT !["client"] = Terms]
      /\ maxPdu' = mms'["client"].maxPduSize /\ UNCHANGED open
  BY <1>2, <1>8
<1>10. mms' \in [Ends -> {NoParameters, Terms}] /\ mms'["client"] = Terms /\ mms'["server"] = mms["server"]
  BY <1>1, <1>9 DEF Protocol, LayersOK
<1>11. delivered'["server"] = delivered["server"]
  BY <1>1, <1>2 DEF TransportInv, TransportTypeOK
<1>12. LayersOK'
  <2>1. maxPdu' \in Offer
    BY <1>9, <1>10, TermsAre
  <2> QED BY <1>3, <1>9, <1>10, <2>1 DEF Protocol, LayersOK
<1>13. ClientSends'
  BY <1>3, <1>9 DEF Protocol, ClientSends
<1>14. ServerLearns'
  BY <1>3, <1>10, <1>11 DEF Protocol, ServerLearns, Unasked, Agreed, Admissible, Authorized
<1>15. ClientLearns'
  BY <1>3, <1>7, <1>9, <1>10, <1>11 DEF ClientLearns, Trying, Associated, Admissible, Authorized
<1> QED BY <1>12, <1>13, <1>14, <1>15 DEF Protocol

\* The connection ends before there is an answer.
LEMMA AssociateFailsProtocol ==
  ASSUME TransportInv, RoomInv, Protocol, AssociateFails
  PROVE  Protocol'
<1>1. "client" \in Ends /\ "server" \in Ends /\ "client" # "server" /\ Other("client") = "server"
  BY TwoEnds
<1>2. /\ client \in {"connecting", "associating"} /\ client' = "failed"
      /\ open' = [open EXCEPT !["client"] = FALSE]
      /\ UNCHANGED <<pres, mms, server, password, maxPdu, lost, sent, delivered>>
      /\ EndOfStream("client") \/ (Readable("client") /\ Reading("client").indication = "ERROR")
  BY DEF AssociateFails, ClientFails, layers
<1>3. Trying /\ Reads("client")
  BY <1>2 DEF Trying, Reads
<1>4. ~(Readable("client") /\ Reading("client").indication = "ERROR")
  <2> SUFFICES ASSUME Readable("client"), Reading("client").indication = "ERROR"
               PROVE  FALSE
    OBVIOUS
  <2>1. PICK k : k = Len(delivered["client"]) + 1
    OBVIOUS
  <2>2. k <= Len(sent["server"]) /\ Len(sent["server"][k]) > BufferSize
    BY <1>1, <1>3, <2>1, ErrorMeansLong
  <2>3. sent["server"][k] = Answer
    BY <1>3, <2>1, <2>2, AnswerArrives
  <2>4. Len(Answer) \in Nat /\ Len(Answer) <= 257
    BY AnswerIs, OctetsAre DEF AnswerOf
  <2> QED BY <2>2, <2>3, <2>4, ConstantsFit
<1>5. lost \/ ~open["server"]
  BY <1>1, <1>2, <1>4 DEF EndOfStream
<1>6. lost \/ (sent["client"] # <<>> /\ ~Admissible)
  BY <1>3, <1>5 DEF Protocol, ClientLearns
<1>7. \/ lost \/ ~Authorized
      \/ sent["client"] # <<>> /\ Len(sent["client"][1]) - 2 > 255
  <2>1. ASSUME sent["client"] # <<>> PROVE Len(sent["client"][1]) \in Nat
    <3>1. sent["client"] \in Seq(Octets)
      BY SoFar
    <3>2. sent["client"][1] \in Octets
      BY <2>1, <3>1
    <3> QED BY <3>2, OctetsAre
  <2> QED BY <1>6, <2>1 DEF Admissible
<1>8. LayersOK'
  BY <1>2 DEF Protocol, LayersOK
<1>9. ClientSends'
  BY <1>2 DEF Protocol, ClientSends
<1>10. ServerLearns'
  BY <1>2 DEF Protocol, ServerLearns, Unasked, Agreed, Admissible, Authorized
<1>11. ClientLearns'
  BY <1>2, <1>7 DEF ClientLearns, Trying, Associated, Authorized
<1> QED BY <1>8, <1>9, <1>10, <1>11 DEF Protocol

\* An associated client reads, or closes its side.
LEMMA ReadingProtocol ==
  ASSUME TransportInv, Protocol, Associated \/ client = "closed",
         client' = client \/ client' = "closed",
         delivered'["server"] = delivered["server"],
         UNCHANGED <<pres, mms, server, password, maxPdu, lost, sent>>
  PROVE  Protocol'
<1>1. ~Trying /\ ~Trying' /\ client' # "failed" /\ client # "idle" /\ (Associated' => Associated)
  BY DEF Trying, Associated
<1>2. LayersOK'
  BY <1>1 DEF Protocol, LayersOK
<1>3. ClientSends'
  BY <1>1 DEF Protocol, ClientSends, Trying, Associated
<1>4. ServerLearns'
  BY DEF Protocol, ServerLearns, Unasked, Agreed, Admissible, Authorized
<1>5. ClientLearns'
  BY <1>1 DEF Protocol, ClientLearns, Admissible, Authorized
<1> QED BY <1>2, <1>3, <1>4, <1>5 DEF Protocol

\* An associated client sends a message that is no connect SPDU.
LEMMA SendingProtocol ==
  ASSUME TransportInv, Protocol, Associated, Associated', NEW m, NoConnect(m),
         sent' = [sent EXCEPT !["client"] = Append(@, m)],
         UNCHANGED <<pres, mms, server, password, maxPdu, lost, delivered>>
  PROVE  MessagesAreOctets' /\ Protocol'
<1>1. "client" \in Ends /\ "server" \in Ends /\ "client" # "server"
  BY TwoEnds
<1>2. PICK S \in Seq(Octets) : S = sent["client"] /\ S # <<>>
  BY SoFar
<1>3. m \in Octets
  BY DEF NoConnect
<1>4. PICK T \in Seq(Octets) : T = Append(S, m)
  BY <1>3, AppendProperties
<1>5. sent' = [sent EXCEPT !["client"] = T] /\ sent \in [Ends -> Seq(Octets)]
  BY <1>2, <1>4 DEF TransportInv, TransportTypeOK
<1>6. MessagesAreOctets' /\ sent'["client"] = T /\ sent'["server"] = sent["server"]
  BY <1>1, <1>5 DEF MessagesAreOctets
<1>7. PICK n \in Nat : n = Len(S) /\ n # 0
  BY <1>2, EmptySeq
<1>8. Len(T) = n + 1 /\ T[n + 1] = m /\ \A i \in 1 .. n : T[i] = S[i]
  BY <1>4, <1>7
<1>9. T # <<>> /\ T[1] = S[1]
  <2>1. 1 \in 1 .. n
    BY <1>7
  <2>2. Len(<<>>) = 0
    OBVIOUS
  <2> QED BY <1>7, <1>8, <2>1, <2>2
<1>10. LayersOK'
  BY DEF Protocol, LayersOK, Associated
<1>11. ClientSends'
  <2>1. \A i \in 2 .. Len(T) : NoConnect(T[i])
    <3> TAKE i \in 2 .. Len(T)
    <3>1. CASE i = n + 1
      BY <3>1, <1>8
    <3>2. CASE i # n + 1
      <4>1. i \in 1 .. n /\ i \in 2 .. Len(S)
        BY <3>2, <1>7, <1>8
      <4>2. NoConnect(S[i])
        BY <4>1, <1>2 DEF Protocol, ClientSends
      <4> QED BY <4>1, <4>2, <1>8
    <3> QED BY <3>1, <3>2
  <2>2. \E q \in Offer : T[1] = Asking(password, q)
    BY <1>2, <1>9 DEF Protocol, ClientSends
  <2> QED BY <1>6, <2>1, <2>2 DEF ClientSends, Associated
<1>12. Admissible' = Admissible /\ Authorized' = Authorized
  BY <1>2, <1>6, <1>9 DEF Admissible, Authorized
<1>13. ServerLearns'
  BY <1>6, <1>12 DEF Protocol, ServerLearns, Unasked, Agreed
<1>14. ClientLearns'
  BY <1>12 DEF Protocol, ClientLearns, Associated, Trying
<1> QED BY <1>6, <1>10, <1>11, <1>13, <1>14 DEF Protocol

\* The server's thread ends.
LEMMA ServerSeesEndProtocol ==
  ASSUME TransportInv, RoomInv, Protocol, ServerSeesEnd
  PROVE  Protocol'
<1>1. /\ "client" \in Ends /\ "server" \in Ends /\ "client" # "server" /\ Other("server") = "client"
      /\ Reads("server")
  BY TwoEnds DEF Reads
<1>2. /\ server' = "stopped" /\ open' = [open EXCEPT !["server"] = FALSE]
      /\ UNCHANGED <<pres, mms, client, password, maxPdu, lost, sent, delivered>>
      /\ EndOfStream("server") \/ (Readable("server") /\ Reading("server").indication = "ERROR")
  BY DEF ServerSeesEnd, ServerStops, layers
<1>3. open'["client"] = open["client"]
  BY <1>1, <1>2 DEF TransportInv, TransportTypeOK
<1>4. Trying /\ ~lost => sent["client"] # <<>> /\ ~Admissible
  <2> SUFFICES ASSUME Trying, ~lost
               PROVE  sent["client"] # <<>> /\ ~Admissible
    OBVIOUS
  <2>1. open["client"]
    BY DEF Protocol, ClientLearns
  <2>2. Readable("server") /\ Reading("server").indication = "ERROR"
    BY <1>1, <1>2, <2>1 DEF EndOfStream
  <2>3. PICK k : k = Len(delivered["server"]) + 1
    OBVIOUS
  <2>4. k <= Len(sent["client"]) /\ Len(sent["client"][k]) > BufferSize
    BY <1>1, <2>2, <2>3, ErrorMeansLong
  <2>5. Len(sent["client"]) <= 1 /\ k \in Nat /\ k >= 1
    <3>1. Len(<<>>) = 0
      OBVIOUS
    <3>2. Len(sent["client"]) <= 1
      BY <3>1 DEF Protocol, ClientSends, Trying
    <3>3. Len(delivered["server"]) \in Nat
      BY SoFar
    <3> QED BY <2>3, <3>2, <3>3
  <2>6. k = 1 /\ sent["client"] # <<>> /\ sent["client"][1] \in Octets
    <3>1. PICK S \in Seq(Octets) : S = sent["client"]
      BY SoFar
    <3>2. PICK n \in Nat : n = Len(S)
      OBVIOUS
    <3>3. k <= n /\ n <= 1 /\ k \in Nat /\ k >= 1
      BY <2>4, <2>5, <3>1, <3>2
    <3>4. k = 1 /\ n = 1
      BY <3>3
    <3>5. S[1] \in Octets /\ S # <<>>
      <4>1. Len(<<>>) = 0
        OBVIOUS
      <4>2. 1 \in 1 .. Len(S)
        BY <3>2, <3>4
      <4>3. S[1] \in Octets
        BY <4>2, ElementOfSeq
      <4>4. S # <<>>
        BY <4>2, EmptySeq
      <4> QED BY <4>3, <4>4
    <3> QED BY <3>1, <3>4, <3>5
  <2>7. Len(sent["client"][1]) \in Nat
    BY <2>6, OctetsAre
  <2>8. ~(Len(sent["client"][1]) - 2 <= 255)
    BY <2>4, <2>6, <2>7, ConstantsFit
  <2> QED BY <2>6, <2>8 DEF Admissible
<1>5. LayersOK'
  BY <1>2 DEF Protocol, LayersOK
<1>6. ClientSends'
  BY <1>2 DEF Protocol, ClientSends
<1>7. ServerLearns'
  BY <1>2 DEF Protocol, ServerLearns, Unasked, Agreed, Admissible, Authorized
<1>8. ClientLearns'
  BY <1>2, <1>3, <1>4 DEF Protocol, ClientLearns, Trying, Associated, Admissible, Authorized
<1> QED BY <1>5, <1>6, <1>7, <1>8 DEF Protocol

\* What the server makes of a message.
Outcome(message, n) ==
  LET s == ParseSpdu(message)
      p == ServerPpdu(s)
  IN Handled(s, p, AuthenticateClient(ServerApdu(s, p)), n)

\* A message that is not admitted.
LEMMA RefusedOutcome ==
  ASSUME NEW m, NEW pw, NEW q, AskedOf(m, pw, q), NEW n,
         ~(Len(m) - 2 <= 255 /\ (SecretPassword = <<>> \/ pw = SecretPassword))
  PROVE  Outcome(m, n) = Stop
<1>1. PICK s : s = ParseSpdu(m)
  OBVIOUS
<1>2. PICK p : p = ServerPpdu(s)
  OBVIOUS
<1>3. PICK a : a = ServerApdu(s, p)
  OBVIOUS
<1>4. Outcome(m, n) = Handled(s, p, AuthenticateClient(a), n)
  BY <1>1, <1>2, <1>3 DEF Outcome
<1>5. CASE ~(Len(m) - 2 <= 255)
  <2>1. Len(m) \in Nat
    BY OctetsAre DEF AskedOf
  <2>2. Len(m) - 2 > 255
    BY <1>5, <2>1
  <2>3. s.indication = "SESSION_ERROR"
    BY <1>1, <2>2 DEF AskedOf
  <2> QED BY <1>4, <2>3 DEF Handled
<1>6. CASE Len(m) - 2 <= 255
  <2>1. /\ s.indication = "SESSION_CONNECT" /\ p.ok /\ a.indication = "ACSE_ASSOCIATE"
        /\ ~Accepts(a)
    BY <1>1, <1>2, <1>3, <1>6 DEF AskedOf
  <2>2. AuthenticateClient(a) = AcseFailed
    BY <2>1 DEF AuthenticateClient
  <2>3. AcseFailed.indication # "ACSE_ASSOCIATE"
    BY DEF AcseFailed
  <2>4. HandleConnect(p, AcseFailed) = Stop
    BY <2>1, <2>3 DEF HandleConnect
  <2> QED BY <1>4, <2>1, <2>2, <2>4 DEF Handled
<1> QED BY <1>5, <1>6

\* A message that is.
LEMMA AdmittedOutcome ==
  ASSUME NEW m, NEW pw, NEW q \in Offer, AskedOf(m, pw, q), NEW n, Len(m) - 2 <= 255,
         SecretPassword = <<>> \/ pw = SecretPassword
  PROVE  Outcome(m, n) = [reply |-> <<Answer>>, go |-> TRUE, pres |-> Contexts, mms |-> Terms]
<1>1. PICK s : s = ParseSpdu(m)
  OBVIOUS
<1>2. PICK p : p = ServerPpdu(s)
  OBVIOUS
<1>3. PICK a : a = ServerApdu(s, p)
  OBVIOUS
<1>4. Outcome(m, n) = Handled(s, p, AuthenticateClient(a), n)
  BY <1>1, <1>2, <1>3 DEF Outcome
<1>5. /\ s.indication = "SESSION_CONNECT" /\ p.ok /\ p.acseContextId = 1 /\ p.mmsContextId = 3
      /\ a.indication = "ACSE_ASSOCIATE" /\ a.nextReference = DecodeUint32(<<3>>)
      /\ NegotiatedBy[a.userData] = Settling(Offered(q)) /\ Accepts(a)
  BY <1>1, <1>2, <1>3 DEF AskedOf
<1>6. AuthenticateClient(a) = a
  BY <1>5 DEF AuthenticateClient
<1>7. Outcome(m, n) = HandleConnect(p, a)
  BY <1>4, <1>5, <1>6 DEF Handled
<1>8. Outcome(m, n) = Accepted(p, a, Terms)
  <2>1. NegotiatedBy[a.userData] = Terms
    BY <1>5, OfferIs
  <2> QED BY <1>5, <1>7, <2>1 DEF HandleConnect
<1>9. Answer = AcceptMessage(p.acseContextId, a.nextReference, InitiateResponse[Terms])
  BY <1>5 DEF Answer, Answering, Terms
<1> QED BY <1>5, <1>8, <1>9 DEF Accepted, Contexts

\* A message that is no connect SPDU.
LEMMA OtherOutcome ==
  ASSUME LayersOK, NEW m, NoConnect(m), NEW n \in PduLengths, sent["server"] \in Seq(Octets)
  PROVE  LET h == Outcome(m, n) IN
         /\ h.pres = pres["server"] /\ h.mms = mms["server"]
         /\ h.reply = <<>> \/ \E x \in Octets : h.reply = <<x>>
<1>1. PICK s : s = ParseSpdu(m) /\ s.indication # "SESSION_CONNECT"
  BY DEF NoConnect
<1>2. PICK p : p = ServerPpdu(s)
  OBVIOUS
<1>3. PICK h : h = Outcome(m, n)
  OBVIOUS
<1>4. \/ h = HandleData(p, n)
      \/ h = HandleFinish(p)
      \/ h = Stop
  BY <1>1, <1>2, <1>3 DEF Outcome, Handled
<1>5. PICK c : c = pres["server"] /\ c.acse \in Octet /\ c.mms \in Octet
  <2>1. NoContexts.acse \in Octet /\ NoContexts.mms \in Octet
    BY DEF NoContexts, Octet
  <2> QED BY <2>1, ContextsAre DEF LayersOK
<1>6. n \in Nat /\ RoomFor(n)
  BY ConstantsFit
<1>7. PICK x : x = DataMessage(c.mms, Pdu("server", Len(sent["server"]), n)) /\ x \in Octets
  <2>1. Len(sent["server"]) \in Nat
    OBVIOUS
  <2>2. Measures(Pdu("server", Len(sent["server"]), n), n)
    BY <1>6, <2>1, PduIs
  <2> QED BY <1>5, <1>6, <2>2, DataMessageIs DEF NoConnect
<1>8. PICK y : y = ReleaseAnswer(c.acse) /\ y \in Octets
  BY <1>5, ReleaseAnswerIs DEF NoConnect
<1>9. CASE h = Stop
  BY <1>3, <1>9 DEF Stop
<1>10. CASE h = HandleFinish(p)
  <2>1. h = Stop \/ h = [Stop EXCEPT !.reply = <<y>>]
    BY <1>5, <1>8, <1>10 DEF HandleFinish
  <2>2. CASE h = [Stop EXCEPT !.reply = <<y>>]
    BY <1>3, <1>8, <2>2 DEF Stop
  <2> QED BY <1>9, <2>1, <2>2
<1>11. CASE h = HandleData(p, n)
  <2>1. h = Stop \/ h = [Proceed EXCEPT !.reply = <<x>>] \/ h = [Proceed EXCEPT !.reply = <<>>]
    BY <1>5, <1>7, <1>11 DEF HandleData
  <2>2. CASE h = [Proceed EXCEPT !.reply = <<x>>]
    BY <1>3, <1>7, <2>2 DEF Proceed
  <2>3. CASE h = [Proceed EXCEPT !.reply = <<>>]
    BY <1>3, <2>3 DEF Proceed
  <2> QED BY <1>9, <2>1, <2>2, <2>3
<1> QED BY <1>4, <1>9, <1>10, <1>11

\* The server reads a message.
LEMMA ServerReceivesProtocol ==
  ASSUME TransportInv, Protocol, NEW n \in PduLengths, ServerReceives(n)
  PROVE  MessagesAreOctets' /\ Protocol'
<1>1. /\ "client" \in Ends /\ "server" \in Ends /\ "client" # "server"
      /\ Other("client") = "server" /\ Other("server") = "client"
  BY TwoEnds
<1> DEFINE Handles(message, end, h) ==
        /\ cotp' = [cotp EXCEPT !["server"] = end]
        /\ delivered' = [delivered EXCEPT !["server"] = Append(@, message)]
        /\ pres' = [pres EXCEPT !["server"] = h.pres]
        /\ mms' = [mms EXCEPT !["server"] = h.mms]
        /\ sent' = [sent EXCEPT !["server"] = @ \o h.reply]
        /\ wire' = [server |-> Tail(wire["server"]),
                    client |-> IF open["client"] /\ ~lost /\ h.reply # <<>>
                               THEN wire["client"] \o Segments(end, h.reply[1])
                               ELSE wire["client"]]
        /\ IF h.go THEN UNCHANGED <<server, open>> ELSE ServerStops
<1>e. \E message \in {Reading("server").end.payload} :
      \E end \in {Cleared(Reading("server").end)}, s \in {ParseSpdu(message)} :
      \E p \in {ServerPpdu(s)} : \E a \in {ServerApdu(s, p)} :
      \E h \in {Handled(s, p, AuthenticateClient(a), n)} : Handles(message, end, h)
  BY DEF ServerReceives
<1> HIDE DEF Handles
<1>p. PICK message, end, h :
        /\ message = Reading("server").end.payload /\ end = Cleared(Reading("server").end)
        /\ h = Outcome(message, n) /\ Handles(message, end, h)
  BY <1>e DEF Outcome
<1>2. /\ delivered' = [delivered EXCEPT !["server"] = Append(@, message)]
      /\ pres' = [pres EXCEPT !["server"] = h.pres]
      /\ mms' = [mms EXCEPT !["server"] = h.mms]
      /\ sent' = [sent EXCEPT !["server"] = @ \o h.reply]
      /\ h.go => UNCHANGED <<server, open>>
      /\ ~h.go => server' = "stopped" /\ open' = [open EXCEPT !["server"] = FALSE]
  BY <1>p DEF Handles, ServerStops
<1>3. /\ Readable("server") /\ Reading("server").indication = "DATA" /\ Reads("server")
      /\ server = "running" /\ UNCHANGED <<lost, client, password, maxPdu>>
  BY DEF ServerReceives, Reads
<1>4. PICK d \in Seq(Octets) : d = delivered["server"]
  BY SoFar
<1>5. PICK C \in Seq(Octets) : C = sent["client"]
  BY SoFar
<1>6. PICK S \in Seq(Octets) : S = sent["server"]
  BY SoFar
<1>7. PICK k \in Nat : k = Len(d) + 1
  OBVIOUS
<1>8. k <= Len(C) /\ message = C[k]
  BY <1>1, <1>3, <1>4, <1>5, <1>7, <1>p, ReadingTpdu
<1>9. /\ delivered'["client"] = delivered["client"] /\ delivered'["server"] = Append(d, message)
      /\ pres'["client"] = pres["client"] /\ pres'["server"] = h.pres
      /\ mms'["client"] = mms["client"] /\ mms'["server"] = h.mms
      /\ sent'["client"] = C /\ sent'["server"] = S \o h.reply
      /\ open'["client"] = open["client"]
  BY <1>1, <1>2, <1>4, <1>5, <1>6 DEF Protocol, LayersOK, TransportInv, TransportTypeOK
<1>10. Append(d, message) # <<>>
  OBVIOUS
<1>11. C # <<>> /\ 1 \in 1 .. Len(C) /\ C[1] \in Octets
  <2>1. 1 \in 1 .. Len(C)
    BY <1>7, <1>8
  <2>2. C[1] \in Octets
    BY <2>1, ElementOfSeq
  <2>3. C # <<>>
    BY <2>1, EmptySeq
  <2> QED BY <2>1, <2>2, <2>3
<1>12. Admissible' = Admissible /\ Authorized' = Authorized
  BY <1>3, <1>5, <1>9 DEF Admissible, Authorized
<1>13. PICK q \in Offer : C[1] = Asking(password, q)
  BY <1>5, <1>11 DEF Protocol, ClientSends
<1>14. client # "idle"
  BY <1>5, <1>11 DEF Protocol, ClientSends
<1>15. password \in Passwords
  BY <1>14 DEF Protocol, LayersOK
<1>16. AskedOf(C[1], password, q)
  BY <1>13, <1>15, AskingWith
\* What the message does.
<1>17. \/ d = <<>> /\ ~Admissible /\ h = Stop
       \/ d = <<>> /\ Admissible /\ h = [reply |-> <<Answer>>, go |-> TRUE, pres |-> Contexts, mms |-> Terms]
       \/ /\ d # <<>> /\ Admissible /\ Agreed /\ h.pres = pres["server"] /\ h.mms = mms["server"]
          /\ h.reply = <<>> \/ \E x \in Octets : h.reply = <<x>>
          /\ ~Trying
  <2>1. CASE d = <<>>
    <3>1. message = C[1]
      BY <2>1, <1>7, <1>8
    <3>2. CASE ~Admissible
      <4>1. h = Stop
        BY <3>1, <3>2, <1>5, <1>16, <1>p, RefusedOutcome DEF Admissible, Authorized
      <4> QED BY <2>1, <3>2, <4>1
    <3>3. CASE Admissible
      <4>1. Len(C[1]) - 2 <= 255 /\ (SecretPassword = <<>> \/ password = SecretPassword)
        BY <3>3, <1>5 DEF Admissible, Authorized
      <4>2. h = [reply |-> <<Answer>>, go |-> TRUE, pres |-> Contexts, mms |-> Terms]
        BY <3>1, <4>1, <1>16, <1>p, AdmittedOutcome
      <4> QED BY <2>1, <3>3, <4>2
    <3> QED BY <3>2, <3>3
  <2>2. CASE d # <<>>
    <3>1. Admissible /\ Agreed
      BY <2>2, <1>3, <1>4 DEF Protocol, ServerLearns
    <3>2. Len(d) # 0
      BY <2>2, EmptySeq
    <3>3. k \in 2 .. Len(C)
      BY <3>2, <1>7, <1>8
    <3>4. NoConnect(message)
      BY <3>3, <1>5, <1>8 DEF Protocol, ClientSends
    <3>5. /\ h.pres = pres["server"] /\ h.mms = mms["server"]
          /\ h.reply = <<>> \/ \E x \in Octets : h.reply = <<x>>
      BY <3>4, <1>6, <1>p, OtherOutcome DEF Protocol
    <3>6. ~Trying
      <4>1. Len(C) # 1 /\ Len(C) # 0
        <5>1. PICK c \in Nat : c = Len(C)
          OBVIOUS
        <5>2. k \in 2 .. c
          BY <3>3, <5>1
        <5>3. c # 1 /\ c # 0
          BY <5>2
        <5> QED BY <5>1, <5>3
      <4> QED BY <4>1, <1>5, EmptySeq DEF Protocol, ClientSends, Trying
    <3> QED BY <2>2, <3>1, <3>5, <3>6
  <2> QED BY <2>1, <2>2
<1>18. h.reply = <<>> \/ \E x \in Octets : h.reply = <<x>>
  <2>1. Answer \in Octets
    BY AnswerIs DEF AnswerOf
  <2> QED BY <2>1, <1>17 DEF Stop
<1>19. PICK T \in Seq(Octets) : /\ T = S \o h.reply
                                /\ h.reply = <<>> => T = S
                                /\ S # <<>> => T # <<>> /\ T[1] = S[1]
  <2>1. CASE h.reply = <<>>
    <3>1. S \o h.reply = S
      BY <2>1
    <3> QED BY <2>1, <3>1
  <2>2. ASSUME NEW x \in Octets, h.reply = <<x>>
        PROVE  \E T \in Seq(Octets) : /\ T = S \o h.reply
                                      /\ h.reply = <<>> => T = S
                                      /\ S # <<>> => T # <<>> /\ T[1] = S[1]
    <3>1. S \o <<x>> = Append(S, x)
      OBVIOUS
    <3>2. PICK T \in Seq(Octets) : T = Append(S, x)
      BY AppendProperties
    <3>3. T # <<>> /\ h.reply # <<>>
      BY <2>2, <3>2
    <3>4. S # <<>> => T[1] = S[1]
      BY <3>2
    <3> QED BY <2>2, <3>1, <3>2, <3>3, <3>4
  <2> QED BY <2>1, <2>2, <1>18
<1>20. MessagesAreOctets'
  <2>1. sent' = [sent EXCEPT !["server"] = T]
    BY <1>2, <1>6, <1>19
  <2> QED BY <2>1 DEF MessagesAreOctets, TransportInv, TransportTypeOK
<1>21. LayersOK'
  <2>1. h.pres \in {NoContexts, Contexts} /\ h.mms \in {NoParameters, Terms}
    BY <1>17 DEF Stop, Protocol, LayersOK
  <2>2. pres' \in [Ends -> {NoContexts, Contexts}] /\ mms' \in [Ends -> {NoParameters, Terms}]
    BY <2>1, <1>2 DEF Protocol, LayersOK
  <2> QED BY <2>1, <2>2, <1>3, <1>9 DEF Protocol, LayersOK
<1>22. ClientSends'
  BY <1>3, <1>5, <1>9 DEF Protocol, ClientSends
<1>23. ServerLearns'
  <2>1. CASE d = <<>> /\ ~Admissible /\ h = Stop
    <3>1. Unasked
      BY <2>1, <1>4 DEF Protocol, ServerLearns
    <3>2. /\ h.pres = pres["server"] /\ h.mms = mms["server"] /\ h.reply = <<>> /\ ~h.go
      BY <2>1 DEF Stop
    <3>3. Unasked' /\ server' = "stopped"
      BY <3>1, <3>2, <1>2, <1>6, <1>9, <1>19 DEF Unasked
    <3> QED BY <2>1, <3>3, <1>9, <1>10, <1>12 DEF ServerLearns
  <2>2. CASE d = <<>> /\ Admissible /\ h = [reply |-> <<Answer>>, go |-> TRUE, pres |-> Contexts, mms |-> Terms]
    <3>1. h.pres = Contexts /\ h.mms = Terms /\ h.reply = <<Answer>>
      BY <2>2
    <3>2. S = <<>>
      BY <2>2, <1>4, <1>6 DEF Protocol, ServerLearns, Unasked
    <3>3. sent'["server"] = <<Answer>>
      BY <3>1, <3>2, <1>9
    <3>4. Agreed'
      BY <3>1, <3>3, <1>9 DEF Agreed
    <3> QED BY <2>2, <3>4, <1>9, <1>10, <1>12 DEF ServerLearns
  <2>3. CASE d # <<>> /\ Admissible /\ Agreed /\ h.pres = pres["server"] /\ h.mms = mms["server"]
    <3>1. Agreed'
      BY <2>3, <1>6, <1>9, <1>19 DEF Agreed
    <3> QED BY <2>3, <3>1, <1>9, <1>10, <1>12 DEF ServerLearns
  <2> QED BY <2>1, <2>2, <2>3, <1>17
<1>24. ClientLearns'
  <2>1. Trying /\ ~lost /\ ~open'["server"] => sent["client"] # <<>> /\ ~Admissible
    <3>1. CASE ~open["server"]
      BY <3>1 DEF Protocol, ClientLearns
    <3>2. CASE open["server"]
      <4>1. h.go => open'["server"]
        BY <3>2, <1>2
      <4>2. h.go \/ ~Admissible \/ ~Trying
        BY <1>17
      <4> QED BY <4>1, <4>2, <1>5, <1>11
    <3> QED BY <3>1, <3>2
  <2> QED BY <2>1, <1>3, <1>5, <1>9, <1>10, <1>12 DEF Protocol, ClientLearns, Trying, Associated
<1> QED BY <1>20, <1>21, <1>22, <1>23, <1>24 DEF Protocol

-----------------------------------------------------------------------------
\* Every step sends octets and keeps the invariant.
LEMMA NextProtocol ==
  ASSUME TransportInv, ProtocolInv, [AssociationNext]_associationVars
  PROVE  MessagesAreOctets' /\ ProtocolInv'
<1>1. /\ "client" \in Ends /\ "server" \in Ends /\ "client" # "server"
      /\ RoomInv /\ Protocol
  BY TwoEnds DEF ProtocolInv
<1>2. RoomInv'
  BY <1>1, NextRoom
<1> SUFFICES MessagesAreOctets' /\ Protocol'
  BY <1>2 DEF ProtocolInv
<1>3. ASSUME sent' = sent PROVE MessagesAreOctets'
  BY <1>3 DEF MessagesAreOctets, TransportInv, TransportTypeOK
<1>4. ASSUME NEW pw \in Passwords, Connect(pw) PROVE MessagesAreOctets' /\ Protocol'
  <2>1. sent' = [e \in Ends |-> <<>>]
    BY <1>4 DEF Connect
  <2>2. MessagesAreOctets'
    BY <2>1, EmptySeq DEF MessagesAreOctets
  <2> QED BY <2>2, <1>1, <1>4, ConnectProtocol
<1>5. ASSUME UNCHANGED <<pres, mms, open, client, server, password, maxPdu, sent, delivered>>,
             lost' = lost \/ lost' = TRUE
      PROVE  MessagesAreOctets' /\ Protocol'
  BY <1>1, <1>3, <1>5, QuietProtocol
<1>6. ASSUME NEW e \in Ends, ReadMore(e) PROVE MessagesAreOctets' /\ Protocol'
  BY <1>5, <1>6 DEF ReadMore
<1>7. CASE ServerConnected
  BY <1>5, <1>7 DEF ServerConnected
<1>8. CASE Break
  BY <1>5, <1>8 DEF Break, layers
<1>9. CASE UNCHANGED associationVars
  BY <1>5, <1>9 DEF associationVars, layers
<1>10. CASE TransportConnected
  BY <1>1, <1>10, TransportConnectedProtocol
<1>11. CASE AssociateAnswered
  <2>1. sent' = sent
    BY <1>11 DEF AssociateAnswered
  <2> QED BY <2>1, <1>1, <1>3, <1>11, AssociateAnsweredProtocol
<1>12. CASE AssociateFails
  <2>1. sent' = sent
    BY <1>12 DEF AssociateFails
  <2> QED BY <2>1, <1>1, <1>3, <1>12, AssociateFailsProtocol
<1>13. CASE ServerSeesEnd
  <2>1. sent' = sent
    BY <1>13 DEF ServerSeesEnd
  <2> QED BY <2>1, <1>1, <1>3, <1>13, ServerSeesEndProtocol
<1>14. ASSUME NEW n \in PduLengths, ServerReceives(n) PROVE MessagesAreOctets' /\ Protocol'
  BY <1>1, <1>14, ServerReceivesProtocol
<1>15. CASE ClientReceives
  <2>1. /\ Associated /\ UNCHANGED <<pres, mms, server, password, maxPdu, lost, sent>>
        /\ client' = client \/ client' = "closed"
        /\ delivered' = delivered \/ \E x : delivered' = [delivered EXCEPT !["client"] = x]
    BY <1>15 DEF ClientReceives, Associated
  <2>2. delivered'["server"] = delivered["server"]
    BY <2>1, <1>1 DEF TransportInv, TransportTypeOK
  <2> QED BY <2>1, <2>2, <1>1, <1>3, ReadingProtocol
<1>16. CASE ClientSeesEnd
  <2>1. /\ Associated /\ UNCHANGED <<pres, mms, server, password, maxPdu, lost, sent, delivered>>
        /\ client' = "closed"
    BY <1>16 DEF ClientSeesEnd, Associated, layers
  <2> QED BY <2>1, <1>1, <1>3, ReadingProtocol
<1>17. CASE Close
  <2>1. /\ client = "closed" /\ UNCHANGED <<pres, mms, server, password, maxPdu, lost, sent, delivered, client>>
    BY <1>17 DEF Close, layers
  <2> QED BY <2>1, <1>1, <1>3, ReadingProtocol
<1>18. ASSUME NEW n \in PduLengths, Request(n) PROVE MessagesAreOctets' /\ Protocol'
  <2>1. PICK m : /\ m = DataMessage(pres["client"].mms, Pdu("client", Len(sent["client"]), n))
                 /\ sent' = [sent EXCEPT !["client"] = Append(@, m)]
    BY <1>18 DEF Request, SendMessage
  <2>2. /\ Associated /\ Associated'
        /\ UNCHANGED <<pres, mms, server, password, maxPdu, lost, delivered>>
    BY <1>18 DEF Request, Associated, layers
  <2>3. NoConnect(m)
    <3>1. pres["client"].mms \in Octet /\ Len(sent["client"]) \in Nat
      <4>1. pres["client"] = Contexts /\ sent["client"] \in Seq(Octets)
        BY <2>2, <1>1, SoFar
      <4> QED BY <4>1, ContextsAre
    <3>2. n \in Nat /\ RoomFor(n)
      BY ConstantsFit
    <3>3. Measures(Pdu("client", Len(sent["client"]), n), n)
      BY <3>1, <3>2, PduIs
    <3> QED BY <2>1, <3>1, <3>2, <3>3, DataMessageIs
  <2> QED BY <2>1, <2>2, <2>3, <1>1, SendingProtocol
<1>19. CASE Release
  <2>1. PICK m : /\ m = ReleaseMessage(pres["client"].acse)
                 /\ sent' = [sent EXCEPT !["client"] = Append(@, m)]
    BY <1>19 DEF Release, SendMessage
  <2>2. /\ Associated /\ Associated'
        /\ UNCHANGED <<pres, mms, server, password, maxPdu, lost, delivered>>
    BY <1>19 DEF Release, Associated, layers
  <2>3. NoConnect(m)
    BY <2>1, <2>2, <1>1, SoFar, ContextsAre, ReleaseIs
  <2> QED BY <2>1, <2>2, <2>3, <1>1, SendingProtocol
<1>20. CASE Abort
  <2>1. PICK m : /\ m = AbortMessage(pres["client"].acse)
                 /\ sent' = [sent EXCEPT !["client"] = Append(@, m)]
    BY <1>20 DEF Abort, SendMessage
  <2>2. /\ Associated /\ Associated'
        /\ UNCHANGED <<pres, mms, server, password, maxPdu, lost, delivered>>
    BY <1>20 DEF Abort, Associated, layers
  <2>3. NoConnect(m)
    BY <2>1, <2>2, <1>1, SoFar, ContextsAre, AbortIs
  <2> QED BY <2>1, <2>2, <2>3, <1>1, SendingProtocol
<1> QED
  BY <1>4, <1>6, <1>7, <1>8, <1>9, <1>10, <1>11, <1>12, <1>13, <1>14, <1>15, <1>16, <1>17, <1>18,
     <1>19, <1>20 DEF AssociationNext, ClientStep, ServerStep

\* The initial states satisfy it.
LEMMA InitProtocol == AssociationInit => ProtocolInv
<1> SUFFICES ASSUME AssociationInit PROVE ProtocolInv
  OBVIOUS
<1>1. "client" \in Ends /\ "server" \in Ends /\ "client" # "server"
  BY TwoEnds
<1>2. /\ open = [e \in Ends |-> FALSE] /\ client = "idle"
      /\ pres = [e \in Ends |-> NoContexts] /\ mms = [e \in Ends |-> NoParameters]
      /\ maxPdu = -1 /\ sent = [e \in Ends |-> <<>>] /\ delivered = [e \in Ends |-> <<>>]
  BY DEF AssociationInit
<1>3. RoomInv
  BY DEF AssociationInit, CotpInit, RoomInv
<1>4. LayersOK
  BY <1>1, <1>2 DEF LayersOK
<1>5. ClientSends
  BY <1>1, <1>2 DEF ClientSends
<1>6. ServerLearns
  BY <1>1, <1>2 DEF ServerLearns, Unasked
<1>7. ClientLearns
  BY <1>2 DEF ClientLearns, Trying, Associated
<1> QED BY <1>3, <1>4, <1>5, <1>6, <1>7 DEF ProtocolInv, Protocol

\* The invariants of the transport and of the protocol, together.
AssociationInv == TransportInv /\ AgreeInv /\ ProtocolInv

(* The three invariants hold in the initial states, every step keeps them, *)
(* and every step is one of MessageStream.                                 *)
LEMMA AssociationKeeps ==
  /\ AssociationInit => AssociationInv /\ Stream!Init
  /\ AssociationInv /\ [AssociationNext]_associationVars
       => AssociationInv' /\ [Stream!Next]_<<sent, delivered>>
<1>1. AssociationInit => AssociationInv /\ Stream!Init
  BY InitTransport, InitAgrees, InitProtocol DEF AssociationInv
<1>2. AssociationInv /\ [AssociationNext]_associationVars
        => AssociationInv' /\ [Stream!Next]_<<sent, delivered>>
  BY NextTransport, NextAgrees, NextProtocol DEF AssociationInv, StreamStep
<1> QED BY <1>1, <1>2

\* The invariant is more than what is promised.
LEMMA InvEndsAgree == AssociationInv => EndsAgree
<1> SUFFICES ASSUME AssociationInv PROVE EndsAgree
  OBVIOUS
<1>1. TransportAgreed
  BY AgreeInvImplies DEF AssociationInv
<1>2. ASSUME Associated
      PROVE  /\ pres["client"] = pres["server"] /\ mms["client"] = mms["server"]
             /\ mms["client"].maxPduSize <= Least(ClientMaxPdu, ServerMaxPdu)
  <2>1. mms["client"] = Terms /\ delivered["server"] # <<>> /\ Admissible
    BY <1>2 DEF AssociationInv, ProtocolInv, Protocol, ClientLearns
  <2>2. pres["server"] = Contexts /\ mms["server"] = Terms
    BY <2>1 DEF AssociationInv, ProtocolInv, Protocol, ServerLearns, Agreed
  <2>3. pres["client"] = Contexts
    BY <1>2 DEF AssociationInv, ProtocolInv, Protocol, LayersOK, Associated
  <2>4. PICK n \in Nat : n = Terms.maxPduSize /\ n = Least(ClientMaxPdu, ServerMaxPdu)
    BY TermsAre, OfferIs
  <2> QED BY <2>1, <2>2, <2>3, <2>4
<1> QED BY <1>1, <1>2 DEF EndsAgree, Associated

\* And this too.
LEMMA InvAuthenticated == AssociationInv => Authenticated
<1> SUFFICES ASSUME AssociationInv PROVE Authenticated
  OBVIOUS
<1>1. mms["server"] # NoParameters => Authorized
  BY DEF AssociationInv, ProtocolInv, Protocol, ServerLearns, Unasked, Admissible
<1>2. client = "failed" => \/ lost \/ ~Authorized
                           \/ sent["client"] # <<>> /\ Len(sent["client"][1]) - 2 > 255
  BY DEF AssociationInv, ProtocolInv, Protocol, ClientLearns
<1> QED BY <1>1, <1>2 DEF Authenticated, Authorized

(***************************************************************************)
(* The transport implements MessageStream: whatever TPDU sizes the two     *)
(* builds have and negotiate, however long the messages are, wherever the  *)
(* connection breaks and however often the client tries again, what an end *)
(* of CotpConnection_sendDataMessage sends is what the other end's         *)
(* CotpConnection_parseIncomingMessage delivers, whole, unchanged, once    *)
(* and in order.                                                           *)
(***************************************************************************)
THEOREM TransportInOrder == AssociationSpec => MessagesArriveInOrder
BY AssociationKeeps, PTL DEF AssociationSpec, MessagesArriveInOrder, Stream!Spec

(***************************************************************************)
(* The negotiation of the transport connection comes to the same at both   *)
(* ends, whatever COTP_MAX_TPDU_SIZE their builds have: an associated      *)
(* client and its server use one TPDU size that is within the limits of    *)
(* both, one pair of references and of selectors, and no data TPDU under   *)
(* way is longer than that size.                                           *)
(***************************************************************************)
THEOREM TransportNegotiated == AssociationSpec => []TransportAgreed
<1>1. AssociationInv => TransportAgreed
  BY AgreeInvImplies DEF AssociationInv
<1> QED BY <1>1, AssociationKeeps, PTL DEF AssociationSpec

(***************************************************************************)
(* An associated client and its server hold the same presentation contexts *)
(* and the same MMS parameters, with a PDU size that neither of them       *)
(* exceeds, besides what they agree on in the transport: each of the five  *)
(* layers decodes the request and the answer into what the other end       *)
(* encoded, for every password, title, selector and size of the            *)
(* assumptions.                                                            *)
(***************************************************************************)
THEOREM AssociationAgreed == AssociationSpec => []EndsAgree
BY AssociationKeeps, InvEndsAgree, PTL DEF AssociationSpec

(***************************************************************************)
(* A server with a password has the parameters of no client that did not   *)
(* send that password, and a client whose connect PDU fits fails for no    *)
(* other reason than a lost connection or its password.                    *)
(***************************************************************************)
THEOREM AssociationAuthenticated == AssociationSpec => []Authenticated
BY AssociationKeeps, InvAuthenticated, PTL DEF AssociationSpec

-----------------------------------------------------------------------------
(***************************************************************************)
(* GOOSE, for any intervals, any number of retransmissions and any number  *)
(* of changes, enablings and writes.                                       *)
(***************************************************************************)
(* The publisher there is was created last; an enabled block has one, and  *)
(* a disabled block keeps one only until the request has destroyed it.     *)
PublisherInv ==
  /\ publisher \in {0, created}
  /\ last.pub <= created
  /\ goEna => publisher # 0 /\ writer # "destroy"
  /\ publisher # 0 /\ ~goEna => writer = "destroy"
  /\ publisher # 0 => ttl # 0 /\ (left = 0 => ttl = StableLive)

(* The next message is due, with the worker as late as it may be, before   *)
(* the last one expires; its numbers are the next after those of the last  *)
(* one and of the messages that did not fit.                               *)
MessageInv ==
  /\ wTime <= now
  /\ publisher # 0 /\ last.pub = publisher =>
       /\ skipped = 0 => due + MaxLate <= last.time + last.live
       /\ \/ stNum = last.st /\ sqNum = last.sq + 1 + skipped
          \/ stNum > last.st /\ sqNum >= 1 /\ stNum + sqNum <= last.st + 1 + skipped
  /\ publisher # 0 /\ last.pub # publisher =>
       \/ stNum = 1 /\ sqNum <= skipped
       \/ stNum > 1 /\ sqNum >= 1 /\ stNum + sqNum <= 2 + skipped

(* The inductive invariant.                                                *)
GInv == TypeOK /\ PublisherInv /\ MessageInv /\ NeverExpires

(* The initial states satisfy the inductive invariant.                     *)
LEMMA InitGInv == Init => GInv
<1> SUFFICES ASSUME Init PROVE GInv
  OBVIOUS
<1>1. TypeOK
  <2>1. last \in [pub : 0 .. MaxEnables, st : Nat, sq : Nat, live : {0, EventLive, StableLive},
                  val : 0 .. MaxChanges, time : 0 .. MaxTime]
    BY BoundsAssumption DEF Init, NoMessage
  <2>2. upd \in [Updaters -> {"idle", "test", "publish"}]
    BY DEF Init
  <2>3. goEna \in BOOLEAN /\ fault \in BOOLEAN
    BY DEF Init
  <2>4. /\ now \in 0 .. MaxTime /\ created \in 0 .. MaxEnables /\ publisher \in 0 .. created
        /\ conf \in 0 .. MaxWrites /\ pubConf \in 0 .. MaxWrites /\ wConf \in 0 .. MaxWrites
        /\ left \in 0 .. RetransmissionCount /\ due \in 0 .. MaxTime + StableInterval
        /\ value \in 0 .. MaxChanges /\ wTime \in 0 .. MaxTime
        /\ stNum \in Nat /\ sqNum \in Nat /\ ttl = 0 /\ skipped \in Nat
    BY IntervalAssumption, BoundsAssumption DEF Init
  <2> QED BY <2>1, <2>2, <2>3, <2>4 DEF Init, TypeOK
<1>2. PublisherInv /\ MessageInv /\ NeverExpires
  BY DEF Init, PublisherInv, MessageInv, NeverExpires, NoMessage
<1> QED BY <1>1, <1>2 DEF GInv

(* Every step keeps it, and numbers the message it sends, if any, after    *)
(* the last one.                                                           *)
LEMMA NextGInv == GInv /\ [Next]_vars => GInv' /\ (last' # last => Follows(last, last', skipped))
<1> SUFFICES ASSUME GInv, [Next]_vars
             PROVE  GInv' /\ (last' # last => Follows(last, last', skipped))
  OBVIOUS
<1> USE IntervalAssumption, BoundsAssumption
    DEF GInv, TypeOK, PublisherInv, MessageInv, NeverExpires, EventLive, StableLive, Updaters,
        block, gooseMessage, ethernet, threads, Requesting
<1>1. CASE Enable
  BY <1>1 DEF Enable
<1>2. CASE Disable
  BY <1>2 DEF Disable
<1>3. CASE DestroyPublisher
  BY <1>3 DEF DestroyPublisher
<1>4. ASSUME NEW c \in 0 .. MaxWrites, WriteAttribute(c)
      PROVE  GInv' /\ (last' # last => Follows(last, last', skipped))
  BY <1>4 DEF WriteAttribute
<1>5. CASE UpdateAttribute
  BY <1>5 DEF UpdateAttribute
<1>6. ASSUME NEW u \in Updaters, ChangeValue(u)
      PROVE  GInv' /\ (last' # last => Follows(last, last', skipped))
  BY <1>6 DEF ChangeValue
<1>7. ASSUME NEW u \in Updaters, TestEnabled(u)
      PROVE  GInv' /\ (last' # last => Follows(last, last', skipped))
  BY <1>7 DEF TestEnabled
<1>8. ASSUME NEW u \in Updaters, ObservedObjectChanged(u)
      PROVE  GInv' /\ (last' # last => Follows(last, last', skipped))
  <2>1. CASE FitsBuffer(Message(IncreasedStNum.st, IncreasedStNum.sq, ttl'))
    BY <1>8, <2>1 DEF ObservedObjectChanged, EventDue, Publish, Message, IncreasedStNum, Follows
  <2>2. CASE ~FitsBuffer(Message(IncreasedStNum.st, IncreasedStNum.sq, ttl'))
    BY <1>8, <2>2 DEF ObservedObjectChanged, EventDue, Publish, Message, IncreasedStNum
  <2> QED BY <2>1, <2>2
<1>9. CASE WorkerTests
  BY <1>9 DEF WorkerTests
<1>10. CASE CheckAndPublish
  <2>1. CASE FitsBuffer(Message(stNum, sqNum, ttl))
    BY <1>10, <2>1 DEF CheckAndPublish, Publish, Message, NextInterval, NextLive, NextLeft, Follows
  <2>2. CASE ~FitsBuffer(Message(stNum, sqNum, ttl))
    BY <1>10, <2>2 DEF CheckAndPublish, Publish, Message, NextInterval, NextLive, NextLeft
  <2> QED BY <2>1, <2>2
<1>11. CASE UseNullPublisher
  BY <1>11 DEF UseNullPublisher
<1>12. CASE Tick
  BY <1>12 DEF Tick
<1>13. CASE UNCHANGED vars
  BY <1>13 DEF vars
<1> QED
  BY <1>1, <1>2, <1>3, <1>4, <1>5, <1>6, <1>7, <1>8, <1>9, <1>10, <1>11, <1>12, <1>13 DEF Next

(* While a block is enabled its last message never expires before the next *)
(* one, however many events and retransmissions the threads interleave,    *)
(* unless the next one does not fit the buffer.                            *)
THEOREM LiveMessages == Spec => [](TypeOK /\ NeverExpires)
<1>1. Init => GInv
  BY InitGInv
<1>2. GInv /\ [Next]_vars => GInv'
  BY NextGInv
<1>3. GInv => TypeOK /\ NeverExpires
  BY DEF GInv
<1> QED BY <1>1, <1>2, <1>3, PTL DEF Spec

(* The messages of one publisher are numbered without gaps but for those   *)
(* that did not fit the buffer and were not sent.                          *)
THEOREM MessagesNumbered == Spec => NumberedWithoutGaps
<1>1. Init => GInv
  BY InitGInv
<1>2. GInv /\ [Next]_vars => GInv'
  BY NextGInv
<1>3. GInv /\ [Next]_vars => [last' # last => Follows(last, last', skipped)]_vars
  BY NextGInv
<1> QED BY <1>1, <1>2, <1>3, PTL DEF Spec, NumberedWithoutGaps
=============================================================================
