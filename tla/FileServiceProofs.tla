-------------------------- MODULE FileServiceProofs --------------------------
(***************************************************************************)
(* Theorems about FileService for any files, clients, sizes of a chunk, of *)
(* a page and of the table of open files: each open file is accounted for, *)
(* and an answer without an error is complete.                             *)
(***************************************************************************)
EXTENDS FileService, FiniteSetTheorems, SequenceTheorems, WellFoundedInduction, TLAPS

Increasing(s) == \A i, j \in DOMAIN s : i < j => s[i] < s[j]
FirstOctets(content, n) == [i \in 1..n |-> <<content, i>>]

AllOpen == {x \in Clients \X Slots : x[2] \in OpenFrsms(x[1])}
HandlesInv == IsFiniteSet(AllOpen) /\ handles = Cardinality(AllOpen)

\* The state machines that are in use have different ids and stand inside
\* their files.
FrsmInv(c) ==
  /\ \A s \in OpenFrsms(c) :
       /\ frsms[c][s].frsmId < nextFrsmId[c]
       /\ frsms[c][s].fileSize = Size[frsms[c][s].fileHandle]
       /\ frsms[c][s].taken = frsms[c][s].readPosition
       /\ frsms[c][s].readPosition <= frsms[c][s].fileSize
  /\ \A s, t \in OpenFrsms(c) : frsms[c][s].frsmId = frsms[c][t].frsmId => s = t

OpenIn(table, id) == \E s \in Slots : table[s].fileHandle # NoFile /\ table[s].frsmId = id
IdOpen(c, id) == OpenIn(frsms[c], id)

\* What the operation of a call asks for, and what it may get.
Asked(op) == {service \in Services :
  \/ op = "getFile" /\ service \in {"open", "read", "close"}
  \/ op = "getFileDirectory" /\ service = "directory"
  \/ op \in {"delete", "rename"} /\ service = op}

Answered(op) == {kind \in {"opened", "data", "entries", "null", "error"} :
  \/ op = "getFile" /\ kind # "entries"
  \/ op = "getFileDirectory" /\ kind = "entries"
  \/ op \in {"delete", "rename"} /\ kind \in {"null", "error"}}

\* The request at place i of n; a file that is read or closed is open.
Placed(request, i, n, op, table) ==
  /\ request.awaited => i = n /\ request.service \in Asked(op)
  /\ request.service \in {"read", "close"} => i = 1 /\ OpenIn(table, request.frsmId)
  /\ request.service \in {"open", "delete", "rename"} => request.name \in Names
  /\ request.service = "rename" => request.newName \in Names

\* What is under way on a connection: requests that were given up, and behind
\* them the one the client waits for.
PipeInv(c) ==
  /\ answer[c].kind # "none" => wire[c] = <<>> /\ answer[c].kind \in Answered(call[c].op)
  /\ \A i \in 1..Len(wire[c]) : Placed(wire[c][i], i, Len(wire[c]), call[c].op, frsms[c])
  /\ call[c].op = "none" => call[c] = Idle

Opens(requests) == {i \in 1..Len(requests) : requests[i].service = "open"}

\* A download answered with an error or whose close was answered has no file.
BudgetInv(c) ==
  Cardinality(OpenFrsms(c)) + Cardinality(Opens(wire[c])) <=
    timeouts[c] + (IF call[c].op = "getFile" /\ answer[c].kind \notin {"null", "error"} THEN 1 ELSE 0)

\* got is what the open file with that id has given so far.
ReadFrom(table, content, id, got) ==
  \E s \in Slots :
    /\ content # NoFile /\ table[s].fileHandle = content /\ table[s].frsmId = id
    /\ got = FirstOctets(content, table[s].readPosition)
Reading(c, id, got) == ReadFrom(frsms[c], opened[c], id, got)

\* The next answer of a download that has got so much.
Gives(table, content, id, got, response) ==
  /\ response.kind = "opened" => got = <<>> /\ ReadFrom(table, content, response.frsmId, <<>>)
  /\ response.kind = "data" =>
       /\ ReadFrom(table, content, id, got \o response.data)
       /\ response.moreFollows \/ got \o response.data = Octets(content)
  /\ response.kind = "null" => HandlerReturns \/ got = Octets(content)

DownloadInv(c) == call[c].op = "getFile" =>
  /\ \A i \in 1..Len(wire[c]) : wire[c][i].awaited =>
       /\ wire[c][i].service = "open" => call[c].got = <<>>
       /\ wire[c][i].service = "read" =>
            wire[c][i].frsmId = call[c].frsmId /\ Reading(c, call[c].frsmId, call[c].got)
       /\ wire[c][i].service = "close" => HandlerReturns \/ call[c].got = Octets(opened[c])
  /\ Gives(frsms[c], opened[c], call[c].frsmId, call[c].got, answer[c])

\* The names are in order, and no file up to the last of them was passed over.
Lists(files, lost, names) ==
  /\ names \in Seq(Names) /\ Increasing(names)
  /\ lost \/ \A n \in files : names # <<>> /\ n <= Last(names) => n \in Range(names)
ListedTo(c, names) == Lists(throughout[c], anchorLost[c], names)

\* The next answer to a call that has got these names.
Continues(files, lost, got, response) == response.kind = "entries" =>
  /\ Lists(files, lost, got \o response.names)
  /\ IF response.moreFollows THEN response.names # <<>>
     ELSE lost \/ files \subseteq Range(got \o response.names)

DirectoryInv(c) == call[c].op = "getFileDirectory" =>
  /\ ListedTo(c, call[c].got)
  /\ \A i \in 1..Len(wire[c]) : wire[c][i].awaited =>
       wire[c][i].name = IF call[c].got = <<>> THEN None ELSE Last(call[c].got)
  /\ Continues(throughout[c], anchorLost[c], call[c].got, answer[c])

ResultInv(c) ==
  /\ result[c].op # "none" => call[c].op = "none"
  /\ result[c].op = "getFile" /\ result[c].error = "none" => wire[c] = <<>>
  /\ HandlerReturns \/ DownloadComplete(c)
  /\ DirectoryComplete(c)
  /\ throughout[c] \subseteq Existing(store)

ClientInv(c) ==
  /\ FrsmInv(c) /\ PipeInv(c) /\ BudgetInv(c) /\ DownloadInv(c) /\ DirectoryInv(c) /\ ResultInv(c)

FInv == TypeOK /\ HandlesInv /\ \A c \in Clients : ClientInv(c)
-----------------------------------------------------------------------------
(* Numbers, slots and listings.                                            *)

(* A nonempty set of numbers has a least one, so Min finds it.             *)
LEMMA LeastNumber ==
  ASSUME NEW T \in SUBSET Nat, T # {}
  PROVE  Min(T) \in T /\ \A y \in T : Min(T) <= y
<1> DEFINE R == {ss \in Nat \X Nat : ss[1] < ss[2]}
<1>1. OpToRel(<, Nat) = R
  BY DEF OpToRel
<1>2. IsWellFoundedOn(R, Nat)
  BY <1>1, NatLessThanWellFounded
<1>3. PICK x \in T : \A y \in T : ~(<<y, x>> \in R)
  <2> HIDE DEF R
  <2> QED BY <1>2, WFMin
<1>4. ASSUME NEW y \in T PROVE x <= y
  <2> SUFFICES ASSUME ~(x <= y) PROVE FALSE
    OBVIOUS
  <2>1. <<y, x>> \in Nat \X Nat /\ y < x
    OBVIOUS
  <2>2. <<y, x>> \in R
    BY <2>1
  <2> QED BY <1>3, <2>2
<1> QED BY <1>4 DEF Min

(* getFrsm finds an open file by its id, and only an open one.             *)
LEMMA FrsmFound ==
  ASSUME NEW c, NEW id
  PROVE  /\ IdOpen(c, id) => /\ getFrsm(c, id) \in OpenFrsms(c)
                             /\ frsms[c][getFrsm(c, id)].frsmId = id
         /\ getFrsm(c, id) # None <=> IdOpen(c, id)
<1> DEFINE found == {s \in OpenFrsms(c) : frsms[c][s].frsmId = id}
<1>1. found \in SUBSET Nat /\ None \notin found
  BY FileAssumption DEF OpenFrsms, Slots, None
<1>2. IdOpen(c, id) <=> found # {}
  BY DEF IdOpen, OpenIn, OpenFrsms
<1>3. found # {} => Min(found) \in found
  <2> HIDE DEF found
  <2> QED BY <1>1, LeastNumber
<1> QED BY <1>1, <1>2, <1>3 DEF getFrsm

(* getFreeFrsm finds a slot without a file unless there is none.           *)
LEMMA FreeFrsmFound ==
  ASSUME NEW c
  PROVE  getFreeFrsm(c) # None => getFreeFrsm(c) \in Slots \ OpenFrsms(c)
<1>1. Slots \ OpenFrsms(c) \in SUBSET Nat
  BY FileAssumption DEF Slots
<1>2. OpenFrsms(c) # Slots => Slots \ OpenFrsms(c) # {}
  BY DEF OpenFrsms
<1> QED BY <1>1, <1>2, LeastNumber DEF getFreeFrsm

(* Min of two numbers is one of them and above none.                       *)
LEMMA MinOfTwo ==
  ASSUME NEW a \in Nat, NEW b \in Nat
  PROVE  /\ Min({a, b}) \in {a, b} /\ Min({a, b}) <= a /\ Min({a, b}) <= b
<1>1. {a, b} \in SUBSET Nat /\ {a, b} # {}
  OBVIOUS
<1> QED BY <1>1, LeastNumber

(* InOrder lists a finite set of numbers in ascending order: the numbers   *)
(* up to and including one of them give its place.                         *)
LEMMA Listing ==
  ASSUME NEW T \in SUBSET Nat, IsFiniteSet(T)
  PROVE  /\ InOrder(T) \in Seq(T) /\ Len(InOrder(T)) = Cardinality(T)
         /\ Increasing(InOrder(T))
         /\ \A x \in T : \E i \in 1..Cardinality(T) : InOrder(T)[i] = x
<1> DEFINE n == Cardinality(T)
           UpTo(x) == {y \in T : y <= x}
           rank == [x \in T |-> Cardinality(UpTo(x))]
<1>1. n \in Nat
  BY FS_CardinalityType
<1>2. ASSUME NEW x \in T
      PROVE  /\ IsFiniteSet(UpTo(x)) /\ rank[x] \in 1..n
  <2>1. IsFiniteSet(UpTo(x)) /\ Cardinality(UpTo(x)) <= n
    BY FS_Subset
  <2>2. Cardinality(UpTo(x)) \in Nat /\ (Cardinality(UpTo(x)) = 0 <=> UpTo(x) = {})
    BY <2>1, FS_CardinalityType, FS_EmptySet
  <2>3. x \in UpTo(x)
    OBVIOUS
  <2> QED BY <1>1, <2>1, <2>2, <2>3
<1>3. ASSUME NEW x \in T, NEW y \in T, x < y
      PROVE  rank[x] < rank[y]
  <2>0. x \in Nat /\ y \in Nat /\ y \in UpTo(y) /\ y \notin UpTo(x)
    BY <1>3
  <2>1. UpTo(x) \in SUBSET UpTo(y) /\ UpTo(x) # UpTo(y)
    <3>1. ASSUME NEW z \in UpTo(x) PROVE z \in UpTo(y)
      <4>1. z \in T /\ z \in Nat /\ z <= x
        OBVIOUS
      <4> QED BY <1>3, <2>0, <4>1
    <3> HIDE DEF UpTo
    <3> QED BY <2>0, <3>1
  <2>2. /\ Cardinality(UpTo(x)) <= Cardinality(UpTo(y))
        /\ Cardinality(UpTo(x)) # Cardinality(UpTo(y))
    BY <1>2, <2>1, FS_Subset
  <2> QED BY <1>1, <1>2, <2>2
<1>4. rank \in Injection(T, 1..n)
  <2>1. rank \in [T -> 1..n]
    BY <1>2
  <2>2. ASSUME NEW x \in T, NEW y \in T, rank[x] = rank[y] PROVE x = y
    <3>1. rank[x] \in Nat /\ rank[y] \in Nat
      BY <1>1, <1>2
    <3>2. x < y \/ y < x \/ x = y
      OBVIOUS
    <3> HIDE DEF rank
    <3> QED BY <1>3, <2>2, <3>1, <3>2
  <2> HIDE DEF rank
  <2> QED BY <2>1, <2>2 DEF Injection, IsInjective
<1>5. IsFiniteSet(1..n) /\ Cardinality(1..n) = n
  BY <1>1, FS_Interval
<1>6. rank \in Surjection(T, 1..n)
  <2> HIDE DEF rank
  <2> QED BY <1>4, <1>5, FS_Injection
<1> DEFINE order == [i \in 1..n |-> CHOOSE x \in T : rank[x] = i]
<1>7. ASSUME NEW i \in 1..n PROVE order[i] \in T /\ rank[order[i]] = i
  <2> HIDE DEF rank
  <2>1. \E x \in T : rank[x] = i
    BY <1>6 DEF Surjection
  <2> QED BY <2>1
<1>8. order \in [1..n -> T] /\ \A i, j \in DOMAIN order : i < j => order[i] < order[j]
  <2>1. order \in [1..n -> T]
    BY <1>7
  <2>2. ASSUME NEW i \in 1..n, NEW j \in 1..n, i < j PROVE order[i] < order[j]
    <3>1. rank[order[i]] = i /\ rank[order[j]] = j /\ order[i] \in T /\ order[j] \in T
      BY <1>7
    <3>2. ~(order[j] < order[i]) /\ order[i] # order[j]
      <4>1. order[j] < order[i] => j < i
        <5> HIDE DEF rank, order
        <5> QED BY <1>3, <3>1
      <4> HIDE DEF rank, order
      <4> QED BY <2>2, <3>1, <4>1
    <3>3. order[i] \in Nat /\ order[j] \in Nat
      BY <3>1
    <3> HIDE DEF order
    <3> QED BY <3>2, <3>3
  <2> HIDE DEF order
  <2> QED BY <2>1, <2>2
<1> DEFINE listed == InOrder(T)
<1>9. listed \in [1..n -> T] /\ \A i, j \in DOMAIN listed : i < j => listed[i] < listed[j]
  <2> HIDE DEF order
  <2> QED BY <1>8 DEF InOrder
<1>10. listed \in Injection(1..n, T)
  <2>1. ASSUME NEW i \in 1..n, NEW j \in 1..n, listed[i] = listed[j] PROVE i = j
    <3>1. i < j \/ j < i \/ i = j
      BY <1>1
    <3>2. listed[i] \in Nat /\ listed[j] \in Nat
      BY <1>9
    <3> HIDE DEF listed
    <3> QED BY <1>9, <2>1, <3>1, <3>2
  <2> HIDE DEF listed
  <2> QED BY <1>9, <2>1 DEF Injection, IsInjective
<1>11. listed \in Surjection(1..n, T)
  <2> HIDE DEF listed
  <2> QED BY <1>5, <1>10, FS_Injection
<1>12. listed \in Seq(T) /\ Len(listed) = n
  <2> HIDE DEF listed
  <2> QED BY <1>1, <1>9
<1> HIDE DEF listed, rank, order
<1>13. \A x \in T : \E i \in 1..n : listed[i] = x
  BY <1>11 DEF Surjection
<1> QED BY <1>9, <1>12, <1>13 DEF Increasing, listed

(* Listing again, for a page of the directory: names in order, all behind  *)
(* the anchor, none passed over.                                           *)
LEMMA PageLists ==
  ASSUME TypeOK, NEW after \in Names \cup {None}, after = None \/ store[after] # NoFile
  PROVE  LET page == Page(store, after) IN
         /\ page.kind = "entries" /\ page.names \in Seq(Names) /\ page.moreFollows \in BOOLEAN
         /\ Increasing(page.names)
         /\ \A i \in 1..Len(page.names) : page.names[i] > after
         /\ \A n \in Existing(store) :
              n > after /\ (page.moreFollows => page.names # <<>> /\ n <= Last(page.names))
                => \E i \in 1..Len(page.names) : page.names[i] = n
         /\ page.moreFollows => page.names # <<>>
<1> DEFINE behind == {name \in Existing(store) : name > after}
           entries == InOrder(behind)
           total == Cardinality(behind)
           count == Min({PageSize, total})
           names == SubSeq(entries, 1, count)
<1>1. Names \in SUBSET Nat /\ IsFiniteSet(Names) /\ \A n \in Names : n > None
  <2>1. NumberOfNames \in Nat /\ 1 \in Int /\ NumberOfNames \in Int
    BY FileAssumption
  <2>2. IsFiniteSet(1..NumberOfNames)
    BY <2>1, FS_Interval
  <2> QED BY <2>1, <2>2 DEF Names, None
<1>2. behind \in SUBSET Names /\ behind \in SUBSET Nat /\ IsFiniteSet(behind)
  BY <1>1, FS_Subset DEF Existing
<1>3. /\ entries \in Seq(behind) /\ Len(entries) = total /\ Increasing(entries)
      /\ \A x \in behind : \E i \in 1..total : entries[i] = x
  <2> HIDE DEF behind
  <2> QED BY <1>2, Listing
<1>4. /\ total \in Nat /\ count \in Nat /\ count <= total /\ count <= PageSize
      /\ count = PageSize \/ count = total
  <2>1. total \in Nat /\ PageSize \in Nat
    BY <1>2, FS_CardinalityType, FileAssumption
  <2> HIDE DEF total
  <2> QED BY <2>1, MinOfTwo
<1>5. Page(store, after) = [kind |-> "entries", names |-> names, moreFollows |-> count < total]
  <2>1. behind = IF after = None THEN Existing(store)
                 ELSE IF store[after] = NoFile THEN {}
                 ELSE {name \in Existing(store) : name > after}
    BY <1>1 DEF Existing
  <2> QED BY <1>3, <2>1 DEF Page
<1> HIDE DEF behind
<1>6. /\ names \in Seq(behind) /\ Len(names) = count
      /\ \A i \in 1..count : names[i] = entries[i] /\ names[i] \in behind
  <2> HIDE DEF entries, count, total
  <2>1. \A i \in 1..count : entries[i] \in behind
    BY <1>3, <1>4
  <2>2. /\ names \in Seq(behind) /\ Len(names) = count
        /\ \A i \in 1..count : names[i] = entries[1 + i - 1]
    BY <1>4, <2>1, SubSeqProperties
  <2> QED BY <1>3, <1>4, <2>1, <2>2
<1>7. DOMAIN names = 1..count /\ DOMAIN entries = 1..total
  <2> HIDE DEF entries, count, total, names
  <2> QED BY <1>3, <1>4, <1>6
<1>8. Increasing(names)
  <2>1. ASSUME NEW i \in 1..count, NEW j \in 1..count, i < j PROVE names[i] < names[j]
    <3>1. entries[i] < entries[j]
      <4> HIDE DEF entries, count, total, names
      <4> QED BY <1>3, <1>4, <1>7, <2>1 DEF Increasing
    <3> HIDE DEF entries, count, total, names
    <3> QED BY <1>6, <3>1
  <2> HIDE DEF names, count
  <2> QED BY <1>7, <2>1 DEF Increasing
<1>9. \A i \in 1..Len(names) : names[i] > after
  <2> HIDE DEF names, count
  <2> QED BY <1>6 DEF behind
<1>10. count < total => names # <<>>
  <2> HIDE DEF names, count, total
  <2> QED BY <1>4, <1>6, FileAssumption
<1>11. ASSUME NEW n \in Existing(store), n > after,
              count < total => names # <<>> /\ n <= Last(names)
       PROVE  \E i \in 1..Len(names) : names[i] = n
  <2>1. PICK i \in 1..total : entries[i] = n
    <3>1. n \in behind
      BY <1>11 DEF behind
    <3> HIDE DEF entries, total
    <3> QED BY <1>3, <3>1
  <2>2. i <= count
    <3> SUFFICES ASSUME ~(i <= count) PROVE FALSE
      OBVIOUS
    <3>1. count < i /\ count < total /\ count \in 1..total
      <4> HIDE DEF entries, count, total
      <4> QED BY <1>4, <2>1, FileAssumption
    <3>2. entries[count] < n
      <4> HIDE DEF entries, count, total
      <4> QED BY <1>3, <1>7, <2>1, <3>1 DEF Increasing
    <3>3. names[count] = entries[count] /\ Last(names) = names[count]
      <4> HIDE DEF entries, count, total, names
      <4> QED BY <1>4, <1>6, <3>1 DEF Last
    <3>4. n <= entries[count]
      <4> HIDE DEF entries, count, total, names
      <4> QED BY <1>11, <3>1, <3>3
    <3>5. n \in Nat /\ entries[count] \in Nat
      <4> HIDE DEF entries, count, total, names
      <4>1. n \in Names
        BY DEF Existing
      <4>2. names[count] \in behind
        BY <1>4, <1>6, <3>1
      <4> QED BY <1>1, <1>2, <3>3, <4>1, <4>2
    <3> HIDE DEF entries, count, total, names
    <3> QED BY <3>2, <3>4, <3>5
  <2> HIDE DEF entries, count, total, names
  <2> QED BY <1>4, <1>6, <2>1, <2>2
<1>12. names \in Seq(Names)
  <2> HIDE DEF names
  <2> QED BY <1>2, <1>6, SeqMonotonic
<1> DEFINE page == Page(store, after)
<1> HIDE DEF names, count, total, entries
<1>13. /\ page.kind = "entries" /\ page.names = names
       /\ page.moreFollows \in BOOLEAN /\ (page.moreFollows <=> count < total)
  <2>1. page.kind = "entries" /\ page.names = names
    BY <1>5
  <2>2. CASE count < total
    <3>1. page = [kind |-> "entries", names |-> names, moreFollows |-> TRUE]
      BY <1>5, <2>2
    <3> QED BY <2>1, <2>2, <3>1
  <2>3. CASE ~(count < total)
    <3>1. page = [kind |-> "entries", names |-> names, moreFollows |-> FALSE]
      <4>1. (count < total) = FALSE
        BY <2>3
      <4> QED BY <1>5, <4>1
    <3> QED BY <2>1, <2>3, <3>1
  <2> QED BY <2>2, <2>3
<1> HIDE DEF page
<1>14. \A n \in Existing(store) :
         n > after /\ (page.moreFollows => page.names # <<>> /\ n <= Last(page.names))
           => \E i \in 1..Len(page.names) : page.names[i] = n
  BY <1>11, <1>13
<1>15. \A i \in 1..Len(page.names) : page.names[i] > after
  BY <1>9, <1>13
<1> QED BY <1>8, <1>10, <1>12, <1>13, <1>14, <1>15 DEF page

(* A read continues where the last one ended, and the last one says so.    *)
LEMMA ChunkGives ==
  ASSUME TypeOK, NEW c \in Clients, FrsmInv(c), NEW s \in OpenFrsms(c)
  PROVE  LET chunk == Chunk(frsms[c][s])
             content == frsms[c][s].fileHandle
             at == frsms[c][s].readPosition
             size == Len(chunk.data)
         IN /\ chunk \in Answers /\ chunk.kind = "data" /\ size \in Nat
            /\ at + size <= Size[content]
            /\ FirstOctets(content, at) \o chunk.data = FirstOctets(content, at + size)
            /\ chunk.moreFollows \/ at + size = Size[content]
<1> DEFINE content == frsms[c][s].fileHandle
           at == frsms[c][s].readPosition
           left == Size[content] - at
           size == IF left > ChunkSize THEN ChunkSize ELSE left
           data == [i \in 1..size |-> <<content, at + i>>]
           first == FirstOctets(content, at)
<1>1. /\ content \in Contents /\ Size[content] \in Nat /\ at \in Nat /\ at <= Size[content]
      /\ frsms[c][s].fileSize = Size[content] /\ frsms[c][s].taken = at /\ s \in Slots
  <2>1. s \in Slots /\ frsms[c][s].fileHandle # NoFile
    BY DEF OpenFrsms
  <2>2. frsms[c][s] \in Frsms
    BY <2>1 DEF TypeOK
  <2> QED BY <2>1, <2>2, FileAssumption DEF Frsms, FrsmInv
<1>2. left \in Nat /\ size \in Nat /\ size <= left /\ ChunkSize \in Nat
  BY <1>1, FileAssumption
<1>3. \A i \in 1..size : at + i <= Size[content]
  BY <1>1, <1>2
<1>4. Chunk(frsms[c][s]) = [kind |-> "data", data |-> data, moreFollows |-> left > ChunkSize]
  BY <1>1, <1>3 DEF Chunk
<1>5. data \in Seq(Octet) /\ Len(data) = size /\ \A i \in 1..size : data[i] = <<content, at + i>>
  <2>1. \A i \in 1..size : <<content, at + i>> \in Octet
    BY <1>1, <1>2 DEF Octet
  <2> HIDE DEF content, at, size
  <2> QED BY <1>2, <2>1
<1>6. first \in Seq(Octet) /\ Len(first) = at /\ \A i \in 1..at : first[i] = <<content, i>>
  <2>1. \A i \in 1..at : <<content, i>> \in Octet
    BY <1>1 DEF Octet
  <2> HIDE DEF content, at
  <2> QED BY <1>1, <2>1 DEF FirstOctets
<1>7. first \o data = FirstOctets(content, at + size)
  <2> HIDE DEF first, data, content, at, size
  <2>1. at \in Nat /\ size \in Nat
    BY <1>1, <1>2
  <2>2. /\ first \o data \in Seq(Octet) /\ Len(first \o data) = at + size
        /\ \A i \in 1..(at + size) :
             (first \o data)[i] = IF i <= at THEN first[i] ELSE data[i - at]
    BY <1>5, <1>6, ConcatProperties
  <2>3. ASSUME NEW i \in 1..(at + size) PROVE (first \o data)[i] = <<content, i>>
    <3>1. CASE i <= at
      BY <1>6, <2>1, <2>2, <3>1
    <3>2. CASE ~(i <= at)
      <4>1. i - at \in 1..size /\ at + (i - at) = i
        BY <2>1, <3>2
      <4>2. data[i - at] = <<content, at + (i - at)>>
        BY <1>5, <4>1
      <4> QED BY <2>2, <3>2, <4>1, <4>2
    <3> QED BY <3>1, <3>2
  <2> DEFINE all == FirstOctets(content, at + size)
  <2>4. /\ all \in Seq(Octet) /\ Len(all) = at + size
        /\ \A i \in 1..(at + size) : all[i] = <<content, i>>
    <3>1. \A i \in 1..(at + size) : <<content, i>> \in Octet
      BY <1>1 DEF Octet
    <3> QED BY <2>1, <3>1 DEF FirstOctets
  <2> HIDE DEF all
  <2> QED BY <2>2, <2>3, <2>4, SeqEqual DEF all
<1> DEFINE chunk == Chunk(frsms[c][s])
<1>8. /\ chunk.kind = "data" /\ chunk.data = data /\ chunk.moreFollows \in BOOLEAN
      /\ chunk.moreFollows \/ ~(left > ChunkSize)
      /\ chunk = [kind |-> "data", data |-> data, moreFollows |-> chunk.moreFollows]
  <2> HIDE DEF data, left
  <2>1. CASE left > ChunkSize
    <3>1. (left > ChunkSize) = TRUE
      BY <2>1
    <3>2. chunk = [kind |-> "data", data |-> data, moreFollows |-> TRUE]
      BY <1>4, <3>1
    <3> HIDE DEF chunk
    <3> QED BY <3>2
  <2>2. CASE ~(left > ChunkSize)
    <3>1. (left > ChunkSize) = FALSE
      BY <2>2
    <3>2. chunk = [kind |-> "data", data |-> data, moreFollows |-> FALSE]
      BY <1>4, <3>1
    <3> HIDE DEF chunk
    <3> QED BY <2>2, <3>2
  <2> QED BY <2>1, <2>2
<1>9. chunk \in Answers
  <2>1. chunk \in [kind : {"data"}, data : Seq(Octet), moreFollows : BOOLEAN]
    <3> HIDE DEF chunk, data
    <3> QED BY <1>5, <1>8
  <2> QED BY <2>1 DEF Answers
<1>10. at + size <= Size[content] /\ (~(left > ChunkSize) => at + size = Size[content])
  BY <1>1, <1>2
<1> HIDE DEF chunk, data, size, left, first
<1> QED BY <1>2, <1>5, <1>7, <1>8, <1>9, <1>10 DEF chunk, first

(* The opens among the requests of a connection.                           *)
LEMMA OpensCounted ==
  ASSUME NEW requests \in Seq(Requests)
  PROVE  /\ Cardinality(Opens(requests)) \in Nat
         /\ requests # <<>> =>
              Cardinality(Opens(Tail(requests))) =
                Cardinality(Opens(requests)) - IF requests[1].service = "open" THEN 1 ELSE 0
         /\ \A request \in Requests :
              Cardinality(Opens(Append(requests, request))) =
                Cardinality(Opens(requests)) + IF request.service = "open" THEN 1 ELSE 0
         /\ Cardinality(Opens(<<>>)) = 0
<1>1. ASSUME NEW w \in Seq(Requests)
      PROVE  IsFiniteSet(Opens(w)) /\ Cardinality(Opens(w)) \in Nat
  <2>1. Len(w) \in Nat /\ IsFiniteSet(1..Len(w))
    BY FS_Interval
  <2>2. Opens(w) \in SUBSET (1..Len(w))
    BY DEF Opens
  <2> QED BY <2>1, <2>2, FS_Subset, FS_CardinalityType
<1>2. ASSUME requests # <<>>
      PROVE  Cardinality(Opens(Tail(requests))) =
               Cardinality(Opens(requests)) - IF requests[1].service = "open" THEN 1 ELSE 0
  <2> DEFINE rest == Tail(requests)
             behind == Opens(requests) \ {1}
             shift == [i \in Opens(rest) |-> i + 1]
  <2>1. /\ rest \in Seq(Requests) /\ Len(rest) = Len(requests) - 1
        /\ \A i \in 1..Len(rest) : rest[i] = requests[i + 1]
        /\ Len(requests) \in Nat \ {0}
    BY <1>2, HeadTailProperties, EmptySeq
  <2>2. shift \in Bijection(Opens(rest), behind)
    <3>1. ASSUME NEW i \in Opens(rest) PROVE shift[i] \in behind /\ shift[i] = i + 1 /\ i \in Nat
      <4> HIDE DEF rest
      <4> QED BY <2>1 DEF Opens
    <3>2. shift \in [Opens(rest) -> behind]
      BY <3>1
    <3>3. ASSUME NEW j \in behind PROVE \E i \in Opens(rest) : shift[i] = j
      <4>1. j \in 1..Len(requests) /\ j # 1 /\ requests[j].service = "open"
        BY DEF Opens
      <4>2. j - 1 \in 1..Len(rest) /\ (j - 1) + 1 = j
        <5> HIDE DEF rest
        <5> QED BY <2>1, <4>1
      <4>3. j - 1 \in Opens(rest)
        <5> HIDE DEF rest
        <5> QED BY <2>1, <4>1, <4>2 DEF Opens
      <4> HIDE DEF rest
      <4> QED BY <4>2, <4>3
    <3> HIDE DEF shift, rest, behind
    <3> QED BY <3>1, <3>2, <3>3 DEF Bijection, Injection, Surjection, IsInjective
  <2>3. Cardinality(behind) = Cardinality(Opens(rest))
    <3>1. IsFiniteSet(Opens(rest)) /\ ExistsBijection(Opens(rest), behind)
      <4> HIDE DEF rest, behind, shift
      <4> QED BY <1>1, <2>1, <2>2 DEF ExistsBijection
    <3> HIDE DEF rest, behind
    <3> QED BY <3>1, FS_Bijection
  <2>4. Cardinality(behind) = IF 1 \in Opens(requests) THEN Cardinality(Opens(requests)) - 1
                              ELSE Cardinality(Opens(requests))
    BY <1>1, FS_RemoveElement
  <2>5. 1 \in Opens(requests) <=> requests[1].service = "open"
    BY <2>1 DEF Opens
  <2> HIDE DEF behind, rest
  <2> QED BY <1>1, <2>3, <2>4, <2>5 DEF rest
<1>3. ASSUME NEW request \in Requests
      PROVE  Cardinality(Opens(Append(requests, request))) =
               Cardinality(Opens(requests)) + IF request.service = "open" THEN 1 ELSE 0
  <2> DEFINE more == Append(requests, request)
             n == Len(requests) + 1
  <2>1. /\ more \in Seq(Requests) /\ Len(more) = n /\ n \in Nat /\ more[n] = request
        /\ \A i \in 1..Len(requests) : more[i] = requests[i]
    BY AppendProperties
  <2>2. Opens(more) = IF request.service = "open" THEN Opens(requests) \cup {n} ELSE Opens(requests)
    <3> HIDE DEF more
    <3> QED BY <2>1 DEF Opens
  <2>3. n \notin Opens(requests)
    BY DEF Opens
  <2>4. IsFiniteSet(Opens(requests)) /\ Cardinality(Opens(requests)) \in Nat
    BY <1>1
  <2>5. Cardinality(Opens(requests) \cup {n}) = Cardinality(Opens(requests)) + 1
    <3> HIDE DEF n
    <3> QED BY <2>3, <2>4, FS_AddElement
  <2> HIDE DEF n, more
  <2> QED BY <2>2, <2>4, <2>5 DEF more
<1>4. Opens(<<>>) = {}
  BY EmptySeq DEF Opens
<1> QED BY <1>1, <1>2, <1>3, <1>4, FS_EmptySet

-----------------------------------------------------------------------------
(* The invariant under the steps.                                          *)

\* A step of another connection; it may take files away.
Untouched(c) ==
  /\ frsms'[c] = frsms[c] /\ nextFrsmId'[c] = nextFrsmId[c] /\ wire'[c] = wire[c]
  /\ answer'[c] = answer[c] /\ call'[c] = call[c] /\ result'[c] = result[c]
  /\ timeouts'[c] = timeouts[c] /\ opened'[c] = opened[c] /\ anchorLost'[c] = anchorLost[c]
  /\ throughout'[c] \subseteq throughout[c] /\ throughout'[c] \subseteq Existing(store')

(* The invariant of a connection is not disturbed by the others.           *)
LEMMA ClientUntouched ==
  ASSUME NEW c, ClientInv(c), Untouched(c)
  PROVE  ClientInv(c)'
<1>1. OpenFrsms(c)' = OpenFrsms(c)
  BY DEF Untouched, OpenFrsms
<1>2. FrsmInv(c)'
  BY <1>1 DEF Untouched, ClientInv, FrsmInv
<1>3. PipeInv(c)'
  BY DEF Untouched, ClientInv, PipeInv
<1>4. BudgetInv(c)'
  BY <1>1 DEF Untouched, ClientInv, BudgetInv
<1>5. DownloadInv(c)'
  <2>1. /\ frsms'[c] = frsms[c] /\ wire'[c] = wire[c] /\ answer'[c] = answer[c]
        /\ call'[c] = call[c] /\ opened'[c] = opened[c]
    BY DEF Untouched
  <2>2. DownloadInv(c)
    BY DEF ClientInv
  <2> QED BY <1>1, <2>1, <2>2 DEF DownloadInv, Gives, Reading
<1>6. DirectoryInv(c)'
  BY DEF Untouched, ClientInv, DirectoryInv, Continues, ListedTo, Lists
<1>7. ResultInv(c)'
  BY DEF Untouched, ClientInv, ResultInv, DownloadComplete, DirectoryComplete
<1> QED BY <1>2, <1>3, <1>4, <1>5, <1>6, <1>7 DEF ClientInv

(* No file handle is opened or closed.                                     *)
LEMMA HandlesUntouched ==
  ASSUME HandlesInv, UNCHANGED <<frsms, handles>>
  PROVE  HandlesInv'
<1>1. AllOpen' = AllOpen
  BY DEF AllOpen, OpenFrsms
<1> QED BY <1>1 DEF HandlesInv

(* The request in front leaves the wire; the client that waited for it     *)
(* has nothing else under way.                                             *)
LEMMA Responded ==
  ASSUME TypeOK, NEW c \in Clients, PipeInv(c), wire[c] # <<>>, NEW response,
         wire[c][1].awaited => response \in Answers /\ response.kind \in Answered(call[c].op),
         Respond(c, response), call'[c] = call[c]
  PROVE  /\ wire' \in [Clients -> Seq(Requests)] /\ answer' \in [Clients -> Answers]
         /\ \A d \in Clients \ {c} : wire'[d] = wire[d] /\ answer'[d] = answer[d]
         /\ answer[c].kind = "none"
         /\ Len(wire[c]) \in Nat \ {0} /\ Len(wire'[c]) = Len(wire[c]) - 1
         /\ \A i \in 1..Len(wire'[c]) :
              wire'[c][i] = wire[c][i + 1] /\ wire'[c][i].service \notin {"read", "close"}
         /\ IF wire[c][1].awaited
              THEN Len(wire[c]) = 1 /\ wire'[c] = <<>> /\ answer'[c] = response
              ELSE answer'[c] = answer[c]
         /\ PipeInv(c)'
         /\ Cardinality(Opens(wire'[c])) =
              Cardinality(Opens(wire[c])) - IF wire[c][1].service = "open" THEN 1 ELSE 0
<1>1. /\ wire[c] \in Seq(Requests) /\ Tail(wire[c]) \in Seq(Requests)
      /\ Len(wire[c]) \in Nat \ {0} /\ Len(Tail(wire[c])) = Len(wire[c]) - 1
      /\ \A i \in 1..Len(Tail(wire[c])) : Tail(wire[c])[i] = wire[c][i + 1]
  BY HeadTailProperties, EmptySeq DEF TypeOK
<1>2. wire'[c] = Tail(wire[c]) /\ wire' = [wire EXCEPT ![c] = Tail(wire[c])]
  BY DEF Respond, TypeOK
<1>3. wire' \in [Clients -> Seq(Requests)]
  BY <1>1, <1>2 DEF TypeOK
<1>4. answer[c].kind = "none" /\ \A i \in 1..Len(wire[c]) :
         Placed(wire[c][i], i, Len(wire[c]), call[c].op, frsms[c])
  BY DEF PipeInv
<1>5. CASE wire[c][1].awaited
  <2>1. answer' = [answer EXCEPT ![c] = response]
    BY <1>5 DEF Respond
  <2>2. answer' \in [Clients -> Answers] /\ answer'[c] = response
    BY <1>5, <2>1 DEF TypeOK
  <2>3. Len(wire[c]) = 1
    <3>1. 1 \in 1..Len(wire[c])
      BY <1>1
    <3> QED BY <1>4, <1>5, <3>1 DEF Placed
  <2>4. wire'[c] = <<>> /\ Len(wire'[c]) = 0
    BY <1>1, <1>2, <2>3, EmptySeq
  <2>5. PipeInv(c)'
    BY <1>5, <2>2, <2>4 DEF PipeInv
  <2>6. \A d \in Clients \ {c} : wire'[d] = wire[d] /\ answer'[d] = answer[d]
    BY <1>2, <2>1 DEF TypeOK
  <2> QED BY <1>1, <1>2, <1>3, <1>4, <1>5, <2>2, <2>3, <2>4, <2>5, <2>6, OpensCounted
<1>6. CASE ~wire[c][1].awaited
  <2>1. answer' = answer
    BY <1>6 DEF Respond
  <2>2. \A i \in 1..Len(wire'[c]) :
          /\ wire'[c][i] = wire[c][i + 1] /\ i + 1 \in 1..Len(wire[c]) /\ i + 1 # 1
          /\ i + 1 = Len(wire[c]) => i = Len(wire'[c])
    BY <1>1, <1>2
  <2>3. ASSUME NEW i \in 1..Len(wire'[c])
        PROVE  /\ wire'[c][i].service \notin {"read", "close"}
               /\ Placed(wire'[c][i], i, Len(wire'[c]), call'[c].op, frsms'[c])
    <3>1. Placed(wire[c][i + 1], i + 1, Len(wire[c]), call[c].op, frsms[c])
      BY <1>4, <2>2
    <3> QED BY <2>2, <3>1 DEF Placed
  <2>4. PipeInv(c)'
    BY <1>4, <2>1, <2>3 DEF PipeInv
  <2>5. \A d \in Clients \ {c} : wire'[d] = wire[d] /\ answer'[d] = answer[d]
    BY <1>2, <2>1 DEF TypeOK
  <2>6. answer' \in [Clients -> Answers]
    BY <2>1 DEF TypeOK
  <2> QED BY <1>1, <1>2, <1>3, <1>4, <1>6, <2>1, <2>2, <2>3, <2>4, <2>5, <2>6, OpensCounted
<1> QED BY <1>5, <1>6

(* A request is put behind what is under way.                              *)
LEMMA Sent ==
  ASSUME TypeOK, NEW c \in Clients, NEW request \in Requests, Send(c, request)
  PROVE  /\ wire' \in [Clients -> Seq(Requests)]
         /\ \A d \in Clients \ {c} : wire'[d] = wire[d]
         /\ Len(wire[c]) \in Nat /\ Len(wire'[c]) = Len(wire[c]) + 1
         /\ wire'[c][Len(wire[c]) + 1] = request
         /\ \A i \in 1..Len(wire[c]) : wire'[c][i] = wire[c][i]
         /\ Cardinality(Opens(wire[c])) \in Nat
         /\ Cardinality(Opens(wire'[c])) =
              Cardinality(Opens(wire[c])) + IF request.service = "open" THEN 1 ELSE 0
<1>1. wire[c] \in Seq(Requests) /\ wire' = [wire EXCEPT ![c] = Append(wire[c], request)]
  BY DEF TypeOK, Send
<1>2. /\ Append(wire[c], request) \in Seq(Requests)
      /\ Len(Append(wire[c], request)) = Len(wire[c]) + 1
      /\ Append(wire[c], request)[Len(wire[c]) + 1] = request
      /\ \A i \in 1..Len(wire[c]) : Append(wire[c], request)[i] = wire[c][i]
      /\ Len(wire[c]) \in Nat
  BY <1>1, AppendProperties, LenProperties
<1>3. wire'[c] = Append(wire[c], request)
  BY <1>1 DEF TypeOK
<1>4. /\ wire' \in [Clients -> Seq(Requests)]
      /\ \A d \in Clients \ {c} : wire'[d] = wire[d]
  BY <1>1, <1>2 DEF TypeOK
<1> QED BY <1>1, <1>2, <1>3, <1>4, OpensCounted

(* The files of a connection can be counted, and closing them all counts   *)
(* them off.                                                               *)
LEMMA OpenFrsmsFinite ==
  ASSUME NEW c
  PROVE  /\ IsFiniteSet(OpenFrsms(c)) /\ Cardinality(OpenFrsms(c)) \in Nat
         /\ IsFiniteSet(OpenFrsms(c)') /\ Cardinality(OpenFrsms(c)') \in Nat
<1>1. IsFiniteSet(Slots)
  <2>1. MaxOpenFiles \in Int /\ 1 \in Int
    BY FileAssumption
  <2> QED BY <2>1, FS_Interval DEF Slots
<1>2. OpenFrsms(c) \in SUBSET Slots /\ OpenFrsms(c)' \in SUBSET Slots
  BY DEF OpenFrsms
<1> QED BY <1>1, <1>2, FS_Subset, FS_CardinalityType

(* It is enough to look at the connection that takes the step.             *)
LEMMA OneClient ==
  ASSUME FInv, NEW c \in Clients, TypeOK', HandlesInv', ClientInv(c)',
         \A d \in Clients \ {c} : Untouched(d)
  PROVE  FInv'
<1>1. ASSUME NEW d \in Clients \ {c} PROVE ClientInv(d)'
  BY ClientUntouched DEF FInv
<1>2. \A d \in Clients : ClientInv(d)'
  BY <1>1
<1> QED BY <1>2 DEF FInv

(* A call puts its first request behind those that were given up.          *)
LEMMA CallMade ==
  ASSUME FInv, NEW c \in Clients, NEW op, NEW request \in Requests,
         Call(c, op, request), changes' \in Nat,
         request.awaited, request.service \in Asked(op) \ {"read", "close"},
         IF op = "getFileDirectory" THEN request.name = None ELSE request.name \in Names,
         op = "rename" => request.newName \in Names
  PROVE  FInv'
<1>0. TypeOK /\ HandlesInv /\ ClientInv(c)
  BY DEF FInv
<1>1. /\ call[c] = Idle /\ op \in Operations /\ Send(c, request)
      /\ call' = [call EXCEPT ![c] = [Idle EXCEPT !.op = op]]
      /\ result' = [result EXCEPT ![c] = NoResult]
      /\ anchorLost' = [anchorLost EXCEPT ![c] = FALSE]
      /\ UNCHANGED <<store, frsms, nextFrsmId, handles, answer, timeouts, opened>>
  BY FileAssumption DEF Call, server
<1>2. throughout' = [throughout EXCEPT ![c] =
                       IF op = "getFileDirectory" THEN Existing(store) ELSE {}]
  BY DEF Call
<1>3. /\ call'[c] = [op |-> op, frsmId |-> 0, got |-> <<>>] /\ result'[c] = NoResult
      /\ anchorLost'[c] = FALSE /\ throughout'[c] \subseteq Existing(store)
      /\ call'[c].op = op /\ call'[c].got = <<>> /\ call[c].op = "none"
  <2>1. call'[c] = [op |-> op, frsmId |-> 0, got |-> <<>>] /\ call[c].op = "none"
    BY <1>0, <1>1 DEF TypeOK, Idle
  <2>2. result'[c] = NoResult /\ anchorLost'[c] = FALSE
    BY <1>0, <1>1 DEF TypeOK
  <2>3. throughout'[c] \subseteq Existing(store)
    BY <1>0, <1>2 DEF TypeOK
  <2> QED BY <2>1, <2>2, <2>3
<1>4. TypeOK'
  <2>1. wire' \in [Clients -> Seq(Requests)]
    BY <1>0, <1>1, Sent
  <2>2. call' \in [Clients -> [op : Operations \cup {"none"}, frsmId : Nat,
                               got : Seq(Octet) \cup Seq(Names)]]
    <3>1. <<>> \in Seq(Octet)
      BY EmptySeq
    <3>2. [op |-> op, frsmId |-> 0, got |-> <<>>]
             \in [op : Operations \cup {"none"}, frsmId : Nat, got : Seq(Octet) \cup Seq(Names)]
      BY <1>1, <3>1
    <3> QED BY <1>0, <1>1, <3>2 DEF TypeOK, Idle
  <2>3. result' \in [Clients -> [op : {"getFile", "getFileDirectory", "none"},
                error : {"none", "resource", "nonexistent", "other", "timeout", "lost"},
                got : Seq(Octet) \cup Seq(Names)]]
    <3>1. <<>> \in Seq(Octet)
      BY EmptySeq
    <3>2. NoResult \in [op : {"getFile", "getFileDirectory", "none"},
                error : {"none", "resource", "nonexistent", "other", "timeout", "lost"},
                got : Seq(Octet) \cup Seq(Names)]
      BY <3>1 DEF NoResult
    <3> QED BY <1>0, <1>1, <3>2 DEF TypeOK
  <2>4. throughout' \in [Clients -> SUBSET Names]
    BY <1>0, <1>2 DEF TypeOK, Existing
  <2>5. anchorLost' \in [Clients -> BOOLEAN]
    BY <1>0, <1>1, Zenon DEF TypeOK
  <2> QED BY <1>0, <1>1, <2>1, <2>2, <2>3, <2>4, <2>5 DEF TypeOK
<1>5. HandlesInv'
  BY <1>0, <1>1, HandlesUntouched
<1>6. /\ Len(wire[c]) \in Nat /\ Len(wire'[c]) = Len(wire[c]) + 1
      /\ wire'[c][Len(wire[c]) + 1] = request
      /\ \A i \in 1..Len(wire[c]) : wire'[c][i] = wire[c][i]
      /\ Cardinality(Opens(wire[c])) \in Nat
      /\ Cardinality(Opens(wire'[c])) =
           Cardinality(Opens(wire[c])) + IF request.service = "open" THEN 1 ELSE 0
  BY <1>0, <1>1, Sent
<1>7. /\ answer[c].kind = "none" /\ answer'[c].kind = "none"
      /\ \A i \in 1..Len(wire[c]) : ~wire[c][i].awaited
  <2>1. Asked("none") = {} /\ Answered("none") = {}
    BY DEF Asked, Answered
  <2> QED BY <1>0, <1>1, <1>3, <2>1 DEF ClientInv, PipeInv, Placed
<1>8. OpenFrsms(c)' = OpenFrsms(c)
  BY <1>1 DEF OpenFrsms
<1>9. FrsmInv(c)'
  BY <1>0, <1>1, <1>8 DEF ClientInv, FrsmInv
<1>10. PipeInv(c)'
  <2>1. ASSUME NEW i \in 1..Len(wire'[c])
        PROVE  Placed(wire'[c][i], i, Len(wire'[c]), call'[c].op, frsms'[c])
    <3>1. CASE i = Len(wire[c]) + 1
      <4>1. wire'[c][i] = request /\ i = Len(wire'[c])
        BY <1>6, <3>1
      <4>2. /\ request.service \in {"open", "delete", "rename"} => request.name \in Names
            /\ request.service = "rename" => request.newName \in Names
        BY DEF Asked
      <4> QED BY <1>3, <4>1, <4>2 DEF Placed
    <3>2. CASE i # Len(wire[c]) + 1
      <4>1. i \in 1..Len(wire[c]) /\ wire'[c][i] = wire[c][i] /\ ~wire[c][i].awaited
        BY <1>6, <1>7, <3>2
      <4>2. Placed(wire[c][i], i, Len(wire[c]), call[c].op, frsms[c])
        BY <1>0, <4>1 DEF ClientInv, PipeInv
      <4> QED BY <1>1, <4>1, <4>2 DEF Placed
    <3> QED BY <3>1, <3>2
  <2> QED BY <1>1, <1>3, <1>7, <2>1 DEF PipeInv, Operations
<1>11. BudgetInv(c)'
  <2>1. request.service = "open" => op = "getFile"
    BY DEF Asked
  <2> QED BY <1>0, <1>1, <1>3, <1>6, <1>7, <1>8, <2>1, OpenFrsmsFinite
       DEF ClientInv, BudgetInv, TypeOK
<1>12. DownloadInv(c)'
  <2>1. ASSUME NEW i \in 1..Len(wire'[c]), wire'[c][i].awaited PROVE wire'[c][i] = request
    <3>1. i \in 1..Len(wire[c]) \/ i = Len(wire[c]) + 1
      BY <1>6
    <3> QED BY <1>6, <1>7, <2>1, <3>1
  <2> QED BY <1>3, <1>6, <1>7, <2>1 DEF DownloadInv, Gives
<1>13. DirectoryInv(c)'
  <2>1. ASSUME NEW i \in 1..Len(wire'[c]), wire'[c][i].awaited PROVE wire'[c][i] = request
    <3>1. i \in 1..Len(wire[c]) \/ i = Len(wire[c]) + 1
      BY <1>6
    <3> QED BY <1>6, <1>7, <2>1, <3>1
  <2>2. ListedTo(c, <<>>)'
    BY EmptySeq DEF ListedTo, Lists, Increasing
  <2> QED BY <1>3, <1>6, <1>7, <2>1, <2>2 DEF DirectoryInv, Continues, ListedTo, Lists
<1>14. ResultInv(c)'
  BY <1>1, <1>3 DEF ResultInv, NoResult, DownloadComplete, DirectoryComplete
<1>15. \A d \in Clients \ {c} : Untouched(d)
  <2>1. \A d \in Clients \ {c} : wire'[d] = wire[d]
    BY <1>0, <1>1, Sent
  <2> QED BY <1>0, <1>1, <1>2, <2>1 DEF Untouched, TypeOK, FInv, ClientInv, ResultInv
<1>16. ClientInv(c)'
  BY <1>9, <1>10, <1>11, <1>12, <1>13, <1>14 DEF ClientInv
<1> QED BY <1>4, <1>5, <1>15, <1>16, OneClient

(* Every call of the application keeps the invariant.                      *)
LEMMA CallsKept ==
  ASSUME FInv, NEW c \in Clients,
         \/ IedConnection_getFileDirectory(c)
         \/ \E name \in Names : IedConnection_getFile(c, name) \/ IedConnection_deleteFile(c, name)
         \/ \E old, new \in Names : MmsConnection_fileRename(c, old, new)
  PROVE  FInv'
<1>0. changes \in Nat /\ changes + 1 \in Nat
  BY DEF FInv, TypeOK
<1>1. CASE IedConnection_getFileDirectory(c)
  <2> DEFINE request == Asking("directory")
  <2>1. /\ request \in Requests /\ request.awaited /\ request.name = None
        /\ request.service = "directory"
    BY DEF Asking, Requests, Services, None
  <2>2. Call(c, "getFileDirectory", request) /\ changes' \in Nat
    BY <1>0, <1>1 DEF IedConnection_getFileDirectory
  <2>3. request.service \in Asked("getFileDirectory") \ {"read", "close"}
    BY <2>1 DEF Asked, Services
  <2> HIDE DEF request
  <2> QED BY <2>1, <2>2, <2>3, CallMade
<1>2. ASSUME NEW name \in Names, IedConnection_getFile(c, name) PROVE FInv'
  <2> DEFINE request == [Asking("open") EXCEPT !.name = name]
  <2>1. /\ request \in Requests /\ request.awaited /\ request.name \in Names
        /\ request.service = "open"
    BY DEF Asking, Requests, Services, None
  <2>2. Call(c, "getFile", request) /\ changes' \in Nat
    BY <1>0, <1>2 DEF IedConnection_getFile
  <2>3. request.service \in Asked("getFile") \ {"read", "close"}
    BY <2>1 DEF Asked, Services
  <2> HIDE DEF request
  <2> QED BY <2>1, <2>2, <2>3, CallMade
<1>3. ASSUME NEW name \in Names, IedConnection_deleteFile(c, name) PROVE FInv'
  <2> DEFINE request == [Asking("delete") EXCEPT !.name = name]
  <2>1. /\ request \in Requests /\ request.awaited /\ request.name \in Names
        /\ request.service = "delete"
    BY DEF Asking, Requests, Services, None
  <2>2. Call(c, "delete", request) /\ changes' \in Nat
    BY <1>0, <1>3 DEF IedConnection_deleteFile, Change
  <2>3. request.service \in Asked("delete") \ {"read", "close"}
    BY <2>1 DEF Asked, Services
  <2> HIDE DEF request
  <2> QED BY <2>1, <2>2, <2>3, CallMade
<1>4. ASSUME NEW old \in Names, NEW new \in Names, MmsConnection_fileRename(c, old, new)
      PROVE  FInv'
  <2> DEFINE request == [Asking("rename") EXCEPT !.name = old, !.newName = new]
  <2>1. /\ request \in Requests /\ request.awaited /\ request.name \in Names
        /\ request.newName \in Names /\ request.service = "rename"
    BY DEF Asking, Requests, Services, None
  <2>2. Call(c, "rename", request) /\ changes' \in Nat
    BY <1>0, <1>4 DEF MmsConnection_fileRename, Change
  <2>3. request.service \in Asked("rename") \ {"read", "close"}
    BY <2>1 DEF Asked, Services
  <2> HIDE DEF request
  <2> QED BY <2>1, <2>2, <2>3, CallMade
<1> QED BY <1>1, <1>2, <1>3, <1>4

\* What Return does to the call and its result.
Returned(c, error, got) ==
  /\ call'[c] = Idle
  /\ result'[c] = IF call[c].op \in {"getFile", "getFileDirectory"}
                    THEN [op |-> call[c].op, error |-> error, got |-> got] ELSE result[c]
  /\ \A d \in Clients \ {c} : call'[d] = call[d] /\ result'[d] = result[d]

(* A call returns with an error or its data.                               *)
LEMMA CallReturned ==
  ASSUME TypeOK, NEW c \in Clients,
         NEW error \in {"none", "resource", "nonexistent", "other", "timeout", "lost"},
         NEW got \in Seq(Octet) \cup Seq(Names), Return(c, error, got)
  PROVE  /\ call' \in [Clients -> [op : Operations \cup {"none"}, frsmId : Nat,
                                   got : Seq(Octet) \cup Seq(Names)]]
         /\ result' \in [Clients -> [op : {"getFile", "getFileDirectory", "none"},
                error : {"none", "resource", "nonexistent", "other", "timeout", "lost"},
                got : Seq(Octet) \cup Seq(Names)]]
         /\ Returned(c, error, got)
<1>1. <<>> \in Seq(Octet)
  BY EmptySeq
<1>2. Idle \in [op : Operations \cup {"none"}, frsmId : Nat, got : Seq(Octet) \cup Seq(Names)]
  BY <1>1 DEF Idle
<1>3. call' \in [Clients -> [op : Operations \cup {"none"}, frsmId : Nat,
                             got : Seq(Octet) \cup Seq(Names)]]
  BY <1>2 DEF TypeOK, Return
<1>4. /\ call'[c] = Idle /\ \A d \in Clients \ {c} : call'[d] = call[d]
  BY DEF TypeOK, Return
<1>5. CASE call[c].op \in {"getFile", "getFileDirectory"}
  <2>1. result' = [result EXCEPT ![c] = [op |-> call[c].op, error |-> error, got |-> got]]
    BY <1>5 DEF Return
  <2> QED BY <1>3, <1>4, <1>5, <2>1 DEF TypeOK, Returned
<1>6. CASE call[c].op \notin {"getFile", "getFileDirectory"}
  <2>1. result' = result
    BY <1>6 DEF Return
  <2> QED BY <1>3, <1>4, <1>6, <2>1 DEF TypeOK, Returned
<1> QED BY <1>5, <1>6

(* The call that is answered returns; without an error it has everything.  *)
LEMMA CallEnded ==
  ASSUME FInv, NEW c \in Clients, NEW kind \in {"error", "null", "entries"}, Received(c, kind),
         NEW error \in {"none", "resource", "nonexistent", "other", "timeout", "lost"},
         NEW got \in Seq(Octet) \cup Seq(Names), Return(c, error, got), UNCHANGED wire,
         call[c].op = "getFile" /\ error = "none" => HandlerReturns \/ got = Octets(opened[c]),
         call[c].op = "getFileDirectory" /\ error = "none" =>
           /\ IsInjective(got)
           /\ ~anchorLost[c] => throughout[c] \subseteq Range(got)
  PROVE  FInv'
<1>0. TypeOK /\ HandlesInv /\ ClientInv(c)
  BY DEF FInv
<1>1. /\ answer[c].kind = kind /\ answer' = [answer EXCEPT ![c] = NoAnswer]
      /\ UNCHANGED <<server, timeouts, changes, history>>
  BY DEF Received
<1>4. /\ call' \in [Clients -> [op : Operations \cup {"none"}, frsmId : Nat,
                                got : Seq(Octet) \cup Seq(Names)]]
      /\ result' \in [Clients -> [op : {"getFile", "getFileDirectory", "none"},
                error : {"none", "resource", "nonexistent", "other", "timeout", "lost"},
                got : Seq(Octet) \cup Seq(Names)]]
      /\ Returned(c, error, got)
  BY <1>0, CallReturned
<1>5. /\ wire[c] = <<>> /\ wire'[c] = <<>> /\ Len(wire'[c]) = 0
      /\ call[c].op \in Operations /\ result[c].op = "none" /\ answer'[c].kind = "none"
      /\ kind = "entries" => call[c].op # "getFile"
  <2>1. wire[c] = <<>> /\ answer[c].kind \in Answered(call[c].op)
    BY <1>0, <1>1 DEF ClientInv, PipeInv
  <2>2. call[c].op # "none" /\ (kind = "entries" => call[c].op # "getFile")
    BY <1>1, <2>1 DEF Answered
  <2>3. result[c].op = "none"
    BY <1>0, <2>2 DEF ClientInv, ResultInv
  <2> QED BY <1>0, <1>1, <2>1, <2>2, <2>3, EmptySeq DEF TypeOK, NoAnswer
<1>6. TypeOK'
  <2>1. answer' \in [Clients -> Answers]
    BY <1>0, <1>1 DEF TypeOK, Answers
  <2> QED BY <1>0, <1>1, <1>4, <2>1 DEF TypeOK, server, history
<1>7. HandlesInv'
  BY <1>0, <1>1, HandlesUntouched DEF server
<1>8. FrsmInv(c)' /\ OpenFrsms(c)' = OpenFrsms(c)
  BY <1>0, <1>1 DEF ClientInv, FrsmInv, OpenFrsms, server
<1>9. PipeInv(c)' /\ DownloadInv(c)' /\ DirectoryInv(c)'
  BY <1>4, <1>5 DEF PipeInv, DownloadInv, Gives, DirectoryInv, Continues, Returned, Idle
<1>10. BudgetInv(c)'
  BY <1>0, <1>1, <1>4, <1>5, <1>8, OpenFrsmsFinite
     DEF ClientInv, BudgetInv, Returned, Idle, TypeOK
<1>11. ResultInv(c)'
  <2>1. /\ throughout'[c] \subseteq Existing(store)' /\ opened'[c] = opened[c]
        /\ throughout'[c] = throughout[c] /\ anchorLost'[c] = anchorLost[c]
    BY <1>0, <1>1 DEF ClientInv, ResultInv, server, history, Existing
  <2>2. DirectoryComplete(c)'
    BY <1>4, <1>5, <2>1 DEF DirectoryComplete, Returned
  <2>3. (HandlerReturns \/ DownloadComplete(c))'
    BY <1>4, <1>5, <2>1 DEF DownloadComplete, Returned
  <2> QED BY <1>4, <1>5, <2>1, <2>2, <2>3 DEF ResultInv, Returned, Idle
<1>12. \A d \in Clients \ {c} : Untouched(d)
  BY <1>0, <1>1, <1>4 DEF Untouched, Returned, TypeOK, FInv, ClientInv, ResultInv, server, history
<1>13. ClientInv(c)'
  BY <1>8, <1>9, <1>10, <1>11 DEF ClientInv
<1> QED BY <1>6, <1>7, <1>12, <1>13, OneClient

(* An error, or the response to close, delete and rename, ends the call.   *)
LEMMA ReturnKept ==
  ASSUME FInv, NEW c \in Clients, ErrorReceived(c) \/ NullReceived(c)
  PROVE  FInv'
<1>0. TypeOK /\ ClientInv(c) /\ answer[c] \in Answers
  BY DEF FInv, TypeOK
<1>1. CASE ErrorReceived(c)
  <2>1. /\ Received(c, "error") /\ Return(c, answer[c].error, <<>>) /\ UNCHANGED wire
        /\ answer[c].error \in {"resource", "nonexistent", "other"}
    BY <1>0, <1>1 DEF ErrorReceived, Received, Answers, NoAnswer
  <2>2. <<>> \in Seq(Octet)
    BY EmptySeq
  <2> QED BY <2>1, <2>2, CallEnded
<1>2. CASE NullReceived(c)
  <2>1. /\ Received(c, "null") /\ Return(c, "none", call[c].got) /\ UNCHANGED wire
        /\ answer[c].kind = "null"
    BY <1>2 DEF NullReceived, Received
  <2>2. call[c].got \in Seq(Octet) \cup Seq(Names)
    BY <1>0 DEF TypeOK
  <2>3. call[c].op = "getFile" => HandlerReturns \/ call[c].got = Octets(opened[c])
    BY <1>0, <2>1 DEF ClientInv, DownloadInv, Gives
  <2>4. call[c].op # "getFileDirectory"
    BY <1>0, <2>1 DEF ClientInv, PipeInv, Answered
  <2> QED BY <2>1, <2>2, <2>3, <2>4, CallEnded
<1> QED BY <1>1, <1>2

(* A request is given up; its place in the budget of open files is that of *)
(* the time-out.                                                           *)
LEMMA TimeOutKept ==
  ASSUME FInv, NEW c \in Clients, TimeOut(c)
  PROVE  FInv'
<1> DEFINE given == [i \in DOMAIN wire[c] |-> [wire[c][i] EXCEPT !.awaited = FALSE]]
<1>0. TypeOK /\ HandlesInv /\ ClientInv(c)
  BY DEF FInv
<1>1. /\ wire[c] # <<>> /\ Last(wire[c]).awaited /\ Return(c, "timeout", <<>>)
      /\ timeouts' = [timeouts EXCEPT ![c] = @ + 1] /\ wire' = [wire EXCEPT ![c] = given]
      /\ UNCHANGED <<server, answer, changes, history>>
  BY DEF TimeOut, Waiting
<1>2. /\ wire[c] \in Seq(Requests) /\ Len(wire[c]) \in Nat \ {0} /\ DOMAIN wire[c] = 1..Len(wire[c])
      /\ \A i \in 1..Len(wire[c]) : wire[c][i] \in Requests
  BY <1>0, <1>1, EmptySeq, LenProperties, ElementOfSeq DEF TypeOK
<1>3. /\ given \in Seq(Requests) /\ Len(given) = Len(wire[c])
      /\ \A i \in 1..Len(wire[c]) : given[i] = [wire[c][i] EXCEPT !.awaited = FALSE]
  <2>1. \A i \in 1..Len(wire[c]) : [wire[c][i] EXCEPT !.awaited = FALSE] \in Requests
    BY <1>2 DEF Requests
  <2> QED BY <1>2, <2>1
<1> HIDE DEF given
<1>4. /\ wire' \in [Clients -> Seq(Requests)] /\ wire'[c] = given
      /\ \A d \in Clients \ {c} : wire'[d] = wire[d]
  BY <1>0, <1>1, <1>3 DEF TypeOK
<1>5. \A i \in 1..Len(wire[c]) :
        /\ ~wire'[c][i].awaited /\ wire'[c][i].service = wire[c][i].service
        /\ wire'[c][i].frsmId = wire[c][i].frsmId /\ wire'[c][i].name = wire[c][i].name
        /\ wire'[c][i].newName = wire[c][i].newName
  <2> DEFINE unawaited(r) == [r EXCEPT !.awaited = FALSE]
  <2>1. ASSUME NEW r \in Requests
        PROVE  /\ ~unawaited(r).awaited /\ unawaited(r).service = r.service
               /\ unawaited(r).frsmId = r.frsmId /\ unawaited(r).name = r.name
               /\ unawaited(r).newName = r.newName
    BY DEF Requests
  <2>2. \A i \in 1..Len(wire[c]) : wire'[c][i] = unawaited(wire[c][i])
    BY <1>3, <1>4
  <2> HIDE DEF unawaited
  <2> QED BY <1>2, <2>1, <2>2
<1>6. /\ call' \in [Clients -> [op : Operations \cup {"none"}, frsmId : Nat,
                                got : Seq(Octet) \cup Seq(Names)]]
      /\ result' \in [Clients -> [op : {"getFile", "getFileDirectory", "none"},
                error : {"none", "resource", "nonexistent", "other", "timeout", "lost"},
                got : Seq(Octet) \cup Seq(Names)]]
      /\ Returned(c, "timeout", <<>>)
  BY <1>0, <1>1, CallReturned, EmptySeq
<1>7. answer[c].kind = "none" /\ call[c].op \in Operations /\ result[c].op = "none"
  <2>1. answer[c].kind = "none"
    BY <1>0, <1>1 DEF ClientInv, PipeInv
  <2>2. wire[c][Len(wire[c])].awaited /\ Len(wire[c]) \in 1..Len(wire[c])
    BY <1>1, <1>2 DEF Last
  <2>3. wire[c][Len(wire[c])].service \in Asked(call[c].op)
    BY <1>0, <2>2 DEF ClientInv, PipeInv, Placed
  <2>4. call[c].op # "none"
    BY <2>3 DEF Asked
  <2> QED BY <1>0, <2>1, <2>4 DEF TypeOK, ClientInv, ResultInv
<1>8. TypeOK'
  <2>1. timeouts' \in [Clients -> Nat]
    BY <1>0, <1>1 DEF TypeOK
  <2> QED BY <1>0, <1>1, <1>4, <1>6, <2>1 DEF TypeOK, server, history
<1>9. HandlesInv'
  BY <1>0, <1>1, HandlesUntouched DEF server
<1>10. FrsmInv(c)' /\ OpenFrsms(c)' = OpenFrsms(c)
  BY <1>0, <1>1 DEF ClientInv, FrsmInv, OpenFrsms, server
<1>11. PipeInv(c)'
  <2>1. ASSUME NEW i \in 1..Len(wire[c])
        PROVE  Placed(wire'[c][i], i, Len(wire'[c]), call'[c].op, frsms'[c])
    <3>1. Placed(wire[c][i], i, Len(wire[c]), call[c].op, frsms[c])
      BY <1>0 DEF ClientInv, PipeInv
    <3> QED BY <1>1, <1>5, <3>1 DEF Placed, server
  <2> QED BY <1>1, <1>3, <1>4, <1>6, <1>7, <2>1 DEF PipeInv, Returned
<1>12. DownloadInv(c)' /\ DirectoryInv(c)'
  BY <1>6 DEF DownloadInv, Gives, DirectoryInv, Continues, Returned, Idle
<1>13. BudgetInv(c)'
  <2>1. Opens(wire'[c]) = Opens(wire[c])
    BY <1>3, <1>4, <1>5 DEF Opens
  <2>2. Cardinality(Opens(wire[c])) \in Nat
    BY <1>2, OpensCounted
  <2>3. timeouts'[c] = timeouts[c] + 1 /\ timeouts[c] \in Nat
    BY <1>0, <1>1 DEF TypeOK
  <2> QED BY <1>0, <1>6, <1>10, <2>1, <2>2, <2>3, OpenFrsmsFinite
          DEF ClientInv, BudgetInv, Returned, Idle
<1>14. ResultInv(c)'
  <2>1. throughout'[c] \subseteq Existing(store)'
    BY <1>0, <1>1 DEF ClientInv, ResultInv, server, history, Existing
  <2> QED BY <1>6, <1>7, <2>1
          DEF ResultInv, Returned, Idle, DownloadComplete, DirectoryComplete
<1>15. \A d \in Clients \ {c} : Untouched(d)
  BY <1>0, <1>1, <1>4, <1>6
     DEF Untouched, Returned, TypeOK, FInv, ClientInv, ResultInv, server, history
<1>16. ClientInv(c)'
  BY <1>10, <1>11, <1>12, <1>13, <1>14 DEF ClientInv
<1> QED BY <1>8, <1>9, <1>15, <1>16, OneClient

(* The server closes what is open when it ends the connection.             *)
LEMMA ConnectionLostKept ==
  ASSUME FInv, NEW c \in Clients, ConnectionLost(c)
  PROVE  FInv'
<1>0. TypeOK /\ HandlesInv /\ ClientInv(c)
  BY DEF FInv
<1>1. /\ handles' = handles - Cardinality(OpenFrsms(c))
      /\ frsms' = [frsms EXCEPT ![c] = [s \in Slots |-> FreeFrsm]]
      /\ nextFrsmId' = [nextFrsmId EXCEPT ![c] = 0] /\ wire' = [wire EXCEPT ![c] = <<>>]
      /\ answer' = [answer EXCEPT ![c] = NoAnswer] /\ timeouts' = [timeouts EXCEPT ![c] = 0]
      /\ Return(c, "lost", <<>>) /\ UNCHANGED <<store, changes, history>>
  BY DEF ConnectionLost, MmsServerConnection_destroy
<1>2. /\ call' \in [Clients -> [op : Operations \cup {"none"}, frsmId : Nat,
                                got : Seq(Octet) \cup Seq(Names)]]
      /\ result' \in [Clients -> [op : {"getFile", "getFileDirectory", "none"},
                error : {"none", "resource", "nonexistent", "other", "timeout", "lost"},
                got : Seq(Octet) \cup Seq(Names)]]
      /\ Returned(c, "lost", <<>>)
  BY <1>0, <1>1, CallReturned, EmptySeq
<1>3. /\ OpenFrsms(c)' = {} /\ wire'[c] = <<>> /\ Len(wire'[c]) = 0 /\ timeouts'[c] = 0
      /\ answer'[c].kind = "none"
      /\ \A d \in Clients \ {c} :
           /\ frsms'[d] = frsms[d] /\ nextFrsmId'[d] = nextFrsmId[d] /\ wire'[d] = wire[d]
           /\ answer'[d] = answer[d] /\ timeouts'[d] = timeouts[d]
           /\ OpenFrsms(d)' = OpenFrsms(d)
  BY <1>0, <1>1, EmptySeq DEF TypeOK, OpenFrsms, FreeFrsm, NoAnswer
<1>4. HandlesInv' /\ handles' \in Nat
  <2> DEFINE closed == {c} \X OpenFrsms(c)
             pair == [s \in OpenFrsms(c) |-> <<c, s>>]
  <2>1. IsFiniteSet(OpenFrsms(c)) /\ Cardinality(OpenFrsms(c)) \in Nat
    BY OpenFrsmsFinite
  <2>2. pair \in Bijection(OpenFrsms(c), closed)
    <3>1. \A s \in OpenFrsms(c) : pair[s] = <<c, s>> /\ pair[s] \in closed
      OBVIOUS
    <3>2. pair \in [OpenFrsms(c) -> closed]
      BY <3>1
    <3>3. ASSUME NEW x \in closed PROVE \E s \in OpenFrsms(c) : pair[s] = x
      <4>1. PICK s \in OpenFrsms(c) : x = <<c, s>>
        OBVIOUS
      <4> QED BY <3>1, <4>1
    <3> HIDE DEF pair, closed
    <3> QED BY <3>1, <3>2, <3>3 DEF Bijection, Injection, Surjection, IsInjective
  <2>3. IsFiniteSet(closed) /\ Cardinality(closed) = Cardinality(OpenFrsms(c))
    <3> HIDE DEF closed, pair
    <3>1. ExistsBijection(OpenFrsms(c), closed)
      BY <2>2 DEF ExistsBijection
    <3> QED BY <2>1, <3>1, FS_Bijection
  <2>4. closed \in SUBSET AllOpen /\ AllOpen' = AllOpen \ closed
    <3>1. closed \in SUBSET AllOpen
      BY DEF AllOpen, OpenFrsms
    <3>2. ASSUME NEW x \in Clients \X Slots
          PROVE  x[2] \in OpenFrsms(x[1])' <=> x[2] \in OpenFrsms(x[1]) /\ x \notin closed
      <4>1. PICK d \in Clients, s \in Slots : x = <<d, s>>
        OBVIOUS
      <4>2. s \in OpenFrsms(d)' <=> s \in OpenFrsms(d) /\ <<d, s>> \notin closed
        <5>1. CASE d = c
          BY <1>3, <5>1
        <5>2. CASE d # c
          BY <1>3, <5>2
        <5> QED BY <5>1, <5>2
      <4> QED BY <4>1, <4>2
    <3> HIDE DEF closed
    <3> QED BY <3>1, <3>2 DEF AllOpen
  <2> HIDE DEF closed
  <2>5. /\ IsFiniteSet(AllOpen \ closed)
        /\ Cardinality(AllOpen \ closed) =
             Cardinality(AllOpen) - Cardinality(AllOpen \cap closed)
    BY <1>0, <2>3, FS_Difference DEF HandlesInv
  <2>6. AllOpen \cap closed = closed
    BY <2>4
  <2>7. Cardinality(AllOpen \ closed) \in Nat
    BY <2>5, FS_CardinalityType
  <2> QED BY <1>0, <1>1, <2>3, <2>4, <2>5, <2>6, <2>7 DEF HandlesInv
<1>5. TypeOK'
  <2>1. frsms' \in [Clients -> [Slots -> Frsms]]
    <3>1. [s \in Slots |-> FreeFrsm] \in [Slots -> Frsms]
      BY DEF FreeFrsm, Frsms
    <3> QED BY <1>0, <1>1, <3>1 DEF TypeOK
  <2>2. nextFrsmId' \in [Clients -> Nat] /\ timeouts' \in [Clients -> Nat]
    BY <1>0, <1>1 DEF TypeOK
  <2>3. wire' \in [Clients -> Seq(Requests)] /\ answer' \in [Clients -> Answers]
    BY <1>0, <1>1, EmptySeq DEF TypeOK, Answers
  <2> QED BY <1>0, <1>1, <1>2, <1>4, <2>1, <2>2, <2>3 DEF TypeOK, history
<1>6. FrsmInv(c)'
  BY <1>3 DEF FrsmInv
<1>7. PipeInv(c)' /\ DownloadInv(c)' /\ DirectoryInv(c)'
  BY <1>2, <1>3 DEF PipeInv, DownloadInv, Gives, DirectoryInv, Continues, Returned, Idle
<1>8. BudgetInv(c)'
  <2>1. Cardinality(Opens(<<>>)) = 0
    BY OpensCounted, EmptySeq
  <2> QED BY <1>2, <1>3, <2>1, FS_EmptySet DEF BudgetInv, Returned, Idle
<1>9. ResultInv(c)'
  <2>1. throughout'[c] \subseteq Existing(store)'
    BY <1>0, <1>1 DEF ClientInv, ResultInv, history, Existing
  <2>2. /\ DownloadComplete(c) \/ HandlerReturns
        /\ DirectoryComplete(c) /\ opened' = opened /\ throughout' = throughout
        /\ anchorLost' = anchorLost
    BY <1>0, <1>1 DEF ClientInv, ResultInv, history
  <2>3. (HandlerReturns \/ DownloadComplete(c))' /\ DirectoryComplete(c)'
    BY <1>2, <2>2 DEF Returned, DownloadComplete, DirectoryComplete
  <2> QED BY <1>2, <1>3, <2>1, <2>3 DEF ResultInv, Returned, Idle
<1>10. \A d \in Clients \ {c} : Untouched(d)
  BY <1>0, <1>1, <1>2, <1>3
     DEF Untouched, Returned, TypeOK, FInv, ClientInv, ResultInv, history
<1>11. ClientInv(c)'
  BY <1>6, <1>7, <1>8, <1>9 DEF ClientInv
<1> QED BY <1>4, <1>5, <1>10, <1>11, OneClient

(* What Send leaves on an empty wire.                                      *)
LEMMA OnlyRequest ==
  ASSUME TypeOK, NEW c \in Clients, NEW request \in Requests, Send(c, request), wire[c] = <<>>
  PROVE  /\ Len(wire'[c]) = 1 /\ wire'[c][1] = request
         /\ \A i \in 1..Len(wire'[c]) : wire'[c][i] = request
<1>1. Len(wire[c]) = 0 /\ 0 + 1 = 1
  BY EmptySeq
<1>2. Len(wire'[c]) = Len(wire[c]) + 1 /\ wire'[c][Len(wire[c]) + 1] = request
  BY Sent
<1>3. Len(wire'[c]) = 1 /\ wire'[c][1] = request
  BY <1>1, <1>2
<1> QED BY <1>3

(* A positive answer that is followed by the next request of the call.     *)
LEMMA FollowedUp ==
  ASSUME FInv, NEW c \in Clients, NEW kind \in {"opened", "data", "entries"},
         Received(c, kind), NEW request \in Requests, Send(c, request),
         request.awaited, request.service \in Asked(call[c].op) \cap {"read", "close", "directory"},
         request.service \in {"read", "close"} => IdOpen(c, request.frsmId),
         NEW newCall \in [op : {call[c].op}, frsmId : Nat, got : Seq(Octet) \cup Seq(Names)],
         call' = [call EXCEPT ![c] = newCall], result' = result,
         DownloadInv(c)', DirectoryInv(c)'
  PROVE  FInv'
<1>0. TypeOK /\ HandlesInv /\ ClientInv(c)
  BY DEF FInv
<1>1. /\ answer[c].kind = kind /\ answer' = [answer EXCEPT ![c] = NoAnswer]
      /\ UNCHANGED <<server, timeouts, changes, history>>
  BY DEF Received
<1>2. /\ wire[c] = <<>> /\ Len(wire[c]) = 0 /\ answer'[c].kind = "none"
      /\ call[c].op \in Operations /\ result[c].op = "none" /\ call'[c].op = call[c].op
  <2>1. wire[c] = <<>> /\ kind \in Answered(call[c].op)
    BY <1>0, <1>1 DEF ClientInv, PipeInv
  <2>2. call[c].op # "none"
    BY <2>1 DEF Answered
  <2>3. answer'[c].kind = "none" /\ call'[c] = newCall
    BY <1>0, <1>1 DEF TypeOK, NoAnswer
  <2> QED BY <1>0, <2>1, <2>2, <2>3, EmptySeq DEF TypeOK, ClientInv, ResultInv
<1>3. /\ wire' \in [Clients -> Seq(Requests)]
      /\ \A d \in Clients \ {c} : wire'[d] = wire[d]
      /\ Len(wire'[c]) = 1 /\ wire'[c][1] = request
      /\ Cardinality(Opens(wire[c])) \in Nat
      /\ Cardinality(Opens(wire'[c])) = Cardinality(Opens(wire[c]))
  <2>1. /\ wire' \in [Clients -> Seq(Requests)]
        /\ \A d \in Clients \ {c} : wire'[d] = wire[d]
        /\ Cardinality(Opens(wire[c])) \in Nat
        /\ Cardinality(Opens(wire'[c])) =
             Cardinality(Opens(wire[c])) + IF request.service = "open" THEN 1 ELSE 0
    BY <1>0, Sent
  <2>2. Len(wire'[c]) = 1 /\ wire'[c][1] = request
    BY <1>0, <1>2, OnlyRequest
  <2> QED BY <2>1, <2>2
<1>4. TypeOK'
  <2>1. answer' \in [Clients -> Answers]
    BY <1>0, <1>1 DEF TypeOK, Answers
  <2>2. call' \in [Clients -> [op : Operations \cup {"none"}, frsmId : Nat,
                               got : Seq(Octet) \cup Seq(Names)]]
    BY <1>0, <1>2 DEF TypeOK
  <2> QED BY <1>0, <1>1, <1>3, <2>1, <2>2 DEF TypeOK, server, history
<1>5. HandlesInv'
  BY <1>0, <1>1, HandlesUntouched DEF server
<1>6. FrsmInv(c)' /\ OpenFrsms(c)' = OpenFrsms(c)
  BY <1>0, <1>1 DEF ClientInv, FrsmInv, OpenFrsms, server
<1>7. PipeInv(c)'
  <2>1. Placed(request, 1, 1, call'[c].op, frsms'[c])
    BY <1>1, <1>2 DEF Placed, IdOpen, server
  <2> QED BY <1>2, <1>3, <2>1 DEF PipeInv, Operations
<1>8. BudgetInv(c)'
  BY <1>0, <1>1, <1>2, <1>3, <1>6 DEF ClientInv, BudgetInv
<1>9. ResultInv(c)'
  <2>1. throughout'[c] \subseteq Existing(store)'
    BY <1>0, <1>1 DEF ClientInv, ResultInv, server, history, Existing
  <2> QED BY <1>2, <2>1 DEF ResultInv, DownloadComplete, DirectoryComplete
<1>10. \A d \in Clients \ {c} : Untouched(d)
  BY <1>0, <1>1, <1>3
     DEF Untouched, TypeOK, FInv, ClientInv, ResultInv, server, history
<1>11. ClientInv(c)'
  BY <1>6, <1>7, <1>8, <1>9 DEF ClientInv
<1> QED BY <1>4, <1>5, <1>10, <1>11, OneClient

(* The client reads the file it has opened.                                *)
LEMMA FileOpenedKept ==
  ASSUME FInv, NEW c \in Clients, FileOpened(c)
  PROVE  FInv'
<1> DEFINE id == answer[c].frsmId
           request == [Asking("read") EXCEPT !.frsmId = id]
           newCall == [call[c] EXCEPT !.frsmId = id]
<1>0. TypeOK /\ HandlesInv /\ ClientInv(c)
  BY DEF FInv
<1>1. /\ Received(c, "opened") /\ call' = [call EXCEPT ![c] = newCall] /\ Send(c, request)
      /\ result' = result /\ answer[c].kind = "opened"
      /\ answer' = [answer EXCEPT ![c] = NoAnswer] /\ frsms' = frsms /\ opened' = opened
  BY <1>0 DEF FileOpened, ReadOn, Received, TypeOK, server, history
<1>2. /\ wire[c] = <<>> /\ call[c].op = "getFile" /\ call[c].got = <<>>
      /\ Reading(c, id, <<>>)
  BY <1>0, <1>1 DEF ClientInv, PipeInv, Answered, DownloadInv, Gives, Reading
<1>3. id \in Nat
  <2>1. answer[c] \in Answers
    BY <1>0 DEF TypeOK
  <2> QED BY <1>1, <2>1 DEF Answers, NoAnswer
<1>4. /\ newCall \in [op : {call[c].op}, frsmId : Nat, got : Seq(Octet) \cup Seq(Names)]
      /\ newCall.op = "getFile" /\ newCall.frsmId = id /\ newCall.got = <<>>
      /\ call'[c] = newCall
  BY <1>0, <1>1, <1>2, <1>3 DEF TypeOK
<1>5. /\ request \in Requests /\ request.awaited /\ request.service = "read"
      /\ request.frsmId = id
  BY <1>3 DEF Asking, Requests, Services, None
<1>6. request.service \in Asked(call[c].op) \cap {"read", "close", "directory"}
  BY <1>2, <1>5 DEF Asked, Services
<1>7. IdOpen(c, id)
  BY <1>2 DEF Reading, ReadFrom, IdOpen, OpenIn
<1> HIDE DEF id, request, newCall
<1>8. (\A i \in 1..Len(wire'[c]) : wire'[c][i] = request) /\ answer'[c].kind = "none"
  BY <1>0, <1>1, <1>2, <1>5, OnlyRequest DEF TypeOK, NoAnswer
<1>9. DownloadInv(c)' /\ DirectoryInv(c)'
  BY <1>1, <1>2, <1>4, <1>5, <1>8 DEF DownloadInv, Gives, DirectoryInv, Continues, Reading
<1> QED BY <1>1, <1>4, <1>5, <1>6, <1>7, <1>9, FollowedUp

(* The client takes a chunk, and reads on or closes the file.              *)
LEMMA FileReadKept ==
  ASSUME FInv, NEW c \in Clients, FileRead(c)
  PROVE  FInv'
<1> DEFINE id == call[c].frsmId
           all == call[c].got \o answer[c].data
           last == HandlerReturns \/ ~answer[c].moreFollows
           service == IF last THEN "close" ELSE "read"
           request == [Asking(service) EXCEPT !.frsmId = id]
           newCall == [call[c] EXCEPT !.got = all]
<1>0. TypeOK /\ HandlesInv /\ ClientInv(c)
  BY DEF FInv
<1>1. /\ Received(c, "data") /\ call' = [call EXCEPT ![c] = newCall] /\ Send(c, request)
      /\ result' = result /\ answer[c].kind = "data"
      /\ answer' = [answer EXCEPT ![c] = NoAnswer] /\ frsms' = frsms /\ opened' = opened
  BY <1>0 DEF FileRead, ReadOn, CloseFile, Received, TypeOK, server, history
<1>2. /\ wire[c] = <<>> /\ call[c].op = "getFile" /\ Reading(c, id, all)
      /\ answer[c].moreFollows \/ all = Octets(opened[c])
  BY <1>0, <1>1 DEF ClientInv, PipeInv, Answered, DownloadInv, Gives, Reading
<1>3. IdOpen(c, id) /\ all \in Seq(Octet)
  <2>1. PICK s \in Slots :
          /\ opened[c] # NoFile /\ frsms[c][s].fileHandle = opened[c] /\ frsms[c][s].frsmId = id
          /\ all = FirstOctets(opened[c], frsms[c][s].readPosition)
    BY <1>2 DEF Reading, ReadFrom
  <2>2. frsms[c][s].readPosition \in Nat /\ opened[c] \in Contents \cup {NoFile}
    BY <1>0 DEF TypeOK, Frsms
  <2>3. \A i \in 1..frsms[c][s].readPosition : <<opened[c], i>> \in Octet
    BY <2>2 DEF Octet
  <2>4. FirstOctets(opened[c], frsms[c][s].readPosition) \in Seq(Octet)
    BY <2>2, <2>3 DEF FirstOctets
  <2>5. IdOpen(c, id)
    BY <2>1 DEF IdOpen, OpenIn
  <2> QED BY <2>1, <2>4, <2>5
<1> HIDE DEF all
<1>4. /\ newCall \in [op : {call[c].op}, frsmId : Nat, got : Seq(Octet) \cup Seq(Names)]
      /\ newCall.op = "getFile" /\ newCall.frsmId = id /\ newCall.got = all
      /\ call'[c] = newCall /\ id \in Nat
  BY <1>0, <1>1, <1>2, <1>3 DEF TypeOK
<1>5. /\ request \in Requests /\ request.awaited /\ request.service = service
      /\ request.frsmId = id /\ service \in {"read", "close"}
      /\ service = "close" => last
  <2>1. service \in {"read", "close"} /\ (service = "close" => last)
    OBVIOUS
  <2> HIDE DEF service, id
  <2> QED BY <1>4, <2>1 DEF Asking, Requests, Services, None
<1>6. request.service \in Asked(call[c].op) \cap {"read", "close", "directory"}
  <2> HIDE DEF request, service
  <2> QED BY <1>2, <1>5 DEF Asked, Services
<1> HIDE DEF id, request, newCall, service
<1>8. (\A i \in 1..Len(wire'[c]) : wire'[c][i] = request) /\ answer'[c].kind = "none"
  BY <1>0, <1>1, <1>2, <1>5, OnlyRequest DEF TypeOK, NoAnswer
<1>9. DownloadInv(c)' /\ DirectoryInv(c)'
  BY <1>1, <1>2, <1>4, <1>5, <1>8 DEF DownloadInv, Gives, DirectoryInv, Continues, Reading
<1> QED BY <1>1, <1>3, <1>4, <1>5, <1>6, <1>9, FollowedUp

(* The loop of IedConnection_getFileDirectory goes on behind the last name *)
(* it has, or returns the names.                                           *)
LEMMA DirectoryReceivedKept ==
  ASSUME FInv, NEW c \in Clients, DirectoryReceived(c)
  PROVE  FInv'
<1> DEFINE names == call[c].got \o answer[c].names
           request == [Asking("directory") EXCEPT !.name = Last(names)]
           newCall == [call[c] EXCEPT !.got = names]
<1>0. TypeOK /\ HandlesInv /\ ClientInv(c)
  BY DEF FInv
<1>1. /\ Received(c, "entries") /\ answer[c].kind = "entries"
      /\ answer' = [answer EXCEPT ![c] = NoAnswer]
      /\ throughout' = throughout /\ anchorLost' = anchorLost
  BY DEF DirectoryReceived, Received, history
<1>2. wire[c] = <<>> /\ call[c].op = "getFileDirectory"
  BY <1>0, <1>1 DEF ClientInv, PipeInv, Answered
<1>3. /\ ListedTo(c, names)
      /\ answer[c].moreFollows => answer[c].names # <<>>
      /\ ~answer[c].moreFollows => anchorLost[c] \/ throughout[c] \subseteq Range(names)
  BY <1>0, <1>1, <1>2 DEF ClientInv, DirectoryInv, Continues, ListedTo
<1>4. names \in Seq(Names) /\ Increasing(names)
  BY <1>3 DEF ListedTo, Lists
<1>5. CASE answer[c].moreFollows
  <2>1. names # <<>>
    <3>1. answer[c].names \in Seq(Names) /\ call[c].got \in Seq(Names)
      <4>1. answer[c] \in Answers
        BY <1>0 DEF TypeOK
      <4>2. call[c].got \in Seq(Names)
        BY <1>0, <1>2 DEF ClientInv, DirectoryInv, Continues, ListedTo, Lists
      <4> QED BY <1>1, <4>1, <4>2 DEF Answers, NoAnswer
    <3> QED BY <1>3, <1>5, <3>1, ConcatEqualIffEmpty
  <2> HIDE DEF names
  <2>2. Last(names) \in Names
    <3>1. Len(names) \in 1..Len(names)
      BY <1>4, <2>1, EmptySeq
    <3> QED BY <1>4, <3>1, ElementOfSeq DEF Last
  <2>3. /\ call' = [call EXCEPT ![c] = newCall] /\ Send(c, request) /\ result' = result
    BY <1>0, <1>5 DEF DirectoryReceived, TypeOK, names
  <2>4. /\ newCall \in [op : {call[c].op}, frsmId : Nat, got : Seq(Octet) \cup Seq(Names)]
        /\ newCall.op = "getFileDirectory" /\ newCall.got = names /\ call'[c] = newCall
    BY <1>0, <1>2, <1>4, <2>3 DEF TypeOK
  <2>5. /\ request \in Requests /\ request.awaited /\ request.service = "directory"
        /\ request.name = Last(names)
    BY <2>2 DEF Asking, Requests, Services, None
  <2>6. request.service \in Asked(call[c].op) \cap {"read", "close", "directory"}
    BY <1>2, <2>5 DEF Asked, Services
  <2> HIDE DEF request, newCall
  <2>7. (\A i \in 1..Len(wire'[c]) : wire'[c][i] = request) /\ answer'[c].kind = "none"
    BY <1>0, <1>1, <1>2, <2>3, <2>5, OnlyRequest DEF TypeOK, NoAnswer
  <2>8. DownloadInv(c)' /\ DirectoryInv(c)'
    BY <1>1, <1>2, <1>3, <2>1, <2>4, <2>5, <2>7 DEF DownloadInv, Gives, DirectoryInv, Continues, ListedTo, Lists
  <2> QED BY <1>1, <2>3, <2>4, <2>5, <2>6, <2>8, FollowedUp
<1>6. CASE ~answer[c].moreFollows
  <2>1. Return(c, "none", names) /\ UNCHANGED wire
    BY <1>6 DEF DirectoryReceived
  <2> HIDE DEF names
  <2>2. IsInjective(names)
    <3>1. \A i \in DOMAIN names : names[i] \in Nat
      BY <1>4, FileAssumption DEF Names
    <3>2. DOMAIN names = 1..Len(names)
      BY <1>4, LenProperties
    <3>3. ASSUME NEW i \in DOMAIN names, NEW j \in DOMAIN names, names[i] = names[j]
          PROVE  i = j
      <4>1. i < j \/ j < i \/ i = j
        BY <3>2
      <4> QED BY <1>4, <3>1, <3>3, <4>1 DEF Increasing
    <3> QED BY <3>3 DEF IsInjective
  <2> QED BY <1>1, <1>2, <1>3, <1>4, <1>6, <2>1, <2>2, CallEnded
<1> QED BY <1>5, <1>6

\* What a handler may do for the files of the other connections.
OthersKept(c) ==
  /\ UNCHANGED client
  /\ \A d \in Clients \ {c} :
       /\ frsms'[d] = frsms[d] /\ nextFrsmId'[d] = nextFrsmId[d]
       /\ opened'[d] = opened[d] /\ anchorLost'[d] = anchorLost[d]
  /\ \A d \in Clients :
       throughout'[d] \subseteq throughout[d] /\ throughout'[d] \subseteq Existing(store')

(* A handler keeps the invariant when its response is what the call that   *)
(* waits for it may get, and when the files it opens were budgeted for.    *)
LEMMA Handled ==
  ASSUME FInv, NEW c \in Clients, wire[c] # <<>>, NEW response, Respond(c, response),
         wire[c][1].awaited =>
           /\ response \in Answers /\ response.kind \in Answered(call[c].op)
           /\ call[c].op = "getFile" =>
                Gives(frsms'[c], opened'[c], call[c].frsmId, call[c].got, response)
           /\ call[c].op = "getFileDirectory" =>
                Continues(throughout'[c], anchorLost'[c], call[c].got, response),
         store' \in [Names -> Contents \cup {NoFile}], frsms' \in [Clients -> [Slots -> Frsms]],
         nextFrsmId' \in [Clients -> Nat], handles' \in Nat,
         opened' \in [Clients -> Contents \cup {NoFile}],
         throughout' \in [Clients -> SUBSET Names], anchorLost' \in [Clients -> BOOLEAN],
         anchorLost[c] => anchorLost'[c],
         OthersKept(c), HandlesInv', FrsmInv(c)',
         Cardinality(OpenFrsms(c)') <=
           Cardinality(OpenFrsms(c)) + (IF wire[c][1].service = "open" THEN 1 ELSE 0)
             - (IF wire[c][1].awaited /\ call[c].op = "getFile"
                   /\ response.kind \in {"null", "error"} THEN 1 ELSE 0)
  PROVE  FInv'
<1>0. TypeOK /\ HandlesInv /\ ClientInv(c) /\ PipeInv(c)
  BY DEF FInv, ClientInv
<1>1. UNCHANGED <<call, result, timeouts, changes>>
  BY DEF OthersKept, client
<1>2. /\ wire' \in [Clients -> Seq(Requests)] /\ answer' \in [Clients -> Answers]
      /\ \A d \in Clients \ {c} : wire'[d] = wire[d] /\ answer'[d] = answer[d]
      /\ answer[c].kind = "none"
      /\ Len(wire[c]) \in Nat \ {0} /\ Len(wire'[c]) = Len(wire[c]) - 1
      /\ \A i \in 1..Len(wire'[c]) :
           wire'[c][i] = wire[c][i + 1] /\ wire'[c][i].service \notin {"read", "close"}
      /\ IF wire[c][1].awaited
           THEN Len(wire[c]) = 1 /\ wire'[c] = <<>> /\ answer'[c] = response
           ELSE answer'[c] = answer[c]
      /\ PipeInv(c)'
      /\ Cardinality(Opens(wire'[c])) =
           Cardinality(Opens(wire[c])) - IF wire[c][1].service = "open" THEN 1 ELSE 0
  BY <1>0, <1>1, Responded
<1>3. TypeOK'
  BY <1>0, <1>1, <1>2 DEF TypeOK
<1>4. BudgetInv(c)'
  <2>1. /\ Cardinality(OpenFrsms(c)) \in Nat /\ timeouts[c] \in Nat /\ timeouts'[c] = timeouts[c]
        /\ Cardinality(Opens(wire[c])) \in Nat /\ call'[c].op = call[c].op
    BY <1>0, <1>1, OpenFrsmsFinite, OpensCounted DEF TypeOK
  <2>2. Cardinality(OpenFrsms(c)) + Cardinality(Opens(wire[c])) <=
          timeouts[c] + (IF call[c].op = "getFile" THEN 1 ELSE 0)
    BY <1>0, <1>2 DEF ClientInv, BudgetInv
  <2> DEFINE opens == IF wire[c][1].service = "open" THEN 1 ELSE 0
             budget == timeouts[c] + (IF call[c].op = "getFile" THEN 1 ELSE 0)
             freed == Cardinality(OpenFrsms(c)) - Cardinality(OpenFrsms(c)')
  <2>3. opens \in Int /\ budget \in Int
    BY <2>1
  <2>4. /\ Cardinality(Opens(wire'[c])) = Cardinality(Opens(wire[c])) - opens
        /\ Cardinality(OpenFrsms(c)) + Cardinality(Opens(wire[c])) <= budget
    BY <1>2, <2>2
  <2>5. freed \in Int /\ Cardinality(OpenFrsms(c)') = Cardinality(OpenFrsms(c)) - freed
    BY OpenFrsmsFinite
  <2>6. opens + freed >= IF wire[c][1].awaited /\ call[c].op = "getFile"
                               /\ response.kind \in {"null", "error"} THEN 1 ELSE 0
    BY OpenFrsmsFinite
  <2> HIDE DEF opens, freed
  <2> DEFINE total == Cardinality(OpenFrsms(c)') + Cardinality(Opens(wire'[c]))
  <2>7. total <= budget - (opens + freed)
    <3> HIDE DEF budget
    <3> QED BY <2>5, <2>1, <2>3, <2>4
  <2>8. total \in Int
    <3>1. wire'[c] \in Seq(Requests)
      BY <1>2
    <3> QED BY <3>1, OpenFrsmsFinite, OpensCounted
  <2>9. \A t, b, o, f, n \in Int :
           t <= b - (o + f) /\ o + f >= n => t <= b - n
    OBVIOUS
  <2>10. CASE wire[c][1].awaited /\ call[c].op = "getFile" /\ response.kind \in {"null", "error"}
    <3>1. answer'[c].kind \in {"null", "error"} /\ opens + freed >= 1
      BY <1>2, <2>5, <2>3, <2>6, <2>10
    <3>2. total <= budget - 1
      <4> HIDE DEF budget, total
      <4> QED BY <2>5, <2>3, <2>7, <2>8, <2>9, <3>1
    <3> QED BY <2>1, <2>10, <3>1, <3>2 DEF BudgetInv
  <2>11. CASE ~(wire[c][1].awaited /\ call[c].op = "getFile" /\ response.kind \in {"null", "error"})
    <3>1. opens + freed >= 0
      BY <2>5, <2>3, <2>6, <2>11
    <3>2. call[c].op = "getFile" => answer'[c].kind \notin {"null", "error"}
      BY <1>2, <2>11
    <3>3. total <= budget - 0
      <4> HIDE DEF budget, total
      <4> QED BY <2>5, <2>3, <2>7, <2>8, <2>9, <3>1
    <3> QED BY <2>1, <3>2, <3>3 DEF BudgetInv
  <2> QED BY <2>10, <2>11
<1>5. \A i \in 1..Len(wire'[c]) : i + 1 \in 1..Len(wire[c])
  BY <1>2
<1>6. DownloadInv(c)'
  <2> SUFFICES ASSUME call[c].op = "getFile"
               PROVE  /\ \A i \in 1..Len(wire'[c]) : wire'[c][i].awaited =>
                           (wire'[c][i].service = "open" => call[c].got = <<>>)
                      /\ Gives(frsms'[c], opened'[c], call[c].frsmId, call[c].got, answer'[c])
    BY <1>1, <1>2 DEF DownloadInv
  <2>1. \A i \in 1..Len(wire'[c]) : wire'[c][i].awaited =>
          (wire'[c][i].service = "open" => call[c].got = <<>>)
    <3>1. ASSUME NEW i \in 1..Len(wire'[c]), wire'[c][i].awaited, wire'[c][i].service = "open"
          PROVE  call[c].got = <<>>
      <4>1. i + 1 \in 1..Len(wire[c]) /\ wire'[c][i] = wire[c][i + 1]
        BY <1>2, <1>5
      <4> QED BY <1>0, <3>1, <4>1 DEF ClientInv, DownloadInv
    <3> QED BY <3>1
  <2>2. Gives(frsms'[c], opened'[c], call[c].frsmId, call[c].got, answer'[c])
    <3>1. CASE wire[c][1].awaited
      BY <1>2, <3>1
    <3>2. CASE ~wire[c][1].awaited
      BY <1>2, <3>2 DEF Gives
    <3> QED BY <3>1, <3>2
  <2> QED BY <2>1, <2>2
<1>7. DirectoryInv(c)'
  <2> SUFFICES ASSUME call[c].op = "getFileDirectory"
               PROVE  /\ Lists(throughout'[c], anchorLost'[c], call[c].got)
                      /\ \A i \in 1..Len(wire'[c]) : wire'[c][i].awaited =>
                           wire'[c][i].name = IF call[c].got = <<>> THEN None ELSE Last(call[c].got)
                      /\ Continues(throughout'[c], anchorLost'[c], call[c].got, answer'[c])
    BY <1>1 DEF DirectoryInv, ListedTo
  <2>1. Lists(throughout[c], anchorLost[c], call[c].got)
    BY <1>0 DEF ClientInv, DirectoryInv, ListedTo
  <2>2. Lists(throughout'[c], anchorLost'[c], call[c].got)
    BY <2>1 DEF Lists, OthersKept
  <2>3. \A i \in 1..Len(wire'[c]) : wire'[c][i].awaited =>
          wire'[c][i].name = IF call[c].got = <<>> THEN None ELSE Last(call[c].got)
    <3>1. ASSUME NEW i \in 1..Len(wire'[c]), wire'[c][i].awaited
          PROVE  wire'[c][i].name = IF call[c].got = <<>> THEN None ELSE Last(call[c].got)
      <4>1. i + 1 \in 1..Len(wire[c]) /\ wire'[c][i] = wire[c][i + 1]
        BY <1>2, <1>5
      <4> QED BY <1>0, <3>1, <4>1 DEF ClientInv, DirectoryInv
    <3> QED BY <3>1
  <2>4. Continues(throughout'[c], anchorLost'[c], call[c].got, answer'[c])
    <3>1. CASE wire[c][1].awaited
      BY <1>2, <3>1
    <3>2. CASE ~wire[c][1].awaited
      BY <1>2, <3>2 DEF Continues
    <3> QED BY <3>1, <3>2
  <2> QED BY <2>2, <2>3, <2>4
<1>8. ResultInv(c)'
  <2>1. result[c].op = "getFile" => result[c].error # "none"
    BY <1>0 DEF ClientInv, ResultInv
  <2>2. DirectoryComplete(c) /\ throughout'[c] \subseteq throughout[c]
    BY <1>0 DEF ClientInv, ResultInv, OthersKept
  <2>3. DirectoryComplete(c)'
    BY <1>1, <2>2 DEF DirectoryComplete
  <2>4. result[c].op # "none" => call[c].op = "none"
    BY <1>0 DEF ClientInv, ResultInv
  <2> QED BY <1>1, <2>1, <2>3, <2>4 DEF ResultInv, DownloadComplete, OthersKept
<1>9. \A d \in Clients \ {c} : Untouched(d)
  BY <1>1, <1>2 DEF Untouched, OthersKept
<1>10. ClientInv(c)'
  BY <1>2, <1>4, <1>6, <1>7, <1>8 DEF ClientInv
<1> QED BY <1>3, <1>9, <1>10, OneClient

(* What the request in front may be.                                       *)
LEMMA InFront ==
  ASSUME FInv, NEW c \in Clients, wire[c] # <<>>
  PROVE  /\ wire[c][1] \in Requests
         /\ Placed(wire[c][1], 1, Len(wire[c]), call[c].op, frsms[c])
         /\ Cardinality(OpenFrsms(c)) \in Nat
<1>1. wire[c] \in Seq(Requests) /\ PipeInv(c)
  BY DEF FInv, TypeOK, ClientInv
<1>2. 1 \in 1..Len(wire[c])
  BY <1>1, EmptySeq
<1> QED BY <1>1, <1>2, ElementOfSeq, OpenFrsmsFinite DEF PipeInv

(* A handler that opens and closes nothing leaves the open files and their *)
(* count as they are.                                                      *)
LEMMA FilesUntouched ==
  ASSUME FInv, NEW c \in Clients, UNCHANGED <<frsms, nextFrsmId, handles, opened>>
  PROVE  /\ HandlesInv' /\ FrsmInv(c)'
         /\ Cardinality(OpenFrsms(c)') = Cardinality(OpenFrsms(c))
         /\ Cardinality(OpenFrsms(c)) \in Nat
<1>1. OpenFrsms(c)' = OpenFrsms(c)
  BY DEF OpenFrsms
<1>2. FrsmInv(c)'
  BY <1>1 DEF FInv, ClientInv, FrsmInv
<1> QED BY <1>1, <1>2, HandlesUntouched, OpenFrsmsFinite DEF FInv

(* The names of the store change under the calls of every client.          *)
LEMMA NamesChangeKept ==
  ASSUME FInv, NEW c \in Clients, handleFileDeleteRequest(c) \/ handleFileRenameRequest(c)
  PROVE  FInv'
<1>0. TypeOK
  BY DEF FInv
<1>1. wire[c] # <<>> /\ wire[c][1].service \in {"delete", "rename"}
  BY DEF handleFileDeleteRequest, handleFileRenameRequest, Request
<1>2. /\ wire[c][1].service \in {"delete", "rename"}
      /\ wire[c][1].name \in Names
      /\ wire[c][1].service = "rename" => wire[c][1].newName \in Names
      /\ wire[c][1].awaited => call[c].op \in {"delete", "rename"}
  BY <1>1, InFront DEF Placed, Asked
<1>3. PICK response \in {NullResponse, Error("nonexistent"), Error("other")} : Respond(c, response)
  BY DEF handleFileDeleteRequest, handleFileRenameRequest
<1>4. response \in Answers /\ response.kind \in {"null", "error"}
  BY DEF NullResponse, Error, Answers
<1>5. wire[c][1].awaited => response.kind \in Answered(call[c].op)
  BY <1>2, <1>4 DEF Answered
<1>6. /\ UNCHANGED <<frsms, nextFrsmId, handles, client, opened, anchorLost>>
      /\ store' \in [Names -> Contents \cup {NoFile}]
      /\ throughout' \in [Clients -> SUBSET Names]
      /\ \A d \in Clients :
           throughout'[d] \subseteq throughout[d] /\ throughout'[d] \subseteq Existing(store')
  <2>1. CASE handleFileDeleteRequest(c)
    <3>1. /\ store' = [store EXCEPT ![wire[c][1].name] = NoFile] /\ Witnessed
          /\ UNCHANGED <<frsms, nextFrsmId, handles, client, opened, anchorLost>>
      BY <2>1 DEF handleFileDeleteRequest
    <3>2. store' \in [Names -> Contents \cup {NoFile}]
      BY <1>0, <3>1 DEF TypeOK
    <3> QED BY <1>0, <3>1, <3>2 DEF TypeOK, Witnessed
  <2>2. CASE handleFileRenameRequest(c)
    <3>1. UNCHANGED <<frsms, nextFrsmId, handles, client, opened, anchorLost>>
      BY <2>2 DEF handleFileRenameRequest
    <3>2. CASE store[wire[c][1].name] = NoFile
      <4>1. UNCHANGED <<store, throughout>>
        BY <2>2, <3>2 DEF handleFileRenameRequest
      <4>2. \A d \in Clients : throughout[d] \subseteq Existing(store)
        BY DEF FInv, ClientInv, ResultInv
      <4> QED BY <1>0, <3>1, <4>1, <4>2 DEF TypeOK, Existing
    <3>3. CASE store[wire[c][1].name] # NoFile
      <4>1. /\ store' = [[store EXCEPT ![wire[c][1].name] = NoFile]
                          EXCEPT ![wire[c][1].newName] = store[wire[c][1].name]]
            /\ Witnessed
        BY <2>2, <3>3 DEF handleFileRenameRequest
      <4>2. store' \in [Names -> Contents \cup {NoFile}]
        BY <1>0, <1>2, <4>1 DEF TypeOK
      <4> QED BY <1>0, <3>1, <4>1, <4>2 DEF TypeOK, Witnessed
    <3> QED BY <3>2, <3>3
  <2> QED BY <2>1, <2>2
<1>7. OthersKept(c)
  BY <1>6 DEF OthersKept
<1>8. /\ HandlesInv' /\ FrsmInv(c)' /\ Cardinality(OpenFrsms(c)') = Cardinality(OpenFrsms(c))
      /\ Cardinality(OpenFrsms(c)) \in Nat
  BY <1>6, FilesUntouched
<1>9. Cardinality(OpenFrsms(c)') <=
        Cardinality(OpenFrsms(c)) + (IF wire[c][1].service = "open" THEN 1 ELSE 0)
          - (IF wire[c][1].awaited /\ call[c].op = "getFile"
                /\ response.kind \in {"null", "error"} THEN 1 ELSE 0)
  BY <1>2, <1>8
<1>10. /\ frsms' \in [Clients -> [Slots -> Frsms]] /\ nextFrsmId' \in [Clients -> Nat]
       /\ handles' \in Nat /\ opened' \in [Clients -> Contents \cup {NoFile}]
       /\ anchorLost' \in [Clients -> BOOLEAN] /\ (anchorLost[c] => anchorLost'[c])
  BY <1>0, <1>6 DEF TypeOK
<1>11. wire[c][1].awaited =>
           /\ response \in Answers /\ response.kind \in Answered(call[c].op)
           /\ call[c].op = "getFile" =>
                Gives(frsms'[c], opened'[c], call[c].frsmId, call[c].got, response)
           /\ call[c].op = "getFileDirectory" =>
                Continues(throughout'[c], anchorLost'[c], call[c].got, response)
  BY <1>2, <1>4, <1>5
<1> QED BY <1>1, <1>3, <1>6, <1>7, <1>8, <1>9, <1>10, <1>11, Handled

(* A page put behind the names that were got.                              *)
LEMMA PageAppended ==
  ASSUME NEW got \in Seq(Names), NEW names \in Seq(Names), Increasing(got), Increasing(names),
         got # <<>> => \A i \in 1..Len(names) : names[i] > Last(got)
  PROVE  /\ got \o names \in Seq(Names) /\ Increasing(got \o names)
         /\ \A i \in 1..Len(got) : got[i] \in Range(got \o names)
         /\ \A i \in 1..Len(names) : names[i] \in Range(got \o names)
         /\ names = <<>> => got \o names = got
         /\ names # <<>> => Last(got \o names) = Last(names) /\ got \o names # <<>>
<1> DEFINE all == got \o names
<1>1. /\ all \in Seq(Names) /\ Len(all) = Len(got) + Len(names)
      /\ \A i \in 1..Len(got) + Len(names) :
           all[i] = IF i <= Len(got) THEN got[i] ELSE names[i - Len(got)]
      /\ Len(got) \in Nat /\ Len(names) \in Nat /\ Len(all) \in Nat
      /\ DOMAIN all = 1..Len(all) /\ DOMAIN got = 1..Len(got) /\ DOMAIN names = 1..Len(names)
  BY ConcatProperties, LenProperties
<1>2. /\ \A i \in 1..Len(got) : got[i] \in Nat
      /\ \A i \in 1..Len(names) : names[i] \in Nat
  <2>1. Names \subseteq Nat
    BY FileAssumption DEF Names
  <2>2. \A i \in 1..Len(got) : got[i] \in Names
    BY ElementOfSeq
  <2>3. \A i \in 1..Len(names) : names[i] \in Names
    BY ElementOfSeq
  <2> QED BY <2>1, <2>2, <2>3
<1> HIDE DEF all
<1>3. \A i \in 1..Len(got) : i \in DOMAIN all /\ all[i] = got[i]
  BY <1>1
<1>4. ASSUME NEW i \in 1..Len(names)
      PROVE  i + Len(got) \in DOMAIN all /\ all[i + Len(got)] = names[i]
  <2>1. i + Len(got) \in 1..Len(got) + Len(names) /\ ~(i + Len(got) <= Len(got))
        /\ (i + Len(got)) - Len(got) = i
    BY <1>1
  <2> QED BY <1>1, <2>1
<1>5. Increasing(all)
  <2>1. ASSUME NEW i \in DOMAIN all, NEW j \in DOMAIN all, i < j PROVE all[i] < all[j]
    <3>1. i \in 1..Len(got) + Len(names) /\ j \in 1..Len(got) + Len(names)
      BY <1>1
    <3>2. CASE j <= Len(got)
      <4>1. i \in 1..Len(got) /\ j \in 1..Len(got)
        BY <1>1, <2>1, <3>1, <3>2
      <4> QED BY <1>1, <1>3, <2>1, <4>1 DEF Increasing
    <3>3. CASE ~(j <= Len(got)) /\ i <= Len(got)
      <4>1. i \in 1..Len(got) /\ j - Len(got) \in 1..Len(names) /\ got # <<>>
        BY <1>1, <3>1, <3>3, EmptySeq
      <4>2. Last(got) = got[Len(got)] /\ Len(got) \in 1..Len(got)
        BY <1>1, <4>1 DEF Last
      <4>3. got[i] <= got[Len(got)]
        <5>1. i < Len(got) \/ i = Len(got)
          BY <1>1, <4>1
        <5>2. i < Len(got) => got[i] < got[Len(got)]
          BY <1>1, <4>1, <4>2 DEF Increasing
        <5> QED BY <1>2, <4>1, <4>2, <5>1, <5>2
      <4>4. names[j - Len(got)] > Last(got)
        BY <4>1
      <4>5. all[i] = got[i] /\ all[j] = names[j - Len(got)]
        BY <1>1, <3>1, <3>3
      <4> QED BY <1>2, <4>1, <4>2, <4>3, <4>4, <4>5
    <3>4. CASE ~(j <= Len(got)) /\ ~(i <= Len(got))
      <4>1. /\ i - Len(got) \in 1..Len(names) /\ j - Len(got) \in 1..Len(names)
            /\ i - Len(got) < j - Len(got)
        BY <1>1, <2>1, <3>1, <3>4
      <4>2. names[i - Len(got)] < names[j - Len(got)]
        BY <1>1, <4>1 DEF Increasing
      <4>3. all[i] = names[i - Len(got)] /\ all[j] = names[j - Len(got)]
        BY <1>1, <3>1, <3>4
      <4> QED BY <4>2, <4>3
    <3> QED BY <3>2, <3>3, <3>4
  <2> QED BY <2>1 DEF Increasing
<1>6. names = <<>> => all = got
  BY ConcatEmptySeq DEF all
<1>7. names # <<>> => Last(all) = Last(names) /\ all # <<>>
  <2> SUFFICES ASSUME names # <<>> PROVE Last(all) = Last(names) /\ all # <<>>
    OBVIOUS
  <2>1. Len(names) \in 1..Len(names) /\ Len(names) + Len(got) = Len(all)
    BY <1>1, EmptySeq
  <2>2. all[Len(all)] = names[Len(names)]
    BY <1>4, <2>1
  <2>3. all # <<>>
    BY <1>1, <2>1, EmptySeq
  <2> QED BY <2>2, <2>3 DEF Last
<1> QED BY <1>1, <1>3, <1>4, <1>5, <1>6, <1>7 DEF Range, all

(* A page continues the listing, or its anchor is lost and it is empty.    *)
LEMMA PageContinues ==
  ASSUME TypeOK, NEW files \in SUBSET Existing(store), NEW lost \in BOOLEAN, NEW got,
         Lists(files, lost, got),
         NEW after, after = IF got = <<>> THEN None ELSE Last(got)
  PROVE  /\ Page(store, after) \in Answers /\ Page(store, after).kind = "entries"
         /\ Continues(files, lost \/ (after # None /\ after \notin Existing(store)), got,
                      Page(store, after))
<1> DEFINE page == Page(store, after)
<1>1. got \in Seq(Names) /\ Increasing(got)
  BY DEF Lists
<1>2. got # <<>> => Len(got) \in 1..Len(got) /\ after = got[Len(got)] /\ after \in Names
  <2> SUFFICES ASSUME got # <<>>
               PROVE  Len(got) \in 1..Len(got) /\ after = got[Len(got)] /\ after \in Names
    OBVIOUS
  <2>1. Len(got) \in 1..Len(got)
    BY <1>1, EmptySeq
  <2> QED BY <1>1, <2>1, ElementOfSeq DEF Last
<1>3. after \in Names \cup {None} /\ (after = None <=> got = <<>>)
  BY <1>2, FileAssumption DEF Names, None
<1>4. Names \subseteq Nat
  BY FileAssumption DEF Names
<1>5. CASE after = None \/ store[after] # NoFile
  <2>1. /\ page.kind = "entries" /\ page.names \in Seq(Names) /\ page.moreFollows \in BOOLEAN
        /\ Increasing(page.names)
        /\ \A i \in 1..Len(page.names) : page.names[i] > after
        /\ \A n \in Existing(store) :
             n > after /\ (page.moreFollows => page.names # <<>> /\ n <= Last(page.names))
               => \E i \in 1..Len(page.names) : page.names[i] = n
        /\ page.moreFollows => page.names # <<>>
    BY <1>3, <1>5, PageLists
  <2>2. page \in Answers
    <3>1. page = [kind |-> page.kind, names |-> page.names, moreFollows |-> page.moreFollows]
      BY DEF Page
    <3>2. page \in [kind : {"entries"}, names : Seq(Names), moreFollows : BOOLEAN]
      <4> HIDE DEF page
      <4> QED BY <2>1, <3>1
    <3> QED BY <3>2 DEF Answers
  <2> DEFINE all == got \o page.names
  <2> HIDE DEF page
  <2>3. /\ all \in Seq(Names) /\ Increasing(all)
        /\ \A i \in 1..Len(got) : got[i] \in Range(all)
        /\ \A i \in 1..Len(page.names) : page.names[i] \in Range(all)
        /\ page.names = <<>> => all = got
        /\ page.names # <<>> => Last(all) = Last(page.names) /\ all # <<>>
    BY <1>1, <1>2, <2>1, PageAppended DEF Last
  <2>4. ASSUME ~lost, NEW n \in files,
               n > after => (page.moreFollows => page.names # <<>> /\ n <= Last(page.names))
        PROVE  n \in Range(all)
    <3>1. n \in Existing(store) /\ n \in Nat /\ after \in Nat /\ n > None
      BY <1>3, <1>4, FileAssumption DEF Existing, None, Names
    <3>2. CASE n > after
      <4>1. PICK i \in 1..Len(page.names) : page.names[i] = n
        BY <2>1, <2>4, <3>1, <3>2
      <4> QED BY <2>3, <4>1
    <3>3. CASE ~(n > after)
      <4>1. got # <<>> /\ n <= Last(got)
        BY <1>3, <3>1, <3>3
      <4>2. n \in Range(got)
        BY <2>4, <4>1 DEF Lists
      <4>3. DOMAIN got = 1..Len(got)
        BY <1>1, LenProperties
      <4> QED BY <2>3, <4>2, <4>3 DEF Range
    <3> QED BY <3>2, <3>3
  <2>5. ~lost /\ ~page.moreFollows => files \subseteq Range(all)
    BY <2>4
  <2>6. ASSUME ~lost, NEW n \in files, all # <<>>, n <= Last(all) PROVE n \in Range(all)
    <3>1. CASE page.names # <<>>
      BY <2>3, <2>4, <2>6, <3>1
    <3>2. CASE page.names = <<>>
      <4>1. ~page.moreFollows
        BY <2>1, <3>2
      <4> QED BY <2>5, <2>6, <4>1
    <3> QED BY <3>1, <3>2
  <2>7. Continues(files, lost, got, page)
    <3>1. Lists(files, lost, all)
      BY <2>3, <2>6 DEF Lists
    <3> QED BY <2>1, <2>5, <3>1 DEF Continues
  <2>8. (lost \/ (after # None /\ after \notin Existing(store))) = lost
    BY <1>3, <1>5 DEF Existing
  <2> QED BY <2>1, <2>2, <2>7, <2>8 DEF page
<1>6. CASE after # None /\ store[after] = NoFile
  <2>1. page = [kind |-> "entries", names |-> <<>>, moreFollows |-> FALSE]
    <3>1. IsFiniteSet({}) /\ Cardinality({}) = 0 /\ {} \in SUBSET Nat
      BY FS_EmptySet
    <3>2. InOrder({}) \in Seq({}) /\ Len(InOrder({})) = 0
      BY <3>1, Listing
    <3>3. PageSize \in Nat /\ Min({PageSize, 0}) = 0
      <4>1. PageSize \in Nat
        BY FileAssumption
      <4>2. Min({PageSize, 0}) \in {PageSize, 0} /\ Min({PageSize, 0}) <= 0
        BY <4>1, MinOfTwo
      <4> QED BY <4>1, <4>2
    <3>4. SubSeq(InOrder({}), 1, 0) = <<>>
      BY SubSeqEmpty
    <3>5. (0 < 0) = FALSE
      OBVIOUS
    <3> QED BY <1>6, <3>2, <3>3, <3>4, <3>5 DEF Page
  <2>2. <<>> \in Seq(Names)
    BY EmptySeq
  <2>3. page \in Answers /\ page.kind = "entries" /\ page.names = <<>> /\ ~page.moreFollows
    <3> HIDE DEF page
    <3>1. page \in [kind : {"entries"}, names : Seq(Names), moreFollows : BOOLEAN]
      BY <2>1, <2>2
    <3> QED BY <2>1, <3>1 DEF Answers
  <2>4. after \notin Existing(store)
    BY <1>6 DEF Existing
  <2>5. got \o page.names = got
    BY <1>1, <2>3, ConcatEmptySeq
  <2> HIDE DEF page
  <2> QED BY <1>1, <1>6, <2>3, <2>4, <2>5 DEF Continues, Lists, page
<1> QED BY <1>3, <1>5, <1>6

(* The directory is read; a lost anchor is noted for the call that waits.  *)
LEMMA DirectoryKept ==
  ASSUME FInv, NEW c \in Clients, handleFileDirectoryRequest(c)
  PROVE  FInv'
<1> DEFINE after == wire[c][1].name
           response == Page(store, after)
<1>0. TypeOK /\ ClientInv(c)
  BY DEF FInv
<1>1. /\ wire[c] # <<>> /\ wire[c][1].service = "directory" /\ Respond(c, response)
      /\ anchorLost' = [anchorLost EXCEPT ![c] =
           @ \/ (wire[c][1].awaited /\ after # None /\ after \notin Existing(store))]
      /\ UNCHANGED <<store, frsms, nextFrsmId, handles, client, opened, throughout>>
  BY DEF handleFileDirectoryRequest, Request, server
<1>2. wire[c][1].awaited =>
        /\ call[c].op = "getFileDirectory"
        /\ after = IF call[c].got = <<>> THEN None ELSE Last(call[c].got)
        /\ ListedTo(c, call[c].got)
  <2> SUFFICES ASSUME wire[c][1].awaited
               PROVE  /\ call[c].op = "getFileDirectory"
                      /\ after = IF call[c].got = <<>> THEN None ELSE Last(call[c].got)
                      /\ ListedTo(c, call[c].got)
    OBVIOUS
  <2>1. call[c].op = "getFileDirectory"
    BY <1>1, InFront DEF Placed, Asked
  <2>2. 1 \in 1..Len(wire[c])
    <3>1. wire[c] \in Seq(Requests)
      BY <1>0 DEF TypeOK
    <3> QED BY <1>1, <3>1, EmptySeq
  <2> QED BY <1>0, <2>1, <2>2 DEF ClientInv, DirectoryInv
<1> DEFINE lost == anchorLost[c] \/ (wire[c][1].awaited /\ after # None /\ after \notin Existing(store))
<1>3. /\ anchorLost' \in [Clients -> BOOLEAN] /\ anchorLost'[c] = lost
      /\ \A d \in Clients \ {c} : anchorLost'[d] = anchorLost[d]
  <2>1. lost \in BOOLEAN /\ anchorLost' = [anchorLost EXCEPT ![c] = lost]
    BY <1>1
  <2> HIDE DEF lost
  <2> QED BY <1>0, <2>1, Zenon DEF TypeOK
<1>4. /\ throughout[c] \subseteq Existing(store)
      /\ \A d \in Clients : throughout[d] \subseteq Existing(store)
  BY DEF FInv, ClientInv, ResultInv
<1>5. OthersKept(c)
  BY <1>1, <1>3, <1>4 DEF OthersKept, Existing
<1>6. /\ HandlesInv' /\ FrsmInv(c)' /\ Cardinality(OpenFrsms(c)') = Cardinality(OpenFrsms(c))
      /\ Cardinality(OpenFrsms(c)) \in Nat
  BY <1>1, FilesUntouched
<1>7. ASSUME wire[c][1].awaited
      PROVE  /\ response \in Answers /\ response.kind = "entries"
             /\ Continues(throughout'[c], anchorLost'[c], call[c].got, response)
  <2>1. anchorLost[c] \in BOOLEAN /\ Lists(throughout[c], anchorLost[c], call[c].got)
    BY <1>0, <1>2, <1>7 DEF TypeOK, ListedTo
  <2>2. /\ response \in Answers /\ response.kind = "entries"
        /\ Continues(throughout[c], anchorLost[c] \/ (after # None /\ after \notin Existing(store)),
                     call[c].got, response)
    <3> HIDE DEF response, after
    <3> QED BY <1>0, <1>2, <1>4, <1>7, <2>1, PageContinues DEF response
  <2>3. lost = (anchorLost[c] \/ (after # None /\ after \notin Existing(store)))
    BY <1>7
  <2> HIDE DEF lost, response, after
  <2> QED BY <1>1, <1>3, <2>2, <2>3
<1>8. wire[c][1].awaited =>
           /\ response \in Answers /\ response.kind \in Answered(call[c].op)
           /\ call[c].op = "getFile" =>
                Gives(frsms'[c], opened'[c], call[c].frsmId, call[c].got, response)
           /\ call[c].op = "getFileDirectory" =>
                Continues(throughout'[c], anchorLost'[c], call[c].got, response)
  <2> HIDE DEF response
  <2> QED BY <1>2, <1>7 DEF Answered
<1>9. Cardinality(OpenFrsms(c)') <=
        Cardinality(OpenFrsms(c)) + (IF wire[c][1].service = "open" THEN 1 ELSE 0)
          - (IF wire[c][1].awaited /\ call[c].op = "getFile"
                /\ response.kind \in {"null", "error"} THEN 1 ELSE 0)
  <2> HIDE DEF response
  <2> QED BY <1>1, <1>2, <1>6
<1>10. /\ store' \in [Names -> Contents \cup {NoFile}]
       /\ frsms' \in [Clients -> [Slots -> Frsms]] /\ nextFrsmId' \in [Clients -> Nat]
       /\ handles' \in Nat /\ opened' \in [Clients -> Contents \cup {NoFile}]
       /\ throughout' \in [Clients -> SUBSET Names]
  BY <1>0, <1>1 DEF TypeOK
<1>11. anchorLost[c] => anchorLost'[c]
  BY <1>3
<1> HIDE DEF response, lost
<1> QED BY <1>1, <1>3, <1>5, <1>6, <1>8, <1>9, <1>10, <1>11, Handled

(* One state machine is opened, moved or closed.                           *)
LEMMA FrsmChanged ==
  ASSUME FInv, NEW c \in Clients, NEW slot \in Slots, NEW frsm \in Frsms,
         frsms' = [frsms EXCEPT ![c][slot] = frsm],
         slot \in OpenFrsms(c) \/ frsm.fileHandle # NoFile
  PROVE  LET opens == slot \notin OpenFrsms(c)
             closes == frsm.fileHandle = NoFile
             change == IF opens THEN 1 ELSE IF closes THEN -1 ELSE 0
         IN /\ frsms' \in [Clients -> [Slots -> Frsms]]
            /\ frsms'[c][slot] = frsm
            /\ \A s \in Slots \ {slot} : frsms'[c][s] = frsms[c][s]
            /\ \A d \in Clients \ {c} : frsms'[d] = frsms[d]
            /\ OpenFrsms(c)' = IF closes THEN OpenFrsms(c) \ {slot} ELSE OpenFrsms(c) \cup {slot}
            /\ Cardinality(OpenFrsms(c)) \in Nat
            /\ Cardinality(OpenFrsms(c)') = Cardinality(OpenFrsms(c)) + change
            /\ handles' = handles + change => HandlesInv' /\ handles' \in Nat
<1>0. TypeOK /\ HandlesInv
  BY DEF FInv
<1>1. /\ frsms' \in [Clients -> [Slots -> Frsms]] /\ frsms'[c][slot] = frsm
      /\ \A s \in Slots \ {slot} : frsms'[c][s] = frsms[c][s]
      /\ \A d \in Clients \ {c} : frsms'[d] = frsms[d]
  BY <1>0 DEF TypeOK
<1> DEFINE opens == slot \notin OpenFrsms(c)
           closes == frsm.fileHandle = NoFile
           change == IF opens THEN 1 ELSE IF closes THEN -1 ELSE 0
           pair == <<c, slot>>
<1>2. /\ OpenFrsms(c)' = IF closes THEN OpenFrsms(c) \ {slot} ELSE OpenFrsms(c) \cup {slot}
      /\ \A d \in Clients \ {c} : OpenFrsms(d)' = OpenFrsms(d)
  BY <1>1 DEF OpenFrsms
<1>3. /\ IsFiniteSet(OpenFrsms(c)) /\ Cardinality(OpenFrsms(c)) \in Nat
      /\ IsFiniteSet(AllOpen) /\ Cardinality(AllOpen) \in Nat /\ handles = Cardinality(AllOpen)
  BY <1>0, OpenFrsmsFinite, FS_CardinalityType DEF HandlesInv
<1>4. AllOpen' = IF closes THEN AllOpen \ {pair} ELSE AllOpen \cup {pair}
  <2>1. pair \in Clients \X Slots
    OBVIOUS
  <2>2. ASSUME NEW x \in Clients \X Slots
        PROVE  x[2] \in OpenFrsms(x[1])' <=>
                 IF closes THEN x[2] \in OpenFrsms(x[1]) /\ x # pair
                 ELSE x[2] \in OpenFrsms(x[1]) \/ x = pair
    <3>1. PICK d \in Clients, s \in Slots : x = <<d, s>>
      OBVIOUS
    <3>2. CASE d = c
      BY <1>2, <3>1, <3>2
    <3>3. CASE d # c
      <4>1. x # pair
        BY <3>1, <3>3
      <4>2. OpenFrsms(d)' = OpenFrsms(d)
        BY <1>2, <3>3
      <4> QED BY <3>1, <4>1, <4>2
    <3> QED BY <3>2, <3>3
  <2>3. AllOpen \subseteq Clients \X Slots /\ AllOpen' \subseteq Clients \X Slots
    BY DEF AllOpen
  <2>4. ASSUME NEW x \in Clients \X Slots
        PROVE  x \in AllOpen' <=> IF closes THEN x \in AllOpen /\ x # pair
                                  ELSE x \in AllOpen \/ x = pair
    <3>1. /\ x \in AllOpen <=> x[2] \in OpenFrsms(x[1])
          /\ x \in AllOpen' <=> x[2] \in OpenFrsms(x[1])'
      BY DEF AllOpen
    <3> HIDE DEF pair, closes
    <3> QED BY <2>2, <3>1
  <2> HIDE DEF pair
  <2> QED BY <2>1, <2>3, <2>4
<1>5. pair \in AllOpen <=> ~opens
  BY DEF AllOpen
<1> HIDE DEF pair
<1>6. /\ Cardinality(OpenFrsms(c)') = Cardinality(OpenFrsms(c)) + change
      /\ IsFiniteSet(AllOpen') /\ Cardinality(AllOpen') = Cardinality(AllOpen) + change
  <2>1. CASE closes
    <3>1. /\ Cardinality(OpenFrsms(c) \ {slot}) = Cardinality(OpenFrsms(c)) - 1
          /\ IsFiniteSet(AllOpen \ {pair}) /\ Cardinality(AllOpen \ {pair}) = Cardinality(AllOpen) - 1
          /\ change = -1
      BY <1>3, <1>5, <2>1, FS_RemoveElement
    <3>2. OpenFrsms(c)' = OpenFrsms(c) \ {slot} /\ AllOpen' = AllOpen \ {pair}
      BY <1>2, <1>4, <2>1
    <3> HIDE DEF change
    <3> QED BY <1>3, <3>1, <3>2
  <2>2. CASE ~closes
    <3> HIDE DEF opens
    <3>1. change = IF opens THEN 1 ELSE 0
      BY <2>2
    <3>2. /\ IsFiniteSet(AllOpen \cup {pair})
          /\ Cardinality(AllOpen \cup {pair}) = Cardinality(AllOpen) + (IF opens THEN 1 ELSE 0)
      <4>1. /\ IsFiniteSet(AllOpen \cup {pair})
            /\ Cardinality(AllOpen \cup {pair}) =
                 IF pair \in AllOpen THEN Cardinality(AllOpen) ELSE Cardinality(AllOpen) + 1
        BY <1>3, FS_AddElement
      <4> QED BY <1>3, <1>5, <4>1
    <3>3. Cardinality(OpenFrsms(c) \cup {slot}) = Cardinality(OpenFrsms(c)) + (IF opens THEN 1 ELSE 0)
      <4>1. Cardinality(OpenFrsms(c) \cup {slot}) =
              IF slot \in OpenFrsms(c) THEN Cardinality(OpenFrsms(c)) ELSE Cardinality(OpenFrsms(c)) + 1
        BY <1>3, FS_AddElement
      <4> QED BY <1>3, <4>1 DEF opens
    <3>4. /\ Cardinality(OpenFrsms(c) \cup {slot}) = Cardinality(OpenFrsms(c)) + change
          /\ IsFiniteSet(AllOpen \cup {pair})
          /\ Cardinality(AllOpen \cup {pair}) = Cardinality(AllOpen) + change
      BY <3>1, <3>2, <3>3
    <3>5. OpenFrsms(c)' = OpenFrsms(c) \cup {slot} /\ AllOpen' = AllOpen \cup {pair}
      BY <1>2, <1>4, <2>2
    <3> HIDE DEF change
    <3> QED BY <3>4, <3>5
  <2> QED BY <2>1, <2>2
<1>7. handles' = handles + change => HandlesInv' /\ handles' \in Nat
  <2> SUFFICES ASSUME handles' = handles + change PROVE HandlesInv' /\ handles' \in Nat
    OBVIOUS
  <2>1. handles' = Cardinality(AllOpen')
    BY <1>3, <1>6
  <2>2. Cardinality(AllOpen') \in Nat
    BY <1>6, FS_CardinalityType
  <2> QED BY <1>6, <2>1, <2>2 DEF HandlesInv
<1> QED BY <1>1, <1>2, <1>3, <1>6, <1>7

(* A file is opened for the request, and counted.                          *)
LEMMA FileOpenKept ==
  ASSUME FInv, NEW c \in Clients, handleFileOpenRequest(c)
  PROVE  FInv'
<1> DEFINE slot == getFreeFrsm(c)
           content == store[wire[c][1].name]
<1>0. TypeOK /\ ClientInv(c) /\ \A d \in Clients : throughout[d] \subseteq Existing(store)
  BY DEF FInv, ClientInv, ResultInv
<1>1. /\ wire[c] # <<>> /\ wire[c][1].service = "open"
      /\ UNCHANGED <<client, throughout, anchorLost, store>>
  BY DEF handleFileOpenRequest, Request, server
<1>2. /\ wire[c][1].name \in Names
      /\ wire[c][1].awaited => call[c].op = "getFile" /\ call[c].got = <<>>
  <2>1. wire[c][1].name \in Names /\ (wire[c][1].awaited => call[c].op = "getFile")
    BY <1>1, InFront DEF Placed, Asked
  <2>2. 1 \in 1..Len(wire[c])
    <3>1. wire[c] \in Seq(Requests)
      BY <1>0 DEF TypeOK
    <3> QED BY <1>1, <3>1, EmptySeq
  <2> QED BY <1>0, <1>1, <2>1, <2>2 DEF ClientInv, DownloadInv
<1>3. /\ store' \in [Names -> Contents \cup {NoFile}]
      /\ throughout' \in [Clients -> SUBSET Names] /\ anchorLost' \in [Clients -> BOOLEAN]
      /\ anchorLost[c] => anchorLost'[c]
      /\ \A d \in Clients :
           throughout'[d] \subseteq throughout[d] /\ throughout'[d] \subseteq Existing(store')
  BY <1>0, <1>1 DEF TypeOK, Existing
<1>4. CASE slot = None \/ content = NoFile
  <2>1. PICK response \in {Error("resource"), Error("nonexistent")} : Respond(c, response)
    BY <1>4 DEF handleFileOpenRequest
  <2>2. UNCHANGED <<frsms, nextFrsmId, handles, opened>>
    BY <1>4 DEF handleFileOpenRequest, server
  <2>3. response \in Answers /\ response.kind = "error"
    BY DEF Error, Answers
  <2>4. /\ HandlesInv' /\ FrsmInv(c)' /\ Cardinality(OpenFrsms(c)') = Cardinality(OpenFrsms(c))
        /\ Cardinality(OpenFrsms(c)) \in Nat
    BY <2>2, FilesUntouched
  <2>5. /\ frsms' \in [Clients -> [Slots -> Frsms]] /\ nextFrsmId' \in [Clients -> Nat]
        /\ handles' \in Nat /\ opened' \in [Clients -> Contents \cup {NoFile}]
    BY <1>0, <2>2 DEF TypeOK
  <2>6. OthersKept(c)
    BY <1>1, <1>3, <2>2 DEF OthersKept
  <2>7. wire[c][1].awaited =>
           /\ response \in Answers /\ response.kind \in Answered(call[c].op)
           /\ call[c].op = "getFile" =>
                Gives(frsms'[c], opened'[c], call[c].frsmId, call[c].got, response)
           /\ call[c].op = "getFileDirectory" =>
                Continues(throughout'[c], anchorLost'[c], call[c].got, response)
    BY <1>2, <2>3 DEF Answered, Gives
  <2>8. Cardinality(OpenFrsms(c)') <=
          Cardinality(OpenFrsms(c)) + (IF wire[c][1].service = "open" THEN 1 ELSE 0)
            - (IF wire[c][1].awaited /\ call[c].op = "getFile"
                  /\ response.kind \in {"null", "error"} THEN 1 ELSE 0)
    BY <1>1, <2>4
  <2> QED BY <1>1, <1>3, <2>1, <2>4, <2>5, <2>6, <2>7, <2>8, Handled
<1>5. CASE ~(slot = None \/ content = NoFile)
  <2> DEFINE frsm == createFileOpenResponse(c, content)
             response == [kind |-> "opened", frsmId |-> nextFrsmId[c]]
  <2>1. /\ frsms' = [frsms EXCEPT ![c][slot] = frsm]
        /\ nextFrsmId' = [nextFrsmId EXCEPT ![c] = @ + 1]
        /\ handles' = handles + 1 /\ opened' = [opened EXCEPT ![c] = content]
        /\ Respond(c, response)
    BY <1>5 DEF handleFileOpenRequest
  <2>2. content \in Contents /\ Size[content] \in Nat /\ nextFrsmId[c] \in Nat
    BY <1>0, <1>2, <1>5, FileAssumption DEF TypeOK
  <2>3. /\ frsm \in Frsms /\ frsm.fileHandle = content /\ frsm.frsmId = nextFrsmId[c]
        /\ frsm.taken = 0 /\ frsm.readPosition = 0 /\ frsm.fileSize = Size[content]
        /\ content # NoFile
    BY <2>2, FileAssumption DEF createFileOpenResponse, Frsms
  <2>4. slot \in Slots /\ slot \notin OpenFrsms(c)
    BY <1>5, FreeFrsmFound
  <2> HIDE DEF slot, content, frsm
  <2>5. /\ frsms' \in [Clients -> [Slots -> Frsms]] /\ frsms'[c][slot] = frsm
        /\ \A s \in Slots \ {slot} : frsms'[c][s] = frsms[c][s]
        /\ \A d \in Clients \ {c} : frsms'[d] = frsms[d]
        /\ OpenFrsms(c)' = OpenFrsms(c) \cup {slot}
        /\ Cardinality(OpenFrsms(c)) \in Nat
        /\ Cardinality(OpenFrsms(c)') = Cardinality(OpenFrsms(c)) + 1
        /\ HandlesInv' /\ handles' \in Nat
    BY <2>1, <2>3, <2>4, FrsmChanged
  <2>6. /\ nextFrsmId' \in [Clients -> Nat] /\ nextFrsmId'[c] = nextFrsmId[c] + 1
        /\ opened' \in [Clients -> Contents \cup {NoFile}] /\ opened'[c] = content
        /\ \A d \in Clients \ {c} : nextFrsmId'[d] = nextFrsmId[d] /\ opened'[d] = opened[d]
    BY <1>0, <2>1, <2>2 DEF TypeOK
  <2>7. FrsmInv(c)'
    <3>1. FrsmInv(c) /\ \A s \in OpenFrsms(c) : s \in Slots \ {slot} /\ frsms[c][s].frsmId \in Nat
      BY <1>0, <2>4 DEF ClientInv, OpenFrsms, TypeOK, Frsms
    <3>2. ASSUME NEW s \in OpenFrsms(c)'
          PROVE  /\ frsms'[c][s].frsmId < nextFrsmId'[c]
                 /\ frsms'[c][s].fileSize = Size[frsms'[c][s].fileHandle]
                 /\ frsms'[c][s].taken = frsms'[c][s].readPosition
                 /\ frsms'[c][s].readPosition <= frsms'[c][s].fileSize
      <4>1. CASE s = slot
        BY <2>2, <2>3, <2>5, <2>6, <4>1
      <4>2. CASE s # slot
        <5>1. s \in OpenFrsms(c) /\ frsms'[c][s] = frsms[c][s]
          BY <2>5, <3>1, <4>2
        <5> QED BY <2>2, <2>6, <3>1, <5>1 DEF FrsmInv
      <4> QED BY <4>1, <4>2
    <3>3. ASSUME NEW s \in OpenFrsms(c)', NEW t \in OpenFrsms(c)',
                 frsms'[c][s].frsmId = frsms'[c][t].frsmId
          PROVE  s = t
      <4>1. \A u \in OpenFrsms(c) : frsms'[c][u] = frsms[c][u] /\ frsms[c][u].frsmId < nextFrsmId[c]
        BY <2>5, <3>1 DEF FrsmInv
      <4>2. frsms'[c][slot].frsmId = nextFrsmId[c]
        BY <2>3, <2>5
      <4>3. s \in OpenFrsms(c) \/ s = slot
        BY <2>5
      <4>4. t \in OpenFrsms(c) \/ t = slot
        BY <2>5
      <4>5. \A u \in OpenFrsms(c) : frsms'[c][u].frsmId # nextFrsmId[c]
        BY <2>2, <3>1, <4>1
      <4>6. CASE s \in OpenFrsms(c) /\ t \in OpenFrsms(c)
        BY <3>1, <3>3, <4>1, <4>6 DEF FrsmInv
      <4> QED BY <3>3, <4>2, <4>3, <4>4, <4>5, <4>6
    <3> QED BY <3>2, <3>3 DEF FrsmInv
  <2>8. OthersKept(c)
    BY <1>1, <1>3, <2>5, <2>6 DEF OthersKept
  <2>9. response \in Answers /\ response.kind = "opened" /\ response.frsmId = nextFrsmId[c]
    BY <2>2 DEF Answers
  <2> HIDE DEF response
  <2>10. ReadFrom(frsms'[c], opened'[c], nextFrsmId[c], <<>>)
    <3>1. FirstOctets(content, 0) = <<>>
      BY DEF FirstOctets
    <3> QED BY <2>3, <2>4, <2>5, <2>6, <3>1 DEF ReadFrom
  <2>11. wire[c][1].awaited =>
           /\ response \in Answers /\ response.kind \in Answered(call[c].op)
           /\ call[c].op = "getFile" =>
                Gives(frsms'[c], opened'[c], call[c].frsmId, call[c].got, response)
           /\ call[c].op = "getFileDirectory" =>
                Continues(throughout'[c], anchorLost'[c], call[c].got, response)
    BY <1>2, <2>9, <2>10 DEF Answered, Gives
  <2>12. Cardinality(OpenFrsms(c)') <=
          Cardinality(OpenFrsms(c)) + (IF wire[c][1].service = "open" THEN 1 ELSE 0)
            - (IF wire[c][1].awaited /\ call[c].op = "getFile"
                  /\ response.kind \in {"null", "error"} THEN 1 ELSE 0)
    BY <1>1, <2>5, <2>9
  <2> QED BY <1>1, <1>3, <2>1, <2>5, <2>6, <2>7, <2>8, <2>11, <2>12, Handled
<1> QED BY <1>4, <1>5

(* The file that is read moves on, and the client gets what it passed.     *)
LEMMA FileReadRequestKept ==
  ASSUME FInv, NEW c \in Clients, handleFileReadRequest(c)
  PROVE  FInv'
<1> DEFINE id == wire[c][1].frsmId
           slot == getFrsm(c, id)
           old == frsms[c][slot]
           content == old.fileHandle
           at == old.readPosition
           chunk == Chunk(old)
           size == Len(chunk.data)
           frsm == [old EXCEPT !.readPosition = at + size, !.taken = at + size]
<1>0. TypeOK /\ ClientInv(c) /\ \A d \in Clients : throughout[d] \subseteq Existing(store)
  BY DEF FInv, ClientInv, ResultInv
<1>1. /\ wire[c] # <<>> /\ wire[c][1].service = "read"
      /\ UNCHANGED <<client, history, store, nextFrsmId, handles>>
  BY DEF handleFileReadRequest, Request
<1>2. /\ IdOpen(c, id) /\ Cardinality(OpenFrsms(c)) \in Nat
      /\ wire[c][1].awaited => /\ call[c].op = "getFile" /\ id = call[c].frsmId
                               /\ Reading(c, id, call[c].got)
  <2>1. /\ IdOpen(c, id) /\ Cardinality(OpenFrsms(c)) \in Nat
        /\ wire[c][1].awaited => call[c].op = "getFile"
    BY <1>1, InFront DEF Placed, Asked, IdOpen
  <2>2. 1 \in 1..Len(wire[c])
    <3>1. wire[c] \in Seq(Requests)
      BY <1>0 DEF TypeOK
    <3> QED BY <1>1, <3>1, EmptySeq
  <2> QED BY <1>0, <1>1, <2>1, <2>2 DEF ClientInv, DownloadInv
<1>3. slot \in OpenFrsms(c) /\ slot \in Slots /\ old.frsmId = id /\ slot # None
  BY <1>2, FrsmFound DEF OpenFrsms
<1> HIDE DEF slot, id
<1>4. /\ old \in Frsms /\ content \in Contents /\ content # NoFile /\ FrsmInv(c)
      /\ at \in Nat /\ old.taken = at /\ old.fileSize = Size[content] /\ Size[content] \in Nat
  <2>1. old \in Frsms /\ content # NoFile
    BY <1>0, <1>3 DEF TypeOK, OpenFrsms
  <2> QED BY <1>0, <1>3, <2>1, FileAssumption DEF Frsms, ClientInv, FrsmInv
<1>5. /\ chunk \in Answers /\ chunk.kind = "data" /\ size \in Nat /\ at + size <= Size[content]
      /\ FirstOctets(content, at) \o chunk.data = FirstOctets(content, at + size)
      /\ chunk.moreFollows \/ at + size = Size[content]
  BY <1>0, <1>3, <1>4, ChunkGives
<1>6. Respond(c, chunk) /\ frsms' = [frsms EXCEPT ![c][slot] = frsm]
  <2>1. /\ Respond(c, chunk)
        /\ frsms' = [frsms EXCEPT ![c][slot].readPosition = @ + size,
                       ![c][slot].taken = Min({@ + size, Size[content]})]
    BY <1>3 DEF handleFileReadRequest, slot, id
  <2> HIDE DEF chunk, size
  <2>2. Min({at + size, Size[content]}) = at + size
    BY <1>4, <1>5, MinOfTwo
  <2> QED BY <1>0, <1>3, <1>4, <2>1, <2>2 DEF TypeOK, Frsms
<1> HIDE DEF chunk, size
<1>7. /\ frsm \in Frsms /\ frsm.fileHandle = content /\ frsm.frsmId = id
      /\ frsm.readPosition = at + size /\ frsm.taken = at + size /\ frsm.fileSize = Size[content]
  <2>1. at + size \in Nat
    BY <1>4, <1>5
  <2> HIDE DEF old
  <2> QED BY <1>3, <1>4, <2>1 DEF Frsms
<1> HIDE DEF frsm
<1>8. /\ frsms' \in [Clients -> [Slots -> Frsms]] /\ frsms'[c][slot] = frsm
      /\ \A s \in Slots \ {slot} : frsms'[c][s] = frsms[c][s]
      /\ \A d \in Clients \ {c} : frsms'[d] = frsms[d]
      /\ OpenFrsms(c)' = OpenFrsms(c)
      /\ Cardinality(OpenFrsms(c)') = Cardinality(OpenFrsms(c))
      /\ HandlesInv' /\ handles' \in Nat
  <2>1. handles' = handles + 0
    BY <1>0, <1>1 DEF TypeOK
  <2>2. frsm.fileHandle # NoFile /\ OpenFrsms(c) \cup {slot} = OpenFrsms(c)
    BY <1>3, <1>4, <1>7
  <2> HIDE DEF old, content, at
  <2> DEFINE opens == slot \notin OpenFrsms(c)
             closes == frsm.fileHandle = NoFile
             change == IF opens THEN 1 ELSE IF closes THEN -1 ELSE 0
  <2>3. /\ frsms' \in [Clients -> [Slots -> Frsms]] /\ frsms'[c][slot] = frsm
        /\ \A s \in Slots \ {slot} : frsms'[c][s] = frsms[c][s]
        /\ \A d \in Clients \ {c} : frsms'[d] = frsms[d]
        /\ OpenFrsms(c)' = IF closes THEN OpenFrsms(c) \ {slot} ELSE OpenFrsms(c) \cup {slot}
        /\ Cardinality(OpenFrsms(c)') = Cardinality(OpenFrsms(c)) + change
        /\ handles' = handles + change => HandlesInv' /\ handles' \in Nat
    <3>1. /\ slot \in Slots /\ slot \in OpenFrsms(c) /\ frsm \in Frsms
          /\ frsms' = [frsms EXCEPT ![c][slot] = frsm] /\ frsm.fileHandle # NoFile
      BY <1>3, <1>6, <1>7, <2>2
    <3> QED BY <3>1, FrsmChanged, ZenonT(60)
  <2>4. ~opens /\ ~closes /\ change = 0
    BY <1>3, <2>2
  <2> HIDE DEF opens, closes, change
  <2> QED BY <1>2, <2>1, <2>2, <2>3, <2>4
<1>9. FrsmInv(c)'
  <2>1. \A s \in OpenFrsms(c) : /\ frsms'[c][s].frsmId = frsms[c][s].frsmId
                                /\ s # slot => frsms'[c][s] = frsms[c][s]
    BY <1>3, <1>7, <1>8 DEF OpenFrsms
  <2>2. ASSUME NEW s \in OpenFrsms(c)
        PROVE  /\ frsms'[c][s].frsmId < nextFrsmId'[c]
               /\ frsms'[c][s].fileSize = Size[frsms'[c][s].fileHandle]
               /\ frsms'[c][s].taken = frsms'[c][s].readPosition
               /\ frsms'[c][s].readPosition <= frsms'[c][s].fileSize
    <3>1. CASE s = slot
      BY <1>1, <1>3, <1>4, <1>5, <1>7, <1>8, <3>1 DEF FrsmInv
    <3>2. CASE s # slot
      BY <1>1, <1>4, <2>1, <3>2 DEF FrsmInv
    <3> QED BY <3>1, <3>2
  <2> QED BY <1>4, <1>8, <2>1, <2>2 DEF FrsmInv
<1>10. wire[c][1].awaited => Gives(frsms'[c], opened'[c], call[c].frsmId, call[c].got, chunk)
  <2> SUFFICES ASSUME wire[c][1].awaited
               PROVE  Gives(frsms'[c], opened'[c], call[c].frsmId, call[c].got, chunk)
    OBVIOUS
  <2>1. PICK s \in Slots :
          /\ opened[c] # NoFile /\ frsms[c][s].fileHandle = opened[c] /\ frsms[c][s].frsmId = id
          /\ call[c].got = FirstOctets(opened[c], frsms[c][s].readPosition)
    BY <1>2 DEF Reading, ReadFrom
  <2>2. s = slot
    BY <1>3, <1>4, <2>1 DEF FrsmInv, OpenFrsms
  <2>3. /\ opened'[c] = content /\ call[c].got = FirstOctets(content, at) /\ call[c].frsmId = id
    BY <1>1, <1>2, <2>1, <2>2 DEF history
  <2>4. call[c].got \o chunk.data = FirstOctets(content, frsms'[c][slot].readPosition)
    BY <1>5, <1>7, <1>8, <2>3
  <2>5. ReadFrom(frsms'[c], content, id, call[c].got \o chunk.data)
    BY <1>3, <1>4, <1>7, <1>8, <2>4 DEF ReadFrom
  <2>6. FirstOctets(content, Size[content]) = Octets(content)
    BY DEF FirstOctets, Octets
  <2>7. chunk.moreFollows \/ call[c].got \o chunk.data = Octets(content)
    BY <1>5, <2>3, <2>6
  <2> QED BY <1>5, <2>3, <2>5, <2>7 DEF Gives
<1>11. wire[c][1].awaited =>
         /\ chunk \in Answers /\ chunk.kind \in Answered(call[c].op)
         /\ call[c].op = "getFile" =>
              Gives(frsms'[c], opened'[c], call[c].frsmId, call[c].got, chunk)
         /\ call[c].op = "getFileDirectory" =>
              Continues(throughout'[c], anchorLost'[c], call[c].got, chunk)
  BY <1>2, <1>5, <1>10 DEF Answered
<1>12. Cardinality(OpenFrsms(c)') <=
         Cardinality(OpenFrsms(c)) + (IF wire[c][1].service = "open" THEN 1 ELSE 0)
           - (IF wire[c][1].awaited /\ call[c].op = "getFile"
                 /\ chunk.kind \in {"null", "error"} THEN 1 ELSE 0)
  BY <1>1, <1>2, <1>5, <1>8
<1>13. /\ store' \in [Names -> Contents \cup {NoFile}] /\ nextFrsmId' \in [Clients -> Nat]
       /\ opened' \in [Clients -> Contents \cup {NoFile}]
       /\ throughout' \in [Clients -> SUBSET Names] /\ anchorLost' \in [Clients -> BOOLEAN]
       /\ anchorLost[c] => anchorLost'[c]
  BY <1>0, <1>1 DEF TypeOK, history
<1>14. OthersKept(c)
  BY <1>0, <1>1, <1>8 DEF OthersKept, history, Existing
<1> QED BY <1>1, <1>6, <1>8, <1>9, <1>11, <1>12, <1>13, <1>14, Handled

(* The file is closed, and the client knows it.                            *)
LEMMA FileCloseRequestKept ==
  ASSUME FInv, NEW c \in Clients, handleFileCloseRequest(c)
  PROVE  FInv'
<1> DEFINE id == wire[c][1].frsmId
           slot == getFrsm(c, id)
           frsm == [FreeFrsm EXCEPT !.fileSize = frsms[c][slot].fileSize]
           response == NullResponse
<1>0. TypeOK /\ ClientInv(c) /\ \A d \in Clients : throughout[d] \subseteq Existing(store)
  BY DEF FInv, ClientInv, ResultInv
<1>1. /\ wire[c] # <<>> /\ wire[c][1].service = "close"
      /\ UNCHANGED <<client, history, store, nextFrsmId>>
      /\ handles' = handles - 1 /\ Respond(c, response)
      /\ frsms' = [frsms EXCEPT ![c][slot] = frsm]
  BY DEF handleFileCloseRequest, Request
<1>2. /\ IdOpen(c, id) /\ Cardinality(OpenFrsms(c)) \in Nat
      /\ wire[c][1].awaited =>
           call[c].op = "getFile" /\ (HandlerReturns \/ call[c].got = Octets(opened[c]))
  <2>1. /\ IdOpen(c, id) /\ Cardinality(OpenFrsms(c)) \in Nat
        /\ wire[c][1].awaited => call[c].op = "getFile"
    BY <1>1, InFront DEF Placed, Asked, IdOpen
  <2>2. 1 \in 1..Len(wire[c])
    <3>1. wire[c] \in Seq(Requests)
      BY <1>0 DEF TypeOK
    <3> QED BY <1>1, <3>1, EmptySeq
  <2> QED BY <1>0, <1>1, <2>1, <2>2 DEF ClientInv, DownloadInv
<1>3. slot \in OpenFrsms(c) /\ slot \in Slots
  BY <1>2, FrsmFound DEF OpenFrsms
<1> HIDE DEF slot, id
<1>4. frsm \in Frsms /\ frsm.fileHandle = NoFile
  <2>1. frsms[c][slot] \in Frsms
    BY <1>0, <1>3 DEF TypeOK
  <2>2. frsms[c][slot].fileSize \in Nat
    BY <2>1 DEF Frsms
  <2> QED BY <2>2 DEF Frsms, FreeFrsm
<1> HIDE DEF frsm
<1>5. /\ frsms' \in [Clients -> [Slots -> Frsms]] /\ frsms'[c][slot] = frsm
      /\ \A s \in Slots \ {slot} : frsms'[c][s] = frsms[c][s]
      /\ \A d \in Clients \ {c} : frsms'[d] = frsms[d]
      /\ OpenFrsms(c)' = OpenFrsms(c) \ {slot}
      /\ Cardinality(OpenFrsms(c)') = Cardinality(OpenFrsms(c)) - 1
      /\ HandlesInv' /\ handles' \in Nat
  <2>1. handles' = handles + -1
    BY <1>0, <1>1 DEF TypeOK
  <2> QED BY <1>1, <1>2, <1>3, <1>4, <2>1, FrsmChanged
<1>6. FrsmInv(c)'
  <2>1. FrsmInv(c)
    BY <1>0 DEF ClientInv
  <2>2. \A s \in OpenFrsms(c)' : s \in OpenFrsms(c) /\ frsms'[c][s] = frsms[c][s]
    BY <1>5 DEF OpenFrsms
  <2> QED BY <1>1, <2>1, <2>2 DEF FrsmInv
<1>7. response \in Answers /\ response.kind = "null"
  BY DEF NullResponse, Answers
<1> HIDE DEF response
<1>8. wire[c][1].awaited =>
        /\ response \in Answers /\ response.kind \in Answered(call[c].op)
        /\ call[c].op = "getFile" =>
             Gives(frsms'[c], opened'[c], call[c].frsmId, call[c].got, response)
        /\ call[c].op = "getFileDirectory" =>
             Continues(throughout'[c], anchorLost'[c], call[c].got, response)
  BY <1>1, <1>2, <1>7 DEF Answered, Gives, history
<1>9. Cardinality(OpenFrsms(c)') <=
        Cardinality(OpenFrsms(c)) + (IF wire[c][1].service = "open" THEN 1 ELSE 0)
          - (IF wire[c][1].awaited /\ call[c].op = "getFile"
                /\ response.kind \in {"null", "error"} THEN 1 ELSE 0)
  BY <1>1, <1>2, <1>5
<1>10. /\ store' \in [Names -> Contents \cup {NoFile}] /\ nextFrsmId' \in [Clients -> Nat]
       /\ opened' \in [Clients -> Contents \cup {NoFile}]
       /\ throughout' \in [Clients -> SUBSET Names] /\ anchorLost' \in [Clients -> BOOLEAN]
       /\ anchorLost[c] => anchorLost'[c]
  BY <1>0, <1>1 DEF TypeOK, history
<1>11. OthersKept(c)
  BY <1>0, <1>1, <1>5 DEF OthersKept, history, Existing
<1> QED BY <1>1, <1>5, <1>6, <1>8, <1>9, <1>10, <1>11, Handled
-----------------------------------------------------------------------------
(* At the start nothing is open and nothing under way.                     *)
LEMMA InitFInv ==
  ASSUME Init
  PROVE  FInv
<1>1. <<>> \in Seq(Octet) /\ <<>> \in Seq(Requests) /\ <<>> \in Seq(Names)
  BY EmptySeq
<1>2. FreeFrsm \in Frsms
  BY DEF FreeFrsm, Frsms
<1>3. TypeOK
  <2>1. NoAnswer \in Answers
    BY DEF Answers
  <2>2. Idle \in [op : Operations \cup {"none"}, frsmId : Nat, got : Seq(Octet) \cup Seq(Names)]
    BY <1>1 DEF Idle
  <2>3. NoResult \in [op : {"getFile", "getFileDirectory", "none"},
                      error : {"none", "resource", "nonexistent", "other", "timeout", "lost"},
                      got : Seq(Octet) \cup Seq(Names)]
    BY <1>1 DEF NoResult
  <2>4. anchorLost \in [Clients -> BOOLEAN] /\ throughout \in [Clients -> SUBSET Names]
    BY DEF Init
  <2>5. store \in [Names -> Contents \cup {NoFile}]
    BY FileAssumption DEF Init
  <2>6. frsms \in [Clients -> [Slots -> Frsms]] /\ nextFrsmId \in [Clients -> Nat] /\ handles \in Nat
    BY <1>2 DEF Init
  <2>7. wire \in [Clients -> Seq(Requests)] /\ answer \in [Clients -> Answers]
    BY <1>1, <2>1 DEF Init
  <2> QED BY <2>2, <2>3, <2>4, <2>5, <2>6, <2>7 DEF Init, TypeOK
<1>4. ASSUME NEW c \in Clients PROVE OpenFrsms(c) = {}
  BY DEF Init, OpenFrsms, FreeFrsm
<1>5. HandlesInv
  <2>1. AllOpen = {}
    BY <1>4 DEF AllOpen
  <2> QED BY <2>1, FS_EmptySet DEF HandlesInv, Init
<1>6. ASSUME NEW c \in Clients PROVE ClientInv(c)
  <2>1. /\ wire[c] = <<>> /\ Len(wire[c]) = 0 /\ answer[c] = NoAnswer /\ call[c] = Idle
        /\ result[c] = NoResult /\ throughout[c] = {} /\ timeouts[c] = 0
    BY <1>1, EmptySeq DEF Init
  <2>2. answer[c].kind = "none" /\ call[c].op = "none" /\ result[c].op = "none"
    BY <2>1 DEF NoAnswer, Idle, NoResult
  <2>3. Cardinality(OpenFrsms(c)) = 0 /\ Cardinality(Opens(wire[c])) = 0
    BY <1>1, <1>4, <2>1, FS_EmptySet, OpensCounted
  <2>4. FrsmInv(c) /\ BudgetInv(c)
    BY <1>4, <2>1, <2>2, <2>3 DEF FrsmInv, BudgetInv
  <2>5. PipeInv(c)
    BY <2>1, <2>2 DEF PipeInv
  <2>6. DownloadInv(c) /\ DirectoryInv(c)
    BY <2>2 DEF DownloadInv, DirectoryInv
  <2>7. ResultInv(c)
    BY <2>1, <2>2 DEF ResultInv, DownloadComplete, DirectoryComplete
  <2> QED BY <2>4, <2>5, <2>6, <2>7 DEF ClientInv
<1> QED BY <1>3, <1>5, <1>6 DEF FInv

(* Every step of the server and of the clients keeps the invariant.        *)
LEMMA NextFInv ==
  ASSUME FInv, [Next]_vars
  PROVE  FInv'
<1>1. CASE UNCHANGED vars
  <2>1. UNCHANGED <<store, frsms, nextFrsmId, handles, wire, answer, call, result, timeouts,
                    changes, opened, throughout, anchorLost>>
    BY <1>1 DEF vars, server, client, history
  <2>2. TypeOK'
    BY <2>1 DEF FInv, TypeOK
  <2>3. HandlesInv'
    BY <2>1, HandlesUntouched DEF FInv
  <2>4. ASSUME NEW c \in Clients PROVE ClientInv(c)'
    <3>1. ClientInv(c) /\ throughout[c] \subseteq Existing(store) /\ Existing(store') = Existing(store)
      BY <2>1 DEF FInv, ClientInv, ResultInv
    <3>2. Untouched(c)
      BY <2>1, <3>1 DEF Untouched
    <3> QED BY <3>1, <3>2, ClientUntouched
  <2> QED BY <2>2, <2>3, <2>4 DEF FInv
<1>2. CASE Next
  <2>1. PICK c \in Clients :
          \/ ServerStep(c) \/ ClientStep(c) \/ TimeOut(c) \/ ConnectionLost(c)
          \/ IedConnection_getFileDirectory(c)
          \/ \E name \in Names : IedConnection_getFile(c, name) \/ IedConnection_deleteFile(c, name)
          \/ \E old, new \in Names : MmsConnection_fileRename(c, old, new)
    BY <1>2 DEF Next
  <2>2. CASE ServerStep(c)
    BY <2>2, FileOpenKept, FileReadRequestKept, FileCloseRequestKept, NamesChangeKept,
       DirectoryKept DEF ServerStep
  <2>3. CASE ClientStep(c)
    BY <2>3, ReturnKept, FileOpenedKept, FileReadKept, DirectoryReceivedKept DEF ClientStep
  <2>4. CASE TimeOut(c)
    BY <2>4, TimeOutKept
  <2>5. CASE ConnectionLost(c)
    BY <2>5, ConnectionLostKept
  <2>6. CASE \/ IedConnection_getFileDirectory(c)
             \/ \E name \in Names :
                  IedConnection_getFile(c, name) \/ IedConnection_deleteFile(c, name)
             \/ \E old, new \in Names : MmsConnection_fileRename(c, old, new)
    BY <2>6, CallsKept
  <2> QED BY <2>1, <2>2, <2>3, <2>4, <2>5, <2>6
<1> QED BY <1>1, <1>2

-----------------------------------------------------------------------------
\* Each file handle of the process belongs to one open state machine of one
\* connection, and a connection has no more of them than its download under
\* way and those it gave up.
THEOREM FilesAccounted ==
  Spec => [](TypeOK /\ OpenFilesAccounted)
<1>1. FInv => TypeOK /\ OpenFilesAccounted
  <2> SUFFICES ASSUME FInv PROVE OpenFilesAccounted
    BY DEF FInv
  <2>1. handles = Cardinality(AllOpen)
    BY DEF FInv, HandlesInv
  <2>2. ASSUME NEW c \in Clients
        PROVE  Cardinality(OpenFrsms(c)) <= timeouts[c] + (IF call[c].op = "getFile" THEN 1 ELSE 0)
    <3>1. /\ Cardinality(OpenFrsms(c)) \in Nat /\ Cardinality(Opens(wire[c])) \in Nat
          /\ timeouts[c] \in Nat
      <4>1. wire[c] \in Seq(Requests) /\ timeouts[c] \in Nat
        BY DEF FInv, TypeOK
      <4> QED BY <4>1, OpenFrsmsFinite, OpensCounted
    <3>2. BudgetInv(c)
      BY DEF FInv, ClientInv
    <3> QED BY <3>1, <3>2 DEF BudgetInv
  <2> QED BY <2>1, <2>2 DEF OpenFilesAccounted, AllOpen
<1> QED BY <1>1, InitFInv, NextFInv, PTL DEF Spec

\* A call that returns no error has given everything: a download every octet
\* of the file once and in order, a directory every file that was there
\* throughout.  It holds for a file handler that wants the whole file.
THEOREM AnswersAreComplete ==
  ~HandlerReturns => (Spec => []AnswersComplete)
<1> SUFFICES ASSUME ~HandlerReturns PROVE Spec => []AnswersComplete
  OBVIOUS
<1>1. FInv => AnswersComplete
  BY DEF FInv, ClientInv, ResultInv, AnswersComplete
<1> QED BY <1>1, InitFInv, NextFInv, PTL DEF Spec

\* The directory is complete whatever file handlers the downloads have.
THEOREM DirectoriesAreComplete ==
  Spec => [](\A c \in Clients : DirectoryComplete(c))
<1>1. FInv => \A c \in Clients : DirectoryComplete(c)
  BY DEF FInv, ClientInv, ResultInv
<1> QED BY <1>1, InitFInv, NextFInv, PTL DEF Spec
=============================================================================
