-------------------------- MODULE ServerLocksProofs --------------------------
(***************************************************************************)
(* Theorems about ServerLocks for any clients and any number of code       *)
(* paths: a send buffer has one user, and the deadlock about a report to   *)
(* the client that writes is the only one.                                 *)
(***************************************************************************)
EXTENDS ServerLocks, FiniteSetTheorems, SequenceTheorems, TLAPS

Kinds == {"wait", "post", "build", "call", "send", "handler", "report", "operate",
          "configure", "stop", "close"}
Operation == Kinds \X (Locks \cup {None})

\* The lock of the thread's own connection.
Own(t) == {c \in Clients : t = Con(c)}

\* Where the code performs an operation: which locks the thread holds then.
\* The model lock comes first; the lock of another client's connection, and of
\* the own one when others are held, only for a report.
May(t, op, held) ==
  /\ op[1] \in {"wait", "post"} => op[2] \in Locks
  /\ op[1] \in {"build", "send", "handler", "operate", "configure", "stop", "close"} =>
       op[2] \in Clients
  /\ op[1] = "wait" => op[2] \notin held
  /\ op = Wait("model") => held = {}
  /\ op = Wait("rc") \/ op[1] = "report" => held \subseteq {"model", "rc"} \cup Own(t)
  /\ op[1] = "wait" /\ op[2] \in Clients =>
       held \subseteq {"model", "rc"} \cup Own(t) /\ (held \cap Clients = {} \/ "rc" \in held)
  /\ op[1] = "report" => "rc" \in held
  /\ op[1] = "post" => op[2] \in held
  /\ op[1] = "build" => op[2] \in held \/ t = Con(op[2])
  /\ op[1] = "handler" => t = Con(op[2])
  /\ op[1] \in {"send", "close"} => held = {}
  /\ op[1] = "close" => t = Con(op[2])

After(op, held) ==
  IF op[1] = "wait" THEN held \cup {op[2]} ELSE IF op[1] = "post" THEN held \ {op[2]} ELSE held

\* A thread that holds the locks from before the path p holds the locks to
\* after it, and performs each operation where it may.
Runs(t, p, from, to) ==
  /\ p \in Seq(Operation)
  /\ \E held \in [1..Len(p) + 1 -> SUBSET Locks] :
       /\ held[1] = from /\ held[Len(p) + 1] = to
       /\ \A i \in 1..Len(p) : May(t, p[i], held[i]) /\ held[i + 1] = After(p[i], held[i])

Held(t) == {l \in Locks : holder[l] = t}

\* The connection thread of the client the report is for is the one that is
\* to send it: it waits for its own lock, for ever.
WaitsForItself(t) ==
  \E c \in Clients : /\ t = Con(c) /\ path[t] # << >> /\ Head(path[t]) = Wait(c)
                     /\ {c, "rc"} \subseteq Held(t)

ThreadInv(t) == WaitsForItself(t) \/ Runs(t, path[t], Held(t), {})

LocksInv ==
  /\ TypeOK /\ path \in [Threads -> Seq(Operation)]
  /\ \A t \in Threads : ThreadInv(t)
-----------------------------------------------------------------------------
(* Paths, put together and taken apart.                                    *)

(* An empty path changes nothing.                                          *)
LEMMA RunsNone ==
  ASSUME NEW t, NEW from, NEW to
  PROVE  /\ Runs(t, << >>, from, to) => from = to
         /\ from = to /\ from \in SUBSET Locks => Runs(t, << >>, from, to)
<1>1. << >> \in Seq(Operation) /\ Len(<< >>) = 0
  BY EmptySeq
<1>2. ASSUME from = to, from \in SUBSET Locks PROVE Runs(t, << >>, from, to)
  <2> DEFINE held == [i \in 1..1 |-> from]
  <2>1. held \in [1..0 + 1 -> SUBSET Locks] /\ held[1] = from /\ held[0 + 1] = to
    BY <1>2
  <2> HIDE DEF held
  <2> QED BY <1>1, <2>1 DEF Runs
<1>3. Runs(t, << >>, from, to) => from = to
  BY <1>1 DEF Runs
<1> QED BY <1>2, <1>3

(* One operation.                                                          *)
LEMMA RunsOne ==
  ASSUME NEW t, NEW op \in Operation, NEW from \in SUBSET Locks, May(t, op, from)
  PROVE  Runs(t, <<op>>, from, After(op, from))
<1> DEFINE held == [i \in 1..2 |-> IF i = 1 THEN from ELSE After(op, from)]
<1>1. <<op>> \in Seq(Operation) /\ Len(<<op>>) = 1 /\ <<op>>[1] = op
  OBVIOUS
<1>2. After(op, from) \in SUBSET Locks
  BY DEF After, May
<1>3. held \in [1..1 + 1 -> SUBSET Locks] /\ held[1] = from /\ held[1 + 1] = After(op, from)
  BY <1>2
<1> HIDE DEF held
<1>4. \A i \in 1..1 : May(t, <<op>>[i], held[i]) /\ held[i + 1] = After(<<op>>[i], held[i])
  BY <1>1, <1>3
<1> QED BY <1>1, <1>3, <1>4 DEF Runs

(* One path after the other.                                               *)
LEMMA RunsConcat ==
  ASSUME NEW t, NEW p, NEW q, NEW from, NEW via, NEW to,
         Runs(t, p, from, via), Runs(t, q, via, to)
  PROVE  Runs(t, p \o q, from, to)
<1> DEFINE m == Len(p)
           n == Len(q)
<1>1. /\ p \in Seq(Operation) /\ q \in Seq(Operation) /\ m \in Nat /\ n \in Nat
      /\ p \o q \in Seq(Operation) /\ Len(p \o q) = m + n
      /\ \A i \in 1..m + n : (p \o q)[i] = IF i <= m THEN p[i] ELSE q[i - m]
  BY ConcatProperties DEF Runs
<1>2. PICK f \in [1..m + 1 -> SUBSET Locks] :
        /\ f[1] = from /\ f[m + 1] = via
        /\ \A i \in 1..m : May(t, p[i], f[i]) /\ f[i + 1] = After(p[i], f[i])
  BY DEF Runs
<1>3. PICK g \in [1..n + 1 -> SUBSET Locks] :
        /\ g[1] = via /\ g[n + 1] = to
        /\ \A i \in 1..n : May(t, q[i], g[i]) /\ g[i + 1] = After(q[i], g[i])
  BY DEF Runs
<1> HIDE DEF m, n
<1> DEFINE h == [i \in 1..m + n + 1 |-> IF i <= m THEN f[i] ELSE g[i - m]]
<1>4. h \in [1..m + n + 1 -> SUBSET Locks]
  BY <1>1
<1>5. h[1] = from /\ h[m + n + 1] = to
  BY <1>1, <1>2, <1>3
<1>6. ASSUME NEW i \in 1..m + n
      PROVE  May(t, (p \o q)[i], h[i]) /\ h[i + 1] = After((p \o q)[i], h[i])
  <2>1. CASE i < m
    <3>1. i \in 1..m /\ (p \o q)[i] = p[i] /\ h[i] = f[i] /\ h[i + 1] = f[i + 1]
      BY <1>1, <2>1
    <3> QED BY <1>2, <3>1
  <2>2. CASE i = m
    <3>1. i + 1 \in 1..m + n + 1 /\ ~(i + 1 <= m) /\ i + 1 - m = 1
      BY <1>1, <2>2
    <3>2. i \in 1..m /\ (p \o q)[i] = p[i] /\ h[i] = f[i] /\ h[i + 1] = g[1]
      BY <1>1, <2>2, <3>1
    <3> QED BY <1>2, <1>3, <2>2, <3>2
  <2>3. CASE i > m
    <3>1. PICK j \in 1..n : j = i - m
      BY <1>1, <2>3
    <3>2. i + 1 \in 1..m + n + 1 /\ ~(i + 1 <= m) /\ i + 1 - m = j + 1 /\ ~(i <= m)
      BY <1>1, <2>3, <3>1
    <3>3. (p \o q)[i] = q[j] /\ h[i] = g[j] /\ h[i + 1] = g[j + 1]
      BY <1>1, <3>1, <3>2
    <3> HIDE DEF h
    <3> QED BY <1>3, <3>3
  <2>4. i < m \/ i = m \/ i > m
    BY <1>1
  <2> QED BY <2>1, <2>2, <2>3, <2>4
<1> HIDE DEF h
<1> QED BY <1>1, <1>4, <1>5, <1>6 DEF Runs

(* The operation in front, and the path behind it.                         *)
LEMMA RunsHead ==
  ASSUME NEW t, NEW p, p # << >>, NEW from, NEW to, Runs(t, p, from, to)
  PROVE  /\ Head(p) \in Operation /\ May(t, Head(p), from)
         /\ Runs(t, Tail(p), After(Head(p), from), to)
         /\ from \in SUBSET Locks /\ After(Head(p), from) \in SUBSET Locks
<1>1. /\ p \in Seq(Operation) /\ Len(p) \in Nat \ {0} /\ Tail(p) \in Seq(Operation)
      /\ Len(Tail(p)) = Len(p) - 1 /\ \A i \in 1..Len(p) - 1 : Tail(p)[i] = p[i + 1]
      /\ Head(p) = p[1] /\ Head(p) \in Operation
  BY EmptySeq, HeadTailProperties, ElementOfSeq DEF Runs
<1>2. PICK f \in [1..Len(p) + 1 -> SUBSET Locks] :
        /\ f[1] = from /\ f[Len(p) + 1] = to
        /\ \A i \in 1..Len(p) : May(t, p[i], f[i]) /\ f[i + 1] = After(p[i], f[i])
  BY DEF Runs
<1>3. 1 \in 1..Len(p) /\ 1 + 1 = 2 /\ 2 \in 1..Len(p) + 1 /\ 1 \in 1..Len(p) + 1
  BY <1>1
<1>4. May(t, Head(p), from) /\ f[2] = After(Head(p), from)
  BY <1>1, <1>2, <1>3
<1> DEFINE g == [i \in 1..Len(p) |-> f[i + 1]]
<1>5. g \in [1..(Len(p) - 1) + 1 -> SUBSET Locks] /\ g[1] = f[2] /\ g[(Len(p) - 1) + 1] = to
  BY <1>1, <1>2, <1>3
<1>6. ASSUME NEW i \in 1..Len(p) - 1
      PROVE  May(t, Tail(p)[i], g[i]) /\ g[i + 1] = After(Tail(p)[i], g[i])
  <2>1. /\ i + 1 \in 1..Len(p) /\ Tail(p)[i] = p[i + 1] /\ g[i] = f[i + 1]
        /\ g[i + 1] = f[(i + 1) + 1]
    BY <1>1
  <2> QED BY <1>2, <2>1
<1> HIDE DEF g
<1>7. Runs(t, Tail(p), f[2], to)
  BY <1>1, <1>5, <1>6 DEF Runs
<1> QED BY <1>1, <1>2, <1>3, <1>4, <1>7
(* An operation and a path behind it.                                      *)
LEMMA RunsThen ==
  ASSUME NEW t, NEW op \in Operation, NEW from \in SUBSET Locks, May(t, op, from),
         NEW q, NEW to, Runs(t, q, After(op, from), to)
  PROVE  Runs(t, <<op>> \o q, from, to)
BY RunsOne, RunsConcat

(* What is written with several operations in one tuple.                   *)
LEMMA Pair ==
  ASSUME NEW a, NEW b
  PROVE  <<a, b>> = <<a>> \o <<b>>
<1>1. <<a>> \in Seq({a, b}) /\ <<b>> \in Seq({a, b}) /\ <<a, b>> \in Seq({a, b})
  OBVIOUS
<1>2. /\ <<a>> \o <<b>> \in Seq({a, b}) /\ Len(<<a>> \o <<b>>) = 2 /\ Len(<<a, b>>) = 2
      /\ \A i \in 1..2 : (<<a>> \o <<b>>)[i] = IF i <= 1 THEN <<a>>[i] ELSE <<b>>[i - 1]
  BY <1>1, ConcatProperties
<1>3. \A i \in 1..2 : (<<a>> \o <<b>>)[i] = <<a, b>>[i]
  BY <1>2
<1> QED BY <1>1, <1>2, <1>3, SeqEqual

(* Three operations.                                                       *)
LEMMA Triple ==
  ASSUME NEW a, NEW b, NEW c
  PROVE  <<a, b, c>> = <<a>> \o <<b, c>>
<1> DEFINE S == {a, b, c}
<1>1. <<a>> \in Seq(S) /\ <<b, c>> \in Seq(S) /\ <<a, b, c>> \in Seq(S)
  OBVIOUS
<1>2. /\ <<a>> \o <<b, c>> \in Seq(S) /\ Len(<<a>> \o <<b, c>>) = 3 /\ Len(<<a, b, c>>) = 3
      /\ \A i \in 1..3 : (<<a>> \o <<b, c>>)[i] = IF i <= 1 THEN <<a>>[i] ELSE <<b, c>>[i - 1]
  BY <1>1, ConcatProperties
<1>3. \A i \in 1..3 : (<<a>> \o <<b, c>>)[i] = <<a, b, c>>[i]
  BY <1>2
<1> QED BY <1>1, <1>2, <1>3, SeqEqual

(* Four operations.                                                        *)
LEMMA Quadruple ==
  ASSUME NEW a, NEW b, NEW c, NEW d
  PROVE  <<a, b, c, d>> = <<a>> \o <<b, c, d>>
<1> DEFINE S == {a, b, c, d}
<1>1. <<a>> \in Seq(S) /\ <<b, c, d>> \in Seq(S) /\ <<a, b, c, d>> \in Seq(S)
  OBVIOUS
<1>2. /\ <<a>> \o <<b, c, d>> \in Seq(S) /\ Len(<<a>> \o <<b, c, d>>) = 4
      /\ Len(<<a, b, c, d>>) = 4
      /\ \A i \in 1..4 :
           (<<a>> \o <<b, c, d>>)[i] = IF i <= 1 THEN <<a>>[i] ELSE <<b, c, d>>[i - 1]
  BY <1>1, ConcatProperties
<1>3. \A i \in 1..4 : (<<a>> \o <<b, c, d>>)[i] = <<a, b, c, d>>[i]
  BY <1>2
<1> QED BY <1>1, <1>2, <1>3, SeqEqual

(* The operations by which locks are taken and given back.                 *)
LEMMA LockOperations ==
  ASSUME NEW l \in Locks, NEW held \in SUBSET Locks
  PROVE  /\ Wait(l) \in Operation /\ Post(l) \in Operation
         /\ After(Wait(l), held) = held \cup {l}
         /\ After(Post(l), held) = held \ {l}
         /\ \A t : l \in held => May(t, Post(l), held)
BY ClientsAssumption DEF Operation, Kinds, Wait, Post, After, May, Locks

(* The operations that leave the locks as they are.                        *)
LEMMA OtherOperations ==
  ASSUME NEW c \in Clients, NEW held \in SUBSET Locks, NEW t
  PROVE  \A op \in {Build(c), Callback, SendMessage(c), SendInHandler(c), <<"report", None>>,
                    <<"operate", c>>, <<"configure", c>>, <<"stop", c>>, <<"close", c>>} :
           op \in Operation /\ After(op, held) = held
BY DEF Operation, Kinds, Build, Callback, SendMessage, SendInHandler, After, Locks

(* A message is built between the wait for the connection's lock and the   *)
(* post.                                                                   *)
LEMMA RunsLocked ==
  ASSUME NEW t, NEW c \in Clients, NEW held \in SUBSET Locks, c \notin held,
         held \subseteq {"model", "rc"} \cup Own(t), held \cap Clients = {} \/ "rc" \in held
  PROVE  Runs(t, <<Wait(c), Build(c), Post(c)>>, held, held)
<1> DEFINE more == held \cup {c}
<1>1. /\ c \in Locks /\ more \in SUBSET Locks /\ more \ {c} = held
      /\ c \notin {"model", "rc"}
  BY ClientsAssumption DEF Locks
<1>2. Wait(c) \in Operation /\ Build(c) \in Operation /\ Post(c) \in Operation
  BY <1>1, LockOperations, OtherOperations
<1>3. /\ After(Wait(c), held) = more /\ After(Build(c), more) = more
      /\ After(Post(c), more) = held
  BY <1>1 DEF After, Wait, Build, Post
<1>4. May(t, Wait(c), held) /\ May(t, Build(c), more) /\ May(t, Post(c), more)
  BY <1>1 DEF May, Wait, Build, Post
<1> HIDE DEF more
<1>5. Runs(t, <<Post(c)>>, more, held)
  BY <1>1, <1>2, <1>3, <1>4, RunsOne
<1>6. Runs(t, <<Build(c)>> \o <<Post(c)>>, more, held)
  BY <1>1, <1>2, <1>3, <1>4, <1>5, RunsThen
<1>7. Runs(t, <<Wait(c)>> \o (<<Build(c)>> \o <<Post(c)>>), held, held)
  BY <1>2, <1>3, <1>4, <1>6, RunsThen
<1>8. <<Build(c)>> \o <<Post(c)>> = <<Build(c), Post(c)>>
  BY Pair
<1>9. <<Wait(c)>> \o <<Build(c), Post(c)>> = <<Wait(c), Build(c), Post(c)>>
  BY Triple
<1> QED BY <1>7, <1>8, <1>9

(* ReportControl_valueUpdated with and without a report.                   *)
LEMMA RunsValueUpdated ==
  ASSUME NEW t, NEW held \in SUBSET Locks, "rc" \notin held,
         held \subseteq {"model"} \cup Own(t), NEW u \in ValueUpdated
  PROVE  Runs(t, u, held, held)
<1> DEFINE more == held \cup {"rc"}
           report == <<"report", None>>
<1>1. "rc" \in Locks /\ more \in SUBSET Locks /\ more \ {"rc"} = held
  BY DEF Locks
<1>2. Wait("rc") \in Operation /\ Post("rc") \in Operation /\ report \in Operation
  BY <1>1, LockOperations DEF Operation, Kinds
<1>3. /\ After(Wait("rc"), held) = more /\ After(report, more) = more
      /\ After(Post("rc"), more) = held
  BY <1>1, LockOperations DEF After
<1>4. May(t, Wait("rc"), held) /\ May(t, report, more) /\ May(t, Post("rc"), more)
  BY <1>1, ClientsAssumption DEF May, Wait, Post
<1> HIDE DEF more, report
<1>5. Runs(t, <<Post("rc")>>, more, held)
  BY <1>1, <1>2, <1>3, <1>4, RunsOne
<1>6. Runs(t, <<report>> \o <<Post("rc")>>, more, held)
  BY <1>1, <1>2, <1>3, <1>4, <1>5, RunsThen
<1>7. /\ Runs(t, <<Wait("rc")>> \o <<Post("rc")>>, held, held)
      /\ Runs(t, <<Wait("rc")>> \o (<<report>> \o <<Post("rc")>>), held, held)
  BY <1>2, <1>3, <1>4, <1>5, <1>6, RunsThen
<1>8. /\ <<Wait("rc")>> \o <<Post("rc")>> = <<Wait("rc"), Post("rc")>>
      /\ <<report>> \o <<Post("rc")>> = <<report, Post("rc")>>
  BY Pair
<1>9. <<Wait("rc")>> \o <<report, Post("rc")>> = <<Wait("rc"), report, Post("rc")>>
  BY Triple
<1>10. u = <<Wait("rc"), Post("rc")>> \/ u = <<Wait("rc"), report, Post("rc")>>
  BY DEF ValueUpdated, report
<1> QED BY <1>7, <1>8, <1>9, <1>10
(* A callback, and what a connection thread does without taking a lock.    *)
LEMMA Unlocked ==
  ASSUME NEW held \in SUBSET Locks
  PROVE  /\ \A t : Callback \in Operation /\ May(t, Callback, held) /\ After(Callback, held) = held
         /\ \A c \in Clients :
              \A op \in {Build(c), SendInHandler(c), <<"operate", c>>, <<"configure", c>>,
                         <<"stop", c>>} :
                op \in Operation /\ May(Con(c), op, held) /\ After(op, held) = held
BY DEF Callback, Build, SendInHandler, Operation, Kinds, Locks, May, After, Wait

(* What a request does between the locks.                                  *)
LEMMA RunsBody ==
  ASSUME NEW c \in Clients, NEW b \in Bodies(c)
  PROVE  Runs(Con(c), b, {"model", c}, {"model", c})
<1> DEFINE t == Con(c)
           held == {"model", c}
           more == {"model", c, "rc"}
           operate == <<"operate", c>>
           configure == <<"configure", c>>
<1>1. /\ held \in SUBSET Locks /\ more \in SUBSET Locks /\ "rc" \notin held /\ c \in Own(t)
      /\ "rc" \in Locks
  BY ClientsAssumption DEF Locks, Own
<1> HIDE DEF t
<1>2. /\ \A op \in {Build(c), Callback, SendInHandler(c), operate} :
           op \in Operation /\ May(t, op, held) /\ After(op, held) = held
      /\ configure \in Operation /\ May(t, configure, more) /\ After(configure, more) = more
  <2> HIDE DEF held, more
  <2>1. /\ Callback \in Operation /\ May(t, Callback, held) /\ After(Callback, held) = held
        /\ Build(c) \in Operation /\ May(t, Build(c), held) /\ After(Build(c), held) = held
        /\ SendInHandler(c) \in Operation /\ May(t, SendInHandler(c), held)
        /\ After(SendInHandler(c), held) = held
        /\ operate \in Operation /\ May(t, operate, held) /\ After(operate, held) = held
    BY <1>1, Unlocked DEF t
  <2>2. configure \in Operation /\ May(t, configure, more) /\ After(configure, more) = more
    BY <1>1, Unlocked DEF t
  <2> HIDE DEF operate, configure
  <2> QED BY <2>1, <2>2
<1>3. /\ Wait("rc") \in Operation /\ Post("rc") \in Operation
      /\ After(Wait("rc"), held) = more /\ After(Post("rc"), more) = held
      /\ May(t, Wait("rc"), held) /\ May(t, Post("rc"), more)
  <2>1. /\ held \cup {"rc"} = more /\ more \ {"rc"} = held
    BY <1>1
  <2>2. May(t, Wait("rc"), held)
    BY <1>1, ClientsAssumption DEF May, Wait
  <2>3. "rc" \in more
    OBVIOUS
  <2> HIDE DEF held, more
  <2> QED BY <1>1, <2>1, <2>2, <2>3, LockOperations
<1> HIDE DEF held, more, operate, configure
<1>4. Runs(t, <<Build(c)>>, held, held)
  BY <1>1, <1>2, RunsOne
<1>5. Runs(t, <<Callback>>, held, held)
  BY <1>1, <1>2, RunsOne
<1>6. Runs(t, <<Callback>> \o (<<SendInHandler(c)>> \o <<Build(c)>>), held, held)
  <2>1. Runs(t, <<SendInHandler(c)>> \o <<Build(c)>>, held, held)
    BY <1>1, <1>2, <1>4, RunsThen
  <2> QED BY <1>5, <2>1, RunsConcat
<1>7. Runs(t, <<Callback>> \o <<operate>>, held, held)
  <2>1. Runs(t, <<operate>>, held, held)
    BY <1>1, <1>2, RunsOne
  <2> QED BY <1>5, <2>1, RunsConcat
<1>8. Runs(t, <<Wait("rc")>> \o (<<configure>> \o (<<Post("rc")>> \o <<Build(c)>>)), held, held)
  <2>1. Runs(t, <<Post("rc")>> \o <<Build(c)>>, more, held)
    BY <1>1, <1>3, <1>4, RunsThen
  <2>2. Runs(t, <<configure>> \o (<<Post("rc")>> \o <<Build(c)>>), more, held)
    BY <1>1, <1>2, <2>1, RunsThen
  <2> QED BY <1>1, <1>3, <2>2, RunsThen
<1>9. ASSUME NEW u \in ValueUpdated PROVE Runs(t, <<Callback>> \o u \o <<Build(c)>>, held, held)
  <2>1. Runs(t, u, held, held)
    <3>1. held \subseteq {"model"} \cup Own(t)
      BY <1>1 DEF held
    <3> QED BY <1>1, <3>1, RunsValueUpdated
  <2>2. Runs(t, <<Callback>> \o u, held, held)
    BY <1>5, <2>1, RunsConcat
  <2> QED BY <1>4, <2>2, RunsConcat
<1>10. /\ <<SendInHandler(c)>> \o <<Build(c)>> = <<SendInHandler(c), Build(c)>>
       /\ <<Callback>> \o <<operate>> = <<Callback, operate>>
       /\ <<Post("rc")>> \o <<Build(c)>> = <<Post("rc"), Build(c)>>
  BY Pair
<1>11. /\ <<Callback>> \o <<SendInHandler(c), Build(c)>> = <<Callback, SendInHandler(c), Build(c)>>
       /\ <<configure>> \o <<Post("rc"), Build(c)>> = <<configure, Post("rc"), Build(c)>>
  BY Triple
<1>12. <<Wait("rc")>> \o <<configure, Post("rc"), Build(c)>> =
         <<Wait("rc"), configure, Post("rc"), Build(c)>>
  BY Quadruple
<1>13. \/ b = <<Build(c)>> \/ b = <<Callback, SendInHandler(c), Build(c)>>
       \/ b = <<Callback, operate>> \/ b = <<Wait("rc"), configure, Post("rc"), Build(c)>>
       \/ \E u \in ValueUpdated : b = <<Callback>> \o u \o <<Build(c)>>
  BY DEF Bodies, operate, configure
<1>14. Runs(t, b, held, held)
  BY <1>4, <1>6, <1>7, <1>8, <1>9, <1>10, <1>11, <1>12, <1>13
<1> QED BY <1>14 DEF t, held

(* What a connection thread may start.                                     *)
LEMMA RunsConnection ==
  ASSUME NEW c \in Clients, NEW p \in Requests(c) \cup Associations(c) \cup Endings(c)
  PROVE  Runs(Con(c), p, {}, {})
<1> DEFINE t == Con(c)
           model == {"model"}
           both == {"model", c}
           stop == <<"stop", c>>
           close == <<"close", c>>
<1>1. /\ "model" \in Locks /\ c \in Locks /\ model \in SUBSET Locks /\ both \in SUBSET Locks
      /\ {} \in SUBSET Locks /\ c \in Own(t) /\ c \notin {"model", "rc"}
  BY ClientsAssumption DEF Locks, Own
<1>2. CASE p \in Requests(c)
  <2>1. PICK b \in Bodies(c) : p = <<Wait("model"), Wait(c)>> \o b \o <<Post(c), Post("model")>>
    BY <1>2 DEF Requests
  <2>2. /\ Wait("model") \in Operation /\ Wait(c) \in Operation
        /\ Post("model") \in Operation /\ Post(c) \in Operation
    BY <1>1, LockOperations
  <2>3. /\ After(Wait("model"), {}) = model /\ After(Wait(c), model) = both
        /\ After(Post(c), both) = model /\ After(Post("model"), model) = {}
    BY <1>1 DEF After, Wait, Post
  <2>4. /\ May(t, Wait("model"), {}) /\ May(t, Wait(c), model)
        /\ May(t, Post(c), both) /\ May(t, Post("model"), model)
    BY <1>1, ClientsAssumption DEF May, Wait, Post
  <2>5. Runs(t, b, both, both)
    BY RunsBody
  <2> HIDE DEF t, model, both
  <2>6. Runs(t, <<Wait("model")>> \o <<Wait(c)>>, {}, both)
    <3>1. Runs(t, <<Wait(c)>>, model, both)
      BY <1>1, <2>2, <2>3, <2>4, RunsOne
    <3> QED BY <1>1, <2>2, <2>3, <2>4, <3>1, RunsThen
  <2>7. Runs(t, <<Post(c)>> \o <<Post("model")>>, both, {})
    <3>1. Runs(t, <<Post("model")>>, model, {})
      BY <1>1, <2>2, <2>3, <2>4, RunsOne
    <3> QED BY <1>1, <2>2, <2>3, <2>4, <3>1, RunsThen
  <2>8. /\ <<Wait("model")>> \o <<Wait(c)>> = <<Wait("model"), Wait(c)>>
        /\ <<Post(c)>> \o <<Post("model")>> = <<Post(c), Post("model")>>
    BY Pair
  <2>9. Runs(t, <<Wait("model"), Wait(c)>> \o b, {}, both)
    BY <2>5, <2>6, <2>8, RunsConcat
  <2>10. Runs(t, p, {}, {})
    BY <2>1, <2>7, <2>8, <2>9, RunsConcat
  <2> QED BY <2>10 DEF t
<1>3. CASE p \in Associations(c)
  <2>1. p = <<Wait(c), Build(c), Post(c)>>
    BY <1>3 DEF Associations
  <2> QED BY <1>1, <2>1, RunsLocked
<1>4. CASE p \in Endings(c)
  <2>1. /\ Build(c) \in Operation /\ May(t, Build(c), {}) /\ After(Build(c), {}) = {}
        /\ stop \in Operation /\ May(t, stop, {}) /\ After(stop, {}) = {}
    BY <1>1, Unlocked
  <2>2. close \in Operation /\ May(t, close, {}) /\ After(close, {}) = {}
    BY <1>1 DEF Operation, Kinds, May, After, Wait
  <2>3. p = <<Build(c), stop, close>> \/ p = <<stop, close>>
    BY <1>4 DEF Endings
  <2> HIDE DEF t, stop, close
  <2>4. Runs(t, <<stop>> \o <<close>>, {}, {})
    <3>1. Runs(t, <<close>>, {}, {})
      BY <1>1, <2>2, RunsOne
    <3> QED BY <1>1, <2>1, <3>1, RunsThen
  <2>5. Runs(t, <<Build(c)>> \o (<<stop>> \o <<close>>), {}, {})
    BY <1>1, <2>1, <2>4, RunsThen
  <2>6. <<stop>> \o <<close>> = <<stop, close>>
    BY Pair
  <2>7. <<Build(c)>> \o <<stop, close>> = <<Build(c), stop, close>>
    BY Triple
  <2>8. Runs(t, p, {}, {})
    BY <2>3, <2>4, <2>5, <2>6, <2>7
  <2> QED BY <2>8 DEF t
<1> QED BY <1>2, <1>3, <1>4
(* What the event worker, the application and a control thread run.        *)
LEMMA RunsOthers ==
  ASSUME NEW t, NEW p
  PROVE  /\ p \in WorkerPaths \cup AppPaths => Runs(t, p, {}, {})
         /\ \A c \in Clients : p \in OperPaths(c) => Runs(t, p, {}, {})
<1> DEFINE model == {"model"}
<1>1. "model" \in Locks /\ model \in SUBSET Locks /\ {} \in SUBSET Locks /\ "rc" \notin model
  BY DEF Locks
<1>2. Callback \in Operation /\ May(t, Callback, {}) /\ After(Callback, {}) = {}
  BY <1>1, Unlocked
<1>3. \A c \in Clients : /\ SendMessage(c) \in Operation /\ May(t, SendMessage(c), {})
                         /\ After(SendMessage(c), {}) = {}
  BY ClientsAssumption DEF SendMessage, Operation, Kinds, Locks, May, After, Wait
<1>4. Runs(t, <<Callback>>, {}, {}) /\ \A c \in Clients : Runs(t, <<SendMessage(c)>>, {}, {})
  BY <1>1, <1>2, <1>3, RunsOne
<1>5. ASSUME NEW c \in Clients PROVE Runs(t, <<Callback, SendMessage(c)>>, {}, {})
  <2>1. Runs(t, <<Callback>> \o <<SendMessage(c)>>, {}, {})
    BY <1>4, RunsConcat
  <2>2. <<Callback>> \o <<SendMessage(c)>> = <<Callback, SendMessage(c)>>
    BY Pair
  <2> QED BY <2>1, <2>2
<1>6. \A u \in ValueUpdated : Runs(t, u, {}, {})
  BY <1>1, RunsValueUpdated
<1>7. ASSUME p \in WorkerPaths PROVE Runs(t, p, {}, {})
  BY <1>5, <1>6, <1>7 DEF WorkerPaths
<1>8. ASSUME NEW u \in ValueUpdated PROVE Runs(t, <<Wait("model")>> \o u \o <<Post("model")>>, {}, {})
  <2>1. /\ Wait("model") \in Operation /\ Post("model") \in Operation
        /\ After(Wait("model"), {}) = model /\ After(Post("model"), model) = {}
        /\ May(t, Post("model"), model)
    <3>1. {} \cup {"model"} = model /\ model \ {"model"} = {} /\ "model" \in model
      OBVIOUS
    <3> HIDE DEF model
    <3> QED BY <1>1, <3>1, LockOperations
  <2>2. May(t, Wait("model"), {})
    BY <1>1, ClientsAssumption DEF May, Wait
  <2>3. Runs(t, u, model, model)
    <3>1. model \subseteq {"model"} \cup Own(t)
      OBVIOUS
    <3> HIDE DEF model
    <3> QED BY <1>1, <3>1, RunsValueUpdated
  <2> HIDE DEF model
  <2>4. Runs(t, <<Wait("model")>>, {}, model) /\ Runs(t, <<Post("model")>>, model, {})
    BY <1>1, <2>1, <2>2, RunsOne
  <2>5. Runs(t, <<Wait("model")>> \o u, {}, model)
    BY <2>3, <2>4, RunsConcat
  <2> QED BY <2>4, <2>5, RunsConcat
<1>9. ASSUME p \in AppPaths PROVE Runs(t, p, {}, {})
  BY <1>6, <1>8, <1>9 DEF AppPaths
<1>10. ASSUME NEW c \in Clients, p \in OperPaths(c) PROVE Runs(t, p, {}, {})
  <2>1. CASE p = <<Callback, SendMessage(c)>>
    BY <1>5, <2>1
  <2>2. CASE \E u \in ValueUpdated \cup {<< >>} :
               p = <<Callback, SendMessage(c), Callback>> \o u \o <<SendMessage(c)>>
    <3>1. PICK u \in ValueUpdated \cup {<< >>} :
            p = <<Callback, SendMessage(c), Callback>> \o u \o <<SendMessage(c)>>
      BY <2>2
    <3>2. Runs(t, u, {}, {})
      BY <1>1, <1>6, RunsNone
    <3>3. <<SendMessage(c)>> \o <<Callback>> = <<SendMessage(c), Callback>>
      BY Pair
    <3>4. <<Callback>> \o <<SendMessage(c), Callback>> = <<Callback, SendMessage(c), Callback>>
      BY Triple
    <3>5. Runs(t, <<SendMessage(c)>> \o <<Callback>>, {}, {})
      BY <1>4, RunsConcat
    <3>6. Runs(t, <<Callback, SendMessage(c), Callback>>, {}, {})
      BY <1>4, <3>3, <3>4, <3>5, RunsConcat
    <3>7. Runs(t, <<Callback, SendMessage(c), Callback>> \o u, {}, {})
      BY <3>2, <3>6, RunsConcat
    <3> QED BY <1>4, <3>1, <3>7, RunsConcat
  <2> QED BY <1>10, <2>1, <2>2 DEF OperPaths
<1> QED BY <1>7, <1>9, <1>10

(* The path a thread starts takes and gives back its locks.                *)
LEMMA PathsRun ==
  ASSUME NEW t \in Threads, NEW p \in Paths(t)
  PROVE  Runs(t, p, {}, {})
<1>0. App # Worker /\ App[1] # "connection" /\ Worker[1] # "connection"
  BY DEF App, Worker
<1>1. CASE t = Worker
  <2>1. p \in WorkerPaths
    BY <1>0, <1>1 DEF Paths
  <2> QED BY <2>1, RunsOthers
<1>2. CASE t = App
  <2>1. p \in AppPaths
    BY <1>0, <1>2 DEF Paths
  <2> QED BY <2>1, RunsOthers
<1>3. ASSUME NEW c \in Clients, t = Con(c) PROVE Runs(t, p, {}, {})
  <2>1. t # Worker /\ t # App /\ t[2] = c
    BY <1>3 DEF Con, Worker, App
  <2>2. p \in Requests(c) \cup Associations(c) \cup Endings(c)
    BY <2>1 DEF Paths
  <2> QED BY <1>3, <2>2, RunsConnection
<1>4. ASSUME NEW c \in Clients, t = Oper(c) PROVE FALSE
  BY <1>4 DEF Paths, Oper, Worker, App
<1> QED BY <1>1, <1>2, <1>3, <1>4 DEF Threads

-----------------------------------------------------------------------------
(* The invariant.                                                          *)

(* A thread whose path and locks stay.                                     *)
LEMMA ThreadUntouched ==
  ASSUME NEW t, ThreadInv(t), path'[t] = path[t],
         \A l \in Locks : holder'[l] = t <=> holder[l] = t
  PROVE  ThreadInv(t)'
<1>1. Held(t)' = Held(t)
  BY DEF Held
<1>2. WaitsForItself(t) => WaitsForItself(t)'
  BY <1>1 DEF WaitsForItself
<1>3. Runs(t, path[t], Held(t), {}) => Runs(t, path[t], Held(t), {})'
  BY <1>1 DEF Runs
<1> QED BY <1>2, <1>3 DEF ThreadInv

(* A thread that makes a step holds what its path says.                    *)
LEMMA StepRuns ==
  ASSUME LocksInv, NEW t \in Threads, path[t] # << >>,
         At(t, "wait") => holder[Arg(t)] = Nobody
  PROVE  /\ Head(path[t]) \in Operation /\ May(t, Head(path[t]), Held(t))
         /\ Runs(t, Tail(path[t]), After(Head(path[t]), Held(t)), {})
         /\ Held(t) \in SUBSET Locks
<1>1. t # Nobody
  BY DEF Threads, Nobody, Worker, App, Con, Oper
<1>2. ~WaitsForItself(t)
  BY <1>1 DEF WaitsForItself, Held, At, Arg, Wait
<1>3. Runs(t, path[t], Held(t), {})
  BY <1>2 DEF LocksInv, ThreadInv
<1> QED BY <1>3, RunsHead DEF Held

(* A step of one thread keeps the invariant when the operations put in the *)
(* place of the one performed have the effect it has on the locks.         *)
LEMMA Continued ==
  ASSUME LocksInv, NEW t \in Threads, path[t] # << >>,
         At(t, "wait") => holder[Arg(t)] = Nobody,
         NEW more, Continue(t, more),
         Runs(t, more, Held(t)', After(Head(path[t]), Held(t))),
         holder' \in [Locks -> Threads \cup {Nobody}],
         \A l \in Locks, s \in Threads \ {t} : holder'[l] = s <=> holder[l] = s,
         UNCHANGED started, owner' \in Clients \cup {None}, stopped' \subseteq Clients
  PROVE  LocksInv'
<1>1. path' = [path EXCEPT ![t] = more \o Tail(path[t])] /\ path \in [Threads -> Seq(Operation)]
  BY DEF LocksInv, Continue
<1>2. Runs(t, more \o Tail(path[t]), Held(t)', {})
  BY StepRuns, RunsConcat
<1>3. more \o Tail(path[t]) \in Seq(Operation)
  BY <1>2 DEF Runs
<1>4. path' \in [Threads -> Seq(Operation)] /\ path'[t] = more \o Tail(path[t])
  BY <1>1, <1>3
<1>5. TypeOK'
  BY <1>4 DEF LocksInv, TypeOK
<1>6. ThreadInv(t)'
  <2>1. Runs(t, path'[t], Held(t)', {})
    BY <1>2, <1>4
  <2> QED BY <2>1 DEF ThreadInv
<1>7. ASSUME NEW s \in Threads \ {t} PROVE ThreadInv(s)'
  <2>1. path'[s] = path[s] /\ ThreadInv(s)
    BY <1>1 DEF LocksInv
  <2> QED BY <2>1, ThreadUntouched
<1> QED BY <1>4, <1>5, <1>6, <1>7 DEF LocksInv

(* An operation that leaves the locks.                                     *)
LEMMA Performed ==
  ASSUME LocksInv, NEW t \in Threads, path[t] # << >>, ~At(t, "wait"), ~At(t, "post"),
         NEW more, Continue(t, more), Runs(t, more, Held(t), Held(t)),
         UNCHANGED <<holder, started>>, owner' \in Clients \cup {None}, stopped' \subseteq Clients
  PROVE  LocksInv'
<1>1. After(Head(path[t]), Held(t)) = Held(t) /\ Held(t)' = Held(t)
  BY DEF After, At, Held
<1>2. holder' \in [Locks -> Threads \cup {Nobody}]
  BY DEF LocksInv, TypeOK
<1> QED BY <1>1, <1>2, Continued
(* A thread starts one of its paths.                                       *)
LEMMA StartKept ==
  ASSUME LocksInv, NEW t \in Threads, Start(t)
  PROVE  LocksInv'
<1>1. PICK p \in Paths(t) : path' = [path EXCEPT ![t] = p]
  BY DEF Start
<1>2. /\ path[t] = << >> /\ started < MaxPaths /\ started' = started + 1
      /\ UNCHANGED <<holder, owner, stopped>>
  BY DEF Start
<1>3. Runs(t, p, {}, {}) /\ p \in Seq(Operation)
  BY PathsRun DEF Runs
<1>4. path' \in [Threads -> Seq(Operation)] /\ path'[t] = p
  BY <1>1, <1>3 DEF LocksInv
<1>5. TypeOK'
  BY <1>2, <1>4, MaxPathsAssumption DEF LocksInv, TypeOK
<1>6. ThreadInv(t)'
  <2>1. Held(t) = {} /\ Held(t)' = Held(t)
    <3>1. Runs(t, << >>, Held(t), {})
      BY <1>2 DEF LocksInv, ThreadInv, WaitsForItself
    <3> QED BY <1>2, <3>1, RunsNone DEF Held
  <2>2. Runs(t, path'[t], Held(t)', {})
    BY <1>3, <1>4, <2>1
  <2> QED BY <2>2 DEF ThreadInv
<1>7. ASSUME NEW s \in Threads \ {t} PROVE ThreadInv(s)'
  <2>1. path'[s] = path[s] /\ ThreadInv(s)
    BY <1>1 DEF LocksInv
  <2> QED BY <1>2, <2>1, ThreadUntouched
<1> QED BY <1>4, <1>5, <1>6, <1>7 DEF LocksInv

(* A lock is taken or given back.                                          *)
LEMMA SemaphoreKept ==
  ASSUME LocksInv, NEW t \in Threads, SemaphoreWait(t) \/ SemaphorePost(t)
  PROVE  LocksInv'
<1> DEFINE l == Arg(t)
<1>1. /\ path[t] # << >> /\ Continue(t, << >>) /\ UNCHANGED <<started, owner, stopped>>
      /\ At(t, "wait") => holder[l] = Nobody
  BY DEF SemaphoreWait, SemaphorePost, At
<1>2. /\ May(t, Head(path[t]), Held(t)) /\ After(Head(path[t]), Held(t)) \in SUBSET Locks
      /\ Head(path[t])[2] = l
  BY <1>1, StepRuns DEF Arg, After, May
<1>3. t # Nobody /\ holder \in [Locks -> Threads \cup {Nobody}] /\ \A s \in Threads : s # Nobody
  BY DEF Threads, Nobody, Worker, App, Con, Oper, LocksInv, TypeOK
<1>4. l \in Locks
  BY <1>2 DEF SemaphoreWait, SemaphorePost, At, May
<1>5. /\ holder' \in [Locks -> Threads \cup {Nobody}]
      /\ Held(t)' = After(Head(path[t]), Held(t))
      /\ \A k \in Locks, s \in Threads \ {t} : holder'[k] = s <=> holder[k] = s
  <2>1. CASE SemaphoreWait(t)
    <3>1. /\ Head(path[t])[1] = "wait" /\ holder[l] = Nobody
          /\ holder' = [holder EXCEPT ![l] = t]
      BY <2>1 DEF SemaphoreWait, At
    <3>2. After(Head(path[t]), Held(t)) = Held(t) \cup {l}
      BY <1>2, <3>1 DEF After
    <3> HIDE DEF l
    <3> QED BY <1>3, <1>4, <3>1, <3>2 DEF Held
  <2>2. CASE SemaphorePost(t)
    <3>1. /\ Head(path[t])[1] = "post" /\ holder' = [holder EXCEPT ![l] = Nobody]
      BY <2>2 DEF SemaphorePost, At
    <3>2. /\ After(Head(path[t]), Held(t)) = Held(t) \ {l}
          /\ l \in Held(t)
      BY <1>2, <3>1 DEF After, May
    <3> HIDE DEF l
    <3> QED BY <1>3, <1>4, <3>1, <3>2 DEF Held
  <2> QED BY <2>1, <2>2
<1>6. Runs(t, << >>, Held(t)', After(Head(path[t]), Held(t)))
  BY <1>2, <1>5, RunsNone
<1>7. owner' \in Clients \cup {None} /\ stopped' \subseteq Clients
  BY <1>1 DEF LocksInv, TypeOK
<1> QED BY <1>1, <1>5, <1>6, <1>7, Continued

(* Steps that neither take a lock nor lead into code that does.            *)
LEMMA PlainKept ==
  ASSUME LocksInv, NEW t \in Threads,
         Finish(t) \/ Configure(t) \/ StopConnection(t) \/ CloseConnection(t)
  PROVE  LocksInv'
<1>1. /\ path[t] # << >> /\ ~At(t, "wait") /\ ~At(t, "post") /\ Continue(t, << >>)
      /\ UNCHANGED <<holder, started>>
  BY DEF Finish, Configure, StopConnection, CloseConnection, At
<1>2. Runs(t, << >>, Held(t), Held(t))
  BY RunsNone DEF Held
<1>3. Finish(t) \/ At(t, "close") \/ Arg(t) \in Clients
  BY <1>1, StepRuns DEF May, At, Arg, Configure, StopConnection, CloseConnection
<1>4. owner' \in Clients \cup {None} /\ stopped' \subseteq Clients
  BY <1>3 DEF LocksInv, TypeOK, Finish, Configure, StopConnection, CloseConnection, At
<1> QED BY <1>1, <1>2, <1>4, Performed

(* IsoConnection_sendMessage takes the connection's lock unless the caller *)
(* says it holds it.                                                       *)
LEMMA SendMessageKept ==
  ASSUME LocksInv, NEW t \in Threads, IsoConnection_sendMessage(t)
  PROVE  LocksInv'
<1>1. /\ path[t] # << >> /\ ~At(t, "wait") /\ ~At(t, "post")
      /\ UNCHANGED <<holder, started, owner, stopped>> /\ Held(t) \in SUBSET Locks
  BY DEF IsoConnection_sendMessage, At, Held
<1>2. May(t, Head(path[t]), Held(t)) /\ Arg(t) = Head(path[t])[2]
  BY <1>1, StepRuns DEF Arg
<1>3. Arg(t) \in Clients
  BY <1>2 DEF IsoConnection_sendMessage, At, May
<1>4. PICK more : Continue(t, more) /\ Runs(t, more, Held(t), Held(t))
  <2>1. CASE At(t, "send") /\ Continue(t, Sending(Arg(t)))
    <3>1. Held(t) = {}
      BY <1>2, <2>1 DEF May, At
    <3>2. Runs(t, << >>, Held(t), Held(t))
      BY <1>1, RunsNone
    <3>3. Runs(t, <<Wait(Arg(t)), Build(Arg(t)), Post(Arg(t))>>, Held(t), Held(t))
      BY <1>1, <1>3, <3>1, RunsLocked
    <3> QED BY <2>1, <3>2, <3>3 DEF Sending
  <2>2. CASE At(t, "handler") /\ Continue(t, SendingInHandler(Arg(t)))
    <3>1. t = Con(Arg(t))
      BY <1>2, <2>2 DEF May, At
    <3>2. /\ Build(Arg(t)) \in Operation /\ May(Con(Arg(t)), Build(Arg(t)), Held(t))
          /\ After(Build(Arg(t)), Held(t)) = Held(t)
      BY <1>1, <1>3, Unlocked
    <3>3. Runs(t, <<Build(Arg(t))>>, Held(t), Held(t))
      BY <1>1, <3>1, <3>2, RunsOne
    <3> QED BY <2>2, <3>3 DEF SendingInHandler
  <2> QED BY <2>1, <2>2 DEF IsoConnection_sendMessage
<1>5. owner' \in Clients \cup {None} /\ stopped' \subseteq Clients
  BY <1>1 DEF LocksInv, TypeOK
<1> QED BY <1>1, <1>4, <1>5, Performed

(* A report goes to another client, or the thread waits for itself.        *)
LEMMA SendReportKept ==
  ASSUME LocksInv, NEW t \in Threads, sendReport(t)
  PROVE  LocksInv'
<1>1. /\ path[t] # << >> /\ ~At(t, "wait") /\ ~At(t, "post")
      /\ UNCHANGED <<holder, started, owner, stopped>> /\ Held(t) \in SUBSET Locks
      /\ At(t, "report") /\ Continue(t, IF owner = None THEN << >> ELSE Sending(owner))
  BY DEF sendReport, At, Held
<1>2. owner' \in Clients \cup {None} /\ stopped' \subseteq Clients /\ owner \in Clients \cup {None}
  BY <1>1 DEF LocksInv, TypeOK
<1>3. "rc" \in Held(t) /\ Held(t) \subseteq {"model", "rc"} \cup Own(t)
  BY <1>1, StepRuns DEF May, At
<1>4. CASE owner = None \/ owner \in stopped
  <2>1. Continue(t, << >>)
    BY <1>1, <1>4 DEF Sending
  <2> QED BY <1>1, <1>2, <2>1, RunsNone, Performed
<1> DEFINE more == <<Wait(owner), Build(owner), Post(owner)>>
<1>5. CASE owner \in Clients \ Held(t) /\ owner \notin stopped
  <2>1. Continue(t, more)
    BY <1>1, <1>5, ClientsAssumption DEF Sending
  <2>2. Runs(t, more, Held(t), Held(t))
    BY <1>1, <1>3, <1>5, RunsLocked
  <2> QED BY <1>1, <1>2, <2>1, <2>2, Performed
<1>6. CASE owner \in Clients \cap Held(t) /\ owner \notin stopped
  <2>1. t = Con(owner) /\ Continue(t, more)
    BY <1>1, <1>3, <1>6, ClientsAssumption DEF Own, Sending
  <2>2. Tail(path[t]) \in Seq(Operation)
    BY <1>1, StepRuns DEF Runs
  <2>3. more \in Seq(Operation) /\ more # << >> /\ Head(more) = Wait(owner)
    <3>1. Wait(owner) \in Operation /\ Build(owner) \in Operation /\ Post(owner) \in Operation
      <4>1. owner \in Clients /\ owner \in Locks
        BY <1>6 DEF Locks
      <4> QED BY <1>1, <4>1, LockOperations, OtherOperations
    <3> QED BY <3>1
  <2>4. /\ more \o Tail(path[t]) \in Seq(Operation) /\ more \o Tail(path[t]) # << >>
        /\ Head(more \o Tail(path[t])) = Wait(owner)
    <3> DEFINE tail == Tail(path[t])
    <3>1. Len(more) = 3 /\ Len(tail) \in Nat /\ more[1] = Wait(owner)
      BY <2>2
    <3> HIDE DEF more, tail
    <3>2. /\ more \o tail \in Seq(Operation) /\ Len(more \o tail) = 3 + Len(tail)
          /\ (more \o tail)[1] = more[1]
      <4>1. tail \in Seq(Operation)
        BY <2>2 DEF tail
      <4>2. /\ more \o tail \in Seq(Operation) /\ Len(more \o tail) = Len(more) + Len(tail)
            /\ \A i \in 1..Len(more) + Len(tail) :
                 (more \o tail)[i] = IF i <= Len(more) THEN more[i] ELSE tail[i - Len(more)]
        BY <2>3, <4>1, ConcatProperties
      <4>3. 1 \in 1..Len(more) + Len(tail) /\ 1 <= Len(more)
        BY <3>1
      <4> QED BY <3>1, <4>2, <4>3
    <3>3. more \o tail # << >>
      BY <3>1, <3>2, EmptySeq
    <3>4. Head(more \o tail) = Wait(owner)
      BY <3>1, <3>2, <3>3, HeadTailProperties
    <3> QED BY <3>2, <3>3, <3>4 DEF tail
  <2> HIDE DEF more
  <2>5. path' \in [Threads -> Seq(Operation)] /\ path'[t] = more \o Tail(path[t])
        /\ \A s \in Threads \ {t} : path'[s] = path[s]
    BY <2>1, <2>4 DEF LocksInv, Continue
  <2>6. TypeOK'
    BY <1>1, <1>2, <2>5 DEF LocksInv, TypeOK
  <2>7. ThreadInv(t)'
    <3>1. Held(t)' = Held(t)
      BY <1>1 DEF Held
    <3> QED BY <1>3, <1>6, <2>1, <2>4, <2>5, <3>1 DEF ThreadInv, WaitsForItself
  <2>8. ASSUME NEW s \in Threads \ {t} PROVE ThreadInv(s)'
    <3>1. ThreadInv(s)
      BY DEF LocksInv
    <3> QED BY <1>1, <2>5, <3>1, ThreadUntouched
  <2> QED BY <2>5, <2>6, <2>7, <2>8 DEF LocksInv
<1> QED BY <1>2, <1>4, <1>5, <1>6
(* startControlOperateThread starts a thread that holds nothing.           *)
LEMMA StartOperateKept ==
  ASSUME LocksInv, NEW t \in Threads, StartOperate(t)
  PROVE  LocksInv'
<1>1. /\ path[t] # << >> /\ ~At(t, "wait") /\ ~At(t, "post") /\ At(t, "operate")
      /\ UNCHANGED <<holder, started, owner, stopped>> /\ Held(t) \in SUBSET Locks
  BY DEF StartOperate, At, Held
<1>2. owner' \in Clients \cup {None} /\ stopped' \subseteq Clients
  BY <1>1 DEF LocksInv, TypeOK
<1>3. Runs(t, << >>, Held(t), Held(t))
  BY <1>1, RunsNone
<1>4. PICK c \in Clients : c = Arg(t)
  BY <1>1, StepRuns DEF May, At, Arg
<1>5. PICK o \in Threads : o = Oper(c)
  BY DEF Threads
<1>6. CASE path[o] # << >>
  BY <1>1, <1>2, <1>3, <1>4, <1>5, <1>6, Performed DEF StartOperate
<1>7. CASE path[o] = << >>
  <2>1. PICK p \in OperPaths(c) : path' = [path EXCEPT ![t] = Tail(@), ![o] = p]
    BY <1>4, <1>5, <1>7 DEF StartOperate
  <2>2. Runs(o, p, {}, {}) /\ p \in Seq(Operation)
    <3>1. Runs(o, p, {}, {})
      BY RunsOthers
    <3> QED BY <3>1 DEF Runs
  <2>3. Tail(path[t]) \in Seq(Operation) /\ Runs(t, Tail(path[t]), Held(t), {})
    <3>1. After(Head(path[t]), Held(t)) = Held(t)
      BY <1>1 DEF After, At
    <3>2. Runs(t, Tail(path[t]), After(Head(path[t]), Held(t)), {})
      BY <1>1, StepRuns
    <3>3. Runs(t, Tail(path[t]), Held(t), {})
      BY <3>1, <3>2
    <3> QED BY <3>3 DEF Runs
  <2>4. t # o
    BY <1>1, <1>7
  <2>5. /\ path' \in [Threads -> Seq(Operation)] /\ path'[t] = Tail(path[t]) /\ path'[o] = p
        /\ \A s \in Threads \ {t, o} : path'[s] = path[s]
    BY <2>1, <2>2, <2>3, <2>4 DEF LocksInv
  <2>6. \A s : Held(s)' = Held(s)
    BY <1>1 DEF Held
  <2>7. TypeOK'
    BY <1>1, <1>2, <2>5 DEF LocksInv, TypeOK
  <2>8. ThreadInv(t)'
    <3>1. Runs(t, path'[t], Held(t)', {})
      BY <2>3, <2>5, <2>6
    <3> QED BY <3>1 DEF ThreadInv
  <2>9. ThreadInv(o)'
    <3>1. Held(o) = {}
      <4>1. Runs(o, << >>, Held(o), {})
        BY <1>7 DEF LocksInv, ThreadInv, WaitsForItself
      <4> QED BY <4>1, RunsNone
    <3>2. Runs(o, path'[o], Held(o)', {})
      BY <2>2, <2>5, <2>6, <3>1
    <3> QED BY <3>2 DEF ThreadInv
  <2>10. ASSUME NEW s \in Threads \ {t, o} PROVE ThreadInv(s)'
    <3>1. ThreadInv(s)
      BY DEF LocksInv
    <3> QED BY <1>1, <2>5, <3>1, ThreadUntouched
  <2> QED BY <2>5, <2>7, <2>8, <2>9, <2>10 DEF LocksInv
<1> QED BY <1>6, <1>7

(* At the start no lock is held and no path under way.                     *)
LEMMA InitLocksInv ==
  ASSUME Init
  PROVE  LocksInv
<1>1. path \in [Threads -> Seq(Operation)] /\ \A t \in Threads : path[t] = << >>
  BY EmptySeq DEF Init
<1>2. TypeOK
  BY <1>1, MaxPathsAssumption DEF Init, TypeOK
<1>3. ASSUME NEW t \in Threads PROVE ThreadInv(t)
  <2>1. t # Nobody
    BY DEF Threads, Nobody, Worker, App, Con, Oper
  <2>2. Held(t) = {}
    BY <2>1 DEF Held, Init
  <2> QED BY <1>1, <2>2, RunsNone DEF ThreadInv
<1> QED BY <1>1, <1>2, <1>3 DEF LocksInv

(* Every step keeps the invariant.                                         *)
LEMMA NextLocksInv ==
  ASSUME LocksInv, [Next]_vars
  PROVE  LocksInv'
<1>1. CASE UNCHANGED vars
  <2>1. \A t \in Threads : ThreadInv(t)
    BY DEF LocksInv
  <2>2. ASSUME NEW t \in Threads PROVE ThreadInv(t)'
    BY <1>1, <2>1, ThreadUntouched DEF vars
  <2> QED BY <1>1, <2>2 DEF LocksInv, TypeOK, vars
<1>2. CASE Next
  <2>1. PICK t \in Threads : Start(t) \/ Step(t)
    BY <1>2 DEF Next
  <2>2. CASE Start(t)
    BY <2>2, StartKept
  <2>3. CASE Step(t)
    BY <2>3, SemaphoreKept, PlainKept, SendMessageKept, SendReportKept, StartOperateKept DEF Step
  <2> QED BY <2>1, <2>2, <2>3
<1> QED BY <1>1, <1>2

-----------------------------------------------------------------------------
\* A send buffer is used by one thread at a time: whoever builds a message in
\* it, except for the answer to a release, holds the lock of its connection.
THEOREM SendBuffersExclusive ==
  Spec => [](TypeOK /\ SendBufferExclusive)
<1>1. ASSUME LocksInv PROVE SendBufferExclusive
  <2> SUFFICES ASSUME NEW c \in Clients
               PROVE  Cardinality({t \in Building(c) : ~(t = Con(c) /\ holder[c] # t)}) <= 1
    BY DEF SendBufferExclusive
  <2> DEFINE locked == {t \in Building(c) : ~(t = Con(c) /\ holder[c] # t)}
  <2>1. ASSUME NEW t \in locked PROVE t = holder[c]
    <3>1. t \in Threads /\ path[t] # << >> /\ ~At(t, "wait") /\ At(t, "build") /\ Arg(t) = c
      BY DEF Building, At
    <3>2. c \in Held(t) \/ t = Con(c)
      BY <1>1, <3>1, StepRuns DEF May, At, Arg
    <3> QED BY <3>2 DEF Held
  <2>2. locked \in SUBSET {holder[c]}
    BY <2>1
  <2>3. /\ IsFiniteSet({holder[c]}) /\ Cardinality({holder[c]}) = 1
    BY FS_Singleton
  <2> HIDE DEF locked
  <2>4. IsFiniteSet(locked) /\ Cardinality(locked) <= 1
    BY <2>2, <2>3, FS_Subset
  <2> QED BY <2>4 DEF locked
<1>2. LocksInv => TypeOK /\ SendBufferExclusive
  BY <1>1 DEF LocksInv
<1> QED BY <1>2, InitLocksInv, NextLocksInv, PTL DEF Spec
\* No set of threads waits for the set itself, except when a report is to be
\* sent to the client whose connection thread waits for the report lock.
\* Locks are taken in the order model, own connection, report, and the lock of
\* another connection last: only the connection of the report's owner can
\* close a cycle.
THEOREM NoDeadlockButOne ==
  Spec => []NoOtherDeadlock
<1>1. ASSUME LocksInv, ~ReportDeadlock, NEW S \in SUBSET Waiting, S # {}
      PROVE  \E t \in S : WaitsFor(t) \notin S
  <2> SUFFICES ASSUME \A t \in S : WaitsFor(t) \in S PROVE FALSE
    OBVIOUS
  <2>1. ASSUME NEW t \in S
        PROVE  /\ t \in Threads /\ path[t] # << >> /\ (At(t, "wait") \/ At(t, "close"))
               /\ May(t, Head(path[t]), Held(t))
    <3>1. t \in Threads /\ path[t] # << >> /\ (At(t, "wait") \/ At(t, "close"))
      BY DEF Waiting, At
    <3>2. ~WaitsForItself(t)
      <4> SUFFICES ASSUME NEW c \in Clients, t = Con(c), Head(path[t]) = Wait(c),
                          {c, "rc"} \subseteq Held(t)
                   PROVE  FALSE
        BY DEF WaitsForItself
      <4>1. At(t, "wait") /\ Arg(t) = c
        BY <3>1 DEF At, Arg, Wait
      <4>2. holder["rc"] = t /\ holder[c] = Con(c)
        BY DEF Held
      <4> QED BY <1>1, <4>1, <4>2 DEF ReportDeadlock
    <3>3. Runs(t, path[t], Held(t), {})
      BY <1>1, <3>1, <3>2 DEF LocksInv, ThreadInv
    <3> QED BY <3>1, <3>3, RunsHead
  <2>2. ASSUME NEW t \in S, At(t, "wait")
        PROVE  /\ Arg(t) \in Locks /\ Arg(t) \notin Held(t)
               /\ holder[Arg(t)] \in S /\ Arg(t) \in Held(holder[Arg(t)])
               /\ Arg(t) = "model" => Held(t) = {}
               /\ Arg(t) = "rc" => Held(t) \subseteq {"model", "rc"} \cup Own(t)
               /\ Arg(t) \in Clients => /\ Held(t) \subseteq {"model", "rc"} \cup Own(t)
                                        /\ (Held(t) \cap Clients = {} \/ "rc" \in Held(t))
    <3>1. /\ Head(path[t])[1] = "wait" /\ Head(path[t])[2] = Arg(t)
          /\ May(t, Head(path[t]), Held(t))
      BY <2>1, <2>2 DEF At, Arg
    <3>2. Head(path[t]) \in Operation
      <4>1. path[t] \in Seq(Operation) /\ path[t] # << >>
        BY <1>1, <2>1 DEF LocksInv
      <4> QED BY <4>1, HeadTailProperties
    <3>3. Head(path[t]) = Wait(Arg(t))
      BY <3>1, <3>2 DEF Operation, Wait
    <3>4. holder[Arg(t)] \in S
      BY <1>1, <2>2 DEF WaitsFor, At
    <3> QED BY <3>1, <3>3, <3>4 DEF May, Held
  <2>3. ASSUME NEW t \in S, At(t, "close")
        PROVE  Held(t) = {} /\ Arg(t) \in Clients /\ t = Con(Arg(t)) /\ Oper(Arg(t)) \in S
    <3>1. Head(path[t])[1] = "close" /\ May(t, Head(path[t]), Held(t))
      BY <2>1, <2>3 DEF At
    <3> QED BY <1>1, <2>3, <3>1 DEF May, Arg, WaitsFor
  <2>4. \A t \in S : Held(t) # {} => At(t, "wait") /\ Arg(t) # "model"
    BY <2>1, <2>2, <2>3
  <2>5. ASSUME NEW t \in S, At(t, "wait"), Arg(t) \in Clients
        PROVE  LET d == Arg(t)  u == Con(Arg(t)) IN
               /\ u \in S /\ holder[d] = u /\ At(u, "wait")
               /\ Arg(u) = "rc" \/ (Arg(u) \in Clients /\ "rc" \in Held(u))
    <3> DEFINE d == Arg(t)
               u == holder[Arg(t)]
    <3>1. u \in S /\ d \in Held(u)
      BY <2>2, <2>5
    <3>2. At(u, "wait") /\ Arg(u) # "model" /\ Arg(u) \in Locks
      BY <2>2, <2>4, <3>1
    <3>3. Arg(u) = "rc" \/ Arg(u) \in Clients
      BY <3>2 DEF Locks
    <3>4. Held(u) \subseteq {"model", "rc"} \cup Own(u) /\ (Arg(u) \in Clients => "rc" \in Held(u))
      BY <2>2, <2>5, <3>1, <3>2, <3>3
    <3>5. u = Con(d)
      BY <2>5, <3>1, <3>4, ClientsAssumption DEF Own
    <3> QED BY <3>1, <3>2, <3>3, <3>4, <3>5
  <2>6. ASSUME NEW t \in S, At(t, "wait"), Arg(t) \in Clients, "rc" \in Held(t) PROVE FALSE
    <3>1. holder["rc"] = t /\ t \in Waiting
      BY <2>6 DEF Held
    <3>2. /\ holder[Arg(t)] = Con(Arg(t)) /\ Con(Arg(t)) \in S /\ At(Con(Arg(t)), "wait")
          /\ Arg(Con(Arg(t))) = "rc" \/ "rc" \in Held(Con(Arg(t)))
      BY <2>5, <2>6
    <3>3. Arg(Con(Arg(t))) = "rc" \/ t = Con(Arg(t))
      BY <3>1, <3>2 DEF Held
    <3> QED BY <1>1, <2>6, <3>1, <3>2, <3>3 DEF ReportDeadlock
  <2>7. ASSUME NEW t \in S, At(t, "wait"), Arg(t) = "rc" PROVE FALSE
    <3>1. holder["rc"] \in S /\ "rc" \in Held(holder["rc"])
      BY <2>2, <2>7
    <3>2. PICK v \in S : "rc" \in Held(v)
      BY <3>1
    <3>3. At(v, "wait") /\ Arg(v) \in Clients
      BY <2>2, <2>4, <3>2 DEF Locks
    <3> QED BY <2>6, <3>2, <3>3
  <2>8. ASSUME NEW t \in S, At(t, "wait"), Arg(t) \in Clients PROVE FALSE
    <3>1. PICK u \in S : At(u, "wait") /\ (Arg(u) = "rc" \/ (Arg(u) \in Clients /\ "rc" \in Held(u)))
      BY <2>5, <2>8
    <3> QED BY <2>6, <2>7, <3>1
  <2>9. ASSUME NEW t \in S, At(t, "wait") PROVE FALSE
    <3>1. Arg(t) = "model"
      BY <2>2, <2>7, <2>8, <2>9 DEF Locks
    <3>2. holder["model"] \in S /\ "model" \in Held(holder["model"])
      BY <2>2, <2>9, <3>1
    <3>3. PICK u \in S : Held(u) # {}
      BY <3>2
    <3>4. At(u, "wait") /\ Arg(u) \in Locks /\ Arg(u) # "model"
      BY <2>2, <2>4, <3>3
    <3> QED BY <2>7, <2>8, <3>4 DEF Locks
  <2>10. PICK t \in S : At(t, "close")
    BY <1>1, <2>1, <2>9
  <2>11. PICK c \in Clients : Oper(c) \in S
    BY <2>3, <2>10
  <2>12. At(Oper(c), "close")
    BY <2>1, <2>9, <2>11
  <2>13. Oper(c) = Con(Arg(Oper(c)))
    BY <2>3, <2>11, <2>12
  <2> QED BY <2>13 DEF Oper, Con
<1>2. ASSUME LocksInv PROVE NoOtherDeadlock
  <2> SUFFICES ASSUME ~ReportDeadlock, NEW S \in SUBSET Waiting, S # {}
               PROVE  \E t \in S : WaitsFor(t) \notin S
    BY DEF NoOtherDeadlock
  <2> QED BY <1>1, <1>2
<1> QED BY <1>2, InitLocksInv, NextLocksInv, PTL DEF Spec
=============================================================================
