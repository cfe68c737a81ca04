-------------------------------- MODULE Goose --------------------------------
(***************************************************************************)
(* A GOOSE control block of the server (mms_goose.c) and its publisher     *)
(* (goose_publisher.c): clients configure, enable and disable it, changes  *)
(* of data set members publish events, the event worker retransmits.       *)
(*                                                                         *)
(* What runs under publisherMutex is one step.  What the code reads or     *)
(* writes outside it (goEna, the due time, the data set values, the        *)
(* attributes of the control block) is a step of its own.  Requests of     *)
(* clients exclude each other (the model lock); the application's updates  *)
(* and the worker exclude nobody.                                          *)
(***************************************************************************)
EXTENDS Integers

CONSTANTS EventInterval,        \* CONFIG_GOOSE_EVENT_RETRANSMISSION_INTERVAL
          StableInterval,       \* CONFIG_GOOSE_STABLE_STATE_TRANSMISSION_INTERVAL
          RetransmissionCount,  \* CONFIG_GOOSE_EVENT_RETRANSMISSION_COUNT
          MaxLate,              \* how late the event worker may be
          FitsBuffer(_),        \* a message is no longer than GOOSE_MAX_MESSAGE_SIZE
          MaxTime, MaxChanges, MaxEnables, MaxWrites   \* bounds

ASSUME IntervalAssumption ==
  /\ EventInterval \in Nat \ {0} /\ StableInterval \in Nat \ {0}
  /\ EventInterval <= StableInterval
  /\ RetransmissionCount \in Nat
  /\ MaxLate \in 0 .. 2 * EventInterval

ASSUME BoundsAssumption ==
  /\ MaxTime \in Nat /\ MaxChanges \in Nat /\ MaxEnables \in Nat
  /\ MaxWrites \in Nat \ {0}

Updaters == {"application", "request"}

VARIABLES
  now,
  goEna,          \* MmsGooseControlBlock.goEna
  publisher,      \* the number of the GoosePublisher, 0 for NULL
  stNum, sqNum,   \* of the publisher
  ttl,            \* its timeAllowedToLive, for the next message
  pubConf,        \* the attributes it was created with
  conf,           \* the attributes of the control block (mmsValue); 0: no data set
  created,        \* how many publishers have been created
  left,           \* retransmissionsLeft
  due,            \* nextPublishTime
  value,          \* the data set values, numbered by change
  last, skipped,  \* the message sent last; the messages since then that did not fit
  worker, wTime,  \* event worker: program counter, the time it read
  upd,            \* updating threads: program counters
  writer, wConf,  \* a client's request to the control block, the value it writes
  fault           \* a NULL publisher was used

block == <<goEna, conf, left, due>>
gooseMessage == <<publisher, stNum, sqNum, ttl, pubConf, created>>
threads == <<worker, wTime, upd, writer, wConf>>
ethernet == <<last, skipped>>
vars == <<now, block, gooseMessage, value, ethernet, threads, fault>>

NoMessage == [pub |-> 0, st |-> 0, sq |-> 0, live |-> 0, val |-> 0, time |-> 0]

Init ==
  /\ now = 0
  /\ goEna = FALSE /\ publisher = 0 /\ stNum = 0 /\ sqNum = 0 /\ ttl = 0
  /\ pubConf = 0 /\ conf = 1 /\ created = 0
  /\ left = 0 /\ due = 0
  /\ value = 0
  /\ last = NoMessage /\ skipped = 0
  /\ worker = "idle" /\ wTime = 0
  /\ upd = [u \in Updaters |-> "idle"]
  /\ writer = "idle" /\ wConf = 0
  /\ fault = FALSE

(***************************************************************************)
(* GoosePublisher                                                          *)
(***************************************************************************)
Message(st, sq, live) ==
  [pub |-> publisher, st |-> st, sq |-> sq, live |-> live, val |-> value, time |-> now]

(* The message is encoded with the current sqNum, which is then increased, *)
(* also when the message does not fit and is not sent; the callers do not  *)
(* look at the result.                                                     *)
Publish(st, sq, live) ==
  /\ stNum' = st /\ sqNum' = sq + 1
  /\ \/ /\ FitsBuffer(Message(st, sq, live))
        /\ last' = Message(st, sq, live) /\ skipped' = 0
     \/ /\ ~FitsBuffer(Message(st, sq, live))
        /\ last' = last /\ skipped' = skipped + 1

(* GoosePublisher_increaseStNum                                            *)
IncreasedStNum == [st |-> stNum + 1, sq |-> 0]

EventLive == 3 * EventInterval
StableLive == 3 * StableInterval

(***************************************************************************)
(* Writes to the control block (writeAccessGooseControlBlock)              *)
(***************************************************************************)
Requesting == writer # "idle" \/ upd["request"] # "idle"

(* MmsGooseControlBlock_enable.  Without a data set nothing happens.       *)
Enable ==
  /\ ~Requesting /\ created < MaxEnables
  /\ ~goEna /\ conf # 0
  /\ created' = created + 1 /\ publisher' = created + 1
  /\ stNum' = 1 /\ sqNum' = 0
  /\ ttl' = StableLive
  /\ pubConf' = conf
  /\ goEna' = TRUE
  /\ UNCHANGED <<now, conf, left, due, value, ethernet, threads, fault>>

(* MmsGooseControlBlock_disable: goEna before the mutex, the publisher     *)
(* after it.                                                               *)
Disable ==
  /\ ~Requesting /\ goEna
  /\ goEna' = FALSE
  /\ writer' = "destroy"
  /\ UNCHANGED <<now, conf, left, due, gooseMessage, value, ethernet, worker, wTime, upd, wConf,
                 fault>>

DestroyPublisher ==
  /\ writer = "destroy"
  /\ publisher' = 0
  /\ writer' = "idle"
  /\ UNCHANGED <<now, block, stNum, sqNum, ttl, pubConf, created, value, ethernet, worker, wTime,
                 upd, wConf, fault>>

(* Other attributes are written only while the block is disabled.          *)
WriteAttribute(c) ==
  /\ ~Requesting /\ ~goEna
  /\ writer' = "update" /\ wConf' = c
  /\ UNCHANGED <<now, block, gooseMessage, value, ethernet, worker, wTime, upd, fault>>

UpdateAttribute ==
  /\ writer = "update"
  /\ conf' = wConf
  /\ writer' = "idle"
  /\ UNCHANGED <<now, goEna, left, due, gooseMessage, value, ethernet, worker, wTime, upd, wConf,
                 fault>>

(***************************************************************************)
(* Updates of data set members (IedServer_updateAttributeValue and         *)
(* MmsMapping_triggerGooseObservers)                                       *)
(***************************************************************************)
ChangeValue(u) ==
  /\ upd[u] = "idle" /\ value < MaxChanges
  /\ u = "request" => ~Requesting
  /\ value' = value + 1
  /\ upd' = [upd EXCEPT ![u] = "test"]
  /\ UNCHANGED <<now, block, gooseMessage, ethernet, worker, wTime, writer, wConf, fault>>

TestEnabled(u) ==
  /\ upd[u] = "test"
  /\ upd' = [upd EXCEPT ![u] = IF goEna THEN "publish" ELSE "idle"]
  /\ UNCHANGED <<now, block, gooseMessage, value, ethernet, worker, wTime, writer, wConf, fault>>

EventDue == now + (IF RetransmissionCount > 0 THEN EventInterval ELSE StableInterval)

(* MmsGooseControlBlock_observedObjectChanged                              *)
ObservedObjectChanged(u) ==
  /\ upd[u] = "publish" /\ publisher # 0
  /\ left' = RetransmissionCount
  /\ due' = EventDue
  /\ ttl' = IF RetransmissionCount > 0 THEN EventLive ELSE StableLive
  /\ Publish(IncreasedStNum.st, IncreasedStNum.sq, ttl')
  /\ upd' = [upd EXCEPT ![u] = "idle"]
  /\ UNCHANGED <<now, goEna, conf, publisher, pubConf, created, value, worker, wTime, writer,
                 wConf, fault>>

(***************************************************************************)
(* The event worker (GOOSE_processGooseEvents)                             *)
(***************************************************************************)
WorkerTests ==
  /\ worker = "idle" /\ goEna /\ now >= due
  /\ wTime' = now /\ worker' = "publish"
  /\ UNCHANGED <<now, block, gooseMessage, value, ethernet, upd, writer, wConf, fault>>

(* Mutant: the short time to live is kept for the message after which the  *)
(* stable interval begins.                                                 *)
NextLiveShort == IF left > 0 \/ stNum > 1 THEN EventLive ELSE StableLive

NextInterval == IF left > 0 THEN EventInterval ELSE StableInterval
NextLive == IF left > 1 THEN EventLive ELSE StableLive
NextLeft == IF left > 0 THEN left - 1 ELSE 0

(* MmsGooseControlBlock_checkAndPublish                                    *)
CheckAndPublish ==
  /\ worker = "publish" /\ publisher # 0
  /\ Publish(stNum, sqNum, ttl)
  /\ due' = wTime + NextInterval
  /\ ttl' = NextLive
  /\ left' = NextLeft
  /\ worker' = "idle"
  /\ UNCHANGED <<now, goEna, conf, publisher, pubConf, created, value, wTime, upd, writer, wConf,
                 fault>>

(* The publisher was destroyed between the test of goEna and the mutex.    *)
UseNullPublisher ==
  /\ publisher = 0
  /\ worker = "publish" \/ \E u \in Updaters : upd[u] = "publish"
  /\ fault' = TRUE
  /\ UNCHANGED <<now, block, gooseMessage, value, ethernet, threads>>

(* Time passes; the worker is at most MaxLate behind.                      *)
Tick ==
  /\ now < MaxTime
  /\ goEna \/ worker # "idle" => now < due + MaxLate
  /\ now' = now + 1
  /\ UNCHANGED <<block, gooseMessage, value, ethernet, threads, fault>>

Next ==
  /\ ~fault
  /\ \/ Enable \/ Disable \/ DestroyPublisher
     \/ \E c \in 0 .. MaxWrites : WriteAttribute(c)
     \/ UpdateAttribute
     \/ \E u \in Updaters : ChangeValue(u) \/ TestEnabled(u) \/ ObservedObjectChanged(u)
     \/ WorkerTests \/ CheckAndPublish \/ UseNullPublisher \/ Tick

Spec == Init /\ [][Next]_vars

TypeOK ==
  /\ now \in 0 .. MaxTime
  /\ goEna \in BOOLEAN
  /\ created \in 0 .. MaxEnables /\ publisher \in 0 .. created
  /\ stNum \in Nat /\ sqNum \in Nat /\ ttl \in {0, EventLive, StableLive}
  /\ conf \in 0 .. MaxWrites /\ pubConf \in 0 .. MaxWrites
  /\ left \in 0 .. RetransmissionCount
  /\ due \in 0 .. MaxTime + StableInterval
  /\ value \in 0 .. MaxChanges
  /\ last \in [pub : 0 .. MaxEnables, st : Nat, sq : Nat, live : {0, EventLive, StableLive},
               val : 0 .. MaxChanges, time : 0 .. MaxTime]
  /\ skipped \in Nat
  /\ worker \in {"idle", "publish"} /\ wTime \in 0 .. MaxTime
  /\ upd \in [Updaters -> {"idle", "test", "publish"}]
  /\ writer \in {"idle", "destroy", "update"} /\ wConf \in 0 .. MaxWrites
  /\ fault \in BOOLEAN

(* A subscriber never sees the time allowed to live of the last message    *)
(* expire while the block is enabled, even when the worker is late by two  *)
(* event intervals.  A message that does not fit is never sent, and the    *)
(* time allowed to live of the one before it then runs out.                *)
NeverExpires == goEna /\ last.pub = publisher /\ skipped = 0 => now <= last.time + last.live

(* What a subscriber relies on to tell a lost message from a new event:    *)
(* between the messages of one publisher the numbers leave room for those  *)
(* that did not fit and for no others, and sqNum restarts at 0 with every  *)
(* stNum, whichever of the updating threads and the worker sends them; a   *)
(* message of an old publisher never follows one of a newer publisher.     *)
(* When all messages fit, n is the next sqNum, or sqNum 0 of the next      *)
(* stNum, or one of the first two messages with sqNum 0.                   *)
Follows(m, n, gap) ==
  \/ n.pub = m.pub /\ n.st = m.st /\ n.sq = m.sq + 1 + gap
  \/ n.pub = m.pub /\ n.st > m.st /\ n.st + n.sq <= m.st + 1 + gap
  \/ n.pub > m.pub /\ n.st >= 1 /\ n.sq <= gap /\ n.st + n.sq <= 2 + gap

NumberedWithoutGaps == [][last' # last => Follows(last, last', skipped)]_vars

=============================================================================
