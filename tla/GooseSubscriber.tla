--------------------------- MODULE GooseSubscriber ---------------------------
(***************************************************************************)
(* A GOOSE subscriber (goose_subscriber.c) on the same Ethernet segment as *)
(* the control block of module Goose.  Every message of the publisher is   *)
(* the frame of MmsData, octet by octet; the segment keeps the order of    *)
(* frames, may lose and repeat them, and carries those of other control    *)
(* blocks.                                                                 *)
(***************************************************************************)
EXTENDS Goose, MmsData

CONSTANTS DataSet(_),       \* the values of the data set after a number of changes
          Publisher,        \* the fixed members of the GoosePublisher
          OtherRef,         \* gocbRef of another control block, as long as ours
          MaxFrames,        \* frames under way at a time
          LinkTime, LinkChanges, LinkEnables, \* bounds of the publisher once there is a subscriber
          MaxDisturbances, MaxSubscriptions   \* bounds

VARIABLES
  net,            \* frames under way, as the messages they encode
  sub,            \* the GooseSubscriber, NULL before it is created
  given,          \* the application passed the values of the data set to create
  running,        \* GooseSubscriber.running
  thread,         \* gooseSubscriberLoop: "none", "loop", "ended"
  joining,        \* GooseSubscriber_unsubscribe waits for the thread
  seen,           \* the message behind the last call of the listener
  calls,          \* of the listener, up to 2
  from,           \* publisher and stNum of the last message before that
  losses,         \* frames lost, and messages that did not fit into a frame
  others,         \* frames repeated, and frames of other control blocks
  subscriptions

subscriber == <<sub, given, running, thread, joining, seen, calls, from, subscriptions>>
network == <<net, losses, others>>
linkVars == <<vars, subscriber, network>>

FourOctets(n) == <<0, 0>> \o TwoOctets(n)

(* The frame of a message; the event time is set together with stNum.      *)
FrameOf(m) ==
  GooseFrame([Publisher EXCEPT !.goCBRef = IF m.pub = 0 THEN OtherRef ELSE @]
               @@ [timestamp |-> FourOctets(m.st) \o Zeros(4), stNum |-> FourOctets(m.st),
                   sqNum |-> FourOctets(m.sq), timeAllowedToLive |-> FourOctets(m.live)],
             DataSet(m.val))

(* GooseSubscriber_create; GooseSubscriber_setAppId may follow.            *)
Created(values, appId) ==
  [goCBRef |-> Publisher.goCBRef, appId |-> appId, timestamp |-> Zeros(8),
   dataSetValues |-> values, message |-> NoHeader]

LinkInit ==
  /\ Init
  /\ net = <<>> /\ losses = 0 /\ others = 0
  /\ given = FALSE /\ sub = NULL
  /\ running = FALSE /\ thread = "none" /\ joining = FALSE
  /\ seen = NoMessage /\ calls = 0 /\ from = <<0, 0>> /\ subscriptions = 0

(* Once there is a subscriber, little happens to the publisher, and the    *)
(* attributes of its control block are left as they were.                  *)
LinkBound ==
  /\ now <= LinkTime /\ value <= LinkChanges /\ created <= LinkEnables
  /\ writer # "update" /\ conf = 1

(* The publisher's step; a frame reaches the segment of a subscriber that  *)
(* has its socket open.                                                    *)
PublisherStep ==
  /\ Next
  /\ net' = IF last' # last /\ thread = "loop" THEN Append(net, last') ELSE net
  /\ losses' = IF skipped' > skipped /\ thread = "loop" THEN losses + 1 ELSE losses
  /\ Len(net') <= MaxFrames
  /\ sub = NULL \/ LinkBound'
  /\ UNCHANGED <<subscriber, others>>

(***************************************************************************)
(* The segment                                                             *)
(***************************************************************************)
Lose ==
  /\ net # <<>> /\ losses + others < MaxDisturbances
  /\ net' = Tail(net) /\ losses' = losses + 1
  /\ UNCHANGED <<vars, subscriber, others>>

Repeat ==
  /\ net # <<>> /\ losses + others < MaxDisturbances /\ Len(net) < MaxFrames
  /\ net' = <<Head(net)>> \o net /\ others' = others + 1
  /\ UNCHANGED <<vars, subscriber, losses>>

(* A frame of another control block with the same APPID.                   *)
ForeignFrame ==
  /\ thread = "loop" /\ losses + others < MaxDisturbances /\ Len(net) < MaxFrames
  /\ net' = Append(net, [NoMessage EXCEPT !.st = 7, !.val = MaxChanges + 1])
  /\ others' = others + 1
  /\ UNCHANGED <<vars, subscriber, losses>>

(***************************************************************************)
(* The subscriber                                                          *)
(***************************************************************************)
(* GooseSubscriber_subscribe; the thread opens its socket.  The            *)
(* subscriber is created before its first subscription, with or without    *)
(* values for the data set.                                                *)
Subscribe ==
  /\ LinkBound
  /\ ~running /\ ~joining /\ thread \in {"none", "ended"} /\ subscriptions < MaxSubscriptions
  /\ running' = TRUE /\ thread' = "loop" /\ subscriptions' = subscriptions + 1
  /\ from' = <<last.pub, last.st>>
  /\ IF sub = NULL
       THEN \E g \in BOOLEAN :
              /\ given' = g
              /\ sub' = IF g THEN Created(DataSet(0), Publisher.appId) ELSE Created(NULL, -1)
       ELSE UNCHANGED <<sub, given>>
  /\ UNCHANGED <<vars, network, joining, seen, calls>>

(* One turn of gooseSubscriberLoop with a packet: parse it, call the       *)
(* listener.                                                               *)
ReceivePacket ==
  /\ thread = "loop" /\ net # <<>>
  /\ \E r \in {ParseGooseMessage(FrameOf(Head(net)), sub)} :
       /\ sub' = r.sub
       /\ seen' = IF r.result = 1 THEN Head(net) ELSE seen
       /\ calls' = IF r.result = 1 /\ calls < 2 THEN calls + 1 ELSE calls
  /\ net' = IF running THEN Tail(net) ELSE <<>>
  /\ thread' = IF running THEN "loop" ELSE "ended"
  /\ UNCHANGED <<vars, given, running, joining, from, subscriptions, losses,
                 others>>

(* A turn without a packet sees that running was cleared; the socket and   *)
(* what it holds are gone.                                                 *)
LoopEnds ==
  /\ thread = "loop" /\ ~running
  /\ thread' = "ended" /\ net' = <<>>
  /\ UNCHANGED <<vars, sub, given, running, joining, seen, calls, from, subscriptions, losses,
                 others>>

(* GooseSubscriber_unsubscribe: running is cleared, the thread joined.     *)
Unsubscribe ==
  /\ running
  /\ running' = FALSE /\ joining' = TRUE
  /\ UNCHANGED <<vars, network, sub, given, thread, seen, calls, from, subscriptions>>

Unsubscribed ==
  /\ joining /\ thread = "ended"
  /\ joining' = FALSE
  /\ UNCHANGED <<vars, network, sub, given, running, thread, seen, calls, from, subscriptions>>

LinkNext ==
  \/ PublisherStep \/ Lose \/ Repeat \/ ForeignFrame
  \/ Subscribe \/ ReceivePacket \/ LoopEnds \/ Unsubscribe \/ Unsubscribed

LinkSpec == LinkInit /\ [][LinkNext]_linkVars

(***************************************************************************)
(* Properties                                                              *)
(***************************************************************************)
AsSent(v, w) == \A i \in DOMAIN w : Equals(v[i], w[i])

(* What the listener reads from the subscriber (numbers, time to live,     *)
(* time stamp, values) is all from one message of the control block that   *)
(* it subscribed to, whatever is lost, repeated or sent by others.  Values *)
(* that the subscriber allocates itself are right from the second message  *)
(* on: parseAllDataUnknownValue misplaces the octets of integers.          *)
OneMessage ==
  calls > 0 =>
    /\ seen.pub # 0
    /\ sub.message = [stNum |-> FourOctets(seen.st), sqNum |-> FourOctets(seen.sq),
                      timeAllowedToLive |-> FourOctets(seen.live), confRev |-> Publisher.confRev,
                      ndsCom |-> Publisher.needsCommission, simulation |-> Publisher.simulation]
    /\ sub.timestamp = FourOctets(seen.st) \o Zeros(4)
    /\ given \/ calls > 1 => AsSent(sub.dataSetValues, DataSet(seen.val))

(* An event reaches the subscriber although frames are lost: when it has   *)
(* been published more often than frames were lost, to a subscriber that   *)
(* listens since before the event, and nothing is under way, the           *)
(* subscriber holds the present values of the data set.                    *)
EventArrives ==
  /\ goEna /\ last.pub = publisher /\ skipped = 0 /\ last.st > 1 /\ last.sq >= losses
  /\ \A u \in Updaters : upd[u] = "idle"
  /\ thread = "loop" /\ net = <<>> /\ from # <<last.pub, last.st>>
  /\ given
  => AsSent(sub.dataSetValues, DataSet(value))
=============================================================================
