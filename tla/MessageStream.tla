---------------------------- MODULE MessageStream ----------------------------
(***************************************************************************)
(* What the transport layer promises to the layers above it: the messages  *)
(* that one end sends arrive at the other end whole, unchanged, once and   *)
(* in order, as long as they arrive.                                       *)
(***************************************************************************)
EXTENDS Integers, Sequences

CONSTANTS Ends,
          Message       \* what is carried

VARIABLES sent,       \* by each end, on the present connection
          delivered   \* to each end

Peer(e) == CHOOSE f \in Ends : f # e

Init == sent = [e \in Ends |-> <<>>] /\ delivered = [e \in Ends |-> <<>>]

(* A step of an end: it takes the next message, sends messages, or both.   *)
Deliver(e) ==
  /\ Len(delivered'[e]) = Len(delivered[e]) + 1
  /\ Len(delivered[e]) < Len(sent[Peer(e)])
  /\ delivered'[e] = SubSeq(sent[Peer(e)], 1, Len(delivered[e]) + 1)

Step(e) ==
  /\ delivered'[e] = delivered[e] \/ Deliver(e)
  /\ delivered'[Peer(e)] = delivered[Peer(e)]
  /\ sent'[e] \in Seq(Message)
  /\ Len(sent'[e]) >= Len(sent[e]) /\ SubSeq(sent'[e], 1, Len(sent[e])) = sent[e]
  /\ sent'[Peer(e)] = sent[Peer(e)]

(* A new connection starts with nothing sent.                              *)
Reconnect == Init'

Next == Reconnect \/ \E e \in Ends : Step(e)

Spec == Init /\ [][Next]_<<sent, delivered>>
=============================================================================
