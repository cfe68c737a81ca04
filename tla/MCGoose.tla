------------------------------- MODULE MCGoose -------------------------------
(* A data set with a status, a counter and a structured member; the        *)
(* references of the two control blocks differ in their last character.    *)
EXTENDS GooseSubscriber

MCDataSet(n) ==
  <<NewBoolean(n % 2 = 1),
    NewIntegerFrom(FourOctets(127 + n), 4),
    NewComplex("structure", <<BitsFromInteger(NewBitString(13), 5 * n),
                              NewString("visible-string", <<65, 66 + n>>)>>)>>

MCPublisher ==
  [goCBRef |-> <<71, 79, 49>>, dataSetRef |-> <<68, 83>>, goID |-> <<105>>, appId |-> 4096,
   confRev |-> FourOctets(200), simulation |-> FALSE, needsCommission |-> TRUE]

MCOtherRef == <<71, 79, 50>>

(* The first change makes the values too long for the larger of the times  *)
(* allowed to live.                                                        *)
MCFitsBuffer(m) == m.val # 1 \/ m.live = EventLive
=============================================================================
