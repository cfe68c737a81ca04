---------------------------- MODULE MCAssociation ----------------------------
(* Instances of Association for TLC.                                       *)
EXTENDS Association, TLC

Right == [i \in 1 .. 8 |-> 64 + i]
Wrong == [Right EXCEPT ![8] = 0]
Long == [i \in 1 .. 140 |-> 65 + (i % 20)]    \* makes the request too long for its octet

Huge == [i \in 1 .. 250 |-> 65]              \* does not fit into the server's buffer

MCPasswords == {<<>>, Right, Wrong, Long, Huge}
MCSecret == Right

(* IsoConnectionParameters as the client examples set them.                *)
MCParams ==
  [remoteApTitle |-> <<41, 1, 135, 103, 1>>, remoteAEQualifier |-> <<0, 0, 0, 12>>,
   localApTitle |-> <<41, 1, 135, 103>>, localAEQualifier |-> <<0, 0, 0, 200>>,
   localPSelector |-> <<0, 0, 0, 1>>, remotePSelector |-> <<0, 0, 0, 1>>,
   remoteTSelector |-> 1]
=============================================================================
