------------------------- MODULE MCServerConnections -------------------------
(* Two connections for TLC: the client of the first sends requests, ends   *)
(* its association or goes away, the client of the second only goes away.  *)
EXTENDS ServerConnections

CONSTANTS c1, c2

MCClientActions == [c \in Conns |-> IF c = c1 THEN {"data", "finish", "closed"} ELSE {"closed"}]
=============================================================================
