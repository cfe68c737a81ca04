---------------------------- MODULE MCServerLocks ----------------------------
(* Instances of ServerLocks for TLC: clients are interchangeable.          *)
EXTENDS ServerLocks, TLC
ClientSymmetry == Permutations(Clients)
=============================================================================
