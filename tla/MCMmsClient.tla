----------------------------- MODULE MCMmsClient -----------------------------
(* Two callers for TLC. *)
EXTENDS MmsClient

CONSTANTS c1, c2
=============================================================================
