----------------------------- MODULE MCControl -----------------------------
(***************************************************************************)
(* Instances of ControlObject for TLC: the control models of the objects   *)
(* of each run.                                                            *)
(***************************************************************************)
EXTENDS ControlObject, TLC

\* one object: direct control, SBO normal, SBO with enhanced security
OneDirect   == <<1>>
OneSbo      == <<2>>
OneEnhanced == <<4>>

\* Nothing is claimed of a single object once its armed command has been taken
\* before the flag was tested again: what follows is not explored.
NotOvertaken == overtaken = {}
=============================================================================
