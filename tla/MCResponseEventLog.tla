-------------------------- MODULE MCResponseEventLog --------------------------
(***************************************************************************)
(* Model-checking instances of ResponseEventLog.                           *)
(***************************************************************************)
EXTENDS ResponseEventLog
=============================================================================
