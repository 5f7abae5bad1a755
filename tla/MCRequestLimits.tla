--------------------------- MODULE MCRequestLimits ---------------------------
(* Instances of RequestLimits for TLC. *)
EXTENDS RequestLimits
=============================================================================
