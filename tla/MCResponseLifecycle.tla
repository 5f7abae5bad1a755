------------------------- MODULE MCResponseLifecycle -------------------------
(***************************************************************************)
(* Model-checking instances of ResponseLifecycle.                          *)
(***************************************************************************)
EXTENDS ResponseLifecycle
=============================================================================
