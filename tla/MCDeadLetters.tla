---------------------------- MODULE MCDeadLetters ----------------------------
(* Small instances of DeadLetters. *)
EXTENDS DeadLetters
=============================================================================
