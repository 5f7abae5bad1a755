---------------------------- MODULE MCContainers ----------------------------
(* Requests of one container on two gateway processes. *)
EXTENDS Containers
=============================================================================
