-------------------------------- MODULE MCBackend --------------------------------
(* A small instance of Backend for TLC. *)
EXTENDS Backend

MCCallers == Threads
=============================================================================
