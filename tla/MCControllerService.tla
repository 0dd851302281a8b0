-------------------------- MODULE MCControllerService --------------------------
(* A small instance of ControllerService for TLC. *)
EXTENDS ControllerService

CONSTANTS gui, other
=============================================================================
