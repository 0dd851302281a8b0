----------------------------- MODULE MCStm32Motor -----------------------------
(* Small instances of Stm32Motor for TLC. *)
EXTENDS Stm32Motor
=============================================================================
