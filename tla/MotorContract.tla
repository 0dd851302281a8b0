---------------------------- MODULE MotorContract ----------------------------
(***************************************************************************)
(* What the firmware core expects of the motor behind its callbacks        *)
(* (StartTcc and PollTcc of RetProcedures): a start is refused while the   *)
(* motor runs, a poll reports RUNNING or how it ended, with a position in  *)
(* the range of the antenna, a stop is immediate, and a motor that runs    *)
(* ends by itself.                                                         *)
(***************************************************************************)
CONSTANTS
  Tilts,          (* positions the antenna may report                      *)
  Faults          (* ways a command may fail                               *)

VARIABLES
  result,         (* what motor_poll would say                             *)
  tilt            (* the position it reported last                         *)

contractVars == <<result, tilt>>

Init == result = "IDLE" /\ tilt \in Tilts

Start ==
  /\ result # "RUNNING" /\ result' \in {"RUNNING", "OK"}
  /\ tilt' = tilt

Poll ==
  /\ result = "RUNNING" /\ result' \in {"RUNNING", "OK"} \cup Faults
  /\ tilt' \in Tilts

(* The core notes the target of a move that ended well. *)
Complete == result = "OK" /\ result' = result /\ tilt' \in Tilts

Stop == result' = "IDLE" /\ tilt' \in Tilts

Ends == result = "RUNNING" /\ (Poll \/ Stop) /\ result' # "RUNNING"

Next == Start \/ Poll \/ Complete \/ Stop

Spec == Init /\ [][Next]_contractVars /\ WF_contractVars(Ends)
=============================================================================
