----------------------------- MODULE MCTiltSystem -----------------------------
(* Small instances of TiltSystem for TLC. *)
EXTENDS TiltSystem, MCRetLink

(* Moves take any number of passes and end well; the link times out. *)
MovePolls ==
  [expired : {FALSE}, motor : {"RUNNING", "OK"}, position : {MinTilt},
   save : {"ok"}, silent : BOOLEAN, due : {TRUE}, boot : {"ok"}]
=============================================================================
