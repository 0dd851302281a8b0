------------------------------- MODULE MCRetLink -------------------------------
(* Small instances of RetLink for TLC. *)
EXTENDS RetLink

Ask(proc, ant, item, arg, shape) ==
  [proc |-> proc, ant |-> ant, item |-> item, arg |-> arg, shape |-> shape]

Plainly(proc, ant, arg) == Ask(proc, ant, "writable", arg, "ok")

(* A configuration with every antenna in the same state. *)
Uniform(calibrated, configured) ==
  [tilt       |-> [a \in Antennas |-> MinTilt],
   calibrated |-> [a \in Antennas |-> calibrated],
   configured |-> [a \in Antennas |-> configured],
   length     |-> [a \in Antennas |-> 0],
   field      |-> [a \in Antennas |-> 0],
   user       |-> 0]

MCFallback == Uniform(FALSE, TRUE)
MCFactory  == {Uniform(TRUE, TRUE)}

(* A platform where everything succeeds and no command runs. *)
Smooth == [save |-> "ok", ready |-> TRUE, there |-> FALSE, boot |-> "ok"]
MCOutcomes == {Smooth}
IdlePolls ==
  [expired : {FALSE}, motor : {"RUNNING"}, position : {MinTilt}, save : {"ok"},
   silent : BOOLEAN, due : BOOLEAN, boot : {"ok"}]

(* The link and the alarms of a multi-antenna device: a procedure that is  *)
(* answered at once, one whose answer is followed by a reset, and a frame  *)
(* that is too long.                                                       *)
LinkRequests ==
  {Plainly("AlarmSubscribe", 0, 0), Plainly("ResetSoftware", 0, 0),
   Ask("GetTilt", 0, "writable", 0, "long")}
MCRaised == {<<0, "HARDWARE_ERROR">>, <<1, "HARDWARE_ERROR">>}

(* Time consuming commands on a platform whose saves succeed. *)
CommandRequests ==
  {Plainly("SetTilt", 0, MinTilt), Plainly("SetTilt", 0, MaxTilt),
   Plainly("SendConfiguration", 0, MaxSegment), Plainly("ResetSoftware", 0, 0)}
CommandPolls ==
  [expired : BOOLEAN, motor : {"RUNNING", "OK"}, position : {MinTilt},
   save : {"ok"}, silent : BOOLEAN, due : {TRUE}, boot : {"ok"}]

(* Everything that is saved, on a platform whose saves fail. *)
StorageRequests ==
  {Plainly("Calibrate", 0, 0), Plainly("WriteUserData", 0, 1)}
StorageOutcomes ==
  [save : Saves, ready : {TRUE}, there : {FALSE}, boot : {"ok", "failed"}]
StoragePolls ==
  [expired : {FALSE}, motor : {"OK"}, position : {MinTilt},
   save : Saves, silent : {FALSE}, due : {TRUE}, boot : {"ok"}]

=============================================================================
