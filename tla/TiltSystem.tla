------------------------------ MODULE TiltSystem ------------------------------
(***************************************************************************)
(* A controller and a RET on one line: the AISG 2.0 exchanges of           *)
(* src/src/controller.cpp (transact and the operations made of it) with    *)
(* the frames of src/src/aisg.cpp, against the firmware core of RetLink.   *)
(*                                                                         *)
(* Frames may be lost in both directions, and every deadline of the        *)
(* controller may pass before the answer that is on its way: frames then   *)
(* stay in the input buffer and are read by a later exchange.  One         *)
(* operation runs at a time (ControllerService); an operation that finds   *)
(* no device in the list fails at once and is not a step.  The search for  *)
(* devices without an address is one step here.                            *)
(***************************************************************************)
EXTENDS RetLink

CONSTANTS
  Jobs,           (* operations the user may start                         *)
  DriverFaults,   (* states of the fault line of the motor driver          *)
  LineDepth,      (* bound: frames of the device in the input buffer       *)
  Patience        (* bound: unanswered requests before the user scans      *)

VARIABLES
  ctl,            (* the controller                                        *)
  down,           (* the frame on its way to the device, or None           *)
  up,             (* frames on their way to the controller, oldest first   *)
  stray,          (* history: this session holds answers to nothing asked  *)
  missed          (* history: requests made since the last answer          *)

systemVars == <<dev, ctl, down, up, stray, missed>>

(* The exchanges of an operation, in order. *)
Plans ==
  [scan           |-> <<"SNRM", "AlarmSubscribe", "GetInformation", "GetTilt",
                        "GetDeviceData", "GetDeviceData">>,
   refresh        |-> <<"GetInformation", "GetTilt">>,
   moveRet        |-> <<"SetTilt">>,
   calibrate      |-> <<"Calibrate">>,
   runSelfTest    |-> <<"SelfTest">>,
   refreshAlarms  |-> <<"GetAlarmStatus">>,
   clearAlarms    |-> <<"ClearActiveAlarms">>,
   setDeviceField |-> <<"SetDeviceData">>]

ASSUME SystemAssumption ==
  /\ Jobs \subseteq DOMAIN Plans
  /\ DriverFaults \subseteq BOOLEAN
  /\ TRUE \in DriverFaults => "HARDWARE_ERROR" \in Alarms
  /\ Addresses # {}
  /\ LineDepth \in Nat \ {0}
  /\ Patience \in Nat

(* at: what the worker does.  index: the next entry of requestControls.    *)
(* listed, tilt: the entry of devices_, with None for a tilt never read.   *)
(* done: the operation that ended last, if it ended well.                  *)
Controller ==
  [job    : Jobs \cup {"none"},
   step   : 0 .. 6,
   at     : {"idle", "sending", "awaiting", "polling"},
   index  : Numbers,
   listed : BOOLEAN,
   tilt   : Tilts \cup {None},
   target : Tilts,
   done   : Jobs \cup {"none"}]

Procedure(c) == Plans[c.job][c.step]

(* nextControl is called for every request made, whether sent or not. *)
Number(c) == Minus1(c.index)

(* A request carries its number as N(S) and as N(R).  SNRM has no number,  *)
(* but its control octet, 0x93, reads as N(S) = 1 and N(R) = 4.            *)
RequestFrame(c) ==
  IF Procedure(c) = "SNRM"
    THEN [type |-> "SNRM", ns |-> 1 % Modulus, nr |-> 4 % Modulus]
    ELSE [type |-> "I", ns |-> Number(c), nr |-> Number(c), poll |-> TRUE,
          req |-> [proc |-> Procedure(c), ant |-> 0, item |-> "writable",
                   arg |-> IF Procedure(c) = "SetTilt" THEN c.target ELSE 0,
                   shape |-> "ok"]]

(* Mutant of IsResponseFor: the numbers of the answer are not compared. *)
ResponseByProcedure(c, f) ==
  IF Procedure(c) = "SNRM" THEN f.type = "UA"
  ELSE f.type = "I" /\ f.msg.proc = Procedure(c)

IsResponseFor(c, f) ==
  IF Procedure(c) = "SNRM" THEN f.type = "UA"
  ELSE /\ f.type = "I"
       /\ f.ns = Number(c) /\ f.nr = Plus1(Number(c))
       /\ f.msg.proc = Procedure(c)

ReceiveReady(c, f) == f.type = "RR" /\ f.nr = Plus1(RequestFrame(c).ns)

-----------------------------------------------------------------------------
(* Operations: what an exchange leads to. *)

End(c, ok) ==
  [c EXCEPT !.job = "none", !.step = 0, !.at = "idle",
            !.done = IF ok THEN c.job ELSE "none",
            !.listed = @ \/ ok, !.target = MinTilt]

(* Mutant of Continue: the position in requestControls does not come round. *)
ContinueUnwrapped(c) ==
  IF c.step = Len(Plans[c.job])
    THEN End(c, TRUE)
    ELSE [c EXCEPT !.step = @ + 1, !.at = "sending", !.index = @ + 1]

Continue(c) ==
  IF c.step = Len(Plans[c.job])
    THEN End(c, TRUE)
    ELSE [c EXCEPT !.step = @ + 1, !.at = "sending", !.index = Plus1(@)]

(* The exchange ended with the answer m, or with None.  A scan lists the   *)
(* device whatever it could read from it; a refresh keeps the tilt it had  *)
(* when the device refuses to tell.                                        *)
Took(c, m) ==
  LET ok   == m # None /\ m.code = "OK"
      read == CASE ok /\ Procedure(c) = "GetTilt" -> [c EXCEPT !.tilt = m.value]
                [] ok /\ Procedure(c) = "SetTilt" -> [c EXCEPT !.tilt = c.target]
                [] OTHER -> c
      goesOn == \/ ok
                \/ c.job = "scan" /\ Procedure(c) # "SNRM"
                \/ Procedure(c) = "GetTilt" /\ m # None
  IN  IF goesOn THEN Continue(read) ELSE End(c, FALSE)

-----------------------------------------------------------------------------
(* Steps of the controller. *)

(* Numbers come round after Modulus requests: one more that nobody has     *)
(* answered is taken for the request that had its number before.           *)
Count(c) ==
  /\ missed' = IF c.at = "idle" \/ c.index = ctl.index THEN missed
               ELSE IF missed < Modulus THEN missed + 1 ELSE missed
  /\ stray' = (stray \/ missed' = Modulus)

(* A scan that discovers finds the device again after a restart and gives  *)
(* it its address.                                                         *)
Found(d) ==
  [ProcessAssignment(d, TRUE, CHOOSE a \in Addresses : TRUE)
     EXCEPT !.pending = IF d.link_state = "NO_ADDRESS" THEN None ELSE @]

StartScan ==
  /\ ctl.at = "idle" /\ down = None /\ "scan" \in Jobs
  /\ dev' = Found(dev)
  /\ ctl' = [ctl EXCEPT !.job = "scan", !.step = 1, !.at = "sending",
                        !.index = 0, !.listed = FALSE, !.tilt = None,
                        !.done = "none"]
  /\ missed' = 0
  /\ UNCHANGED <<down, up, stray>>

StartCommand ==
  /\ ctl.at = "idle" /\ down = None /\ ctl.listed /\ missed < Patience
  /\ \E job \in Jobs \ {"scan"}, target \in Tilts :
       /\ job # "moveRet" => target = MinTilt
       /\ ctl' = [ctl EXCEPT !.job = job, !.step = 1, !.at = "sending",
                             !.index = Plus1(@), !.target = target,
                             !.done = "none"]
  /\ Count(ctl')
  /\ UNCHANGED <<dev, down, up>>

(* transmit waits until the bus is quiet; what it writes may be lost.      *)
Write(frame) ==
  /\ down = None
  /\ down' \in {frame, None}
  /\ ctl' = [ctl EXCEPT !.at = "awaiting"]
  /\ UNCHANGED <<dev, up, stray, missed>>

Send == ctl.at = "sending" /\ Write(RequestFrame(ctl))

PollResult ==
  ctl.at = "polling" /\ Write([type |-> "RR", nr |-> RequestFrame(ctl).nr,
                               poll |-> TRUE])

(* What is on the wire arrives before a deadline; the device may take      *)
(* longer to answer.                                                       *)
GiveUp ==
  /\ ctl.at = "awaiting" /\ down = None /\ up = <<>>
  /\ ctl' = Took(ctl, None)
  /\ Count(ctl')
  /\ UNCHANGED <<dev, down, up>>

(* transact looks at the cancellation before it writes and before it       *)
(* reads, and so does every later exchange of the operation: a scan makes  *)
(* its remaining requests, sends none and lists the device nevertheless.   *)
Cancel ==
  /\ ctl.at # "idle"
  /\ LET unsent == Len(Plans[ctl.job]) - ctl.step
     IN  IF ctl.job = "scan" /\ ctl.step > 1
           THEN /\ ctl' = End([ctl EXCEPT !.index = (@ + unsent) % Modulus], TRUE)
                /\ missed' = IF missed + unsent < Modulus THEN missed + unsent
                                                         ELSE Modulus
           ELSE ctl' = End(ctl, FALSE) /\ missed' = missed
  /\ stray' = (stray \/ missed' = Modulus)
  /\ UNCHANGED <<dev, down, up>>

(* One frame out of the input buffer.  After an RR the result is polled    *)
(* for, unless the deadline is nearer than the next poll; after any other  *)
(* frame the controller only waits.                                        *)
Read ==
  /\ ctl.at = "awaiting" /\ up # <<>>
  /\ LET f == Head(up)
     IN  \/ /\ IsResponseFor(ctl, f)
            /\ ctl' = IF Procedure(ctl) = "SNRM" THEN Continue(ctl)
                                                 ELSE Took(ctl, f.msg)
            /\ missed' = IF ctl'.at = "idle" THEN 0 ELSE 1
         \/ /\ ~IsResponseFor(ctl, f) /\ ReceiveReady(ctl, f)
            /\ ctl' = [ctl EXCEPT !.at = "polling"]
            /\ missed' = missed
         \/ /\ ~IsResponseFor(ctl, f)
            /\ UNCHANGED <<ctl, missed>>
  /\ up' = Tail(up)
  /\ UNCHANGED <<dev, down, stray>>

-----------------------------------------------------------------------------
(* Steps of the device. *)

HasIndication(d) ==
  \E i \in DOMAIN Undelivered(d) : Undelivered(d)[i].code = "INDICATION"

(* A session starts with an SNRM; nobody asked for an indication.  Nor for *)
(* what comes in this session from another one: the answer of a command    *)
(* that was already running, and what precedes this session's UA when the  *)
(* UA of an earlier SNRM is, or was, taken for it.                         *)
Witness ==
  stray' = (\/ HasIndication(dev')
            \/ IF down # None /\ down' = None /\ down.type = "SNRM"
                 THEN \/ dev'.tcc # None
                      \/ ctl.listed \/ ctl.step > 1
                      \/ \E i \in DOMAIN up : up[i].type = "UA"
                 ELSE stray)

Hear ==
  /\ down # None /\ down' = None
  /\ IF ~Addressed THEN dev' = dev
     ELSE CASE down.type = "SNRM" -> dev' = ProcessSnrm(dev)
            [] down.type = "RR" ->
                 dev' = Connected(dev, ProcessSupervisory(dev, down))
            [] down.type = "I" ->
                 \E e \in Outcomes :
                    dev' = Connected(dev, ProcessI(dev, down, e))
  /\ Witness
  /\ UNCHANGED <<ctl, up, missed>>

(* A pass of the main loop, which looks at the fault line of the driver    *)
(* before it polls; what it transmits may be lost.                         *)
Run ==
  /\ \E fault \in DriverFaults, e \in PollOutcomes :
       LET looked == SetAlarm(dev, 0, "HARDWARE_ERROR", fault)
       IN  /\ dev' = DevicePoll(looked, e)
           /\ \/ up' = up
              \/ /\ Transmits(looked, e) /\ Len(up) < LineDepth
                 /\ up' = Append(up, looked.pending)
  /\ down' = down
  /\ Witness
  /\ UNCHANGED <<ctl, missed>>

SystemInit ==
  /\ Init
  /\ ctl = [job |-> "none", step |-> 0, at |-> "idle", index |-> 0,
            listed |-> FALSE, tilt |-> None,
            target |-> MinTilt, done |-> "none"]
  /\ down = None /\ up = <<>> /\ stray = FALSE /\ missed = 0

SystemNext ==
  \/ StartScan \/ StartCommand \/ Cancel \/ Send \/ PollResult \/ GiveUp \/ Read
  \/ Hear \/ Run

SystemSpec == SystemInit /\ [][SystemNext]_systemVars
-----------------------------------------------------------------------------
(* Every part has its type, and what is on the line is a frame. *)
SystemTypeOK ==
  /\ TypeOK
  /\ ctl \in Controller
  /\ down # None => down.type \in {"SNRM", "I", "RR"}
  /\ up \in Seq(Frame) /\ Len(up) <= LineDepth
  /\ missed \in 0 .. Modulus

Idle == ctl.at = "idle"

(* In a session without stray frames, a move reported as done is done: the *)
(* antenna stands at the target, however many answers were late or lost in *)
(* this session or before it.                                              *)
MoveDone ==
  ~stray /\ Idle /\ ctl.done = "moveRet" =>
    dev.tcc = None /\ dev.config.tilt[1] = ctl.tilt

(* After a command that ended well both ends count alike, so that the next *)
(* request is taken: a success never hides a lost or a late frame.         *)
InStep ==
  ~stray /\ Idle /\ ctl.done \notin {"none", "scan"}
    /\ dev.link_state = "CONNECTED" =>
    /\ ctl.index = dev.receive_sequence
    /\ ctl.index = dev.send_sequence

(* What README.md:184 says of Set Tilt: the controller waits for the end   *)
(* of the move before it shows the new position.                           *)
MoveReportedIsDone ==
  Idle /\ ctl.done = "moveRet" => dev.tcc = None
=============================================================================
