----------------------------- MODULE RetProcedures -----------------------------
(***************************************************************************)
(* Layer 7 of the RET firmware core, RET/src/ret_protocol.c: the RETAP     *)
(* procedures a primary asks for, the bounded queue of their answers, the  *)
(* alarms, the time consuming commands (TCC) that drive the motor, and the *)
(* configuration with its copy in storage.                                 *)
(*                                                                         *)
(* A device is a record, as it is a struct (ret_device_t) in the code.     *)
(* Each operator below is one C function: it takes the device before the   *)
(* call and returns the device after it.  The platform callbacks are part  *)
(* of the record (storage, motor); what they answer is chosen by the       *)
(* caller and handed down in the argument e.  RetLink adds layer 2.        *)
(***************************************************************************)
EXTENDS Integers, Sequences

CONSTANTS
  None,           (* no frame, no command, nothing stored                  *)
  DeviceType,     (* "single" (0x01) or "multi" (0x11)                     *)
  AntennaCount,   (* config.antenna_count                                  *)
  MinTilt,        (* minimum_tilt_tenths of every antenna                  *)
  MaxTilt,        (* maximum_tilt_tenths of every antenna                  *)
  Values,         (* contents of user data and of a writable device field  *)
  Alarms,         (* alarm codes                                           *)
  QueueDepth,     (* RET_L7_QUEUE_DEPTH                                    *)
  MaxSegment,     (* configuration octets that fit in one I frame          *)
  ConfigSize      (* RET_VENDOR_CONFIG_SIZE                                *)

Antennas == 1 .. AntennaCount
Sources  == 0 .. AntennaCount     \* whose alarms: 0 common, else an antenna
Tilts    == MinTilt .. MaxTilt

ASSUME DeviceAssumption ==
  /\ DeviceType \in {"single", "multi"}
  /\ AntennaCount \in 1 .. 4
  /\ DeviceType = "single" => AntennaCount = 1
  /\ MinTilt \in Int /\ MaxTilt \in Int /\ MinTilt <= MaxTilt
  /\ Values \subseteq Int /\ 0 \in Values
  /\ QueueDepth \in Nat \ {0}
  /\ MaxSegment \in Nat \ {0}
  /\ ConfigSize \in Nat

-----------------------------------------------------------------------------
(* Procedures and return codes. *)

CommonProcedures ==
  {"ResetSoftware", "GetAlarmStatus", "GetInformation", "ClearActiveAlarms",
   "AlarmSubscribe", "SelfTest", "ReadUserData", "WriteUserData"}

SingleProcedures ==
  {"SetDeviceData", "GetDeviceData", "Calibrate", "SendConfiguration",
   "SetTilt", "GetTilt"}

MultiProcedures ==
  {"AntennaCalibrate", "AntennaSetTilt", "AntennaGetTilt",
   "AntennaSetDeviceData", "AntennaGetDeviceData", "AntennaAlarmIndication",
   "AntennaClearAlarms", "AntennaGetAlarms", "AntennaCount",
   "AntennaSendConfiguration"}

(* Recognised but never performed: downloads, vendor procedures and an     *)
(* indication sent by the primary.  The last three are refused whatever    *)
(* their length.                                                           *)
UnsupportedProcedures ==
  {"Download", "VendorSpecific", "DownloadApplication", "AlarmIndication",
   "AntennaAlarmIndication"}

Procedures == CommonProcedures \cup SingleProcedures \cup MultiProcedures
                \cup UnsupportedProcedures \cup {"Unknown"}

(* Mutants of AllowedDuringTcc: a configuration, or a second move, let     *)
(* through while the antenna moves.                                        *)
AllowedWithConfiguration ==
  {"ResetSoftware", "GetAlarmStatus", "GetInformation", "GetTilt",
   "SendConfiguration"}
AllowedWithMove ==
  {"ResetSoftware", "GetAlarmStatus", "GetInformation", "GetTilt", "SetTilt"}

AllowedDuringTcc ==
  {"ResetSoftware", "GetAlarmStatus", "GetInformation", "GetTilt",
   "AntennaGetTilt", "GetDeviceData", "AntennaGetDeviceData",
   "AntennaGetAlarms"}

Faults == {"MOTOR_JAM", "ACTUATOR_JAM", "HARDWARE_ERROR"}

Codes ==
  {"OK", "BUSY", "NOT_CALIBRATED", "NOT_CONFIGURED", "READ_ONLY",
   "UNKNOWN_PARAMETER", "OUT_OF_RANGE", "FORMAT_ERROR",
   "UNSUPPORTED_PROCEDURE", "UNKNOWN_PROCEDURE", "INDICATION"} \cup Faults

(* A request: its parameters and whether the message is well formed.       *)
(* "short": under three octets; "mismatch": the declared length is not the *)
(* actual one; "badlength": parameters of a wrong length; "long": more     *)
(* octets than the agreed maximum, which layer 2 turns away.               *)
Request ==
  [proc  : Procedures,
   ant   : Nat,
   item  : {"writable", "readonly", "unknown"},
   arg   : Int,
   shape : {"short", "mismatch", "badlength", "long", "ok"}]

(* An answer or an alarm indication; ant is 0 when it carries no antenna   *)
(* octet.                                                                  *)
Answer ==
  [proc   : Procedures,
   ant    : Nat,
   code   : Codes,
   value  : Int,
   alarms : SUBSET (Alarms \X BOOLEAN)]

Config ==
  [tilt       : [Antennas -> Tilts],
   calibrated : [Antennas -> BOOLEAN],
   configured : [Antennas -> BOOLEAN],
   length     : [Antennas -> 0 .. ConfigSize],
   field      : [Antennas -> Values],
   user       : Values]

Tcc ==
  [type   : {"SELF_TEST", "CALIBRATE", "SET_TILT"},
   proc   : Procedures,
   ant    : Antennas,
   target : Tilts]

MotorStates == {"IDLE", "RUNNING", "OK"} \cup Faults

(* storage_save succeeds, fails leaving the stored copy, or fails after it *)
(* has erased that copy.                                                   *)
Saves == {"ok", "failed", "lost"}

(* What the platform answers while one frame is handled: to a save, to a   *)
(* motor start, whether the antenna already is at the target, and to the   *)
(* save of a boot that finds nothing stored.                               *)
Environment ==
  [save : Saves, ready : BOOLEAN, there : BOOLEAN, boot : Saves]
-----------------------------------------------------------------------------
(* The answer queue: queue_l7 drops the message when the queue is full and *)
(* every caller but two ignores that.                                      *)

(* Mutant of QueueL7: no check for room. *)
QueueL7Unbounded(d, m) == [d EXCEPT !.l7_queue = Append(@, m)]

QueueL7(d, m) ==
  IF Len(d.l7_queue) < QueueDepth
    THEN [d EXCEPT !.l7_queue = Append(@, m)]
    ELSE d

Reply(p, a, code, value, alarms) ==
  [proc |-> p, ant |-> a, code |-> code, value |-> value, alarms |-> alarms]

(* The antenna octet of an answer; which octet answers a malformed message *)
(* repeats is not kept.                                                    *)
AntennaOctet(req) ==
  IF req.proc \in MultiProcedures /\ req.shape = "ok" THEN req.ant ELSE 0

QueueError(d, req, code) ==
  QueueL7(d, Reply(req.proc, AntennaOctet(req), code, 0, {}))

QueueOk(d, req, value, alarms) ==
  QueueL7(d, Reply(req.proc, AntennaOctet(req), "OK", value, alarms))

-----------------------------------------------------------------------------
(* Alarms. *)

SetAlarm(d, s, c, active) ==
  IF (c \in d.alarm_active[s]) = active
    THEN d
    ELSE [d EXCEPT !.alarm_active[s]  = IF active THEN @ \cup {c} ELSE @ \ {c},
                   !.alarm_changed[s] = @ \cup {c}]

ActiveAlarms(d, s) == d.alarm_active[s] \X {TRUE}

ClearAlarms(d, s) ==
  [d EXCEPT !.alarm_changed[s] = @ \cup d.alarm_active[s],
            !.alarm_active[s]  = {}]

(* The marked alarms of a source, each with its present state. *)
ChangedAlarms(d, s) ==
  (d.alarm_changed[s] \cap d.alarm_active[s]) \X {TRUE}
    \cup (d.alarm_changed[s] \ d.alarm_active[s]) \X {FALSE}

(* Mutant of QueueChangedAlarms: the marks go whether there is room or not. *)
QueueChangedAlarmsAnyway(d, s) ==
  IF s \in Sources /\ d.alarm_changed[s] # {}
    THEN [QueueL7(d, Reply("AlarmIndication", s, "INDICATION", 0,
                           ChangedAlarms(d, s)))
            EXCEPT !.alarm_changed[s] = {}]
    ELSE d

(* An indication that finds no room in the queue keeps its marks. *)
QueueChangedAlarms(d, s) ==
  IF /\ s \in Sources
     /\ d.alarm_changed[s] # {}
     /\ Len(d.l7_queue) < QueueDepth
    THEN [QueueL7(d, Reply(IF s = 0 THEN "AlarmIndication"
                                    ELSE "AntennaAlarmIndication",
                           s, "INDICATION", 0,
                           ChangedAlarms(d, s)))
            EXCEPT !.alarm_changed[s] = {}]
    ELSE d

(* At most RET_MAX_ANTENNAS = 4 antennas. *)
QueueAlarmIndications(d) ==
  IF ~d.alarm_subscribed
    THEN d
    ELSE LET common == QueueChangedAlarms(d, 0)
             upTo2  == QueueChangedAlarms(QueueChangedAlarms(common, 1), 2)
         IN  IF DeviceType = "multi"
               THEN QueueChangedAlarms(QueueChangedAlarms(upTo2, 3), 4)
               ELSE common

-----------------------------------------------------------------------------
(* Storage.  dirty is a history field: the last save failed, so that a     *)
(* restart may bring an older configuration back.                          *)

Persist(d, save) ==
  [d EXCEPT !.storage = CASE save = "ok"     -> d.config
                          [] save = "failed" -> @
                          [] save = "lost"   -> None,
            !.dirty   = (save # "ok")]

(* Mutant of SaveAndAnswer: returns early when the answer finds no room.   *)
SaveWhenRoom(d, req, e) ==
  LET saved == Persist(d, e.save)
  IN  IF Len(d.l7_queue) = QueueDepth THEN d
      ELSE IF e.save = "ok" THEN QueueOk(saved, req, 0, {})
      ELSE QueueError(saved, req, "HARDWARE_ERROR")

(* The answer of a procedure that saves: the change stays in RAM even when *)
(* the save fails.                                                         *)
SaveAndAnswer(d, req, e) ==
  LET saved == Persist(d, e.save)
  IN  IF e.save = "ok" THEN QueueOk(saved, req, 0, {})
                       ELSE QueueError(saved, req, "HARDWARE_ERROR")

-----------------------------------------------------------------------------
(* Starting and ending time consuming commands. *)

StartTcc(d, req, type, a, target, e) ==
  IF d.motor = "RUNNING" \/ ~e.ready
    THEN QueueError(d, req, "HARDWARE_ERROR")
    ELSE [d EXCEPT
            !.motor = IF type = "SET_TILT" /\ e.there THEN "OK" ELSE "RUNNING",
            !.tcc   = [type |-> type, proc |-> req.proc, ant |-> a,
                       target |-> target]]

(* The request a completed command answers, as far as its answer needs it. *)
TccRequest(tcc) == [proc |-> tcc.proc, ant |-> tcc.ant, shape |-> "ok"]

(* complete_tcc: result is what the motor reported, "MOTOR_JAM" also when  *)
(* the deadline passed.                                                    *)
CompleteTcc(d, result, e) ==
  LET tcc   == d.tcc
      req   == TccRequest(tcc)
      ended == [d EXCEPT !.tcc = None]
  IN  CASE result # "OK" -> QueueError(ended, req, result)
        [] result = "OK" /\ tcc.type = "SELF_TEST" ->
             QueueOk(ended, req, 0, ActiveAlarms(d, 0))
        [] result = "OK" /\ tcc.type = "SET_TILT" ->
             SaveAndAnswer([ended EXCEPT !.config.tilt[tcc.ant] = tcc.target],
                           req, e)
        [] result = "OK" /\ tcc.type = "CALIBRATE" ->
             SaveAndAnswer([ended EXCEPT !.config.calibrated[tcc.ant] = TRUE],
                           req, e)

(* Mutant of PollTcc: the deadline ends the command and not the motor.     *)
PollTccWithoutStop(d, e) ==
  IF d.tcc = None THEN d
  ELSE IF e.expired THEN CompleteTcc(d, "MOTOR_JAM", e)
  ELSE IF d.motor = "RUNNING" /\ e.motor = "RUNNING" THEN d
  ELSE CompleteTcc(d, e.motor, e)

(* What one poll of the motor can report: e.motor while it runs, and then  *)
(* the position e.position goes to RAM; its last result once it stopped.   *)
PollTcc(d, e) ==
  IF d.tcc = None
    THEN d
    ELSE IF e.expired
      THEN CompleteTcc([d EXCEPT !.motor = "IDLE"], "MOTOR_JAM", e)
      ELSE IF d.motor = "RUNNING"
        THEN LET moved == [d EXCEPT !.motor = e.motor,
                                    !.config.tilt[d.tcc.ant] = e.position]
             IN  IF e.motor = "RUNNING" THEN moved
                                        ELSE CompleteTcc(moved, e.motor, e)
        ELSE IF d.motor = "IDLE" THEN d ELSE CompleteTcc(d, d.motor, e)

(* What one pass of the main loop finds: the deadline of the command, the  *)
(* motor, the position, the result of a save, the three minutes without an *)
(* addressed frame, whether the pending response is due, and the save of a *)
(* boot.                                                                   *)
PollEnvironment ==
  [expired  : BOOLEAN,
   motor    : MotorStates \ {"IDLE"},
   position : Tilts,
   save     : Saves,
   silent   : BOOLEAN,
   due      : BOOLEAN,
   boot     : Saves]

-----------------------------------------------------------------------------
(* The procedures. *)

(* The antenna a request is about; a single device has only number 1. *)
AntennaOf(req) == IF req.proc \in MultiProcedures THEN req.ant ELSE 1

(* Asked for antenna 0, AntennaGetAlarms answers with the common alarms.   *)
NamesAntenna(req) ==
  /\ req.proc \in (SingleProcedures \cup MultiProcedures) \ {"AntennaCount"}
  /\ ~(req.proc = "AntennaGetAlarms" /\ req.ant = 0)

(* Checks made for every request before its procedure is looked at. *)
GeneralRefusal(d, req) ==
  IF req.shape = "mismatch" THEN "FORMAT_ERROR"
  ELSE IF d.tcc # None /\ req.proc \notin AllowedDuringTcc THEN "BUSY"
  ELSE IF \/ DeviceType = "single" /\ req.proc \in MultiProcedures
          \/ DeviceType = "multi" /\ req.proc \in SingleProcedures
          \/ req.proc \in UnsupportedProcedures
               /\ (req.shape = "ok" \/ req.proc \notin {"Download", "VendorSpecific"})
    THEN "UNSUPPORTED_PROCEDURE"
  ELSE IF req.proc = "Unknown" THEN "UNKNOWN_PROCEDURE"
  ELSE IF req.shape = "badlength" THEN "FORMAT_ERROR"
  ELSE "OK"

(* Checks of the configured and calibrated state of antenna a. *)
AntennaRefusal(d, a, needsCalibration) ==
  IF ~d.config.configured[a] THEN "NOT_CONFIGURED"
  ELSE IF needsCalibration /\ ~d.config.calibrated[a] THEN "NOT_CALIBRATED"
  ELSE "OK"

(* Checks of one procedure, none of which changes the device. *)
ProcedureRefusal(d, req) ==
  LET p == req.proc
      a == AntennaOf(req)
  IN  IF NamesAntenna(req) /\ a \notin Antennas THEN "FORMAT_ERROR"
      ELSE
      CASE p = "SelfTest" ->
             IF d.config.calibrated[1] THEN "OK" ELSE "NOT_CALIBRATED"
        [] p \in {"ReadUserData", "WriteUserData"} ->
             IF req.item = "unknown" THEN "OUT_OF_RANGE" ELSE "OK"
        [] p \in {"SetDeviceData", "AntennaSetDeviceData"} ->
             IF req.item = "readonly" THEN "READ_ONLY"
             ELSE IF req.item = "unknown" THEN "UNKNOWN_PARAMETER"
             ELSE "OK"
        [] p \in {"GetDeviceData", "AntennaGetDeviceData"} ->
             IF req.item = "unknown" THEN "UNKNOWN_PARAMETER" ELSE "OK"
        [] p \in {"Calibrate", "AntennaCalibrate"} ->
             AntennaRefusal(d, a, FALSE)
        [] p \in {"GetTilt", "AntennaGetTilt"} ->
             AntennaRefusal(d, a, TRUE)
        [] p \in {"SetTilt", "AntennaSetTilt"} ->
             IF AntennaRefusal(d, a, TRUE) = "OK" /\ req.arg \notin Tilts
               THEN "OUT_OF_RANGE"
               ELSE AntennaRefusal(d, a, TRUE)
        [] OTHER -> "OK"

Refusal(d, req) ==
  IF GeneralRefusal(d, req) # "OK" THEN GeneralRefusal(d, req)
                                   ELSE ProcedureRefusal(d, req)

(* memset of alarms, command and transfers, and an empty queue: the answer *)
(* always finds room, and the reset waits for its acknowledgement.         *)
ResetSoftware(d, req) ==
  [QueueOk([d EXCEPT !.motor            = "IDLE",
                     !.alarm_active     = [s \in Sources |-> {}],
                     !.alarm_changed    = [s \in Sources |-> {}],
                     !.tcc              = None,
                     !.transfer_active  = [a \in Antennas |-> FALSE],
                     !.alarm_subscribed = FALSE,
                     !.l7_queue         = <<>>], req, 0, {})
     EXCEPT !.reset_after_i_ack = TRUE]

AlarmSubscribe(d, req) ==
  QueueOk([d EXCEPT !.alarm_subscribed = TRUE,
                    !.alarm_changed = [s \in Sources |-> @[s] \cup d.alarm_active[s]]],
          req, 0, {})

(* Mutant of SendConfiguration: the antenna stays configured between the   *)
(* segments.                                                               *)
SendConfigurationInPlace(d, req, e) ==
  SaveAndAnswer([d EXCEPT !.transfer_active[AntennaOf(req)] =
                            (req.arg = MaxSegment)], req, e)

(* One segment of req.arg octets.  A full segment announces another one,   *)
(* and the antenna is configured only when a shorter one has arrived.      *)
SendConfiguration(d, req, e) ==
  LET a     == AntennaOf(req)
      begun == IF d.transfer_active[a] THEN d
                                       ELSE [d EXCEPT !.config.length[a] = 0]
      total == begun.config.length[a] + req.arg
      more  == req.arg = MaxSegment
      abort(code) == QueueError([d EXCEPT !.transfer_active[a] = FALSE,
                                          !.config.length[a]   = 0], req, code)
  IN  IF req.arg > MaxSegment THEN abort("FORMAT_ERROR")
      ELSE IF total > ConfigSize THEN abort("OUT_OF_RANGE")
      ELSE SaveAndAnswer([begun EXCEPT !.transfer_active[a]   = more,
                                       !.config.length[a]     = total,
                                       !.config.configured[a] = ~more], req, e)

(* A request that passed every check. *)
Execute(d, req, e) ==
  LET p == req.proc
      a == AntennaOf(req)
  IN  CASE p = "ResetSoftware" -> ResetSoftware(d, req)
        [] p = "AlarmSubscribe" -> AlarmSubscribe(d, req)
        [] p = "GetAlarmStatus" -> QueueOk(d, req, 0, ActiveAlarms(d, 0))
        [] p = "AntennaGetAlarms" -> QueueOk(d, req, 0, ActiveAlarms(d, a))
        [] p = "ClearActiveAlarms" -> QueueOk(ClearAlarms(d, 0), req, 0, {})
        [] p = "AntennaClearAlarms" -> QueueOk(ClearAlarms(d, a), req, 0, {})
        [] p = "GetInformation" -> QueueOk(d, req, 0, {})
        [] p = "AntennaCount" -> QueueOk(d, req, AntennaCount, {})
        [] p = "ReadUserData" -> QueueOk(d, req, d.config.user, {})
        [] p = "WriteUserData" ->
             SaveAndAnswer([d EXCEPT !.config.user = req.arg], req, e)
        [] p \in {"GetDeviceData", "AntennaGetDeviceData"} ->
             QueueOk(d, req, d.config.field[a], {})
        [] p \in {"SetDeviceData", "AntennaSetDeviceData"} ->
             SaveAndAnswer([d EXCEPT !.config.field[a] = req.arg], req, e)
        [] p \in {"GetTilt", "AntennaGetTilt"} ->
             QueueOk(d, req, d.config.tilt[a], {})
        [] p = "SelfTest" ->
             StartTcc(d, req, "SELF_TEST", 1, d.config.tilt[1], e)
        [] p \in {"Calibrate", "AntennaCalibrate"} ->
             StartTcc(d, req, "CALIBRATE", a, MinTilt, e)
        [] p \in {"SetTilt", "AntennaSetTilt"} ->
             StartTcc(d, req, "SET_TILT", a, req.arg, e)
        [] p \in {"SendConfiguration", "AntennaSendConfiguration"} ->
             SendConfiguration(d, req, e)

(* handle_l7: a message under three octets is dropped without an answer. *)
HandleL7(d, req, e) ==
  IF req.shape = "short" THEN d
  ELSE IF Refusal(d, req) # "OK" THEN QueueError(d, req, Refusal(d, req))
  ELSE Execute(d, req, e)
=============================================================================
