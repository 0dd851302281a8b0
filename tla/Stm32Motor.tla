------------------------------ MODULE Stm32Motor ------------------------------
(***************************************************************************)
(* The motor of the STM32 board, RET/platform/stm32f4/ret_stm32_platform.c *)
(* behind the callbacks of the firmware core: the two outputs of the       *)
(* driver, the position read from a potentiometer, the limit switches, the *)
(* calibration of the ADC and its copy in flash.                           *)
(*                                                                         *)
(* The actuator is a position between two mechanical ends that moves, or   *)
(* does not, while an output is on.  Bound: of its troubles one at a time. *)
(* Time is left out: that 50 ms have passed since the start, or 5 s since  *)
(* the last motion, is a choice of the poll.                               *)
(***************************************************************************)
EXTENDS Integers

CONSTANTS
  None,           (* no command, nothing stored                            *)
  Travel,         (* the actuator stands at 0 .. Travel                    *)
  MinTilt,        (* tilt_min_tenths                                       *)
  MaxTilt,        (* tilt_max_tenths                                       *)
  Tolerance,      (* RET_POSITION_TOLERANCE_TENTHS                         *)
  DefaultMin,     (* RET_ADC_DEFAULT_MIN                                   *)
  DefaultMax,     (* RET_ADC_DEFAULT_MAX                                   *)
  MinimumSpan,    (* RET_ADC_MINIMUM_SPAN                                  *)
  Noticed,        (* a change of the ADC that counts as motion: 3          *)
  Mountings,      (* TRUE: the potentiometer reads less at a higher tilt   *)
  Troubles,       (* of the plant: see Plant                               *)
  Saves           (* what a save may do: "ok", "failed", "lost"            *)

ASSUME MotorAssumption ==
  /\ Travel \in Nat \ {0}
  /\ MinTilt \in Int /\ MaxTilt \in Int /\ MinTilt < MaxTilt
  /\ DefaultMin \in 0 .. Travel /\ DefaultMax \in 0 .. Travel
  /\ Tolerance \in Nat /\ Noticed \in Nat \ {0}
  /\ MinimumSpan \in 1 .. Travel
  /\ Mountings \subseteq BOOLEAN
  /\ Troubles \subseteq {"none", "jammed", "driver fault", "switch closed"}
  /\ Saves \subseteq {"ok", "failed", "lost"}
  /\ None \notin {"SELF_TEST", "CALIBRATE", "SET_TILT"}

VARIABLES
  ctx,            (* ret_stm32_context_t                                   *)
  core,           (* what the firmware core keeps: command, position,      *)
                  (* whether the antenna is calibrated                     *)
  flash,          (* the stored calibration, or None                       *)
  plant           (* actuator, switches and driver                         *)

motorVars == <<ctx, core, flash, plant>>

Faults     == {"MOTOR_JAM", "ACTUATOR_JAM", "HARDWARE_ERROR"}
Operations == {"SELF_TEST", "CALIBRATE", "SET_TILT"}
Tilts      == MinTilt .. MaxTilt
Readings   == 0 .. Travel

Context ==
  [operation  : Operations,
   result     : {"IDLE", "RUNNING", "OK"} \cup Faults,
   phase      : 0 .. 3,
   direction  : {-1, 0, 1},
   target     : Tilts,
   back       : Tilts,          \* calibration_return_tenths
   last       : Readings,
   adc_min    : Readings,
   adc_max    : Readings,
   calibrated : BOOLEAN]

Plant ==
  [at : 0 .. Travel, inverted : BOOLEAN, trouble : Troubles]

Raw        == IF plant.inverted THEN Travel - plant.at ELSE plant.at
LimitMin   == plant.at = 0 \/ plant.trouble = "switch closed"
LimitMax   == plant.at = Travel
DriverFault == plant.trouble = "driver fault"
Distance(a, b) == IF a < b THEN b - a ELSE a - b

(* Mutant of AdcToTilt: the result is not limited to the range. *)
AdcToTiltUnclamped(c, raw) ==
  IF c.adc_max = c.adc_min THEN MinTilt
  ELSE MinTilt + ((raw - c.adc_min) * (MaxTilt - MinTilt))
                   \div Distance(c.adc_max, c.adc_min)

(* C divides towards zero, which differs below the range only. *)
AdcToTilt(c, raw) ==
  LET span  == Distance(c.adc_max, c.adc_min)
      above == IF c.adc_max > c.adc_min THEN raw - c.adc_min ELSE c.adc_min - raw
      tilt  == MinTilt + (above * (MaxTilt - MinTilt)) \div span
  IN  IF span = 0 \/ tilt < MinTilt THEN MinTilt
      ELSE IF tilt > MaxTilt THEN MaxTilt
      ELSE tilt

Towards(current, target) == IF target > current THEN 1 ELSE -1
Near(current, target)    == Distance(current, target) <= Tolerance

Drive(c, direction) == [c EXCEPT !.direction = direction]

(* Mutant of Finish: the result is kept, the outputs are not switched off. *)
FinishDriving(c, result) == [c EXCEPT !.result = result]

(* motor_fail, which also ends what went well. *)
Finish(c, result) == [c EXCEPT !.result = result, !.direction = 0]

MotorStop(c) == [c EXCEPT !.direction = 0, !.result = "IDLE", !.phase = 0]

-----------------------------------------------------------------------------
(* motor_start_callback, given that it does not refuse. *)
MotorStart(c, operation, target) ==
  LET current == AdcToTilt(c, Raw)
      begun   == [c EXCEPT !.operation = operation, !.result = "RUNNING",
                           !.target = target, !.last = Raw, !.phase = 1]
  IN  CASE operation = "CALIBRATE" -> Drive([begun EXCEPT !.back = current], -1)
        [] operation = "SELF_TEST" -> Drive(begun, 0)
        [] operation = "SET_TILT" /\ Near(current, target) -> Finish(begun, "OK")
        [] operation = "SET_TILT" /\ ~Near(current, target) ->
             Drive(begun, Towards(current, target))

AtLimit(c) == (c.direction < 0 /\ LimitMin) \/ (c.direction > 0 /\ LimitMax)

(* Mutant of ReachesMax: a completed run is not remembered as calibration. *)
ReachesMaxForgetful(c) ==
  IF Distance(Raw, c.adc_min) < MinimumSpan THEN Finish(c, "HARDWARE_ERROR")
  ELSE Drive([c EXCEPT !.adc_max = Raw, !.phase = 3], -1)

(* The upper end of a calibration run: the way back, if there is one. *)
ReachesMax(c) ==
  LET measured == [c EXCEPT !.adc_max = Raw, !.calibrated = TRUE, !.phase = 3]
      current  == AdcToTilt(measured, Raw)
  IN  IF Distance(Raw, c.adc_min) < MinimumSpan
        THEN Finish(c, "HARDWARE_ERROR")
        ELSE IF Near(current, c.back)
          THEN Finish(measured, "OK")
          ELSE Drive(measured, Towards(current, c.back))

(* Mutant of Approach: the limit switches are not looked at. *)
ApproachBlindly(c, target, late) ==
  IF Near(AdcToTilt(c, Raw), target) THEN Finish(c, "OK")
  ELSE IF late THEN Finish(c, "MOTOR_JAM")
  ELSE c

(* Mutant of Approach: a motor that does not move is waited for.           *)
ApproachPatiently(c, target, late) ==
  IF Near(AdcToTilt(c, Raw), target) THEN Finish(c, "OK")
  ELSE IF AtLimit(c) THEN Finish(c, "ACTUATOR_JAM")
  ELSE c

(* A move on its way, and the way back of a calibration.  The direction is *)
(* the one it started with: who misses the target runs into the limit.     *)
Approach(c, target, late) ==
  IF Near(AdcToTilt(c, Raw), target) THEN Finish(c, "OK")
  ELSE IF AtLimit(c) THEN Finish(c, "ACTUATOR_JAM")
  ELSE IF late THEN Finish(c, "MOTOR_JAM")
  ELSE c

(* motor_poll_callback of a running motor.  late: the time of a self test, *)
(* or the time without motion, is over; a motion seen now starts it again. *)
MotorPoll(c, late) ==
  LET moved == Distance(Raw, c.last) >= Noticed
      seen  == IF moved THEN [c EXCEPT !.last = Raw] ELSE c
      stuck == late /\ ~moved
  IN  CASE c.operation = "SELF_TEST" ->
             IF late THEN Finish(seen, "OK") ELSE seen
        [] c.operation = "SET_TILT" -> Approach(seen, c.target, stuck)
        [] c.operation = "CALIBRATE" /\ c.phase = 1 /\ LimitMin ->
             Drive([seen EXCEPT !.adc_min = Raw, !.phase = 2], 1)
        [] c.operation = "CALIBRATE" /\ c.phase = 2 /\ LimitMax ->
             ReachesMax(seen)
        [] c.operation = "CALIBRATE" /\ c.phase = 3 ->
             Approach(seen, c.back, stuck)
        [] OTHER -> IF stuck THEN Finish(seen, "MOTOR_JAM") ELSE seen

-----------------------------------------------------------------------------
(* Steps of the firmware core: the starts it allows, the poll of its main  *)
(* loop while a command runs, and what ends one from outside.              *)

Start(operation, target) ==
  /\ core.command = None
  /\ operation # "CALIBRATE" => core.calibrated
  /\ ctx.result # "RUNNING" /\ ~DriverFault
  /\ ctx'  = MotorStart(ctx, operation, target)
  /\ core' = [core EXCEPT !.command = operation]
  /\ UNCHANGED <<flash, plant>>

Stored == [min |-> ctx'.adc_min, max |-> ctx'.adc_max, adc |-> ctx'.calibrated,
           calibrated |-> core'.calibrated]

Save(save) ==
  flash' = CASE save = "ok" -> Stored [] save = "failed" -> flash
             [] save = "lost" -> None

(* poll_tcc, and complete_tcc when the motor has come to rest.  A driver   *)
(* fault or an ADC that does not answer ends the command.                  *)
Poll(unread, late) ==
  /\ core.command # None
  /\ ctx' = IF ctx.result # "RUNNING" THEN ctx
            ELSE IF DriverFault \/ unread THEN Finish(ctx, "HARDWARE_ERROR")
            ELSE MotorPoll(ctx, late)
  /\ LET ended  == ctx'.result # "RUNNING"
         read   == ctx.result = "RUNNING" /\ ~DriverFault /\ ~unread
     IN  /\ core' = [command    |-> IF ended THEN None ELSE core.command,
                     tilt       |-> IF ended /\ ctx'.result = "OK"
                                         /\ core.command = "SET_TILT" THEN ctx'.target
                                    ELSE IF read THEN AdcToTilt(ctx', Raw)
                                    ELSE core.tilt,
                     calibrated |-> \/ core.calibrated
                                    \/ /\ ctx'.result = "OK"
                                       /\ core.command = "CALIBRATE"]
         /\ IF ended /\ ctx'.result = "OK" /\ core.command # "SELF_TEST"
              THEN \E save \in Saves : Save(save)
              ELSE flash' = flash
  /\ plant' = plant

(* The deadline of the command, or ResetSoftware. *)
Stop ==
  /\ core.command # None
  /\ ctx'  = MotorStop(ctx)
  /\ core' = [core EXCEPT !.command = None]
  /\ UNCHANGED <<flash, plant>>

(* A procedure that saves while no command runs. *)
Keep ==
  /\ core.command = None
  /\ UNCHANGED <<ctx, core, plant>>
  /\ \E save \in Saves : Save(save)

(* ret_stm32_hardware_init, the load, and what main() does with it. *)
Context0(stored) ==
  [operation  |-> "SELF_TEST", result |-> "IDLE", phase |-> 0, direction |-> 0,
   target     |-> MinTilt, back |-> MinTilt, last |-> 0,
   adc_min    |-> IF stored = None THEN DefaultMin ELSE stored.min,
   adc_max    |-> IF stored = None THEN DefaultMax ELSE stored.max,
   calibrated |-> stored # None /\ stored.adc]

Core0(stored) ==
  [command    |-> None, tilt |-> MinTilt,
   calibrated |-> stored # None /\ stored.calibrated /\ stored.adc]

Restart ==
  /\ ctx'  = Context0(flash)
  /\ core' = Core0(flash)
  /\ UNCHANGED <<flash, plant>>

-----------------------------------------------------------------------------
(* The actuator. *)

Turn ==
  /\ ctx.direction # 0 /\ plant.trouble # "jammed"
  /\ plant.at + ctx.direction \in 0 .. Travel
  /\ plant' = [plant EXCEPT !.at = @ + ctx.direction]
  /\ UNCHANGED <<ctx, core, flash>>

Disturb ==
  /\ \E trouble \in Troubles : plant' = [plant EXCEPT !.trouble = trouble]
  /\ UNCHANGED <<ctx, core, flash>>

Init ==
  /\ flash = None
  /\ ctx = Context0(None) /\ core = Core0(None)
  /\ plant \in [at : 0 .. Travel, inverted : Mountings, trouble : Troubles]

PollLate == Poll(FALSE, TRUE)
PollAny  == \E unread, late \in BOOLEAN : Poll(unread, late)

Next ==
  \/ \E operation \in Operations, target \in Tilts : Start(operation, target)
  \/ PollAny \/ Stop \/ Keep \/ Restart \/ Turn \/ Disturb

(* The main loop polls for ever, and the clock runs: a time that has not   *)
(* been started again is over one day.                                     *)
Spec == Init /\ [][Next]_motorVars /\ WF_motorVars(PollLate)
-----------------------------------------------------------------------------
TypeOK ==
  /\ ctx \in Context
  /\ core \in [command : Operations \cup {None}, tilt : Tilts,
               calibrated : BOOLEAN]
  /\ flash \in {None} \cup [min : Readings, max : Readings, adc : BOOLEAN,
                            calibrated : BOOLEAN]
  /\ plant \in Plant

(* An output is on only while the core waits for a command that runs: no   *)
(* end, refusal, stop or restart leaves the motor turning.                 *)
DrivenUnderCommand ==
  ctx.direction # 0 => ctx.result = "RUNNING" /\ core.command # None

(* The core calls an antenna calibrated only when the ADC is: it starts no *)
(* move on positions computed from the default range.                      *)
CalibratedAgree ==
  core.calibrated => ctx.calibrated

(* No poll leaves the motor driving into an active limit switch, unless a  *)
(* fault holds the other one closed as well.                               *)
NeverIntoLimit ==
  [][PollAny /\ core'.command # None /\ ~(LimitMin /\ LimitMax)
       => ~(ctx'.direction < 0 /\ LimitMin) /\ ~(ctx'.direction > 0 /\ LimitMax)]_motorVars

(* The board keeps what the core expects of a motor. *)
Contract == INSTANCE MotorContract WITH result <- ctx.result, tilt <- core.tilt
KeepsContract == Contract!Spec
=============================================================================
