--------------------------- MODULE Stm32Motor_proofs ---------------------------
(***************************************************************************)
(* Proofs about Stm32Motor: the outputs are off unless a command runs, an  *)
(* antenna counts as calibrated only with a calibrated ADC, no poll leaves *)
(* the motor driving into a limit, and every step is one MotorContract     *)
(* allows, for every travel, range, mounting and trouble of the actuator.  *)
(***************************************************************************)
EXTENDS Stm32Motor, TLAPS

(* A calibration that the core waits for runs in the motor, and has its    *)
(* range when it is on the way back.                                       *)
CalibrationRuns ==
  core.command = "CALIBRATE" =>
    /\ ctx.operation = "CALIBRATE" /\ ctx.result = "RUNNING"
    /\ ctx.phase = 3 => ctx.calibrated

Inv == TypeOK /\ DrivenUnderCommand /\ CalibrationRuns /\ CalibratedAgree

-----------------------------------------------------------------------------
(* The sets of values. *)
LEMMA Ranges ==
  /\ Readings \subseteq Int /\ 0 \in Readings
  /\ DefaultMin \in Readings /\ DefaultMax \in Readings /\ MinTilt \in Tilts
  /\ 0 \in 0 .. 3 /\ 1 \in 0 .. 3 /\ 2 \in 0 .. 3 /\ 3 \in 0 .. 3
  /\ None \notin Operations
<1>1. Travel \in Nat /\ DefaultMin \in 0 .. Travel /\ DefaultMax \in 0 .. Travel
  BY MotorAssumption
<1>2. MinTilt \in Int /\ MaxTilt \in Int /\ MinTilt < MaxTilt
  BY MotorAssumption
<1>3. None \notin Operations
  BY MotorAssumption DEF Operations
<1>4. MinTilt \in Tilts
  BY <1>2 DEF Tilts
<1> QED BY <1>1, <1>3, <1>4 DEF Readings

LEMMA CalibrateIsSome == None # "CALIBRATE"
BY MotorAssumption

(* What the ADC reads is in its range, whichever way it is mounted.        *)
LEMMA RawTyped == ASSUME TypeOK PROVE Raw \in Readings
<1>1. plant.at \in 0 .. Travel /\ Travel \in Nat
  BY MotorAssumption DEF TypeOK, Plant
<1> QED BY <1>1 DEF Raw, Readings

(* A share of a range, limited to it.                                      *)
LEMMA LimitedTyped ==
  ASSUME NEW above \in Int, NEW span \in Nat, NEW low \in Int, NEW high \in Int, low < high
  PROVE  LET tilt == low + (above * (high - low)) \div span IN
         (IF span = 0 \/ tilt < low THEN low ELSE IF tilt > high THEN high ELSE tilt)
           \in low .. high
<1>1. CASE span = 0
  BY <1>1
<1>2. CASE span # 0
  <2>1. PICK product \in Int : product = above * (high - low)
    OBVIOUS
  <2>2. PICK share \in Int : share = product \div span
    BY <1>2
  <2> QED BY <1>2, <2>1, <2>2
<1> QED BY <1>1, <1>2

(* adc_to_tilt stays within the limits of the antenna.                     *)
LEMMA AdcToTiltTyped ==
  ASSUME NEW c, NEW raw \in Int, c.adc_min \in Int, c.adc_max \in Int
  PROVE  AdcToTilt(c, raw) \in Tilts
<1> DEFINE span  == Distance(c.adc_max, c.adc_min)
           above == IF c.adc_max > c.adc_min THEN raw - c.adc_min ELSE c.adc_min - raw
<1>1. MinTilt \in Int /\ MaxTilt \in Int /\ MinTilt < MaxTilt
  BY MotorAssumption
<1>2. PICK low \in Int, high \in Int : low = c.adc_min /\ high = c.adc_max
  OBVIOUS
<1>3. span \in Nat /\ above \in Int
  <2>1. span = IF high < low THEN low - high ELSE high - low
    BY <1>2 DEF Distance
  <2>2. above = IF high > low THEN raw - low ELSE low - raw
    BY <1>2
  <2> HIDE DEF span, above
  <2> QED BY <2>1, <2>2
<1>4. AdcToTilt(c, raw) =
        LET tilt == MinTilt + (above * (MaxTilt - MinTilt)) \div span IN
        IF span = 0 \/ tilt < MinTilt THEN MinTilt
        ELSE IF tilt > MaxTilt THEN MaxTilt ELSE tilt
  BY DEF AdcToTilt
<1> HIDE DEF span, above
<1> QED BY <1>1, <1>3, <1>4, LimitedTyped DEF Tilts

(* What a step of the motor may do to its context: what ended is off.      *)
Sound(c) ==
  /\ c \in Context
  /\ c.direction # 0 => c.result = "RUNNING"

LEMMA FinishSound ==
  ASSUME NEW c \in Context, NEW result \in {"IDLE", "RUNNING", "OK"} \cup Faults
  PROVE  /\ Sound(Finish(c, result)) /\ Finish(c, result).result = result
         /\ Finish(c, result).calibrated = c.calibrated
BY DEF Finish, Sound, Context

LEMMA DriveSound ==
  ASSUME NEW c \in Context, c.result = "RUNNING", NEW direction \in {-1, 0, 1}
  PROVE  /\ Sound(Drive(c, direction)) /\ Drive(c, direction).result = "RUNNING"
         /\ Drive(c, direction).operation = c.operation
         /\ Drive(c, direction).phase = c.phase
         /\ Drive(c, direction).calibrated = c.calibrated
BY DEF Drive, Sound, Context

LEMMA ApproachSound ==
  ASSUME NEW c \in Context, c.result = "RUNNING", NEW target, NEW late \in BOOLEAN
  PROVE  LET d == Approach(c, target, late) IN
         /\ Sound(d) /\ d.calibrated = c.calibrated
         /\ d.result = "RUNNING" => d = c
<1>1. "OK" \in {"IDLE", "RUNNING", "OK"} \cup Faults
      /\ "ACTUATOR_JAM" \in {"IDLE", "RUNNING", "OK"} \cup Faults
      /\ "MOTOR_JAM" \in {"IDLE", "RUNNING", "OK"} \cup Faults
  BY DEF Faults
<1>2. Sound(c)
  BY DEF Sound
<1> QED BY <1>1, <1>2, FinishSound DEF Approach

(* The upper end of a calibration ends it, or turns it round with the      *)
(* range it has measured.                                                  *)
LEMMA ReachesMaxSound ==
  ASSUME TypeOK, NEW c \in Context, c.result = "RUNNING", c.operation = "CALIBRATE"
  PROVE  LET d == ReachesMax(c) IN
         /\ Sound(d) /\ d.operation = "CALIBRATE"
         /\ c.calibrated => d.calibrated
         /\ d.result \in {"RUNNING", "OK"} => d.calibrated
<1> DEFINE measured == [c EXCEPT !.adc_max = Raw, !.calibrated = TRUE, !.phase = 3]
           current == AdcToTilt(measured, Raw)
<1>1. measured \in Context /\ measured.result = "RUNNING"
      /\ measured.operation = "CALIBRATE" /\ measured.calibrated
  BY RawTyped, Ranges DEF Context
<1>2. "OK" \in {"IDLE", "RUNNING", "OK"} \cup Faults
      /\ "HARDWARE_ERROR" \in {"IDLE", "RUNNING", "OK"} \cup Faults
  BY DEF Faults
<1>3. Towards(current, c.back) \in {-1, 0, 1}
  BY DEF Towards
<1>4. CASE Distance(Raw, c.adc_min) < MinimumSpan
  BY <1>2, <1>4, FinishSound DEF ReachesMax, Finish, Context
<1>5. CASE ~(Distance(Raw, c.adc_min) < MinimumSpan) /\ Near(current, c.back)
  <2>1. ReachesMax(c) = Finish(measured, "OK")
    BY <1>5 DEF ReachesMax
  <2> HIDE DEF measured
  <2>2. Finish(measured, "OK").operation = measured.operation
    BY <1>1 DEF Finish, Context
  <2> QED BY <1>1, <1>2, <2>1, <2>2, FinishSound
<1>6. CASE ~(Distance(Raw, c.adc_min) < MinimumSpan) /\ ~Near(current, c.back)
  <2>1. ReachesMax(c) = Drive(measured, Towards(current, c.back))
    BY <1>6 DEF ReachesMax
  <2> HIDE DEF measured, current
  <2> QED BY <1>1, <1>3, <2>1, DriveSound
<1> QED BY <1>4, <1>5, <1>6

(* What a poll may make of a running motor.                                *)
Polled(c, d) ==
  /\ Sound(d)
  /\ c.calibrated => d.calibrated
  /\ c.operation = "CALIBRATE" /\ (c.phase = 3 => c.calibrated) =>
       /\ d.result = "RUNNING" =>
            d.operation = "CALIBRATE" /\ (d.phase = 3 => d.calibrated)
       /\ d.result = "OK" => d.calibrated

LEMMA MotorPollSound ==
  ASSUME TypeOK, ctx.result = "RUNNING", NEW late \in BOOLEAN
  PROVE  Polled(ctx, MotorPoll(ctx, late))
<1> DEFINE moved == Distance(Raw, ctx.last) >= Noticed
           seen  == IF moved THEN [ctx EXCEPT !.last = Raw] ELSE ctx
           stuck == late /\ ~moved
           d     == MotorPoll(ctx, late)
<1> SUFFICES Polled(ctx, d)
  OBVIOUS
<1>1. ctx \in Context /\ Raw \in Readings
  BY RawTyped DEF TypeOK
<1>2. /\ seen \in Context /\ seen.result = "RUNNING"
      /\ seen.operation = ctx.operation /\ seen.phase = ctx.phase
      /\ seen.calibrated = ctx.calibrated /\ Sound(seen)
  BY <1>1 DEF Context, Sound
<1>3. stuck \in BOOLEAN
  OBVIOUS
<1>4. "OK" \in {"IDLE", "RUNNING", "OK"} \cup Faults
      /\ "MOTOR_JAM" \in {"IDLE", "RUNNING", "OK"} \cup Faults
  BY DEF Faults
<1>5. ctx.operation \in Operations
  BY <1>1 DEF Context
<1>6. CASE ctx.operation = "SELF_TEST"
  <2>1. d = IF late THEN Finish(seen, "OK") ELSE seen
    BY <1>6 DEF MotorPoll
  <2> HIDE DEF d, seen
  <2> QED BY <1>2, <1>4, <1>6, <2>1, FinishSound DEF Polled
<1>7. CASE ctx.operation = "SET_TILT"
  <2>1. d = Approach(seen, ctx.target, stuck)
    BY <1>7 DEF MotorPoll
  <2> HIDE DEF d, seen, stuck
  <2> QED BY <1>2, <1>3, <1>7, <2>1, ApproachSound DEF Polled
<1>8. CASE ctx.operation = "CALIBRATE" /\ ctx.phase = 1 /\ LimitMin
  <2> DEFINE low == [seen EXCEPT !.adc_min = Raw, !.phase = 2]
  <2>1. d = Drive(low, 1)
    BY <1>8 DEF MotorPoll
  <2> HIDE DEF d, seen
  <2>2. /\ low \in Context /\ low.result = "RUNNING" /\ low.operation = "CALIBRATE"
        /\ low.phase = 2 /\ low.calibrated = ctx.calibrated
    BY <1>1, <1>2, <1>8, Ranges DEF Context
  <2> HIDE DEF low
  <2> QED BY <2>1, <2>2, DriveSound DEF Polled
<1>9. CASE ctx.operation = "CALIBRATE" /\ ctx.phase = 2 /\ LimitMax
  <2>1. d = ReachesMax(seen)
    BY <1>9 DEF MotorPoll
  <2> HIDE DEF d, seen
  <2> QED BY <1>2, <1>9, <2>1, ReachesMaxSound DEF Polled
<1>10. CASE ctx.operation = "CALIBRATE" /\ ctx.phase = 3
  <2>1. d = Approach(seen, ctx.back, stuck)
    BY <1>10 DEF MotorPoll
  <2> HIDE DEF d, seen, stuck
  <2> QED BY <1>2, <1>3, <1>10, <2>1, ApproachSound DEF Polled
<1>11. CASE /\ ctx.operation = "CALIBRATE" /\ ctx.phase # 3
            /\ ~(ctx.phase = 1 /\ LimitMin) /\ ~(ctx.phase = 2 /\ LimitMax)
  <2>1. d = IF stuck THEN Finish(seen, "MOTOR_JAM") ELSE seen
    BY <1>11 DEF MotorPoll
  <2> HIDE DEF d, seen, stuck
  <2>2. Finish(seen, "MOTOR_JAM").result = "MOTOR_JAM"
    BY <1>2, <1>4, FinishSound
  <2> QED BY <1>2, <1>4, <1>11, <2>1, <2>2, FinishSound DEF Polled
<1> QED BY <1>5, <1>6, <1>7, <1>8, <1>9, <1>10, <1>11 DEF Operations

LEMMA MotorStartSound ==
  ASSUME TypeOK, NEW operation \in Operations, NEW target \in Tilts
  PROVE  LET d == MotorStart(ctx, operation, target) IN
         /\ Sound(d) /\ d.calibrated = ctx.calibrated
         /\ operation = "CALIBRATE" =>
              d.operation = "CALIBRATE" /\ d.result = "RUNNING" /\ d.phase = 1
<1> DEFINE current == AdcToTilt(ctx, Raw)
           begun   == [ctx EXCEPT !.operation = operation, !.result = "RUNNING",
                                  !.target = target, !.last = Raw, !.phase = 1]
           aside   == [begun EXCEPT !.back = current]
           d       == MotorStart(ctx, operation, target)
<1> SUFFICES /\ Sound(d) /\ d.calibrated = ctx.calibrated
             /\ operation = "CALIBRATE" =>
                  d.operation = "CALIBRATE" /\ d.result = "RUNNING" /\ d.phase = 1
  OBVIOUS
<1>1. /\ ctx \in Context /\ Raw \in Readings /\ ctx.adc_min \in Int /\ ctx.adc_max \in Int
      /\ Raw \in Int
  BY RawTyped, Ranges DEF TypeOK, Context
<1>2. current \in Tilts
  BY <1>1, AdcToTiltTyped
<1>3. /\ begun \in Context /\ begun.result = "RUNNING" /\ begun.phase = 1
      /\ begun.operation = operation /\ begun.calibrated = ctx.calibrated
  BY <1>1, Ranges DEF Context
<1> HIDE DEF current
<1>4. CASE operation = "CALIBRATE"
  <2>1. d = Drive(aside, -1)
    BY <1>4 DEF MotorStart, current
  <2> HIDE DEF begun, d
  <2>2. /\ aside \in Context /\ aside.result = "RUNNING" /\ aside.phase = 1
        /\ aside.operation = operation /\ aside.calibrated = ctx.calibrated
    BY <1>2, <1>3 DEF Context
  <2> HIDE DEF aside
  <2> QED BY <1>4, <2>1, <2>2, DriveSound
<1>5. CASE operation = "SELF_TEST"
  <2>1. d = Drive(begun, 0)
    BY <1>5 DEF MotorStart
  <2> HIDE DEF begun, d
  <2> QED BY <1>3, <1>5, <2>1, DriveSound
<1>6. CASE operation = "SET_TILT"
  <2>1. d = Finish(begun, "OK") \/ d = Drive(begun, Towards(current, target))
    BY <1>6 DEF MotorStart, current
  <2>2. Towards(current, target) \in {-1, 0, 1}
    BY DEF Towards
  <2>3. "OK" \in {"IDLE", "RUNNING", "OK"} \cup Faults
    OBVIOUS
  <2> HIDE DEF begun, d
  <2> QED BY <1>3, <1>6, <2>1, <2>2, <2>3, DriveSound, FinishSound
<1> QED BY <1>4, <1>5, <1>6 DEF Operations

-----------------------------------------------------------------------------
(* The steps, one by one. *)

LEMMA SavedTyped ==
  ASSUME TypeOK, ctx' \in Context, core'.calibrated \in BOOLEAN, NEW save \in Saves, Save(save)
  PROVE  flash' \in {None} \cup [min : Readings, max : Readings, adc : BOOLEAN,
                                 calibrated : BOOLEAN]
<1>1. Stored \in [min : Readings, max : Readings, adc : BOOLEAN, calibrated : BOOLEAN]
  BY DEF Stored, Context
<1> QED BY <1>1, MotorAssumption DEF Save, TypeOK

LEMMA StartInv ==
  ASSUME Inv, NEW operation \in Operations, NEW target \in Tilts, Start(operation, target)
  PROVE  Inv'
<1> DEFINE d == MotorStart(ctx, operation, target)
<1>1. /\ ctx' = d /\ core' = [core EXCEPT !.command = operation]
      /\ UNCHANGED <<flash, plant>>
      /\ operation # "CALIBRATE" => core.calibrated
  BY DEF Start
<1>2. /\ Sound(d) /\ d.calibrated = ctx.calibrated
      /\ operation = "CALIBRATE" =>
           d.operation = "CALIBRATE" /\ d.result = "RUNNING" /\ d.phase = 1
  BY MotorStartSound DEF Inv
<1> HIDE DEF d
<1>3. /\ core'.command = operation /\ core'.calibrated = core.calibrated
      /\ core' \in [command : Operations \cup {None}, tilt : Tilts, calibrated : BOOLEAN]
  BY <1>1 DEF Inv, TypeOK
<1>4. TypeOK'
  BY <1>1, <1>2, <1>3 DEF Inv, TypeOK, Sound, Plant
<1>5. operation # None
  BY MotorAssumption DEF Operations
<1> QED BY <1>1, <1>2, <1>3, <1>4, <1>5
        DEF Inv, DrivenUnderCommand, CalibrationRuns, CalibratedAgree, Sound

LEMMA PollInv ==
  ASSUME Inv, NEW unread \in BOOLEAN, NEW late \in BOOLEAN, Poll(unread, late)
  PROVE  Inv'
<1> DEFINE ended == ctx'.result # "RUNNING"
           read  == ctx.result = "RUNNING" /\ ~DriverFault /\ ~unread
<1>1. /\ core.command # None
      /\ ctx' = IF ctx.result # "RUNNING" THEN ctx
                ELSE IF DriverFault \/ unread THEN Finish(ctx, "HARDWARE_ERROR")
                ELSE MotorPoll(ctx, late)
      /\ core' = [command    |-> IF ended THEN None ELSE core.command,
                  tilt       |-> IF ended /\ ctx'.result = "OK"
                                      /\ core.command = "SET_TILT" THEN ctx'.target
                                 ELSE IF read THEN AdcToTilt(ctx', Raw)
                                 ELSE core.tilt,
                  calibrated |-> \/ core.calibrated
                                 \/ /\ ctx'.result = "OK"
                                    /\ core.command = "CALIBRATE"]
      /\ flash' = flash \/ \E save \in Saves : Save(save)
      /\ plant' = plant
  BY DEF Poll
<1>2. /\ ctx \in Context /\ Sound(ctx)
      /\ core \in [command : Operations \cup {None}, tilt : Tilts, calibrated : BOOLEAN]
  BY DEF Inv, TypeOK, DrivenUnderCommand, Sound
<1>3. /\ Sound(ctx')
      /\ ctx.calibrated => ctx'.calibrated
      /\ core.command = "CALIBRATE" =>
           /\ ctx'.result = "RUNNING" =>
                ctx'.operation = "CALIBRATE" /\ (ctx'.phase = 3 => ctx'.calibrated)
           /\ ctx'.result = "OK" => ctx'.calibrated
  <2>1. CASE ctx.result # "RUNNING"
    BY <1>1, <1>2, <2>1 DEF Inv, CalibrationRuns
  <2>2. CASE ctx.result = "RUNNING" /\ (DriverFault \/ unread)
    <3>1. ctx' = Finish(ctx, "HARDWARE_ERROR")
      BY <1>1, <2>2
    <3>2. "HARDWARE_ERROR" \in {"IDLE", "RUNNING", "OK"} \cup Faults
      BY DEF Faults
    <3> QED BY <1>2, <3>1, <3>2, FinishSound
  <2>3. CASE ctx.result = "RUNNING" /\ ~DriverFault /\ ~unread
    <3>1. ctx' = MotorPoll(ctx, late)
      BY <1>1, <2>3
    <3>2. Polled(ctx, ctx')
      BY <2>3, <3>1, MotorPollSound DEF Inv
    <3> QED BY <3>2 DEF Polled, Inv, CalibrationRuns
  <2> QED BY <2>1, <2>2, <2>3
<1>4. ctx' \in Context /\ ctx'.target \in Tilts /\ AdcToTilt(ctx', Raw) \in Tilts
  <2>1. /\ ctx' \in Context /\ ctx'.adc_min \in Int /\ ctx'.adc_max \in Int
        /\ ctx'.target \in Tilts
    BY <1>3, Ranges DEF Sound, Context
  <2>2. Raw \in Int
    BY RawTyped, Ranges DEF Inv
  <2> QED BY <2>1, <2>2, AdcToTiltTyped
<1>5. /\ core' \in [command : Operations \cup {None}, tilt : Tilts, calibrated : BOOLEAN]
      /\ core'.command = IF ended THEN None ELSE core.command
      /\ core'.calibrated =>
           core.calibrated \/ (ctx'.result = "OK" /\ core.command = "CALIBRATE")
  BY <1>1, <1>2, <1>4
<1>6. TypeOK'
  <2>1. flash' \in {None} \cup [min : Readings, max : Readings, adc : BOOLEAN,
                                calibrated : BOOLEAN]
    <3>1. CASE flash' = flash
      BY <3>1 DEF Inv, TypeOK
    <3>2. CASE \E save \in Saves : Save(save)
      BY <1>4, <1>5, <3>2, SavedTyped DEF Inv
    <3> QED BY <1>1, <3>1, <3>2
  <2> QED BY <1>1, <1>4, <1>5, <2>1 DEF Inv, TypeOK, Plant
<1>7. DrivenUnderCommand' /\ CalibrationRuns'
  <2>1. DrivenUnderCommand'
    BY <1>1, <1>3, <1>5 DEF DrivenUnderCommand, Sound
  <2>2. CASE ended
    BY <1>5, <2>1, <2>2, CalibrateIsSome DEF CalibrationRuns
  <2>3. CASE ~ended
    BY <1>3, <1>5, <2>1, <2>3 DEF CalibrationRuns
  <2> QED BY <2>1, <2>2, <2>3
<1>8. CalibratedAgree'
  BY <1>3, <1>5 DEF Inv, CalibratedAgree
<1> QED BY <1>6, <1>7, <1>8 DEF Inv

LEMMA StopInv == ASSUME Inv, Stop PROVE Inv'
<1>1. /\ ctx' = MotorStop(ctx) /\ core' = [core EXCEPT !.command = None]
      /\ UNCHANGED <<flash, plant>> /\ ctx \in Context
  BY DEF Stop, Inv, TypeOK
<1>2. ctx' \in Context /\ ctx'.direction = 0 /\ ctx'.calibrated = ctx.calibrated
  BY <1>1, Ranges DEF MotorStop, Context
<1>3. /\ core' \in [command : Operations \cup {None}, tilt : Tilts, calibrated : BOOLEAN]
      /\ core'.command = None /\ core'.calibrated = core.calibrated
  BY <1>1 DEF Inv, TypeOK
<1>4. TypeOK'
  BY <1>1, <1>2, <1>3 DEF Inv, TypeOK, Plant
<1> QED BY <1>1, <1>2, <1>3, <1>4, CalibrateIsSome
        DEF Inv, DrivenUnderCommand, CalibrationRuns, CalibratedAgree

LEMMA KeepInv == ASSUME Inv, Keep PROVE Inv'
<1>1. /\ UNCHANGED <<ctx, core, plant>>
      /\ \E save \in Saves : Save(save)
  BY DEF Keep
<1>2. ctx' \in Context /\ core'.calibrated \in BOOLEAN
  BY <1>1 DEF Inv, TypeOK
<1>3. TypeOK'
  BY <1>1, <1>2, SavedTyped DEF Inv, TypeOK, Plant
<1> QED BY <1>1, <1>3 DEF Inv, DrivenUnderCommand, CalibrationRuns, CalibratedAgree

(* A restart is at rest, whatever was stored.                              *)
LEMMA RestSound ==
  ASSUME NEW stored \in {None} \cup [min : Readings, max : Readings, adc : BOOLEAN,
                                     calibrated : BOOLEAN]
  PROVE  /\ Context0(stored) \in Context /\ Context0(stored).direction = 0
         /\ Core0(stored) \in [command : Operations \cup {None}, tilt : Tilts,
                               calibrated : BOOLEAN]
         /\ Core0(stored).command = None
         /\ Core0(stored).calibrated => Context0(stored).calibrated
<1>2. "SELF_TEST" \in Operations /\ "IDLE" \in {"IDLE", "RUNNING", "OK"} \cup Faults
  BY DEF Operations
<1>3. CASE stored = None
  BY Ranges, <1>2, <1>3 DEF Context0, Core0, Context
<1>4. CASE stored # None
  <2>1. stored \in [min : Readings, max : Readings, adc : BOOLEAN, calibrated : BOOLEAN]
    BY <1>4
  <2> QED BY Ranges, <1>2, <1>4, <2>1 DEF Context0, Core0, Context
<1> QED BY <1>3, <1>4

LEMMA RestartInv == ASSUME Inv, Restart PROVE Inv'
<1>1. ctx' = Context0(flash) /\ core' = Core0(flash) /\ UNCHANGED <<flash, plant>>
  BY DEF Restart
<1>2. flash \in {None} \cup [min : Readings, max : Readings, adc : BOOLEAN,
                             calibrated : BOOLEAN]
  BY DEF Inv, TypeOK
<1>3. /\ ctx' \in Context /\ ctx'.direction = 0
      /\ core' \in [command : Operations \cup {None}, tilt : Tilts, calibrated : BOOLEAN]
      /\ core'.command = None
      /\ core'.calibrated => ctx'.calibrated
  BY <1>1, <1>2, RestSound
<1>4. TypeOK'
  BY <1>1, <1>3 DEF Inv, TypeOK, Plant
<1> QED BY <1>3, <1>4, CalibrateIsSome
        DEF Inv, DrivenUnderCommand, CalibrationRuns, CalibratedAgree

LEMMA PlantInv == ASSUME Inv, Turn \/ Disturb PROVE Inv'
<1>1. UNCHANGED <<ctx, core, flash>> /\ plant' \in Plant
  BY DEF Turn, Disturb, Inv, TypeOK, Plant
<1> QED BY <1>1 DEF Inv, TypeOK, DrivenUnderCommand, CalibrationRuns, CalibratedAgree

LEMMA InitInv == Init => Inv
<1> SUFFICES ASSUME Init PROVE Inv
  OBVIOUS
<1>1. /\ flash = None /\ ctx = Context0(flash) /\ core = Core0(flash)
      /\ plant \in Plant
  BY MotorAssumption DEF Init, Plant
<1>2. /\ ctx \in Context /\ ctx.direction = 0
      /\ core \in [command : Operations \cup {None}, tilt : Tilts, calibrated : BOOLEAN]
      /\ core.command = None
      /\ core.calibrated => ctx.calibrated
  BY <1>1, RestSound
<1>3. TypeOK
  BY <1>1, <1>2 DEF TypeOK
<1> QED BY <1>2, <1>3, CalibrateIsSome
        DEF Inv, DrivenUnderCommand, CalibrationRuns, CalibratedAgree

LEMMA NextInv == Inv /\ [Next]_motorVars => Inv'
<1> SUFFICES ASSUME Inv, [Next]_motorVars PROVE Inv'
  OBVIOUS
<1>1. CASE UNCHANGED motorVars
  BY <1>1 DEF motorVars, Inv, TypeOK, Plant, DrivenUnderCommand, CalibrationRuns,
              CalibratedAgree
<1>2. CASE Next
  BY <1>2, StartInv, PollInv, StopInv, KeepInv, RestartInv, PlantInv DEF Next, PollAny
<1> QED BY <1>1, <1>2

LEMMA Invariance == Spec => []Inv
BY InitInv, NextInv, PTL DEF Spec

-----------------------------------------------------------------------------
(* Positions stay within the limits of the antenna and readings within     *)
(* those of the ADC (adc_to_tilt, motor_poll_callback).                    *)
THEOREM TypeCorrect == Spec => []TypeOK
<1>1. Inv => TypeOK
  BY DEF Inv
<1> QED BY <1>1, Invariance, PTL

(* The outputs of the driver are on only for a command that runs, for any  *)
(* actuator and whatever goes wrong (motor_drive, motor_fail,              *)
(* motor_stop_callback).                                                   *)
THEOREM MotorUnderCommand == Spec => []DrivenUnderCommand
<1>1. Inv => DrivenUnderCommand
  BY DEF Inv
<1> QED BY <1>1, Invariance, PTL

(* The core calls the antenna calibrated only when the ADC is              *)
(* (complete_tcc, main).                                                   *)
THEOREM CalibrationAgrees == Spec => []CalibratedAgree
<1>1. Inv => CalibratedAgree
  BY DEF Inv
<1> QED BY <1>1, Invariance, PTL

-----------------------------------------------------------------------------
(* The course of the motor: which way its outputs point in each phase.     *)

Course(c) ==
  /\ c.operation = "SELF_TEST" => c.direction = 0
  /\ c.operation = "CALIBRATE" /\ c.result = "RUNNING" =>
       /\ c.phase # 0
       /\ c.phase = 1 => c.direction = -1
       /\ c.phase = 2 => c.direction = 1

Clear(c) == ~(c.direction < 0 /\ LimitMin) /\ ~(c.direction > 0 /\ LimitMax)

(* How a poll leaves a motor: on its course, and clear of the limits.      *)
Steered(c) ==
  /\ c.result \in {"RUNNING", "OK"} \cup Faults
  /\ Course(c)
  /\ c.result = "RUNNING" /\ ~(LimitMin /\ LimitMax) => Clear(c)

LEMMA WholeShare ==
  ASSUME NEW span \in Nat, span # 0, NEW range \in Nat
  PROVE  (span * range) \div span = range
<1>1. PICK q \in Int : q = (span * range) \div span
  OBVIOUS
<1>2. span * q <= span * range /\ span * range < span * q + span
  BY <1>1
<1>3. ~(q < range)
  BY <1>2
<1>4. ~(q > range)
  BY <1>2
<1> QED BY <1>1, <1>3, <1>4

(* At the upper end of the range that was just measured the position is    *)
(* the maximum, so that the way back leads away from the limit.            *)
LEMMA UpperEndIsMaxTilt ==
  ASSUME NEW c, NEW raw \in Int, c.adc_min \in Int, c.adc_max = raw, c.adc_min # raw
  PROVE  AdcToTilt(c, raw) = MaxTilt
<1> DEFINE span  == Distance(c.adc_max, c.adc_min)
           above == IF c.adc_max > c.adc_min THEN raw - c.adc_min ELSE c.adc_min - raw
           range == MaxTilt - MinTilt
<1>1. MinTilt \in Int /\ MaxTilt \in Int /\ MinTilt < MaxTilt /\ range \in Nat
  <2>1. MinTilt \in Int /\ MaxTilt \in Int /\ MinTilt < MaxTilt
    BY MotorAssumption
  <2> QED BY <2>1
<1>2. span \in Nat /\ span # 0 /\ above = span
  <2>1. PICK low \in Int : low = c.adc_min
    OBVIOUS
  <2>2. span = IF raw < low THEN low - raw ELSE raw - low
    BY <2>1 DEF Distance
  <2>3. above = IF raw > low THEN raw - low ELSE low - raw
    BY <2>1
  <2>4. raw # low
    BY <2>1
  <2> HIDE DEF span, above
  <2> QED BY <2>2, <2>3, <2>4
<1>3. AdcToTilt(c, raw) =
        LET tilt == MinTilt + (above * range) \div span IN
        IF span = 0 \/ tilt < MinTilt THEN MinTilt
        ELSE IF tilt > MaxTilt THEN MaxTilt ELSE tilt
  BY DEF AdcToTilt
<1>4. (above * range) \div span = range
  <2> HIDE DEF span, above, range
  <2> QED BY <1>1, <1>2, WholeShare
<1>5. MinTilt + range = MaxTilt
  BY <1>1
<1> HIDE DEF span, above, range
<1> QED BY <1>1, <1>2, <1>3, <1>4, <1>5

LEMMA FinishSteered ==
  ASSUME NEW c \in Context, NEW result \in {"OK"} \cup Faults
  PROVE  Steered(Finish(c, result)) /\ Finish(c, result).result = result
<1>1. /\ Finish(c, result).result = result /\ result # "RUNNING"
      /\ Finish(c, result).direction = 0
  BY DEF Finish, Context, Faults
<1> QED BY <1>1 DEF Steered, Course

LEMMA ApproachSteered ==
  ASSUME NEW c \in Context, c.result = "RUNNING", Course(c),
         NEW target, NEW late \in BOOLEAN
  PROVE  Steered(Approach(c, target, late))
<1>1. "OK" \in {"OK"} \cup Faults /\ "ACTUATOR_JAM" \in {"OK"} \cup Faults
      /\ "MOTOR_JAM" \in {"OK"} \cup Faults
  BY DEF Faults
<1>2. ~AtLimit(c) => Steered(c)
  BY DEF AtLimit, Steered, Clear
<1> QED BY <1>1, <1>2, FinishSteered DEF Approach

LEMMA ReachesMaxSteered ==
  ASSUME TypeOK, NEW c \in Context, c.result = "RUNNING", c.operation = "CALIBRATE",
         LimitMax
  PROVE  Steered(ReachesMax(c))
<1> DEFINE measured == [c EXCEPT !.adc_max = Raw, !.calibrated = TRUE, !.phase = 3]
           current == AdcToTilt(measured, Raw)
           back == Drive(measured, -1)
<1>1. measured \in Context /\ measured.adc_max = Raw /\ measured.adc_min = c.adc_min
      /\ measured.result = "RUNNING" /\ measured.operation = "CALIBRATE" /\ measured.phase = 3
  BY RawTyped, Ranges DEF Context
<1>2. "OK" \in {"OK"} \cup Faults /\ "HARDWARE_ERROR" \in {"OK"} \cup Faults
  BY DEF Faults
<1>3. CASE Distance(Raw, c.adc_min) < MinimumSpan
  BY <1>2, <1>3, FinishSteered DEF ReachesMax
<1>4. CASE ~(Distance(Raw, c.adc_min) < MinimumSpan) /\ Near(current, c.back)
  <2>1. ReachesMax(c) = Finish(measured, "OK")
    BY <1>4 DEF ReachesMax
  <2> HIDE DEF measured
  <2> QED BY <1>1, <1>2, <2>1, FinishSteered
<1>5. CASE ~(Distance(Raw, c.adc_min) < MinimumSpan) /\ ~Near(current, c.back)
  <2>1. Raw \in Int /\ c.adc_min \in Int /\ c.back \in Tilts
    BY RawTyped, Ranges DEF Context
  <2>2. c.adc_min # Raw
    <3>1. Travel \in Nat /\ MinimumSpan \in 1 .. Travel
      BY MotorAssumption
    <3>2. MinimumSpan \in Nat /\ MinimumSpan >= 1
      BY <3>1
    <3> QED BY <1>5, <2>1, <3>2 DEF Distance
  <2>3. ReachesMax(c) = Drive(measured, Towards(current, c.back))
    BY <1>5 DEF ReachesMax
  <2> HIDE DEF measured
  <2>4. current = MaxTilt
    BY <1>1, <2>1, <2>2, UpperEndIsMaxTilt
  <2>5. Towards(current, c.back) = -1
    <3>1. MinTilt \in Int /\ MaxTilt \in Int
      BY MotorAssumption
    <3> QED BY <2>1, <2>4, <3>1 DEF Towards, Tilts
  <2>6. /\ ReachesMax(c) = back
        /\ back.result = "RUNNING" /\ back.operation = "CALIBRATE"
        /\ back.phase = 3 /\ back.direction = -1
    BY <1>1, <2>3, <2>5 DEF Drive, Context
  <2> HIDE DEF back
  <2> QED BY <2>6 DEF Steered, Course, Clear
<1> QED BY <1>3, <1>4, <1>5

LEMMA MotorPollSteered ==
  ASSUME TypeOK, ctx.result = "RUNNING", Course(ctx), NEW late \in BOOLEAN
  PROVE  Steered(MotorPoll(ctx, late))
<1> DEFINE moved == Distance(Raw, ctx.last) >= Noticed
           seen  == IF moved THEN [ctx EXCEPT !.last = Raw] ELSE ctx
           stuck == late /\ ~moved
           d     == MotorPoll(ctx, late)
<1> SUFFICES Steered(d)
  OBVIOUS
<1>1. ctx \in Context /\ Raw \in Readings
  BY RawTyped DEF TypeOK
<1>2. /\ seen \in Context /\ seen.result = "RUNNING"
      /\ seen.operation = ctx.operation /\ seen.phase = ctx.phase
      /\ seen.direction = ctx.direction
  BY <1>1 DEF Context
<1>3. Course(seen) /\ stuck \in BOOLEAN
  <2> HIDE DEF seen
  <2> QED BY <1>2 DEF Course
<1>4. "OK" \in {"OK"} \cup Faults /\ "MOTOR_JAM" \in {"OK"} \cup Faults
  BY DEF Faults
<1>5. ctx.operation \in Operations
  BY <1>1 DEF Context
<1>6. Clear(seen) => Steered(seen)
  <2> HIDE DEF seen
  <2> QED BY <1>2, <1>3 DEF Steered
<1>7. CASE ctx.operation = "SELF_TEST"
  <2>1. d = IF late THEN Finish(seen, "OK") ELSE seen
    BY <1>7 DEF MotorPoll
  <2>2. Clear(seen)
    <3> HIDE DEF seen
    <3> QED BY <1>2, <1>7 DEF Clear, Course
  <2> HIDE DEF d, seen
  <2> QED BY <1>2, <1>4, <1>6, <2>1, <2>2, FinishSteered
<1>8. CASE \/ ctx.operation = "SET_TILT"
           \/ ctx.operation = "CALIBRATE" /\ ctx.phase = 3
  <2>1. d = Approach(seen, ctx.target, stuck) \/ d = Approach(seen, ctx.back, stuck)
    BY <1>8 DEF MotorPoll
  <2> HIDE DEF d, seen, stuck
  <2> QED BY <1>2, <1>3, <2>1, ApproachSteered
<1>9. CASE ctx.operation = "CALIBRATE" /\ ctx.phase = 1 /\ LimitMin
  <2> DEFINE low == [seen EXCEPT !.adc_min = Raw, !.phase = 2]
  <2>1. d = Drive(low, 1)
    BY <1>9 DEF MotorPoll
  <2>2. /\ d.result = "RUNNING" /\ d.operation = "CALIBRATE"
        /\ d.phase = 2 /\ d.direction = 1
    <3> HIDE DEF seen
    <3> QED BY <1>1, <1>2, <1>9, <2>1 DEF Context, Drive
  <2> HIDE DEF d
  <2> QED BY <1>9, <2>2 DEF Steered, Course, Clear
<1>10. CASE ctx.operation = "CALIBRATE" /\ ctx.phase = 2 /\ LimitMax
  <2>1. d = ReachesMax(seen)
    BY <1>10 DEF MotorPoll
  <2> HIDE DEF d, seen
  <2> QED BY <1>2, <1>10, <2>1, ReachesMaxSteered
<1>11. CASE /\ ctx.operation = "CALIBRATE" /\ ctx.phase # 3
            /\ ~(ctx.phase = 1 /\ LimitMin) /\ ~(ctx.phase = 2 /\ LimitMax)
  <2>1. d = IF stuck THEN Finish(seen, "MOTOR_JAM") ELSE seen
    BY <1>11 DEF MotorPoll
  <2>2. \/ ctx.phase = 1 /\ ctx.direction = -1 /\ ~LimitMin
        \/ ctx.phase = 2 /\ ctx.direction = 1 /\ ~LimitMax
    <3>1. ctx.phase \in {0, 1, 2, 3}
      BY <1>1 DEF Context
    <3> QED BY <1>11, <3>1 DEF Course
  <2>3. Clear(seen)
    <3> HIDE DEF seen
    <3> QED BY <1>2, <2>2 DEF Clear
  <2> HIDE DEF d, seen, stuck
  <2> QED BY <1>2, <1>4, <1>6, <2>1, <2>3, FinishSteered
<1>12. ctx.operation = "SELF_TEST" \/ ctx.operation = "SET_TILT" \/ ctx.operation = "CALIBRATE"
  BY <1>5 DEF Operations
<1> HIDE DEF d
<1> QED BY <1>7, <1>8, <1>9, <1>10, <1>11, <1>12

LEMMA MotorStartCourse ==
  ASSUME TypeOK, NEW operation \in Operations, NEW target \in Tilts
  PROVE  LET d == MotorStart(ctx, operation, target)
         IN  Course(d) /\ d.result \in {"RUNNING", "OK"}
<1> DEFINE current == AdcToTilt(ctx, Raw)
           begun   == [ctx EXCEPT !.operation = operation, !.result = "RUNNING",
                                  !.target = target, !.last = Raw, !.phase = 1]
           aside   == [begun EXCEPT !.back = current]
           d       == MotorStart(ctx, operation, target)
<1> SUFFICES Course(d) /\ d.result \in {"RUNNING", "OK"}
  OBVIOUS
<1>1. ctx \in Context
  BY DEF TypeOK
<1> HIDE DEF current
<1>2. CASE operation = "CALIBRATE"
  <2>1. d = Drive(aside, -1)
    BY <1>2 DEF MotorStart, current
  <2>2. d.phase = 1 /\ d.direction = -1 /\ d.result = "RUNNING" /\ d.operation = "CALIBRATE"
    <3> HIDE DEF d
    <3> QED BY <1>1, <1>2, <2>1 DEF Drive, Context
  <2> HIDE DEF d
  <2> QED BY <2>2 DEF Course
<1>3. CASE operation = "SELF_TEST"
  <2>1. d = Drive(begun, 0)
    BY <1>3 DEF MotorStart
  <2>2. d.direction = 0 /\ d.result = "RUNNING" /\ d.operation = "SELF_TEST"
    <3> HIDE DEF d
    <3> QED BY <1>1, <1>3, <2>1 DEF Drive, Context
  <2> HIDE DEF d
  <2> QED BY <2>2 DEF Course
<1>4. CASE operation = "SET_TILT"
  <2>1. d = Finish(begun, "OK") \/ d = Drive(begun, Towards(current, target))
    BY <1>4 DEF MotorStart, current
  <2>2. d.result \in {"RUNNING", "OK"} /\ d.operation = "SET_TILT"
    <3> HIDE DEF d
    <3> QED BY <1>1, <1>4, <2>1 DEF Drive, Finish, Context
  <2> HIDE DEF d
  <2> QED BY <2>2 DEF Course
<1> QED BY <1>2, <1>3, <1>4 DEF Operations

CourseKept == Course(ctx)

LEMMA NextCourse == Inv /\ CourseKept /\ [Next]_motorVars => CourseKept'
<1> SUFFICES ASSUME Inv, Course(ctx), [Next]_motorVars PROVE Course(ctx')
  BY DEF CourseKept
<1>1. TypeOK /\ ctx \in Context
  BY DEF Inv, TypeOK
<1>2. ASSUME NEW operation \in Operations, NEW target \in Tilts, Start(operation, target)
      PROVE  Course(ctx')
  BY <1>1, <1>2, MotorStartCourse DEF Start
<1>3. ASSUME NEW unread \in BOOLEAN, NEW late \in BOOLEAN, Poll(unread, late)
      PROVE  Course(ctx')
  <2>1. "HARDWARE_ERROR" \in {"OK"} \cup Faults
    BY DEF Faults
  <2> QED BY <1>1, <1>3, <2>1, FinishSteered, MotorPollSteered DEF Poll, Steered
<1>4. CASE Stop
  <2>1. ctx'.direction = 0 /\ ctx'.result = "IDLE"
    BY <1>1, <1>4 DEF Stop, MotorStop, Context
  <2> QED BY <2>1 DEF Course
<1>5. CASE Restart
  BY <1>5 DEF Restart, Context0, Course
<1>6. CASE Keep \/ Turn \/ Disturb \/ UNCHANGED motorVars
  BY <1>6 DEF Keep, Turn, Disturb, motorVars
<1> QED BY <1>2, <1>3, <1>4, <1>5, <1>6 DEF Next, PollAny

LEMMA CourseInvariance == Spec => [](Inv /\ CourseKept)
<1>1. Init => CourseKept
  BY DEF Init, Context0, Course, CourseKept
<1> QED BY <1>1, InitInv, NextInv, NextCourse, PTL DEF Spec

(* No poll leaves the motor driving into an active limit switch: the two   *)
(* ends of a calibration turn it round, a move that meets one ends         *)
(* (motor_poll_callback).                                                  *)
THEOREM LimitsAreKept == Spec => NeverIntoLimit
<1>1. Inv /\ CourseKept /\ [Next]_motorVars =>
        [PollAny /\ core'.command # None /\ ~(LimitMin /\ LimitMax)
           => ~(ctx'.direction < 0 /\ LimitMin) /\ ~(ctx'.direction > 0 /\ LimitMax)]_motorVars
  <2> SUFFICES ASSUME Inv, Course(ctx), NEW unread \in BOOLEAN, NEW late \in BOOLEAN,
                      Poll(unread, late), core'.command # None, ~(LimitMin /\ LimitMax)
               PROVE  Clear(ctx')
    BY DEF CourseKept, PollAny, Clear
  <2>1. ctx'.result = "RUNNING"
    BY DEF Poll
  <2>2. /\ ctx.result = "RUNNING"
        /\ ctx' = Finish(ctx, "HARDWARE_ERROR") \/ ctx' = MotorPoll(ctx, late)
    BY <2>1 DEF Poll
  <2>3. TypeOK /\ ctx \in Context /\ "HARDWARE_ERROR" \in {"OK"} \cup Faults
    BY DEF Inv, TypeOK, Faults
  <2> QED BY <2>1, <2>2, <2>3, FinishSteered, MotorPollSteered DEF Steered
<1> QED BY <1>1, CourseInvariance, PTL DEF Spec, NeverIntoLimit

-----------------------------------------------------------------------------
(* The board and what the core expects of a motor. *)

LEMMA ContractStep ==
  Inv /\ CourseKept /\ Inv' /\ [Next]_motorVars => [Contract!Next]_(Contract!contractVars)
<1> SUFFICES ASSUME Inv, Course(ctx), Inv', [Next]_motorVars
             PROVE  Contract!Next \/ (ctx'.result = ctx.result /\ core'.tilt = core.tilt)
  BY DEF CourseKept, Contract!contractVars
<1>1. /\ TypeOK /\ ctx \in Context /\ core'.tilt \in Tilts
      /\ core \in [command : Operations \cup {None}, tilt : Tilts, calibrated : BOOLEAN]
  BY DEF Inv, TypeOK
<1>2. ASSUME NEW operation \in Operations, NEW target \in Tilts, Start(operation, target)
      PROVE  Contract!Start
  <2>1. ctx.result # "RUNNING" /\ ctx'.result \in {"RUNNING", "OK"}
    BY <1>1, <1>2, MotorStartCourse DEF Start
  <2>2. core'.tilt = core.tilt
    BY <1>1, <1>2 DEF Start
  <2> QED BY <2>1, <2>2 DEF Contract!Start
<1>3. ASSUME NEW unread \in BOOLEAN, NEW late \in BOOLEAN, Poll(unread, late)
      PROVE  Contract!Poll \/ Contract!Complete
               \/ (ctx'.result = ctx.result /\ core'.tilt = core.tilt)
  <2>1. CASE ctx.result = "RUNNING"
    <3>1. ctx' = Finish(ctx, "HARDWARE_ERROR") \/ ctx' = MotorPoll(ctx, late)
      BY <1>3, <2>1 DEF Poll
    <3>2. "HARDWARE_ERROR" \in {"OK"} \cup Faults
      BY DEF Faults
    <3>3. ctx'.result \in {"RUNNING", "OK"} \cup Faults
      BY <1>1, <2>1, <3>1, <3>2, FinishSteered, MotorPollSteered DEF Steered
    <3> QED BY <1>1, <2>1, <3>3 DEF Contract!Poll
  <2>2. CASE ctx.result # "RUNNING"
    <3>1. ctx' = ctx
      BY <1>3, <2>2 DEF Poll
    <3>2. ctx.result # "OK" => core'.tilt = core.tilt
      BY <1>1, <1>3, <2>2, <3>1 DEF Poll
    <3> QED BY <1>1, <3>1, <3>2 DEF Contract!Complete
  <2> QED BY <2>1, <2>2
<1>4. CASE Stop \/ Restart
  <2> SUFFICES ctx'.result = "IDLE"
    BY <1>1 DEF Contract!Stop, Contract!Next
  <2>1. CASE Stop
    BY <1>1, <2>1 DEF Stop, MotorStop, Context
  <2>2. CASE Restart
    BY <2>2 DEF Restart, Context0
  <2> QED BY <1>4, <2>1, <2>2
<1>5. CASE Keep \/ Turn \/ Disturb \/ UNCHANGED motorVars
  BY <1>5 DEF Keep, Turn, Disturb, motorVars
<1> QED BY <1>2, <1>3, <1>4, <1>5 DEF Next, PollAny, Contract!Next

(* The safety half of KeepsContract: every step of the board is one that   *)
(* the core expects of a motor, or changes nothing it sees                 *)
(* (motor_start_callback, motor_poll_callback, motor_stop_callback).       *)
THEOREM ContractIsKept ==
  Spec => Contract!Init /\ [][Contract!Next]_(Contract!contractVars)
<1>1. Init => Contract!Init
  BY Ranges DEF Init, Context0, Core0, Contract!Init
<1> QED BY <1>1, CourseInvariance, ContractStep, PTL DEF Spec
=============================================================================
