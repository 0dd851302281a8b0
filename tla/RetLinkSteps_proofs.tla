-------------------------- MODULE RetLinkSteps_proofs --------------------------
(***************************************************************************)
(* The action properties of RetLink, for every primary and every platform: *)
(* a running command is never replaced, and a marked change of an alarm is *)
(* never forgotten.  As in RetLink_proofs there is a lemma for each        *)
(* operator that changes a device; here it relates the device before to    *)
(* the one after.                                                          *)
(***************************************************************************)
EXTENDS RetLink_proofs

(* A record with the fields these lemmas are about.                        *)
HasFields(d) ==
  {"tcc", "alarm_changed", "alarm_active", "alarm_subscribed", "l7_queue",
   "storage", "dirty", "config", "motor", "transfer_active", "outstanding",
   "pending", "reset_after_i_ack"} \subseteq DOMAIN d

SameAlarms(d, x) ==
  /\ x.alarm_changed = d.alarm_changed /\ x.alarm_active = d.alarm_active
  /\ x.alarm_subscribed = d.alarm_subscribed

(* A command may end, and nothing else happens to it.                      *)
CommandKept(d, x) == d.tcc # None => x.tcc \in {None, d.tcc}

(* No mark is lost, but with the subscription.                             *)
MarksKept(d, x) ==
  \/ ~x.alarm_subscribed
  \/ \A s \in Sources : d.alarm_changed[s] \subseteq x.alarm_changed[s]

Calm(d, x)  == HasFields(x) /\ x.tcc = d.tcc /\ SameAlarms(d, x)
Quietly(d, x) == CommandKept(d, x) /\ MarksKept(d, x)

LEMMA DeviceFields == ASSUME NEW d \in Device PROVE HasFields(d)
BY DEF Device, HasFields

LEMMA CalmTransitive ==
  ASSUME NEW d, NEW x, NEW y, Calm(d, x), Calm(x, y)
  PROVE  Calm(d, y)
BY DEF Calm, SameAlarms

LEMMA CalmQuietly == ASSUME NEW d, NEW x, Calm(d, x) PROVE Quietly(d, x)
BY DEF Calm, SameAlarms, Quietly, CommandKept, MarksKept

-----------------------------------------------------------------------------
(* Layer 7. *)

LEMMA QueueL7Calm ==
  ASSUME NEW d, HasFields(d), NEW m
  PROVE  Calm(d, QueueL7(d, m))
BY DEF HasFields, QueueL7, Calm, SameAlarms

LEMMA AnswerCalm ==
  ASSUME NEW d, HasFields(d), NEW req, NEW code, NEW value, NEW alarms
  PROVE  Calm(d, QueueOk(d, req, value, alarms)) /\ Calm(d, QueueError(d, req, code))
BY QueueL7Calm DEF QueueOk, QueueError

LEMMA PersistCalm ==
  ASSUME NEW d, HasFields(d), NEW save
  PROVE  Calm(d, Persist(d, save))
BY DEF HasFields, Persist, Calm, SameAlarms

LEMMA SaveAndAnswerCalm ==
  ASSUME NEW d, HasFields(d), NEW req, NEW e
  PROVE  Calm(d, SaveAndAnswer(d, req, e))
<1>1. Calm(d, Persist(d, e.save)) /\ HasFields(Persist(d, e.save))
  BY PersistCalm DEF Calm
<1> QED BY <1>1, AnswerCalm, CalmTransitive DEF SaveAndAnswer

(* complete_tcc leaves no command.                                         *)
LEMMA CompleteTccQuietly ==
  ASSUME NEW d \in Device, d.tcc # None, NEW y, Calm(d, y),
         NEW result \in MotorStates \ {"IDLE", "RUNNING"}, NEW e
  PROVE  /\ CompleteTcc(y, result, e).tcc = None
         /\ SameAlarms(d, CompleteTcc(y, result, e))
<1> DEFINE req   == TccRequest(y.tcc)
           ended == [y EXCEPT !.tcc = None]
           moved == [ended EXCEPT !.config.tilt[y.tcc.ant] = y.tcc.target]
           limit == [ended EXCEPT !.config.calibrated[y.tcc.ant] = TRUE]
           Done(x) == x.tcc = None /\ SameAlarms(d, x)
<1>1. HasFields(y) /\ y.tcc = d.tcc /\ SameAlarms(d, y)
  BY DEF Calm
<1>2. /\ HasFields(ended) /\ HasFields(moved) /\ HasFields(limit)
      /\ Done(ended) /\ Done(moved) /\ Done(limit)
  BY <1>1 DEF HasFields, SameAlarms
<1>3. ASSUME NEW z, HasFields(z), Done(z), NEW x, Calm(z, x)
      PROVE  Done(x)
  BY <1>3 DEF Calm, SameAlarms
<1>4. y.tcc.type \in {"SELF_TEST", "CALIBRATE", "SET_TILT"}
  BY <1>1 DEF Device, Tcc
<1>5. \/ CompleteTcc(y, result, e) = QueueError(ended, req, result)
      \/ CompleteTcc(y, result, e) = QueueOk(ended, req, 0, ActiveAlarms(y, 0))
      \/ CompleteTcc(y, result, e) = SaveAndAnswer(moved, req, e)
      \/ CompleteTcc(y, result, e) = SaveAndAnswer(limit, req, e)
  BY <1>4 DEF CompleteTcc
<1> HIDE DEF req, ended, moved, limit, Done
<1>6. Done(CompleteTcc(y, result, e))
  BY <1>2, <1>3, <1>5, AnswerCalm, SaveAndAnswerCalm
<1> QED BY <1>6 DEF Done

LEMMA PollTccQuietly ==
  ASSUME NEW d \in Device, NEW e \in PollEnvironment
  PROVE  CommandKept(d, PollTcc(d, e)) /\ SameAlarms(d, PollTcc(d, e))
<1> DEFINE stopped == [d EXCEPT !.motor = "IDLE"]
           moved   == [d EXCEPT !.motor = e.motor,
                                !.config.tilt[d.tcc.ant] = e.position]
<1>1. HasFields(d) /\ Calm(d, d)
  BY DeviceFields DEF Calm, SameAlarms
<1>2. Calm(d, stopped) /\ Calm(d, moved)
  BY <1>1 DEF HasFields, Calm, SameAlarms
<1>3. /\ "MOTOR_JAM" \in MotorStates \ {"IDLE", "RUNNING"}
      /\ e.motor # "RUNNING" => e.motor \in MotorStates \ {"IDLE", "RUNNING"}
      /\ d.motor \in MotorStates
  BY DEF PollEnvironment, MotorStates, Faults, Device
<1>4. CASE PollTcc(d, e) \in {d, moved}
  BY <1>1, <1>2, <1>4 DEF Calm, CommandKept
<1>5. CASE /\ d.tcc # None
           /\ \E y \in {stopped, moved, d}, result \in MotorStates \ {"IDLE", "RUNNING"} :
                PollTcc(d, e) = CompleteTcc(y, result, e)
  BY <1>1, <1>2, <1>5, CompleteTccQuietly DEF CommandKept
<1> HIDE DEF stopped, moved
<1>6. \/ PollTcc(d, e) \in {d, moved}
      \/ /\ d.tcc # None
         /\ \/ PollTcc(d, e) = CompleteTcc(stopped, "MOTOR_JAM", e)
            \/ e.motor # "RUNNING" /\ PollTcc(d, e) = CompleteTcc(moved, e.motor, e)
            \/ d.motor \notin {"IDLE", "RUNNING"} /\ PollTcc(d, e) = CompleteTcc(d, d.motor, e)
  BY DEF PollTcc, stopped, moved
<1> QED BY <1>3, <1>4, <1>5, <1>6

(* The procedures that keep the alarms and need the motor or the storage.  *)
LEMMA StartTccAlarms ==
  ASSUME NEW d, HasFields(d), NEW req, NEW type, NEW a, NEW target, NEW e
  PROVE  SameAlarms(d, StartTcc(d, req, type, a, target, e))
<1>1. SameAlarms(d, QueueError(d, req, "HARDWARE_ERROR"))
  BY AnswerCalm DEF Calm
<1> QED BY <1>1 DEF StartTcc, SameAlarms, HasFields

LEMMA SendConfigurationCalm ==
  ASSUME NEW d, HasFields(d), NEW req, NEW e
  PROVE  Calm(d, SendConfiguration(d, req, e))
<1> DEFINE a     == AntennaOf(req)
           more  == (req.arg = MaxSegment)
           clear == [d EXCEPT !.transfer_active[a] = FALSE, !.config.length[a] = 0]
           begun == IF d.transfer_active[a] THEN d ELSE [d EXCEPT !.config.length[a] = 0]
           total == begun.config.length[a] + req.arg
           kept  == [begun EXCEPT !.transfer_active[a]   = more,
                                  !.config.length[a]     = total,
                                  !.config.configured[a] = ~more]
<1>1. Calm(d, clear) /\ HasFields(clear)
  BY DEF HasFields, Calm, SameAlarms
<1>2. Calm(d, begun) /\ HasFields(begun)
  BY DEF HasFields, Calm, SameAlarms
<1>3. Calm(d, kept) /\ HasFields(kept)
  <2> HIDE DEF begun, more, total, a
  <2> QED BY <1>2 DEF HasFields, Calm, SameAlarms
<1>4. \/ \E code : SendConfiguration(d, req, e) = QueueError(clear, req, code)
      \/ SendConfiguration(d, req, e) = SaveAndAnswer(kept, req, e)
  BY DEF SendConfiguration
<1> HIDE DEF clear, kept
<1> QED BY <1>1, <1>3, <1>4, AnswerCalm, SaveAndAnswerCalm, CalmTransitive

(* An answer after a quiet change is quiet.                                *)
LEMMA QuietThenCalm ==
  ASSUME NEW d, NEW x, NEW y, Quietly(d, x), Calm(x, y)
  PROVE  Quietly(d, y)
BY DEF Calm, SameAlarms, Quietly, CommandKept, MarksKept

(* The procedures that touch the alarms: they add marks, or end the        *)
(* subscription.                                                           *)
LEMMA AlarmProceduresQuietly ==
  ASSUME NEW d \in Device, NEW req
  PROVE  /\ Quietly(d, ResetSoftware(d, req))
         /\ Quietly(d, AlarmSubscribe(d, req))
         /\ \A s \in Sources : Quietly(d, QueueOk(ClearAlarms(d, s), req, 0, {}))
<1>1. HasFields(d)
  BY DeviceFields
<1>2. Quietly(d, ResetSoftware(d, req))
  <2> DEFINE y == [d EXCEPT !.motor            = "IDLE",
                            !.alarm_active     = [s \in Sources |-> {}],
                            !.alarm_changed    = [s \in Sources |-> {}],
                            !.tcc              = None,
                            !.transfer_active  = [a \in Antennas |-> FALSE],
                            !.alarm_subscribed = FALSE,
                            !.l7_queue         = <<>>]
             x == QueueOk(y, req, 0, {})
  <2>1. HasFields(y) /\ y.tcc = None /\ ~y.alarm_subscribed
    BY <1>1 DEF HasFields
  <2>2. ResetSoftware(d, req) = [x EXCEPT !.reset_after_i_ack = TRUE]
    BY DEF ResetSoftware
  <2> HIDE DEF y
  <2>3. Calm(y, x)
    BY <2>1, AnswerCalm
  <2> HIDE DEF x
  <2>4. HasFields(x) /\ x.tcc = None /\ ~x.alarm_subscribed
    BY <2>1, <2>3 DEF Calm, SameAlarms
  <2> QED BY <2>2, <2>4 DEF HasFields, Quietly, CommandKept, MarksKept
<1>3. Quietly(d, AlarmSubscribe(d, req))
  <2> DEFINE y == [d EXCEPT !.alarm_subscribed = TRUE,
                            !.alarm_changed = [s \in Sources |-> @[s] \cup d.alarm_active[s]]]
  <2>1. HasFields(y) /\ Quietly(d, y)
    BY <1>1 DEF HasFields, Quietly, CommandKept, MarksKept
  <2>2. AlarmSubscribe(d, req) = QueueOk(y, req, 0, {})
    BY DEF AlarmSubscribe
  <2> HIDE DEF y
  <2> QED BY <2>1, <2>2, AnswerCalm, QuietThenCalm
<1>4. ASSUME NEW s \in Sources PROVE Quietly(d, QueueOk(ClearAlarms(d, s), req, 0, {}))
  <2> DEFINE y == ClearAlarms(d, s)
  <2>1. HasFields(y) /\ y.tcc = d.tcc
    BY <1>1 DEF HasFields, ClearAlarms
  <2>2. \A t \in Sources : d.alarm_changed[t] \subseteq y.alarm_changed[t]
    BY DEF Device, ClearAlarms
  <2> HIDE DEF y
  <2>3. Quietly(d, y)
    BY <2>1, <2>2 DEF Quietly, CommandKept, MarksKept
  <2> QED BY <2>1, <2>3, AnswerCalm, QuietThenCalm DEF y
<1> QED BY <1>2, <1>3, <1>4

LEMMA ExecuteQuietly ==
  ASSUME NEW d, GoodDevice(d), NEW req \in Askable,
         req.shape \notin {"short", "long"}, Refusal(d, req) = "OK",
         NEW e \in Environment
  PROVE  Quietly(d, Execute(d, req, e))
<1> DEFINE p == req.proc
           a == AntennaOf(req)
           x == Execute(d, req, e)
<1>1. d \in Device /\ HasFields(d) /\ req \in Request /\ req.ant \in Nat /\ 0 \in Sources
  BY DeviceFields, DeviceAssumption
  DEF Askable, GoodDevice, Unsaved, Typed, Request, Sources
<1>2. /\ d.tcc # None => p \in AllowedDuringTcc
      /\ p \in CommonProcedures \cup SingleProcedures
                 \cup (MultiProcedures \ {"AntennaAlarmIndication"})
      /\ NamesAntenna(req) => a \in Antennas
  BY <1>1, NotRefused
<1>3. CASE p \in {"ResetSoftware", "AlarmSubscribe"}
  BY <1>1, <1>3, AlarmProceduresQuietly DEF Execute
<1>4. CASE p \in {"ClearActiveAlarms", "AntennaClearAlarms"}
  <2>1. p = "AntennaClearAlarms" => a \in Sources
    BY <1>1, <1>2, DeviceAssumption DEF NamesAntenna, MultiProcedures, Antennas, Sources
  <2>2. x = QueueOk(ClearAlarms(d, IF p = "ClearActiveAlarms" THEN 0 ELSE a), req, 0, {})
    BY <1>4 DEF Execute
  <2> QED BY <1>1, <1>4, <2>1, <2>2, AlarmProceduresQuietly
<1>5. CASE p \in {"GetAlarmStatus", "AntennaGetAlarms", "GetInformation", "AntennaCount",
                  "ReadUserData", "GetDeviceData", "AntennaGetDeviceData",
                  "GetTilt", "AntennaGetTilt"}
  <2>1. \E value, alarms : x = QueueOk(d, req, value, alarms)
    BY <1>5 DEF Execute
  <2> QED BY <1>1, <2>1, AnswerCalm, CalmQuietly
<1>6. CASE p \in {"WriteUserData", "SetDeviceData", "AntennaSetDeviceData"}
  <2>1. \E y : Calm(d, y) /\ x = SaveAndAnswer(y, req, e)
    <3> DEFINE y == [d EXCEPT !.config.user = req.arg]
               z == [d EXCEPT !.config.field[a] = req.arg]
    <3>1. Calm(d, y) /\ Calm(d, z)
      BY <1>1 DEF HasFields, Calm, SameAlarms
    <3>2. x = SaveAndAnswer(y, req, e) \/ x = SaveAndAnswer(z, req, e)
      BY <1>6 DEF Execute
    <3> HIDE DEF x, y, z
    <3> QED BY <3>1, <3>2
  <2> QED BY <2>1, SaveAndAnswerCalm, CalmTransitive, CalmQuietly DEF Calm
<1>7. CASE p \in {"SelfTest", "Calibrate", "AntennaCalibrate", "SetTilt", "AntennaSetTilt"}
  <2>1. d.tcc = None
    BY <1>2, <1>7 DEF AllowedDuringTcc
  <2>2. \E type, b, target : x = StartTcc(d, req, type, b, target, e)
    BY <1>7 DEF Execute
  <2>3. SameAlarms(d, x)
    BY <1>1, <2>2, StartTccAlarms
  <2> QED BY <2>1, <2>3 DEF SameAlarms, Quietly, CommandKept, MarksKept
<1>8. CASE p \in {"SendConfiguration", "AntennaSendConfiguration"}
  BY <1>1, <1>8, SendConfigurationCalm, CalmQuietly DEF Execute
<1> QED
  BY <1>2, <1>3, <1>4, <1>5, <1>6, <1>7, <1>8
  DEF CommonProcedures, SingleProcedures, MultiProcedures

LEMMA HandleL7Quietly ==
  ASSUME NEW d, GoodDevice(d), NEW req \in Askable, req.shape # "long",
         NEW e \in Environment
  PROVE  Quietly(d, HandleL7(d, req, e))
<1>1. HasFields(d) /\ Calm(d, d)
  BY DeviceFields DEF GoodDevice, Unsaved, Typed, Calm, SameAlarms
<1>2. CASE req.shape # "short" /\ Refusal(d, req) = "OK"
  BY <1>2, ExecuteQuietly DEF HandleL7
<1>3. CASE ~(req.shape # "short" /\ Refusal(d, req) = "OK")
  BY <1>1, <1>3, AnswerCalm, CalmQuietly DEF HandleL7
<1> QED BY <1>2, <1>3

-----------------------------------------------------------------------------
(* Indications. *)

(* The queue tells of alarm c of source s, as it stands.                   *)
Told(q, d, s, c) ==
  \E i \in DOMAIN q : Reports(q[i], s, c, c \in d.alarm_active[s])

(* Indications are queued behind what the queue holds, and a mark is only  *)
(* gone if it is told of.                                                  *)
Indicated(d, x) ==
  /\ x \in Device /\ x.tcc = d.tcc /\ x.alarm_active = d.alarm_active
  /\ x.alarm_subscribed = d.alarm_subscribed
  /\ \A i \in DOMAIN d.l7_queue : /\ i \in DOMAIN x.l7_queue
                                  /\ x.l7_queue[i] = d.l7_queue[i]
  /\ \A s \in Sources : \A c \in d.alarm_changed[s] \ x.alarm_changed[s] :
       Told(x.l7_queue, x, s, c)

LEMMA IndicatedTransitive ==
  ASSUME NEW d, NEW x, NEW y, Indicated(d, x), Indicated(x, y)
  PROVE  Indicated(d, y)
<1> SUFFICES ASSUME NEW s \in Sources, NEW c \in d.alarm_changed[s] \ y.alarm_changed[s]
             PROVE  Told(y.l7_queue, y, s, c)
  BY DEF Indicated
<1>1. CASE c \in x.alarm_changed[s]
  BY <1>1 DEF Indicated
<1>2. CASE c \notin x.alarm_changed[s]
  <2>1. PICK i \in DOMAIN x.l7_queue : Reports(x.l7_queue[i], s, c, c \in x.alarm_active[s])
    BY <1>2 DEF Indicated, Told
  <2> QED BY <2>1 DEF Indicated, Told
<1> QED BY <1>1, <1>2

(* queue_changed_alarms marks nothing as told that found no room.          *)
LEMMA QueueChangedAlarmsIndicated ==
  ASSUME NEW d, GoodDevice(d), NEW s \in Nat
  PROVE  Indicated(d, QueueChangedAlarms(d, s))
<1> DEFINE proc == IF s = 0 THEN "AlarmIndication" ELSE "AntennaAlarmIndication"
           m == Reply(proc, s, "INDICATION", 0, ChangedAlarms(d, s))
           q == Append(d.l7_queue, m)
           x == QueueChangedAlarms(d, s)
<1>1. d \in Device /\ x \in Device /\ HasFields(d)
  BY QueueChangedAlarmsGood, DeviceFields DEF GoodDevice, Unsaved, Typed
<1>2. CASE x = d
  BY <1>1, <1>2 DEF Indicated
<1>3. CASE x # d
  <2>1. /\ s \in Sources
        /\ x = [QueueL7(d, m) EXCEPT !.alarm_changed[s] = {}]
        /\ Len(d.l7_queue) < QueueDepth
    BY <1>3 DEF QueueChangedAlarms
  <2>2. QueueL7(d, m) = [d EXCEPT !.l7_queue = q]
    BY <2>1 DEF QueueL7
  <2>3. /\ m.code = "INDICATION" /\ m.ant = s /\ m.alarms = ChangedAlarms(d, s)
    BY DEF Reply
  <2> HIDE DEF m, x
  <2>4. d.l7_queue \in Seq(Answer)
    BY <1>1 DEF Device
  <2>5. /\ DOMAIN q = 1 .. Len(d.l7_queue) + 1
        /\ q[Len(d.l7_queue) + 1] = m
        /\ \A i \in DOMAIN d.l7_queue : i \in DOMAIN q /\ q[i] = d.l7_queue[i]
    <3>1. d.l7_queue \in Seq(Answer \cup {m}) /\ m \in Answer \cup {m}
      BY <2>4
    <3> QED BY <3>1, AppendProperties
  <2> HIDE DEF q
  <2>6. /\ x.l7_queue = q /\ x.tcc = d.tcc /\ x.alarm_active = d.alarm_active
        /\ x.alarm_subscribed = d.alarm_subscribed
        /\ \A t \in Sources : t # s => x.alarm_changed[t] = d.alarm_changed[t]
    BY <1>1, <2>1, <2>2 DEF Device, HasFields
  <2>7. ASSUME NEW c \in d.alarm_changed[s] PROVE Told(q, x, s, c)
    <3>1. Len(d.l7_queue) \in Nat
      BY <2>4, LenProperties
    <3>2. <<c, c \in d.alarm_active[s]>> \in ChangedAlarms(d, s)
      <4>1. CASE c \in d.alarm_active[s]
        BY <2>7, <4>1 DEF ChangedAlarms
      <4>2. CASE c \notin d.alarm_active[s]
        <5>1. (c \in d.alarm_active[s]) = FALSE
          BY <4>2
        <5>2. <<c, FALSE>> \in ChangedAlarms(d, s)
          BY <2>7, <4>2 DEF ChangedAlarms
        <5> QED BY <5>1, <5>2
      <4> QED BY <4>1, <4>2
    <3> QED BY <2>3, <2>5, <2>6, <3>1, <3>2 DEF Told, Reports
  <2>8. ASSUME NEW t \in Sources, NEW c \in d.alarm_changed[t] \ x.alarm_changed[t]
        PROVE  Told(q, x, t, c)
    BY <2>6, <2>7, <2>8
  <2>9. \A t \in Sources : \A c \in d.alarm_changed[t] \ x.alarm_changed[t] :
          Told(x.l7_queue, x, t, c)
    BY <2>6, <2>8
  <2>10. \A i \in DOMAIN d.l7_queue : /\ i \in DOMAIN x.l7_queue
                                       /\ x.l7_queue[i] = d.l7_queue[i]
    BY <2>5, <2>6
  <2>11. /\ x \in Device /\ x.tcc = d.tcc /\ x.alarm_active = d.alarm_active
         /\ x.alarm_subscribed = d.alarm_subscribed
    BY <1>1, <2>6
  <2>12. Indicated(d, x)
    BY <2>9, <2>10, <2>11 DEF Indicated
  <2> QED BY <2>12 DEF x
<1> QED BY <1>2, <1>3

LEMMA QueueAlarmIndicationsIndicated ==
  ASSUME NEW d, GoodDevice(d)
  PROVE  Indicated(d, QueueAlarmIndications(d))
<1> DEFINE d0 == QueueChangedAlarms(d, 0)
           d1 == QueueChangedAlarms(d0, 1)
           d2 == QueueChangedAlarms(d1, 2)
           d3 == QueueChangedAlarms(d2, 3)
           d4 == QueueChangedAlarms(d3, 4)
<1>1. Indicated(d, d)
  BY DEF Indicated, GoodDevice, Unsaved, Typed
<1>2. \/ QueueAlarmIndications(d) = d
      \/ QueueAlarmIndications(d) = d0
      \/ QueueAlarmIndications(d) = d4
  BY DEF QueueAlarmIndications
<1>3. GoodDevice(d0) /\ Indicated(d, d0)
  BY QueueChangedAlarmsGood, QueueChangedAlarmsIndicated
<1> HIDE DEF d0
<1>4. GoodDevice(d1) /\ Indicated(d, d1)
  BY <1>3, QueueChangedAlarmsGood, QueueChangedAlarmsIndicated, IndicatedTransitive
<1> HIDE DEF d1
<1>5. GoodDevice(d2) /\ Indicated(d, d2)
  BY <1>4, QueueChangedAlarmsGood, QueueChangedAlarmsIndicated, IndicatedTransitive
<1> HIDE DEF d2
<1>6. GoodDevice(d3) /\ Indicated(d, d3)
  BY <1>5, QueueChangedAlarmsGood, QueueChangedAlarmsIndicated, IndicatedTransitive
<1> HIDE DEF d3
<1>7. Indicated(d, d4)
  BY <1>6, QueueChangedAlarmsIndicated, IndicatedTransitive
<1> QED BY <1>1, <1>2, <1>3, <1>7

-----------------------------------------------------------------------------
(* Layer 2. *)

(* What AlarmChangeReported says of a step.                                *)
Remembered(d, x) ==
  \A s \in Sources, c \in Alarms :
    c \in d.alarm_changed[s] \ x.alarm_changed[s] =>
      ~x.alarm_subscribed \/ Told(Undelivered(x), x, s, c)

Kept(d, x) == CommandKept(d, x) /\ Remembered(d, x)

LEMMA QuietlyKept == ASSUME NEW d, NEW x, Quietly(d, x) PROVE Kept(d, x)
BY DEF Quietly, MarksKept, Kept, Remembered

LEMMA CalmKept == ASSUME NEW d, NEW x, Calm(d, x) PROVE Kept(d, x)
BY CalmQuietly, QuietlyKept

LEMMA ScheduleCalm ==
  ASSUME NEW d, HasFields(d), NEW frame
  PROVE  Calm(d, Schedule(d, frame))
BY DEF Schedule, HasFields, Calm, SameAlarms

LEMMA AcknowledgeCalm ==
  ASSUME NEW d, HasFields(d), NEW nr
  PROVE  Calm(d, Acknowledge(d, nr))
BY DEF Acknowledge, HasFields, Calm, SameAlarms

(* What the queue tells of is not delivered yet.                           *)
LEMMA ToldUndelivered ==
  ASSUME NEW x \in Device, NEW s, NEW c, Told(x.l7_queue, x, s, c)
  PROVE  Told(Undelivered(x), x, s, c)
<1> DEFINE q == x.l7_queue
           first == IF x.outstanding = None THEN <<>> ELSE <<x.outstanding.msg>>
<1>1. q \in Seq(Answer) /\ Undelivered(x) = first \o q
  BY DEF Device, Undelivered
<1>2. PICK i \in DOMAIN q : Reports(q[i], s, c, c \in x.alarm_active[s])
  BY DEF Told
<1>3. i \in 1 .. Len(q)
  BY <1>1
<1> DEFINE S == Answer \cup {x.outstanding.msg}
           n == Len(first)
<1>4. first \in Seq(S) /\ n \in Nat
  <2>1. <<>> \in Seq(S) /\ Len(<<>>) = 0
    BY EmptySeq
  <2>2. <<x.outstanding.msg>> \in Seq(S) /\ Len(<<x.outstanding.msg>>) = 1
    OBVIOUS
  <2> QED BY <2>1, <2>2
<1>5. q \in Seq(S)
  BY <1>1, SeqMonotonic
<1> HIDE DEF first, q, S
<1>6. /\ first \o q \in Seq(S) /\ Len(first \o q) = n + Len(q)
      /\ \A j \in 1 .. n + Len(q) : (first \o q)[j] = IF j <= n THEN first[j] ELSE q[j - n]
  BY <1>4, <1>5, ConcatProperties
<1> HIDE DEF n
<1>7. Len(q) \in Nat /\ DOMAIN (first \o q) = 1 .. n + Len(q)
  BY <1>5, <1>6, LenProperties
<1>8. n + i \in 1 .. n + Len(q) /\ (first \o q)[n + i] = q[i]
  BY <1>3, <1>4, <1>6, <1>7
<1> QED BY <1>1, <1>2, <1>7, <1>8 DEF Told, q

LEMMA SendNextTells ==
  ASSUME NEW d, Good(d), d.outstanding = None, d.l7_queue # <<>>
  PROVE  /\ SendNext(d).tcc = d.tcc /\ SameAlarms(d, SendNext(d))
         /\ \A s, c : Told(d.l7_queue, d, s, c) => Told(Undelivered(SendNext(d)), SendNext(d), s, c)
<1> DEFINE frame == [type |-> "I", ns |-> d.send_sequence,
                     nr |-> d.receive_sequence, msg |-> Head(d.l7_queue)]
           rest  == Tail(d.l7_queue)
           x     == SendNext(d)
<1>1. d \in Device /\ d.l7_queue \in Seq(Answer)
  BY DEF Good, GoodDevice, Unsaved, Typed, Device
<1>2. x.tcc = d.tcc /\ SameAlarms(d, x) /\ x.outstanding = frame /\ x.l7_queue = rest
  BY <1>1 DEF Device, SendNext, SameAlarms
<1>3. Head(d.l7_queue) \in Answer /\ rest \in Seq(Answer) /\ d.l7_queue = <<Head(d.l7_queue)>> \o rest
  BY <1>1, HeadTailProperties
<1>4. frame # None /\ frame.msg = Head(d.l7_queue)
  <2>1. frame \in Frame
    BY <1>1, <1>3 DEF Frame, Device
  <2> QED BY <2>1, NoneAssumption
<1> HIDE DEF x, frame, rest
<1>5. Undelivered(x) = d.l7_queue
  BY <1>2, <1>3, <1>4 DEF Undelivered
<1> QED BY <1>2, <1>5 DEF Told, SameAlarms, x

LEMMA RespondToPollKept ==
  ASSUME NEW d, NEW y, Good(y), y.link_state = "CONNECTED", Quietly(d, y)
  PROVE  Kept(d, RespondToPoll(y))
<1> DEFINE q == QueueAlarmIndications(y)
           x == RespondToPoll(y)
           Tells(z) == /\ z.tcc = q.tcc /\ SameAlarms(q, z)
                       /\ \A s, c : Told(q.l7_queue, q, s, c)
                                      => Told(Undelivered(z), z, s, c)
<1>1. Indicated(y, q)
  BY QueueAlarmIndicationsIndicated DEF Good
<1>2. Good(q) /\ q.link_state = "CONNECTED"
  BY QueueAlarmIndicationsGood, KeepsHandled, HandledGood DEF Good
<1>3. q \in Device
  BY <1>2 DEF Good, GoodDevice, Unsaved, Typed
<1> HIDE DEF q
<1>4. ASSUME NEW frame \in Frame
      PROVE  Tells(Schedule(q, frame))
  <2> DEFINE z == Schedule(q, frame)
  <2>1. z \in Device /\ z.tcc = q.tcc /\ SameAlarms(q, z) /\ z.l7_queue = q.l7_queue
    BY <1>3 DEF Device, Schedule, SameAlarms
  <2> HIDE DEF z
  <2>2. \A s, c : Told(q.l7_queue, q, s, c) => Told(z.l7_queue, z, s, c)
    BY <2>1 DEF Told, SameAlarms
  <2>3. Tells(z)
    BY <2>1, <2>2, ToldUndelivered
  <2> QED BY <2>3 DEF z
<1>5. ASSUME q.outstanding = None, q.l7_queue # <<>>
      PROVE  Tells(SendNext(q))
  BY <1>2, <1>5, SendNextTells
<1>6. q.outstanding # None => q.outstanding \in Frame
  BY <1>3 DEF Device
<1>7. Plain("RR", q.receive_sequence) \in Frame
  BY <1>3, PlainType DEF Device
<1>8. Tells(x)
  <2> HIDE DEF Tells
  <2> QED BY <1>4, <1>5, <1>6, <1>7 DEF RespondToPoll, q
<1> HIDE DEF x
<1>9. CommandKept(d, x)
  BY <1>1, <1>8 DEF Indicated, Quietly, CommandKept
<1>10. ASSUME x.alarm_subscribed, NEW s \in Sources, NEW c \in d.alarm_changed[s] \ x.alarm_changed[s]
       PROVE  Told(Undelivered(x), x, s, c)
  <2>1. y.alarm_subscribed
    BY <1>1, <1>8, <1>10 DEF Indicated, SameAlarms
  <2>2. c \in y.alarm_changed[s] \ q.alarm_changed[s]
    BY <1>8, <1>10, <2>1 DEF Quietly, MarksKept, SameAlarms
  <2> QED BY <1>1, <1>8, <2>2 DEF Indicated
<1> QED BY <1>9, <1>10 DEF Kept, Remembered, x

LEMMA RespondKept ==
  ASSUME NEW d, HasFields(d), NEW type
  PROVE  Kept(d, Respond(d, type)) /\ Kept(d, Reject(d))
BY ScheduleCalm, CalmKept DEF Respond, Reject

LEMMA ProcessIKept ==
  ASSUME NEW d, Good(d), d.link_state = "CONNECTED",
         NEW f, f.req \in Askable, NEW e \in Environment
  PROVE  Kept(d, ProcessI(d, f, e))
<1> DEFINE acked    == Acknowledge(d, f.nr)
           counted  == [acked EXCEPT !.receive_sequence = Plus1(@)]
           accepted == HandleL7(counted, f.req, e)
<1>1. HasFields(d)
  BY DeviceFields DEF Good, GoodDevice, Unsaved, Typed
<1>2. Good(acked) /\ acked.link_state = "CONNECTED" /\ Calm(d, acked)
  BY <1>1, AcknowledgeGood, AcknowledgeCalm
<1>3. Kept(d, Reject(d)) /\ Kept(d, Reject(acked)) /\ Kept(d, acked)
  BY <1>1, <1>2, RespondKept, ScheduleCalm, CalmTransitive, CalmKept DEF Calm, Reject, Respond
<1>4. Kept(d, RespondToPoll(acked))
  BY <1>2, CalmQuietly, RespondToPollKept
<1>5. ASSUME f.req.shape # "long"
      PROVE  Kept(d, accepted) /\ Kept(d, RespondToPoll(accepted))
  <2>1. Good(accepted) /\ accepted.link_state = "CONNECTED" /\ Good(counted)
    BY <1>2, <1>5, AcceptedGood, CountedGood
  <2>2. Calm(acked, counted)
    <3> HIDE DEF acked
    <3> QED BY <1>2 DEF Calm, SameAlarms, HasFields
  <2>3. Calm(d, counted)
    BY <1>2, <2>2, CalmTransitive
  <2> HIDE DEF counted
  <2>4. Quietly(counted, accepted)
    BY <1>5, <2>1, HandleL7Quietly DEF Good
  <2>5. Quietly(d, accepted)
    BY <2>3, <2>4 DEF Calm, SameAlarms, Quietly, CommandKept, MarksKept
  <2> QED BY <2>1, <2>5, QuietlyKept, RespondToPollKept
<1>6. \/ ProcessI(d, f, e) \in {Reject(d), Reject(acked), acked, RespondToPoll(acked)}
      \/ /\ f.req.shape # "long"
         /\ ProcessI(d, f, e) \in {accepted, RespondToPoll(accepted)}
  <2> HIDE DEF acked
  <2> QED BY DEF ProcessI, acked
<1> HIDE DEF acked, accepted
<1> QED BY <1>3, <1>4, <1>5, <1>6

LEMMA ProcessSupervisoryKept ==
  ASSUME NEW d, Good(d), d.link_state = "CONNECTED", NEW f
  PROVE  Kept(d, ProcessSupervisory(d, f))
<1> DEFINE acked == Acknowledge(d, f.nr)
           ready == (f.type = "RR")
           heard == [acked EXCEPT !.remote_ready = ready]
<1>1. HasFields(d)
  BY DeviceFields DEF Good, GoodDevice, Unsaved, Typed
<1>2. Good(acked) /\ acked.link_state = "CONNECTED" /\ Calm(d, acked) /\ ready \in BOOLEAN
  BY <1>1, AcknowledgeGood, AcknowledgeCalm
<1> HIDE DEF acked, ready
<1>3. Good(heard) /\ heard.link_state = "CONNECTED"
  BY <1>2, HeardGood
<1>4. Calm(d, heard)
  BY <1>2 DEF Calm, SameAlarms, HasFields
<1> HIDE DEF heard
<1>5. Kept(d, heard) /\ Kept(d, RespondToPoll(heard)) /\ Kept(d, Reject(d))
  BY <1>1, <1>3, <1>4, CalmKept, CalmQuietly, RespondToPollKept, RespondKept
<1>6. Kept(d, Schedule(heard, heard.outstanding))
  BY <1>4, ScheduleCalm, CalmTransitive, CalmKept DEF Calm
<1> QED BY <1>5, <1>6 DEF ProcessSupervisory, heard, acked, ready

LEMMA BootKept ==
  ASSUME NEW d, NEW y, NEW e
  PROVE  Kept(d, SystemReset(y, e))
<1> DEFINE x == SystemReset(y, e)
<1>1. x.tcc = None /\ ~x.alarm_subscribed
  BY DEF SystemReset, Boot, Persist
<1> QED BY <1>1 DEF Kept, CommandKept, Remembered

LEMMA DevicePollKept ==
  ASSUME NEW d, Good(d), NEW e \in PollEnvironment
  PROVE  Kept(d, DevicePoll(d, e))
<1> DEFINE polled == PollTcc(d, e)
           sent   == [polled EXCEPT !.pending = None]
<1>1. d \in Device /\ polled \in Device
  BY PollTccGood DEF Good, GoodDevice, Unsaved, Typed
<1>2. CommandKept(d, polled) /\ SameAlarms(d, polled)
  BY <1>1, PollTccQuietly
<1> HIDE DEF polled
<1>3. sent.tcc = polled.tcc /\ SameAlarms(polled, sent)
  BY <1>1 DEF Device, SameAlarms
<1>4. Kept(d, polled) /\ Kept(d, sent)
  BY <1>2, <1>3 DEF SameAlarms, Kept, Remembered, CommandKept
<1> QED BY <1>4, BootKept DEF DevicePoll, polled

LEMMA SetAlarmKept ==
  ASSUME NEW d \in Device, NEW s \in Sources, NEW c, NEW active
  PROVE  Kept(d, SetAlarm(d, s, c, active))
<1> DEFINE x == SetAlarm(d, s, c, active)
<1>1. x.tcc = d.tcc /\ \A t \in Sources : d.alarm_changed[t] \subseteq x.alarm_changed[t]
  BY DEF Device, SetAlarm
<1> QED BY <1>1 DEF Kept, CommandKept, Remembered

(* SNRM, DISC and the XID commands leave command and alarms alone, or      *)
(* restart the device.                                                     *)
LEMMA UnnumberedKept ==
  ASSUME NEW d, HasFields(d)
  PROVE  Kept(d, ProcessSnrm(d)) /\ Kept(d, ProcessDisc(d))
<1>1. ASSUME NEW state
      PROVE  Kept(d, Respond(ClearRuntime([d EXCEPT !.link_state = state]), "UA"))
  <2> DEFINE c == ClearRuntime([d EXCEPT !.link_state = state])
  <2>1. Calm(d, c)
    BY DEF HasFields, ClearRuntime, Calm, SameAlarms
  <2> HIDE DEF c
  <2>2. Calm(d, Respond(c, "UA"))
    BY <2>1, ScheduleCalm, CalmTransitive DEF Respond, Calm
  <2> QED BY <2>2, CalmKept DEF c
<1> QED BY <1>1 DEF ProcessSnrm, ProcessDisc

LEMMA XidKept ==
  ASSUME NEW d, HasFields(d), NEW match, NEW address, NEW broadcast, NEW e
  PROVE  /\ Kept(d, ProcessScan(d, match)) /\ Kept(d, ProcessNegotiation(d))
         /\ Kept(d, ProcessAssignment(d, match, address))
         /\ Kept(d, ProcessReset(d, broadcast, e))
<1> DEFINE assigned == [d EXCEPT !.address = address, !.link_state = "ADDRESS_ASSIGNED"]
           marked   == [d EXCEPT !.reset_after_transmit = TRUE]
<1>1. Calm(d, d) /\ Calm(d, assigned) /\ Calm(d, marked)
  BY DEF HasFields, Calm, SameAlarms
<1> HIDE DEF assigned, marked
<1>2. \A y \in {d, assigned, marked} : Kept(d, y) /\ Kept(d, Respond(y, "XID"))
  <2> SUFFICES ASSUME NEW y \in {d, assigned, marked}
               PROVE  Kept(d, y) /\ Kept(d, Respond(y, "XID"))
    OBVIOUS
  <2>1. Calm(d, y) /\ HasFields(y)
    BY <1>1 DEF Calm
  <2> QED BY <2>1, ScheduleCalm, CalmTransitive, CalmKept DEF Respond
<1> QED BY <1>2, BootKept
        DEF ProcessScan, ProcessNegotiation, ProcessAssignment, ProcessReset, assigned, marked

LEMMA StepKept == Good(dev) /\ [Next]_dev => Kept(dev, dev')
<1> SUFFICES ASSUME Good(dev), [Next]_dev PROVE Kept(dev, dev')
  OBVIOUS
<1>1. dev \in Device /\ HasFields(dev)
  BY DeviceFields DEF Good, GoodDevice, Unsaved, Typed
<1>2. Outcomes \subseteq Environment /\ PollOutcomes \subseteq PollEnvironment
  BY LinkAssumption
<1>3. CASE ReceiveI
  <2>1. PICK ns \in Numbers, nr \in Numbers, poll \in BOOLEAN, req \in Requests, e \in Outcomes :
          dev' = Connected(dev, ProcessI(dev, [type |-> "I", ns |-> ns, nr |-> nr,
                                               poll |-> poll, req |-> req], e))
    BY <1>3 DEF ReceiveI
  <2> DEFINE f == [type |-> "I", ns |-> ns, nr |-> nr, poll |-> poll, req |-> req]
  <2>2. f.req \in Askable /\ e \in Environment
    BY <1>2, RequestsAskable
  <2> HIDE DEF f
  <2>3. dev' = Connected(dev, ProcessI(dev, f, e))
    BY <2>1 DEF f
  <2> QED BY <1>1, <2>2, <2>3, ProcessIKept, RespondKept DEF Connected
<1>4. CASE ReceiveSupervisory
  BY <1>1, <1>4, ProcessSupervisoryKept, RespondKept DEF ReceiveSupervisory, Connected
<1>5. CASE ReceiveUnnumbered
  BY <1>1, <1>5, UnnumberedKept, RespondKept DEF ReceiveUnnumbered, Connected
<1>6. CASE ReceiveXid
  BY <1>1, <1>6, XidKept DEF ReceiveXid
<1>7. CASE AlarmInput
  <2>1. PICK alarm \in Raised, active \in BOOLEAN :
          dev' = SetAlarm(dev, alarm[1], alarm[2], active)
    BY <1>7 DEF AlarmInput
  <2>2. alarm[1] \in Sources
    BY LinkAssumption
  <2> QED BY <1>1, <2>1, <2>2, SetAlarmKept
<1>8. CASE Poll
  BY <1>2, <1>8, DevicePollKept DEF Poll
<1>9. CASE PowerCycle
  BY <1>9, BootKept DEF PowerCycle
<1>10. CASE UNCHANGED dev
  BY <1>10 DEF Kept, CommandKept, Remembered
<1> QED BY <1>3, <1>4, <1>5, <1>6, <1>7, <1>8, <1>9, <1>10 DEF Next

-----------------------------------------------------------------------------
(* No request, duplicate or retransmission replaces the command that runs: *)
(* handle_l7 answers BUSY, and only its end, a reset or ResetSoftware      *)
(* clears it.                                                              *)
THEOREM CommandNeverReplaced == Spec => TccNeverReplaced
<1>1. Good(dev) /\ [Next]_dev =>
        [dev.tcc # None /\ dev'.tcc # None => dev'.tcc = dev.tcc]_dev
  BY StepKept DEF Kept, CommandKept
<1> QED BY <1>1, AlwaysGood, PTL DEF Spec, TccNeverReplaced

(* A marked alarm is told of before its mark goes: a full queue, a frame   *)
(* without an acknowledgement or a primary that is not ready loses none    *)
(* (queue_changed_alarms, queue_alarm_indications).                        *)
THEOREM AlarmsAreReported == Spec => AlarmChangeReported
<1>1. Good(dev) /\ [Next]_dev =>
        [\A s \in Sources, c \in Alarms :
           c \in dev.alarm_changed[s] \ dev'.alarm_changed[s] =>
             \/ ~dev'.alarm_subscribed
             \/ \E i \in DOMAIN Undelivered(dev') :
                  Reports(Undelivered(dev')[i], s, c, c \in dev'.alarm_active[s])]_dev
  BY StepKept DEF Kept, Remembered, Told
<1> QED BY <1>1, AlwaysGood, PTL DEF Spec, AlarmChangeReported
=============================================================================
