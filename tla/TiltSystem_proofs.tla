--------------------------- MODULE TiltSystem_proofs ---------------------------
(***************************************************************************)
(* Proofs about TiltSystem: types, that a move reported as done is done,   *)
(* and that both ends count alike after a command that ended well, for any *)
(* modulus, requests pending on the line, losses, delays, cancellations    *)
(* and restarts, with the assumptions of RetLink and SystemAssumption.     *)
(*                                                                         *)
(* The device comes first, as what its handlers do to a device: Sound(d)   *)
(* is Good(d) of RetLink_proofs with the contents of its answers.  Then    *)
(* the controller, then both ends and the line between them in a session.  *)
(***************************************************************************)
EXTENDS TiltSystem, RetLink_proofs

-----------------------------------------------------------------------------
(* Sequence numbers. *)

LEMMA Successor ==
  ASSUME NEW n \in Numbers
  PROVE  /\ Plus1(n)  = IF n = Modulus - 1 THEN 0 ELSE n + 1
         /\ Minus1(n) = IF n = 0 THEN Modulus - 1 ELSE n - 1
         /\ Plus1(n) \in Numbers /\ Minus1(n) \in Numbers
<1>1. Modulus \in Nat /\ Modulus >= 2 /\ n \in 0 .. Modulus - 1
  BY LinkAssumption DEF Numbers
<1>2. Plus1(n)  = IF n = Modulus - 1 THEN 0 ELSE n + 1
  <2>1. CASE n = Modulus - 1
    <3>1. n + 1 = Modulus /\ Modulus % Modulus = 0
      BY <1>1, <2>1
    <3> QED BY <2>1, <3>1 DEF Plus1
  <2>2. CASE n # Modulus - 1
    <3>1. (n + 1) % Modulus = n + 1
      BY <1>1, <2>2
    <3> QED BY <2>2, <3>1 DEF Plus1
  <2> QED BY <2>1, <2>2
<1>3. Minus1(n) = IF n = 0 THEN Modulus - 1 ELSE n - 1
  <2>1. CASE n = 0
    <3>1. n + Modulus - 1 = Modulus - 1 /\ (Modulus - 1) % Modulus = Modulus - 1
      BY <1>1, <2>1
    <3> QED BY <2>1, <3>1 DEF Minus1
  <2>2. CASE n # 0
    <3>1. (n + Modulus - 1) % Modulus = n - 1
      BY <1>1, <2>2
    <3> QED BY <2>2, <3>1 DEF Minus1
  <2> QED BY <2>1, <2>2
<1> QED BY <1>1, <1>2, <1>3 DEF Numbers

(* The number of the request a requests ago, index being the next one's.   *)
Back(index, a) == IF a <= index THEN index - a ELSE index + Modulus - a

LEMMA BackNumbers ==
  ASSUME NEW index \in Numbers, NEW a \in 0 .. Modulus
  PROVE  /\ Back(index, a) \in Numbers
         /\ a < Modulus => /\ Minus1(Back(index, a)) = Back(index, a + 1)
                           /\ Back(Plus1(index), a + 1) = Back(index, a)
         /\ a > 0 => Plus1(Back(index, a)) = Back(index, a - 1)
         /\ Back(index, 0) = index /\ Back(index, 1) = Minus1(index)
<1>1. Modulus \in Nat /\ Modulus >= 2 /\ index \in 0 .. Modulus - 1
  BY LinkAssumption DEF Numbers
<1>2. Back(index, a) \in Numbers
  BY <1>1 DEF Back, Numbers
<1> QED BY <1>1, <1>2, Successor DEF Back, Numbers

LEMMA BackInjective ==
  ASSUME NEW index \in Numbers, NEW a \in 0 .. Modulus, NEW b \in 0 .. Modulus,
         Back(index, a) = Back(index, b)
  PROVE  \/ a = b
         \/ a = 0 /\ b = Modulus
         \/ a = Modulus /\ b = 0
<1>1. Modulus \in Nat /\ Modulus >= 2 /\ index \in 0 .. Modulus - 1
  BY LinkAssumption DEF Numbers
<1> QED BY <1>1 DEF Back

(* Requests that are counted and not sent. *)
LEMMA BackSkipped ==
  ASSUME NEW index \in Numbers, NEW n \in 0 .. Modulus - 1, NEW a \in 0 .. Modulus,
         a + n <= Modulus
  PROVE  /\ (index + n) % Modulus \in Numbers
         /\ Back((index + n) % Modulus, a + n) = Back(index, a)
<1>1. Modulus \in Nat /\ Modulus >= 2 /\ index \in 0 .. Modulus - 1
  BY LinkAssumption DEF Numbers
<1>2. CASE index + n < Modulus
  <2>1. (index + n) % Modulus = index + n
    BY <1>1, <1>2
  <2> QED BY <1>1, <1>2, <2>1 DEF Back, Numbers
<1>3. CASE ~(index + n < Modulus)
  <2>1. (index + n) % Modulus = index + n - Modulus
    BY <1>1, <1>3
  <2> QED BY <1>1, <1>3, <2>1 DEF Back, Numbers
<1> QED BY <1>2, <1>3

-----------------------------------------------------------------------------
(* Layer 7: what the procedures of the controller do to the answers a      *)
(* device holds, to its command and to its tilt.                           *)

(* The requests of a controller. *)
Commands == {"SelfTest", "Calibrate", "SetTilt"}

Asked ==
  {r \in Askable :
     /\ r.shape = "ok" /\ r.item = "writable"
     /\ r.proc \in {"AlarmSubscribe", "GetInformation", "GetTilt", "GetDeviceData",
                    "GetAlarmStatus", "ClearActiveAlarms", "SetDeviceData"}
                     \cup Commands}

(* A tilt that is told is a tilt.                                           *)
Honest(m) == m.proc = "GetTilt" /\ m.code = "OK" => m.value \in Tilts

(* The answer m comes last in the queue, or finds no room.                 *)
Gets(d, x, m) ==
  x.l7_queue = IF Len(d.l7_queue) < QueueDepth THEN Append(d.l7_queue, m)
                                               ELSE d.l7_queue

(* The antenna is at rest at tilt t, and a restart leaves it there. *)
Stands(d, t) ==
  /\ d.tcc = None
  /\ d.config.tilt[1] = t
  /\ d.storage # None /\ d.storage.tilt[1] = t

(* A request is answered, or starts a command. *)
Answers(d, x, req) ==
  /\ x.tcc = d.tcc
  /\ \E m \in Answer :
        /\ Gets(d, x, m) /\ Honest(m)
        /\ m.proc = req.proc /\ m.code # "INDICATION"
        /\ req.proc \in Commands => m.code # "OK"

Starts(d, x, req) ==
  /\ d.tcc = None /\ x.tcc # None /\ x.l7_queue = d.l7_queue
  /\ req.proc \in Commands /\ x.tcc.proc = req.proc
  /\ req.proc = "SetTilt" =>
       x.tcc.type = "SET_TILT" /\ x.tcc.ant = 1 /\ x.tcc.target = req.arg

LEMMA QueueL7Gets ==
  ASSUME NEW d \in Device, NEW m
  PROVE  Gets(d, QueueL7(d, m), m) /\ QueueL7(d, m).tcc = d.tcc
                                  /\ QueueL7(d, m).config = d.config
                                  /\ QueueL7(d, m).storage = d.storage
BY DEF QueueL7, Gets, Device

(* An answer with a code, or one that carries a value. *)
LEMMA ErrorAnswers ==
  ASSUME NEW y \in Device, NEW d, y.l7_queue = d.l7_queue, y.tcc = d.tcc,
         NEW code \in Codes \ {"INDICATION", "OK"},
         NEW req, req.proc \in Procedures, req.ant \in Nat
  PROVE  Answers(d, QueueError(y, req, code), req)
<1> DEFINE m == Reply(req.proc, AntennaOctet(req), code, 0, {})
<1>1. m \in Answer /\ Honest(m) /\ m.proc = req.proc /\ m.code = code
  <2>1. AntennaOctet(req) \in Nat
    BY DEF AntennaOctet
  <2>2. m \in Answer
    BY <2>1, ReplyType
  <2> QED BY <2>2 DEF Reply, Honest
<1> HIDE DEF m
<1>2. Gets(d, QueueL7(y, m), m) /\ QueueL7(y, m).tcc = d.tcc
  BY QueueL7Gets DEF Gets
<1> QED BY <1>1, <1>2 DEF Answers, QueueError, m

LEMMA OkAnswers ==
  ASSUME NEW y \in Device, NEW d, y.l7_queue = d.l7_queue, y.tcc = d.tcc,
         NEW value \in Int, NEW alarms \in SUBSET (Alarms \X BOOLEAN),
         NEW req, req.proc \in Procedures \ Commands, req.ant \in Nat,
         req.proc = "GetTilt" => value \in Tilts
  PROVE  Answers(d, QueueOk(y, req, value, alarms), req)
<1> DEFINE m == Reply(req.proc, AntennaOctet(req), "OK", value, alarms)
<1>1. m \in Answer /\ Honest(m) /\ m.proc = req.proc /\ m.code = "OK"
  <2>1. AntennaOctet(req) \in Nat /\ "OK" \in Codes
    BY DEF AntennaOctet, Codes
  <2>2. m \in Answer
    BY <2>1, ReplyType
  <2> QED BY <2>2 DEF Reply, Honest
<1> HIDE DEF m
<1>2. Gets(d, QueueL7(y, m), m) /\ QueueL7(y, m).tcc = d.tcc
  BY QueueL7Gets DEF Gets
<1> QED BY <1>1, <1>2 DEF Answers, QueueOk, m

LEMMA StartTccStarts ==
  ASSUME NEW d \in Device, d.tcc = None, NEW type, NEW target, NEW e,
         NEW req, req.proc \in Commands, req.ant \in Nat,
         type \in {"SELF_TEST", "CALIBRATE", "SET_TILT"}, target \in Tilts,
         req.proc = "SetTilt" => type = "SET_TILT" /\ target = req.arg
  PROVE  \/ Answers(d, StartTcc(d, req, type, 1, target, e), req)
         \/ Starts(d, StartTcc(d, req, type, 1, target, e), req)
<1> DEFINE x == StartTcc(d, req, type, 1, target, e)
<1>1. req.proc \in Procedures
  BY DEF Procedures, CommonProcedures, SingleProcedures, Commands
<1>2. CASE d.motor = "RUNNING" \/ ~e.ready
  <2>1. "HARDWARE_ERROR" \in Codes \ {"INDICATION", "OK"}
    BY DEF Codes, Faults
  <2>2. Answers(d, QueueError(d, req, "HARDWARE_ERROR"), req)
    BY <1>1, <2>1, ErrorAnswers
  <2> QED BY <1>2, <2>2 DEF StartTcc
<1>3. CASE ~(d.motor = "RUNNING" \/ ~e.ready)
  <2> DEFINE c == [type |-> type, proc |-> req.proc, ant |-> 1, target |-> target]
  <2>1. c \in Tcc
    BY <1>1, DeviceAssumption DEF Tcc, Antennas
  <2>2. c # None
    BY <2>1, NoneAssumption
  <2>3. x.tcc = c /\ x.l7_queue = d.l7_queue
    BY <1>3 DEF StartTcc, Device
  <2>4. c.proc = req.proc /\ c.type = type /\ c.ant = 1 /\ c.target = target
    OBVIOUS
  <2> HIDE DEF c, x
  <2>5. Starts(d, x, req)
    BY <2>2, <2>3, <2>4 DEF Starts
  <2> QED BY <2>5 DEF x
<1> QED BY <1>2, <1>3

LEMMA Performed ==
  ASSUME NEW d, GoodDevice(d), NEW req \in Asked, NEW e \in Environment
  PROVE  LET x == HandleL7(d, req, e)
         IN  /\ GoodDevice(x) /\ SameLink(d, x)
             /\ Answers(d, x, req) \/ Starts(d, x, req)
<1> DEFINE x == HandleL7(d, req, e)
           p == req.proc
<1>1. /\ d \in Device /\ d.config \in Config /\ req \in Request /\ req \in Askable
      /\ req.shape = "ok" /\ p \in Procedures /\ req.ant \in Nat
      /\ 1 \in Antennas /\ 0 \in Sources /\ AntennaOf(req) = 1
  BY DeviceAssumption DEF GoodDevice, Unsaved, Typed, Device, Asked, Askable, Request,
     Antennas, Sources, AntennaOf, MultiProcedures, Commands
<1>2. GoodDevice(x) /\ SameLink(d, x)
  BY <1>1, HandleL7Handled DEF Handled
<1>3. CASE Refusal(d, req) # "OK"
  <2>1. Refusal(d, req) \in Codes \ {"INDICATION", "OK"}
    <3>1. GeneralRefusal(d, req) \in Codes \ {"INDICATION"}
      BY DEF GeneralRefusal, Codes
    <3>2. AntennaRefusal(d, AntennaOf(req), TRUE) \in Codes \ {"INDICATION"}
      BY DEF AntennaRefusal, Codes
    <3>3. AntennaRefusal(d, AntennaOf(req), FALSE) \in Codes \ {"INDICATION"}
      BY DEF AntennaRefusal, Codes
    <3>4. ProcedureRefusal(d, req) \in Codes \ {"INDICATION"}
      BY <3>2, <3>3 DEF ProcedureRefusal, Codes
    <3> QED BY <1>3, <3>1, <3>4 DEF Refusal
  <2>2. Answers(d, QueueError(d, req, Refusal(d, req)), req)
    BY <1>1, <2>1, ErrorAnswers
  <2>3. x = QueueError(d, req, Refusal(d, req))
    BY <1>1, <1>3 DEF HandleL7
  <2> QED BY <1>2, <2>2, <2>3
<1>4. CASE Refusal(d, req) = "OK"
  <2>1. x = Execute(d, req, e)
    BY <1>1, <1>4 DEF HandleL7
  <2>2. CASE p \in Commands
    <3>1. d.tcc = None
      BY <1>1, <1>4, <2>2, NotRefused DEF Commands, AllowedDuringTcc
    <3>2. p = "SetTilt" => req.arg \in Tilts
      BY <1>1, <1>4, NotRefusedCommand
    <3>3. d.config.tilt[1] \in Tilts /\ MinTilt \in Tilts
      BY <1>1, DeviceAssumption DEF Config, Tilts
    <3>4. \/ p = "SelfTest" /\ x = StartTcc(d, req, "SELF_TEST", 1, d.config.tilt[1], e)
          \/ p = "Calibrate" /\ x = StartTcc(d, req, "CALIBRATE", 1, MinTilt, e)
          \/ p = "SetTilt" /\ x = StartTcc(d, req, "SET_TILT", 1, req.arg, e)
      BY <1>1, <2>1, <2>2 DEF Execute, Commands
    <3>5. Answers(d, x, req) \/ Starts(d, x, req)
      BY <1>1, <2>2, <3>1, <3>2, <3>3, <3>4, StartTccStarts
    <3> QED BY <1>2, <3>5
  <2>3. CASE p = "SetDeviceData"
    <3> DEFINE y == [d EXCEPT !.config.field[1] = req.arg]
               s == Persist(y, e.save)
    <3>1. req.arg \in Values
      BY <1>1, <2>3 DEF Askable
    <3>2. y \in Device /\ y.l7_queue = d.l7_queue /\ y.tcc = d.tcc
      <4> DEFINE c == [d.config EXCEPT !.field = [@ EXCEPT ![1] = req.arg]]
      <4>1. c \in Config
        BY <1>1, <3>1 DEF Config
      <4>2. y = [d EXCEPT !.config = c]
        BY <1>1 DEF Device
      <4> HIDE DEF c
      <4> QED BY <1>1, <4>1, <4>2 DEF Device
    <3>3. s \in Device /\ s.l7_queue = d.l7_queue /\ s.tcc = d.tcc
      <4> DEFINE store == IF e.save = "ok" THEN y.config
                          ELSE IF e.save = "failed" THEN y.storage ELSE None
                 late == e.save # "ok"
      <4>1. store \in Config \cup {None} /\ late \in BOOLEAN
        BY <3>2 DEF Device
      <4>2. s = [y EXCEPT !.storage = store, !.dirty = late]
        BY <3>2 DEF Persist, Environment, Saves, Device
      <4> HIDE DEF store, late, s, y
      <4> QED BY <3>2, <4>1, <4>2 DEF Device
    <3>4. x = IF e.save = "ok" THEN QueueOk(s, req, 0, {})
                               ELSE QueueError(s, req, "HARDWARE_ERROR")
      BY <1>1, <2>1, <2>3 DEF Execute, SaveAndAnswer
    <3> HIDE DEF s
    <3>5. "HARDWARE_ERROR" \in Codes \ {"INDICATION", "OK"}
      BY DEF Codes, Faults
    <3>6. Answers(d, QueueOk(s, req, 0, {}), req)
      BY <1>1, <2>3, <3>3, OkAnswers DEF Commands
    <3>7. Answers(d, QueueError(s, req, "HARDWARE_ERROR"), req)
      BY <1>1, <3>3, <3>5, ErrorAnswers
    <3> QED BY <1>2, <3>4, <3>6, <3>7
  <2>4. CASE p \in {"AlarmSubscribe", "ClearActiveAlarms"}
    <3> DEFINE marked == [s \in Sources |-> d.alarm_changed[s] \cup d.alarm_active[s]]
               y == IF p = "AlarmSubscribe"
                      THEN [d EXCEPT !.alarm_subscribed = TRUE, !.alarm_changed = marked]
                      ELSE ClearAlarms(d, 0)
    <3>1. y \in Device /\ y.l7_queue = d.l7_queue /\ y.tcc = d.tcc
      <4>1. marked \in [Sources -> SUBSET Alarms]
        BY <1>1 DEF Device
      <4>2. CASE p = "AlarmSubscribe"
        <5> HIDE DEF marked
        <5> QED BY <1>1, <4>1, <4>2 DEF Device
      <4>3. CASE p # "AlarmSubscribe"
        <5> DEFINE active  == [d.alarm_active EXCEPT ![0] = {}]
                   changed == [d.alarm_changed EXCEPT ![0] = @ \cup d.alarm_active[0]]
        <5>1. /\ active \in [Sources -> SUBSET Alarms]
              /\ changed \in [Sources -> SUBSET Alarms]
          BY <1>1 DEF Device
        <5>2. y = [d EXCEPT !.alarm_changed = changed, !.alarm_active = active]
          BY <1>1, <4>3 DEF ClearAlarms, Device
        <5> HIDE DEF active, changed, y
        <5> QED BY <1>1, <5>1, <5>2 DEF Device
      <4> QED BY <4>2, <4>3
    <3>2. x = QueueOk(y, req, 0, {})
      BY <1>1, <2>1, <2>4 DEF Execute, AlarmSubscribe, Device
    <3> HIDE DEF y
    <3>3. Answers(d, x, req)
      BY <1>1, <2>4, <3>1, <3>2, OkAnswers DEF Commands
    <3> QED BY <1>2, <3>3
  <2>5. CASE p \in {"GetInformation", "GetTilt", "GetDeviceData", "GetAlarmStatus"}
    <3>1. /\ d.config.tilt[1] \in Tilts /\ d.config.tilt[1] \in Int
          /\ d.config.field[1] \in Int
      <4>1. d.config.tilt[1] \in Tilts /\ d.config.field[1] \in Values
        BY <1>1 DEF Config
      <4>2. Tilts \subseteq Int /\ Values \subseteq Int
        BY DeviceAssumption DEF Tilts
      <4> QED BY <4>1, <4>2
    <3>2. ActiveAlarms(d, 0) \in SUBSET (Alarms \X BOOLEAN)
      BY <1>1, ActiveAlarmsType
    <3>3. \/ p = "GetTilt" /\ x = QueueOk(d, req, d.config.tilt[1], {})
          \/ p = "GetInformation" /\ x = QueueOk(d, req, 0, {})
          \/ p = "GetDeviceData" /\ x = QueueOk(d, req, d.config.field[1], {})
          \/ p = "GetAlarmStatus" /\ x = QueueOk(d, req, 0, ActiveAlarms(d, 0))
      BY <1>1, <2>1, <2>5 DEF Execute
    <3>4. Answers(d, x, req)
      BY <1>1, <2>5, <3>1, <3>2, <3>3, OkAnswers DEF Commands
    <3> QED BY <1>2, <3>4
  <2> QED BY <2>2, <2>3, <2>4, <2>5 DEF Asked
<1> QED BY <1>3, <1>4

(* A command that ends is answered, and answered OK only once the antenna  *)
(* is where it was sent and the stored configuration says so.              *)
Ends(d, x) ==
  /\ x.tcc = None
  /\ \E m \in Answer :
       /\ Gets(d, x, m)
       /\ m.proc = d.tcc.proc /\ m.code # "INDICATION"
       /\ m.code = "OK" /\ d.tcc.type = "SET_TILT" /\ d.tcc.ant = 1
            => Stands(x, d.tcc.target)

Polled(d, x) ==
  \/ /\ x.tcc = d.tcc /\ x.l7_queue = d.l7_queue
     /\ d.tcc = None => x = d
  \/ d.tcc # None /\ Ends(d, x)

LEMMA EndsAnswered ==
  ASSUME NEW d, NEW y \in Device, y.tcc = None, y.l7_queue = d.l7_queue,
         NEW code \in Codes \ {"INDICATION"}, NEW value \in Int,
         NEW alarms \in SUBSET (Alarms \X BOOLEAN),
         d.tcc \in Tcc, NEW x,
         x = QueueL7(y, Reply(d.tcc.proc, AntennaOctet(TccRequest(d.tcc)),
                              code, value, alarms)),
         /\ code = "OK" /\ d.tcc.type = "SET_TILT" /\ d.tcc.ant = 1
           => Stands(y, d.tcc.target)
  PROVE  Ends(d, x)
<1> DEFINE m == Reply(d.tcc.proc, AntennaOctet(TccRequest(d.tcc)), code, value, alarms)
<1>1. d.tcc.proc \in Procedures /\ AntennaOctet(TccRequest(d.tcc)) \in Nat
  BY DeviceAssumption DEF Tcc, AntennaOctet, TccRequest, Antennas
<1>2. m \in Answer /\ m.proc = d.tcc.proc /\ m.code = code
  <2>1. m \in Answer
    BY <1>1, ReplyType
  <2> QED BY <2>1 DEF Reply
<1> HIDE DEF m
<1>3. x = QueueL7(y, m)
  BY DEF m
<1>4. Gets(d, x, m) /\ x.tcc = None /\ x.config = y.config /\ x.storage = y.storage
  BY <1>3, QueueL7Gets DEF Gets
<1> QED BY <1>2, <1>4 DEF Ends, Stands

LEMMA CompleteTccEnds ==
  ASSUME NEW d \in Device, d.tcc # None, NEW result \in {"OK"} \cup Faults,
         NEW e, e.save \in Saves
  PROVE  Ends(d, CompleteTcc(d, result, e))
<1> DEFINE tcc   == d.tcc
           ended == [d EXCEPT !.tcc = None]
           x     == CompleteTcc(d, result, e)
<1>1. /\ tcc \in Tcc /\ d.config \in Config /\ tcc.ant \in Antennas /\ tcc.target \in Tilts
      /\ 0 \in Sources /\ 0 \in Int
  BY DeviceAssumption DEF Device, Tcc, Sources
<1>2. /\ ended \in Device /\ ended.tcc = None /\ ended.l7_queue = d.l7_queue
      /\ ended.config = d.config
  BY DEF Device
<1>3. /\ "OK" \in Codes \ {"INDICATION"}
      /\ "HARDWARE_ERROR" \in Codes \ {"INDICATION"}
      /\ result \in Codes \ {"INDICATION"}
  BY DEF Codes, Faults
<1>4. CASE result # "OK"
  <2>1. x = QueueL7(ended, Reply(tcc.proc, AntennaOctet(TccRequest(tcc)), result, 0, {}))
    BY <1>4 DEF CompleteTcc, QueueError, TccRequest
  <2> QED BY <1>1, <1>2, <1>3, <1>4, <2>1, EndsAnswered
<1>5. CASE result = "OK" /\ tcc.type = "SELF_TEST"
  <2>1. x = QueueL7(ended, Reply(tcc.proc, AntennaOctet(TccRequest(tcc)), "OK", 0,
                                 ActiveAlarms(d, 0)))
    BY <1>5 DEF CompleteTcc, QueueOk, TccRequest
  <2>2. ActiveAlarms(d, 0) \in SUBSET (Alarms \X BOOLEAN)
    BY <1>1, ActiveAlarmsType
  <2> QED BY <1>1, <1>2, <1>3, <1>5, <2>1, <2>2, EndsAnswered
<1>6. CASE result = "OK" /\ tcc.type \in {"SET_TILT", "CALIBRATE"}
  <2> DEFINE tilt  == [d.config EXCEPT !.tilt[tcc.ant] = tcc.target]
             calib == [d.config EXCEPT !.calibrated[tcc.ant] = TRUE]
             c == IF tcc.type = "SET_TILT" THEN tilt ELSE calib
             y == [ended EXCEPT !.config = c]
             store == IF e.save = "ok" THEN c
                      ELSE IF e.save = "failed" THEN d.storage ELSE None
             failed == (e.save # "ok")
             s == [y EXCEPT !.storage = store, !.dirty = failed]
  <2>1. tilt \in Config /\ calib \in Config
    BY <1>1 DEF Config
  <2>2. c \in Config /\ (tcc.type = "SET_TILT" /\ tcc.ant = 1 => c.tilt[1] = tcc.target)
    BY <1>1, <2>1 DEF Config
  <2>3. y = IF tcc.type = "SET_TILT"
              THEN [ended EXCEPT !.config.tilt[tcc.ant] = tcc.target]
              ELSE [ended EXCEPT !.config.calibrated[tcc.ant] = TRUE]
    BY <1>2
  <2> HIDE DEF c, tilt, calib
  <2>4. y \in Device /\ y.tcc = None /\ y.l7_queue = d.l7_queue /\ y.config = c
        /\ y.storage = d.storage
    <3>1. y \in Device
      BY <1>2, <2>2, ZenonT(30) DEF Device
    <3> QED BY <1>2, <3>1 DEF Device
  <2> HIDE DEF y, ended
  <2>5. store \in Config \cup {None} /\ failed \in BOOLEAN
    BY <2>2 DEF Device
  <2>6. s \in Device /\ s.tcc = None /\ s.l7_queue = d.l7_queue /\ s.config = c
        /\ s.storage = store
    <3> HIDE DEF store, failed
    <3>1. s = [y EXCEPT !.storage = store, !.dirty = failed] /\ y \in Device
      BY <2>4
    <3> HIDE DEF s
    <3>2. s \in Device
      BY <2>5, <3>1 DEF Device
    <3> QED BY <2>4, <3>1, <3>2 DEF Device
  <2>7. Persist(y, e.save) = s
    BY <2>4 DEF Persist, Saves, Device
  <2> HIDE DEF s
  <2>8. x = QueueL7(s, Reply(tcc.proc, AntennaOctet(TccRequest(tcc)),
                       IF e.save = "ok" THEN "OK" ELSE "HARDWARE_ERROR", 0, {}))
    <3>1. x = SaveAndAnswer(y, TccRequest(tcc), e)
      BY <1>6, <2>3 DEF CompleteTcc, ended
    <3> QED BY <2>7, <3>1 DEF SaveAndAnswer, QueueOk, QueueError, TccRequest
  <2>9. CASE e.save = "ok"
    <3>1. tcc.type = "SET_TILT" /\ tcc.ant = 1 => Stands(s, tcc.target)
      BY <2>2, <2>6, <2>9, NoneAssumption DEF Stands
    <3> QED BY <1>1, <1>3, <2>6, <2>8, <2>9, <3>1, EndsAnswered
  <2>10. CASE e.save # "ok"
    BY <1>1, <1>3, <2>6, <2>8, <2>10, EndsAnswered
  <2> QED BY <2>9, <2>10
<1> QED BY <1>1, <1>4, <1>5, <1>6 DEF Tcc

LEMMA PollTccPolled ==
  ASSUME NEW d \in Device, NEW e \in PollEnvironment
  PROVE  Polled(d, PollTcc(d, e))
<1> DEFINE stopped == [d EXCEPT !.motor = "IDLE"]
           moved   == [d EXCEPT !.motor = e.motor,
                                !.config.tilt[d.tcc.ant] = e.position]
           x == PollTcc(d, e)
<1>1. CASE d.tcc = None
  BY <1>1 DEF PollTcc, Polled
<1>2. CASE d.tcc # None
  <2>1. /\ e.save \in Saves /\ e.motor \in MotorStates \ {"IDLE"} /\ e.position \in Tilts
        /\ d.motor \in MotorStates /\ d.config \in Config /\ d.tcc \in Tcc
        /\ d.tcc.ant \in Antennas
    BY <1>2 DEF PollEnvironment, Device, Tcc
  <2>2. stopped \in Device /\ stopped.tcc = d.tcc /\ stopped.l7_queue = d.l7_queue
    BY DEF Device, MotorStates
  <2>3. moved \in Device /\ moved.tcc = d.tcc /\ moved.l7_queue = d.l7_queue
    <3> DEFINE c == [d.config EXCEPT !.tilt = [@ EXCEPT ![d.tcc.ant] = e.position]]
    <3>1. c \in Config
      BY <2>1 DEF Config
    <3>2. moved = [d EXCEPT !.motor = e.motor, !.config = c]
      BY DEF Device
    <3> HIDE DEF c, moved
    <3>3. moved \in Device
      BY <2>1, <3>1, <3>2, ZenonT(30) DEF Device
    <3> QED BY <3>2, <3>3 DEF Device
  <2>4. ASSUME NEW y \in Device, y.tcc = d.tcc, y.l7_queue = d.l7_queue,
               NEW result \in {"OK"} \cup Faults, x = CompleteTcc(y, result, e)
        PROVE  Polled(d, x)
    <3>1. Ends(y, x)
      BY <1>2, <2>1, <2>4, CompleteTccEnds
    <3>2. Ends(d, x)
      BY <2>4, <3>1 DEF Ends, Gets
    <3> QED BY <1>2, <3>2 DEF Polled
  <2>5. "MOTOR_JAM" \in {"OK"} \cup Faults
    BY DEF Faults
  <2>6. \/ x = CompleteTcc(stopped, "MOTOR_JAM", e)
        \/ x = moved \/ x = d
        \/ x = CompleteTcc(moved, e.motor, e) /\ e.motor \in {"OK"} \cup Faults
        \/ x = CompleteTcc(d, d.motor, e) /\ d.motor \in {"OK"} \cup Faults
    <3> HIDE DEF stopped, moved
    <3> QED BY <1>2, <2>1 DEF PollTcc, MotorStates, stopped, moved
  <2> HIDE DEF stopped, moved, x
  <2>7. ASSUME x = moved \/ x = d
        PROVE  Polled(d, x)
    BY <1>2, <2>3, <2>7 DEF Polled
  <2>8. Polled(d, x)
    BY <2>2, <2>3, <2>4, <2>5, <2>6, <2>7
  <2> QED BY <2>8 DEF x
<1> QED BY <1>1, <1>2

-----------------------------------------------------------------------------
(* Layer 2: answers and indications in the queue, in the slot and on their *)
(* way.                                                                    *)

HonestQueue(q) == \A i \in 1 .. Len(q) : Honest(q[i])

Honestly(f) == f # None /\ f.type = "I" => f.msg \in Answer /\ Honest(f.msg)

Truthful(d) ==
  /\ HonestQueue(d.l7_queue)
  /\ Honestly(d.pending) /\ Honestly(d.outstanding)
  /\ d.tcc # None => d.tcc.proc # "GetTilt"

(* Without a connection nothing runs and nothing is queued, and without an *)
(* address there is nothing to say.                                        *)
AtRest(d) ==
  /\ d.link_state # "CONNECTED" => d.tcc = None /\ d.l7_queue = <<>>
  /\ d.link_state = "NO_ADDRESS" => d.pending = None

(* What the whole system keeps true of its device. *)
Sound(d) == Good(d) /\ Truthful(d) /\ AtRest(d)

LEMMA GetsHonest ==
  ASSUME NEW d \in Device, HonestQueue(d.l7_queue), NEW m \in Answer, Honest(m),
         NEW x, Gets(d, x, m)
  PROVE  HonestQueue(x.l7_queue)
<1>1. d.l7_queue \in Seq(Answer)
  BY DEF Device
<1>2. /\ Len(Append(d.l7_queue, m)) = Len(d.l7_queue) + 1
      /\ \A i \in 1 .. Len(d.l7_queue) : Append(d.l7_queue, m)[i] = d.l7_queue[i]
      /\ Append(d.l7_queue, m)[Len(d.l7_queue) + 1] = m
      /\ Len(d.l7_queue) \in Nat
  BY <1>1, AppendProperties, LenProperties
<1> QED BY <1>2 DEF Gets, HonestQueue

Indicates(q) == \E i \in 1 .. Len(q) : q[i].code = "INDICATION"

(* What an indication of alarms does to the queue, and to nothing else.    *)
Notes(d, x) ==
  /\ x.tcc = d.tcc /\ x.config = d.config /\ x.storage = d.storage
  /\ HonestQueue(d.l7_queue) => HonestQueue(x.l7_queue)
  /\ x.l7_queue = d.l7_queue \/ Indicates(x.l7_queue)
  /\ Indicates(d.l7_queue) => Indicates(x.l7_queue)

LEMMA NotesTransitive ==
  ASSUME NEW d, NEW x, NEW y, Notes(d, x), Notes(x, y)
  PROVE  Notes(d, y)
BY DEF Notes

LEMMA QueueChangedAlarmsNotes ==
  ASSUME NEW d, GoodDevice(d), NEW s \in Nat
  PROVE  Notes(d, QueueChangedAlarms(d, s))
<1> DEFINE proc == IF s = 0 THEN "AlarmIndication" ELSE "AntennaAlarmIndication"
           m == Reply(proc, s, "INDICATION", 0, ChangedAlarms(d, s))
           q == Append(d.l7_queue, m)
           x == QueueChangedAlarms(d, s)
<1>1. d \in Device /\ d.l7_queue \in Seq(Answer)
  BY DEF GoodDevice, Unsaved, Typed, Device
<1>2. CASE ~(s \in Sources /\ d.alarm_changed[s] # {} /\ Len(d.l7_queue) < QueueDepth)
  BY <1>2 DEF QueueChangedAlarms, Notes
<1>3. CASE s \in Sources /\ d.alarm_changed[s] # {} /\ Len(d.l7_queue) < QueueDepth
  <2>1. m \in Answer /\ Honest(m) /\ m.code = "INDICATION"
    <3>1. proc \in Procedures /\ "INDICATION" \in Codes
      BY DEF Procedures, UnsupportedProcedures, Codes
    <3>2. ChangedAlarms(d, s) \in SUBSET (Alarms \X BOOLEAN)
      BY <1>1, <1>3 DEF ChangedAlarms, Device
    <3>3. m \in Answer
      BY <3>1, <3>2, ReplyType
    <3>4. m.proc = proc /\ m.code = "INDICATION"
      BY DEF Reply
    <3> QED BY <3>3, <3>4 DEF Honest
  <2>2. x.l7_queue = q /\ x.tcc = d.tcc /\ x.config = d.config /\ x.storage = d.storage
    <3> DEFINE y == QueueL7(d, m)
    <3>1. y = [d EXCEPT !.l7_queue = q]
      BY <1>3 DEF QueueL7
    <3>2. x = [y EXCEPT !.alarm_changed[s] = {}]
      BY <1>3 DEF QueueChangedAlarms
    <3> HIDE DEF m, y, x
    <3> QED BY <1>1, <3>1, <3>2 DEF Device
  <2> HIDE DEF m, x
  <2>3. /\ Len(q) = Len(d.l7_queue) + 1 /\ Len(d.l7_queue) \in Nat
        /\ q[Len(d.l7_queue) + 1] = m
    BY <1>1, <2>1, AppendProperties, LenProperties
  <2>4. Indicates(q)
    BY <2>1, <2>3 DEF Indicates
  <2>5. Gets(d, x, m)
    BY <1>3, <2>2 DEF Gets
  <2>6. HonestQueue(d.l7_queue) => HonestQueue(x.l7_queue)
    BY <1>1, <2>1, <2>5, GetsHonest
  <2>7. Notes(d, x)
    BY <2>2, <2>4, <2>6 DEF Notes
  <2> QED BY <2>7 DEF x
<1> QED BY <1>2, <1>3

LEMMA QueueAlarmIndicationsNotes ==
  ASSUME NEW d, GoodDevice(d)
  PROVE  Notes(d, QueueAlarmIndications(d))
<1> DEFINE d0 == QueueChangedAlarms(d, 0)
           d1 == QueueChangedAlarms(d0, 1)
           d2 == QueueChangedAlarms(d1, 2)
           d3 == QueueChangedAlarms(d2, 3)
           d4 == QueueChangedAlarms(d3, 4)
<1>1. GoodDevice(d0) /\ Notes(d, d0)
  BY QueueChangedAlarmsGood, QueueChangedAlarmsNotes
<1> HIDE DEF d0
<1>2. GoodDevice(d1) /\ Notes(d, d1)
  BY <1>1, QueueChangedAlarmsGood, QueueChangedAlarmsNotes, NotesTransitive
<1> HIDE DEF d1
<1>3. GoodDevice(d2) /\ Notes(d, d2)
  BY <1>2, QueueChangedAlarmsGood, QueueChangedAlarmsNotes, NotesTransitive
<1> HIDE DEF d2
<1>4. GoodDevice(d3) /\ Notes(d, d3)
  BY <1>3, QueueChangedAlarmsGood, QueueChangedAlarmsNotes, NotesTransitive
<1> HIDE DEF d3
<1>5. Notes(d, d4)
  BY <1>4, QueueChangedAlarmsNotes, NotesTransitive
<1> HIDE DEF d4
<1>6. QueueAlarmIndications(d) \in {d, d0, d4}
  BY DEF QueueAlarmIndications, d0, d1, d2, d3, d4
<1>7. Notes(d, d)
  BY DEF Notes
<1> QED BY <1>1, <1>5, <1>6, <1>7

(* The frame that carries the first answer of the queue.                   *)
Carried(d) ==
  [type |-> "I", ns |-> d.send_sequence, nr |-> d.receive_sequence,
   msg |-> Head(d.l7_queue)]

(* The response to a poll, when there is no alarm to tell of: the frame    *)
(* outstanding, the next answer, or RR.                                    *)
Responds(d, x) ==
  \/ /\ d.outstanding # None /\ x.pending = d.outstanding
     /\ x.l7_queue = d.l7_queue /\ x.outstanding = d.outstanding
     /\ x.send_sequence = d.send_sequence
  \/ /\ d.outstanding = None /\ d.l7_queue # <<>>
     /\ x.pending = Carried(d) /\ x.outstanding = Carried(d)
     /\ x.l7_queue = Tail(d.l7_queue)
     /\ x.send_sequence = Plus1(d.send_sequence)
  \/ /\ x.pending = Plain("RR", d.receive_sequence)
     /\ x.l7_queue = d.l7_queue /\ x.outstanding = d.outstanding
     /\ x.send_sequence = d.send_sequence

SameCommand(d, x) ==
  /\ x.tcc = d.tcc /\ x.config = d.config /\ x.storage = d.storage
  /\ x.link_state = d.link_state

LEMMA RespondsToPoll ==
  ASSUME NEW d, Good(d), d.link_state = "CONNECTED"
  PROVE  LET x == RespondToPoll(d)
         IN  /\ Good(x) /\ SameCommand(d, x)
             /\ x.receive_sequence = d.receive_sequence
             /\ Truthful(d) => Truthful(x)
             /\ ~HasIndication(x) => Responds(d, x)
<1> DEFINE q == QueueAlarmIndications(d)
           x == RespondToPoll(d)
<1>1. GoodDevice(q) /\ SameLink(d, q) /\ Notes(d, q)
  BY QueueAlarmIndicationsGood, QueueAlarmIndicationsNotes DEF Good, Keeps
<1>2. q \in Device /\ q.l7_queue \in Seq(Answer)
  BY <1>1 DEF GoodDevice, Unsaved, Typed, Device
<1>3. Good(x)
  BY RespondToPollGood
<1> HIDE DEF q
<1>4. /\ q.outstanding = d.outstanding /\ q.send_sequence = d.send_sequence
      /\ q.receive_sequence = d.receive_sequence /\ q.link_state = d.link_state
      /\ q.pending = d.pending /\ q.tcc = d.tcc
      /\ q.config = d.config /\ q.storage = d.storage
  BY <1>1 DEF SameLink, Notes
<1>5. ASSUME Truthful(d) PROVE HonestQueue(q.l7_queue) /\ Truthful(q)
  BY <1>1, <1>4, <1>5 DEF Truthful, Notes
<1>6. ASSUME NEW f, x = Schedule(q, f),
             \/ f = q.outstanding /\ q.outstanding # None
             \/ f = Plain("RR", q.receive_sequence)
      PROVE  /\ SameCommand(d, x) /\ x.receive_sequence = d.receive_sequence
             /\ Truthful(d) => Truthful(x)
             /\ ~HasIndication(x) => Responds(d, x)
  <2> HIDE DEF x
  <2>1. /\ x.pending = f /\ x.l7_queue = q.l7_queue /\ x.outstanding = q.outstanding
        /\ x.tcc = q.tcc /\ x.config = q.config /\ x.storage = q.storage
        /\ x.link_state = q.link_state /\ x.send_sequence = q.send_sequence
        /\ x.receive_sequence = q.receive_sequence
    BY <1>2, <1>6 DEF Schedule, Device
  <2>2. SameCommand(d, x) /\ x.receive_sequence = d.receive_sequence
    BY <1>4, <2>1 DEF SameCommand
  <2>3. ASSUME Truthful(d) PROVE Truthful(x)
    BY <1>5, <1>6, <2>1, <2>3 DEF Truthful, Honestly, Plain
  <2>4. Indicates(q.l7_queue) => HasIndication(x)
    <3> DEFINE first == IF x.outstanding = None THEN <<>> ELSE <<x.outstanding.msg>>
    <3> SUFFICES ASSUME NEW i \in 1 .. Len(q.l7_queue), q.l7_queue[i].code = "INDICATION"
                 PROVE  HasIndication(x)
      BY DEF Indicates
    <3>1. Undelivered(x) = first \o q.l7_queue
      BY <2>1 DEF Undelivered
    <3>2. Len(first) \in Nat /\ first \in Seq({x.outstanding.msg})
      <4>1. CASE x.outstanding = None
        BY <4>1
      <4>2. CASE x.outstanding # None
        BY <4>2
      <4> QED BY <4>1, <4>2
    <3> HIDE DEF first
    <3>3. /\ Len(first) + i \in DOMAIN (first \o q.l7_queue)
          /\ (first \o q.l7_queue)[Len(first) + i] = q.l7_queue[i]
      BY <1>2, <3>2
    <3> QED BY <3>1, <3>3 DEF HasIndication
  <2>5. ~HasIndication(x) => x.l7_queue = d.l7_queue
    BY <1>1, <2>1, <2>4 DEF Notes
  <2> QED BY <1>4, <1>6, <2>1, <2>2, <2>3, <2>5 DEF Responds
<1>7. ASSUME x = SendNext(q), q.outstanding = None, q.l7_queue # <<>>
      PROVE  /\ SameCommand(d, x) /\ x.receive_sequence = d.receive_sequence
             /\ Truthful(d) => Truthful(x)
             /\ ~HasIndication(x) => Responds(d, x)
  <2> HIDE DEF x
  <2>1. /\ x.pending = Carried(q) /\ x.outstanding = Carried(q)
        /\ x.l7_queue = Tail(q.l7_queue) /\ x.tcc = q.tcc /\ x.config = q.config
        /\ x.storage = q.storage /\ x.link_state = q.link_state
        /\ x.send_sequence = Plus1(q.send_sequence)
        /\ x.receive_sequence = q.receive_sequence
    BY <1>2, <1>7 DEF SendNext, Carried, Device
  <2>2. SameCommand(d, x) /\ x.receive_sequence = d.receive_sequence
    BY <1>4, <2>1 DEF SameCommand
  <2>3. /\ Head(q.l7_queue) = q.l7_queue[1] /\ Head(q.l7_queue) \in Answer
        /\ Len(Tail(q.l7_queue)) = Len(q.l7_queue) - 1 /\ Len(q.l7_queue) \in Nat
        /\ Len(q.l7_queue) >= 1
        /\ \A i \in 1 .. Len(q.l7_queue) - 1 : Tail(q.l7_queue)[i] = q.l7_queue[i + 1]
    BY <1>2, <1>7
  <2>4. Carried(q).type = "I" /\ Carried(q).msg = Head(q.l7_queue)
    BY DEF Carried
  <2>5. ASSUME Truthful(d) PROVE Truthful(x)
    <3>1. HonestQueue(x.l7_queue) /\ Honest(Head(q.l7_queue))
      BY <1>5, <2>1, <2>3, <2>5 DEF HonestQueue
    <3> QED BY <1>5, <2>1, <2>3, <2>4, <2>5, <3>1 DEF Truthful, Honestly
  <2>6. Indicates(q.l7_queue) => HasIndication(x)
    <3> SUFFICES ASSUME NEW i \in 1 .. Len(q.l7_queue), q.l7_queue[i].code = "INDICATION"
                 PROVE  HasIndication(x)
      BY DEF Indicates
    <3>1. Carried(q) # None
      <4>1. Carried(q) \in Frame
        BY <1>2, <2>3 DEF Carried, Frame, Device
      <4> QED BY <4>1, NoneAssumption
    <3>2. Undelivered(x) = <<Head(q.l7_queue)>> \o Tail(q.l7_queue)
      BY <2>1, <2>4, <3>1 DEF Undelivered
    <3>3. <<Head(q.l7_queue)>> \o Tail(q.l7_queue) = q.l7_queue
      BY <1>2, <1>7
    <3>4. i \in DOMAIN q.l7_queue
      BY <1>2
    <3> QED BY <3>2, <3>3, <3>4 DEF HasIndication
  <2>7. ~HasIndication(x) => q.l7_queue = d.l7_queue
    BY <1>1, <2>6 DEF Notes
  <2> QED BY <1>4, <1>7, <2>1, <2>2, <2>5, <2>7 DEF Responds, Carried
<1>8. \/ x = Schedule(q, q.outstanding) /\ q.outstanding # None
      \/ x = SendNext(q) /\ q.outstanding = None /\ q.l7_queue # <<>>
      \/ x = Schedule(q, Plain("RR", q.receive_sequence))
  BY DEF RespondToPoll, q
<1> QED BY <1>3, <1>6, <1>7, <1>8

-----------------------------------------------------------------------------
(* The steps of the device keep it sound. *)

(* What layer 2 does to its own fields leaves these alone.                 *)
SameQueue(d, x) ==
  /\ x.l7_queue = d.l7_queue
  /\ x.send_sequence = d.send_sequence

LEMMA SoundDevice ==
  ASSUME NEW d, Sound(d)
  PROVE  /\ d \in Device /\ d.l7_queue \in Queues /\ GoodDevice(d)
         /\ d.link_state # "CONNECTED" => d.outstanding = None
         /\ d.link_state = "CONNECTED" => d.link_state # "NO_ADDRESS"
BY DEF Sound, Good, GoodDevice, Unsaved, Typed, GoodLink, Current

LEMMA ScheduleSame ==
  ASSUME NEW d \in Device, NEW f
  PROVE  LET x == Schedule(d, f)
         IN  /\ SameCommand(d, x) /\ SameQueue(d, x) /\ x.pending = f
             /\ x.outstanding = d.outstanding
             /\ x.receive_sequence = d.receive_sequence
BY DEF Schedule, Device, SameCommand, SameQueue

(* A response that is not an I frame. *)
LEMMA RespondSound ==
  ASSUME NEW d, Sound(d), d.link_state # "NO_ADDRESS", NEW type \in {"RR", "UA", "DM", "FRMR", "XID"},
         NEW nr \in Numbers
  PROVE  Sound(Schedule(d, Plain(type, nr)))
<1> DEFINE f == Plain(type, nr)
           x == Schedule(d, f)
<1>1. Good(x)
  BY RespondGood DEF Sound
<1>2. f.type # "I"
  BY PlainType
<1> HIDE DEF f
<1>3. /\ SameCommand(d, x) /\ SameQueue(d, x) /\ x.pending = f
      /\ x.outstanding = d.outstanding
  BY SoundDevice, ScheduleSame
<1> HIDE DEF x
<1>4. Sound(x)
  BY <1>1, <1>2, <1>3 DEF Sound, Truthful, Honestly, AtRest, SameCommand, SameQueue
<1> QED BY <1>4 DEF x, f

LEMMA RejectSound ==
  ASSUME NEW d, Sound(d), d.link_state # "NO_ADDRESS"
  PROVE  Sound(Reject(d)) /\ Sound(Respond(d, "DM"))
BY RespondSound, NumberTypes DEF Reject, Respond

LEMMA AcknowledgeSame ==
  ASSUME NEW d \in Device, NEW nr
  PROVE  LET x == Acknowledge(d, nr)
         IN  /\ SameCommand(d, x) /\ SameQueue(d, x)
             /\ x.pending = d.pending /\ x.receive_sequence = d.receive_sequence
             /\ x.outstanding = IF nr = d.send_sequence THEN None ELSE d.outstanding
BY DEF Acknowledge, Device, SameCommand, SameQueue

LEMMA AcknowledgeSound ==
  ASSUME NEW d, Sound(d), NEW nr
  PROVE  Sound(Acknowledge(d, nr))
<1> DEFINE x == Acknowledge(d, nr)
<1>1. Good(x)
  BY AcknowledgeGood DEF Sound
<1>2. /\ SameCommand(d, x) /\ SameQueue(d, x) /\ x.pending = d.pending
      /\ x.outstanding \in {None, d.outstanding}
  BY SoundDevice, AcknowledgeSame
<1> HIDE DEF x
<1>3. Sound(x)
  BY <1>1, <1>2 DEF Sound, Truthful, Honestly, AtRest, SameCommand, SameQueue
<1> QED BY <1>3 DEF x

LEMMA RespondToPollSound ==
  ASSUME NEW d, Sound(d), d.link_state = "CONNECTED"
  PROVE  Sound(RespondToPoll(d))
BY RespondsToPoll DEF Sound, AtRest, SameCommand

(* The next frame is expected, and its request handled.                    *)
Counted(d) == [d EXCEPT !.receive_sequence = Plus1(@)]

LEMMA CountedSame ==
  ASSUME NEW d \in Device
  PROVE  /\ SameCommand(d, Counted(d)) /\ SameQueue(d, Counted(d))
         /\ Counted(d).pending = d.pending /\ Counted(d).outstanding = d.outstanding
         /\ Counted(d).receive_sequence = Plus1(d.receive_sequence)
BY DEF Counted, Device, SameCommand, SameQueue

LEMMA PerformedSound ==
  ASSUME NEW d, Sound(d), d.link_state = "CONNECTED",
         NEW req \in Asked, NEW e \in Environment
  PROVE  LET x == HandleL7(Counted(d), req, e)
         IN  /\ Sound(x) /\ SameLink(Counted(d), x)
             /\ Answers(d, x, req) \/ Starts(d, x, req)
<1> DEFINE c == Counted(d)
           x == HandleL7(c, req, e)
<1>1. d \in Device
  BY SoundDevice
<1>2. Good(c)
  BY CountedGood DEF Sound, Counted
<1>3. /\ SameCommand(d, c) /\ SameQueue(d, c)
      /\ c.pending = d.pending /\ c.outstanding = d.outstanding
  BY <1>1, CountedSame
<1> HIDE DEF c
<1>4. GoodDevice(c) /\ c.link_state = "CONNECTED"
  BY <1>2, <1>3 DEF Good, SameCommand
<1>5. /\ GoodDevice(x) /\ SameLink(c, x)
      /\ Answers(c, x, req) \/ Starts(c, x, req)
  BY <1>4, Performed
<1>6. Good(x)
  <2>1. req \in Askable /\ req.shape # "long"
    BY DEF Asked
  <2>2. Handled(c, x)
    BY <1>4, <2>1, HandleL7Handled
  <2> QED BY <1>2, <1>4, <2>2, HandledGood
<1> HIDE DEF x
<1>7. Answers(d, x, req) \/ Starts(d, x, req)
  BY <1>3, <1>5 DEF Answers, Starts, Gets, SameCommand, SameQueue
<1>8. Truthful(x)
  <2>1. HonestQueue(x.l7_queue)
    BY <1>1, <1>7, GetsHonest DEF Answers, Starts, Sound, Truthful
  <2>2. x.tcc # None => x.tcc.proc # "GetTilt"
    BY <1>7 DEF Answers, Starts, Sound, Truthful, Commands
  <2>3. x.pending = d.pending /\ x.outstanding = d.outstanding
    BY <1>3, <1>5 DEF SameLink
  <2> QED BY <2>1, <2>2, <2>3 DEF Sound, Truthful
<1>9. Sound(x)
  BY <1>4, <1>5, <1>6, <1>8 DEF Sound, AtRest, SameLink
<1> QED BY <1>5, <1>7, <1>9 DEF x, c

LEMMA ProcessISound ==
  ASSUME NEW d, Sound(d), d.link_state = "CONNECTED",
         NEW f, f.req \in Asked, NEW e \in Environment
  PROVE  Sound(ProcessI(d, f, e))
<1> DEFINE acked    == Acknowledge(d, f.nr)
           accepted == HandleL7(Counted(acked), f.req, e)
<1>1. Sound(acked) /\ acked.link_state = "CONNECTED"
  BY AcknowledgeSound, AcknowledgeSame, SoundDevice DEF SameCommand
<1>2. Sound(accepted) /\ accepted.link_state = "CONNECTED"
  <2> HIDE DEF acked
  <2>1. Counted(acked).link_state = "CONNECTED"
    BY <1>1, SoundDevice, CountedSame DEF SameCommand
  <2> QED BY <1>1, <2>1, PerformedSound DEF SameLink
<1>3. /\ Sound(Reject(d)) /\ Sound(Reject(acked))
      /\ Sound(RespondToPoll(acked)) /\ Sound(RespondToPoll(accepted))
  BY <1>1, <1>2, RejectSound, RespondToPollSound
<1>4. ProcessI(d, f, e) \in {Reject(d), Reject(acked), acked, RespondToPoll(acked),
                             accepted, RespondToPoll(accepted)}
  <2> HIDE DEF acked
  <2> QED BY DEF ProcessI, acked, Counted
<1> HIDE DEF acked, accepted
<1> QED BY <1>1, <1>2, <1>3, <1>4

LEMMA HeardSame ==
  ASSUME NEW d \in Device, NEW ready
  PROVE  LET x == [d EXCEPT !.remote_ready = ready]
         IN  /\ SameCommand(d, x) /\ SameQueue(d, x)
             /\ x.pending = d.pending /\ x.outstanding = d.outstanding
             /\ x.receive_sequence = d.receive_sequence
BY DEF Device, SameCommand, SameQueue

(* An RR that polls: the outstanding frame again, or what there is to say. *)
LEMMA ProcessSupervisoryCases ==
  ASSUME NEW d, Sound(d), d.link_state = "CONNECTED",
         NEW f, f.type = "RR", f.poll
  PROVE  \E heard :
           /\ Sound(heard) /\ SameCommand(d, heard) /\ SameQueue(d, heard)
           /\ heard.pending = d.pending
           /\ heard.outstanding \in {None, d.outstanding}
           /\ heard.receive_sequence = d.receive_sequence
           /\ \/ ProcessSupervisory(d, f) = Reject(d)
              \/ /\ heard.outstanding # None
                 /\ ProcessSupervisory(d, f) = Schedule(heard, heard.outstanding)
              \/ ProcessSupervisory(d, f) = RespondToPoll(heard)
<1> DEFINE acked == Acknowledge(d, f.nr)
           ready == (f.type = "RR")
           heard == [acked EXCEPT !.remote_ready = ready]
<1>1. Sound(acked) /\ acked \in Device
  BY AcknowledgeSound, SoundDevice
<1>2. /\ SameCommand(d, acked) /\ SameQueue(d, acked) /\ acked.pending = d.pending
      /\ acked.outstanding \in {None, d.outstanding}
      /\ acked.receive_sequence = d.receive_sequence
  BY SoundDevice, AcknowledgeSame
<1> HIDE DEF acked
<1>3. ready \in BOOLEAN
  OBVIOUS
<1> HIDE DEF ready
<1>4. /\ SameCommand(acked, heard) /\ SameQueue(acked, heard)
      /\ heard.pending = acked.pending /\ heard.outstanding = acked.outstanding
      /\ heard.receive_sequence = acked.receive_sequence
  BY <1>1, HeardSame
<1>5. Good(heard)
  BY <1>1, <1>3, HeardGood DEF Sound
<1> HIDE DEF heard
<1>6. Sound(heard)
  BY <1>1, <1>4, <1>5 DEF Sound, Truthful, AtRest, SameCommand, SameQueue
<1>7. \/ ProcessSupervisory(d, f) = Reject(d)
      \/ /\ heard.outstanding # None
         /\ ProcessSupervisory(d, f) = Schedule(heard, heard.outstanding)
      \/ ProcessSupervisory(d, f) = RespondToPoll(heard)
  BY DEF ProcessSupervisory, heard, acked, ready
<1>8. /\ SameCommand(d, heard) /\ SameQueue(d, heard)
      /\ heard.pending = d.pending /\ heard.outstanding \in {None, d.outstanding}
      /\ heard.receive_sequence = d.receive_sequence
  BY <1>2, <1>4 DEF SameCommand, SameQueue
<1> QED BY <1>6, <1>7, <1>8

LEMMA ProcessSupervisorySound ==
  ASSUME NEW d, Sound(d), d.link_state = "CONNECTED",
         NEW f, f.type = "RR", f.poll
  PROVE  Sound(ProcessSupervisory(d, f))
<1>1. PICK heard :
           /\ Sound(heard) /\ SameCommand(d, heard)
           /\ \/ ProcessSupervisory(d, f) = Reject(d)
              \/ /\ heard.outstanding # None
                 /\ ProcessSupervisory(d, f) = Schedule(heard, heard.outstanding)
              \/ ProcessSupervisory(d, f) = RespondToPoll(heard)
  BY ProcessSupervisoryCases
<1> DEFINE again == Schedule(heard, heard.outstanding)
<1>2. heard.link_state = "CONNECTED" /\ heard \in Device
  BY <1>1, SoundDevice DEF SameCommand
<1>3. ASSUME heard.outstanding # None PROVE Sound(again)
  <2>1. heard.outstanding \in Frame
    BY <1>2, <1>3 DEF Device
  <2>2. Good(again)
    BY <1>1, <2>1, ScheduleGood DEF Sound
  <2>3. /\ SameCommand(heard, again) /\ SameQueue(heard, again)
        /\ again.pending = heard.outstanding /\ again.outstanding = heard.outstanding
    BY <1>2, ScheduleSame
  <2> HIDE DEF again
  <2> QED BY <1>1, <2>2, <2>3 DEF Sound, Truthful, AtRest, SameCommand, SameQueue
<1> QED BY <1>1, <1>2, <1>3, RejectSound, RespondToPollSound

(* A new session. *)
LEMMA ProcessSnrmSound ==
  ASSUME NEW d, Sound(d), d.link_state # "NO_ADDRESS"
  PROVE  LET x == ProcessSnrm(d)
         IN  /\ Sound(x) /\ x.link_state = "CONNECTED"
             /\ x.pending = Plain("UA", 0) /\ x.outstanding = None
             /\ x.l7_queue = <<>> /\ x.tcc = d.tcc
             /\ x.send_sequence = 0 /\ x.receive_sequence = 0
<1> DEFINE x == ProcessSnrm(d)
<1>1. d \in Device
  BY SoundDevice
<1>2. Good(x)
  BY RestartedGood DEF Sound, ProcessSnrm
<1>3. /\ x.link_state = "CONNECTED" /\ x.pending = Plain("UA", 0) /\ x.outstanding = None
      /\ x.l7_queue = <<>> /\ x.tcc = d.tcc
      /\ x.send_sequence = 0 /\ x.receive_sequence = 0
  BY <1>1 DEF ProcessSnrm, ClearRuntime, Respond, Schedule, Device
<1>4. x.pending.type # "I"
  BY <1>3 DEF Plain
<1> HIDE DEF x
<1>5. Sound(x)
  BY <1>2, <1>3, <1>4 DEF Sound, Truthful, HonestQueue, Honestly, AtRest
<1> QED BY <1>3, <1>5 DEF x

(* After a restart the device is without an address and empty, and where   *)
(* it stood before.                                                        *)
Restarted(d, x) ==
  /\ x.link_state = "NO_ADDRESS" /\ x.tcc = None
  /\ \A t : Stands(d, t) => Stands(x, t)

LEMMA BootRestarts ==
  ASSUME NEW stored \in Config \cup {None}, NEW save \in Saves
  PROVE  LET x == Boot(stored, save)
         IN  /\ Sound(x) /\ x.link_state = "NO_ADDRESS" /\ x.tcc = None
             /\ stored # None => x.config = stored /\ x.storage = stored
<1> DEFINE x == Boot(stored, save)
<1>1. Good(x)
  BY BootGood
<1>2. /\ x.link_state = "NO_ADDRESS" /\ x.tcc = None /\ x.l7_queue = <<>>
      /\ x.pending = None /\ x.outstanding = None
      /\ stored # None => x.config = stored /\ x.storage = stored
  BY DEF Boot, Persist
<1> HIDE DEF x
<1>3. Sound(x)
  BY <1>1, <1>2 DEF Sound, Truthful, HonestQueue, Honestly, AtRest
<1> QED BY <1>2, <1>3 DEF x

LEMMA ResetRestarts ==
  ASSUME NEW d \in Device, NEW e, e.boot \in Saves
  PROVE  Sound(SystemReset(d, e)) /\ Restarted(d, SystemReset(d, e))
<1> DEFINE x == SystemReset(d, e)
<1>1. /\ Sound(x) /\ x.link_state = "NO_ADDRESS" /\ x.tcc = None
      /\ d.storage # None => x.config = d.storage /\ x.storage = d.storage
  BY BootRestarts DEF SystemReset, Device
<1> HIDE DEF x
<1>2. Sound(x) /\ Restarted(d, x)
  BY <1>1 DEF Restarted, Stands
<1> QED BY <1>2 DEF x

(* A pass of the main loop: the device restarts, or looks after its        *)
(* command, and the response may leave its slot.                           *)
Passes(d, x) ==
  /\ x.link_state = d.link_state
  /\ x.receive_sequence = d.receive_sequence
  /\ x.send_sequence = d.send_sequence
  /\ x.outstanding = d.outstanding
  /\ x.pending \in {d.pending, None}
  /\ \/ x.tcc = d.tcc /\ x.l7_queue = d.l7_queue
     \/ d.tcc # None /\ Ends(d, x)
  /\ d.tcc = None => x.tcc = None /\ x.config = d.config /\ x.storage = d.storage

LEMMA DevicePollPasses ==
  ASSUME NEW d, Sound(d), NEW e \in PollEnvironment
  PROVE  LET x == DevicePoll(d, e)
         IN  Sound(x) /\ (Restarted(d, x) \/ Passes(d, x))
<1> DEFINE polled == PollTcc(d, e)
           sent   == [polled EXCEPT !.pending = None]
           x      == DevicePoll(d, e)
<1>1. d \in Device /\ e.boot \in Saves
  BY SoundDevice DEF PollEnvironment
<1>2. GoodDevice(polled) /\ SameLink(d, polled) /\ Polled(d, polled)
  BY <1>1, PollTccGood, PollTccPolled DEF Sound, Good, Keeps
<1>3. Good(x)
  BY DevicePollGood DEF Sound
<1> HIDE DEF polled
<1>4. polled \in Device
  BY <1>2 DEF GoodDevice, Unsaved, Typed
<1>5. /\ sent \in Device /\ SameCommand(polled, sent) /\ SameQueue(polled, sent)
      /\ sent.pending = None /\ sent.outstanding = polled.outstanding
      /\ sent.receive_sequence = polled.receive_sequence
  BY <1>4 DEF Device, SameCommand, SameQueue
<1> HIDE DEF sent
<1>6. \A t : Stands(d, t) => Stands(polled, t) /\ Stands(sent, t)
  BY <1>2, <1>5 DEF Polled, Stands, SameCommand
<1>7. ASSUME NEW y \in {polled, sent}
      PROVE  Passes(d, y)
  <2>1. /\ y.link_state = d.link_state /\ y.receive_sequence = d.receive_sequence
        /\ y.send_sequence = d.send_sequence /\ y.outstanding = d.outstanding
        /\ y.pending \in {d.pending, None}
    BY <1>2, <1>5 DEF SameLink, SameCommand, SameQueue
  <2>2. /\ y.tcc = polled.tcc /\ y.l7_queue = polled.l7_queue
        /\ y.config = polled.config /\ y.storage = polled.storage
    BY <1>5 DEF SameCommand, SameQueue
  <2>3. Ends(d, polled) => Ends(d, y)
    BY <2>2 DEF Ends, Gets, Stands
  <2> QED BY <1>2, <2>1, <2>2, <2>3 DEF Passes, Polled
<1>8. ASSUME NEW y, Good(y), Passes(d, y)
      PROVE  Sound(y)
  <2>1. HonestQueue(y.l7_queue)
    <3>1. d.tcc # None => d.tcc.proc # "GetTilt"
      BY DEF Sound, Truthful
    <3>2. ASSUME d.tcc # None, Ends(d, y) PROVE HonestQueue(y.l7_queue)
      BY <1>1, <3>1, <3>2, GetsHonest DEF Ends, Honest, Sound, Truthful
    <3> QED BY <1>8, <3>2 DEF Passes, Sound, Truthful
  <2>2. y.tcc # None => y.tcc.proc # "GetTilt"
    BY <1>8 DEF Passes, Ends, Sound, Truthful
  <2>3. Honestly(y.pending) /\ Honestly(y.outstanding)
    BY <1>8 DEF Passes, Sound, Truthful, Honestly
  <2>4. AtRest(y)
    BY <1>8 DEF Passes, Sound, AtRest
  <2> QED BY <1>8, <2>1, <2>2, <2>3, <2>4 DEF Sound, Truthful
<1>9. \/ x = SystemReset(polled, e) \/ x = SystemReset(sent, e)
      \/ x = polled \/ x = sent
  BY DEF DevicePoll, polled, sent
<1>10. CASE x = SystemReset(polled, e) \/ x = SystemReset(sent, e)
  <2>1. PICK y \in {polled, sent} : x = SystemReset(y, e)
    BY <1>10
  <2>2. Sound(SystemReset(y, e)) /\ Restarted(y, SystemReset(y, e))
    BY <1>1, <1>4, <1>5, ResetRestarts
  <2> HIDE DEF x
  <2>3. Sound(x) /\ Restarted(d, x)
    BY <1>6, <2>1, <2>2 DEF Restarted
  <2> QED BY <2>3 DEF x
<1>11. CASE x = polled \/ x = sent
  <2> HIDE DEF x
  <2>1. Passes(d, x) /\ Sound(x)
    BY <1>3, <1>7, <1>8, <1>11
  <2> QED BY <2>1 DEF x
<1> QED BY <1>9, <1>10, <1>11

(* The fault line of the motor driver. *)
LEMMA LooksAtFault ==
  ASSUME NEW d, Sound(d), NEW fault \in DriverFaults
  PROVE  LET x == SetAlarm(d, 0, "HARDWARE_ERROR", fault)
         IN  /\ Sound(x) /\ SameCommand(d, x) /\ SameQueue(d, x)
             /\ x.pending = d.pending /\ x.outstanding = d.outstanding
             /\ x.receive_sequence = d.receive_sequence
<1> DEFINE x == SetAlarm(d, 0, "HARDWARE_ERROR", fault)
<1>1. d \in Device /\ 0 \in Sources /\ d.alarm_active[0] \subseteq Alarms
  <2>1. d \in Device
    BY SoundDevice
  <2>2. 0 \in Sources
    BY DeviceAssumption DEF Sources
  <2>3. d.alarm_active \in [Sources -> SUBSET Alarms]
    BY <2>1 DEF Device
  <2> QED BY <2>1, <2>2, <2>3
<1>2. /\ SameCommand(d, x) /\ SameQueue(d, x)
      /\ x.pending = d.pending /\ x.outstanding = d.outstanding
      /\ x.receive_sequence = d.receive_sequence
  BY <1>1 DEF SetAlarm, Device, SameCommand, SameQueue
<1>3. Good(x)
  <2>1. CASE "HARDWARE_ERROR" \in Alarms
    BY <1>1, <2>1, SystemAssumption, SetAlarmGood DEF Sound
  <2>2. CASE "HARDWARE_ERROR" \notin Alarms
    <3>1. fault = FALSE /\ "HARDWARE_ERROR" \notin d.alarm_active[0]
      BY <1>1, <2>2, SystemAssumption
    <3>2. ("HARDWARE_ERROR" \in d.alarm_active[0]) = FALSE
      BY <3>1
    <3>3. x = d
      BY <3>1, <3>2, Zenon DEF SetAlarm
    <3> QED BY <3>3 DEF Sound
  <2> QED BY <2>1, <2>2
<1> HIDE DEF x
<1>4. Sound(x)
  BY <1>2, <1>3 DEF Sound, Truthful, AtRest, SameCommand, SameQueue
<1> QED BY <1>2, <1>4 DEF x

(* A scan finds the device, which only changes when it has no address.     *)
LEMMA FoundSound ==
  ASSUME NEW d, Sound(d)
  PROVE  LET x == Found(d)
         IN  /\ Sound(x)
             /\ d.link_state # "NO_ADDRESS" => x = d
             /\ d.link_state = "NO_ADDRESS" =>
                  x.link_state = "ADDRESS_ASSIGNED" /\ x.pending = None
<1> DEFINE address  == CHOOSE a \in Addresses : TRUE
           assigned == ProcessAssignment(d, TRUE, address)
           x        == Found(d)
<1>1. d \in Device /\ address \in Addresses
  BY SoundDevice, SystemAssumption
<1>2. Good(assigned)
  BY <1>1, ProcessAssignmentGood DEF Sound
<1>3. assigned \in Device
  BY <1>2 DEF Good, GoodDevice, Unsaved, Typed
<1>4. CASE d.link_state # "NO_ADDRESS"
  <2>1. x = d
    BY <1>1, <1>4 DEF Found, ProcessAssignment, Device
  <2> QED BY <1>4, <2>1
<1>5. CASE d.link_state = "NO_ADDRESS"
  <2>1. /\ assigned.link_state = "ADDRESS_ASSIGNED" /\ assigned.tcc = d.tcc
        /\ assigned.l7_queue = d.l7_queue /\ assigned.outstanding = d.outstanding
        /\ assigned.reset_after_transmit = d.reset_after_transmit
    BY <1>1, <1>5 DEF ProcessAssignment, Respond, Schedule, Plain, Device
  <2>0. ~d.reset_after_transmit
    BY <1>5 DEF Sound, AtRest, Good, GoodLink, Triggered
  <2>2. x = [assigned EXCEPT !.pending = None]
    BY <1>5 DEF Found
  <2> HIDE DEF assigned, x
  <2>3. /\ x \in Device /\ x.link_state = "ADDRESS_ASSIGNED" /\ x.tcc = d.tcc
        /\ x.l7_queue = d.l7_queue /\ x.outstanding = d.outstanding /\ x.pending = None
        /\ x.address = assigned.address /\ x.reset_after_i_ack = assigned.reset_after_i_ack
        /\ x.reset_after_transmit = assigned.reset_after_transmit
        /\ x.send_sequence = assigned.send_sequence /\ ~x.reset_after_transmit
        /\ SameDevice(assigned, x) /\ x.l7_queue \in Queues
    BY <1>3, <2>1, <2>2, <2>0, SoundDevice DEF Device, SameDevice
  <2>4. GoodDevice(x)
    BY <1>2, <1>3, <2>3, SameDeviceGood DEF Good
  <2>5. GoodLink(x)
    BY <1>2, <2>1, <2>3 DEF Good, GoodLink, Current, Triggered, Quiet
  <2>6. Sound(x)
    BY <1>5, <2>3, <2>4, <2>5 DEF Sound, Good, Truthful, Honestly, AtRest
  <2> QED BY <1>5, <2>3, <2>6 DEF x
<1> QED BY <1>4, <1>5

-----------------------------------------------------------------------------
(* The controller.                                                         *)

LEMMA PlanSteps ==
  ASSUME NEW job \in DOMAIN Plans
  PROVE  /\ Len(Plans[job]) \in 1 .. 6
         /\ \A i \in 1 .. Len(Plans[job]) :
              /\ Plans[job][i] = "SNRM" <=> job = "scan" /\ i = 1
              /\ Plans[job][i] = "SetTilt" <=> job = "moveRet"
              /\ Plans[job][i] \in
                   {"SNRM", "AlarmSubscribe", "GetInformation", "GetTilt",
                    "GetDeviceData", "GetAlarmStatus", "ClearActiveAlarms",
                    "SetDeviceData"} \cup Commands
         /\ job = "moveRet" => Len(Plans[job]) = 1
<1>1. CASE job = "scan"
  <2>1. Plans[job] = <<"SNRM", "AlarmSubscribe", "GetInformation", "GetTilt",
                       "GetDeviceData", "GetDeviceData">>
    BY <1>1 DEF Plans
  <2> QED BY <1>1, <2>1
<1>2. CASE job = "refresh"
  <2>1. Plans[job] = <<"GetInformation", "GetTilt">>
    BY <1>2 DEF Plans
  <2> QED BY <1>2, <2>1
<1>3. CASE job \notin {"scan", "refresh"}
  <2>1. \E p \in {"SetTilt", "Calibrate", "SelfTest", "GetAlarmStatus",
                  "ClearActiveAlarms", "SetDeviceData"} :
          Plans[job] = <<p>> /\ (p = "SetTilt" <=> job = "moveRet")
    BY <1>3 DEF Plans
  <2> QED BY <1>3, <2>1 DEF Commands
<1> QED BY <1>1, <1>2, <1>3

(* A controller between two operations or in an exchange of one.           *)
Planned(c) ==
  /\ c \in Controller
  /\ c.at = "idle" <=> c.job = "none"
  /\ c.job = "none" => c.step = 0
  /\ c.job # "none" => c.step \in 1 .. Len(Plans[c.job])
  /\ c.job \notin {"none", "scan"} => c.listed
  /\ c.job = "scan" => ~c.listed
  /\ c.job = "scan" /\ c.step = 1 => c.index = 0
  /\ c.done # "none" => c.listed /\ c.job = "none"

(* The session with the device is open, as far as the controller knows.    *)
Joined(c) == c.listed \/ c.step > 1

LEMMA Exchanging ==
  ASSUME NEW c, Planned(c), c.job # "none"
  PROVE  /\ c.job \in DOMAIN Plans /\ c.job \in Jobs /\ c.index \in Numbers
         /\ c.step \in 1 .. 6 /\ c.step \in 1 .. Len(Plans[c.job])
         /\ Len(Plans[c.job]) \in 1 .. 6
         /\ Procedure(c) = "SNRM" <=> c.job = "scan" /\ c.step = 1
         /\ Procedure(c) = "SNRM" <=> ~Joined(c)
         /\ Procedure(c) = "SetTilt" <=> c.job = "moveRet"
         /\ Procedure(c) \in
              {"SNRM", "AlarmSubscribe", "GetInformation", "GetTilt",
               "GetDeviceData", "GetAlarmStatus", "ClearActiveAlarms",
               "SetDeviceData"} \cup Commands
         /\ c.job = "moveRet" => c.step = Len(Plans[c.job])
<1>1. c.job \in DOMAIN Plans /\ c.job \in Jobs /\ c.index \in Numbers
  BY SystemAssumption DEF Planned, Controller
<1>2. Len(Plans[c.job]) \in 1 .. 6 /\ c.step \in 1 .. Len(Plans[c.job])
  BY <1>1, PlanSteps DEF Planned
<1> QED BY <1>1, <1>2, PlanSteps DEF Planned, Procedure, Joined

(* What a controller keeps when an operation ends, with or without success.*)
Ended(c, x, ok) ==
  /\ x.job = "none" /\ x.step = 0 /\ x.at = "idle"
  /\ x.index = c.index /\ x.tilt = c.tilt
  /\ x.listed = (c.listed \/ ok)
  /\ x.done = IF ok THEN c.job ELSE "none"

LEMMA EndEnded ==
  ASSUME NEW c \in Controller, NEW ok \in BOOLEAN
  PROVE  Planned(End(c, ok)) /\ Ended(c, End(c, ok), ok)
<1> DEFINE x == End(c, ok)
<1>1. MinTilt \in Tilts /\ 0 \in 0 .. 6
  BY DeviceAssumption DEF Tilts
<1>2. x \in Controller /\ Ended(c, x, ok)
  <2> DEFINE done   == IF ok THEN c.job ELSE "none"
             listed == c.listed \/ ok
  <2>1. done \in Jobs \cup {"none"} /\ listed \in BOOLEAN
    BY DEF Controller
  <2>2. x = [c EXCEPT !.job = "none", !.step = 0, !.at = "idle", !.done = done,
                      !.listed = listed, !.target = MinTilt]
    BY DEF End, Controller
  <2> HIDE DEF listed, done, x
  <2>3. x \in Controller
    BY <1>1, <2>1, <2>2 DEF Controller
  <2> QED BY <2>2, <2>3 DEF Controller, Ended, done, listed
<1>3. x.done # "none" => x.listed
  BY <1>2 DEF Ended
<1> HIDE DEF x
<1>4. Planned(x)
  BY <1>2, <1>3 DEF Planned, Ended
<1> QED BY <1>2, <1>4 DEF x

(* The operation goes on with its next exchange. *)
Advanced(c, x) ==
  /\ x.job = c.job /\ x.step = c.step + 1 /\ x.at = "sending"
  /\ x.index = Plus1(c.index) /\ x.listed = c.listed
  /\ x.tilt = c.tilt /\ x.target = c.target /\ x.done = c.done

LEMMA ContinueAdvances ==
  ASSUME NEW c, Planned(c), c.job # "none"
  PROVE  LET x == Continue(c)
         IN  /\ Planned(x)
             /\ \/ c.step = Len(Plans[c.job]) /\ Ended(c, x, TRUE)
                \/ c.step < Len(Plans[c.job]) /\ Advanced(c, x)
<1> DEFINE x == Continue(c)
<1>1. /\ c \in Controller /\ c.step \in 1 .. Len(Plans[c.job]) /\ c.index \in Numbers
      /\ Len(Plans[c.job]) \in 1 .. 6
  BY Exchanging DEF Planned
<1>2. CASE c.step = Len(Plans[c.job])
  <2>1. x = End(c, TRUE)
    BY <1>2 DEF Continue
  <2> QED BY <1>1, <1>2, <2>1, EndEnded
<1>3. CASE c.step # Len(Plans[c.job])
  <2>1. x = [c EXCEPT !.step = @ + 1, !.at = "sending", !.index = Plus1(@)]
    BY <1>3 DEF Continue
  <2>2. /\ c.step < Len(Plans[c.job]) /\ c.step + 1 \in 2 .. Len(Plans[c.job])
        /\ c.step + 1 \in 0 .. 6 /\ Plus1(c.index) \in Numbers
    <3>1. \A l \in 1 .. 6, s \in 1 .. 6 :
            s <= l /\ s # l => s < l /\ s + 1 \in 2 .. l /\ s + 1 \in 0 .. 6
      OBVIOUS
    <3>2. Plus1(c.index) \in Numbers
      BY <1>1, Successor
    <3>3. c.step \in 1 .. 6 /\ c.step <= Len(Plans[c.job])
      BY <1>1, Exchanging
    <3> QED BY <1>1, <1>3, <3>1, <3>2, <3>3
  <2> HIDE DEF x
  <2>3. x \in Controller /\ Advanced(c, x)
    BY <1>1, <2>1, <2>2 DEF Controller, Advanced
  <2>4. Planned(x)
    BY <2>2, <2>3, <1>1 DEF Planned, Advanced
  <2> QED BY <2>2, <2>3, <2>4 DEF x
<1> QED BY <1>2, <1>3

(* What the answer to an exchange changes before the operation goes on:    *)
(* the tilt in the list.                                                   *)
Noted(c, r) ==
  /\ r.job = c.job /\ r.step = c.step /\ r.at = c.at /\ r.index = c.index
  /\ r.listed = c.listed /\ r.target = c.target /\ r.done = c.done

LEMMA TookNoted ==
  ASSUME NEW c, Planned(c), c.job # "none",
         NEW m, m # None => m \in Answer /\ Honest(m) /\ m.proc = Procedure(c)
  PROVE  \E r : /\ Planned(r) /\ Noted(c, r)
                /\ \/ Took(c, m) = End(c, FALSE)
                   \/ Took(c, m) = Continue(r)
                /\ Procedure(c) = "SetTilt" /\ Took(c, m) # End(c, FALSE) =>
                     m # None /\ m.code = "OK" /\ r.tilt = c.target
                /\ c.job = "scan" /\ Procedure(c) # "SNRM" =>
                     Took(c, m) = Continue(r)
<1> DEFINE ok   == m # None /\ m.code = "OK"
           read == CASE ok /\ Procedure(c) = "GetTilt" -> [c EXCEPT !.tilt = m.value]
                     [] ok /\ Procedure(c) = "SetTilt" -> [c EXCEPT !.tilt = c.target]
                     [] OTHER -> c
<1>1. c \in Controller
  BY DEF Planned
<1>2. \/ ok /\ Procedure(c) = "GetTilt" /\ read = [c EXCEPT !.tilt = m.value]
      \/ ok /\ Procedure(c) = "SetTilt" /\ read = [c EXCEPT !.tilt = c.target]
      \/ ~(ok /\ Procedure(c) = "SetTilt") /\ read = c
  OBVIOUS
<1>3. ok /\ Procedure(c) = "GetTilt" => m.value \in Tilts
  BY DEF Honest
<1>4. \/ Took(c, m) = End(c, FALSE)
      \/ Took(c, m) = Continue(read)
  BY DEF Took
<1>5. Procedure(c) = "SetTilt" /\ ~ok => Took(c, m) = End(c, FALSE)
  BY Exchanging DEF Took
<1>8. c.job = "scan" /\ Procedure(c) # "SNRM" => Took(c, m) = Continue(read)
  BY DEF Took
<1> HIDE DEF read
<1>6. read \in Controller /\ Noted(c, read)
      /\ (ok /\ Procedure(c) = "SetTilt" => read.tilt = c.target)
  BY <1>1, <1>2, <1>3 DEF Controller, Noted
<1>7. Planned(read)
  BY <1>6 DEF Planned, Noted
<1> QED BY <1>4, <1>5, <1>6, <1>7, <1>8

LEMMA RequestFrameAsked ==
  ASSUME NEW c, Planned(c), c.job # "none"
  PROVE  LET f == RequestFrame(c)
         IN  \/ ~Joined(c) /\ f.type = "SNRM"
             \/ /\ Joined(c) /\ f.type = "I" /\ f.req \in Asked /\ f.poll
                /\ f.ns = Number(c) /\ f.nr = Number(c)
                /\ f.req.proc = Procedure(c)
                /\ c.job = "moveRet" => f.req.arg = c.target
<1> DEFINE req == [proc |-> Procedure(c), ant |-> 0, item |-> "writable",
                   arg |-> IF Procedure(c) = "SetTilt" THEN c.target ELSE 0,
                   shape |-> "ok"]
<1>1. CASE Procedure(c) = "SNRM"
  BY <1>1, Exchanging DEF RequestFrame
<1>2. CASE Procedure(c) # "SNRM"
  <2>1. RequestFrame(c) = [type |-> "I", ns |-> Number(c), nr |-> Number(c),
                           poll |-> TRUE, req |-> req]
    BY <1>2 DEF RequestFrame
  <2>2. c.target \in Int /\ 0 \in Values /\ 0 \in Nat
    <3>1. c.target \in Tilts
      BY DEF Planned, Controller
    <3>2. Tilts \subseteq Int /\ 0 \in Values
      BY DeviceAssumption DEF Tilts
    <3> QED BY <3>1, <3>2
  <2>3. Procedure(c) \in Procedures
    BY <1>2, Exchanging DEF Procedures, CommonProcedures, SingleProcedures, Commands
  <2>4. req \in Request
    BY <2>2, <2>3 DEF Request
  <2>5. req \in Asked
    BY <1>2, <2>2, <2>4, Exchanging DEF Asked, Askable, Commands
  <2> QED BY <1>2, <2>1, <2>5, Exchanging
<1> QED BY <1>1, <1>2

-----------------------------------------------------------------------------
(* Types, and what else holds of every state: the inductive invariant.     *)

(* What may be on its way to the device.                                   *)
Plausible(f) ==
  \/ f.type = "SNRM"
  \/ /\ f.type = "I" /\ f.poll /\ f.req \in Asked
     /\ f.ns \in Numbers /\ f.nr = f.ns
     /\ Joined(ctl)
  \/ f.type = "RR" /\ f.poll

Conveyed ==
  /\ down # None => Plausible(down)
  /\ up \in Seq(Frame) /\ Len(up) <= LineDepth
  /\ \A i \in 1 .. Len(up) : Honestly(up[i])

SystemSound ==
  /\ Sound(dev) /\ Planned(ctl) /\ Conveyed
  /\ missed \in 0 .. Modulus

LEMMA SystemInitSound == SystemInit => SystemSound
<1> SUFFICES ASSUME SystemInit PROVE SystemSound
  OBVIOUS
<1>1. Modulus \in Nat /\ Modulus >= 2 /\ 0 \in 0 .. Modulus /\ 0 \in Numbers
  BY LinkAssumption DEF Numbers
<1>2. Sound(dev)
  <2>1. PICK stored \in Factory, e \in Outcomes : dev = Boot(stored, e.boot)
    BY DEF SystemInit, Init
  <2>2. stored \in Config \cup {None} /\ e.boot \in Saves
    BY LinkAssumption DEF Environment
  <2> QED BY <2>1, <2>2, BootRestarts
<1>3. Planned(ctl)
  <2>1. MinTilt \in Tilts
    BY DeviceAssumption DEF Tilts
  <2>2. ctl \in Controller
    BY <1>1, <2>1 DEF SystemInit, Controller
  <2> QED BY <2>2 DEF SystemInit, Planned
<1>4. Conveyed
  BY SystemAssumption DEF SystemInit, Conveyed
<1> QED BY <1>1, <1>2, <1>3, <1>4 DEF SystemInit, SystemSound

(* The steps of the controller that send nothing and end or go on with an  *)
(* operation.                                                              *)
LEMMA CountType ==
  ASSUME missed \in 0 .. Modulus, NEW c, Count(c)
  PROVE  missed' \in 0 .. Modulus
BY LinkAssumption DEF Count

LEMMA TookPlanned ==
  ASSUME NEW c, Planned(c), c.job # "none",
         NEW m, m # None => m \in Answer /\ Honest(m) /\ m.proc = Procedure(c)
  PROVE  /\ Planned(Took(c, m))
         /\ Joined(c) => Joined(Took(c, m))
<1>1. PICK r : /\ Planned(r) /\ Noted(c, r)
               /\ Took(c, m) = End(c, FALSE) \/ Took(c, m) = Continue(r)
               /\ c.job = "scan" /\ Procedure(c) # "SNRM" =>
                    Took(c, m) = Continue(r)
  BY TookNoted
<1>2. c \in Controller /\ c.step \in 1 .. 6
  BY Exchanging DEF Planned
<1>3. Planned(End(c, FALSE)) /\ Ended(c, End(c, FALSE), FALSE)
  BY <1>2, EndEnded
<1>4. /\ Planned(Continue(r))
      /\ Ended(r, Continue(r), TRUE) \/ Advanced(r, Continue(r))
  BY <1>1, ContinueAdvances DEF Noted
<1>5. Joined(Continue(r))
  <2>1. Ended(r, Continue(r), TRUE) => Continue(r).listed
    BY Zenon DEF Ended
  <2>2. Advanced(r, Continue(r)) => Continue(r).step > 1
    BY <1>1, <1>2 DEF Advanced, Noted
  <2> QED BY <1>4, <2>1, <2>2 DEF Joined
<1>6. ASSUME Joined(c), ~c.listed PROVE Took(c, m) = Continue(r)
  <2>1. c.job = "scan" /\ Procedure(c) # "SNRM"
    BY <1>6, Exchanging DEF Planned
  <2> QED BY <1>1, <2>1
<1>7. c.listed => Joined(End(c, FALSE))
  BY <1>3 DEF Ended, Joined
<1> QED BY <1>1, <1>3, <1>4, <1>5, <1>6, <1>7

(* The first exchange of an operation comes next. *)
Starting(c, job, index, tilt, target) ==
  [c EXCEPT !.job = job, !.step = 1, !.at = "sending", !.index = index,
            !.listed = (job # "scan"), !.tilt = tilt, !.target = target,
            !.done = "none"]

LEMMA StartPlanned ==
  ASSUME NEW c \in Controller, NEW job \in Jobs, NEW index \in Numbers,
         NEW tilt \in Tilts \cup {None}, NEW target \in Tilts,
         job = "scan" => index = 0
  PROVE  LET x == Starting(c, job, index, tilt, target)
         IN  /\ Planned(x)
             /\ x.job = job /\ x.step = 1 /\ x.at = "sending" /\ x.index = index
             /\ x.listed = (job # "scan") /\ x.tilt = tilt /\ x.target = target
             /\ x.done = "none"
<1> DEFINE x == Starting(c, job, index, tilt, target)
<1>1. job \in DOMAIN Plans /\ job # "none" /\ 1 \in 0 .. 6
  <2>1. "none" \notin DOMAIN Plans
    BY DEF Plans
  <2> QED BY <2>1, SystemAssumption
<1>2. 1 \in 1 .. Len(Plans[job])
  <2>1. Len(Plans[job]) \in 1 .. 6
    BY <1>1, PlanSteps
  <2>2. \A l \in 1 .. 6 : 1 \in 1 .. l
    OBVIOUS
  <2> QED BY <2>1, <2>2
<1>3. /\ x \in Controller
      /\ x.job = job /\ x.step = 1 /\ x.at = "sending" /\ x.index = index
      /\ x.listed = (job # "scan") /\ x.tilt = tilt /\ x.target = target
      /\ x.done = "none"
  BY <1>1 DEF Controller, Starting
<1> HIDE DEF x
<1>4. Planned(x)
  BY <1>1, <1>2, <1>3 DEF Planned
<1> QED BY <1>3, <1>4 DEF x

LEMMA ControllerStepSound ==
  ASSUME SystemSound,
         StartScan \/ StartCommand \/ Send \/ PollResult \/ GiveUp \/ Cancel
  PROVE  SystemSound'
<1>1. /\ Sound(dev) /\ Planned(ctl) /\ Conveyed /\ missed \in 0 .. Modulus
      /\ ctl \in Controller /\ ctl.index \in Numbers
      /\ Modulus \in Nat /\ Modulus >= 2 /\ 0 \in Numbers /\ 0 \in 0 .. Modulus
  BY LinkAssumption DEF SystemSound, Planned, Controller, Numbers
<1>2. ASSUME down' = down \/ down' = None, up' = up,
             Joined(ctl) => Joined(ctl')
      PROVE  Conveyed'
  BY <1>1, <1>2 DEF Conveyed, Plausible
<1>3. CASE StartScan
  <2>1. Sound(dev')
    BY <1>1, <1>3, FoundSound DEF StartScan
  <2>2. /\ "scan" \in Jobs /\ down' = None
        /\ ctl.tilt \in Tilts \cup {None} /\ ctl.target \in Tilts
    BY <1>1, <1>3 DEF StartScan, Controller
  <2>3. ctl' = [ctl EXCEPT !.job = "scan", !.step = 1, !.at = "sending",
                           !.index = 0, !.listed = FALSE, !.tilt = None,
                           !.target = ctl.target, !.done = "none"]
    BY <1>1, <1>3 DEF StartScan, Controller
  <2>4. ctl' = Starting(ctl, "scan", 0, None, ctl.target)
    BY <2>3 DEF Starting
  <2>5. Planned(ctl')
    BY <1>1, <2>2, <2>4, StartPlanned
  <2>6. Conveyed'
    BY <1>1, <1>3, <2>2 DEF Conveyed, StartScan
  <2> QED BY <1>1, <1>3, <2>1, <2>5, <2>6 DEF StartScan, SystemSound
<1>4. CASE StartCommand
  <2>1. PICK job \in Jobs \ {"scan"}, target \in Tilts :
          ctl' = [ctl EXCEPT !.job = job, !.step = 1, !.at = "sending",
                             !.index = Plus1(@), !.target = target,
                             !.done = "none"]
    BY <1>4 DEF StartCommand
  <2>2. /\ job \in DOMAIN Plans /\ Plus1(ctl.index) \in Numbers /\ ctl.listed
        /\ down = None /\ down' = None /\ up' = up /\ dev' = dev /\ Count(ctl')
    BY <1>1, <1>4, SystemAssumption, Successor DEF StartCommand
  <2>3. /\ ctl' = [ctl EXCEPT !.job = job, !.step = 1, !.at = "sending",
                              !.index = Plus1(ctl.index), !.listed = TRUE,
                              !.tilt = ctl.tilt, !.target = target, !.done = "none"]
        /\ ctl.tilt \in Tilts \cup {None}
    BY <1>1, <2>1, <2>2 DEF Controller
  <2>4. ctl' = Starting(ctl, job, Plus1(ctl.index), ctl.tilt, target)
    BY <2>3 DEF Starting
  <2>5. Planned(ctl')
    <3>1. job \in Jobs /\ job # "scan" /\ target \in Tilts
      OBVIOUS
    <3> QED BY <1>1, <2>2, <2>3, <2>4, <3>1, StartPlanned
  <2>6. Conveyed'
    BY <1>1, <2>2 DEF Conveyed
  <2>7. missed' \in 0 .. Modulus
    BY <1>1, <2>2, CountType
  <2> QED BY <1>1, <2>2, <2>5, <2>6, <2>7 DEF SystemSound
<1>5. CASE Send \/ PollResult
  <2>1. PICK frame : Write(frame) /\ ctl.at # "idle"
                     /\ (frame = RequestFrame(ctl)
                          \/ frame = [type |-> "RR", nr |-> RequestFrame(ctl).nr,
                                      poll |-> TRUE])
    BY <1>5 DEF Send, PollResult
  <2>2. /\ ctl.job # "none" /\ down' \in {frame, None} /\ up' = up /\ dev' = dev
        /\ missed' = missed /\ ctl' = [ctl EXCEPT !.at = "awaiting"]
    BY <1>1, <2>1 DEF Write, Planned
  <2>3. ctl' \in Controller
    BY <1>1, <2>2 DEF Controller
  <2>4. Planned(ctl') /\ (Joined(ctl) => Joined(ctl'))
    BY <1>1, <2>2, <2>3 DEF Planned, Controller, Joined
  <2>5. ASSUME frame = RequestFrame(ctl) PROVE Plausible(frame)'
    <3>1. Number(ctl) \in Numbers
      BY <1>1, Successor DEF Number
    <3> QED BY <1>1, <2>2, <2>4, <2>5, <3>1, RequestFrameAsked DEF Plausible
  <2>6. ASSUME frame # RequestFrame(ctl) PROVE Plausible(frame)'
    BY <2>1, <2>6 DEF Plausible
  <2>7. Conveyed'
    BY <1>1, <2>2, <2>5, <2>6 DEF Conveyed
  <2> QED BY <1>1, <2>2, <2>4, <2>7 DEF SystemSound
<1>6. CASE GiveUp
  <2>1. /\ ctl.job # "none" /\ ctl' = Took(ctl, None) /\ Count(ctl')
        /\ dev' = dev /\ down' = down /\ up' = up
    BY <1>1, <1>6 DEF GiveUp, Planned
  <2>2. Planned(ctl') /\ (Joined(ctl) => Joined(ctl'))
    BY <1>1, <2>1, TookPlanned
  <2>3. missed' \in 0 .. Modulus
    BY <1>1, <2>1, CountType
  <2> QED BY <1>1, <1>2, <2>1, <2>2, <2>3 DEF SystemSound
<1>7. CASE Cancel
  <2> DEFINE unsent == Len(Plans[ctl.job]) - ctl.step
             later  == (ctl.index + unsent) % Modulus
             c      == [ctl EXCEPT !.index = later]
  <2>1. ctl.job # "none" /\ dev' = dev /\ down' = down /\ up' = up
    BY <1>1, <1>7 DEF Cancel, Planned
  <2>2. unsent \in 0 .. 5
    <3>1. \A l \in 1 .. 6, s \in 1 .. 6 : s <= l => l - s \in 0 .. 5
      OBVIOUS
    <3>2. ctl.step \in 1 .. 6 /\ ctl.step <= Len(Plans[ctl.job])
          /\ Len(Plans[ctl.job]) \in 1 .. 6
      BY <1>1, <2>1, Exchanging
    <3> QED BY <3>1, <3>2
  <2>3. \/ /\ ctl.job = "scan" /\ ctl.step > 1 /\ ctl' = End(c, TRUE)
           /\ missed' = IF missed + unsent < Modulus THEN missed + unsent ELSE Modulus
        \/ ~(ctl.job = "scan" /\ ctl.step > 1)
           /\ ctl' = End(ctl, FALSE) /\ missed' = missed
    <3>1. [ctl EXCEPT !.index = (@ + unsent) % Modulus] = c
      BY <1>1 DEF Controller
    <3> HIDE DEF c
    <3> QED BY <1>7, <3>1 DEF Cancel
  <2> HIDE DEF unsent
  <2>4. c \in Controller /\ c.listed = ctl.listed
    <3>1. later \in Numbers
      <4>1. ctl.index + unsent \in Int /\ Modulus \in Int /\ Modulus > 0
        BY <1>1, <2>2 DEF Numbers
      <4>2. later \in 0 .. Modulus - 1
        BY <4>1
      <4> QED BY <4>2 DEF Numbers
    <3> HIDE DEF later
    <3> QED BY <1>1, <3>1 DEF Controller
  <2> HIDE DEF c, later
  <2>5. /\ Planned(End(c, TRUE)) /\ Ended(c, End(c, TRUE), TRUE)
        /\ Planned(End(ctl, FALSE)) /\ Ended(ctl, End(ctl, FALSE), FALSE)
    BY <1>1, <2>4, EndEnded
  <2>6. Planned(ctl')
    BY <2>3, <2>5
  <2>7. ASSUME Joined(ctl) PROVE Joined(ctl')
    <3>1. CASE ctl' = End(c, TRUE)
      BY <2>5, <3>1, Zenon DEF Ended, Joined
    <3>2. CASE ctl' = End(ctl, FALSE) /\ ~(ctl.job = "scan" /\ ctl.step > 1)
      <4>1. ctl.listed
        BY <1>1, <2>1, <2>7, <3>2 DEF Planned, Joined
      <4> QED BY <2>5, <3>2, <4>1, Zenon DEF Ended, Joined
    <3> QED BY <2>3, <3>1, <3>2
  <2>8. missed' \in 0 .. Modulus
    <3>1. missed \in 0 .. Modulus /\ Modulus \in Nat /\ missed + unsent >= 0
      BY <1>1, <2>2
    <3>2. \/ missed' = missed \/ missed' = Modulus
          \/ missed' = missed + unsent /\ missed + unsent < Modulus
      BY <2>3, Zenon
    <3> QED BY <2>2, <3>1, <3>2
  <2> QED BY <1>1, <1>2, <2>1, <2>6, <2>7, <2>8 DEF SystemSound
<1> QED BY <1>3, <1>4, <1>5, <1>6, <1>7

(* A frame is read. *)
LEMMA ReadSound ==
  ASSUME SystemSound, Read
  PROVE  SystemSound'
<1> DEFINE f == Head(up)
<1>1. /\ Sound(dev) /\ Planned(ctl) /\ Conveyed /\ missed \in 0 .. Modulus
      /\ ctl \in Controller /\ ctl.job # "none" /\ up # <<>> /\ up \in Seq(Frame)
      /\ dev' = dev /\ down' = down /\ up' = Tail(up)
      /\ Modulus \in Nat /\ Modulus >= 2
  BY LinkAssumption DEF SystemSound, Planned, Conveyed, Read
<1>2. /\ f = up[1] /\ 1 \in 1 .. Len(up) /\ Len(Tail(up)) = Len(up) - 1
      /\ Len(up) \in Nat /\ Tail(up) \in Seq(Frame)
      /\ \A i \in 1 .. Len(up) - 1 : i + 1 \in 1 .. Len(up) /\ Tail(up)[i] = up[i + 1]
  BY <1>1
<1>3. f \in Frame /\ Honestly(f) /\ f # None
  BY <1>1, <1>2, NoneAssumption DEF Conveyed
<1> HIDE DEF f
<1>4. \/ /\ IsResponseFor(ctl, f)
         /\ ctl' = IF Procedure(ctl) = "SNRM" THEN Continue(ctl) ELSE Took(ctl, f.msg)
         /\ missed' = IF ctl'.at = "idle" THEN 0 ELSE 1
      \/ ctl' = [ctl EXCEPT !.at = "polling"] /\ missed' = missed
      \/ ctl' = ctl /\ missed' = missed
  BY DEF Read, f
<1>5. Planned(ctl') /\ (Joined(ctl) => Joined(ctl'))
  <2>1. CASE IsResponseFor(ctl, f) /\ Procedure(ctl) = "SNRM" /\ ctl' = Continue(ctl)
    <3>1. Planned(ctl')
      BY <1>1, <2>1, ContinueAdvances
    <3>2. ~Joined(ctl)
      BY <1>1, <2>1, Exchanging
    <3> QED BY <3>1, <3>2
  <2>2. CASE /\ IsResponseFor(ctl, f) /\ Procedure(ctl) # "SNRM"
             /\ ctl' = Took(ctl, f.msg)
    <3>1. f.msg \in Answer /\ Honest(f.msg) /\ f.msg.proc = Procedure(ctl)
      BY <1>3, <2>2 DEF IsResponseFor, Honestly
    <3> QED BY <1>1, <2>2, <3>1, TookPlanned
  <2>3. CASE ctl' = [ctl EXCEPT !.at = "polling"]
    <3>1. ctl' \in Controller
      BY <1>1, <2>3 DEF Controller
    <3> QED BY <1>1, <2>3, <3>1 DEF Planned, Controller, Joined
  <2>4. CASE ctl' = ctl
    BY <1>1, <2>4
  <2> QED BY <1>4, <2>1, <2>2, <2>3, <2>4
<1>6. missed' \in 0 .. Modulus
  BY <1>1, <1>4
<1>7. Conveyed'
  <2>1. down # None => Plausible(down)'
    BY <1>1, <1>5 DEF Conveyed, Plausible
  <2>2. LineDepth \in Nat
    BY SystemAssumption
  <2> QED BY <1>1, <1>2, <2>1, <2>2 DEF Conveyed
<1> QED BY <1>1, <1>5, <1>6, <1>7 DEF SystemSound

(* The device hears a frame. *)
LEMMA HearSound ==
  ASSUME SystemSound, Hear
  PROVE  SystemSound'
<1>1. /\ Sound(dev) /\ Planned(ctl) /\ Conveyed /\ missed \in 0 .. Modulus
      /\ down # None /\ down' = None /\ ctl' = ctl /\ up' = up /\ missed' = missed
  BY DEF SystemSound, Hear
<1>2. Sound(dev')
  <2>1. CASE ~Addressed
    BY <1>1, <2>1 DEF Hear
  <2>2. CASE Addressed /\ dev.link_state # "CONNECTED" /\ down.type # "SNRM"
    <3>1. dev' = Respond(dev, "DM")
      BY <1>1, <2>2 DEF Hear, Connected, Conveyed, Plausible
    <3> QED BY <1>1, <2>2, <3>1, RejectSound DEF Addressed
  <2>3. CASE Addressed /\ down.type = "SNRM"
    <3>1. dev' = ProcessSnrm(dev)
      BY <2>3 DEF Hear
    <3> QED BY <1>1, <2>3, <3>1, ProcessSnrmSound DEF Addressed
  <2>4. CASE Addressed /\ dev.link_state = "CONNECTED" /\ down.type = "RR"
    <3>1. dev' = ProcessSupervisory(dev, down) /\ down.poll
      BY <1>1, <2>4 DEF Hear, Connected, Conveyed, Plausible
    <3> QED BY <1>1, <2>4, <3>1, ProcessSupervisorySound
  <2>5. CASE Addressed /\ dev.link_state = "CONNECTED" /\ down.type = "I"
    <3>1. PICK e \in Outcomes : dev' = ProcessI(dev, down, e)
      BY <2>5 DEF Hear, Connected
    <3>2. e \in Environment /\ down.req \in Asked
      BY <1>1, <2>5, LinkAssumption DEF Conveyed, Plausible
    <3> QED BY <1>1, <2>5, <3>1, <3>2, ProcessISound
  <2> QED BY <1>1, <2>1, <2>2, <2>3, <2>4, <2>5 DEF Conveyed, Plausible
<1>3. Conveyed'
  BY <1>1 DEF Conveyed
<1> QED BY <1>1, <1>2, <1>3 DEF SystemSound

(* A pass of the main loop. *)
LEMMA RunSound ==
  ASSUME SystemSound, Run
  PROVE  SystemSound'
<1>1. /\ Sound(dev) /\ Planned(ctl) /\ Conveyed /\ missed \in 0 .. Modulus
      /\ down' = down /\ ctl' = ctl /\ missed' = missed
  BY DEF SystemSound, Run
<1>2. PICK fault \in DriverFaults, e \in PollOutcomes :
        LET looked == SetAlarm(dev, 0, "HARDWARE_ERROR", fault)
        IN  /\ dev' = DevicePoll(looked, e)
            /\ \/ up' = up
               \/ /\ Transmits(looked, e) /\ Len(up) < LineDepth
                  /\ up' = Append(up, looked.pending)
  BY DEF Run
<1> DEFINE looked == SetAlarm(dev, 0, "HARDWARE_ERROR", fault)
<1>3. Sound(looked)
  BY <1>1, LooksAtFault
<1>4. /\ dev' = DevicePoll(looked, e) /\ e \in PollEnvironment
      /\ \/ up' = up
         \/ /\ Transmits(looked, e) /\ Len(up) < LineDepth
            /\ up' = Append(up, looked.pending)
  BY <1>2, LinkAssumption
<1> HIDE DEF looked
<1>5. Sound(dev')
  BY <1>3, <1>4, DevicePollPasses
<1>6. down # None => Plausible(down)'
  BY <1>1 DEF Conveyed, Plausible
<1>7. CASE up' = up
  BY <1>1, <1>5, <1>6, <1>7 DEF Conveyed, SystemSound
<1>8. CASE /\ Transmits(looked, e) /\ Len(up) < LineDepth
           /\ up' = Append(up, looked.pending)
  <2>1. looked.pending \in Frame /\ Honestly(looked.pending)
    BY <1>3, <1>8, SoundDevice DEF Transmits, Device, Sound, Truthful
  <2>2. up \in Seq(Frame) /\ LineDepth \in Nat
    BY <1>1, SystemAssumption DEF Conveyed
  <2>3. /\ up' \in Seq(Frame) /\ Len(up') = Len(up) + 1 /\ Len(up) \in Nat
        /\ \A i \in 1 .. Len(up) : up'[i] = up[i]
        /\ up'[Len(up) + 1] = looked.pending
    BY <1>8, <2>1, <2>2, AppendProperties, LenProperties
  <2>4. Conveyed'
    BY <1>1, <1>6, <1>8, <2>1, <2>2, <2>3 DEF Conveyed
  <2> QED BY <1>1, <1>5, <2>4 DEF SystemSound
<1> QED BY <1>4, <1>7, <1>8

LEMMA SystemNextSound == SystemSound /\ [SystemNext]_systemVars => SystemSound'
<1> SUFFICES ASSUME SystemSound, [SystemNext]_systemVars PROVE SystemSound'
  OBVIOUS
<1>1. CASE UNCHANGED systemVars
  BY <1>1 DEF systemVars, SystemSound, Conveyed, Plausible
<1>2. CASE StartScan \/ StartCommand \/ Send \/ PollResult \/ GiveUp \/ Cancel
  BY <1>2, ControllerStepSound
<1> QED BY <1>1, <1>2, ReadSound, HearSound, RunSound DEF SystemNext

(* Whatever is lost, late, cancelled or restarted, every part of the       *)
(* system has its type: the numbers of both ends stay sequence numbers,    *)
(* the tilt in the list is a tilt, and no more frames are in the input     *)
(* buffer than it holds.                                                   *)
THEOREM SystemTyped == SystemSpec => []SystemTypeOK
<1>1. SystemInit => SystemSound
  BY SystemInitSound
<1>2. SystemSound /\ [SystemNext]_systemVars => SystemSound'
  BY SystemNextSound
<1>3. SystemSound => SystemTypeOK
  <2>1. ASSUME SystemSound PROVE TypeOK
    <3>1. dev \in Device /\ dev.l7_queue \in Queues
      BY <2>1, SoundDevice DEF SystemSound
    <3> QED BY <3>1 DEF TypeOK, Queues
  <2> QED BY <2>1 DEF SystemSound, SystemTypeOK, Conveyed, Plausible, Planned
<1> QED BY <1>1, <1>2, <1>3, PTL DEF SystemSpec

-----------------------------------------------------------------------------
(* A session: the device answers its requests one by one.                  *)

IsI(f)   == f # None /\ f.type = "I"
Whole(f) == IsI(f) /\ f.nr = Plus1(f.ns)
On(d)    == d.link_state = "CONNECTED"

(* The device owes its primary the answer of a request.                    *)
Waiting(d) == d.tcc # None \/ d.l7_queue # <<>>

(* It owes one answer at most, and expects no request but the next.        *)
Attuned(d) ==
  /\ d.receive_sequence = IF Waiting(d) THEN Plus1(d.send_sequence)
                                        ELSE d.send_sequence
  /\ d.tcc # None => d.l7_queue = <<>>
  /\ Len(d.l7_queue) <= 1
  /\ Waiting(d) => d.outstanding = None
  /\ d.outstanding # None => Whole(d.outstanding)
  /\ IsI(d.pending) => Whole(d.pending)

(* f tells the end of the move that request n asked for.                   *)
Claims(f, n) ==
  Whole(f) /\ f.ns = n /\ f.msg.proc = "SetTilt" /\ f.msg.code = "OK"

(* Whatever the device has yet to tell of request n, a move to tilt t, it  *)
(* only tells of its end once the antenna stands there.                    *)
Promises(d, n, t) ==
  /\ d.send_sequence = n /\ d.tcc # None =>
       d.tcc.type = "SET_TILT" /\ d.tcc.ant = 1 /\ d.tcc.target = t
  /\ d.send_sequence = n /\ d.l7_queue # <<>> =>
       (Head(d.l7_queue).proc = "SetTilt" /\ Head(d.l7_queue).code = "OK"
          => Stands(d, t))
  /\ Claims(d.pending, n) \/ Claims(d.outstanding, n) => Stands(d, t)

(* A step of the device that owes what it owed, and one that pays.         *)
Steady(d, x)    == x.send_sequence = d.send_sequence /\ (Waiting(x) <=> Waiting(d))
Delivers(d, x)  == /\ Waiting(d) /\ ~Waiting(x)
                   /\ x.send_sequence = Plus1(d.send_sequence)

LEMMA ServesPoll ==
  ASSUME NEW d, Sound(d), Attuned(d), NEW x, SameCommand(d, x),
         x.receive_sequence = d.receive_sequence, Responds(d, x)
  PROVE  /\ Attuned(x) /\ x.pending.type # "UA"
         /\ Steady(d, x) \/ Delivers(d, x)
         /\ \A n, t : Promises(d, n, t) => Promises(x, n, t)
<1>1. /\ d.l7_queue \in Seq(Answer) /\ d.send_sequence \in Numbers
      /\ d.receive_sequence \in Numbers
      /\ d.outstanding # None => d.outstanding.type = "I"
  BY SoundDevice DEF Device, Sound, Good, GoodLink, Current
<1>2. x.tcc = d.tcc /\ \A t : Stands(d, t) => Stands(x, t)
  BY DEF SameCommand, Stands
<1>3. CASE /\ d.outstanding # None /\ x.pending = d.outstanding
           /\ x.l7_queue = d.l7_queue /\ x.outstanding = d.outstanding
           /\ x.send_sequence = d.send_sequence
  <2>1. Attuned(x) /\ x.pending.type # "UA" /\ Steady(d, x)
    BY <1>1, <1>2, <1>3 DEF Attuned, Steady, Waiting, IsI
  <2>2. \A n, t : Promises(d, n, t) => Promises(x, n, t)
    BY <1>2, <1>3 DEF Promises
  <2> QED BY <2>1, <2>2
<1>4. CASE /\ d.outstanding = None /\ d.l7_queue # <<>>
           /\ x.pending = Carried(d) /\ x.outstanding = Carried(d)
           /\ x.l7_queue = Tail(d.l7_queue)
           /\ x.send_sequence = Plus1(d.send_sequence)
  <2>1. x.tcc = None /\ Waiting(d) /\ d.receive_sequence = Plus1(d.send_sequence)
    BY <1>2, <1>4 DEF Attuned, Waiting
  <2>2. x.l7_queue = <<>> /\ Len(x.l7_queue) = 0
    <3>1. Len(d.l7_queue) = 1
      <4>1. Len(d.l7_queue) <= 1
        BY DEF Attuned
      <4>2. Len(d.l7_queue) \in Nat /\ Len(d.l7_queue) # 0
        BY <1>1, <1>4, EmptySeq, LenProperties
      <4>3. \A n \in Nat : n # 0 /\ n <= 1 => n = 1
        OBVIOUS
      <4> QED BY <4>1, <4>2, <4>3
    <3>2. Len(Tail(d.l7_queue)) = 0 /\ Tail(d.l7_queue) \in Seq(Answer)
      BY <1>1, <1>4, <3>1
    <3>3. \A q \in Seq(Answer) : Len(q) = 0 => q = <<>>
      OBVIOUS
    <3> QED BY <1>4, <3>2, <3>3
  <2>3. Carried(d) \in Frame
    <3>1. Head(d.l7_queue) \in Answer
      BY <1>1, <1>4
    <3> QED BY <1>1, <3>1 DEF Carried, Frame
  <2>4. /\ Whole(Carried(d)) /\ Carried(d).ns = d.send_sequence
        /\ Carried(d).msg = Head(d.l7_queue) /\ Carried(d).type = "I"
    BY <2>1, <2>3, NoneAssumption DEF Whole, IsI, Carried
  <2>5. Attuned(x) /\ x.pending.type # "UA" /\ Delivers(d, x)
    BY <1>4, <2>1, <2>2, <2>4 DEF Attuned, Delivers, Waiting
  <2>6. \A n, t : Promises(d, n, t) => Promises(x, n, t)
    BY <1>2, <1>4, <2>1, <2>2, <2>4 DEF Promises, Claims
  <2> QED BY <2>5, <2>6
<1>5. CASE /\ x.pending = Plain("RR", d.receive_sequence)
           /\ x.l7_queue = d.l7_queue /\ x.outstanding = d.outstanding
           /\ x.send_sequence = d.send_sequence
  <2>1. x.pending.type = "RR"
    BY <1>5 DEF Plain
  <2>2. Attuned(x) /\ Steady(d, x)
    BY <1>2, <1>5, <2>1 DEF Attuned, Steady, Waiting, IsI
  <2>3. \A n, t : Promises(d, n, t) => Promises(x, n, t)
    BY <1>2, <1>5, <2>1 DEF Promises, Claims, Whole, IsI
  <2> QED BY <2>1, <2>2, <2>3
<1> QED BY <1>3, <1>4, <1>5 DEF Responds

(* A frame that is out of order. *)
LEMMA ServesReject ==
  ASSUME NEW d, Sound(d), Attuned(d), NEW x, x = Reject(d)
  PROVE  /\ Attuned(x) /\ x.pending.type # "UA" /\ Steady(d, x)
         /\ SameCommand(d, x)
         /\ \A n, t : Promises(d, n, t) => Promises(x, n, t)
<1>1. /\ SameCommand(d, x) /\ SameQueue(d, x) /\ x.pending = Plain("FRMR", 0)
      /\ x.outstanding = d.outstanding /\ x.receive_sequence = d.receive_sequence
  BY SoundDevice, ScheduleSame DEF Reject, Respond
<1>2. x.pending.type = "FRMR"
  BY <1>1 DEF Plain
<1>3. Attuned(x) /\ Steady(d, x)
  BY <1>1, <1>2 DEF Attuned, Steady, Waiting, IsI, SameCommand, SameQueue
<1>4. \A n, t : Promises(d, n, t) => Promises(x, n, t)
  BY <1>1, <1>2 DEF Promises, Claims, Whole, IsI, Stands, SameCommand, SameQueue
<1> QED BY <1>1, <1>2, <1>3, <1>4

LEMMA ServesSupervisory ==
  ASSUME NEW d, Sound(d), On(d), Attuned(d), NEW f, f.type = "RR", f.poll,
         ~HasIndication(ProcessSupervisory(d, f))
  PROVE  LET x == ProcessSupervisory(d, f)
         IN  /\ Attuned(x) /\ x.pending.type # "UA" /\ SameCommand(d, x)
             /\ Steady(d, x) \/ Delivers(d, x)
             /\ \A n, t : Promises(d, n, t) => Promises(x, n, t)
<1> DEFINE x == ProcessSupervisory(d, f)
<1>1. PICK heard :
           /\ Sound(heard) /\ SameCommand(d, heard) /\ SameQueue(d, heard)
           /\ heard.pending = d.pending
           /\ heard.outstanding \in {None, d.outstanding}
           /\ heard.receive_sequence = d.receive_sequence
           /\ \/ x = Reject(d)
              \/ heard.outstanding # None /\ x = Schedule(heard, heard.outstanding)
              \/ x = RespondToPoll(heard)
  BY ProcessSupervisoryCases DEF On
<1> HIDE DEF x
<1>2. /\ Attuned(heard) /\ (Waiting(heard) <=> Waiting(d))
      /\ heard.send_sequence = d.send_sequence
  BY <1>1 DEF Attuned, Waiting, SameCommand, SameQueue
<1>3. \A n, t : Promises(d, n, t) => Promises(heard, n, t)
  BY <1>1 DEF Promises, Claims, Whole, IsI, Stands, SameCommand, SameQueue
<1>4. ASSUME Responds(heard, x), SameCommand(heard, x),
             x.receive_sequence = heard.receive_sequence
      PROVE  /\ Attuned(x) /\ x.pending.type # "UA" /\ SameCommand(d, x)
             /\ Steady(d, x) \/ Delivers(d, x)
             /\ \A n, t : Promises(d, n, t) => Promises(x, n, t)
  <2>1. /\ Attuned(x) /\ x.pending.type # "UA"
        /\ Steady(heard, x) \/ Delivers(heard, x)
        /\ \A n, t : Promises(heard, n, t) => Promises(x, n, t)
    BY <1>1, <1>2, <1>4, ServesPoll
  <2>2. SameCommand(d, x)
    BY <1>1, <1>4 DEF SameCommand
  <2>3. Steady(d, x) \/ Delivers(d, x)
    BY <1>2, <2>1 DEF Steady, Delivers
  <2> QED BY <1>3, <2>1, <2>2, <2>3
<1>5. CASE x = Reject(d)
  <2>1. /\ Attuned(x) /\ x.pending.type # "UA" /\ Steady(d, x) /\ SameCommand(d, x)
        /\ \A n, t : Promises(d, n, t) => Promises(x, n, t)
    BY <1>5, ServesReject
  <2> QED BY <2>1 DEF x
<1>6. CASE heard.outstanding # None /\ x = Schedule(heard, heard.outstanding)
  <2>1. /\ SameCommand(heard, x) /\ SameQueue(heard, x)
        /\ x.pending = heard.outstanding /\ x.outstanding = heard.outstanding
        /\ x.receive_sequence = heard.receive_sequence
    BY <1>1, <1>6, SoundDevice, ScheduleSame
  <2>2. Responds(heard, x)
    BY <1>6, <2>1 DEF Responds, SameQueue
  <2> QED BY <1>4, <2>1, <2>2 DEF x
<1>7. CASE x = RespondToPoll(heard)
  <2>1. ~HasIndication(x)
    BY DEF x
  <2>2. Good(heard) /\ heard.link_state = "CONNECTED"
    BY <1>1 DEF On, SameCommand, Sound
  <2>3. /\ SameCommand(heard, x) /\ x.receive_sequence = heard.receive_sequence
        /\ Responds(heard, x)
    BY <1>7, <2>1, <2>2, RespondsToPoll
  <2> QED BY <1>4, <2>3 DEF x
<1> QED BY <1>1, <1>5, <1>6, <1>7

(* The next request, when every other is answered.                         *)
LEMMA ServesRequest ==
  ASSUME NEW d, Sound(d), On(d), Attuned(d), ~Waiting(d),
         NEW f, f.poll, f.req \in Asked,
         f.ns = d.send_sequence, f.nr = d.send_sequence,
         NEW e \in Environment, ~HasIndication(ProcessI(d, f, e))
  PROVE  LET x == ProcessI(d, f, e)
         IN  /\ Attuned(x) /\ x.pending.type # "UA" /\ On(x)
             /\ \/ Waiting(x) /\ x.send_sequence = d.send_sequence
                \/ ~Waiting(x) /\ x.send_sequence = Plus1(d.send_sequence)
             /\ f.req.proc = "SetTilt" => Promises(x, f.ns, f.req.arg)
<1> DEFINE acked    == Acknowledge(d, f.nr)
           accepted == HandleL7(Counted(acked), f.req, e)
           x        == ProcessI(d, f, e)
<1>1. /\ d \in Device /\ d.send_sequence \in Numbers
      /\ d.tcc = None /\ d.l7_queue = <<>> /\ d.receive_sequence = d.send_sequence
      /\ Plus1(d.send_sequence) # d.send_sequence
      /\ Modulus \in Nat /\ Modulus >= 2
  <2>1. d \in Device /\ d.send_sequence \in Numbers /\ Modulus \in Nat /\ Modulus >= 2
    BY SoundDevice, LinkAssumption DEF Device
  <2>2. Plus1(d.send_sequence) # d.send_sequence
    BY <2>1, Successor DEF Numbers
  <2> QED BY <2>1, <2>2 DEF Attuned, Waiting
<1>2. /\ Sound(acked) /\ On(acked) /\ acked.tcc = None /\ acked.l7_queue = <<>>
      /\ acked.send_sequence = d.send_sequence /\ acked.outstanding = None
      /\ acked.receive_sequence = d.receive_sequence /\ acked.pending = d.pending
  <2>1. Sound(acked)
    BY AcknowledgeSound
  <2> QED BY <1>1, <2>1, AcknowledgeSame DEF SameCommand, SameQueue, On
<1>3. x = RespondToPoll(accepted)
  <2>1. ValidAcknowledgement(d, f.nr) /\ f.ns = d.receive_sequence
    BY <1>1 DEF ValidAcknowledgement
  <2>2. f.req.shape # "long"
    BY DEF Asked
  <2> HIDE DEF acked
  <2>3. x = IF f.poll THEN RespondToPoll(accepted) ELSE accepted
    BY <2>1, <2>2 DEF ProcessI, acked, Counted
  <2> QED BY <2>3
<1> HIDE DEF acked, x
<1>4. /\ Sound(accepted) /\ SameLink(Counted(acked), accepted)
      /\ Answers(acked, accepted, f.req) \/ Starts(acked, accepted, f.req)
  BY <1>2, PerformedSound DEF On
<1> HIDE DEF accepted
<1>5. /\ On(accepted) /\ accepted.send_sequence = d.send_sequence
      /\ accepted.receive_sequence = Plus1(d.send_sequence)
      /\ accepted.outstanding = None /\ accepted.pending = d.pending
  BY <1>1, <1>2, <1>4, CountedSame, SoundDevice
     DEF SameLink, SameCommand, SameQueue, On
<1>6. /\ Waiting(accepted) /\ Len(accepted.l7_queue) <= 1
      /\ accepted.tcc # None => accepted.l7_queue = <<>>
      /\ f.req.proc = "SetTilt" /\ accepted.tcc # None =>
           /\ accepted.tcc.type = "SET_TILT" /\ accepted.tcc.ant = 1
           /\ accepted.tcc.target = f.req.arg
      /\ f.req.proc = "SetTilt" /\ accepted.l7_queue # <<>> =>
           Head(accepted.l7_queue).code # "OK"
  <2>1. CASE Answers(acked, accepted, f.req)
    <3>1. PICK m \in Answer : /\ Gets(acked, accepted, m)
                              /\ f.req.proc \in Commands => m.code # "OK"
      BY <2>1 DEF Answers
    <3>2. QueueDepth \in Nat \ {0} /\ Len(<<>>) = 0 /\ Append(<<>>, m) = <<m>>
      BY DeviceAssumption
    <3>3. accepted.l7_queue = <<m>> /\ accepted.tcc = None
      BY <1>2, <2>1, <3>1, <3>2 DEF Answers, Gets
    <3>4. Len(<<m>>) = 1 /\ Head(<<m>>) = m /\ <<m>> # <<>>
      OBVIOUS
    <3> QED BY <3>1, <3>3, <3>4 DEF Waiting, Commands
  <2>2. CASE Starts(acked, accepted, f.req)
    <3>1. Len(accepted.l7_queue) = 0 /\ accepted.l7_queue = <<>>
      BY <1>2, <2>2 DEF Starts
    <3> QED BY <2>2, <3>1 DEF Starts, Waiting
  <2> QED BY <1>4, <2>1, <2>2
<1>7. Attuned(accepted)
  BY <1>5, <1>6 DEF Attuned, Whole, IsI
<1>8. ASSUME f.req.proc = "SetTilt"
      PROVE  Promises(accepted, f.ns, f.req.arg)
  <2>1. ~Claims(accepted.outstanding, f.ns)
    BY <1>5 DEF Claims, Whole, IsI
  <2>2. ~Claims(accepted.pending, f.ns)
    <3>1. Current(accepted)
      BY <1>4 DEF Sound, Good, GoodLink
    <3> QED BY <1>1, <1>5, <3>1 DEF Claims, Whole, IsI, Current
  <2> QED BY <1>6, <1>8, <2>1, <2>2 DEF Promises
<1>9. /\ SameCommand(accepted, x) /\ x.receive_sequence = accepted.receive_sequence
      /\ Responds(accepted, x)
  <2>1. ~HasIndication(x)
    BY DEF x
  <2> QED BY <1>3, <1>4, <1>5, <2>1, RespondsToPoll DEF Sound, On
<1>10. /\ Attuned(x) /\ x.pending.type # "UA"
       /\ Steady(accepted, x) \/ Delivers(accepted, x)
       /\ f.req.proc = "SetTilt" => Promises(x, f.ns, f.req.arg)
  BY <1>4, <1>7, <1>8, <1>9, ServesPoll
<1>11. On(x)
  BY <1>5, <1>9 DEF SameCommand, On
<1>12. \/ Waiting(x) /\ x.send_sequence = d.send_sequence
       \/ ~Waiting(x) /\ x.send_sequence = Plus1(d.send_sequence)
  BY <1>5, <1>6, <1>10 DEF Steady, Delivers
<1> QED BY <1>10, <1>11, <1>12 DEF x

(* A pass of the main loop that restarts nothing.                          *)
LEMMA ServesPass ==
  ASSUME NEW d, Sound(d), On(d), Attuned(d), NEW x, Passes(d, x)
  PROVE  /\ Attuned(x) /\ On(x) /\ Steady(d, x)
         /\ x.pending = None \/ x.pending = d.pending
         /\ \A n, t : Promises(d, n, t) => Promises(x, n, t)
<1>1. CASE x.tcc = d.tcc /\ x.l7_queue = d.l7_queue
  <2>1. Attuned(x) /\ Steady(d, x) /\ On(x)
    BY <1>1 DEF Passes, Attuned, Steady, Waiting, IsI, On
  <2>2. \A t : Stands(d, t) => Stands(x, t)
    BY <1>1 DEF Passes, Stands
  <2>3. \A n, t : Promises(d, n, t) => Promises(x, n, t)
    BY <1>1, <2>2 DEF Passes, Promises, Claims, Whole, IsI
  <2> QED BY <2>1, <2>3 DEF Passes
<1>2. CASE d.tcc # None /\ Ends(d, x)
  <2>1. PICK m \in Answer :
             /\ Gets(d, x, m)
             /\ m.code = "OK" /\ d.tcc.type = "SET_TILT" /\ d.tcc.ant = 1
                  => Stands(x, d.tcc.target)
    BY <1>2 DEF Ends
  <2>2. d.l7_queue = <<>> /\ d.outstanding = None /\ x.tcc = None
    BY <1>2 DEF Attuned, Waiting, Ends
  <2>3. QueueDepth \in Nat \ {0} /\ Len(<<>>) = 0 /\ Append(<<>>, m) = <<m>>
    BY DeviceAssumption
  <2>4. x.l7_queue = <<m>>
    BY <2>1, <2>2, <2>3 DEF Gets
  <2>5. Len(<<m>>) = 1 /\ Head(<<m>>) = m /\ <<m>> # <<>>
    OBVIOUS
  <2>6. Attuned(x) /\ Steady(d, x) /\ On(x)
    BY <1>2, <2>2, <2>4, <2>5 DEF Passes, Attuned, Steady, Waiting, IsI, On
  <2>7. ASSUME NEW n, NEW t, Promises(d, n, t)
        PROVE  Promises(x, n, t)
    <3>1. ~Claims(x.pending, n) /\ ~Claims(x.outstanding, n)
      <4>1. ~Claims(d.pending, n) /\ ~Claims(d.outstanding, n)
        BY <1>2, <2>7 DEF Promises, Stands
      <4> QED BY <4>1 DEF Passes, Claims, Whole, IsI
    <3>2. ASSUME x.send_sequence = n, Head(x.l7_queue).code = "OK"
          PROVE  Stands(x, t)
      BY <1>2, <2>1, <2>4, <2>5, <2>7, <3>2 DEF Promises, Passes
    <3> QED BY <2>2, <3>1, <3>2 DEF Promises
  <2> QED BY <2>6, <2>7 DEF Passes
<1> QED BY <1>1, <1>2 DEF Passes

-----------------------------------------------------------------------------
(* Both ends of a session and the line between them.                       *)

(* The device has just opened a session. *)
Fresh(d) ==
  /\ d.receive_sequence = 0 /\ d.send_sequence = 0 /\ ~Waiting(d)
  /\ d.outstanding = None /\ ~IsI(d.pending)

Accepts(d) == d.pending # None /\ d.pending.type = "UA"
NoUA       == \A i \in 1 .. Len(up) : up[i].type # "UA"

(* Until the controller reads the UA of its SNRM, nothing follows this UA  *)
(* that the session could take for an answer.                              *)
Opening ==
  /\ Accepts(dev) => NoUA
  /\ Accepts(dev) \/ ~NoUA => (On(dev) => Fresh(dev))
  /\ \A i, j \in 1 .. Len(up) :
       i < j /\ up[i].type = "UA" => up[j].type \notin {"I", "UA"}

(* The device waits for, or works on, the request that was made a requests *)
(* ago, and what is on the line answers this one's predecessors.           *)
Placed(a) ==
  /\ \A i \in 1 .. Len(up) : Whole(up[i]) =>
        \E c \in a + 1 .. missed + 1 : up[i].ns = Back(ctl.index, c)
  /\ On(dev) =>
       /\ Attuned(dev) /\ dev.send_sequence = Back(ctl.index, a)
       /\ Waiting(dev) => a >= 1
       /\ IsI(down) => \E b \in 1 .. a :
            down.ns = Back(ctl.index, b) /\ (a = b => ~Waiting(dev))
       /\ ctl.at = "sending" => a >= 1 /\ (a = 1 => ~Waiting(dev))

(* Answers arrive in order, and none before its request has gone out.      *)
Ordered ==
  /\ \A i, j \in 1 .. Len(up) :
       i < j /\ Whole(up[i]) /\ Whole(up[j]) /\ up[i].ns = Number(ctl) =>
         up[j].ns = Number(ctl)
  /\ IsI(down) \/ ctl.at = "sending" =>
       \A i \in 1 .. Len(up) : Whole(up[i]) => up[i].ns # Number(ctl)

Session ==
  /\ missed < Modulus
  /\ ~Accepts(dev) /\ NoUA
  /\ \E a \in 0 .. missed : Placed(a)
  /\ Ordered
  /\ IsI(down) => /\ ctl.at # "sending"
                  /\ ctl.job # "none" => down = RequestFrame(ctl)
  /\ ctl.done \notin {"none", "scan"} =>
       ~IsI(down) /\ (On(dev) => dev.send_sequence = ctl.index /\ ~Waiting(dev))

(* A move is claimed to have ended only when it has. *)
Moving ==
  ctl.job = "moveRet" =>
    /\ \A i \in 1 .. Len(up) : Claims(up[i], Number(ctl)) => Stands(dev, ctl.target)
    /\ On(dev) => Promises(dev, Number(ctl), ctl.target)

Moved == ctl.done = "moveRet" => Stands(dev, ctl.tilt)

SystemInv ==
  /\ SystemSound
  /\ ~Joined(ctl) => missed = 0
  /\ ~stray => IF Joined(ctl) THEN Session /\ Moving /\ Moved ELSE Opening

LEMMA SystemInitInv == SystemInit => SystemInv
<1> SUFFICES ASSUME SystemInit PROVE SystemInv
  OBVIOUS
<1>1. SystemSound /\ up = <<>> /\ Len(up) = 0 /\ missed = 0 /\ ~Joined(ctl)
  BY SystemInitSound DEF SystemInit, Joined
<1>2. dev.pending = None
  <2>1. PICK stored \in Factory, e \in Outcomes : dev = Boot(stored, e.boot)
    BY DEF SystemInit, Init
  <2>2. stored \in Config \cup {None} /\ e.boot \in Saves
    BY LinkAssumption DEF Environment
  <2> QED BY <2>1, <2>2, BootRestarts DEF Sound, AtRest
<1>3. Opening
  BY <1>1, <1>2 DEF Opening, Accepts, NoUA
<1> QED BY <1>1, <1>3 DEF SystemInv

(* What the invariant says of numbers. *)
LEMMA Counting ==
  ASSUME NEW c, Planned(c)
  PROVE  /\ Modulus \in Nat /\ Modulus >= 2
         /\ c \in Controller /\ c.index \in Numbers
         /\ Number(c) \in Numbers /\ Number(c) = Back(c.index, 1)
         /\ Number(c) # c.index /\ Back(c.index, 0) = c.index
<1>1. /\ Modulus \in Nat /\ Modulus >= 2
      /\ c \in Controller /\ c.index \in Numbers /\ 0 \in 0 .. Modulus
  BY LinkAssumption DEF Planned, Controller
<1>2. Number(c) \in Numbers /\ Number(c) # c.index
  BY <1>1, Successor DEF Number, Numbers
<1>3. Number(c) = Back(c.index, 1) /\ Back(c.index, 0) = c.index
  BY <1>1, BackNumbers DEF Number
<1> QED BY <1>1, <1>2, <1>3

LEMMA Apart ==
  ASSUME NEW index \in Numbers, NEW a \in 1 .. Modulus, NEW b \in 1 .. Modulus,
         Back(index, a) = Back(index, b)
  PROVE  a = b
<1>1. Modulus \in Nat /\ Modulus >= 2
  BY LinkAssumption
<1> QED BY <1>1, BackInjective

(* The same exchange, whatever the worker does about it.                   *)
SameExchange(c, x) ==
  /\ x.job = c.job /\ x.step = c.step /\ x.index = c.index
  /\ x.listed = c.listed /\ x.tilt = c.tilt /\ x.target = c.target
  /\ x.done = c.done

LEMMA SameExchangeSame ==
  ASSUME NEW c, NEW x, SameExchange(c, x)
  PROVE  /\ Procedure(x) = Procedure(c) /\ Number(x) = Number(c)
         /\ RequestFrame(x) = RequestFrame(c)
         /\ Joined(x) <=> Joined(c)
BY DEF SameExchange, Procedure, Number, RequestFrame, Joined

(* n requests are made, or counted and not made: everything on the line is *)
(* that much older.                                                        *)
LEMMA Shifted ==
  ASSUME SystemSound, Session, SystemSound', NEW n \in 0 .. Modulus - 1,
         missed' = missed + n, missed' < Modulus,
         \A a \in 0 .. Modulus :
           a + n <= Modulus => Back(ctl'.index, a + n) = Back(ctl.index, a),
         dev' = dev, down' = down, up' = up,
         ctl'.at = "sending" => n >= 1,
         IsI(down) => ctl'.job = "none",
         IsI(down) => ctl'.at # "sending",
         ctl'.done \in {"none", "scan"}
  PROVE  /\ Session'
         /\ n >= 1 => \A i \in 1 .. Len(up) : Whole(up[i]) => up[i].ns # Number(ctl')
<1>1. /\ Modulus \in Nat /\ Modulus >= 2 /\ missed \in 0 .. Modulus
      /\ ctl.index \in Numbers /\ ctl'.index \in Numbers
      /\ missed < Modulus /\ missed + n < Modulus /\ n \in Nat
      /\ Number(ctl') = Back(ctl'.index, 1) /\ Number(ctl) = Back(ctl.index, 1)
  <2>1. Planned(ctl) /\ Planned(ctl') /\ missed \in 0 .. Modulus
    BY DEF SystemSound
  <2> QED BY <2>1, Counting DEF Session
<1>2. PICK a \in 0 .. missed : Placed(a)
  BY DEF Session
<1>3. ASSUME NEW i \in 1 .. Len(up), Whole(up[i])
      PROVE  /\ \E c \in a + n + 1 .. missed + n + 1 : up[i].ns = Back(ctl'.index, c)
             /\ n >= 1 => up[i].ns # Number(ctl')
  <2>1. PICK c \in a + 1 .. missed + 1 : up[i].ns = Back(ctl.index, c)
    BY <1>2, <1>3 DEF Placed
  <2>2. c \in 0 .. Modulus /\ c + n <= Modulus /\ c + n \in a + n + 1 .. missed + n + 1
    BY <1>1
  <2>3. up[i].ns = Back(ctl'.index, c + n)
    BY <2>1, <2>2
  <2>4. ASSUME n >= 1 PROVE up[i].ns # Number(ctl')
    <3>1. c + n \in 1 .. Modulus /\ 1 \in 1 .. Modulus /\ c + n # 1
      BY <1>1, <2>2, <2>4
    <3> QED BY <1>1, <2>3, <3>1, Apart
  <2> QED BY <2>2, <2>3, <2>4
<1>4. Placed(a + n)'
  <2>1. On(dev) =>
          /\ Attuned(dev) /\ dev.send_sequence = Back(ctl'.index, a + n)
          /\ Waiting(dev) => a + n >= 1
          /\ ctl'.at = "sending" => a + n >= 1 /\ (a + n = 1 => ~Waiting(dev))
    <3>1. a \in 0 .. Modulus /\ a + n <= Modulus
      BY <1>1
    <3>2. Back(ctl'.index, a + n) = Back(ctl.index, a)
      BY <3>1
    <3>3. a + n >= 1 <=> (a >= 1 \/ n >= 1)
      BY <1>1
    <3>4. n >= 1 /\ a + n = 1 => ~(a >= 1)
      BY <1>1
    <3> QED BY <1>2, <3>2, <3>3, <3>4 DEF Placed
  <2>2. On(dev) /\ IsI(down) => \E b \in 1 .. a + n :
          down.ns = Back(ctl'.index, b) /\ (a + n = b => ~Waiting(dev))
    <3> SUFFICES ASSUME On(dev), IsI(down)
                 PROVE  \E b \in 1 .. a + n :
                          down.ns = Back(ctl'.index, b) /\ (a + n = b => ~Waiting(dev))
      OBVIOUS
    <3>1. PICK b \in 1 .. a : down.ns = Back(ctl.index, b) /\ (a = b => ~Waiting(dev))
      BY <1>2 DEF Placed
    <3>2. b \in 0 .. Modulus /\ b + n <= Modulus /\ b + n \in 1 .. a + n
          /\ (a + n = b + n => a = b)
      BY <1>1
    <3>3. down.ns = Back(ctl'.index, b + n)
      BY <3>1, <3>2
    <3> QED BY <3>1, <3>2, <3>3
  <2>3. \A i \in 1 .. Len(up) : Whole(up[i]) =>
          \E c \in a + n + 1 .. missed' + 1 : up[i].ns = Back(ctl'.index, c)
    BY <1>3
  <2> QED BY <2>1, <2>2, <2>3 DEF Placed
<1>5. Ordered'
  <2>1. CASE n >= 1
    BY <1>3, <2>1 DEF Ordered
  <2>2. CASE n = 0
    <3>1. Number(ctl') = Number(ctl)
      <4>1. 1 \in 0 .. Modulus /\ 1 + n <= Modulus /\ 1 + n = 1
        BY <1>1, <2>2
      <4>2. Back(ctl'.index, 1 + n) = Back(ctl.index, 1)
        BY <4>1
      <4> QED BY <1>1, <4>1, <4>2
    <3>2. ctl'.at # "sending"
      BY <2>2
    <3>3. Ordered
      BY DEF Session
    <3> QED BY <3>1, <3>2, <3>3 DEF Ordered
  <2> QED BY <1>1, <2>1, <2>2
<1>6. a + n \in 0 .. missed + n
  BY <1>1
<1>7. Session'
  <2>1. ~Accepts(dev) /\ NoUA
    BY DEF Session
  <2>2. (~Accepts(dev) /\ NoUA)'
    BY <2>1 DEF Accepts, NoUA
  <2>3. (\E k \in 0 .. missed : Placed(k))'
    BY <1>4, <1>6
  <2> QED BY <1>1, <1>5, <2>2, <2>3 DEF Session
<1> QED BY <1>3, <1>7

LEMMA SystemSoundStep ==
  ASSUME SystemInv, [SystemNext]_systemVars
  PROVE  /\ SystemSound /\ SystemSound'
         /\ Planned(ctl) /\ Planned(ctl') /\ Sound(dev) /\ Sound(dev')
BY SystemNextSound DEF SystemInv, SystemSound

LEMMA StartScanInv == SystemInv /\ StartScan => SystemInv'
<1> SUFFICES ASSUME SystemInv, StartScan PROVE SystemInv'
  OBVIOUS
<1>1. /\ SystemSound' /\ Planned(ctl) /\ Sound(dev)
      /\ missed' = 0 /\ up' = up /\ stray' = stray
      /\ dev' = Found(dev)
  BY SystemSoundStep DEF SystemNext, StartScan
<1>2. ~Joined(ctl')
  <2>1. ctl \in Controller
    BY <1>1 DEF Planned
  <2>2. ctl'.step = 1 /\ ctl'.listed = FALSE
    BY <2>1 DEF StartScan, Controller
  <2> QED BY <2>2 DEF Joined
<1>3. ASSUME ~stray PROVE Opening'
  <2>1. /\ dev.link_state # "NO_ADDRESS" => dev' = dev
        /\ dev.link_state = "NO_ADDRESS" => ~On(dev') /\ dev'.pending = None
    BY <1>1, FoundSound DEF On
  <2>2. CASE Joined(ctl)
    <3>1. ~Accepts(dev) /\ NoUA
      BY <1>3, <2>2 DEF SystemInv, Session
    <3>2. ~Accepts(dev') /\ NoUA'
      BY <1>1, <2>1, <3>1 DEF Accepts, NoUA
    <3> QED BY <1>1, <3>1, <3>2 DEF Opening, NoUA
  <2>3. CASE ~Joined(ctl)
    <3>1. Opening
      BY <1>3, <2>3 DEF SystemInv
    <3>2. CASE dev' = dev
      BY <1>1, <3>1, <3>2 DEF Opening, Accepts, NoUA
    <3>3. CASE ~On(dev') /\ dev'.pending = None
      BY <1>1, <3>1, <3>3 DEF Opening, Accepts, NoUA
    <3> QED BY <2>1, <3>2, <3>3
  <2> QED BY <2>2, <2>3
<1> QED BY <1>1, <1>2, <1>3 DEF SystemInv

LEMMA StartCommandInv == SystemInv /\ StartCommand => SystemInv'
<1> SUFFICES ASSUME SystemInv, StartCommand PROVE SystemInv'
  OBVIOUS
<1>1. /\ SystemSound /\ SystemSound' /\ Planned(ctl) /\ Planned(ctl') /\ Sound(dev)
      /\ down = None /\ ctl.listed /\ dev' = dev /\ down' = down /\ up' = up
      /\ Count(ctl')
  BY SystemSoundStep DEF SystemNext, StartCommand
<1>2. /\ ctl'.job # "scan" /\ ctl'.step = 1 /\ ctl'.at = "sending"
      /\ ctl'.index = Plus1(ctl.index) /\ ctl'.listed /\ ctl'.done = "none"
  BY <1>1 DEF StartCommand, Planned, Controller
<1>3. /\ Modulus \in Nat /\ Modulus >= 2 /\ missed \in 0 .. Modulus
      /\ ctl.index \in Numbers /\ Plus1(ctl.index) # ctl.index
  <2>1. Modulus \in Nat /\ Modulus >= 2 /\ missed \in 0 .. Modulus /\ ctl.index \in Numbers
    BY <1>1, Counting DEF SystemSound
  <2> QED BY <2>1, Successor DEF Numbers
<1>4. Joined(ctl) /\ Joined(ctl')
  BY <1>1, <1>2 DEF Joined
<1>5. ASSUME ~stray' PROVE Session' /\ Moving' /\ Moved'
  <2>1. ~stray /\ missed' # Modulus /\ missed' = IF missed < Modulus THEN missed + 1 ELSE missed
    BY <1>1, <1>2, <1>3, <1>5 DEF Count
  <2>2. Session
    BY <1>4, <2>1 DEF SystemInv
  <2>3. missed' = missed + 1 /\ missed' < Modulus /\ 1 \in 0 .. Modulus - 1
    BY <1>3, <2>1, <2>2 DEF Session
  <2>4. \A a \in 0 .. Modulus :
          a + 1 <= Modulus => Back(ctl'.index, a + 1) = Back(ctl.index, a)
    BY <1>2, <1>3, BackNumbers
  <2>5. IsI(down) => FALSE
    BY <1>1 DEF IsI
  <2>6. /\ Session'
        /\ \A i \in 1 .. Len(up) : Whole(up[i]) => up[i].ns # Number(ctl')
    <3>1. 1 >= 1
      OBVIOUS
    <3> QED BY <1>1, <1>2, <2>2, <2>3, <2>4, <2>5, <3>1, Shifted
  <2>7. Moving'
    <3> DEFINE n == Number(ctl')
    <3>1. PICK a \in 0 .. missed : Placed(a)
      BY <2>2 DEF Session
    <3>2. /\ n = Back(ctl'.index, 1) /\ ctl'.index \in Numbers
          /\ a + 1 \in 1 .. Modulus /\ 1 \in 1 .. Modulus /\ a + 2 \in 1 .. Modulus
          /\ a \in 0 .. Modulus /\ a + 1 <= Modulus /\ a + 2 # 1 /\ a < Modulus
          /\ a + 1 \in 0 .. Modulus /\ (a + 1) + 1 = a + 2
      BY <1>1, <1>3, <2>3, Counting
    <3>3. ASSUME On(dev) PROVE Promises(dev, n, ctl'.target)
      <4>1. /\ Attuned(dev) /\ dev.send_sequence = Back(ctl.index, a)
            /\ Waiting(dev) => a >= 1
        BY <3>1, <3>3 DEF Placed
      <4>2. dev.send_sequence = Back(ctl'.index, a + 1)
        BY <2>4, <3>2, <4>1
      <4>3. dev.send_sequence = n => ~Waiting(dev)
        <5>1. dev.send_sequence = n => a + 1 = 1
          BY <3>2, <4>2, Apart
        <5> QED BY <3>2, <4>1, <5>1
      <4>4. ASSUME NEW f \in Frame, IsI(f), Plus1(f.ns) = dev.send_sequence
            PROVE  f.ns # n
        <5>1. f.ns \in Numbers
          BY DEF Frame
        <5>2. Minus1(dev.send_sequence) = f.ns
          BY <4>4, <5>1, Successor DEF Numbers
        <5>3. Minus1(Back(ctl'.index, a + 1)) = Back(ctl'.index, a + 2)
          <6>1. a + 1 < Modulus
            BY <1>3, <3>2
          <6> QED BY <3>2, <6>1, BackNumbers
        <5>4. f.ns = Back(ctl'.index, a + 2)
          BY <4>2, <5>2, <5>3
        <5> QED BY <3>2, <5>4, Apart
      <4>5. Current(dev) /\ dev \in Device
        BY <1>1, SoundDevice DEF Sound, Good, GoodLink
      <4>6. ~Claims(dev.pending, n) /\ ~Claims(dev.outstanding, n)
        BY <4>4, <4>5 DEF Claims, Whole, IsI, Current, Device
      <4> QED BY <4>3, <4>6 DEF Promises, Waiting
    <3> HIDE DEF n
    <3>4. \A i \in 1 .. Len(up) : ~Claims(up[i], n)
      BY <2>6 DEF Claims, n
    <3> QED BY <1>1, <3>3, <3>4 DEF Moving, n
  <2> QED BY <1>2, <2>6, <2>7 DEF Moved
<1> QED BY <1>1, <1>4, <1>5 DEF SystemInv

LEMMA WriteInv == SystemInv /\ (Send \/ PollResult) => SystemInv'
<1> SUFFICES ASSUME SystemInv, Send \/ PollResult PROVE SystemInv'
  OBVIOUS
<1>1. /\ SystemSound' /\ Planned(ctl) /\ Planned(ctl') /\ Sound(dev)
      /\ dev' = dev /\ up' = up /\ stray' = stray /\ missed' = missed
      /\ ctl' = [ctl EXCEPT !.at = "awaiting"]
      /\ \/ down' = None
         \/ ctl.at = "sending" /\ down' = RequestFrame(ctl)
         \/ down' = [type |-> "RR", nr |-> RequestFrame(ctl).nr, poll |-> TRUE]
      /\ ctl.at # "idle"
  BY SystemSoundStep DEF SystemNext, Send, PollResult, Write
<1>2. /\ ctl'.at = "awaiting" /\ SameExchange(ctl, ctl')
      /\ ctl.job # "none" /\ ctl.done = "none"
  BY <1>1 DEF Planned, Controller, SameExchange
<1>3. /\ Number(ctl') = Number(ctl) /\ RequestFrame(ctl') = RequestFrame(ctl)
      /\ Joined(ctl') <=> Joined(ctl)
  BY <1>2, SameExchangeSame
<1>4. IsI(down') => /\ Joined(ctl) /\ ctl.at = "sending" /\ down' = RequestFrame(ctl)
                    /\ down'.ns = Number(ctl)
  <2>1. RequestFrame(ctl).type = "I" => Joined(ctl) /\ RequestFrame(ctl).ns = Number(ctl)
    BY <1>1, <1>2, RequestFrameAsked
  <2> QED BY <1>1, <2>1 DEF IsI
<1>5. ASSUME ~stray, ~Joined(ctl) PROVE Opening'
  BY <1>1, <1>5 DEF SystemInv, Opening, Accepts, NoUA
<1>6. ASSUME ~stray, Joined(ctl) PROVE Session' /\ Moving' /\ Moved'
  <2>1. Session /\ Moving
    BY <1>6 DEF SystemInv
  <2>2. PICK a \in 0 .. missed : Placed(a)
    BY <2>1 DEF Session
  <2>3. Placed(a)'
    <3>1. On(dev) /\ IsI(down') => \E b \in 1 .. a :
            down'.ns = Back(ctl.index, b) /\ (a = b => ~Waiting(dev))
      <4>1. Number(ctl) = Back(ctl.index, 1)
        BY <1>1, Counting
      <4>2. On(dev) /\ IsI(down') => a >= 1 /\ (a = 1 => ~Waiting(dev))
        BY <1>4, <2>2 DEF Placed
      <4>3. a >= 1 => 1 \in 1 .. a
        BY <2>2, <1>1, Counting DEF SystemInv, SystemSound
      <4> QED BY <1>4, <4>1, <4>2, <4>3
    <3> QED BY <1>1, <1>2, <2>2, <3>1 DEF Placed, SameExchange
  <2>4. Ordered'
    BY <1>1, <1>2, <1>3, <1>4, <2>1 DEF Session, Ordered
  <2>5. ~Accepts(dev)' /\ NoUA'
    BY <1>1, <2>1 DEF Session, Accepts, NoUA
  <2>6. ctl'.done = "none"
    BY <1>2 DEF SameExchange
  <2>7. Session'
    <3>1. (\E k \in 0 .. missed : Placed(k))'
      BY <1>1, <2>3
    <3> QED BY <1>1, <1>2, <1>3, <1>4, <2>1, <2>4, <2>5, <2>6, <3>1 DEF Session
  <2>8. Moving'
    BY <1>1, <1>2, <1>3, <2>1 DEF Moving, SameExchange
  <2> QED BY <2>6, <2>7, <2>8 DEF Moved
<1> QED BY <1>1, <1>3, <1>5, <1>6 DEF SystemInv

LEMMA TookNothing ==
  ASSUME NEW c, Planned(c), c.job # "none"
  PROVE  Took(c, None) = IF Joined(c) /\ c.job = "scan" THEN Continue(c)
                                                        ELSE End(c, FALSE)
BY Exchanging DEF Took

LEMMA EndNotJoined ==
  ASSUME NEW c \in Controller, ~Joined(c)
  PROVE  ~Joined(End(c, FALSE))
<1>1. Ended(c, End(c, FALSE), FALSE)
  BY EndEnded
<1> DEFINE x == End(c, FALSE)
<1>2. x.step = 0 /\ x.listed = (c.listed \/ FALSE)
  BY <1>1, Zenon DEF Ended
<1> HIDE DEF x
<1>3. ~c.listed
  BY DEF Joined
<1>4. ~x.listed
  BY <1>2, <1>3, Zenon
<1>5. ~(x.step > 1)
  BY <1>2
<1>6. ~Joined(x)
  BY <1>4, <1>5, Zenon DEF Joined
<1> QED BY <1>6 DEF x

LEMMA EndJoined ==
  ASSUME NEW c \in Controller, NEW ok \in BOOLEAN, c.listed \/ ok
  PROVE  Joined(End(c, ok))
<1>1. End(c, ok).listed = (c.listed \/ ok)
  BY EndEnded DEF Ended
<1> QED BY <1>1 DEF Joined

LEMMA ListedWhenJoined ==
  ASSUME NEW c, Planned(c), Joined(c), ~(c.job = "scan" /\ c.step > 1)
  PROVE  c.listed
BY DEF Planned, Joined

LEMMA GiveUpInv == SystemInv /\ GiveUp => SystemInv'
<1> SUFFICES ASSUME SystemInv, GiveUp PROVE SystemInv'
  OBVIOUS
<1>1. /\ SystemSound /\ SystemSound' /\ Planned(ctl) /\ Planned(ctl')
      /\ ctl.at = "awaiting" /\ ctl.job # "none" /\ down = None /\ up = <<>>
      /\ ctl' = Took(ctl, None) /\ Count(ctl')
      /\ dev' = dev /\ down' = down /\ up' = up
  <2>1. SystemSound /\ SystemSound' /\ Planned(ctl) /\ Planned(ctl')
    BY SystemSoundStep DEF SystemNext
  <2> QED BY <2>1 DEF GiveUp, Planned
<1>2. /\ Modulus \in Nat /\ Modulus >= 2 /\ missed \in 0 .. Modulus
      /\ ctl \in Controller /\ ctl.index \in Numbers /\ Plus1(ctl.index) # ctl.index
  <2>1. /\ Modulus \in Nat /\ Modulus >= 2 /\ missed \in 0 .. Modulus
        /\ ctl \in Controller /\ ctl.index \in Numbers
    BY <1>1, Counting DEF SystemSound
  <2> QED BY <2>1, Successor DEF Numbers
<1>3. /\ missed' = IF ctl'.at = "idle" \/ ctl'.index = ctl.index THEN missed
                   ELSE IF missed < Modulus THEN missed + 1 ELSE missed
      /\ ~stray' => ~stray /\ missed' # Modulus
  BY <1>1 DEF Count
<1>4. CASE ~Joined(ctl)
  <2>1. ctl' = End(ctl, FALSE)
    BY <1>1, <1>4, TookNothing
  <2>2. ~Joined(ctl') /\ ctl'.at = "idle"
    BY <1>2, <1>4, <2>1, EndNotJoined, EndEnded DEF Ended
  <2>3. missed = 0 /\ missed' = 0 /\ (~stray => Opening)
    BY <1>3, <1>4, <2>2 DEF SystemInv
  <2>4. ~stray' => Opening'
    BY <1>1, <1>3, <2>3 DEF Opening, Accepts, NoUA
  <2> QED BY <1>1, <2>2, <2>3, <2>4 DEF SystemInv
<1>5. CASE Joined(ctl)
  <2>1. \/ Ended(ctl, ctl', FALSE) /\ ctl' = End(ctl, FALSE) /\ ctl.job # "scan"
        \/ Ended(ctl, ctl', TRUE) /\ ctl.job = "scan"
        \/ Advanced(ctl, ctl') /\ ctl.job = "scan"
    <3>1. CASE ctl.job = "scan"
      <4>1. ctl' = Continue(ctl)
        BY <1>1, <1>5, <3>1, TookNothing
      <4> QED BY <1>1, <3>1, <4>1, ContinueAdvances
    <3>2. CASE ctl.job # "scan"
      <4>1. ctl' = End(ctl, FALSE)
        BY <1>1, <3>2, TookNothing
      <4> QED BY <1>2, <3>2, <4>1, EndEnded
    <3> QED BY <3>1, <3>2
  <2>2. Joined(ctl')
    <3>1. CASE ctl.job # "scan" /\ ctl' = End(ctl, FALSE)
      BY <1>1, <1>2, <1>5, <3>1, ListedWhenJoined, EndJoined
    <3>2. CASE Ended(ctl, ctl', TRUE)
      BY <3>2, Zenon DEF Ended, Joined
    <3>3. CASE Advanced(ctl, ctl')
      BY <1>1, <3>3, Exchanging DEF Advanced, Joined
    <3> QED BY <2>1, <3>1, <3>2, <3>3
  <2>3. ctl'.done \in {"none", "scan"} /\ ctl'.job # "moveRet"
    BY <1>1, <2>1 DEF Ended, Advanced, Planned
  <2>4. ASSUME ~stray' PROVE Session'
    <3>1. Session /\ missed < Modulus /\ ~IsI(down)
      BY <1>1, <1>3, <1>5, <2>4 DEF SystemInv, Session, IsI
    <3>2. CASE ctl'.at = "idle" /\ ctl'.index = ctl.index
      <4>1. /\ missed' = missed + 0 /\ missed' < Modulus /\ 0 \in 0 .. Modulus - 1
            /\ ctl'.at # "sending"
            /\ \A a \in 0 .. Modulus :
                 a + 0 <= Modulus => Back(ctl'.index, a + 0) = Back(ctl.index, a)
        BY <1>2, <1>3, <3>1, <3>2
      <4> QED BY <1>1, <2>3, <3>1, <4>1, Shifted
    <3>3. CASE Advanced(ctl, ctl')
      <4>1. /\ ctl'.index = Plus1(ctl.index) /\ ctl'.at = "sending"
        BY <3>3 DEF Advanced
      <4>2. /\ missed' = missed + 1 /\ missed' < Modulus /\ 1 \in 0 .. Modulus - 1
            /\ 1 >= 1
        BY <1>2, <1>3, <2>4, <3>1, <4>1
      <4>3. \A a \in 0 .. Modulus :
              a + 1 <= Modulus => Back(ctl'.index, a + 1) = Back(ctl.index, a)
        BY <1>2, <4>1, BackNumbers
      <4> QED BY <1>1, <2>3, <3>1, <4>2, <4>3, Shifted
    <3> QED BY <2>1, <3>2, <3>3 DEF Ended
  <2> QED BY <1>1, <2>2, <2>3, <2>4 DEF SystemInv, Moving, Moved
<1> QED BY <1>4, <1>5

LEMMA CancelInv == SystemInv /\ Cancel => SystemInv'
<1> SUFFICES ASSUME SystemInv, Cancel PROVE SystemInv'
  OBVIOUS
<1> DEFINE unsent == Len(Plans[ctl.job]) - ctl.step
           later  == (ctl.index + unsent) % Modulus
           c      == [ctl EXCEPT !.index = later]
<1>1. /\ SystemSound /\ SystemSound' /\ Planned(ctl) /\ Planned(ctl')
      /\ ctl.job # "none" /\ dev' = dev /\ down' = down /\ up' = up
      /\ stray' = (stray \/ missed' = Modulus)
  <2>1. SystemSound /\ SystemSound' /\ Planned(ctl) /\ Planned(ctl')
    BY SystemSoundStep DEF SystemNext
  <2> QED BY <2>1 DEF Cancel, Planned
<1>2. /\ Modulus \in Nat /\ Modulus >= 2 /\ missed \in 0 .. Modulus
      /\ ctl \in Controller /\ ctl.index \in Numbers
  BY <1>1, Counting DEF SystemSound
<1>3. unsent \in 0 .. 5
  <2>1. \A l \in 1 .. 6, s \in 1 .. 6 : s <= l => l - s \in 0 .. 5
    OBVIOUS
  <2>2. ctl.step \in 1 .. 6 /\ ctl.step <= Len(Plans[ctl.job])
        /\ Len(Plans[ctl.job]) \in 1 .. 6
    BY <1>1, Exchanging
  <2> QED BY <2>1, <2>2
<1>4. \/ /\ ctl.job = "scan" /\ ctl.step > 1 /\ ctl' = End(c, TRUE)
         /\ missed' = IF missed + unsent < Modulus THEN missed + unsent ELSE Modulus
      \/ ~(ctl.job = "scan" /\ ctl.step > 1)
         /\ ctl' = End(ctl, FALSE) /\ missed' = missed
  <2>1. [ctl EXCEPT !.index = (@ + unsent) % Modulus] = c
    BY <1>2 DEF Controller
  <2> HIDE DEF c
  <2> QED BY <2>1 DEF Cancel
<1> HIDE DEF unsent
<1>5. ctl'.at = "idle" /\ ctl'.job = "none"
  <2>1. End(c, TRUE).at = "idle" /\ End(c, TRUE).job = "none"
    BY <1>2 DEF End, Controller
  <2>2. End(ctl, FALSE).at = "idle" /\ End(ctl, FALSE).job = "none"
    BY <1>2 DEF End, Controller
  <2> QED BY <1>4, <2>1, <2>2
<1>6. CASE ~Joined(ctl)
  <2>1. ctl' = End(ctl, FALSE) /\ missed' = missed
    BY <1>4, <1>6 DEF Joined
  <2>2. ~Joined(ctl') /\ missed' = 0
    BY <1>2, <1>6, <2>1, EndNotJoined DEF SystemInv
  <2>3. ~stray' => Opening'
    BY <1>1, <1>6 DEF SystemInv, Opening, Accepts, NoUA
  <2> QED BY <1>1, <2>2, <2>3 DEF SystemInv
<1>7. CASE Joined(ctl) /\ ctl.job = "scan" /\ ctl.step > 1
  <2>1. /\ ctl' = End(c, TRUE)
        /\ missed' = IF missed + unsent < Modulus THEN missed + unsent ELSE Modulus
    BY <1>4, <1>7
  <2>2. later \in Numbers
    <3>1. ctl.index + unsent \in Int /\ Modulus \in Int /\ Modulus > 0
      BY <1>2, <1>3 DEF Numbers
    <3>2. later \in 0 .. Modulus - 1
      BY <3>1
    <3> QED BY <3>2 DEF Numbers
  <2>3. ctl'.index = later /\ ctl'.done = "scan" /\ Joined(ctl')
    <3> HIDE DEF later
    <3>1. c \in Controller /\ c.index = later /\ c.job = "scan"
      BY <1>2, <1>7, <2>2 DEF Controller
    <3> HIDE DEF c
    <3>2. Ended(c, End(c, TRUE), TRUE) /\ Joined(End(c, TRUE))
      BY <3>1, EndEnded, EndJoined
    <3> QED BY <2>1, <3>1, <3>2 DEF Ended
  <2>4. ASSUME ~stray' PROVE Session'
    <3>1. ~stray /\ missed' # Modulus
      BY <1>1, <2>4
    <3>2. Session
      BY <1>7, <3>1 DEF SystemInv
    <3>3. missed' = missed + unsent /\ missed' < Modulus /\ unsent \in 0 .. Modulus - 1
      <4>1. missed + unsent < Modulus
        BY <2>1, <3>1
      <4> QED BY <1>2, <1>3, <2>1, <4>1
    <3>4. \A a \in 0 .. Modulus :
            a + unsent <= Modulus => Back(ctl'.index, a + unsent) = Back(ctl.index, a)
      BY <1>2, <2>3, <3>3, BackSkipped
    <3> QED BY <1>1, <1>5, <2>3, <3>2, <3>3, <3>4, Shifted
  <2> QED BY <1>1, <1>5, <2>3, <2>4 DEF SystemInv, Moving, Moved
<1>8. CASE Joined(ctl) /\ ~(ctl.job = "scan" /\ ctl.step > 1)
  <2>1. ctl' = End(ctl, FALSE) /\ missed' = missed
    BY <1>4, <1>8
  <2>2. ctl'.index = ctl.index /\ ctl'.done = "none" /\ Joined(ctl')
    BY <1>1, <1>2, <1>8, <2>1, EndEnded, EndJoined, ListedWhenJoined DEF Ended
  <2>3. ASSUME ~stray' PROVE Session'
    <3>1. Session
      BY <1>1, <1>8, <2>3 DEF SystemInv
    <3>2. missed < Modulus
      BY <3>1 DEF Session
    <3>3. missed' = missed + 0 /\ missed' < Modulus /\ 0 \in 0 .. Modulus - 1
      BY <1>2, <2>1, <3>2
    <3>4. \A a \in 0 .. Modulus :
            a + 0 <= Modulus => Back(ctl'.index, a + 0) = Back(ctl.index, a)
      BY <1>2, <2>2
    <3> QED BY <1>1, <1>5, <2>2, <3>1, <3>3, <3>4, Shifted
  <2> QED BY <1>1, <1>5, <2>2, <2>3 DEF SystemInv, Moving, Moved
<1> QED BY <1>6, <1>7, <1>8

(* The frame that is read leaves the line. *)
LEMMA HeadRead ==
  ASSUME SystemSound, Read
  PROVE  /\ 1 \in 1 .. Len(up) /\ Head(up) = up[1] /\ up[1] \in Frame
         /\ up[1] # None /\ Honestly(up[1])
         /\ \A i \in 1 .. Len(up') : i + 1 \in 1 .. Len(up) /\ up'[i] = up[i + 1]
         /\ \A i, j \in 1 .. Len(up') : i < j => i + 1 < j + 1
         /\ \A i \in 1 .. Len(up') : 1 < i + 1
<1>1. up # <<>> /\ up \in Seq(Frame) /\ up' = Tail(up)
  BY DEF SystemSound, Conveyed, Read
<1>2. /\ Head(up) = up[1] /\ 1 \in 1 .. Len(up) /\ Len(Tail(up)) = Len(up) - 1
      /\ Len(up) \in Nat
      /\ \A i \in 1 .. Len(up) - 1 : i + 1 \in 1 .. Len(up) /\ Tail(up)[i] = up[i + 1]
  BY <1>1
<1>3. up[1] \in Frame /\ up[1] # None /\ Honestly(up[1])
  BY <1>1, <1>2, NoneAssumption DEF SystemSound, Conveyed
<1> QED BY <1>1, <1>2, <1>3

(* A frame that answers nothing is dropped, and may start the polling.     *)
LEMMA ReadDropped ==
  ASSUME SystemInv, Read, SameExchange(ctl, ctl'), ctl'.at # "sending",
         missed' = missed
  PROVE  SystemInv'
<1>1. /\ SystemSound /\ SystemSound' /\ dev' = dev /\ down' = down /\ stray' = stray
      /\ ctl.at = "awaiting" /\ ctl.job # "none" /\ missed \in 0 .. Modulus
  BY SystemSoundStep DEF SystemNext, Read, SystemSound, Planned
<1>2. /\ Number(ctl') = Number(ctl) /\ RequestFrame(ctl') = RequestFrame(ctl)
      /\ (Joined(ctl') <=> Joined(ctl))
      /\ ctl'.index = ctl.index /\ ctl'.job = ctl.job /\ ctl'.target = ctl.target
      /\ ctl'.tilt = ctl.tilt /\ ctl'.done = ctl.done
  BY SameExchangeSame DEF SameExchange
<1>3. /\ \A i \in 1 .. Len(up') : i + 1 \in 1 .. Len(up) /\ up'[i] = up[i + 1]
      /\ \A i, j \in 1 .. Len(up') : i < j => i + 1 < j + 1
  BY <1>1, HeadRead
<1>4. ASSUME ~stray, ~Joined(ctl) PROVE Opening'
  <2>1. Opening
    BY <1>4 DEF SystemInv
  <2>2. NoUA => NoUA'
    BY <1>3 DEF NoUA
  <2> QED BY <1>1, <1>3, <2>1, <2>2 DEF Opening, Accepts
<1>5. ASSUME ~stray, Joined(ctl) PROVE Session' /\ Moving' /\ Moved'
  <2>1. Session /\ Moving /\ Moved
    BY <1>5 DEF SystemInv
  <2>2. PICK a \in 0 .. missed : Placed(a)
    BY <2>1 DEF Session
  <2>3. Placed(a)'
    BY <1>1, <1>2, <1>3, <2>2 DEF Placed
  <2>4. Ordered'
    <3>1. Ordered
      BY <2>1 DEF Session
    <3> QED BY <1>1, <1>2, <1>3, <3>1 DEF Ordered
  <2>5. ~Accepts(dev)' /\ NoUA'
    BY <1>1, <1>3, <2>1 DEF Session, Accepts, NoUA
  <2>6. Session'
    <3>1. (\E k \in 0 .. missed : Placed(k))'
      BY <2>2, <2>3
    <3> QED BY <1>1, <1>2, <2>1, <2>4, <2>5, <3>1 DEF Session
  <2>7. Moving'
    BY <1>1, <1>2, <1>3, <2>1 DEF Moving
  <2>8. Moved'
    BY <1>1, <1>2, <2>1 DEF Moved
  <2> QED BY <2>6, <2>7, <2>8
<1>6. ~Joined(ctl) => missed = 0
  BY DEF SystemInv
<1> QED BY <1>1, <1>2, <1>4, <1>5, <1>6 DEF SystemInv

(* The answer to the request made last: every earlier one is answered.     *)
LEMMA AnsweredLast ==
  ASSUME SystemInv, Session, Read, Whole(up[1]), up[1].ns = Number(ctl)
  PROVE  /\ \A i \in 1 .. Len(up') : Whole(up'[i]) => up'[i].ns = Number(ctl)
         /\ ~IsI(down)
         /\ On(dev) => /\ Attuned(dev) /\ dev.send_sequence = ctl.index
                       /\ ~Waiting(dev)
<1>1. /\ SystemSound /\ Planned(ctl) /\ missed \in 0 .. Modulus /\ missed < Modulus
  BY DEF SystemInv, SystemSound, Session
<1>2. /\ 1 \in 1 .. Len(up)
      /\ \A i \in 1 .. Len(up') : i + 1 \in 1 .. Len(up) /\ up'[i] = up[i + 1]
      /\ \A i \in 1 .. Len(up') : 1 < i + 1
  BY <1>1, HeadRead
<1>3. Ordered
  BY DEF Session
<1>4. PICK a \in 0 .. missed : Placed(a)
  BY DEF Session
<1>5. PICK c \in a + 1 .. missed + 1 : up[1].ns = Back(ctl.index, c)
  BY <1>2, <1>4 DEF Placed
<1>6. a = 0
  <2>1. /\ Modulus \in Nat /\ Modulus >= 2 /\ ctl.index \in Numbers
        /\ Number(ctl) = Back(ctl.index, 1)
    BY <1>1, Counting
  <2>2. c \in 1 .. Modulus /\ 1 \in 1 .. Modulus
    BY <1>1, <2>1
  <2>3. c = 1
    BY <1>5, <2>1, <2>2, Apart
  <2> QED BY <1>1, <2>1, <2>3
<1>7. Back(ctl.index, 0) = ctl.index
  BY <1>1, Counting
<1>8. ASSUME NEW i \in 1 .. Len(up'), Whole(up'[i])
      PROVE  up'[i].ns = Number(ctl)
  <2>1. i + 1 \in 1 .. Len(up) /\ up'[i] = up[i + 1] /\ 1 < i + 1
    BY <1>2
  <2> QED BY <1>2, <1>3, <1>8, <2>1 DEF Ordered
<1>9. ~IsI(down)
  BY <1>2, <1>3 DEF Ordered
<1>10. On(dev) => /\ Attuned(dev) /\ dev.send_sequence = ctl.index
                  /\ ~Waiting(dev)
  <2>1. ~(a >= 1)
    BY <1>6
  <2>2. On(dev) => /\ Attuned(dev) /\ dev.send_sequence = Back(ctl.index, a)
                   /\ (Waiting(dev) => a >= 1)
    BY <1>4 DEF Placed
  <2> QED BY <1>6, <1>7, <2>1, <2>2
<1> QED BY <1>8, <1>9, <1>10

(* The operation ends with this answer (k = 0) or makes its next request.  *)
LEMMA ReadAnswered ==
  ASSUME SystemInv, Session, Read, SystemSound', Whole(up[1]), up[1].ns = Number(ctl),
         NEW k \in {0, 1}, missed' = k, Back(ctl'.index, k) = ctl.index,
         Back(ctl'.index, k + 1) = Number(ctl), ctl'.at = "sending" <=> k = 1,
         ctl'.done \notin {"none", "scan"} => k = 0
  PROVE  Session'
<1>1. /\ Planned(ctl) /\ Planned(ctl') /\ dev' = dev /\ down' = down
      /\ Modulus \in Nat /\ Modulus >= 2 /\ SystemSound
  BY Counting DEF SystemInv, SystemSound, Read
<1>2. /\ \A i \in 1 .. Len(up') : Whole(up'[i]) => up'[i].ns = Number(ctl)
      /\ ~IsI(down)
      /\ On(dev) => /\ Attuned(dev) /\ dev.send_sequence = ctl.index
                    /\ ~Waiting(dev)
  BY AnsweredLast
<1>3. Placed(k)'
  <2>1. k + 1 \in k + 1 .. k + 1 /\ (k = 1 => k >= 1)
    OBVIOUS
  <2> QED BY <1>1, <1>2, <2>1 DEF Placed
<1>4. Ordered'
  <2>1. k = 1 => Number(ctl') = ctl.index /\ ctl.index # Number(ctl)
    BY <1>1, Counting
  <2> QED BY <1>1, <1>2, <2>1 DEF Ordered
<1>5. ~Accepts(dev)' /\ NoUA'
  <2>1. \A i \in 1 .. Len(up') : i + 1 \in 1 .. Len(up) /\ up'[i] = up[i + 1]
    BY <1>1, HeadRead
  <2> QED BY <1>1, <2>1 DEF Session, Accepts, NoUA
<1>6. (\E a \in 0 .. missed : Placed(a))'
  BY <1>3
<1>7. k = 0 => ctl'.index = ctl.index
  BY <1>1, Counting
<1> QED BY <1>1, <1>2, <1>4, <1>5, <1>6, <1>7 DEF Session

(* The UA of this session: what follows it on the line is no answer.       *)
LEMMA ReadAccepted ==
  ASSUME SystemInv, Read, ~Joined(ctl), IsResponseFor(ctl, up[1]),
         ctl' = Continue(ctl), missed' = IF ctl'.at = "idle" THEN 0 ELSE 1
  PROVE  SystemInv'
<1>1. /\ SystemSound /\ SystemSound' /\ Planned(ctl) /\ Planned(ctl')
      /\ dev' = dev /\ down' = down /\ stray' = stray
      /\ ctl.job # "none" /\ Modulus \in Nat /\ Modulus >= 2
  <2>1. Planned(ctl) /\ Modulus \in Nat /\ Modulus >= 2
    BY Counting DEF SystemInv, SystemSound
  <2> QED BY <2>1, SystemSoundStep DEF SystemNext, Read, Planned
<1>2. /\ Procedure(ctl) = "SNRM" /\ up[1].type = "UA" /\ ctl.index = 0
      /\ ctl.job = "scan" /\ ctl.step = 1 /\ ctl.done = "none"
  <2>1. Procedure(ctl) = "SNRM" /\ ctl.job = "scan" /\ ctl.step = 1
    BY <1>1, Exchanging
  <2> QED BY <1>1, <2>1 DEF IsResponseFor, Planned
<1>3. Advanced(ctl, ctl')
  <2>1. Len(Plans["scan"]) = 6
    BY DEF Plans
  <2>2. ctl.step # Len(Plans[ctl.job])
    BY <1>2, <2>1
  <2> QED BY <1>1, <2>2, ContinueAdvances
<1>4. /\ ctl'.index = 1 /\ ctl'.at = "sending" /\ ctl'.job = "scan" /\ ctl'.done = "none"
      /\ missed' = 1 /\ Joined(ctl')
  <2>1. Plus1(0) = 1
    BY <1>1, Successor DEF Numbers
  <2>2. /\ ctl'.index = Plus1(0) /\ ctl'.step = 1 + 1 /\ ctl'.at = "sending"
        /\ ctl'.job = "scan" /\ ctl'.done = "none"
    BY <1>2, <1>3 DEF Advanced
  <2>3. ctl'.step > 1
    BY <2>2
  <2> QED BY <2>1, <2>2, <2>3 DEF Joined
<1>5. ASSUME ~stray PROVE Session'
  <2>1. Opening /\ 1 \in 1 .. Len(up)
    BY <1>1, <1>5, HeadRead DEF SystemInv
  <2>2. ~NoUA
    BY <1>2, <2>1 DEF NoUA
  <2>3. ~Accepts(dev) /\ (On(dev) => Fresh(dev))
    BY <2>1, <2>2 DEF Opening
  <2>4. ASSUME NEW i \in 1 .. Len(up')
        PROVE  up'[i].type \notin {"I", "UA"}
    <3>1. i + 1 \in 1 .. Len(up) /\ up'[i] = up[i + 1] /\ 1 < i + 1
      BY <1>1, HeadRead
    <3> QED BY <1>2, <2>1, <3>1 DEF Opening
  <2>5. ~IsI(down)
    BY <1>1 DEF IsI, SystemSound, Conveyed, Plausible
  <2>6. Placed(1)'
    <3>1. Back(1, 1) = 0 /\ 1 >= 1
      BY DEF Back
    <3>2. On(dev) => Attuned(dev) /\ dev.send_sequence = 0 /\ ~Waiting(dev)
      <4>1. Len(<<>>) = 0 /\ 0 <= 1
        OBVIOUS
      <4> QED BY <2>3, <4>1 DEF Fresh, Attuned, Waiting
    <3>3. \A i \in 1 .. Len(up') : ~Whole(up'[i])
      BY <2>4 DEF Whole, IsI
    <3> QED BY <1>1, <1>4, <2>5, <3>1, <3>2, <3>3 DEF Placed
  <2>7. Ordered'
    BY <1>1, <2>4 DEF Ordered, Whole, IsI
  <2>8. ~Accepts(dev)' /\ NoUA'
    BY <1>1, <2>3, <2>4 DEF Accepts, NoUA
  <2>9. (\E a \in 0 .. missed : Placed(a))'
    BY <1>4, <2>6
  <2>10. missed' < Modulus
    BY <1>1, <1>4
  <2> QED BY <1>1, <1>4, <2>5, <2>7, <2>8, <2>9, <2>10 DEF Session
<1> QED BY <1>1, <1>4, <1>5 DEF SystemInv, Moving, Moved

(* The answer to a request of the session. *)
LEMMA ReadTaken ==
  ASSUME SystemInv, Read, Joined(ctl), IsResponseFor(ctl, up[1]),
         ctl' = Took(ctl, up[1].msg), missed' = IF ctl'.at = "idle" THEN 0 ELSE 1
  PROVE  SystemInv'
<1> DEFINE m == up[1].msg
<1>1. /\ SystemSound /\ SystemSound' /\ Planned(ctl) /\ Planned(ctl')
      /\ dev' = dev /\ down' = down /\ stray' = stray /\ ctl \in Controller
      /\ ctl.job # "none" /\ Modulus \in Nat /\ Modulus >= 2 /\ ctl.index \in Numbers
  <2>1. /\ Planned(ctl) /\ Modulus \in Nat /\ Modulus >= 2 /\ ctl \in Controller
        /\ ctl.index \in Numbers
    BY Counting DEF SystemInv, SystemSound
  <2> QED BY <2>1, SystemSoundStep DEF SystemNext, Read, Planned
<1>2. /\ Whole(up[1]) /\ up[1].ns = Number(ctl) /\ m.proc = Procedure(ctl)
      /\ 1 \in 1 .. Len(up) /\ m \in Answer /\ Honest(m)
  <2>1. Procedure(ctl) # "SNRM"
    BY <1>1, Exchanging
  <2>2. 1 \in 1 .. Len(up) /\ up[1] # None /\ Honestly(up[1])
    BY <1>1, HeadRead
  <2> QED BY <2>1, <2>2 DEF IsResponseFor, Whole, IsI, Honestly
<1>3. Joined(ctl')
  BY <1>1, <1>2, TookPlanned
<1>4. PICK r : /\ Planned(r) /\ Noted(ctl, r)
               /\ \/ Took(ctl, m) = End(ctl, FALSE)
                  \/ Took(ctl, m) = Continue(r)
               /\ Procedure(ctl) = "SetTilt" /\ Took(ctl, m) # End(ctl, FALSE) =>
                    m # None /\ m.code = "OK" /\ r.tilt = ctl.target
  BY <1>1, <1>2, TookNoted
<1> HIDE DEF m
<1>5. \/ /\ ctl'.index = ctl.index /\ ctl'.at = "idle" /\ ctl'.job = "none"
         /\ \/ ctl'.done = "none"
            \/ /\ ctl'.done = ctl.job /\ ctl'.tilt = r.tilt
               /\ Took(ctl, m) # End(ctl, FALSE)
      \/ /\ ctl'.index = Plus1(ctl.index) /\ ctl'.at = "sending"
         /\ ctl'.job # "moveRet" /\ ctl'.done = "none"
  <2>1. ctl' = Took(ctl, m)
    BY DEF m
  <2>2. Ended(ctl, End(ctl, FALSE), FALSE)
    BY <1>1, EndEnded
  <2>3. CASE ctl' = End(ctl, FALSE)
    <3>1. Ended(ctl, ctl', FALSE)
      BY <2>2, <2>3
    <3> QED BY <3>1 DEF Ended
  <2>4. CASE ctl' = Continue(r) /\ ctl' # End(ctl, FALSE)
    <3>1. r.job = ctl.job /\ r.step = ctl.step /\ r.index = ctl.index /\ r.done = ctl.done
      BY <1>4 DEF Noted
    <3>2. ctl.done = "none" /\ (ctl.job = "moveRet" => ctl.step = Len(Plans[ctl.job]))
      BY <1>1, Exchanging DEF Planned
    <3>3. CASE Ended(r, ctl', TRUE)
      BY <2>1, <2>4, <3>1, <3>3 DEF Ended
    <3>4. CASE r.step < Len(Plans[r.job]) /\ Advanced(r, ctl')
      <4>1. r.step # Len(Plans[r.job])
        <5>1. Len(Plans[r.job]) \in 1 .. 6 /\ r.step \in 1 .. 6
          BY <1>1, <1>4, <3>1, Exchanging
        <5>2. \A s \in 1 .. 6, l \in 1 .. 6 : s < l => s # l
          OBVIOUS
        <5> QED BY <3>4, <5>1, <5>2
      <4> QED BY <3>1, <3>2, <3>4, <4>1 DEF Advanced
    <3> QED BY <1>1, <1>4, <2>4, <3>1, <3>3, <3>4, ContinueAdvances
  <2> QED BY <1>4, <2>1, <2>3, <2>4
<1>6. ASSUME ~stray PROVE Session' /\ Moving' /\ Moved'
  <2>1. Session /\ Moving
    BY <1>6 DEF SystemInv
  <2>2. Back(ctl.index, 0) = ctl.index /\ Back(ctl.index, 1) = Number(ctl)
    BY <1>1, Counting
  <2>3. CASE ctl'.at = "idle" /\ ctl'.index = ctl.index
    <3>1. missed' = 0 /\ 0 \in {0, 1} /\ 0 + 1 = 1
      BY <2>3
    <3>2. ctl'.at = "sending" <=> 0 = 1
      BY <2>3
    <3>3. Session'
      BY <1>1, <1>2, <2>1, <2>2, <2>3, <3>1, <3>2, ReadAnswered
    <3>4. ctl'.job = "none"
      BY <1>1, <2>3 DEF Planned
    <3>5. Moved'
      <4>1. SUFFICES ASSUME ctl'.done = "moveRet"
                     PROVE  Stands(dev, ctl'.tilt)
        BY <1>1 DEF Moved
      <4>2. /\ ctl.job = "moveRet" /\ ctl'.tilt = r.tilt
            /\ Took(ctl, m) # End(ctl, FALSE)
        BY <1>5, <4>1
      <4>3. Procedure(ctl) = "SetTilt"
        BY <1>1, <4>2, Exchanging
      <4>4. m.code = "OK" /\ ctl'.tilt = ctl.target
        BY <1>4, <4>2, <4>3
      <4>5. Claims(up[1], Number(ctl))
        BY <1>2, <4>3, <4>4 DEF Claims, m
      <4> QED BY <1>2, <2>1, <4>2, <4>4, <4>5 DEF Moving
    <3> QED BY <3>3, <3>4, <3>5 DEF Moving
  <2>4. CASE /\ ctl'.index = Plus1(ctl.index) /\ ctl'.at = "sending"
             /\ ctl'.job # "moveRet" /\ ctl'.done = "none"
    <3>1. missed' = 1 /\ 1 \in {0, 1}
      BY <2>4
    <3>2. Back(ctl'.index, 1) = ctl.index /\ Back(ctl'.index, 1 + 1) = Number(ctl)
      <4>1. 0 < Modulus /\ 1 < Modulus /\ 0 \in 0 .. Modulus /\ 1 \in 0 .. Modulus /\ 0 + 1 = 1
        BY <1>1
      <4>2. Back(Plus1(ctl.index), 0 + 1) = Back(ctl.index, 0)
        BY <1>1, <4>1, BackNumbers
      <4>3. Back(Plus1(ctl.index), 1 + 1) = Back(ctl.index, 1)
        BY <1>1, <4>1, BackNumbers
      <4> QED BY <2>2, <2>4, <4>1, <4>2, <4>3
    <3>3. Session'
      BY <1>1, <1>2, <2>1, <2>4, <3>1, <3>2, ReadAnswered
    <3> QED BY <2>4, <3>3 DEF Moving, Moved
  <2> QED BY <1>5, <2>3, <2>4
<1> QED BY <1>1, <1>3, <1>6 DEF SystemInv

LEMMA ReadInv == SystemInv /\ Read => SystemInv'
<1> SUFFICES ASSUME SystemInv, Read PROVE SystemInv'
  OBVIOUS
<1>1. /\ Planned(ctl) /\ ctl \in Controller /\ ctl.job # "none" /\ Head(up) = up[1]
      /\ ctl.at = "awaiting"
  <2>1. Planned(ctl) /\ SystemSound
    BY DEF SystemInv, SystemSound
  <2> QED BY <2>1, HeadRead DEF Planned, Read
<1>2. \/ /\ IsResponseFor(ctl, up[1])
         /\ ctl' = IF Procedure(ctl) = "SNRM" THEN Continue(ctl)
                                              ELSE Took(ctl, up[1].msg)
         /\ missed' = IF ctl'.at = "idle" THEN 0 ELSE 1
      \/ ctl' = [ctl EXCEPT !.at = "polling"] /\ missed' = missed
      \/ ctl' = ctl /\ missed' = missed
  BY <1>1 DEF Read
<1>3. Procedure(ctl) = "SNRM" <=> ~Joined(ctl)
  BY <1>1, Exchanging
<1>4. CASE ctl' = [ctl EXCEPT !.at = "polling"] /\ missed' = missed
  <2>1. SameExchange(ctl, ctl') /\ ctl'.at = "polling"
    BY <1>1, <1>4 DEF Controller, SameExchange
  <2> QED BY <1>4, <2>1, ReadDropped
<1>5. CASE ctl' = ctl /\ missed' = missed
  <2>1. SameExchange(ctl, ctl') /\ ctl'.at = "awaiting"
    BY <1>1, <1>5 DEF SameExchange
  <2> QED BY <1>5, <2>1, ReadDropped
<1> QED BY <1>2, <1>3, <1>4, <1>5, ReadAccepted, ReadTaken

(* A poll before the controller has read the UA. *)
LEMMA OpensSupervisory ==
  ASSUME NEW d, Sound(d), On(d), NEW f, f.type = "RR", f.poll,
         ~HasIndication(ProcessSupervisory(d, f))
  PROVE  LET x == ProcessSupervisory(d, f)
         IN  ~Accepts(x) /\ (Fresh(d) => Fresh(x))
<1> DEFINE x == ProcessSupervisory(d, f)
<1>1. PICK heard :
           /\ Sound(heard) /\ SameCommand(d, heard) /\ SameQueue(d, heard)
           /\ heard.pending = d.pending
           /\ heard.outstanding \in {None, d.outstanding}
           /\ heard.receive_sequence = d.receive_sequence
           /\ \/ x = Reject(d)
              \/ heard.outstanding # None /\ x = Schedule(heard, heard.outstanding)
              \/ x = RespondToPoll(heard)
  BY ProcessSupervisoryCases DEF On
<1>2. ~HasIndication(x)
  BY DEF x
<1> HIDE DEF x
<1>3. Fresh(d) => Fresh(heard)
  BY <1>1 DEF Fresh, SameCommand, SameQueue, Waiting
<1>4. heard.outstanding # None => heard.outstanding.type = "I"
  BY <1>1 DEF Sound, Good, GoodLink, Current
<1>5. CASE x = Reject(d)
  <2>1. /\ SameCommand(d, x) /\ SameQueue(d, x) /\ x.pending = Plain("FRMR", 0)
        /\ x.outstanding = d.outstanding /\ x.receive_sequence = d.receive_sequence
    BY <1>5, SoundDevice, ScheduleSame DEF Reject, Respond
  <2>2. x.pending.type = "FRMR"
    BY <2>1 DEF Plain
  <2>3. ~Accepts(x) /\ (Fresh(d) => Fresh(x))
    BY <2>1, <2>2 DEF Accepts, Fresh, SameCommand, SameQueue, Waiting, IsI
  <2> QED BY <2>3 DEF x
<1>6. CASE heard.outstanding # None /\ x = Schedule(heard, heard.outstanding)
  <2>1. x.pending = heard.outstanding
    BY <1>1, <1>6, SoundDevice, ScheduleSame
  <2>2. ~Accepts(x) /\ ~Fresh(d)
    BY <1>3, <1>4, <1>6, <2>1 DEF Accepts, Fresh
  <2> QED BY <2>2 DEF x
<1>7. CASE x = RespondToPoll(heard)
  <2>1. Good(heard) /\ heard.link_state = "CONNECTED"
    BY <1>1 DEF On, SameCommand, Sound
  <2>2. /\ SameCommand(heard, x) /\ x.receive_sequence = heard.receive_sequence
        /\ Responds(heard, x)
    BY <1>2, <1>7, <2>1, RespondsToPoll
  <2>3. x.pending.type \in {"I", "RR"} /\ (Fresh(heard) => x.pending.type = "RR")
    BY <1>4, <2>2 DEF Responds, Plain, Carried, Fresh, Waiting
  <2>4. ~Accepts(x)
    BY <2>3 DEF Accepts
  <2>5. Fresh(heard) => Fresh(x)
    BY <2>2, <2>3 DEF Fresh, Responds, SameCommand, Waiting, IsI
  <2>6. ~Accepts(x) /\ (Fresh(d) => Fresh(x))
    BY <1>3, <2>4, <2>5
  <2> QED BY <2>6 DEF x
<1> QED BY <1>1, <1>5, <1>6, <1>7

(* A frame that the device hears in a session and answers at once, or not. *)
LEMMA Served ==
  ASSUME SystemInv, SystemSound', Session, Moving, Moved,
         ctl' = ctl, up' = up, missed' = missed, down' = None,
         NEW a \in 0 .. missed, Placed(a), On(dev),
         Attuned(dev'), ~Accepts(dev'), SameCommand(dev, dev'),
         Steady(dev, dev') \/ Delivers(dev, dev'),
         \A n, t : Promises(dev, n, t) => Promises(dev', n, t)
  PROVE  Session' /\ Moving' /\ Moved'
<1>1. /\ Planned(ctl) /\ Modulus \in Nat /\ Modulus >= 2 /\ ctl.index \in Numbers
      /\ missed \in 0 .. Modulus /\ missed < Modulus /\ a \in 0 .. Modulus
  <2>1. Planned(ctl) /\ missed \in 0 .. Modulus /\ missed < Modulus
    BY DEF SystemInv, SystemSound, Session
  <2>2. Modulus \in Nat /\ Modulus >= 2 /\ ctl.index \in Numbers
    BY <2>1, Counting
  <2> QED BY <2>1, <2>2
<1>2. ~IsI(down') /\ On(dev') /\ \A t : Stands(dev, t) => Stands(dev', t)
  BY DEF IsI, On, SameCommand, Stands
<1>3. (\E k \in 0 .. missed : Placed(k))'
  <2>1. CASE Steady(dev, dev')
    <3>1. Placed(a)'
      BY <1>2, <2>1 DEF Placed, Steady
    <3> QED BY <3>1
  <2>2. CASE Delivers(dev, dev')
    <3>1. a >= 1 /\ Waiting(dev) /\ ~Waiting(dev')
          /\ dev'.send_sequence = Plus1(Back(ctl.index, a))
      BY <2>2 DEF Placed, Delivers
    <3>2. a - 1 \in 0 .. missed /\ a > 0 /\ a # 1 => a - 1 >= 1
          /\ (a - 1) + 1 = a
      BY <1>1, <3>1
    <3>3. dev'.send_sequence = Back(ctl.index, a - 1)
      BY <1>1, <3>1, <3>2, BackNumbers
    <3>4. ctl.at = "sending" => a # 1
      BY <3>1 DEF Placed
    <3>5. \A c \in a + 1 .. missed + 1 : c \in (a - 1) + 1 .. missed + 1
      BY <1>1
    <3>6. Placed(a - 1)'
      <4>1. \A i \in 1 .. Len(up) : Whole(up[i]) =>
              \E c \in (a - 1) + 1 .. missed + 1 : up[i].ns = Back(ctl.index, c)
        BY <3>5 DEF Placed
      <4>2. ctl.at = "sending" => a - 1 >= 1
        BY <3>1, <3>4, <1>1
      <4> QED BY <1>2, <3>1, <3>3, <4>1, <4>2 DEF Placed
    <3>7. a - 1 \in 0 .. missed
      BY <1>1, <3>1
    <3> QED BY <3>6, <3>7
  <2> QED BY <2>1, <2>2
<1>4. Ordered'
  <2>1. Ordered
    BY DEF Session
  <2> QED BY <1>2, <2>1 DEF Ordered
<1>5. NoUA'
  BY DEF Session, NoUA
<1>6. Session'
  <2>1. ctl.done \notin {"none", "scan"} =>
          dev'.send_sequence = ctl.index /\ ~Waiting(dev')
    BY DEF Session, Steady, Delivers
  <2>2. ~Accepts(dev)' /\ (missed < Modulus)'
    BY <1>1 DEF Accepts
  <2> QED BY <1>2, <1>3, <1>4, <1>5, <2>1, <2>2 DEF Session
<1>7. Moving'
  BY <1>2 DEF Moving
<1>8. Moved'
  BY <1>2 DEF Moved
<1> QED BY <1>6, <1>7, <1>8

(* A request that the device hears: the one it waits for, or one of a past *)
(* exchange, which it rejects.                                             *)
LEMMA HearRequest ==
  ASSUME SystemInv, SystemSound', Session, Moving, Moved, On(dev), IsI(down),
         ctl' = ctl, up' = up, missed' = missed, down' = None,
         NEW e \in Outcomes, dev' = ProcessI(dev, down, e), ~HasIndication(dev')
  PROVE  Session' /\ Moving' /\ Moved'
<1>1. /\ Sound(dev) /\ Planned(ctl) /\ Modulus \in Nat /\ Modulus >= 2
      /\ ctl.index \in Numbers /\ Number(ctl) = Back(ctl.index, 1)
      /\ missed \in 0 .. Modulus /\ missed < Modulus
      /\ down.poll /\ down.req \in Asked /\ down.nr = down.ns
      /\ e \in Environment
  <2>1. /\ Sound(dev) /\ Planned(ctl) /\ missed \in 0 .. Modulus /\ missed < Modulus
        /\ Conveyed
    BY DEF SystemInv, SystemSound, Session
  <2>2. /\ Modulus \in Nat /\ Modulus >= 2 /\ ctl.index \in Numbers
        /\ Number(ctl) = Back(ctl.index, 1)
    BY <2>1, Counting
  <2>3. down.poll /\ down.req \in Asked /\ down.nr = down.ns
    BY <2>1 DEF Conveyed, Plausible, IsI
  <2> QED BY <2>1, <2>2, <2>3, LinkAssumption
<1>2. PICK a \in 0 .. missed : Placed(a)
  BY DEF Session
<1>3. PICK b \in 1 .. a : down.ns = Back(ctl.index, b) /\ (a = b => ~Waiting(dev))
  BY <1>2 DEF Placed
<1>4. /\ Attuned(dev) /\ dev.send_sequence = Back(ctl.index, a)
      /\ a \in 1 .. Modulus /\ b \in 1 .. Modulus /\ a < Modulus
      /\ a + 1 \in 1 .. Modulus /\ a \in 0 .. Modulus /\ (b # a => b # a + 1)
  <2>1. Attuned(dev) /\ dev.send_sequence = Back(ctl.index, a)
    BY <1>2 DEF Placed
  <2> QED BY <1>1, <1>3, <2>1
<1>5. /\ ctl.at # "sending" /\ (ctl.job # "none" => down = RequestFrame(ctl))
      /\ ctl.done \in {"none", "scan"} /\ ~IsI(down') /\ NoUA
      /\ \A i \in 1 .. Len(up) : Whole(up[i]) => up[i].ns # Number(ctl)
  BY DEF Session, Ordered, IsI
<1>6. CASE b = a
  <2>1. ~Waiting(dev) /\ down.ns = dev.send_sequence
    BY <1>3, <1>4, <1>6
  <2>2. /\ Attuned(dev') /\ dev'.pending.type # "UA" /\ On(dev')
        /\ \/ Waiting(dev') /\ dev'.send_sequence = dev.send_sequence
           \/ ~Waiting(dev') /\ dev'.send_sequence = Plus1(dev.send_sequence)
        /\ down.req.proc = "SetTilt" => Promises(dev', down.ns, down.req.arg)
    BY <1>1, <1>4, <2>1, ServesRequest
  <2>3. (\E k \in 0 .. missed : Placed(k))'
    <3>1. CASE Waiting(dev') /\ dev'.send_sequence = dev.send_sequence
      <4>1. a >= 1
        BY <1>4
      <4>2. Placed(a)'
        BY <1>2, <1>4, <1>5, <2>2, <3>1, <4>1 DEF Placed
      <4> QED BY <4>2
    <3>2. CASE ~Waiting(dev') /\ dev'.send_sequence = Plus1(dev.send_sequence)
      <4>1. a > 0 /\ a - 1 \in 0 .. missed
            /\ \A c \in a + 1 .. missed + 1 : c \in (a - 1) + 1 .. missed + 1
        BY <1>1, <1>4
      <4>2. dev'.send_sequence = Back(ctl.index, a - 1)
        BY <1>1, <1>4, <3>2, <4>1, BackNumbers
      <4>3. \A i \in 1 .. Len(up) : Whole(up[i]) =>
              \E c \in (a - 1) + 1 .. missed + 1 : up[i].ns = Back(ctl.index, c)
        BY <1>2, <4>1 DEF Placed
      <4>4. Placed(a - 1)'
        BY <1>5, <2>2, <3>2, <4>2, <4>3 DEF Placed
      <4> QED BY <4>1, <4>4
    <3> QED BY <2>2, <3>1, <3>2
  <2>4. Ordered'
    <3>1. Ordered
      BY DEF Session
    <3> QED BY <1>5, <3>1 DEF Ordered
  <2>5. Session'
    <3>1. ~Accepts(dev)' /\ NoUA' /\ (missed < Modulus)'
      BY <1>1, <1>5, <2>2 DEF Accepts, NoUA
    <3> QED BY <1>5, <2>3, <2>4, <3>1 DEF Session
  <2>6. Moving'
    <3> SUFFICES ASSUME ctl.job = "moveRet"
                 PROVE  /\ \A i \in 1 .. Len(up) : ~Claims(up[i], Number(ctl))
                        /\ Promises(dev', Number(ctl), ctl.target)
      BY DEF Moving
    <3>1. down = RequestFrame(ctl) /\ ctl.job # "none"
      BY <1>5
    <3>2. /\ down.ns = Number(ctl) /\ down.req.proc = "SetTilt"
          /\ down.req.arg = ctl.target
      <4>1. Procedure(ctl) = "SetTilt"
        BY <1>1, <3>1, Exchanging
      <4>2. RequestFrame(ctl).type = "I"
        BY <3>1 DEF IsI
      <4> QED BY <1>1, <3>1, <4>1, <4>2, RequestFrameAsked
    <3> QED BY <1>5, <2>2, <3>2 DEF Claims
  <2>7. Moved'
    BY <1>5 DEF Moved
  <2> QED BY <2>5, <2>6, <2>7
<1>7. CASE b # a
  <2>1. ~ValidAcknowledgement(dev, down.nr)
    <3>1. down.nr # dev.send_sequence
      BY <1>1, <1>3, <1>4, <1>7, Apart
    <3>2. Minus1(dev.send_sequence) = Back(ctl.index, a + 1)
      BY <1>1, <1>4, BackNumbers
    <3>3. down.nr # Minus1(dev.send_sequence)
      BY <1>1, <1>3, <1>4, <1>7, <3>2, Apart
    <3> QED BY <3>1, <3>3 DEF ValidAcknowledgement
  <2>2. dev' = Reject(dev)
    BY <2>1 DEF ProcessI
  <2>3. /\ Attuned(dev') /\ dev'.pending.type # "UA" /\ Steady(dev, dev')
        /\ SameCommand(dev, dev')
        /\ \A n, t : Promises(dev, n, t) => Promises(dev', n, t)
    BY <1>1, <1>4, <2>2, ServesReject
  <2>4. ~Accepts(dev')
    BY <2>3 DEF Accepts
  <2> QED BY <1>2, <2>3, <2>4, Served
<1> QED BY <1>6, <1>7

LEMMA HearInv == SystemInv /\ Hear => SystemInv'
<1> SUFFICES ASSUME SystemInv, Hear PROVE SystemInv'
  OBVIOUS
<1>1. /\ SystemSound /\ SystemSound' /\ Planned(ctl) /\ Sound(dev) /\ Sound(dev')
      /\ Conveyed /\ down # None /\ down' = None /\ ctl' = ctl /\ up' = up
      /\ missed' = missed /\ Plausible(down)
  <2>1. /\ SystemSound /\ SystemSound' /\ Planned(ctl) /\ Sound(dev) /\ Sound(dev')
    BY SystemSoundStep DEF SystemNext
  <2>2. Conveyed
    BY <2>1 DEF SystemSound
  <2> QED BY <2>1, <2>2 DEF Hear, Conveyed
<1>2. ASSUME ~stray'
      PROVE  /\ ~HasIndication(dev')
             /\ down.type = "SNRM" => /\ dev'.tcc = None /\ ~Joined(ctl)
                                      /\ \A i \in DOMAIN up : up[i].type # "UA"
             /\ down.type # "SNRM" => ~stray
  BY <1>1, <1>2 DEF Hear, Witness, Joined
<1>3. ~Joined(ctl) => missed = 0
  BY DEF SystemInv
<1>4. CASE down.type = "SNRM"
  <2> SUFFICES ASSUME ~stray' PROVE ~Joined(ctl) /\ Opening'
    BY <1>1, <1>3 DEF SystemInv
  <2>1. dev'.tcc = None /\ ~Joined(ctl) /\ \A i \in DOMAIN up : up[i].type # "UA"
    BY <1>2, <1>4
  <2>2. \A i \in 1 .. Len(up) : up[i].type # "UA"
    BY <1>1, <2>1 DEF Conveyed
  <2>3. (Accepts(dev') => NoUA') /\ (\A i \in 1 .. Len(up') : up'[i].type # "UA")
    BY <1>1, <2>2 DEF NoUA
  <2>4. On(dev') => Fresh(dev')
    <3>1. CASE ~Addressed
      <4>1. dev' = dev
        BY <3>1 DEF Hear
      <4> QED BY <3>1, <4>1 DEF On, Addressed
    <3>2. CASE Addressed
      <4>1. dev' = ProcessSnrm(dev)
        BY <1>4, <3>2 DEF Hear
      <4>2. /\ dev'.pending = Plain("UA", 0) /\ dev'.outstanding = None
            /\ dev'.l7_queue = <<>>
            /\ dev'.send_sequence = 0 /\ dev'.receive_sequence = 0
        BY <1>1, <3>2, <4>1, ProcessSnrmSound DEF Addressed
      <4>3. dev'.pending.type = "UA"
        BY <4>2 DEF Plain
      <4> QED BY <2>1, <4>2, <4>3 DEF Fresh, Waiting, IsI
    <3> QED BY <3>1, <3>2
  <2> QED BY <2>1, <2>3, <2>4 DEF Opening, Accepts
<1>5. CASE down.type # "SNRM" /\ ~On(dev)
  <2>1. ~On(dev') /\ (Accepts(dev') => Accepts(dev)) /\ SameCommand(dev, dev')
    <3>1. dev' = dev \/ dev' = Respond(dev, "DM")
      BY <1>1, <1>5 DEF Hear, Connected, Plausible, On
    <3>2. CASE dev' = dev
      BY <1>5, <3>2 DEF SameCommand
    <3>3. CASE dev' = Respond(dev, "DM")
      <4>1. SameCommand(dev, dev') /\ dev'.pending = Plain("DM", 0)
        BY <1>1, <3>3, SoundDevice, ScheduleSame DEF Respond
      <4>2. dev'.pending.type = "DM"
        BY <4>1 DEF Plain
      <4> QED BY <1>5, <4>1, <4>2 DEF On, Accepts, SameCommand
    <3> QED BY <3>1, <3>2, <3>3
  <2>2. (\A t : Stands(dev, t) => Stands(dev', t)) /\ ~IsI(down')
    BY <1>1, <2>1 DEF Stands, SameCommand, IsI
  <2>3. ASSUME ~stray, ~Joined(ctl) PROVE Opening'
    <3>1. Opening
      BY <2>3 DEF SystemInv
    <3>2. NoUA' <=> NoUA
      BY <1>1 DEF NoUA
    <3>3. Accepts(dev)' => Accepts(dev)
      BY <2>1 DEF Accepts
    <3>4. ~On(dev)'
      BY <2>1 DEF On
    <3> QED BY <1>1, <3>1, <3>2, <3>3, <3>4 DEF Opening
  <2>4. ASSUME ~stray, Joined(ctl) PROVE Session' /\ Moving' /\ Moved'
    <3>1. Session /\ Moving /\ Moved
      BY <2>4 DEF SystemInv
    <3>2. PICK a \in 0 .. missed : Placed(a)
      BY <3>1 DEF Session
    <3>3. Placed(a)'
      BY <1>1, <2>1, <3>2 DEF Placed
    <3>4. Ordered'
      <4>1. Ordered
        BY <3>1 DEF Session
      <4> QED BY <1>1, <2>2, <4>1 DEF Ordered
    <3>5. NoUA' /\ ~Accepts(dev') /\ missed' < Modulus
      BY <1>1, <2>1, <3>1 DEF Session, NoUA
    <3>6. Session'
      <4>1. (\E k \in 0 .. missed : Placed(k))'
        BY <1>1, <3>2, <3>3
      <4>2. ~Accepts(dev)'
        BY <3>5 DEF Accepts
      <4>3. ~On(dev)'
        BY <2>1 DEF On
      <4> QED BY <2>2, <3>4, <3>5, <4>1, <4>2, <4>3 DEF Session
    <3>7. Moving' /\ Moved'
      BY <1>1, <2>1, <2>2, <3>1 DEF Moving, Moved
    <3> QED BY <3>6, <3>7
  <2> QED BY <1>1, <1>2, <1>3, <1>5, <2>3, <2>4 DEF SystemInv
<1>6. CASE down.type = "RR" /\ On(dev)
  <2>1. dev' = ProcessSupervisory(dev, down) /\ down.poll
    BY <1>1, <1>6 DEF Hear, Connected, Plausible, On, Addressed
  <2>2. ASSUME ~stray', ~Joined(ctl) PROVE Opening'
    <3>1. Opening
      BY <1>2, <1>6, <2>2 DEF SystemInv
    <3>2. ~Accepts(dev') /\ (Fresh(dev) => Fresh(dev'))
      BY <1>1, <1>2, <1>6, <2>1, <2>2, OpensSupervisory
    <3>3. NoUA' <=> NoUA
      BY <1>1 DEF NoUA
    <3>4. ~Accepts(dev)' /\ (Fresh(dev) => Fresh(dev)')
      BY <3>2 DEF Accepts, Fresh, Waiting, IsI
    <3> QED BY <1>1, <1>6, <3>1, <3>3, <3>4 DEF Opening
  <2>3. ASSUME ~stray', Joined(ctl) PROVE Session' /\ Moving' /\ Moved'
    <3>1. Session /\ Moving /\ Moved
      BY <1>2, <1>6, <2>3 DEF SystemInv
    <3>2. PICK a \in 0 .. missed : Placed(a)
      BY <3>1 DEF Session
    <3>3. Attuned(dev)
      BY <1>6, <3>2 DEF Placed
    <3>4. /\ Attuned(dev') /\ dev'.pending.type # "UA" /\ SameCommand(dev, dev')
          /\ Steady(dev, dev') \/ Delivers(dev, dev')
          /\ \A n, t : Promises(dev, n, t) => Promises(dev', n, t)
      BY <1>1, <1>2, <1>6, <2>1, <2>3, <3>3, ServesSupervisory
    <3>5. ~Accepts(dev')
      BY <3>4 DEF Accepts
    <3> QED BY <1>1, <1>6, <3>1, <3>2, <3>4, <3>5, Served
  <2> QED BY <1>1, <1>3, <2>2, <2>3 DEF SystemInv
<1>7. CASE down.type = "I" /\ On(dev)
  <2>1. PICK e \in Outcomes : dev' = ProcessI(dev, down, e)
    BY <1>7 DEF Hear, Connected, On, Addressed
  <2>2. Joined(ctl) /\ IsI(down)
    BY <1>1, <1>7 DEF Plausible, IsI
  <2>3. ASSUME ~stray' PROVE Session' /\ Moving' /\ Moved'
    <3>1. Session /\ Moving /\ Moved
      BY <1>2, <1>7, <2>2, <2>3 DEF SystemInv
    <3> QED BY <1>1, <1>2, <1>7, <2>1, <2>2, <2>3, <3>1, HearRequest
  <2> QED BY <1>1, <2>2, <2>3 DEF SystemInv
<1> QED BY <1>1, <1>4, <1>5, <1>6, <1>7 DEF Plausible

(* A response that goes out leaves its slot. *)
LEMMA TransmitEmpties ==
  ASSUME NEW d, Sound(d), NEW e \in PollEnvironment, Transmits(d, e)
  PROVE  DevicePoll(d, e).pending = None
<1> DEFINE polled == PollTcc(d, e)
           sent   == [polled EXCEPT !.pending = None]
           x      == DevicePoll(d, e)
<1>1. d \in Device /\ e.boot \in Saves
  BY SoundDevice DEF PollEnvironment
<1>2. polled \in Device
  BY <1>1, PollTccGood DEF Sound, Good, GoodDevice, Unsaved, Typed
<1> HIDE DEF polled
<1>3. sent \in Device /\ sent.pending = None
  BY <1>2 DEF Device
<1> HIDE DEF sent
<1>4. x = SystemReset(sent, e) \/ x = sent
  BY DEF DevicePoll, polled, sent, Transmits
<1>5. CASE x = SystemReset(sent, e)
  <2>1. Sound(SystemReset(sent, e)) /\ SystemReset(sent, e).link_state = "NO_ADDRESS"
    BY <1>1, <1>3, ResetRestarts DEF Restarted
  <2> QED BY <1>5, <2>1 DEF Sound, AtRest
<1> QED BY <1>3, <1>4, <1>5

(* What a pass of the main loop does to the device and to the line.        *)
LEMMA RunPasses ==
  ASSUME SystemInv, Run
  PROVE  /\ SystemSound /\ SystemSound' /\ Planned(ctl) /\ Sound(dev) /\ Sound(dev')
         /\ ctl' = ctl /\ down' = down /\ missed' = missed /\ (~stray' => ~stray)
         /\ Restarted(dev, dev') \/ Passes(dev, dev')
         /\ Restarted(dev, dev') => ~On(dev') /\ dev'.pending = None
         /\ \A t : Stands(dev, t) => Stands(dev', t)
         /\ \A i \in 1 .. Len(up) : i \in 1 .. Len(up') /\ up'[i] = up[i]
         /\ Len(up) \in Nat
         /\ \/ Len(up') = Len(up)
            \/ /\ Len(up') = Len(up) + 1 /\ up'[Len(up')] = dev.pending
               /\ dev.pending # None /\ dev.pending \in Frame /\ dev'.pending = None
<1>1. /\ SystemSound /\ SystemSound' /\ Planned(ctl) /\ Sound(dev) /\ Sound(dev')
      /\ ctl' = ctl /\ down' = down /\ missed' = missed /\ (~stray' => ~stray)
      /\ up \in Seq(Frame)
  <2>1. /\ SystemSound /\ SystemSound' /\ Planned(ctl) /\ Sound(dev) /\ Sound(dev')
    BY SystemSoundStep DEF SystemNext
  <2> QED BY <2>1 DEF Run, Witness, SystemSound, Conveyed
<1>2. PICK fault \in DriverFaults, e \in PollOutcomes :
        LET looked == SetAlarm(dev, 0, "HARDWARE_ERROR", fault)
        IN  /\ dev' = DevicePoll(looked, e)
            /\ \/ up' = up
               \/ /\ Transmits(looked, e) /\ Len(up) < LineDepth
                  /\ up' = Append(up, looked.pending)
  BY DEF Run
<1> DEFINE looked == SetAlarm(dev, 0, "HARDWARE_ERROR", fault)
<1>3. /\ Sound(looked) /\ SameCommand(dev, looked) /\ SameQueue(dev, looked)
      /\ looked.pending = dev.pending /\ looked.outstanding = dev.outstanding
      /\ looked.receive_sequence = dev.receive_sequence
  BY <1>1, LooksAtFault
<1>4. /\ dev' = DevicePoll(looked, e) /\ e \in PollEnvironment
      /\ \/ up' = up
         \/ Transmits(looked, e) /\ up' = Append(up, looked.pending)
  BY <1>2, LinkAssumption
<1> HIDE DEF looked
<1>5. Restarted(looked, dev') \/ Passes(looked, dev')
  BY <1>3, <1>4, DevicePollPasses
<1>6. Restarted(looked, dev') => Restarted(dev, dev')
  BY <1>3 DEF Restarted, Stands, SameCommand
<1>7. Passes(looked, dev') => Passes(dev, dev')
  BY <1>3 DEF Passes, Ends, Gets, SameCommand, SameQueue
<1>8. Restarted(dev, dev') => ~On(dev') /\ dev'.pending = None
  BY <1>1 DEF Restarted, On, Sound, AtRest
<1>9. \A t : Stands(dev, t) => Stands(dev', t)
  BY <1>5, <1>6, <1>7 DEF Restarted, Passes, Stands
<1>10. /\ \A i \in 1 .. Len(up) : i \in 1 .. Len(up') /\ up'[i] = up[i]
       /\ Len(up) \in Nat
       /\ \/ Len(up') = Len(up)
          \/ /\ Len(up') = Len(up) + 1 /\ up'[Len(up')] = dev.pending
             /\ dev.pending # None /\ dev.pending \in Frame /\ dev'.pending = None
  <2>1. Len(up) \in Nat
    BY <1>1, LenProperties
  <2>2. CASE Transmits(looked, e) /\ up' = Append(up, looked.pending)
    <3>1. looked.pending \in Frame /\ looked.pending # None
      BY <1>3, <2>2, SoundDevice DEF Transmits, Device
    <3>2. /\ Len(up') = Len(up) + 1 /\ up'[Len(up) + 1] = looked.pending
          /\ \A i \in 1 .. Len(up) : up'[i] = up[i]
      BY <1>1, <2>2, <3>1, AppendProperties
    <3>3. dev'.pending = None
      BY <1>3, <1>4, <2>2, TransmitEmpties
    <3> QED BY <1>3, <2>1, <3>1, <3>2, <3>3
  <2> QED BY <1>4, <2>1, <2>2
<1> QED BY <1>1, <1>5, <1>6, <1>7, <1>8, <1>9, <1>10

(* What a device in a session transmits. *)
LEMMA Transmitted ==
  ASSUME SystemSound, NEW a \in 0 .. missed, missed < Modulus, Placed(a),
         Whole(dev.pending)
  PROVE  /\ On(dev) /\ dev.pending.ns = Back(ctl.index, a + 1)
         /\ a = 0 => dev.pending.ns = Number(ctl)
         /\ a # 0 => dev.pending.ns # Number(ctl)
<1>1. /\ Sound(dev) /\ Planned(ctl) /\ missed \in 0 .. Modulus
      /\ Modulus \in Nat /\ Modulus >= 2 /\ ctl.index \in Numbers
      /\ Number(ctl) = Back(ctl.index, 1)
  <2>1. Sound(dev) /\ Planned(ctl) /\ missed \in 0 .. Modulus
    BY DEF SystemSound
  <2> QED BY <2>1, Counting
<1>2. On(dev) /\ Plus1(dev.pending.ns) = dev.send_sequence /\ dev.pending.ns \in Numbers
  <2>1. Current(dev) /\ dev \in Device
    BY <1>1, SoundDevice DEF Sound, Good, GoodLink
  <2>2. dev.pending \in Frame
    BY <2>1 DEF Device, Whole, IsI
  <2> QED BY <2>1, <2>2 DEF Current, Whole, IsI, On, Frame
<1>3. /\ dev.send_sequence = Back(ctl.index, a) /\ a \in 0 .. Modulus /\ a < Modulus
      /\ (a # 0 => a + 1 \in 1 .. Modulus /\ 1 \in 1 .. Modulus /\ a + 1 # 1)
      /\ (a = 0 => a + 1 = 1)
  BY <1>1, <1>2 DEF Placed
<1>4. dev.pending.ns = Back(ctl.index, a + 1)
  <2>1. Minus1(Plus1(dev.pending.ns)) = dev.pending.ns
    BY <1>1, <1>2, Successor DEF Numbers
  <2> QED BY <1>1, <1>2, <1>3, <2>1, BackNumbers
<1> QED BY <1>1, <1>2, <1>3, <1>4, Apart

LEMMA RunOpening ==
  ASSUME SystemInv, Run, Opening
  PROVE  Opening'
<1>1. /\ Sound(dev)
      /\ Restarted(dev, dev') \/ Passes(dev, dev')
      /\ Restarted(dev, dev') => ~On(dev') /\ dev'.pending = None
      /\ \A i \in 1 .. Len(up) : i \in 1 .. Len(up') /\ up'[i] = up[i]
      /\ Len(up) \in Nat
      /\ \/ Len(up') = Len(up)
         \/ /\ Len(up') = Len(up) + 1 /\ up'[Len(up')] = dev.pending
            /\ dev.pending # None /\ dev.pending \in Frame /\ dev'.pending = None
  BY RunPasses
<1>2. /\ Accepts(dev') => Accepts(dev)
      /\ On(dev') => On(dev) /\ (Fresh(dev) => Fresh(dev'))
  <2>1. CASE Restarted(dev, dev')
    BY <1>1, <2>1 DEF Accepts
  <2>2. CASE Passes(dev, dev')
    BY <2>2 DEF Passes, Accepts, On, Fresh, Waiting, IsI
  <2> QED BY <1>1, <2>1, <2>2
<1>3. CASE Len(up') = Len(up)
  <2>1. NoUA' <=> NoUA
    BY <1>1, <1>3 DEF NoUA
  <2>2. /\ Accepts(dev)' => Accepts(dev)
        /\ On(dev)' => On(dev) /\ (Fresh(dev) => Fresh(dev)')
    BY <1>2 DEF Accepts, On, Fresh, Waiting, IsI
  <2> QED BY <1>1, <1>3, <2>1, <2>2 DEF Opening
<1>4. CASE /\ Len(up') = Len(up) + 1 /\ up'[Len(up')] = dev.pending
           /\ dev.pending # None /\ dev.pending \in Frame /\ dev'.pending = None
  <2>1. \A i \in 1 .. Len(up') : i \in 1 .. Len(up) \/ i = Len(up')
    BY <1>1, <1>4
  <2>2. ~NoUA' => Accepts(dev) \/ ~NoUA
    BY <1>1, <1>4, <2>1 DEF NoUA, Accepts
  <2>3. ~Accepts(dev)'
    BY <1>4 DEF Accepts
  <2>4. ~NoUA' /\ On(dev') => Fresh(dev')
    BY <1>2, <2>2 DEF Opening
  <2>5. ASSUME NEW i \in 1 .. Len(up'), NEW j \in 1 .. Len(up'),
               i < j, up'[i].type = "UA"
        PROVE  up'[j].type \notin {"I", "UA"}
    <3>1. i \in 1 .. Len(up) /\ up[i].type = "UA"
      BY <1>1, <1>4, <2>1, <2>5
    <3>2. CASE j \in 1 .. Len(up)
      BY <1>1, <2>5, <3>1, <3>2 DEF Opening
    <3>3. CASE j = Len(up')
      <4>1. ~NoUA /\ ~Accepts(dev) /\ (On(dev) => Fresh(dev))
        BY <3>1 DEF NoUA, Opening
      <4>2. dev.pending.type # "UA"
        BY <1>4, <4>1 DEF Accepts
      <4>3. IsI(dev.pending) => On(dev)
        <5>1. Current(dev)
          BY <1>1 DEF Sound, Good, GoodLink
        <5> QED BY <5>1 DEF Current, IsI, On
      <4>4. dev.pending.type # "I"
        BY <1>4, <4>1, <4>3 DEF Fresh, IsI
      <4> QED BY <1>4, <3>3, <4>2, <4>4
    <3> QED BY <2>1, <3>2, <3>3
  <2>6. ~NoUA' /\ On(dev)' => Fresh(dev)'
    BY <2>4 DEF On, Fresh, Waiting, IsI
  <2> QED BY <2>3, <2>5, <2>6 DEF Opening
<1> QED BY <1>1, <1>3, <1>4

LEMMA RunSession ==
  ASSUME SystemInv, Run, Session, Moving, Moved
  PROVE  Session' /\ Moving' /\ Moved'
<1>1. /\ SystemSound /\ Planned(ctl) /\ Sound(dev)
      /\ ctl' = ctl /\ down' = down /\ missed' = missed
      /\ Restarted(dev, dev') \/ Passes(dev, dev')
      /\ Restarted(dev, dev') => ~On(dev') /\ dev'.pending = None
      /\ \A t : Stands(dev, t) => Stands(dev', t)
      /\ \A i \in 1 .. Len(up) : i \in 1 .. Len(up') /\ up'[i] = up[i]
      /\ Len(up) \in Nat
      /\ \/ Len(up') = Len(up)
         \/ /\ Len(up') = Len(up) + 1 /\ up'[Len(up')] = dev.pending
            /\ dev.pending # None /\ dev.pending \in Frame /\ dev'.pending = None
  BY RunPasses
<1>2. /\ Modulus \in Nat /\ Modulus >= 2 /\ ctl.index \in Numbers
      /\ Number(ctl) = Back(ctl.index, 1)
      /\ missed \in 0 .. Modulus /\ missed < Modulus
  <2>1. missed \in 0 .. Modulus /\ missed < Modulus
    BY <1>1 DEF SystemSound, Session
  <2> QED BY <1>1, <2>1, Counting
<1>3. PICK a \in 0 .. missed : Placed(a)
  BY DEF Session
<1>4. On(dev') => /\ On(dev) /\ Attuned(dev) /\ Attuned(dev') /\ Steady(dev, dev')
                  /\ \A n, t : Promises(dev, n, t) => Promises(dev', n, t)
  <2> SUFFICES ASSUME On(dev')
               PROVE  /\ On(dev) /\ Attuned(dev) /\ Attuned(dev') /\ Steady(dev, dev')
                      /\ \A n, t : Promises(dev, n, t) => Promises(dev', n, t)
    OBVIOUS
  <2>1. Passes(dev, dev')
    BY <1>1
  <2>2. On(dev)
    BY <2>1 DEF Passes, On
  <2>3. Attuned(dev)
    BY <1>3, <2>2 DEF Placed
  <2> QED BY <1>1, <2>1, <2>2, <2>3, ServesPass
<1>5. ~Accepts(dev')
  <2>1. ~Accepts(dev)
    BY DEF Session
  <2> QED BY <1>1, <2>1 DEF Accepts, Passes
<1>6. \A i \in 1 .. Len(up') :
        \/ i \in 1 .. Len(up) /\ up'[i] = up[i]
        \/ /\ i = Len(up) + 1 /\ i \notin 1 .. Len(up)
           /\ up'[i] = dev.pending /\ dev.pending # None
  <2>1. CASE Len(up') = Len(up)
    BY <1>1, <2>1
  <2>2. CASE /\ Len(up') = Len(up) + 1 /\ up'[Len(up')] = dev.pending
             /\ dev.pending # None
    BY <1>1, <2>2
  <2> QED BY <1>1, <2>1, <2>2
<1>7. (\E k \in 0 .. missed : Placed(k))'
  <2>1. ASSUME NEW i \in 1 .. Len(up'), Whole(up'[i])
        PROVE  \E c \in a + 1 .. missed + 1 : up'[i].ns = Back(ctl.index, c)
    <3>1. CASE i \in 1 .. Len(up) /\ up'[i] = up[i]
      BY <1>3, <2>1, <3>1 DEF Placed
    <3>2. CASE up'[i] = dev.pending
      <4>1. dev.pending.ns = Back(ctl.index, a + 1)
        BY <1>1, <1>2, <1>3, <2>1, <3>2, Transmitted
      <4>2. a + 1 \in a + 1 .. missed + 1
        BY <1>2
      <4> QED BY <3>2, <4>1, <4>2
    <3> QED BY <1>6, <3>1, <3>2
  <2>2. CASE On(dev')
    <3>1. Placed(a)'
      BY <1>1, <1>3, <1>4, <2>1, <2>2 DEF Placed, Steady
    <3> QED BY <1>1, <3>1
  <2>3. CASE ~On(dev')
    <3>1. Placed(a)'
      BY <1>1, <2>1, <2>3 DEF Placed, On
    <3> QED BY <1>1, <3>1
  <2> QED BY <2>2, <2>3
<1>8. Ordered'
  <2>1. Ordered
    BY DEF Session
  <2>2. ASSUME NEW i \in 1 .. Len(up'), NEW j \in 1 .. Len(up'), i < j,
               Whole(up'[i]), Whole(up'[j]), up'[i].ns = Number(ctl)
        PROVE  up'[j].ns = Number(ctl)
    <3>1. i \in 1 .. Len(up) /\ up'[i] = up[i]
      BY <1>1, <1>6, <2>2
    <3>2. CASE j \in 1 .. Len(up) /\ up'[j] = up[j]
      BY <2>1, <2>2, <3>1, <3>2 DEF Ordered
    <3>3. CASE up'[j] = dev.pending
      <4>1. PICK c \in a + 1 .. missed + 1 : up[i].ns = Back(ctl.index, c)
        BY <1>3, <2>2, <3>1 DEF Placed
      <4>2. c \in 1 .. Modulus /\ 1 \in 1 .. Modulus
        BY <1>2
      <4>3. c = 1
        BY <1>2, <2>2, <3>1, <4>1, <4>2, Apart
      <4>4. a = 0
        BY <1>2, <4>3
      <4> QED BY <1>1, <1>2, <1>3, <2>2, <3>3, <4>4, Transmitted
    <3> QED BY <1>6, <3>2, <3>3
  <2>3. ASSUME IsI(down) \/ ctl.at = "sending",
               NEW i \in 1 .. Len(up'), Whole(up'[i])
        PROVE  up'[i].ns # Number(ctl)
    <3>1. CASE i \in 1 .. Len(up) /\ up'[i] = up[i]
      BY <2>1, <2>3, <3>1 DEF Ordered
    <3>2. CASE up'[i] = dev.pending
      <4>1. Whole(dev.pending)
        BY <2>3, <3>2
      <4>2. On(dev)
        BY <1>1, <1>2, <1>3, <4>1, Transmitted
      <4>3. a # 0
        <5>1. IsI(down) => \E b \in 1 .. a : TRUE
          BY <1>3, <4>2 DEF Placed
        <5>2. ctl.at = "sending" => a >= 1
          BY <1>3, <4>2 DEF Placed
        <5> QED BY <1>2, <2>3, <5>1, <5>2
      <4> QED BY <1>1, <1>2, <1>3, <3>2, <4>1, <4>3, Transmitted
    <3> QED BY <1>6, <3>1, <3>2
  <2> QED BY <1>1, <2>2, <2>3 DEF Ordered
<1>9. NoUA'
  BY <1>6 DEF Session, NoUA, Accepts
<1>10. Session'
  <2>1. /\ IsI(down) => /\ ctl.at # "sending"
                        /\ ctl.job # "none" => down = RequestFrame(ctl)
        /\ ctl.done \notin {"none", "scan"} =>
             /\ ~IsI(down)
             /\ On(dev') => dev'.send_sequence = ctl.index /\ ~Waiting(dev')
    BY <1>4 DEF Session, Steady
  <2>2. ~Accepts(dev)'
    BY <1>5 DEF Accepts
  <2>3. (On(dev)' <=> On(dev')) /\ (Waiting(dev)' <=> Waiting(dev'))
    BY DEF On, Waiting
  <2> QED BY <1>1, <1>2, <1>7, <1>8, <1>9, <2>1, <2>2, <2>3 DEF Session
<1>11. Moving'
  <2> SUFFICES ASSUME ctl.job = "moveRet"
               PROVE  /\ \A i \in 1 .. Len(up') :
                           Claims(up'[i], Number(ctl)) => Stands(dev', ctl.target)
                      /\ On(dev') => Promises(dev', Number(ctl), ctl.target)
    BY <1>1 DEF Moving
  <2>1. /\ \A i \in 1 .. Len(up) : Claims(up[i], Number(ctl)) => Stands(dev, ctl.target)
        /\ On(dev) => Promises(dev, Number(ctl), ctl.target)
    BY DEF Moving
  <2>2. ASSUME NEW i \in 1 .. Len(up'), Claims(up'[i], Number(ctl))
        PROVE  Stands(dev', ctl.target)
    <3>1. CASE i \in 1 .. Len(up) /\ up'[i] = up[i]
      BY <1>1, <2>1, <2>2, <3>1
    <3>2. CASE up'[i] = dev.pending
      <4>1. Claims(dev.pending, Number(ctl)) /\ Whole(dev.pending)
        BY <2>2, <3>2 DEF Claims
      <4>2. On(dev)
        BY <1>1, <1>2, <1>3, <4>1, Transmitted
      <4>3. Stands(dev, ctl.target)
        BY <2>1, <4>1, <4>2 DEF Promises
      <4> QED BY <1>1, <4>3
    <3> QED BY <1>6, <3>1, <3>2
  <2> QED BY <1>4, <2>1, <2>2
<1>12. Moved'
  BY <1>1 DEF Moved
<1> QED BY <1>10, <1>11, <1>12

LEMMA RunInv == SystemInv /\ Run => SystemInv'
<1> SUFFICES ASSUME SystemInv, Run PROVE SystemInv'
  OBVIOUS
<1>1. SystemSound' /\ ctl' = ctl /\ missed' = missed /\ (~stray' => ~stray)
  BY RunPasses
<1>2. ASSUME ~stray', ~Joined(ctl) PROVE Opening'
  BY <1>1, <1>2, RunOpening DEF SystemInv
<1>3. ASSUME ~stray', Joined(ctl) PROVE Session' /\ Moving' /\ Moved'
  BY <1>1, <1>3, RunSession DEF SystemInv
<1> QED BY <1>1, <1>2, <1>3 DEF SystemInv

LEMMA SystemNextInv == SystemInv /\ [SystemNext]_systemVars => SystemInv'
<1> SUFFICES ASSUME SystemInv, [SystemNext]_systemVars PROVE SystemInv'
  OBVIOUS
<1>1. CASE UNCHANGED systemVars
  <2>1. SystemSound'
    BY SystemSoundStep
  <2> QED BY <1>1, <2>1
          DEF systemVars, SystemInv, Session, Placed, Ordered, Moving, Moved, Opening,
              NoUA
<1> QED BY <1>1, StartScanInv, StartCommandInv, CancelInv, WriteInv, GiveUpInv,
           ReadInv, HearInv, RunInv DEF SystemNext

(* In a session without stray frames a move reported as done is done,      *)
(* however many frames were lost or late and however often the device      *)
(* restarted or the operation was cancelled.                               *)
THEOREM MovesAreDone == SystemSpec => []MoveDone
<1>1. SystemInv => MoveDone
  <2> SUFFICES ASSUME SystemInv, ~stray, ctl.done = "moveRet"
               PROVE  dev.tcc = None /\ dev.config.tilt[1] = ctl.tilt
    BY DEF MoveDone
  <2>1. Joined(ctl)
    BY DEF SystemInv, SystemSound, Planned, Joined
  <2>2. Stands(dev, ctl.tilt)
    BY <2>1 DEF SystemInv, Moved
  <2> QED BY <2>2 DEF Stands
<1> QED BY <1>1, SystemInitInv, SystemNextInv, PTL DEF SystemSpec

(* After a command that ended well both ends count alike, whatever was     *)
(* lost or late in this session before.                                    *)
THEOREM EndsInStep == SystemSpec => []InStep
<1>1. SystemInv => InStep
  <2> SUFFICES ASSUME SystemInv, ~stray, ctl.done \notin {"none", "scan"},
                      dev.link_state = "CONNECTED"
               PROVE  ctl.index = dev.receive_sequence /\ ctl.index = dev.send_sequence
    BY DEF InStep
  <2>1. Joined(ctl)
    BY DEF SystemInv, SystemSound, Planned, Joined
  <2>2. Session
    BY <2>1 DEF SystemInv
  <2>3. dev.send_sequence = ctl.index /\ ~Waiting(dev)
    BY <2>2 DEF Session, On
  <2>4. Attuned(dev)
    BY <2>2 DEF Session, Placed, On
  <2> QED BY <2>3, <2>4 DEF Attuned
<1> QED BY <1>1, SystemInitInv, SystemNextInv, PTL DEF SystemSpec

=============================================================================
