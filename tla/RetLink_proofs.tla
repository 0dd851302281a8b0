---------------------------- MODULE RetLink_proofs ----------------------------
(***************************************************************************)
(* The invariants of RetLink hold for every number of antennas, of         *)
(* addresses and of queue slots, every sequence number modulus, every set  *)
(* of requests and every behaviour of the platform.                        *)
(*                                                                         *)
(* A device is a record, so the argument is about records: GoodDevice(d)   *)
(* is the layer 7 half of the inductive invariant, GoodLink(d) the layer 2 *)
(* half, and there is one lemma for each operator that changes a device.   *)
(***************************************************************************)
EXTENDS RetLink, SequenceTheorems, TLAPS

(* The contents the answer queue may have. *)
Queues == {q \in Seq(Answer) : Len(q) <= QueueDepth}

Typed(d) == d \in Device /\ d.l7_queue \in Queues

(* The layer 7 half: MotorSupervised, LegalMove, UnfinishedTransfer and    *)
(* StorageAgrees, said of a device.                                        *)
Supervised(d) == d.motor = "RUNNING" => d.tcc # None

Legal(d) ==
  d.tcc # None =>
    /\ d.tcc.type # "SELF_TEST" => d.config.configured[d.tcc.ant]
    /\ d.tcc.type # "CALIBRATE" => d.config.calibrated[d.tcc.ant]

Unfinished(d) ==
  \A a \in Antennas : d.transfer_active[a] => ~d.config.configured[a]

Agrees(d) ==
  ~d.dirty => d.storage # None /\ Durable(d.storage) = Durable(d.config)

(* A device whose configuration may still have to be saved, and a good one. *)
Unsaved(d)    == Typed(d) /\ Supervised(d) /\ Legal(d) /\ Unfinished(d)
GoodDevice(d) == Unsaved(d) /\ Agrees(d)

(* A call of layer 7 keeps the fields of layer 2. *)
SameLink(d, x) ==
  /\ x.link_state = d.link_state
  /\ x.address = d.address
  /\ x.receive_sequence = d.receive_sequence
  /\ x.send_sequence = d.send_sequence
  /\ x.remote_ready = d.remote_ready
  /\ x.pending = d.pending
  /\ x.reset_after_transmit = d.reset_after_transmit
  /\ x.outstanding = d.outstanding

Keeps(d, x) ==
  /\ SameLink(d, x)
  /\ d.l7_queue # <<>> => x.l7_queue # <<>>
  /\ x.reset_after_i_ack = d.reset_after_i_ack

(* What every request does to a good device: a promised reset has an       *)
(* answer in the queue.                                                    *)
Handled(d, x) ==
  /\ GoodDevice(x)
  /\ SameLink(d, x)
  /\ d.l7_queue # <<>> => x.l7_queue # <<>>
  /\ x.reset_after_i_ack => d.reset_after_i_ack \/ x.l7_queue # <<>>

(* What queueing an answer does: nothing but to the queue. *)
OnlyQueue(d, x) ==
  \E q \in Queues : /\ x = [d EXCEPT !.l7_queue = q]
                    /\ d.l7_queue # <<>> => q # <<>>

-----------------------------------------------------------------------------
(* Answers are queued. *)

(* queue_l7 appends the message or, with the queue full, drops it. *)
LEMMA QueueL7Only ==
  ASSUME NEW d, Typed(d), NEW m \in Answer
  PROVE  OnlyQueue(d, QueueL7(d, m))
<1>1. CASE Len(d.l7_queue) < QueueDepth
  <2> DEFINE q == Append(d.l7_queue, m)
  <2>1. d.l7_queue \in Seq(Answer)
    BY DEF Typed, Queues
  <2>2. q \in Seq(Answer) /\ Len(q) = Len(d.l7_queue) + 1
    BY <2>1, AppendProperties
  <2>3. q # <<>>
    BY <2>1, AppendProperties
  <2>4. q \in Queues
    BY <1>1, <2>1, <2>2, LenProperties, DeviceAssumption DEF Queues
  <2>5. QueueL7(d, m) = [d EXCEPT !.l7_queue = q]
    BY <1>1 DEF QueueL7
  <2> QED
    BY <2>3, <2>4, <2>5 DEF OnlyQueue
<1>2. CASE ~(Len(d.l7_queue) < QueueDepth)
  <2>1. QueueL7(d, m) = [d EXCEPT !.l7_queue = d.l7_queue]
    BY <1>2 DEF QueueL7, Typed, Device
  <2> QED
    BY <2>1 DEF OnlyQueue, Typed
<1> QED
  BY <1>1, <1>2

(* A reply put together from typed parts is an answer. *)
LEMMA ReplyType ==
  ASSUME NEW p \in Procedures, NEW a \in Nat, NEW code \in Codes,
         NEW value \in Int, NEW alarms \in SUBSET (Alarms \X BOOLEAN)
  PROVE  Reply(p, a, code, value, alarms) \in Answer
BY DEF Reply, Answer

(* The two ways to queue the answer of a request. *)
LEMMA QueueErrorOnly ==
  ASSUME NEW d, Typed(d), NEW code \in Codes,
         NEW req, req.proc \in Procedures, req.ant \in Nat
  PROVE  OnlyQueue(d, QueueError(d, req, code))
<1>1. AntennaOctet(req) \in Nat
  BY DEF AntennaOctet
<1>2. Reply(req.proc, AntennaOctet(req), code, 0, {}) \in Answer
  BY <1>1, ReplyType
<1> QED
  BY <1>2, QueueL7Only DEF QueueError

LEMMA QueueOkOnly ==
  ASSUME NEW d, Typed(d), NEW value \in Int,
         NEW alarms \in SUBSET (Alarms \X BOOLEAN),
         NEW req, req.proc \in Procedures, req.ant \in Nat
  PROVE  OnlyQueue(d, QueueOk(d, req, value, alarms))
<1>1. AntennaOctet(req) \in Nat
  BY DEF AntennaOctet
<1>2. "OK" \in Codes
  BY DEF Codes
<1>3. Reply(req.proc, AntennaOctet(req), "OK", value, alarms) \in Answer
  BY <1>1, <1>2, ReplyType
<1> QED
  BY <1>3, QueueL7Only DEF QueueOk

(* An answer in the queue disturbs nothing else. *)
LEMMA OnlyQueueKeeps ==
  ASSUME NEW d, Typed(d), NEW x, OnlyQueue(d, x)
  PROVE  /\ Typed(x)
         /\ Keeps(d, x)
         /\ x.motor = d.motor /\ x.tcc = d.tcc /\ x.config = d.config
         /\ x.transfer_active = d.transfer_active
         /\ x.storage = d.storage /\ x.dirty = d.dirty
<1>1. PICK q \in Queues : /\ x = [d EXCEPT !.l7_queue = q]
                          /\ d.l7_queue # <<>> => q # <<>>
  BY DEF OnlyQueue
<1>2. d \in Device /\ q \in Seq(Answer)
  BY DEF Typed, Queues
<1>3. /\ x \in Device /\ x.l7_queue = q
      /\ x.motor = d.motor /\ x.tcc = d.tcc /\ x.config = d.config
      /\ x.transfer_active = d.transfer_active /\ x.dirty = d.dirty
      /\ x.storage = d.storage /\ x.reset_after_i_ack = d.reset_after_i_ack
  BY <1>1, <1>2 DEF Device
<1>4. SameLink(d, x)
  BY <1>1, <1>2 DEF Device, SameLink
<1> QED
  BY <1>1, <1>3, <1>4 DEF Typed, Keeps

LEMMA KeepsTransitive ==
  ASSUME NEW d, NEW x, NEW y, Keeps(d, x), Keeps(x, y)
  PROVE  Keeps(d, y)
BY DEF Keeps, SameLink

LEMMA KeepsHandled ==
  ASSUME NEW d, NEW x, GoodDevice(x), Keeps(d, x)
  PROVE  Handled(d, x)
BY DEF Keeps, Handled

(* A request that is only answered. *)
LEMMA AnsweredHandled ==
  ASSUME NEW d, GoodDevice(d), NEW x, OnlyQueue(d, x)
  PROVE  GoodDevice(x) /\ Keeps(d, x)
<1>1. Typed(d)
  BY DEF GoodDevice, Unsaved
<1> QED
  BY <1>1, OnlyQueueKeeps
  DEF GoodDevice, Unsaved, Supervised, Legal, Unfinished, Agrees

-----------------------------------------------------------------------------
(* Saving. *)

(* A successful save makes the stored copy agree with the configuration; a *)
(* failed one is remembered.                                               *)
LEMMA PersistGood ==
  ASSUME NEW d, Unsaved(d), NEW save \in Saves
  PROVE  GoodDevice(Persist(d, save)) /\ Keeps(d, Persist(d, save))
<1> DEFINE store == IF save = "ok" THEN d.config
                    ELSE IF save = "failed" THEN d.storage ELSE None
           x     == Persist(d, save)
<1>1. d \in Device /\ store \in Config \cup {None}
  BY DEF Unsaved, Typed, Device
<1>2. x = [d EXCEPT !.storage = store, !.dirty = (save # "ok")]
  BY <1>1 DEF Persist, Saves, Device
<1>3. /\ x \in Device
      /\ x.storage = store /\ x.dirty = (save # "ok") /\ x.l7_queue = d.l7_queue
      /\ x.motor = d.motor /\ x.tcc = d.tcc /\ x.config = d.config
      /\ x.transfer_active = d.transfer_active
      /\ x.reset_after_i_ack = d.reset_after_i_ack
  <2>1. (save # "ok") \in BOOLEAN
    OBVIOUS
  <2>2. x \in Device
    BY <1>1, <1>2, <2>1 DEF Device
  <2> QED BY <1>1, <1>2, <2>2 DEF Device
<1>4. SameLink(d, x)
  BY <1>1, <1>2 DEF Device, SameLink
<1>5. Agrees(x)
  BY <1>1, <1>3, NoneAssumption DEF Agrees, Device
<1> QED
  BY <1>3, <1>4, <1>5
  DEF GoodDevice, Unsaved, Typed, Supervised, Legal, Unfinished, Keeps

LEMMA SaveAndAnswerGood ==
  ASSUME NEW d, Unsaved(d), NEW e, e.save \in Saves,
         NEW req, req.proc \in Procedures, req.ant \in Nat
  PROVE  /\ GoodDevice(SaveAndAnswer(d, req, e))
         /\ Keeps(d, SaveAndAnswer(d, req, e))
<1> DEFINE saved == Persist(d, e.save)
<1>1. GoodDevice(saved) /\ Keeps(d, saved) /\ Typed(saved)
  BY PersistGood DEF GoodDevice, Unsaved
<1>2. OnlyQueue(saved, QueueOk(saved, req, 0, {}))
  BY <1>1, QueueOkOnly
<1>3. "HARDWARE_ERROR" \in Codes
  BY DEF Codes, Faults
<1>4. OnlyQueue(saved, QueueError(saved, req, "HARDWARE_ERROR"))
  BY <1>1, <1>3, QueueErrorOnly
<1>5. OnlyQueue(saved, SaveAndAnswer(d, req, e))
  BY <1>2, <1>4 DEF SaveAndAnswer
<1> QED
  BY <1>1, <1>5, AnsweredHandled, KeepsTransitive

-----------------------------------------------------------------------------
(* The procedures that change a device. *)

(* start_tcc only replaces a command when none runs, because the motor is  *)
(* then stopped; the antenna was checked before.                           *)
LEMMA StartTccGood ==
  ASSUME NEW d, GoodDevice(d), d.tcc = None,
         NEW req, req.proc \in Procedures, req.ant \in Nat,
         NEW type \in {"SELF_TEST", "CALIBRATE", "SET_TILT"},
         NEW a \in Antennas, NEW target \in Tilts, NEW e,
         type # "SELF_TEST" => d.config.configured[a],
         type # "CALIBRATE" => d.config.calibrated[a]
  PROVE  /\ GoodDevice(StartTcc(d, req, type, a, target, e))
         /\ Keeps(d, StartTcc(d, req, type, a, target, e))
<1>1. CASE d.motor = "RUNNING" \/ ~e.ready
  <2>1. "HARDWARE_ERROR" \in Codes
    BY DEF Codes, Faults
  <2>2. OnlyQueue(d, QueueError(d, req, "HARDWARE_ERROR"))
    BY <2>1, QueueErrorOnly DEF GoodDevice, Unsaved
  <2> QED
    BY <1>1, <2>2, AnsweredHandled DEF StartTcc
<1>2. CASE ~(d.motor = "RUNNING" \/ ~e.ready)
  <2> DEFINE m == IF type = "SET_TILT" /\ e.there THEN "OK" ELSE "RUNNING"
             c == [type |-> type, proc |-> req.proc, ant |-> a, target |-> target]
             x == StartTcc(d, req, type, a, target, e)
  <2>1. d \in Device /\ m \in MotorStates /\ c \in Tcc
    BY DEF GoodDevice, Unsaved, Typed, MotorStates, Tcc
  <2>2. x = [d EXCEPT !.motor = m, !.tcc = c]
    BY <1>2 DEF StartTcc
  <2>3. c # None /\ c.type = type /\ c.ant = a
    BY <2>1, NoneAssumption
  <2> HIDE DEF m, c, x
  <2>4. /\ x \in Device
        /\ x.motor = m /\ x.tcc = c /\ x.l7_queue = d.l7_queue
        /\ x.config = d.config /\ x.transfer_active = d.transfer_active
        /\ x.storage = d.storage /\ x.dirty = d.dirty
        /\ x.reset_after_i_ack = d.reset_after_i_ack
    <3>1. x \in Device
      BY <2>1, <2>2, ZenonT(30) DEF Device
    <3> QED BY <2>1, <2>2, <3>1 DEF Device
  <2>5. SameLink(d, x)
    BY <2>1, <2>2 DEF Device, SameLink
  <2>6. GoodDevice(x) /\ Keeps(d, x)
    BY <2>3, <2>4, <2>5
    DEF GoodDevice, Unsaved, Typed, Supervised, Legal, Unfinished, Agrees, Keeps
  <2> QED
    BY <2>6 DEF x
<1> QED
  BY <1>1, <1>2

(* RESET_SOFTWARE empties the queue and stops the command, so its own      *)
(* answer is the one in the queue.                                         *)
LEMMA ResetSoftwareHandled ==
  ASSUME NEW d, GoodDevice(d),
         NEW req, req.proc \in Procedures, req.ant \in Nat
  PROVE  Handled(d, ResetSoftware(d, req))
<1> DEFINE none == [s \in Sources |-> {}]
           idle == [a \in Antennas |-> FALSE]
           c    == [d EXCEPT !.motor            = "IDLE",
                             !.alarm_active     = none,
                             !.alarm_changed    = none,
                             !.tcc              = None,
                             !.transfer_active  = idle,
                             !.alarm_subscribed = FALSE,
                             !.l7_queue         = <<>>]
           y    == QueueOk(c, req, 0, {})
           x    == ResetSoftware(d, req)
<1>1. /\ d \in Device /\ none \in [Sources -> SUBSET Alarms]
      /\ idle \in [Antennas -> BOOLEAN] /\ <<>> \in Seq(Answer)
      /\ "IDLE" \in MotorStates
  BY DEF GoodDevice, Unsaved, Typed, MotorStates
<1>2. /\ c \in Device /\ c.l7_queue = <<>> /\ c.motor = "IDLE" /\ c.tcc = None
      /\ c.transfer_active = idle /\ c.config = d.config
      /\ c.storage = d.storage /\ c.dirty = d.dirty
  <2> HIDE DEF none, idle
  <2> QED BY <1>1 DEF Device
<1>3. SameLink(d, c)
  <2> HIDE DEF none, idle
  <2> QED BY <1>1 DEF Device, SameLink
<1>4. <<>> \in Queues
  BY <1>1, DeviceAssumption, EmptySeq DEF Queues
<1>5. GoodDevice(c)
  <2>1. c.motor # "RUNNING"
    BY <1>2
  <2> QED
    BY <1>2, <1>4, <2>1
    DEF GoodDevice, Unsaved, Typed, Supervised, Legal, Unfinished, Agrees
<1>6. Typed(c)
  BY <1>5 DEF GoodDevice, Unsaved
<1>7. GoodDevice(y) /\ Keeps(c, y)
  BY <1>5, <1>6, QueueOkOnly, AnsweredHandled
<1>8. y.l7_queue # <<>>
  <2> DEFINE m == Reply(req.proc, AntennaOctet(req), "OK", 0, {})
  <2>1. Len(c.l7_queue) < QueueDepth
    BY <1>2, DeviceAssumption
  <2>2. y = [c EXCEPT !.l7_queue = Append(c.l7_queue, m)]
    BY <2>1 DEF QueueOk, QueueL7
  <2>3. Append(c.l7_queue, m) # <<>>
    BY <1>2, AppendProperties
  <2>4. y.l7_queue = Append(c.l7_queue, m)
    BY <1>2, <2>2 DEF Device
  <2> QED
    BY <2>3, <2>4
<1> HIDE DEF c, y
<1>9. x = [y EXCEPT !.reset_after_i_ack = TRUE]
  BY DEF x, ResetSoftware, y, c
<1>10. /\ x \in Device /\ x.l7_queue = y.l7_queue /\ x.motor = y.motor
       /\ x.tcc = y.tcc /\ x.config = y.config /\ x.dirty = y.dirty
       /\ x.transfer_active = y.transfer_active /\ x.storage = y.storage
  BY <1>7, <1>9 DEF GoodDevice, Unsaved, Typed, Device
<1>11. SameLink(y, x)
  BY <1>7, <1>9 DEF GoodDevice, Unsaved, Typed, Device, SameLink
<1>12. GoodDevice(x)
  BY <1>7, <1>10
  DEF GoodDevice, Unsaved, Typed, Supervised, Legal, Unfinished, Agrees
<1>13. SameLink(d, x)
  BY <1>3, <1>7, <1>11 DEF Keeps, SameLink
<1> QED
  BY <1>8, <1>10, <1>12, <1>13 DEF Handled

(* A change of the configuration while no command runs. *)
Changed(d, config, transfer) ==
  [d EXCEPT !.config = config, !.transfer_active = transfer]

LEMMA ConfigChange ==
  ASSUME NEW d, Unsaved(d), d.tcc = None,
         NEW config \in Config, NEW transfer \in [Antennas -> BOOLEAN],
         \A a \in Antennas : transfer[a] => ~config.configured[a]
  PROVE  /\ Unsaved(Changed(d, config, transfer))
         /\ Keeps(d, Changed(d, config, transfer))
         /\ Agrees(d) /\ Durable(config) = Durable(d.config)
              => Agrees(Changed(d, config, transfer))
<1> DEFINE x == Changed(d, config, transfer)
<1>1. d \in Device
  BY DEF Unsaved, Typed
<1>2. /\ x \in Device
      /\ x.config = config /\ x.transfer_active = transfer
      /\ x.motor = d.motor /\ x.tcc = d.tcc /\ x.l7_queue = d.l7_queue
      /\ x.storage = d.storage /\ x.dirty = d.dirty
      /\ x.reset_after_i_ack = d.reset_after_i_ack
  BY <1>1 DEF Device, Changed
<1>3. SameLink(d, x)
  BY <1>1 DEF Device, SameLink, Changed
<1> HIDE DEF x
<1>4. /\ Unsaved(x) /\ Keeps(d, x)
      /\ Agrees(d) /\ Durable(config) = Durable(d.config) => Agrees(x)
  BY <1>2, <1>3
  DEF Unsaved, Typed, Supervised, Legal, Unfinished, Agrees, Keeps
<1> QED
  BY <1>4 DEF x

(* A segment is stored with the antenna marked as not configured until the *)
(* last one; a transfer given up changes nothing that is promised to last. *)
LEMMA SendConfigurationGood ==
  ASSUME NEW d, GoodDevice(d), d.tcc = None,
         NEW req, req.proc \in Procedures, req.ant \in Nat, req.arg \in Nat,
         AntennaOf(req) \in Antennas, NEW e, e.save \in Saves
  PROVE  /\ GoodDevice(SendConfiguration(d, req, e))
         /\ Keeps(d, SendConfiguration(d, req, e))
<1> DEFINE a     == AntennaOf(req)
           begun == IF d.transfer_active[a] THEN d
                                            ELSE [d EXCEPT !.config.length[a] = 0]
           total == begun.config.length[a] + req.arg
           more  == req.arg = MaxSegment
           gone  == [d EXCEPT !.transfer_active[a] = FALSE,
                              !.config.length[a]   = 0]
           kept  == [begun EXCEPT !.transfer_active[a]   = more,
                                  !.config.length[a]     = total,
                                  !.config.configured[a] = ~more]
           config0 == [d.config EXCEPT !.length[a] = 0]
           config1 == [d.config EXCEPT !.length[a] = total,
                                       !.configured[a] = ~more]
           x == SendConfiguration(d, req, e)
<1>1. /\ d \in Device /\ a \in Antennas /\ Unsaved(d) /\ Agrees(d)
      /\ d.config \in Config /\ d.transfer_active \in [Antennas -> BOOLEAN]
  BY DEF GoodDevice, Unsaved, Typed, Device
<1> USE DEF Saves
<1>2. Unsaved(gone) /\ Keeps(d, gone) /\ Agrees(gone)
  <2> DEFINE transfer == [d.transfer_active EXCEPT ![a] = FALSE]
  <2>1. config0 \in Config /\ config0.configured = d.config.configured
    BY <1>1, DeviceAssumption DEF Config
  <2>2. Durable(config0) = Durable(d.config)
    BY <1>1 DEF Config, Durable
  <2>3. gone = Changed(d, config0, transfer)
    BY <1>1 DEF Device, Changed
  <2>4. transfer \in [Antennas -> BOOLEAN]
    BY <1>1
  <2>5. \A b \in Antennas : transfer[b] => ~config0.configured[b]
    BY <1>1, <2>1 DEF Unsaved, Unfinished
  <2> HIDE DEF a, config0, transfer, gone
  <2> QED
    BY <1>1, <2>1, <2>2, <2>3, <2>4, <2>5, ConfigChange
<1>3. ASSUME NEW code \in Codes
      PROVE  /\ GoodDevice(QueueError(gone, req, code))
             /\ Keeps(d, QueueError(gone, req, code))
  <2>1. GoodDevice(gone) /\ Typed(gone)
    BY <1>2 DEF GoodDevice, Unsaved
  <2>2. OnlyQueue(gone, QueueError(gone, req, code))
    BY <2>1, QueueErrorOnly
  <2> HIDE DEF gone
  <2> QED
    BY <1>2, <2>1, <2>2, AnsweredHandled, KeepsTransitive
<1>4. ASSUME total <= ConfigSize
      PROVE  Unsaved(kept) /\ Keeps(d, kept)
  <2> DEFINE transfer == [d.transfer_active EXCEPT ![a] = more]
  <2>1. begun.config.length[a] \in Nat /\ total \in 0 .. ConfigSize
    BY <1>1, <1>4, DeviceAssumption DEF Device, Config
  <2>2. kept = Changed(d, config1, transfer)
    <3> HIDE DEF total, more, a
    <3>1. CASE d.transfer_active[a]
      BY <1>1, <3>1 DEF Device, Config, Changed
    <3>2. CASE ~d.transfer_active[a]
      <4> DEFINE cleared == [d.config.length EXCEPT ![a] = 0]
                 final   == [d.config.length EXCEPT ![a] = total]
                 marked  == [d.config.configured EXCEPT ![a] = ~more]
      <4>1. [cleared EXCEPT ![a] = total] = final
        BY <1>1 DEF Config
      <4>2. begun = [d EXCEPT !.config.length = cleared]
        BY <1>1, <3>2 DEF Device, Config
      <4>3. config1 = [d.config EXCEPT !.length = final, !.configured = marked]
        BY <1>1 DEF Config
      <4>4. kept = [begun EXCEPT !.transfer_active = transfer,
                                 !.config.length = [cleared EXCEPT ![a] = total],
                                 !.config.configured = marked]
        <5> HIDE DEF cleared, begun
        <5> QED BY <1>1, <4>2 DEF Device, Config
      <4> HIDE DEF begun, kept, config1, cleared, final, marked, transfer
      <4>5. begun.config = [d.config EXCEPT !.length = cleared]
        BY <1>1, <4>2 DEF Device
      <4>6. [begun.config EXCEPT !.length = final, !.configured = marked] = config1
        BY <1>1, <4>3, <4>5 DEF Config
      <4>7. kept = [begun EXCEPT !.transfer_active = transfer, !.config = config1]
        BY <1>1, <4>1, <4>2, <4>4, <4>5, <4>6 DEF Device, Config
      <4> QED BY <1>1, <4>2, <4>7 DEF Device, Changed
    <3> QED
      BY <3>1, <3>2
  <2> HIDE DEF total
  <2>3. config1 \in Config /\ config1.configured = [d.config.configured EXCEPT ![a] = ~more]
    BY <1>1, <2>1 DEF Config
  <2>4. transfer \in [Antennas -> BOOLEAN]
    BY <1>1
  <2>5. \A b \in Antennas : transfer[b] => ~config1.configured[b]
    BY <1>1, <2>3 DEF Unsaved, Unfinished, Config
  <2> HIDE DEF a, config1, transfer, kept
  <2> QED
    BY <1>1, <2>2, <2>3, <2>4, <2>5, ConfigChange
<1>5. CASE req.arg > MaxSegment
  <2>1. x = QueueError(gone, req, "FORMAT_ERROR")
    BY <1>5 DEF SendConfiguration
  <2>2. "FORMAT_ERROR" \in Codes
    BY DEF Codes
  <2> QED
    BY <1>3, <2>1, <2>2
<1>6. CASE ~(req.arg > MaxSegment) /\ total > ConfigSize
  <2>1. x = QueueError(gone, req, "OUT_OF_RANGE")
    BY <1>6 DEF SendConfiguration
  <2>2. "OUT_OF_RANGE" \in Codes
    BY DEF Codes
  <2> QED
    BY <1>3, <2>1, <2>2
<1>7. CASE ~(req.arg > MaxSegment) /\ ~(total > ConfigSize)
  <2>1. x = SaveAndAnswer(kept, req, e)
    BY <1>7 DEF SendConfiguration
  <2>2. total <= ConfigSize
    BY <1>1, <1>7, DeviceAssumption DEF Device, Config
  <2>3. Unsaved(kept) /\ Keeps(d, kept)
    BY <1>4, <2>2
  <2> HIDE DEF kept, x
  <2>4. GoodDevice(x) /\ Keeps(kept, x)
    BY <2>1, <2>3, SaveAndAnswerGood
  <2> QED
    BY <2>3, <2>4, KeepsTransitive DEF x
<1> QED
  BY <1>5, <1>6, <1>7

-----------------------------------------------------------------------------
(* Alarms. *)

(* Alarms and their marks have no part in what a good device promises. *)
Alarmed(d, active, changed, subscribed) ==
  [d EXCEPT !.alarm_active = active, !.alarm_changed = changed,
            !.alarm_subscribed = subscribed]

LEMMA AlarmedGood ==
  ASSUME NEW d, GoodDevice(d),
         NEW active \in [Sources -> SUBSET Alarms],
         NEW changed \in [Sources -> SUBSET Alarms],
         NEW subscribed \in BOOLEAN
  PROVE  /\ GoodDevice(Alarmed(d, active, changed, subscribed))
         /\ Keeps(d, Alarmed(d, active, changed, subscribed))
<1> DEFINE x == Alarmed(d, active, changed, subscribed)
<1>1. d \in Device
  BY DEF GoodDevice, Unsaved, Typed
<1>2. /\ x \in Device
      /\ x.config = d.config /\ x.transfer_active = d.transfer_active
      /\ x.motor = d.motor /\ x.tcc = d.tcc /\ x.l7_queue = d.l7_queue
      /\ x.storage = d.storage /\ x.dirty = d.dirty
      /\ x.reset_after_i_ack = d.reset_after_i_ack
  BY <1>1 DEF Device, Alarmed
<1>3. SameLink(d, x)
  BY <1>1 DEF Device, SameLink, Alarmed
<1> HIDE DEF x
<1>4. GoodDevice(x) /\ Keeps(d, x)
  BY <1>2, <1>3
  DEF GoodDevice, Unsaved, Typed, Supervised, Legal, Unfinished, Agrees, Keeps
<1> QED
  BY <1>4 DEF x

LEMMA AlarmSubscribeGood ==
  ASSUME NEW d, GoodDevice(d),
         NEW req, req.proc \in Procedures, req.ant \in Nat
  PROVE  /\ GoodDevice(AlarmSubscribe(d, req))
         /\ Keeps(d, AlarmSubscribe(d, req))
<1> DEFINE changed == [s \in Sources |-> d.alarm_changed[s] \cup d.alarm_active[s]]
           y       == Alarmed(d, d.alarm_active, changed, TRUE)
<1>1. d \in Device
  BY DEF GoodDevice, Unsaved, Typed
<1>2. changed \in [Sources -> SUBSET Alarms]
  BY <1>1 DEF Device
<1>3. GoodDevice(y) /\ Keeps(d, y) /\ Typed(y)
  <2> HIDE DEF changed
  <2>1. GoodDevice(y) /\ Keeps(d, y)
    BY <1>1, <1>2, AlarmedGood DEF Device
  <2> QED
    BY <2>1 DEF GoodDevice, Unsaved
<1>4. AlarmSubscribe(d, req) = QueueOk(y, req, 0, {})
  BY <1>1 DEF AlarmSubscribe, Alarmed, Device
<1> HIDE DEF y
<1>5. OnlyQueue(y, QueueOk(y, req, 0, {}))
  BY <1>3, QueueOkOnly
<1> QED
  BY <1>3, <1>4, <1>5, AnsweredHandled, KeepsTransitive

LEMMA ClearAlarmsGood ==
  ASSUME NEW d, GoodDevice(d), NEW s \in Sources
  PROVE  GoodDevice(ClearAlarms(d, s)) /\ Keeps(d, ClearAlarms(d, s))
<1> DEFINE active  == [d.alarm_active EXCEPT ![s] = {}]
           changed == [d.alarm_changed EXCEPT ![s] = @ \cup d.alarm_active[s]]
<1>1. d \in Device
  BY DEF GoodDevice, Unsaved, Typed
<1>2. /\ active \in [Sources -> SUBSET Alarms]
      /\ changed \in [Sources -> SUBSET Alarms]
  BY <1>1 DEF Device
<1>3. ClearAlarms(d, s) = Alarmed(d, active, changed, d.alarm_subscribed)
  BY <1>1 DEF ClearAlarms, Alarmed, Device
<1> HIDE DEF active, changed
<1> QED
  BY <1>1, <1>2, <1>3, AlarmedGood DEF Device

LEMMA QueueChangedAlarmsGood ==
  ASSUME NEW d, GoodDevice(d), NEW s \in Nat
  PROVE  /\ GoodDevice(QueueChangedAlarms(d, s))
         /\ Keeps(d, QueueChangedAlarms(d, s))
<1> DEFINE go == /\ s \in Sources
                 /\ d.alarm_changed[s] # {}
                 /\ Len(d.l7_queue) < QueueDepth
           proc == IF s = 0 THEN "AlarmIndication" ELSE "AntennaAlarmIndication"
           pairs == ChangedAlarms(d, s)
           m == Reply(proc, s, "INDICATION", 0, pairs)
           y == QueueL7(d, m)
           changed == [y.alarm_changed EXCEPT ![s] = {}]
<1>1. d \in Device /\ Typed(d)
  BY DEF GoodDevice, Unsaved, Typed
<1>2. CASE ~go
  <2>1. QueueChangedAlarms(d, s) = d
    BY <1>2 DEF QueueChangedAlarms
  <2>2. Keeps(d, d)
    BY DEF Keeps, SameLink
  <2> QED
    BY <2>1, <2>2
<1>3. CASE go
  <2>1. pairs \in SUBSET (Alarms \X BOOLEAN)
    BY <1>1, <1>3 DEF Device, ChangedAlarms
  <2>2. proc \in Procedures /\ "INDICATION" \in Codes
    BY DEF Procedures, UnsupportedProcedures, Codes
  <2>3. m \in Answer
    <3> HIDE DEF proc, pairs
    <3> QED BY <2>1, <2>2, ReplyType
  <2>4. QueueChangedAlarms(d, s) = [y EXCEPT !.alarm_changed[s] = {}]
    BY <1>3 DEF QueueChangedAlarms
  <2> HIDE DEF m
  <2>5. OnlyQueue(d, y)
    BY <1>1, <2>3, QueueL7Only
  <2> HIDE DEF y
  <2>6. GoodDevice(y) /\ Keeps(d, y) /\ y \in Device
    BY <2>5, AnsweredHandled DEF GoodDevice, Unsaved, Typed
  <2>7. changed \in [Sources -> SUBSET Alarms]
    BY <2>6 DEF Device
  <2>8. QueueChangedAlarms(d, s)
          = Alarmed(y, y.alarm_active, changed, y.alarm_subscribed)
    BY <2>4, <2>6 DEF Alarmed, Device
  <2> HIDE DEF changed
  <2>9. y.alarm_active \in [Sources -> SUBSET Alarms] /\ y.alarm_subscribed \in BOOLEAN
    BY <2>6 DEF Device
  <2> DEFINE x == Alarmed(y, y.alarm_active, changed, y.alarm_subscribed)
  <2>10. GoodDevice(x) /\ Keeps(y, x)
    BY <2>6, <2>7, <2>9, AlarmedGood
  <2> HIDE DEF x
  <2>11. Keeps(d, x)
    BY <2>6, <2>10, KeepsTransitive
  <2> QED
    BY <2>8, <2>10, <2>11 DEF x
<1> QED
  BY <1>2, <1>3

LEMMA QueueAlarmIndicationsGood ==
  ASSUME NEW d, GoodDevice(d)
  PROVE  /\ GoodDevice(QueueAlarmIndications(d))
         /\ Keeps(d, QueueAlarmIndications(d))
<1> DEFINE d0 == QueueChangedAlarms(d, 0)
           d1 == QueueChangedAlarms(d0, 1)
           d2 == QueueChangedAlarms(d1, 2)
           d3 == QueueChangedAlarms(d2, 3)
           d4 == QueueChangedAlarms(d3, 4)
<1>1. Keeps(d, d)
  BY DEF Keeps, SameLink
<1>2. \/ QueueAlarmIndications(d) = d
      \/ QueueAlarmIndications(d) = d0
      \/ QueueAlarmIndications(d) = d4
  BY DEF QueueAlarmIndications
<1>3. GoodDevice(d0) /\ Keeps(d, d0)
  BY QueueChangedAlarmsGood
<1> HIDE DEF d0
<1>4. GoodDevice(d1) /\ Keeps(d, d1)
  BY <1>3, QueueChangedAlarmsGood, KeepsTransitive
<1> HIDE DEF d1
<1>5. GoodDevice(d2) /\ Keeps(d, d2)
  BY <1>4, QueueChangedAlarmsGood, KeepsTransitive
<1> HIDE DEF d2
<1>6. GoodDevice(d3) /\ Keeps(d, d3)
  BY <1>5, QueueChangedAlarmsGood, KeepsTransitive
<1> HIDE DEF d3
<1>7. GoodDevice(d4) /\ Keeps(d, d4)
  BY <1>6, QueueChangedAlarmsGood, KeepsTransitive
<1> QED
  BY <1>1, <1>2, <1>3, <1>7

-----------------------------------------------------------------------------
(* The running command. *)

LEMMA ActiveAlarmsType ==
  ASSUME NEW d, d \in Device, NEW s \in Sources
  PROVE  ActiveAlarms(d, s) \in SUBSET (Alarms \X BOOLEAN)
BY DEF ActiveAlarms, Device

(* The device once its command has ended with the motor at rest. *)
LEMMA EndedGood ==
  ASSUME NEW d, GoodDevice(d), d.motor # "RUNNING"
  PROVE  /\ GoodDevice([d EXCEPT !.tcc = None])
         /\ Keeps(d, [d EXCEPT !.tcc = None])
<1> DEFINE x == [d EXCEPT !.tcc = None]
<1>1. d \in Device
  BY DEF GoodDevice, Unsaved, Typed
<1>2. /\ x \in Device /\ x.tcc = None
      /\ x.config = d.config /\ x.transfer_active = d.transfer_active
      /\ x.motor = d.motor /\ x.l7_queue = d.l7_queue
      /\ x.storage = d.storage /\ x.dirty = d.dirty
      /\ x.reset_after_i_ack = d.reset_after_i_ack
  BY <1>1 DEF Device
<1>3. SameLink(d, x)
  BY <1>1 DEF Device, SameLink
<1> HIDE DEF x
<1>4. GoodDevice(x) /\ Keeps(d, x)
  BY <1>2, <1>3
  DEF GoodDevice, Unsaved, Typed, Supervised, Legal, Unfinished, Agrees, Keeps
<1> QED
  BY <1>4 DEF x

LEMMA CompleteTccGood ==
  ASSUME NEW d, GoodDevice(d), d.tcc # None, d.motor # "RUNNING",
         NEW result \in {"OK"} \cup Faults, NEW e, e.save \in Saves
  PROVE  /\ GoodDevice(CompleteTcc(d, result, e))
         /\ Keeps(d, CompleteTcc(d, result, e))
<1> DEFINE tcc   == d.tcc
           req   == TccRequest(tcc)
           ended == [d EXCEPT !.tcc = None]
           x     == CompleteTcc(d, result, e)
<1>1. d \in Device /\ tcc \in Tcc
  BY DEF GoodDevice, Unsaved, Typed, Device
<1>2. req.proc \in Procedures /\ req.ant \in Nat
  BY <1>1, DeviceAssumption DEF TccRequest, Tcc, Antennas
<1>3. /\ GoodDevice(ended) /\ Keeps(d, ended) /\ Unsaved(ended) /\ Typed(ended)
      /\ ended \in Device
  BY EndedGood DEF GoodDevice, Unsaved, Typed
<1>4. ended.tcc = None
  BY <1>1 DEF Device
<1>5. ASSUME NEW y, OnlyQueue(ended, y)
      PROVE  GoodDevice(y) /\ Keeps(d, y)
  <2> HIDE DEF ended
  <2> QED BY <1>3, <1>5, AnsweredHandled, KeepsTransitive
<1>6. ASSUME NEW config \in Config, config.configured = ended.config.configured
      PROVE  /\ GoodDevice(SaveAndAnswer(Changed(ended, config, ended.transfer_active),
                                         req, e))
             /\ Keeps(d, SaveAndAnswer(Changed(ended, config, ended.transfer_active),
                                       req, e))
  <2> HIDE DEF ended, req
  <2> DEFINE changed == Changed(ended, config, ended.transfer_active)
  <2>1. ended.transfer_active \in [Antennas -> BOOLEAN]
    BY <1>3 DEF Device
  <2>2. \A a \in Antennas : ended.transfer_active[a] => ~config.configured[a]
    BY <1>3, <1>6 DEF Unsaved, Unfinished
  <2>3. Unsaved(changed) /\ Keeps(ended, changed)
    BY <1>3, <1>4, <2>1, <2>2, ConfigChange
  <2> HIDE DEF changed
  <2>4. /\ GoodDevice(SaveAndAnswer(changed, req, e))
        /\ Keeps(changed, SaveAndAnswer(changed, req, e))
    BY <1>2, <2>3, SaveAndAnswerGood
  <2> QED
    BY <1>3, <2>3, <2>4, KeepsTransitive DEF changed
<1>7. CASE result # "OK"
  <2>1. x = QueueError(ended, req, result)
    BY <1>7 DEF CompleteTcc
  <2>2. result \in Codes
    BY <1>7 DEF Codes
  <2> HIDE DEF ended, req
  <2> QED
    BY <1>2, <1>3, <1>5, <2>1, <2>2, QueueErrorOnly
<1>8. CASE result = "OK" /\ tcc.type = "SELF_TEST"
  <2>1. x = QueueOk(ended, req, 0, ActiveAlarms(d, 0))
    BY <1>8 DEF CompleteTcc
  <2>2. ActiveAlarms(d, 0) \in SUBSET (Alarms \X BOOLEAN)
    BY <1>1, DeviceAssumption, ActiveAlarmsType DEF Sources
  <2> HIDE DEF ended, req
  <2> QED
    BY <1>2, <1>3, <1>5, <2>1, <2>2, QueueOkOnly
<1>9. CASE result = "OK" /\ tcc.type = "SET_TILT"
  <2> DEFINE config == [d.config EXCEPT !.tilt[tcc.ant] = tcc.target]
  <2>1. config \in Config /\ config.configured = ended.config.configured
    BY <1>1 DEF Device, Config, Tcc
  <2>2. Changed(ended, config, ended.transfer_active)
          = [ended EXCEPT !.config.tilt[tcc.ant] = tcc.target]
    BY <1>1 DEF Device, Changed
  <2>3. x = SaveAndAnswer([ended EXCEPT !.config.tilt[tcc.ant] = tcc.target], req, e)
    BY <1>9 DEF CompleteTcc
  <2> HIDE DEF config, ended, req, x
  <2>4. GoodDevice(x) /\ Keeps(d, x)
    BY <1>6, <2>1, <2>2, <2>3
  <2> QED
    BY <2>4 DEF x
<1>10. CASE result = "OK" /\ tcc.type = "CALIBRATE"
  <2> DEFINE config == [d.config EXCEPT !.calibrated[tcc.ant] = TRUE]
  <2>1. config \in Config /\ config.configured = ended.config.configured
    BY <1>1 DEF Device, Config, Tcc
  <2>2. Changed(ended, config, ended.transfer_active)
          = [ended EXCEPT !.config.calibrated[tcc.ant] = TRUE]
    BY <1>1 DEF Device, Changed
  <2>3. x = SaveAndAnswer([ended EXCEPT !.config.calibrated[tcc.ant] = TRUE], req, e)
    BY <1>10 DEF CompleteTcc
  <2> HIDE DEF config, ended, req, x
  <2>4. GoodDevice(x) /\ Keeps(d, x)
    BY <1>6, <2>1, <2>2, <2>3
  <2> QED
    BY <2>4 DEF x
<1> QED
  BY <1>1, <1>7, <1>8, <1>9, <1>10 DEF Tcc

(* One poll of the command. *)
LEMMA PollTccGood ==
  ASSUME NEW d, GoodDevice(d), NEW e \in PollEnvironment
  PROVE  GoodDevice(PollTcc(d, e)) /\ Keeps(d, PollTcc(d, e))
<1> DEFINE a       == d.tcc.ant
           stopped == [d EXCEPT !.motor = "IDLE"]
           moved   == [d EXCEPT !.motor = e.motor, !.config.tilt[a] = e.position]
<1>1. /\ d \in Device
      /\ d.tcc # None => a \in Antennas
      /\ d.config \in Config /\ e.motor \in MotorStates /\ e.motor # "IDLE"
      /\ e.position \in Tilts /\ e.save \in Saves
  BY DEF GoodDevice, Unsaved, Typed, Device, Tcc, PollEnvironment
<1>2. Keeps(d, d)
  BY DEF Keeps, SameLink
<1>3. CASE d.tcc = None
  BY <1>2, <1>3 DEF PollTcc
<1>4. CASE d.tcc # None /\ e.expired
  <2>1. /\ stopped \in Device /\ stopped.motor = "IDLE" /\ stopped.tcc = d.tcc
        /\ stopped.config = d.config /\ stopped.l7_queue = d.l7_queue
        /\ stopped.transfer_active = d.transfer_active
        /\ stopped.storage = d.storage /\ stopped.dirty = d.dirty
        /\ stopped.reset_after_i_ack = d.reset_after_i_ack
    BY <1>1 DEF Device, MotorStates
  <2>2. SameLink(d, stopped)
    BY <1>1 DEF Device, SameLink
  <2>3. PollTcc(d, e) = CompleteTcc(stopped, "MOTOR_JAM", e)
    BY <1>4 DEF PollTcc
  <2> HIDE DEF stopped
  <2>4. GoodDevice(stopped) /\ Keeps(d, stopped)
    BY <2>1, <2>2
    DEF GoodDevice, Unsaved, Typed, Supervised, Legal, Unfinished, Agrees, Keeps
  <2>5. "MOTOR_JAM" \in Faults
    BY DEF Faults
  <2>6. stopped.motor # "RUNNING" /\ stopped.tcc # None
    BY <1>4, <2>1
  <2>7. /\ GoodDevice(CompleteTcc(stopped, "MOTOR_JAM", e))
        /\ Keeps(stopped, CompleteTcc(stopped, "MOTOR_JAM", e))
    BY <1>1, <2>4, <2>5, <2>6, CompleteTccGood
  <2> QED
    BY <2>3, <2>4, <2>7, KeepsTransitive
<1>5. CASE d.tcc # None /\ ~e.expired /\ d.motor = "RUNNING"
  <2> DEFINE config == [d.config EXCEPT !.tilt[a] = e.position]
  <2>1. /\ config \in Config /\ Durable(config) = Durable(d.config)
        /\ config.configured = d.config.configured
        /\ config.calibrated = d.config.calibrated
    BY <1>1, <1>5 DEF Config, Durable
  <2>2. moved = [d EXCEPT !.motor = e.motor, !.config = config]
    BY <1>1 DEF Device
  <2> HIDE DEF config, moved
  <2>3. /\ moved \in Device /\ moved.motor = e.motor /\ moved.tcc = d.tcc
        /\ moved.config = config /\ moved.l7_queue = d.l7_queue
        /\ moved.transfer_active = d.transfer_active
        /\ moved.storage = d.storage /\ moved.dirty = d.dirty
        /\ moved.reset_after_i_ack = d.reset_after_i_ack
    BY <1>1, <2>1, <2>2 DEF Device
  <2>4. SameLink(d, moved)
    BY <1>1, <2>2 DEF Device, SameLink
  <2>5. GoodDevice(moved) /\ Keeps(d, moved)
    BY <1>5, <2>1, <2>3, <2>4
    DEF GoodDevice, Unsaved, Typed, Supervised, Legal, Unfinished, Agrees, Keeps
  <2>6. CASE e.motor = "RUNNING"
    BY <1>5, <2>5, <2>6 DEF PollTcc, moved
  <2>7. CASE e.motor # "RUNNING"
    <3>1. e.motor \in {"OK"} \cup Faults
      BY <1>1, <2>7 DEF MotorStates
    <3>2. /\ GoodDevice(CompleteTcc(moved, e.motor, e))
          /\ Keeps(moved, CompleteTcc(moved, e.motor, e))
      BY <1>1, <1>5, <2>3, <2>5, <2>7, <3>1, CompleteTccGood
    <3>3. PollTcc(d, e) = CompleteTcc(moved, e.motor, e)
      BY <1>5, <2>7 DEF PollTcc, moved
    <3> QED
      BY <2>5, <3>2, <3>3, KeepsTransitive
  <2> QED
    BY <2>6, <2>7
<1>6. CASE d.tcc # None /\ ~e.expired /\ d.motor = "IDLE"
  BY <1>2, <1>6 DEF PollTcc
<1>7. CASE d.tcc # None /\ ~e.expired /\ d.motor \notin {"RUNNING", "IDLE"}
  <2>1. d.motor \in {"OK"} \cup Faults
    BY <1>1, <1>7 DEF Device, MotorStates
  <2>2. PollTcc(d, e) = CompleteTcc(d, d.motor, e)
    BY <1>7 DEF PollTcc
  <2> QED
    BY <1>1, <1>7, <2>1, <2>2, CompleteTccGood
<1> QED
  BY <1>3, <1>4, <1>5, <1>6, <1>7

-----------------------------------------------------------------------------
(* A whole request. *)

(* What is known of a request that no check refused. *)
LEMMA NotRefused ==
  ASSUME NEW d, NEW req \in Request, req.shape \notin {"short", "long"},
         Refusal(d, req) = "OK"
  PROVE  /\ d.tcc # None => req.proc \in AllowedDuringTcc
         /\ req.proc \in CommonProcedures \cup SingleProcedures
                           \cup (MultiProcedures \ {"AntennaAlarmIndication"})
         /\ NamesAntenna(req) => AntennaOf(req) \in Antennas
         /\ ProcedureRefusal(d, req) = "OK"
<1>1. GeneralRefusal(d, req) = "OK" /\ ProcedureRefusal(d, req) = "OK"
  BY DEF Refusal
<1>2. d.tcc # None => req.proc \in AllowedDuringTcc
  BY <1>1 DEF GeneralRefusal
<1>3. req.shape \in {"mismatch", "badlength", "ok"}
  BY DEF Request
<1>4. req.shape = "ok"
  BY <1>1, <1>3 DEF GeneralRefusal
<1>5. req.proc \notin UnsupportedProcedures /\ req.proc # "Unknown"
  BY <1>1, <1>4 DEF GeneralRefusal
<1>6. req.proc \in Procedures
  BY DEF Request
<1>7. NamesAntenna(req) => AntennaOf(req) \in Antennas
  BY <1>1 DEF ProcedureRefusal
<1> QED
  BY <1>1, <1>2, <1>5, <1>6, <1>7 DEF Procedures, UnsupportedProcedures

LEMMA NotRefusedCommand ==
  ASSUME NEW d, NEW req \in Request, req.shape \notin {"short", "long"},
         Refusal(d, req) = "OK"
  PROVE  /\ req.proc = "SelfTest" => d.config.calibrated[1]
         /\ req.proc \in {"Calibrate", "AntennaCalibrate"}
              => d.config.configured[AntennaOf(req)]
         /\ req.proc \in {"SetTilt", "AntennaSetTilt"}
              => /\ d.config.configured[AntennaOf(req)]
                 /\ d.config.calibrated[AntennaOf(req)]
                 /\ req.arg \in Tilts
<1>1. ProcedureRefusal(d, req) = "OK"
  BY NotRefused
<1>2. CASE req.proc = "SelfTest"
  BY <1>1, <1>2 DEF ProcedureRefusal, NamesAntenna, SingleProcedures, MultiProcedures
<1>3. CASE req.proc \in {"Calibrate", "AntennaCalibrate"}
  <2>1. AntennaRefusal(d, AntennaOf(req), FALSE) = "OK"
    BY <1>1, <1>3 DEF ProcedureRefusal
  <2> QED
    BY <1>3, <2>1 DEF AntennaRefusal
<1>4. CASE req.proc \in {"SetTilt", "AntennaSetTilt"}
  <2>1. AntennaRefusal(d, AntennaOf(req), TRUE) = "OK" /\ req.arg \in Tilts
    BY <1>1, <1>4 DEF ProcedureRefusal
  <2> QED
    BY <1>4, <2>1 DEF AntennaRefusal
<1> QED
  BY <1>2, <1>3, <1>4

(* A procedure that writes one value and saves it. *)
LEMMA WriteGood ==
  ASSUME NEW d, GoodDevice(d), d.tcc = None, NEW e, e.save \in Saves,
         NEW req, req.proc \in Procedures, req.ant \in Nat,
         NEW config \in Config, config.configured = d.config.configured,
         NEW y, y = [d EXCEPT !.config = config]
  PROVE  GoodDevice(SaveAndAnswer(y, req, e)) /\ Keeps(d, SaveAndAnswer(y, req, e))
<1>1. d \in Device /\ Unsaved(d)
  BY DEF GoodDevice, Unsaved, Typed
<1>2. y = Changed(d, config, d.transfer_active)
  BY <1>1 DEF Device, Changed
<1>3. d.transfer_active \in [Antennas -> BOOLEAN]
  BY <1>1 DEF Device
<1>4. \A a \in Antennas : d.transfer_active[a] => ~config.configured[a]
  BY <1>1 DEF Unsaved, Unfinished
<1>5. Unsaved(y) /\ Keeps(d, y)
  BY <1>1, <1>2, <1>3, <1>4, ConfigChange
<1>6. GoodDevice(SaveAndAnswer(y, req, e)) /\ Keeps(y, SaveAndAnswer(y, req, e))
  BY <1>5, SaveAndAnswerGood
<1> QED
  BY <1>5, <1>6, KeepsTransitive

(* Requests whose data are of the right kind, those of the assumption among *)
(* them.                                                                   *)
Askable ==
  {r \in Request :
     /\ r.proc \in {"WriteUserData", "SetDeviceData", "AntennaSetDeviceData"}
          => r.arg \in Values
     /\ r.proc \in {"SendConfiguration", "AntennaSendConfiguration"}
          => r.arg \in Nat}

LEMMA RequestsAskable == Requests \subseteq Askable
BY LinkAssumption DEF Askable

(* A request that passed the checks keeps a good device good. *)
LEMMA ExecuteHandled ==
  ASSUME NEW d, GoodDevice(d), NEW req \in Askable,
         req.shape \notin {"short", "long"}, Refusal(d, req) = "OK",
         NEW e \in Environment
  PROVE  Handled(d, Execute(d, req, e))
<1> DEFINE p == req.proc
           a == AntennaOf(req)
           x == Execute(d, req, e)
<1>1. /\ d \in Device /\ Typed(d) /\ d.config \in Config
      /\ e.save \in Saves /\ req \in Request
      /\ p \in Procedures /\ req.ant \in Nat
      /\ 1 \in Antennas /\ 0 \in Sources /\ \A b \in Antennas : b \in Sources
  BY DeviceAssumption
  DEF Askable, GoodDevice, Unsaved, Typed, Device, Environment, Request, Antennas, Sources
<1>2. /\ d.tcc # None => p \in AllowedDuringTcc
      /\ p \in CommonProcedures \cup SingleProcedures
                 \cup (MultiProcedures \ {"AntennaAlarmIndication"})
      /\ NamesAntenna(req) => a \in Antennas
  BY <1>1, NotRefused
<1>3. /\ p = "SelfTest" => d.config.calibrated[1]
      /\ p \in {"Calibrate", "AntennaCalibrate"} => d.config.configured[a]
      /\ p \in {"SetTilt", "AntennaSetTilt"}
           => d.config.configured[a] /\ d.config.calibrated[a] /\ req.arg \in Tilts
  BY <1>1, NotRefusedCommand
<1>4. ASSUME NEW value \in Int, NEW alarms \in SUBSET (Alarms \X BOOLEAN)
      PROVE  Handled(d, QueueOk(d, req, value, alarms))
  BY <1>1, <1>4, QueueOkOnly, AnsweredHandled, KeepsHandled
<1>5. CASE p = "ResetSoftware"
  BY <1>1, <1>5, ResetSoftwareHandled DEF Execute
<1>6. CASE p = "AlarmSubscribe"
  BY <1>1, <1>6, AlarmSubscribeGood, KeepsHandled DEF Execute
<1>7. CASE p \in {"GetAlarmStatus", "AntennaGetAlarms"}
  <2>1. p = "AntennaGetAlarms" => a \in Sources
    BY <1>1, <1>2
    DEF NamesAntenna, AntennaOf, MultiProcedures, SingleProcedures
  <2>2. /\ ActiveAlarms(d, 0) \in SUBSET (Alarms \X BOOLEAN)
        /\ a \in Sources => ActiveAlarms(d, a) \in SUBSET (Alarms \X BOOLEAN)
    BY <1>1, ActiveAlarmsType
  <2> QED
    BY <1>4, <1>7, <2>1, <2>2 DEF Execute
<1>8. CASE p = "ClearActiveAlarms"
  <2>1. GoodDevice(ClearAlarms(d, 0)) /\ Keeps(d, ClearAlarms(d, 0))
    BY <1>1, ClearAlarmsGood
  <2>2. OnlyQueue(ClearAlarms(d, 0), QueueOk(ClearAlarms(d, 0), req, 0, {}))
    BY <1>1, <2>1, QueueOkOnly DEF GoodDevice, Unsaved
  <2>3. x = QueueOk(ClearAlarms(d, 0), req, 0, {})
    BY <1>8 DEF Execute
  <2> QED
    BY <2>1, <2>2, <2>3, AnsweredHandled, KeepsTransitive, KeepsHandled
<1>9. CASE p = "AntennaClearAlarms"
  <2>1. a \in Sources
    BY <1>1, <1>2, <1>9 DEF NamesAntenna, MultiProcedures
  <2>2. GoodDevice(ClearAlarms(d, a)) /\ Keeps(d, ClearAlarms(d, a))
    BY <2>1, ClearAlarmsGood
  <2>3. OnlyQueue(ClearAlarms(d, a), QueueOk(ClearAlarms(d, a), req, 0, {}))
    BY <1>1, <2>2, QueueOkOnly DEF GoodDevice, Unsaved
  <2>4. x = QueueOk(ClearAlarms(d, a), req, 0, {})
    BY <1>9 DEF Execute
  <2> QED
    BY <2>2, <2>3, <2>4, AnsweredHandled, KeepsTransitive, KeepsHandled
<1>10. CASE p = "GetInformation"
  BY <1>4, <1>10 DEF Execute
<1>11. CASE p = "AntennaCount"
  BY <1>4, <1>11, DeviceAssumption DEF Execute
<1>12. CASE p = "ReadUserData"
  <2>1. d.config.user \in Int
    BY <1>1, DeviceAssumption DEF Config
  <2> QED
    BY <1>4, <1>12, <2>1 DEF Execute
<1>13. CASE p = "WriteUserData"
  <2> DEFINE config == [d.config EXCEPT !.user = req.arg]
             y      == [d EXCEPT !.config.user = req.arg]
  <2>1. d.tcc = None
    BY <1>2, <1>13 DEF AllowedDuringTcc
  <2>2. req.arg \in Values
    BY <1>13 DEF Askable
  <2>3. config \in Config /\ config.configured = d.config.configured
    BY <1>1, <2>2 DEF Config
  <2>4. y = [d EXCEPT !.config = config]
    BY <1>1 DEF Device
  <2>5. x = SaveAndAnswer(y, req, e)
    BY <1>13 DEF Execute
  <2> HIDE DEF config, y, x
  <2>6. Handled(d, x)
    BY <1>1, <2>1, <2>3, <2>4, <2>5, WriteGood, KeepsHandled
  <2> QED
    BY <2>6 DEF x
<1>14. CASE p \in {"GetDeviceData", "AntennaGetDeviceData"}
  <2>1. a \in Antennas
    BY <1>2, <1>14 DEF NamesAntenna, SingleProcedures, MultiProcedures
  <2>2. d.config.field[a] \in Int
    BY <1>1, <2>1, DeviceAssumption DEF Config
  <2> QED
    BY <1>4, <1>14, <2>2 DEF Execute
<1>15. CASE p \in {"SetDeviceData", "AntennaSetDeviceData"}
  <2> DEFINE config == [d.config EXCEPT !.field[a] = req.arg]
             y      == [d EXCEPT !.config.field[a] = req.arg]
  <2>1. d.tcc = None
    BY <1>2, <1>15 DEF AllowedDuringTcc
  <2>2. req.arg \in Values
    BY <1>15 DEF Askable
  <2>3. config \in Config /\ config.configured = d.config.configured
    BY <1>1, <2>2 DEF Config
  <2>4. y = [d EXCEPT !.config = config]
    BY <1>1 DEF Device
  <2>5. x = SaveAndAnswer(y, req, e)
    BY <1>15 DEF Execute
  <2> HIDE DEF config, y, x
  <2>6. Handled(d, x)
    BY <1>1, <2>1, <2>3, <2>4, <2>5, WriteGood, KeepsHandled
  <2> QED
    BY <2>6 DEF x
<1>16. CASE p \in {"GetTilt", "AntennaGetTilt"}
  <2>1. a \in Antennas
    BY <1>2, <1>16 DEF NamesAntenna, SingleProcedures, MultiProcedures
  <2>2. d.config.tilt[a] \in Int
    BY <1>1, <2>1, DeviceAssumption DEF Config, Tilts
  <2> QED
    BY <1>4, <1>16, <2>2 DEF Execute
<1>17. CASE p = "SelfTest"
  <2>1. d.tcc = None
    BY <1>2, <1>17 DEF AllowedDuringTcc
  <2>2. d.config.tilt[1] \in Tilts
    BY <1>1 DEF Config
  <2>3. x = StartTcc(d, req, "SELF_TEST", 1, d.config.tilt[1], e)
    BY <1>17 DEF Execute
  <2>4. GoodDevice(x) /\ Keeps(d, x)
    BY <1>1, <1>3, <1>17, <2>1, <2>2, <2>3, StartTccGood
  <2> QED
    BY <2>4, KeepsHandled
<1>18. CASE p \in {"Calibrate", "AntennaCalibrate"}
  <2>1. d.tcc = None
    BY <1>2, <1>18 DEF AllowedDuringTcc
  <2>2. a \in Antennas /\ MinTilt \in Tilts
    BY <1>2, <1>18, DeviceAssumption
    DEF NamesAntenna, SingleProcedures, MultiProcedures, Tilts
  <2>3. x = StartTcc(d, req, "CALIBRATE", a, MinTilt, e)
    BY <1>18 DEF Execute
  <2>4. GoodDevice(x) /\ Keeps(d, x)
    BY <1>1, <1>3, <1>18, <2>1, <2>2, <2>3, StartTccGood
  <2> QED
    BY <2>4, KeepsHandled
<1>19. CASE p \in {"SetTilt", "AntennaSetTilt"}
  <2>1. d.tcc = None
    BY <1>2, <1>19 DEF AllowedDuringTcc
  <2>2. a \in Antennas
    BY <1>2, <1>19 DEF NamesAntenna, SingleProcedures, MultiProcedures
  <2>3. x = StartTcc(d, req, "SET_TILT", a, req.arg, e)
    BY <1>19 DEF Execute
  <2>4. GoodDevice(x) /\ Keeps(d, x)
    BY <1>1, <1>3, <1>19, <2>1, <2>2, <2>3, StartTccGood
  <2> QED
    BY <2>4, KeepsHandled
<1>20. CASE p \in {"SendConfiguration", "AntennaSendConfiguration"}
  <2>1. d.tcc = None
    BY <1>2, <1>20 DEF AllowedDuringTcc
  <2>2. a \in Antennas /\ req.arg \in Nat
    BY <1>2, <1>20 DEF Askable, NamesAntenna, SingleProcedures, MultiProcedures
  <2>3. x = SendConfiguration(d, req, e)
    BY <1>20 DEF Execute
  <2>4. GoodDevice(x) /\ Keeps(d, x)
    BY <1>1, <2>1, <2>2, <2>3, SendConfigurationGood
  <2> QED
    BY <2>4, KeepsHandled
<1> QED
  BY <1>2, <1>5, <1>6, <1>7, <1>8, <1>9, <1>10, <1>11, <1>12, <1>13, <1>14,
     <1>15, <1>16, <1>17, <1>18, <1>19, <1>20
  DEF CommonProcedures, SingleProcedures, MultiProcedures

(* handle_l7: every message, well formed or not. *)
LEMMA HandleL7Handled ==
  ASSUME NEW d, GoodDevice(d), NEW req \in Askable, req.shape # "long",
         NEW e \in Environment
  PROVE  Handled(d, HandleL7(d, req, e))
<1>1. req \in Request /\ req.proc \in Procedures /\ req.ant \in Nat /\ Typed(d)
  BY DEF Askable, Request, GoodDevice, Unsaved
<1>2. CASE req.shape = "short"
  <2>1. Keeps(d, d)
    BY DEF Keeps, SameLink
  <2> QED
    BY <1>2, <2>1, KeepsHandled DEF HandleL7
<1>3. CASE req.shape # "short" /\ Refusal(d, req) # "OK"
  <2>1. Refusal(d, req) \in Codes
    <3>1. GeneralRefusal(d, req) \in Codes
      BY DEF GeneralRefusal, Codes
    <3>2. AntennaRefusal(d, AntennaOf(req), TRUE) \in Codes
      BY DEF AntennaRefusal, Codes
    <3>3. AntennaRefusal(d, AntennaOf(req), FALSE) \in Codes
      BY DEF AntennaRefusal, Codes
    <3>4. ProcedureRefusal(d, req) \in Codes
      BY <3>2, <3>3 DEF ProcedureRefusal, Codes
    <3> QED
      BY <3>1, <3>4 DEF Refusal
  <2>2. OnlyQueue(d, QueueError(d, req, Refusal(d, req)))
    BY <1>1, <2>1, QueueErrorOnly
  <2> QED
    BY <1>3, <2>2, AnsweredHandled, KeepsHandled DEF HandleL7
<1>4. CASE req.shape # "short" /\ Refusal(d, req) = "OK"
  BY <1>4, ExecuteHandled DEF HandleL7
<1> QED
  BY <1>2, <1>3, <1>4

-----------------------------------------------------------------------------
(* Layer 2. *)

(* OnlyCurrentIFrame, ResetHasItsTrigger and QuietBeforeAddress, said of a *)
(* device.                                                                 *)
Current(d) ==
  /\ d.outstanding # None =>
       /\ d.link_state = "CONNECTED"
       /\ d.outstanding.type = "I"
       /\ Plus1(d.outstanding.ns) = d.send_sequence
  /\ d.pending # None /\ d.pending.type = "I" =>
       /\ d.link_state = "CONNECTED"
       /\ Plus1(d.pending.ns) = d.send_sequence
       /\ d.outstanding \in {None, d.pending}

Triggered(d) ==
  /\ d.reset_after_i_ack =>
       /\ d.link_state = "CONNECTED"
       /\ d.outstanding # None \/ d.l7_queue # <<>>
  /\ d.reset_after_transmit => d.pending # None

Quiet(d) ==
  /\ d.link_state = "NO_ADDRESS" =>
       /\ d.address = 0 /\ d.tcc = None /\ d.l7_queue = <<>>
       /\ ~d.alarm_subscribed
  /\ d.link_state # "NO_ADDRESS" => d.address \in Addresses

GoodLink(d) == Current(d) /\ Triggered(d) /\ Quiet(d)

(* The inductive invariant. *)
Good(d) == GoodDevice(d) /\ GoodLink(d)

(* A step of layer 2 keeps the fields of layer 7, but for the queue. *)
SameDevice(d, x) ==
  /\ x.motor = d.motor /\ x.tcc = d.tcc /\ x.config = d.config
  /\ x.transfer_active = d.transfer_active
  /\ x.storage = d.storage /\ x.dirty = d.dirty

LEMMA SameDeviceGood ==
  ASSUME NEW d, GoodDevice(d), NEW x \in Device, x.l7_queue \in Queues,
         SameDevice(d, x)
  PROVE  GoodDevice(x)
BY DEF SameDevice, GoodDevice, Unsaved, Typed, Supervised, Legal, Unfinished, Agrees

LEMMA NumberTypes ==
  /\ 0 \in Numbers
  /\ \A n \in Numbers : Plus1(n) \in Numbers
<1>1. Modulus \in Nat /\ Modulus >= 2
  BY LinkAssumption
<1>2. ASSUME NEW n \in Numbers
      PROVE  Plus1(n) \in Numbers
  <2>1. (n + 1) \in Int /\ Modulus \in Int /\ Modulus > 0
    BY <1>1 DEF Numbers
  <2>2. (n + 1) % Modulus \in 0 .. Modulus - 1
    BY <2>1
  <2> QED
    BY <2>2 DEF Numbers, Plus1
<1> QED
  BY <1>1, <1>2 DEF Numbers

LEMMA PlainType ==
  ASSUME NEW type \in {"RR", "UA", "DM", "FRMR", "XID"}, NEW nr \in Numbers
  PROVE  Plain(type, nr) \in Frame /\ Plain(type, nr).type # "I"
BY NumberTypes DEF Plain, Frame

(* A request that was handled in a connection. *)
LEMMA HandledGood ==
  ASSUME NEW d, Good(d), d.link_state = "CONNECTED", NEW x, Handled(d, x)
  PROVE  Good(x) /\ x.link_state = "CONNECTED"
BY DEF Good, GoodLink, Current, Triggered, Quiet, Handled, SameLink

(* The response slot. *)
LEMMA ScheduleGood ==
  ASSUME NEW d, Good(d), NEW frame \in Frame,
         frame.type # "I" \/ frame = d.outstanding
  PROVE  Good(Schedule(d, frame)) /\ Schedule(d, frame).link_state = d.link_state
<1> DEFINE x == Schedule(d, frame)
<1>1. d \in Device /\ d.l7_queue \in Queues
  BY DEF Good, GoodDevice, Unsaved, Typed
<1>2. /\ x \in Device /\ x.pending = frame /\ x.l7_queue = d.l7_queue
      /\ x.link_state = d.link_state /\ x.address = d.address
      /\ x.send_sequence = d.send_sequence /\ x.outstanding = d.outstanding
      /\ x.reset_after_i_ack = d.reset_after_i_ack
      /\ x.reset_after_transmit = d.reset_after_transmit
      /\ x.alarm_subscribed = d.alarm_subscribed
      /\ SameDevice(d, x)
  BY <1>1 DEF Device, Schedule, SameDevice
<1> HIDE DEF x
<1>3. GoodDevice(x)
  BY <1>1, <1>2, SameDeviceGood DEF Good
<1>4. frame # None
  BY NoneAssumption
<1>5. GoodLink(x)
  BY <1>2, <1>4 DEF Good, GoodLink, Current, Triggered, Quiet, SameDevice
<1> QED
  BY <1>2, <1>3, <1>5 DEF x, Good

LEMMA RespondGood ==
  ASSUME NEW d, Good(d), NEW type \in {"RR", "UA", "DM", "FRMR", "XID"},
         NEW nr \in Numbers
  PROVE  Good(Schedule(d, Plain(type, nr)))
BY PlainType, ScheduleGood

(* An acknowledgement frees the outstanding frame; a reset that waited for *)
(* it stops the motor, and the command that drove it is left to its        *)
(* deadline.                                                               *)
LEMMA AcknowledgeGood ==
  ASSUME NEW d, Good(d), NEW nr
  PROVE  /\ Good(Acknowledge(d, nr))
         /\ Acknowledge(d, nr).link_state = d.link_state
         /\ Acknowledge(d, nr).receive_sequence = d.receive_sequence
<1> DEFINE freed == [d EXCEPT !.outstanding = None]
           reset == [d EXCEPT !.outstanding = None, !.reset_after_i_ack = FALSE,
                              !.motor = "IDLE"]
<1>1. d \in Device /\ d.l7_queue \in Queues /\ "IDLE" \in MotorStates
  BY DEF Good, GoodDevice, Unsaved, Typed, MotorStates
<1>2. ASSUME ~d.reset_after_i_ack
      PROVE  Good(freed)
  <2>1. /\ freed \in Device /\ freed.outstanding = None
        /\ freed.l7_queue = d.l7_queue /\ freed.pending = d.pending
        /\ freed.link_state = d.link_state /\ freed.address = d.address
        /\ freed.send_sequence = d.send_sequence
        /\ freed.reset_after_i_ack = d.reset_after_i_ack
        /\ freed.reset_after_transmit = d.reset_after_transmit
        /\ freed.alarm_subscribed = d.alarm_subscribed
        /\ SameDevice(d, freed)
    BY <1>1 DEF Device, SameDevice
  <2> HIDE DEF freed
  <2>2. GoodDevice(freed)
    BY <1>1, <2>1, SameDeviceGood DEF Good
  <2> QED
    BY <1>2, <2>1, <2>2
    DEF Good, GoodLink, Current, Triggered, Quiet, SameDevice
<1>3. Good(reset)
  <2>1. /\ reset \in Device /\ reset.outstanding = None /\ reset.motor = "IDLE"
        /\ reset.l7_queue = d.l7_queue /\ reset.pending = d.pending
        /\ reset.link_state = d.link_state /\ reset.address = d.address
        /\ reset.send_sequence = d.send_sequence
        /\ ~reset.reset_after_i_ack
        /\ reset.reset_after_transmit = d.reset_after_transmit
        /\ reset.alarm_subscribed = d.alarm_subscribed
        /\ reset.tcc = d.tcc /\ reset.config = d.config
        /\ reset.transfer_active = d.transfer_active
        /\ reset.storage = d.storage /\ reset.dirty = d.dirty
    BY <1>1 DEF Device
  <2> HIDE DEF reset
  <2>2. GoodDevice(reset)
    BY <1>1, <2>1
    DEF Good, GoodDevice, Unsaved, Typed, Supervised, Legal, Unfinished, Agrees
  <2> QED
    BY <2>1, <2>2 DEF Good, GoodLink, Current, Triggered, Quiet
<1>4. /\ freed.link_state = d.link_state /\ reset.link_state = d.link_state
      /\ freed.receive_sequence = d.receive_sequence
      /\ reset.receive_sequence = d.receive_sequence
  BY <1>1 DEF Device
<1>5. d.reset_after_i_ack \in BOOLEAN
  BY <1>1 DEF Device
<1> QED
  BY <1>2, <1>3, <1>4, <1>5 DEF Acknowledge

(* A new I frame takes the next number and the head of the queue. *)
LEMMA SendNextGood ==
  ASSUME NEW d, Good(d), d.link_state = "CONNECTED", d.outstanding = None,
         d.l7_queue # <<>>
  PROVE  Good(SendNext(d)) /\ SendNext(d).link_state = "CONNECTED"
<1> DEFINE frame == [type |-> "I", ns |-> d.send_sequence,
                     nr |-> d.receive_sequence, msg |-> Head(d.l7_queue)]
           rest  == Tail(d.l7_queue)
           next  == Plus1(d.send_sequence)
           x     == SendNext(d)
<1>1. d \in Device /\ d.l7_queue \in Seq(Answer) /\ Len(d.l7_queue) <= QueueDepth
  BY DEF Good, GoodDevice, Unsaved, Typed, Queues
<1>2. /\ Head(d.l7_queue) \in Answer /\ rest \in Seq(Answer)
      /\ Len(rest) = Len(d.l7_queue) - 1
  BY <1>1, HeadTailProperties
<1>3. rest \in Queues
  BY <1>1, <1>2, LenProperties, DeviceAssumption DEF Queues
<1>4. frame \in Frame /\ frame.type = "I" /\ frame.ns = d.send_sequence
  BY <1>1, <1>2 DEF Frame, Device
<1>5. next \in Numbers
  BY <1>1, NumberTypes DEF Device
<1>6. x = [d EXCEPT !.l7_queue = rest, !.outstanding = frame,
                    !.pending = frame, !.send_sequence = next]
  BY <1>1 DEF SendNext, Device
<1> HIDE DEF frame, rest, next, x
<1>7. /\ x \in Device /\ x.pending = frame /\ x.outstanding = frame
      /\ x.l7_queue = rest /\ x.send_sequence = next
      /\ x.link_state = d.link_state /\ x.address = d.address
      /\ x.reset_after_i_ack = d.reset_after_i_ack
      /\ x.reset_after_transmit = d.reset_after_transmit
      /\ x.alarm_subscribed = d.alarm_subscribed
      /\ SameDevice(d, x)
  <2>1. d \in Device /\ rest \in Seq(Answer)
    BY <1>1, <1>3 DEF Queues
  <2>2. x \in Device
    BY <1>4, <1>5, <1>6, <2>1, ZenonT(30) DEF Device
  <2>3. SameDevice(d, x)
    BY <1>6, <2>1 DEF Device, SameDevice
  <2> QED BY <1>6, <2>1, <2>2, <2>3 DEF Device
<1>8. GoodDevice(x)
  BY <1>3, <1>7, SameDeviceGood DEF Good
<1>9. frame # None
  BY <1>4, NoneAssumption
<1>10. GoodLink(x)
  BY <1>4, <1>7, <1>9
  DEF next, Good, GoodLink, Current, Triggered, Quiet, SameDevice
<1> QED
  BY <1>7, <1>8, <1>10 DEF x, Good

LEMMA RespondToPollGood ==
  ASSUME NEW d, Good(d), d.link_state = "CONNECTED"
  PROVE  Good(RespondToPoll(d))
<1> DEFINE q == QueueAlarmIndications(d)
<1>1. Good(q) /\ q.link_state = "CONNECTED"
  BY QueueAlarmIndicationsGood, KeepsHandled, HandledGood DEF Good
<1>2. q \in Device
  BY <1>1 DEF Good, GoodDevice, Unsaved, Typed
<1> HIDE DEF q
<1>3. ASSUME q.outstanding # None
      PROVE  Good(Schedule(q, q.outstanding))
  <2>1. q.outstanding \in Frame
    BY <1>2, <1>3 DEF Device
  <2> QED
    BY <1>1, <2>1, ScheduleGood
<1>4. ASSUME q.outstanding = None, q.l7_queue # <<>>
      PROVE  Good(SendNext(q))
  BY <1>1, <1>4, SendNextGood
<1>5. Good(Schedule(q, Plain("RR", q.receive_sequence)))
  BY <1>1, <1>2, RespondGood DEF Device
<1> QED
  BY <1>3, <1>4, <1>5 DEF RespondToPoll, q

(* SNRM and DISC start from an empty link. *)
LEMMA RestartedGood ==
  ASSUME NEW d, Good(d), d.link_state # "NO_ADDRESS",
         NEW state \in {"ADDRESS_ASSIGNED", "CONNECTED"}
  PROVE  Good(Respond(ClearRuntime([d EXCEPT !.link_state = state]), "UA"))
<1> DEFINE c == ClearRuntime([d EXCEPT !.link_state = state])
<1>1. d \in Device /\ <<>> \in Seq(Answer) /\ <<>> \in Queues /\ state \in LinkStates
  BY DeviceAssumption, EmptySeq
  DEF Good, GoodDevice, Unsaved, Typed, Queues, LinkStates
<1>2. /\ c \in Device /\ c.link_state = state /\ c.l7_queue = <<>>
      /\ c.pending = None /\ c.outstanding = None
      /\ ~c.reset_after_i_ack /\ ~c.reset_after_transmit
      /\ c.address = d.address /\ SameDevice(d, c)
  BY <1>1, NumberTypes DEF Device, ClearRuntime, SameDevice
<1> HIDE DEF c
<1>3. GoodDevice(c)
  BY <1>1, <1>2, SameDeviceGood DEF Good
<1>4. GoodLink(c)
  BY <1>2 DEF Good, GoodLink, Current, Triggered, Quiet
<1> QED
  BY <1>3, <1>4, RespondGood, NumberTypes DEF Good, Respond, c

-----------------------------------------------------------------------------
(* The frames of the primary. *)

LEMMA RejectGood ==
  ASSUME NEW d, Good(d)
  PROVE  Good(Reject(d)) /\ Good(Respond(d, "DM")) /\ Good(Respond(d, "XID"))
BY RespondGood, NumberTypes DEF Reject, Respond

(* The next frame is expected, or the primary is heard to be ready or not. *)
LEMMA CountedGood ==
  ASSUME NEW d, Good(d)
  PROVE  /\ Good([d EXCEPT !.receive_sequence = Plus1(@)])
         /\ [d EXCEPT !.receive_sequence = Plus1(@)].link_state = d.link_state
<1> DEFINE x == [d EXCEPT !.receive_sequence = Plus1(@)]
<1>1. d \in Device /\ d.l7_queue \in Queues
  BY DEF Good, GoodDevice, Unsaved, Typed
<1>2. Plus1(d.receive_sequence) \in Numbers
  BY <1>1, NumberTypes DEF Device
<1>3. /\ x \in Device /\ x.l7_queue = d.l7_queue
      /\ x.pending = d.pending /\ x.outstanding = d.outstanding
      /\ x.link_state = d.link_state /\ x.address = d.address
      /\ x.send_sequence = d.send_sequence
      /\ x.reset_after_i_ack = d.reset_after_i_ack
      /\ x.reset_after_transmit = d.reset_after_transmit
      /\ x.alarm_subscribed = d.alarm_subscribed
      /\ SameDevice(d, x)
  BY <1>1, <1>2 DEF Device, SameDevice
<1> HIDE DEF x
<1>4. GoodDevice(x)
  BY <1>1, <1>3, SameDeviceGood DEF Good
<1>5. Good(x)
  BY <1>3, <1>4 DEF Good, GoodLink, Current, Triggered, Quiet, SameDevice
<1> QED BY <1>3, <1>5 DEF x

LEMMA HeardGood ==
  ASSUME NEW d, Good(d), NEW ready \in BOOLEAN
  PROVE  /\ Good([d EXCEPT !.remote_ready = ready])
         /\ [d EXCEPT !.remote_ready = ready].link_state = d.link_state
<1> DEFINE x == [d EXCEPT !.remote_ready = ready]
<1>1. d \in Device /\ d.l7_queue \in Queues
  BY DEF Good, GoodDevice, Unsaved, Typed
<1>2. /\ x \in Device /\ x.l7_queue = d.l7_queue
      /\ x.pending = d.pending /\ x.outstanding = d.outstanding
      /\ x.link_state = d.link_state /\ x.address = d.address
      /\ x.send_sequence = d.send_sequence
      /\ x.reset_after_i_ack = d.reset_after_i_ack
      /\ x.reset_after_transmit = d.reset_after_transmit
      /\ x.alarm_subscribed = d.alarm_subscribed
      /\ SameDevice(d, x)
  BY <1>1 DEF Device, SameDevice
<1> HIDE DEF x
<1>3. GoodDevice(x)
  BY <1>1, <1>2, SameDeviceGood DEF Good
<1>4. Good(x)
  BY <1>2, <1>3 DEF Good, GoodLink, Current, Triggered, Quiet, SameDevice
<1> QED BY <1>2, <1>4 DEF x

(* What layer 7 makes of a frame that was expected.                        *)
LEMMA AcceptedGood ==
  ASSUME NEW d, Good(d), d.link_state = "CONNECTED",
         NEW req \in Askable, req.shape # "long", NEW e \in Environment
  PROVE  LET accepted == HandleL7([d EXCEPT !.receive_sequence = Plus1(@)], req, e)
         IN  Good(accepted) /\ accepted.link_state = "CONNECTED"
BY CountedGood, HandleL7Handled, HandledGood DEF Good

LEMMA ProcessIGood ==
  ASSUME NEW d, Good(d), d.link_state = "CONNECTED",
         NEW f, f.req \in Askable, NEW e \in Environment
  PROVE  Good(ProcessI(d, f, e))
<1> DEFINE acked    == Acknowledge(d, f.nr)
           accepted == HandleL7([acked EXCEPT !.receive_sequence = Plus1(@)], f.req, e)
<1>1. Good(acked) /\ acked.link_state = "CONNECTED"
  BY AcknowledgeGood
<1>2. Good(RespondToPoll(acked))
  BY <1>1, RespondToPollGood
<1>3. Good(Reject(d)) /\ Good(Reject(acked))
  BY <1>1, RejectGood
<1>4. ASSUME f.req.shape # "long"
      PROVE  Good(accepted) /\ Good(RespondToPoll(accepted))
  BY <1>1, <1>4, AcceptedGood, RespondToPollGood
<1>5. \/ ProcessI(d, f, e) \in {Reject(d), Reject(acked), acked, RespondToPoll(acked)}
      \/ /\ f.req.shape # "long"
         /\ ProcessI(d, f, e) \in {accepted, RespondToPoll(accepted)}
  <2> HIDE DEF acked
  <2> QED BY DEF ProcessI, acked
<1> HIDE DEF acked, accepted
<1> QED
  BY <1>1, <1>2, <1>3, <1>4, <1>5

LEMMA ProcessSupervisoryGood ==
  ASSUME NEW d, Good(d), d.link_state = "CONNECTED", NEW f
  PROVE  Good(ProcessSupervisory(d, f))
<1> DEFINE acked == Acknowledge(d, f.nr)
           ready == (f.type = "RR")
           heard == [acked EXCEPT !.remote_ready = ready]
<1>1. Good(acked) /\ acked.link_state = "CONNECTED" /\ ready \in BOOLEAN
  BY AcknowledgeGood
<1> HIDE DEF acked, ready
<1>2. Good(heard) /\ heard.link_state = "CONNECTED"
  BY <1>1, HeardGood
<1>3. heard \in Device
  BY <1>2 DEF Good, GoodDevice, Unsaved, Typed
<1> HIDE DEF heard
<1>4. Good(RespondToPoll(heard)) /\ Good(Reject(d))
  BY <1>2, RespondToPollGood, RejectGood
<1>5. ASSUME heard.outstanding # None
      PROVE  Good(Schedule(heard, heard.outstanding))
  <2>1. heard.outstanding \in Frame
    BY <1>3, <1>5 DEF Device
  <2> QED
    BY <1>2, <2>1, ScheduleGood
<1> QED
  BY <1>2, <1>4, <1>5 DEF ProcessSupervisory, heard, acked, ready

-----------------------------------------------------------------------------
(* Restarts, the main loop and XID commands. *)

(* ret_device_init: what was stored, or the fallback, and an idle device. *)
LEMMA BootGood ==
  ASSUME NEW stored \in Config \cup {None}, NEW save \in Saves
  PROVE  Good(Boot(stored, save))
<1> DEFINE none == [s \in Sources |-> {}]
           idle == [a \in Antennas |-> FALSE]
           kept == IF stored = None THEN Fallback ELSE stored
           booted ==
             [link_state           |-> "NO_ADDRESS",
              address              |-> 0,
              receive_sequence     |-> 0,
              send_sequence        |-> 0,
              remote_ready         |-> TRUE,
              pending              |-> None,
              reset_after_transmit |-> FALSE,
              outstanding          |-> None,
              reset_after_i_ack    |-> FALSE,
              l7_queue             |-> <<>>,
              tcc                  |-> None,
              transfer_active      |-> idle,
              alarm_subscribed     |-> FALSE,
              alarm_active         |-> none,
              alarm_changed        |-> none,
              config               |-> kept,
              storage              |-> stored,
              dirty                |-> FALSE,
              motor                |-> "IDLE"]
<1>1. /\ none \in [Sources -> SUBSET Alarms] /\ idle \in [Antennas -> BOOLEAN]
      /\ kept \in Config /\ <<>> \in Seq(Answer) /\ <<>> \in Queues
      /\ "IDLE" \in MotorStates /\ "NO_ADDRESS" \in LinkStates /\ 0 \in Numbers
  BY DeviceAssumption, LinkAssumption, EmptySeq, NumberTypes
  DEF MotorStates, LinkStates, Queues
<1>2. \A a \in Antennas : ~idle[a]
  OBVIOUS
<1>3. Boot(stored, save) = IF stored = None THEN Persist(booted, save) ELSE booted
  BY DEF Boot
<1> HIDE DEF none, idle, kept
<1>4. booted \in Device
  BY <1>1 DEF Device
<1>5. /\ booted.link_state = "NO_ADDRESS" /\ booted.address = 0
      /\ booted.pending = None /\ booted.outstanding = None
      /\ ~booted.reset_after_i_ack /\ ~booted.reset_after_transmit
      /\ booted.l7_queue = <<>> /\ booted.tcc = None /\ booted.motor = "IDLE"
      /\ ~booted.alarm_subscribed /\ booted.transfer_active = idle
      /\ booted.config = kept /\ booted.storage = stored
  OBVIOUS
<1> HIDE DEF booted
<1>6. Unsaved(booted)
  BY <1>1, <1>2, <1>4, <1>5 DEF Unsaved, Typed, Supervised, Legal, Unfinished
<1>7. GoodLink(booted)
  BY <1>5 DEF GoodLink, Current, Triggered, Quiet
<1>8. CASE stored # None
  <2>1. Agrees(booted)
    BY <1>5, <1>8 DEF Agrees, kept
  <2> QED
    BY <1>3, <1>6, <1>7, <1>8, <2>1 DEF Good, GoodDevice
<1>9. CASE stored = None
  <2> DEFINE x == Persist(booted, save)
  <2>1. GoodDevice(x)
    BY <1>6, PersistGood
  <2>2. /\ x.link_state = booted.link_state /\ x.address = booted.address
        /\ x.pending = booted.pending /\ x.outstanding = booted.outstanding
        /\ x.reset_after_i_ack = booted.reset_after_i_ack
        /\ x.reset_after_transmit = booted.reset_after_transmit
        /\ x.l7_queue = booted.l7_queue /\ x.tcc = booted.tcc
        /\ x.alarm_subscribed = booted.alarm_subscribed
    BY <1>4 DEF Persist, Device
  <2> HIDE DEF x
  <2>3. GoodLink(x)
    BY <1>5, <2>2 DEF GoodLink, Current, Triggered, Quiet
  <2> QED
    BY <1>3, <1>9, <2>1, <2>3 DEF Good, x
<1> QED
  BY <1>8, <1>9

LEMMA SystemResetGood ==
  ASSUME NEW d, d.storage \in Config \cup {None}, NEW e, e.boot \in Saves
  PROVE  Good(SystemReset(d, e))
BY BootGood DEF SystemReset

(* ret_device_poll. *)
LEMMA DevicePollGood ==
  ASSUME NEW d, Good(d), NEW e \in PollEnvironment
  PROVE  Good(DevicePoll(d, e))
<1> DEFINE polled == PollTcc(d, e)
           sent   == [polled EXCEPT !.pending = None]
<1>1. GoodDevice(polled) /\ Keeps(d, polled)
  BY PollTccGood DEF Good
<1>2. Good(polled)
  <2>1. CASE d.link_state = "NO_ADDRESS"
    <3>1. polled = d
      BY <2>1 DEF Good, GoodLink, Quiet, PollTcc
    <3> QED
      BY <3>1
  <2>2. CASE d.link_state # "NO_ADDRESS"
    <3> HIDE DEF polled
    <3> QED
      BY <1>1, <2>2
      DEF Good, GoodLink, Current, Triggered, Quiet, Keeps, SameLink
  <2> QED
    BY <2>1, <2>2
<1> HIDE DEF polled
<1>3. polled \in Device /\ polled.l7_queue \in Queues /\ polled.storage \in Config \cup {None}
  BY <1>2 DEF Good, GoodDevice, Unsaved, Typed, Device
<1>4. /\ sent \in Device /\ sent.pending = None /\ sent.l7_queue = polled.l7_queue
      /\ sent.outstanding = polled.outstanding
      /\ sent.link_state = polled.link_state /\ sent.address = polled.address
      /\ sent.send_sequence = polled.send_sequence
      /\ sent.reset_after_i_ack = polled.reset_after_i_ack
      /\ sent.reset_after_transmit = polled.reset_after_transmit
      /\ sent.alarm_subscribed = polled.alarm_subscribed
      /\ sent.storage = polled.storage /\ SameDevice(polled, sent)
  BY <1>3 DEF Device, SameDevice
<1>5. e.boot \in Saves
  BY DEF PollEnvironment
<1> HIDE DEF sent
<1>6. Good(SystemReset(polled, e)) /\ Good(SystemReset(sent, e))
  BY <1>3, <1>4, <1>5, SystemResetGood
<1>7. ASSUME ~d.reset_after_transmit
      PROVE  Good(sent)
  <2>1. GoodDevice(sent)
    BY <1>2, <1>3, <1>4, SameDeviceGood DEF Good
  <2>2. ~sent.reset_after_transmit
    BY <1>1, <1>4, <1>7 DEF Keeps, SameLink
  <2> QED
    BY <1>2, <1>4, <2>1, <2>2
    DEF Good, GoodLink, Current, Triggered, Quiet, SameDevice
<1> QED
  BY <1>2, <1>6, <1>7 DEF DevicePoll, polled, sent

LEMMA ProcessAssignmentGood ==
  ASSUME NEW d, Good(d), NEW match, NEW address \in Addresses
  PROVE  Good(ProcessAssignment(d, match, address))
<1> DEFINE y == [d EXCEPT !.address = address, !.link_state = "ADDRESS_ASSIGNED"]
<1>1. CASE d.link_state = "NO_ADDRESS" /\ match
  <2>1. d \in Device /\ d.l7_queue \in Queues /\ "ADDRESS_ASSIGNED" \in LinkStates
    BY DEF Good, GoodDevice, Unsaved, Typed, LinkStates
  <2>2. /\ y \in Device /\ y.pending = d.pending /\ y.l7_queue = d.l7_queue
        /\ y.outstanding = d.outstanding
        /\ y.link_state = "ADDRESS_ASSIGNED" /\ y.address = address
        /\ y.send_sequence = d.send_sequence
        /\ y.reset_after_i_ack = d.reset_after_i_ack
        /\ y.reset_after_transmit = d.reset_after_transmit
        /\ SameDevice(d, y)
    BY <2>1 DEF Device, SameDevice
  <2> HIDE DEF y
  <2>3. GoodDevice(y)
    BY <2>1, <2>2, SameDeviceGood DEF Good
  <2>4. Good(y)
    BY <1>1, <2>2, <2>3 DEF Good, GoodLink, Current, Triggered, Quiet
  <2> QED
    BY <1>1, <2>4, RejectGood DEF ProcessAssignment, y
<1>2. CASE ~(d.link_state = "NO_ADDRESS" /\ match)
  BY <1>2 DEF ProcessAssignment
<1> QED
  BY <1>1, <1>2

LEMMA ProcessResetGood ==
  ASSUME NEW d, Good(d), NEW broadcast, NEW e \in Environment
  PROVE  Good(ProcessReset(d, broadcast, e))
<1> DEFINE y == [d EXCEPT !.reset_after_transmit = TRUE]
           x == Respond(y, "XID")
<1>1. d \in Device /\ d.l7_queue \in Queues /\ d.storage \in Config \cup {None}
  BY DEF Good, GoodDevice, Unsaved, Typed, Device
<1>2. Good(SystemReset(d, e))
  BY <1>1, SystemResetGood DEF Environment
<1>3. Plain("XID", 0) \in Frame /\ Plain("XID", 0).type # "I" /\ Plain("XID", 0) # None
  BY PlainType, NumberTypes, NoneAssumption
<1>4. x = [d EXCEPT !.reset_after_transmit = TRUE, !.pending = Plain("XID", 0)]
  BY <1>1 DEF Device, Respond, Schedule
<1> HIDE DEF x
<1>5. /\ x \in Device /\ x.pending = Plain("XID", 0) /\ x.l7_queue = d.l7_queue
      /\ x.outstanding = d.outstanding
      /\ x.link_state = d.link_state /\ x.address = d.address
      /\ x.send_sequence = d.send_sequence
      /\ x.reset_after_i_ack = d.reset_after_i_ack
      /\ x.alarm_subscribed = d.alarm_subscribed
      /\ SameDevice(d, x)
  BY <1>1, <1>3, <1>4 DEF Device, SameDevice
<1>6. GoodDevice(x)
  BY <1>1, <1>5, SameDeviceGood DEF Good
<1>7. Good(x)
  BY <1>3, <1>5, <1>6 DEF Good, GoodLink, Current, Triggered, Quiet, SameDevice
<1> QED
  BY <1>2, <1>7 DEF ProcessReset, x

LEMMA SetAlarmGood ==
  ASSUME NEW d, Good(d), NEW s \in Sources, NEW c \in Alarms, NEW active \in BOOLEAN
  PROVE  Good(SetAlarm(d, s, c, active))
<1> DEFINE now     == IF active THEN d.alarm_active[s] \cup {c}
                                ELSE d.alarm_active[s] \ {c}
           raised  == [d.alarm_active EXCEPT ![s] = now]
           changed == [d.alarm_changed EXCEPT ![s] = @ \cup {c}]
           x       == Alarmed(d, raised, changed, d.alarm_subscribed)
<1>1. d \in Device
  BY DEF Good, GoodDevice, Unsaved, Typed
<1>2. /\ raised \in [Sources -> SUBSET Alarms] /\ changed \in [Sources -> SUBSET Alarms]
      /\ d.alarm_subscribed \in BOOLEAN
  BY <1>1 DEF Device
<1>3. SetAlarm(d, s, c, active) \in {d, x}
  BY <1>1 DEF SetAlarm, Alarmed, Device
<1> HIDE DEF raised, changed
<1>4. GoodDevice(x) /\ Keeps(d, x)
  BY <1>2, AlarmedGood DEF Good
<1>5. x.l7_queue = d.l7_queue /\ x.tcc = d.tcc /\ x.alarm_subscribed = d.alarm_subscribed
  BY <1>1 DEF Alarmed, Device
<1> HIDE DEF x
<1>6. Good(x)
  BY <1>4, <1>5 DEF Good, GoodLink, Current, Triggered, Quiet, Keeps, SameLink
<1> QED
  BY <1>3, <1>6

-----------------------------------------------------------------------------
(* The theorems. *)

LEMMA InitGood == Init => Good(dev)
<1> SUFFICES ASSUME Init PROVE Good(dev)
  OBVIOUS
<1>1. PICK stored \in Factory, e \in Outcomes : dev = Boot(stored, e.boot)
  BY DEF Init
<1>2. stored \in Config \cup {None} /\ e.boot \in Saves
  BY <1>1, LinkAssumption DEF Environment
<1> QED
  BY <1>1, <1>2, BootGood

LEMMA NextGood == Good(dev) /\ [Next]_dev => Good(dev')
<1> SUFFICES ASSUME Good(dev), [Next]_dev
             PROVE  Good(dev')
  OBVIOUS
<1>1. CASE ReceiveI
  <2>1. PICK ns \in Numbers, nr \in Numbers, poll \in BOOLEAN, req \in Requests,
             e \in Outcomes :
          dev' = Connected(dev, ProcessI(dev, [type |-> "I", ns |-> ns, nr |-> nr,
                                               poll |-> poll, req |-> req], e))
    BY <1>1 DEF ReceiveI
  <2>2. e \in Environment /\ req \in Askable
    BY LinkAssumption, RequestsAskable
  <2> QED
    BY <2>1, <2>2, ProcessIGood, RejectGood DEF Connected
<1>2. CASE ReceiveSupervisory
  BY <1>2, ProcessSupervisoryGood, RejectGood DEF ReceiveSupervisory, Connected
<1>3. CASE ReceiveUnnumbered
  <2>1. dev.link_state # "NO_ADDRESS"
    BY <1>3 DEF ReceiveUnnumbered, Addressed
  <2>2. Good(ProcessSnrm(dev)) /\ Good(ProcessDisc(dev))
    BY <2>1, RestartedGood DEF ProcessSnrm, ProcessDisc
  <2> QED
    BY <1>3, <2>2, RejectGood DEF ReceiveUnnumbered, Connected
<1>4. CASE ReceiveXid
  <2>1. Outcomes \subseteq Environment
    BY LinkAssumption
  <2>2. CASE \E match \in BOOLEAN : dev' = ProcessScan(dev, match)
    BY <2>2, RejectGood DEF ProcessScan
  <2>3. CASE \E match \in BOOLEAN, address \in Addresses :
               dev' = ProcessAssignment(dev, match, address)
    BY <2>3, ProcessAssignmentGood
  <2>4. CASE \E broadcast \in BOOLEAN, e \in Outcomes :
               dev' = ProcessReset(dev, broadcast, e)
    BY <2>1, <2>4, ProcessResetGood
  <2>5. CASE dev' = ProcessNegotiation(dev)
    BY <2>5, RejectGood DEF ProcessNegotiation
  <2> QED
    BY <1>4, <2>2, <2>3, <2>4, <2>5 DEF ReceiveXid
<1>5. CASE AlarmInput
  <2>1. PICK alarm \in Raised, active \in BOOLEAN :
          dev' = SetAlarm(dev, alarm[1], alarm[2], active)
    BY <1>5 DEF AlarmInput
  <2>2. alarm[1] \in Sources /\ alarm[2] \in Alarms
    BY LinkAssumption
  <2> QED
    BY <2>1, <2>2, SetAlarmGood
<1>6. CASE Poll
  <2>1. PollOutcomes \subseteq PollEnvironment
    BY LinkAssumption
  <2> QED
    BY <1>6, <2>1, DevicePollGood DEF Poll
<1>7. CASE PowerCycle
  <2>1. \A e \in Outcomes : e.boot \in Saves
    BY LinkAssumption DEF Environment
  <2>2. dev.storage \in Config \cup {None}
    BY DEF Good, GoodDevice, Unsaved, Typed, Device
  <2> QED
    BY <1>7, <2>1, <2>2, SystemResetGood DEF PowerCycle
<1>8. CASE UNCHANGED dev
  BY <1>8
<1> QED
  BY <1>1, <1>2, <1>3, <1>4, <1>5, <1>6, <1>7, <1>8 DEF Next

(* The device is good in every reachable state. *)
THEOREM AlwaysGood == Spec => []Good(dev)
<1>1. Good(dev) /\ [Next]_dev => Good(dev)'
  BY NextGood
<1> QED
  BY <1>1, InitGood, PTL DEF Spec

(* Every field keeps its type and the answer queue its bound: queue_l7     *)
(* never writes past its slots, whatever the primary sends.                *)
THEOREM TypeCorrect == Spec => []TypeOK
<1>1. Good(dev) => TypeOK
  BY DEF Good, GoodDevice, Unsaved, Typed, Queues, TypeOK
<1> QED
  BY <1>1, AlwaysGood, PTL

(* Only the newest I frame of the present session is ever sent or sent     *)
(* again.                                                                  *)
THEOREM CurrentFrames == Spec => []OnlyCurrentIFrame
<1>1. Good(dev) => OnlyCurrentIFrame
  BY DEF Good, GoodLink, Current, OnlyCurrentIFrame
<1> QED
  BY <1>1, AlwaysGood, PTL

(* A reset that was promised keeps what triggers it: clear_runtime_state   *)
(* and the single response slot never leave reset_after_i_ack or           *)
(* reset_after_transmit set with nothing to wait for.                      *)
THEOREM ResetsAreTriggered == Spec => []ResetHasItsTrigger
<1>1. Good(dev) => ResetHasItsTrigger
  BY DEF Good, GoodLink, Triggered, ResetHasItsTrigger
<1> QED
  BY <1>1, AlwaysGood, PTL

(* A device without an address runs nothing and owes nobody an answer: no  *)
(* way back to RET_LINK_NO_ADDRESS but a whole ret_device_init.            *)
THEOREM QuietWithoutAddress == Spec => []QuietBeforeAddress
<1>1. Good(dev) => QuietBeforeAddress
  BY DEF Good, GoodLink, Quiet, QuietBeforeAddress
<1> QED
  BY <1>1, AlwaysGood, PTL

(* The motor never runs without a command whose deadline poll_tcc checks.  *)
THEOREM MotorIsSupervised == Spec => []MotorSupervised
<1>1. Good(dev) => MotorSupervised
  BY DEF Good, GoodDevice, Unsaved, Supervised, MotorSupervised
<1> QED
  BY <1>1, AlwaysGood, PTL

(* No request that allowed_during_tcc lets through takes the configuration *)
(* or the calibration away from an antenna that moves.                     *)
THEOREM MovesAreLegal == Spec => []LegalMove
<1>1. Good(dev) => LegalMove
  BY DEF Good, GoodDevice, Unsaved, Legal, LegalMove
<1> QED
  BY <1>1, AlwaysGood, PTL

(* An antenna counts as not configured from the first to the last segment  *)
(* of send_configuration.                                                  *)
THEOREM TransfersAreMarked == Spec => []UnfinishedTransfer
<1>1. Good(dev) => UnfinishedTransfer
  BY DEF Good, GoodDevice, Unsaved, Unfinished, UnfinishedTransfer
<1> QED
  BY <1>1, AlwaysGood, PTL

(* Unless a save failed, a restart brings back what was promised to last.  *)
THEOREM RestartKeepsConfiguration == Spec => []StorageAgrees
<1>1. Good(dev) => StorageAgrees
  BY DEF Good, GoodDevice, Agrees, StorageAgrees
<1> QED
  BY <1>1, AlwaysGood, PTL
=============================================================================
