-------------------------------- MODULE RetLink --------------------------------
(***************************************************************************)
(* Layer 2 of the RET firmware core, RET/src/ret_protocol.c: one device on *)
(* the RS-485 bus as its main loop drives it.  Frames from the primary are *)
(* handled in ret_device_receive, everything that waits (the motor, the    *)
(* link timeout, the single response slot) in ret_device_poll.             *)
(*                                                                         *)
(* The primary is unrestricted here: any frame may arrive at any time, so  *)
(* what is shown holds for every primary, every noise that leaves a valid  *)
(* CRC, and every loss.                                                    *)
(*                                                                         *)
(* Time is left out: a delay that the code measures in milliseconds is a   *)
(* choice of the poll that finds it over or not over.                      *)
(***************************************************************************)
EXTENDS RetProcedures

CONSTANTS
  Modulus,        (* sequence numbers count modulo this: 8                 *)
  Addresses,      (* bus addresses a primary may assign                    *)
  Requests,       (* requests a primary may send                           *)
  Outcomes,       (* answers of the platform while a frame is handled      *)
  PollOutcomes,   (* what a pass of the main loop may find                 *)
  Raised,         (* <<source, code>> of the alarms the platform reports   *)
  Fallback,       (* the configuration used when nothing is stored         *)
  Factory         (* the stored configurations a device may start with     *)

ASSUME LinkAssumption ==
  /\ Modulus \in Nat /\ Modulus >= 2
  /\ 0 \notin Addresses
  /\ Requests \subseteq Request
  /\ \A r \in Requests :
        r.proc \in {"WriteUserData", "SetDeviceData", "AntennaSetDeviceData"}
          => r.arg \in Values
  /\ \A r \in Requests :
        r.proc \in {"SendConfiguration", "AntennaSendConfiguration"}
          => r.arg \in Nat
  /\ Outcomes \subseteq Environment
  /\ PollOutcomes \subseteq PollEnvironment
  /\ Raised \subseteq Sources \X Alarms
  /\ Fallback \in Config
  /\ Factory \subseteq Config \cup {None}

VARIABLE dev

Numbers == 0 .. Modulus - 1
LinkStates == {"NO_ADDRESS", "ADDRESS_ASSIGNED", "CONNECTED"}

(* A frame of the device; all have the final bit set.  Only I frames carry *)
(* an answer, and only I and RR frames an N(R) a primary looks at.         *)
Frame ==
  [type : {"I", "RR", "UA", "DM", "FRMR", "XID"},
   ns   : Numbers,
   nr   : Numbers,
   msg  : Answer \cup {None}]

(* ret_device_t, with the platform state behind its callbacks.  The first  *)
(* group is layer 2; pending and outstanding are None when their valid     *)
(* flag is down.                                                           *)
Device ==
  [link_state           : LinkStates,
   address              : Addresses \cup {0},
   receive_sequence     : Numbers,
   send_sequence        : Numbers,
   remote_ready         : BOOLEAN,
   pending              : Frame \cup {None},
   reset_after_transmit : BOOLEAN,
   outstanding          : Frame \cup {None},
   reset_after_i_ack    : BOOLEAN,
   l7_queue             : Seq(Answer),
   tcc                  : Tcc \cup {None},
   transfer_active      : [Antennas -> BOOLEAN],
   alarm_subscribed     : BOOLEAN,
   alarm_active         : [Sources -> SUBSET Alarms],
   alarm_changed        : [Sources -> SUBSET Alarms],
   config               : Config,
   storage              : Config \cup {None},
   dirty                : BOOLEAN,
   motor                : MotorStates]

ASSUME NoneAssumption ==
  None \notin Frame /\ None \notin Tcc /\ None \notin Config

(* ret_device_init after a power-up or a reset of the controller: the      *)
(* stored configuration, or the fallback, which is then saved.             *)
Boot(stored, save) ==
  LET booted ==
        [link_state           |-> "NO_ADDRESS",
         address              |-> 0,
         receive_sequence     |-> 0,
         send_sequence        |-> 0,
         remote_ready         |-> TRUE,
         pending              |-> None,
         reset_after_transmit |-> FALSE,
         outstanding          |-> None,
         reset_after_i_ack    |-> FALSE,
         l7_queue             |-> <<>>,
         tcc                  |-> None,
         transfer_active      |-> [a \in Antennas |-> FALSE],
         alarm_subscribed     |-> FALSE,
         alarm_active         |-> [s \in Sources |-> {}],
         alarm_changed        |-> [s \in Sources |-> {}],
         config               |-> IF stored = None THEN Fallback ELSE stored,
         storage              |-> stored,
         dirty                |-> FALSE,
         motor                |-> "IDLE"]
  IN  IF stored = None THEN Persist(booted, save) ELSE booted

(* Mutant of SystemReset: the address is forgotten and nothing else. *)
DropAddress(d, e) == [d EXCEPT !.link_state = "NO_ADDRESS", !.address = 0]

SystemReset(d, e) == Boot(d.storage, e.boot)

Plus1(n)  == (n + 1) % Modulus
Minus1(n) == (n + Modulus - 1) % Modulus

-----------------------------------------------------------------------------
(* Responses: one slot, and a later response replaces the one in it.       *)

Schedule(d, frame) == [d EXCEPT !.pending = frame]

Plain(type, nr) == [type |-> type, ns |-> 0, nr |-> nr, msg |-> None]

Respond(d, type) == Schedule(d, Plain(type, 0))
Reject(d)        == Respond(d, "FRMR")

(* acknowledge_transmit, with the application reset of the platform, which *)
(* stops the motor.                                                        *)
Acknowledge(d, nr) ==
  IF d.outstanding = None \/ nr # d.send_sequence
    THEN d
    ELSE IF d.reset_after_i_ack
      THEN [d EXCEPT !.outstanding = None, !.reset_after_i_ack = FALSE,
                     !.motor = "IDLE"]
      ELSE [d EXCEPT !.outstanding = None]

ValidAcknowledgement(d, nr) ==
  \/ nr = d.send_sequence
  \/ d.outstanding # None /\ nr = Minus1(d.send_sequence)

(* make_next_i_frame, and the frame it builds put in the response slot. *)
SendNext(d) ==
  LET frame == [type |-> "I", ns |-> d.send_sequence, nr |-> d.receive_sequence,
                msg |-> Head(d.l7_queue)]
  IN  [d EXCEPT !.l7_queue      = Tail(@),
                !.outstanding   = frame,
                !.pending       = frame,
                !.send_sequence = Plus1(@)]

(* A frame sent again is the one built at first, its N(R) included. *)
RespondToPoll(d) ==
  LET q == QueueAlarmIndications(d)
  IN  IF q.remote_ready /\ q.outstanding # None THEN Schedule(q, q.outstanding)
      ELSE IF q.remote_ready /\ q.l7_queue # <<>> THEN SendNext(q)
      ELSE Schedule(q, Plain("RR", q.receive_sequence))

-----------------------------------------------------------------------------
(* Frames of the primary. *)

(* Mutants of ClearRuntime: a new session that keeps the frame, or the     *)
(* reset, of the old one.                                                  *)
ClearRuntimeKeepsFrame(d) ==
  [d EXCEPT !.receive_sequence = 0, !.send_sequence = 0, !.pending = None,
            !.reset_after_transmit = FALSE, !.reset_after_i_ack = FALSE,
            !.l7_queue = <<>>]
ClearRuntimeKeepsReset(d) ==
  [d EXCEPT !.receive_sequence = 0, !.send_sequence = 0, !.pending = None,
            !.reset_after_transmit = FALSE, !.outstanding = None,
            !.l7_queue = <<>>]

(* clear_runtime_state(device, false, false): the running command and the  *)
(* alarm subscription are kept.                                            *)
ClearRuntime(d) ==
  [d EXCEPT !.receive_sequence     = 0,
            !.send_sequence        = 0,
            !.remote_ready         = TRUE,
            !.pending              = None,
            !.reset_after_transmit = FALSE,
            !.outstanding          = None,
            !.reset_after_i_ack    = FALSE,
            !.l7_queue             = <<>>]

ProcessSnrm(d) ==
  Respond(ClearRuntime([d EXCEPT !.link_state = "CONNECTED"]), "UA")

ProcessDisc(d) ==
  Respond(ClearRuntime([d EXCEPT !.link_state = "ADDRESS_ASSIGNED"]), "UA")

(* An I frame.  Information longer than agreed ("long") is rejected, and a *)
(* duplicate is answered without being performed again.                    *)
ProcessI(d, f, e) ==
  LET acked    == Acknowledge(d, f.nr)
      accepted == HandleL7([acked EXCEPT !.receive_sequence = Plus1(@)], f.req, e)
      answered(x) == IF f.poll THEN RespondToPoll(x) ELSE x
  IN  IF ~ValidAcknowledgement(d, f.nr) THEN Reject(d)
      ELSE IF f.ns = d.receive_sequence /\ f.req.shape = "long" THEN Reject(acked)
      ELSE IF f.ns = d.receive_sequence THEN answered(accepted)
      ELSE IF f.ns = Minus1(d.receive_sequence) THEN answered(acked)
      ELSE Reject(acked)

(* RR and RNR.  An RR that does not acknowledge asks for the frame again,  *)
(* without a look at the alarms.                                           *)
ProcessSupervisory(d, f) ==
  LET heard == [Acknowledge(d, f.nr) EXCEPT !.remote_ready = (f.type = "RR")]
  IN  IF ~ValidAcknowledgement(d, f.nr) THEN Reject(d)
      ELSE IF ~f.poll THEN heard
      ELSE IF /\ f.type = "RR"
              /\ heard.outstanding # None
              /\ f.nr # d.send_sequence
        THEN Schedule(heard, heard.outstanding)
        ELSE RespondToPoll(heard)

(* process_frame: what an addressed frame does, given what it does in a    *)
(* connection.                                                             *)
Connected(d, processed) ==
  IF d.link_state = "CONNECTED" THEN processed ELSE Respond(d, "DM")

-----------------------------------------------------------------------------
(* XID commands that pass the checks of their shape.  A device answers a   *)
(* scan and takes an address only while it has none; x.match tells whether *)
(* the identity in the command is this device's.                           *)

ProcessScan(d, match) ==
  IF d.link_state = "NO_ADDRESS" /\ match
    THEN Respond(d, "XID")
    ELSE d

ProcessAssignment(d, match, address) ==
  IF d.link_state = "NO_ADDRESS" /\ match
    THEN Respond([d EXCEPT !.address = address,
                           !.link_state = "ADDRESS_ASSIGNED"], "XID")
    ELSE d

(* Broadcast resets at once; unicast resets once a response has gone out. *)
ProcessReset(d, broadcast, e) ==
  IF broadcast
    THEN SystemReset(d, e)
    ELSE Respond([d EXCEPT !.reset_after_transmit = TRUE], "XID")

ProcessNegotiation(d) ==
  IF d.link_state # "NO_ADDRESS"
    THEN Respond(d, "XID")
    ELSE d

-----------------------------------------------------------------------------
(* ret_device_poll: the command, then the silence, then the response. *)

TimedOut(d, e) == d.link_state # "NO_ADDRESS" /\ e.silent
Transmits(d, e) == ~TimedOut(d, e) /\ e.due /\ d.pending # None

DevicePoll(d, e) ==
  LET polled == PollTcc(d, e)
      sent   == [polled EXCEPT !.pending = None]
  IN  IF TimedOut(d, e) THEN SystemReset(polled, e)
      ELSE IF ~Transmits(d, e) THEN polled
      ELSE IF d.reset_after_transmit THEN SystemReset(sent, e)
      ELSE sent
-----------------------------------------------------------------------------
(* The steps of one device. *)

(* A device without an address, or a frame for another one: nothing heard. *)
Addressed == dev.link_state # "NO_ADDRESS"

ReceiveI ==
  /\ Addressed
  /\ \E ns, nr \in Numbers, poll \in BOOLEAN, req \in Requests, e \in Outcomes :
       dev' = Connected(dev, ProcessI(dev, [type |-> "I", ns |-> ns, nr |-> nr,
                                            poll |-> poll, req |-> req], e))

ReceiveSupervisory ==
  /\ Addressed
  /\ \E type \in {"RR", "RNR"}, nr \in Numbers, poll \in BOOLEAN :
       dev' = Connected(dev, ProcessSupervisory(dev, [type |-> type, nr |-> nr,
                                                      poll |-> poll]))

ReceiveUnnumbered ==
  /\ Addressed
  /\ \/ dev' = ProcessSnrm(dev)
     \/ dev' = Connected(dev, ProcessDisc(dev))
     \/ dev' = Connected(dev, Reject(dev))     \* any other control octet

ReceiveXid ==
  \/ \E match \in BOOLEAN : dev' = ProcessScan(dev, match)
  \/ \E match \in BOOLEAN, address \in Addresses :
        dev' = ProcessAssignment(dev, match, address)
  \/ \E broadcast \in BOOLEAN, e \in Outcomes :
        dev' = ProcessReset(dev, broadcast, e)
  \/ dev' = ProcessNegotiation(dev)

(* A fault of the motor driver raises and clears a common alarm on every   *)
(* pass of the main loop; antenna alarms are the platform's to set.        *)
AlarmInput ==
  \E alarm \in Raised, active \in BOOLEAN :
     dev' = SetAlarm(dev, alarm[1], alarm[2], active)

Poll == \E e \in PollOutcomes : dev' = DevicePoll(dev, e)

PowerCycle == \E e \in Outcomes : dev' = SystemReset(dev, e)

Init == \E stored \in Factory, e \in Outcomes : dev = Boot(stored, e.boot)

Next ==
  \/ ReceiveI \/ ReceiveSupervisory \/ ReceiveUnnumbered \/ ReceiveXid
  \/ AlarmInput \/ Poll \/ PowerCycle

Spec == Init /\ [][Next]_dev
-----------------------------------------------------------------------------
(* Invariants. *)

(* Every field has its type, and the queue never exceeds its six slots. *)
TypeOK ==
  /\ dev \in Device
  /\ Len(dev.l7_queue) <= QueueDepth

(* An I frame that waits for the line, whether new or sent again, is the   *)
(* last one this session numbered: no frame of an earlier session, and no  *)
(* frame the primary has already acknowledged and the device replaced,     *)
(* ever goes out.                                                          *)
OnlyCurrentIFrame ==
  /\ dev.outstanding # None =>
       /\ dev.link_state = "CONNECTED"
       /\ dev.outstanding.type = "I"
       /\ Plus1(dev.outstanding.ns) = dev.send_sequence
  /\ dev.pending # None /\ dev.pending.type = "I" =>
       /\ dev.link_state = "CONNECTED"
       /\ Plus1(dev.pending.ns) = dev.send_sequence
       /\ dev.outstanding \in {None, dev.pending}

(* The motor only runs under a command that poll_tcc supervises and whose  *)
(* deadline will stop it: no reset, release of the link or failure leaves  *)
(* it running on its own.                                                  *)
MotorSupervised == dev.motor = "RUNNING" => dev.tcc # None

(* An antenna only moves to a tilt while it is configured and calibrated,  *)
(* and is only calibrated while it is configured: nothing that arrives     *)
(* during the command takes away what was checked when it started.         *)
LegalMove ==
  dev.tcc # None =>
    /\ dev.tcc.type # "SELF_TEST" => dev.config.configured[dev.tcc.ant]
    /\ dev.tcc.type # "CALIBRATE" => dev.config.calibrated[dev.tcc.ant]

(* While segments of a configuration are outstanding the antenna counts as *)
(* not configured, in RAM and in the stored copy that agrees with it.      *)
UnfinishedTransfer ==
  \A a \in Antennas : dev.transfer_active[a] => ~dev.config.configured[a]

(* A reset that was promised still has its trigger: the answer whose       *)
(* acknowledgement causes the application reset is queued or outstanding   *)
(* (or an older I frame is), and the response whose transmission causes    *)
(* the system reset is in the slot.                                        *)
ResetHasItsTrigger ==
  /\ dev.reset_after_i_ack =>
       /\ dev.link_state = "CONNECTED"
       /\ dev.outstanding # None \/ dev.l7_queue # <<>>
  /\ dev.reset_after_transmit => dev.pending # None

(* A device without an address has heard no command: nothing runs, nothing *)
(* is queued, nobody subscribed.                                           *)
QuietBeforeAddress ==
  /\ dev.link_state = "NO_ADDRESS" =>
       /\ dev.address = 0 /\ dev.tcc = None /\ dev.l7_queue = <<>>
       /\ ~dev.alarm_subscribed
  /\ dev.link_state # "NO_ADDRESS" => dev.address \in Addresses

(* What a configuration promises to outlive a restart. *)
Durable(c) ==
  [calibrated |-> c.calibrated, configured |-> c.configured,
   field |-> c.field, user |-> c.user]

(* Unless a save failed, a restart at any moment brings back what the      *)
(* device works with: every change of calibration, configuration or data   *)
(* is stored in the step that makes it.  (The tilt is not: it follows the  *)
(* motor and is stored when the command ends.)                             *)
StorageAgrees ==
  ~dev.dirty => /\ dev.storage # None
                /\ Durable(dev.storage) = Durable(dev.config)

-----------------------------------------------------------------------------
(* Properties of steps. *)

(* A running command ends before another starts: no request, duplicate or  *)
(* retransmission replaces the target or the kind of a moving antenna.     *)
TccNeverReplaced ==
  [][dev.tcc # None /\ dev'.tcc # None => dev'.tcc = dev.tcc]_dev

(* The answers the device still holds for its primary, oldest first. *)
Undelivered(d) ==
  (IF d.outstanding = None THEN <<>> ELSE <<d.outstanding.msg>>) \o d.l7_queue

Reports(m, s, c, active) ==
  /\ m.code = "INDICATION" /\ m.ant = s /\ <<c, active>> \in m.alarms

(* A change of an alarm stops being marked only when an indication of its  *)
(* present state is queued, or when a reset forgets the alarms altogether: *)
(* a full queue, an unacknowledged frame or a primary that is not ready    *)
(* never loses one.                                                        *)
AlarmChangeReported ==
  [][\A s \in Sources, c \in Alarms :
       c \in dev.alarm_changed[s] \ dev'.alarm_changed[s] =>
         \/ ~dev'.alarm_subscribed
         \/ \E i \in DOMAIN Undelivered(dev') :
              Reports(Undelivered(dev')[i], s, c, c \in dev'.alarm_active[s])]_dev

(* The application reset waits for the acknowledgement of the answer to    *)
(* ResetSoftware: it does not happen while that answer is still to be      *)
(* delivered, on the acknowledgement of an older frame.                    *)
ResetAfterItsAnswer ==
  [][/\ dev.reset_after_i_ack /\ ~dev'.reset_after_i_ack
     /\ \E i \in DOMAIN Undelivered(dev') :
           /\ Undelivered(dev')[i].proc = "ResetSoftware"
           /\ Undelivered(dev')[i].code = "OK"
     => dev.outstanding.msg.proc = "ResetSoftware"]_dev
=============================================================================
