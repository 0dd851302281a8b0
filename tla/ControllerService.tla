-------------------------- MODULE ControllerService --------------------------
(***************************************************************************)
(* ControllerService, src/controller.cpp: operations queued by any thread, *)
(* one worker that runs them against the transport, cancellation by flag.  *)
(*                                                                         *)
(* A step is what happens under one lock or between two looks at a flag.   *)
(* Only the worker writes connected_, devices_ and the transport, so the   *)
(* steps of a task between two flag checks are one.  Operations are of     *)
(* four kinds: connect, disconnect, scan, and command for the device       *)
(* operations, which share one shape: requireDevice, exchanges over        *)
(* transact, then storeDevice.  An exchange is transmit and the wait for   *)
(* the answer.  A scan makes two exchanges with an address: SNRM, then the *)
(* ones that read the device, taken together.                              *)
(*                                                                         *)
(* Of the events only the last one of an operation is kept; the others are *)
(* for the log.  Time passes in two places: the pause before a frame and   *)
(* the deadline of an answer, both a choice of the step.                   *)
(***************************************************************************)
EXTENDS Naturals, Sequences

CONSTANTS
  Callers,        (* threads that use the service                          *)
  LastAddress,    (* a scan probes 1 .. LastAddress                        *)
  MaxOperations,  (* bound: operations ever asked for                      *)
  MaxFrames,      (* bound: frames of an operation before it stops polling *)
  None            (* no operation, no address                              *)

Operations == 1 .. MaxOperations
Addresses == 1 .. LastAddress

ASSUME ServiceAssumption ==
  /\ MaxOperations \in Nat /\ LastAddress \in Nat \ {0} /\ MaxFrames \in Nat
  /\ None \notin Operations \cup Addresses

(* What a caller may ask for, and the Work it becomes. *)
Calls ==
  [kind : {"connect", "disconnect", "scan"}, address : {None}]
    \cup [kind : {"command"}, address : Addresses]
Works == [id : Operations, kind : {"connect", "disconnect", "scan", "command"},
          address : Addresses \cup {None}]
Endings == [operation : Operations, kind : {"completed", "cancelled", "failed"}]
NoWork == [id |-> None, kind |-> "none", address |-> None]
Workers == [at : {"top", "waiting", "popped", "started", "next", "pacing",
                  "writing", "awaiting", "returned", "thrown", "ended",
                  "forgotten", "stopped"},
            work : Works \cup {NoWork},
            address : 1 .. LastAddress + 1 \cup {None}, setup : BOOLEAN]

VARIABLES
  nextOperation,  (* nextOperation_                                        *)
  drawn,          (* work whose caller has an identifier but not the lock  *)
  workQueue,      (* workQueue_                                            *)
  cancellation,   (* keys of cancellation_                                 *)
  cancelled,      (* operations whose flag is set; a flag dies with the    *)
                  (* work that holds it                                    *)
  worker,         (* where the worker is, its work, the address it talks   *)
                  (* to, and whether SNRM was answered there               *)
  activeWork, connected, devices,
  open,           (* the transport is open                                 *)
  events,         (* events_, the terminal ones                            *)
  life,           (* of the service: up, stopping or gone                  *)
  last,           (* history: the last operation that ended, and how       *)
  found,          (* history: addresses that answered the latest scan over *)
                  (* this connection                                       *)
  kept,           (* history: a connect found a list and left it           *)
  frames,         (* history: frames the operation in service has written  *)
  late,           (* history: those written after its cancellation         *)
  doomed          (* history: operations cancelled while they waited       *)

queueVars == <<nextOperation, drawn, workQueue, cancellation, cancelled, doomed>>
listing == <<devices, found, kept>>
stateVars == <<activeWork, connected, open, listing>>
history == <<last, frames, late>>
vars == <<queueVars, worker, stateVars, events, life, history>>

Queued(op) == \E i \in DOMAIN workQueue : workQueue[i].id = op
Flagged == worker.work.id \in cancelled

-----------------------------------------------------------------------------
(* The calls of other threads. *)

(* enqueue: an identifier first, *)
Draw(t, call) ==
  /\ life = "up" /\ drawn[t] = NoWork /\ nextOperation \in Operations
  /\ nextOperation' = nextOperation + 1
  /\ drawn' = [drawn EXCEPT ![t] =
                 [id |-> nextOperation, kind |-> call.kind, address |-> call.address]]
  /\ UNCHANGED <<workQueue, cancellation, cancelled, doomed, worker, stateVars,
                 events, life, history>>

(* then, under the lock of the queue, its flag and its place. *)
Push(t) ==
  /\ drawn[t] # NoWork
  /\ workQueue' = Append(workQueue, drawn[t])
  /\ cancellation' = cancellation \cup {drawn[t].id}
  /\ drawn' = [drawn EXCEPT ![t] = NoWork]
  /\ UNCHANGED <<nextOperation, cancelled, doomed, worker, stateVars, events,
                 life, history>>

Cancel(op) ==
  /\ life = "up" /\ op \in cancellation
  /\ cancelled' = cancelled \cup {op}
  /\ doomed' = IF Queued(op) THEN doomed \cup {op} ELSE doomed
  /\ UNCHANGED <<nextOperation, drawn, workQueue, cancellation, worker,
                 stateVars, events, life, history>>

DrainEvents ==
  /\ life = "up" /\ events' = <<>>
  /\ UNCHANGED <<queueVars, worker, stateVars, life, history>>

(* The destructor, called when no other call is in progress. *)
RequestStop ==
  /\ life = "up" /\ \A t \in Callers : drawn[t] = NoWork
  /\ life' = "stopping"
  /\ UNCHANGED <<queueVars, worker, stateVars, events, history>>

Close ==
  /\ life = "stopping" /\ worker.at = "stopped"
  /\ life' = "gone" /\ open' = FALSE
  /\ UNCHANGED <<queueVars, worker, activeWork, connected, listing, events, history>>

-----------------------------------------------------------------------------
(* workerLoop. *)

Idle == [at |-> "top", work |-> NoWork, address |-> None, setup |-> FALSE]

EnterLoop ==
  /\ worker.at = "top"
  /\ worker' = [worker EXCEPT !.at = IF life = "up" THEN "waiting" ELSE "stopped"]
  /\ UNCHANGED <<queueVars, stateVars, events, life, history>>

(* Mutant of Pop: the newest operation is taken. *)
PopLast ==
  /\ worker.at = "waiting" /\ workQueue # <<>>
  /\ worker' = [worker EXCEPT !.at = "popped", !.work = workQueue[Len(workQueue)]]
  /\ workQueue' = SubSeq(workQueue, 1, Len(workQueue) - 1)
  /\ UNCHANGED <<nextOperation, drawn, cancellation, cancelled, doomed,
                 stateVars, events, life, history>>

(* The wait looks at the queue once more when it is told to stop. *)
Pop ==
  /\ worker.at = "waiting" /\ workQueue # <<>>
  /\ worker' = [worker EXCEPT !.at = "popped", !.work = Head(workQueue)]
  /\ workQueue' = Tail(workQueue)
  /\ UNCHANGED <<nextOperation, drawn, cancellation, cancelled, doomed,
                 stateVars, events, life, history>>

StopWaiting ==
  /\ worker.at = "waiting" /\ workQueue = <<>> /\ life # "up"
  /\ worker' = [worker EXCEPT !.at = "stopped"]
  /\ UNCHANGED <<queueVars, stateVars, events, life, history>>

Activate ==
  /\ worker.at = "popped"
  /\ worker' = [worker EXCEPT !.at = "started"]
  /\ activeWork' = TRUE
  /\ UNCHANGED <<queueVars, connected, open, listing, events, life, history>>

(* The end of a task: it returned, or it threw. *)
Return == worker' = [worker EXCEPT !.at = "returned"]
Throw == worker' = [worker EXCEPT !.at = "thrown"]

(* An event reports the end of an operation. *)
Ends(how) ==
  /\ last' = [operation |-> worker.work.id, kind |-> how]
  /\ events' = Append(events, last')
  /\ worker' = [worker EXCEPT !.at = "ended"]
  /\ UNCHANGED <<queueVars, stateVars, life, frames, late>>

Report ==
  /\ worker.at = "returned"
  /\ Ends(IF Flagged THEN "cancelled" ELSE "completed")

(* Mutant of ReportFailure: the exception is swallowed. *)
SwallowFailure ==
  /\ worker.at = "thrown"
  /\ worker' = [worker EXCEPT !.at = "ended"]
  /\ UNCHANGED <<queueVars, stateVars, events, life, history>>

ReportFailure == worker.at = "thrown" /\ Ends("failed")

Forget ==
  /\ worker.at = "ended"
  /\ worker' = [worker EXCEPT !.at = "forgotten"]
  /\ cancellation' = cancellation \ {worker.work.id}
  /\ UNCHANGED <<nextOperation, drawn, workQueue, cancelled, doomed, stateVars,
                 events, life, history>>

Rest ==
  /\ worker.at = "forgotten"
  /\ worker' = Idle
  /\ activeWork' = FALSE
  /\ cancelled' = cancelled \ {worker.work.id} /\ doomed' = doomed \ {worker.work.id}
  /\ frames' = 0 /\ late' = 0
  /\ UNCHANGED <<nextOperation, drawn, workQueue, cancellation, connected, open,
                 listing, events, life, last>>

-----------------------------------------------------------------------------
(* The tasks.  A task whose flag is set before it starts is not run. *)

Skip ==
  /\ worker.at = "started" /\ Flagged /\ Return
  /\ UNCHANGED <<queueVars, stateVars, events, life, history>>

Starts(kind) == worker.at = "started" /\ ~Flagged /\ worker.work.kind = kind

(* An open transport is closed first; open may throw.  The list is not     *)
(* touched.                                                                *)
Connect ==
  /\ Starts("connect")
  /\ \/ open' = TRUE /\ connected' = TRUE /\ Return
     \/ open' = FALSE /\ UNCHANGED connected /\ Throw
  /\ found' = {} /\ kept' = (devices # {})
  /\ UNCHANGED <<queueVars, activeWork, devices, events, life, history>>

(* Mutant of Disconnect: the list stays. *)
DisconnectOnly ==
  /\ Starts("disconnect")
  /\ open' = FALSE /\ connected' = FALSE /\ Return
  /\ found' = {} /\ kept' = FALSE
  /\ UNCHANGED <<queueVars, activeWork, devices, events, life, history>>

Disconnect ==
  /\ Starts("disconnect")
  /\ open' = FALSE /\ connected' = FALSE /\ devices' = {} /\ Return
  /\ found' = {} /\ kept' = FALSE
  /\ UNCHANGED <<queueVars, activeWork, events, life, history>>

Scan ==
  /\ Starts("scan")
  /\ IF connected
     THEN /\ devices' = {} /\ found' = {} /\ kept' = FALSE
          /\ worker' = [worker EXCEPT !.at = "next", !.address = 1]
     ELSE UNCHANGED listing /\ Throw
  /\ UNCHANGED <<queueVars, activeWork, connected, open, events, life, history>>

(* requireDevice *)
Command ==
  /\ Starts("command")
  /\ IF connected /\ worker.work.address \in devices
     THEN worker' = [worker EXCEPT !.at = "next", !.address = worker.work.address]
     ELSE Throw
  /\ UNCHANGED <<queueVars, stateVars, events, life, history>>

Scans == worker.work.kind = "scan"

(* The loop of the scan over its addresses. *)
BetweenAddresses == worker.at = "next" /\ Scans /\ ~worker.setup

(* Mutant of ScanIsOver: one address too many. *)
ScanRunsOver == Flagged \/ worker.address > LastAddress + 1
ScanIsOver == Flagged \/ worker.address > LastAddress

ScanEnds ==
  /\ BetweenAddresses /\ ScanIsOver /\ Return
  /\ UNCHANGED <<queueVars, stateVars, events, life, history>>

(* transact *)
Exchange ==
  /\ worker.at = "next" /\ (BetweenAddresses => ~ScanIsOver)
  /\ IF open THEN worker' = [worker EXCEPT !.at = "pacing"] ELSE Throw
  /\ UNCHANGED <<queueVars, stateVars, events, life, history>>

(* Mutant of Transmit: the flag is looked at by the pause only. *)
TransmitAnyway ==
  /\ worker.at = "pacing"
  /\ worker' = [worker EXCEPT !.at = "writing"]
  /\ UNCHANGED <<queueVars, stateVars, events, life, history>>

(* transmit: the last look at the flag, and the write that follows it. *)
Transmit ==
  /\ worker.at = "pacing" /\ ~Flagged
  /\ worker' = [worker EXCEPT !.at = "writing"]
  /\ UNCHANGED <<queueVars, stateVars, events, life, history>>

Write ==
  /\ worker.at = "writing"
  /\ frames' = frames + 1
  /\ late' = IF Flagged THEN late + 1 ELSE late
  /\ worker' = [worker EXCEPT !.at = "awaiting"]
  /\ UNCHANGED <<queueVars, stateVars, events, life, last>>

WriteFails ==
  /\ worker.at = "writing" /\ Throw
  /\ UNCHANGED <<queueVars, stateVars, events, life, history>>

(* What a task does with an answer, or without one.  A scan goes on to the *)
(* next address unless SNRM was answered; it lists the device whatever     *)
(* came of reading it.                                                     *)
NextAddress == [worker EXCEPT !.at = "next", !.address = @ + 1, !.setup = FALSE]
ListDevice(a) == devices' = devices \cup {a}

Answer ==
  /\ worker.at = "awaiting"
  /\ \/ Scans /\ ~worker.setup /\ UNCHANGED devices
        /\ worker' = [worker EXCEPT !.at = "next", !.setup = TRUE]
     \/ Scans /\ worker.setup /\ ListDevice(worker.address) /\ worker' = NextAddress
     \/ ~Scans /\ ListDevice(worker.address) /\ Return
     \/ ~Scans /\ UNCHANGED devices /\ Throw                \* refused
     \/ ~Scans /\ UNCHANGED devices                         \* one of several
        /\ frames < MaxFrames
        /\ worker' = [worker EXCEPT !.at = "next"]
  /\ found' = IF Scans /\ ~worker.setup THEN found \cup {worker.address} ELSE found
  /\ UNCHANGED <<queueVars, activeWork, connected, open, kept, events, life, history>>

(* Receive ready: the answer is not there yet, poll for it. *)
PollAgain ==
  /\ worker.at = "awaiting" /\ frames < MaxFrames
  /\ worker' = [worker EXCEPT !.at = "pacing"]
  /\ UNCHANGED <<queueVars, stateVars, events, life, history>>

(* No frame was sent because of the flag, or none came before the deadline *)
(* or the flag.  The refresh of an AISG 3 device then goes on without the  *)
(* answer, to the end at once when no frame is sent any more.              *)
NoAnswer ==
  /\ worker.at = "awaiting" \/ (worker.at = "pacing" /\ Flagged)
  /\ \/ Scans /\ ~worker.setup /\ UNCHANGED devices /\ worker' = NextAddress
     \/ Scans /\ worker.setup /\ ListDevice(worker.address) /\ worker' = NextAddress
     \/ UNCHANGED devices /\ Throw      \* a command, or a scan that discovers
     \/ ~Scans /\ ListDevice(worker.address) /\ Return
     \/ ~Scans /\ worker.at = "awaiting" /\ UNCHANGED devices
        /\ frames < MaxFrames
        /\ worker' = [worker EXCEPT !.at = "next"]
  /\ UNCHANGED <<queueVars, activeWork, connected, open, found, kept, events, life,
                 history>>

(* The transport throws while the worker reads. *)
ReadFails ==
  /\ worker.at = "awaiting" /\ Throw
  /\ UNCHANGED <<queueVars, stateVars, events, life, history>>

-----------------------------------------------------------------------------
Init ==
  /\ nextOperation = 1 /\ drawn = [t \in Callers |-> NoWork]
  /\ workQueue = <<>> /\ cancellation = {} /\ cancelled = {} /\ doomed = {}
  /\ worker = Idle
  /\ activeWork = FALSE /\ connected = FALSE /\ open = FALSE
  /\ devices = {} /\ found = {} /\ kept = FALSE
  /\ events = <<>> /\ life = "up"
  /\ last = None /\ frames = 0 /\ late = 0

CallerStep ==
  \/ \E t \in Callers : Push(t) \/ \E call \in Calls : Draw(t, call)
  \/ \E op \in Operations : Cancel(op)
  \/ DrainEvents

WorkerStep ==
  \/ EnterLoop \/ Pop \/ StopWaiting \/ Activate \/ Skip
  \/ Connect \/ Disconnect \/ Scan \/ Command
  \/ ScanEnds \/ Exchange \/ Transmit \/ Write \/ WriteFails
  \/ Answer \/ PollAgain \/ NoAnswer \/ ReadFails
  \/ Report \/ ReportFailure \/ Forget \/ Rest

Next == CallerStep \/ WorkerStep \/ RequestStop \/ Close

(* The worker is a thread the system runs; its reads have deadlines, so    *)
(* each step it can take it takes in the end.                              *)
Fairness == WF_vars(WorkerStep)

Spec == Init /\ [][Next]_vars /\ Fairness

-----------------------------------------------------------------------------
(* Properties. *)

TypeOK ==
  /\ nextOperation \in 1 .. MaxOperations + 1
  /\ drawn \in [Callers -> Works \cup {NoWork}]
  /\ workQueue \in Seq(Works)
  /\ cancellation \subseteq Operations /\ cancelled \subseteq Operations
  /\ doomed \subseteq Operations
  /\ worker \in Workers
  /\ activeWork \in BOOLEAN /\ connected \in BOOLEAN /\ open \in BOOLEAN
  /\ devices \subseteq Addresses /\ found \subseteq Addresses /\ kept \in BOOLEAN
  /\ events \in Seq(Endings)
  /\ life \in {"up", "stopping", "gone"}
  /\ last \in Endings \cup {None} /\ frames \in Nat /\ late \in Nat

(* A cancellation cuts an operation off the bus: after cancel has returned *)
(* at most one more frame of it is written, the one transmit had already   *)
(* decided on, and none if the operation was still waiting                 *)
(* (workerLoop, transmit).                                                 *)
CancelCutsOff == late <= 1 /\ (worker.work.id \in doomed => frames = 0)

(* A device on the list answered a scan over the connection that is open   *)
(* now, whatever the order of connects, failed connects, disconnects,      *)
(* scans and commands.  Not so after a connect without a disconnect before *)
(* it: the code then keeps the list of the connection it closes, until the *)
(* next scan or disconnect (connect, disconnect, scanAisg2, storeDevice).  *)
ListedAnswered ==
  kept \/ life = "gone" \/ devices = {} \/ (open /\ connected /\ devices \subseteq found)

(* The service keeps what SingleFlight promises: one operation at a time,  *)
(* in order, each ended once, with the outcome its cancellation allows,    *)
(* and every one of them ended while the service lives (enqueue,           *)
(* workerLoop, cancel).                                                    *)
InService == worker.work # NoWork /\ worker.at \notin {"ended", "forgotten"}
Ended(op) ==
  /\ ~Queued(op) /\ \A t \in Callers : drawn[t].id # op
  /\ InService => worker.work.id # op
Flight == INSTANCE SingleFlight WITH
  waiting <- [i \in DOMAIN workQueue |-> workQueue[i].id],
  current <- IF InService THEN worker.work.id ELSE None,
  ended   <- {op \in 1 .. nextOperation - 1 : Ended(op)},
  asked   <- {op \in cancelled : ~Ended(op)},
  doomed  <- {op \in doomed : ~Ended(op)},
  closing <- life # "up"
KeepsFlight == Flight!Spec
=============================================================================
