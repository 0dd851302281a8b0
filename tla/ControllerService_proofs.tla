------------------------ MODULE ControllerService_proofs ------------------------
(***************************************************************************)
(* Proofs about ControllerService: a cancellation cuts an operation off    *)
(* the bus, the devices listed answered a scan over the present connection *)
(* unless a connect kept the list of another, and the service takes the    *)
(* steps of SingleFlight, for any number of callers, operations and        *)
(* addresses.                                                              *)
(***************************************************************************)
EXTENDS ControllerService, SequenceTheorems, TLAPS

AtRest == {"top", "waiting", "stopped"}
OnTheBus == {"next", "pacing", "writing", "awaiting"}
BeforeTask == AtRest \cup {"popped", "started"}

(* The worker holds an operation unless it is at rest, and counts the      *)
(* frames of that one.                                                     *)
HoldsWork ==
  IF worker.at \in AtRest THEN worker.work = NoWork /\ frames = 0 /\ late = 0
                          ELSE worker.work \in Works

(* The address of a worker that exchanges frames is one of the scan; only  *)
(* between two addresses may it be beyond the last.                        *)
Placed(w) ==
  /\ w.address \in 1 .. LastAddress + 1
  /\ w.at # "next" \/ w.setup \/ w.work.kind # "scan" => w.address \in Addresses

(* A frame is exchanged over an open transport.  The address that a scan   *)
(* reads answered it; a command is for a device of the list.               *)
Lists(w) ==
  /\ w.at # "next" => open
  /\ w.work.kind = "scan" /\ w.setup => w.address \in found
  /\ w.work.kind # "scan" => w.address \in devices

TaskConnected ==
  /\ worker.at \in BeforeTask => ~worker.setup
  /\ worker.at \in OnTheBus => connected /\ Placed(worker) /\ Lists(worker)

(* An operation cancelled while it waited is not run; one that wrote a     *)
(* frame after its cancellation is not about to write another.             *)
CutOff ==
  /\ doomed \subseteq cancelled
  /\ worker.work.id \in doomed => frames = 0 /\ worker.at \notin OnTheBus
  /\ late <= 1
  /\ late = 1 => Flagged /\ worker.at # "writing"

(* No identifier is in two places.                                         *)
Apart ==
  /\ worker.work # NoWork => worker.work.id < nextOperation
  /\ \A t \in Callers : drawn[t] # NoWork =>
       /\ drawn[t].id < nextOperation
       /\ drawn[t].id # worker.work.id
       /\ \A u \in Callers : drawn[u].id = drawn[t].id => u = t
  /\ \A i \in DOMAIN workQueue :
       /\ workQueue[i].id < nextOperation
       /\ workQueue[i].id # worker.work.id
       /\ \A t \in Callers : drawn[t].id # workQueue[i].id
       /\ \A j \in DOMAIN workQueue : workQueue[j].id = workQueue[i].id => i = j

Inv ==
  /\ TypeOK /\ ListedAnswered
  /\ HoldsWork /\ TaskConnected /\ CutOff /\ Apart

-----------------------------------------------------------------------------
LEMMA NoWorkApart ==
  /\ NoWork \notin Works /\ NoWork.id = None /\ None \notin Operations
  /\ \A w \in Works : w.id \in Operations /\ w.id \in Nat /\ w # NoWork
<1>1. None \notin Operations /\ Operations \subseteq Nat
  BY ServiceAssumption DEF Operations
<1>2. \A w \in Works : w.id \in Operations
  BY DEF Works
<1>3. NoWork.id = None
  BY DEF NoWork
<1> QED BY <1>1, <1>2, <1>3

(* The invariant speaks of the queue, the worker and what it holds.        *)
LEMMA SameInv ==
  ASSUME Inv, UNCHANGED <<queueVars, worker, stateVars, history>>,
         life' \in {"up", "stopping", "gone"}, life = "gone" => life' = "gone",
         events' \in Seq(Endings)
  PROVE  Inv'
BY DEF Inv, TypeOK, ListedAnswered, HoldsWork, TaskConnected, CutOff, Apart,
       Flagged, Placed, Lists, queueVars, stateVars, listing, history

LEMMA SameListing ==
  ASSUME Inv, UNCHANGED <<stateVars, life>>
  PROVE  ListedAnswered' /\ found' \subseteq Addresses /\ kept' \in BOOLEAN
BY DEF Inv, TypeOK, ListedAnswered, stateVars, listing

(* A step of the worker with the operation it holds.                       *)
LEMMA TaskInv ==
  ASSUME Inv, UNCHANGED <<queueVars, life, frames, late>>,
         worker' \in Workers, worker'.work = worker.work,
         worker.at \notin AtRest, worker'.at \notin AtRest,
         activeWork' \in BOOLEAN, connected' \in BOOLEAN, open' \in BOOLEAN,
         events' \in Seq(Endings), last' \in Endings \cup {None},
         devices' \subseteq Addresses, found' \subseteq Addresses, kept' \in BOOLEAN,
         ListedAnswered', worker'.at \in BeforeTask => ~worker'.setup,
         worker'.at \in OnTheBus =>
           connected' /\ Placed(worker') /\ Lists(worker)' /\ worker.work.id \notin doomed,
         worker'.at = "writing" => ~Flagged
  PROVE  Inv'
<1>1. TypeOK'
  BY DEF Inv, TypeOK, queueVars
<1>2. HoldsWork' /\ TaskConnected'
  BY DEF Inv, HoldsWork, TaskConnected, Placed
<1>3. CutOff'
  BY DEF Inv, CutOff, Flagged, queueVars
<1>4. Apart'
  BY DEF Inv, Apart, queueVars
<1> QED BY <1>1, <1>2, <1>3, <1>4 DEF Inv

(* The same for a step that does nothing else.                             *)
LEMMA MoveInv ==
  ASSUME Inv, UNCHANGED <<queueVars, stateVars, events, life, history>>,
         worker.at \notin AtRest,
         NEW at \in {"next", "pacing", "writing", "awaiting", "returned", "thrown"},
         worker' = [worker EXCEPT !.at = at],
         at \in OnTheBus =>
           /\ connected /\ open /\ worker.at \in OnTheBus
           /\ Placed(worker') /\ worker.work.id \notin doomed,
         at = "writing" => ~Flagged
  PROVE  Inv'
<1>1. /\ worker' \in Workers /\ worker'.work = worker.work /\ worker'.at = at
      /\ worker'.address = worker.address /\ worker'.setup = worker.setup
  BY DEF Inv, TypeOK, Workers
<1>2. at \notin AtRest
  BY DEF AtRest
<1>3. /\ UNCHANGED <<queueVars, life, frames, late>>
      /\ activeWork' \in BOOLEAN /\ connected' \in BOOLEAN /\ open' \in BOOLEAN
      /\ events' \in Seq(Endings) /\ last' \in Endings \cup {None}
      /\ devices' \subseteq Addresses /\ found' \subseteq Addresses /\ kept' \in BOOLEAN
      /\ connected' = connected
  BY DEF Inv, TypeOK, stateVars, listing, history
<1>4. ListedAnswered'
  BY SameListing
<1>5. at \in OnTheBus => Lists(worker)'
  BY <1>1 DEF Inv, TaskConnected, Lists, stateVars, listing
<1>6. worker'.at \notin BeforeTask
  BY <1>1 DEF BeforeTask, AtRest
<1> QED BY <1>1, <1>2, <1>3, <1>4, <1>5, <1>6, TaskInv

-----------------------------------------------------------------------------
(* The steps of the callers. *)

LEMMA DrawInv ==
  ASSUME Inv, NEW t \in Callers, NEW call \in Calls, Draw(t, call) PROVE Inv'
<1> DEFINE w == [id |-> nextOperation, kind |-> call.kind, address |-> call.address]
<1>1. /\ nextOperation \in Operations /\ nextOperation' = nextOperation + 1
      /\ drawn' = [drawn EXCEPT ![t] = w]
      /\ UNCHANGED <<workQueue, cancellation, cancelled, doomed, worker, stateVars,
                     events, life, history>>
  BY DEF Draw
<1>2. w \in Works /\ w.id = nextOperation
  BY <1>1 DEF Works, Calls
<1> HIDE DEF w
<1>3. nextOperation \in Nat /\ nextOperation' \in 1 .. MaxOperations + 1
  BY <1>1, ServiceAssumption DEF Operations
<1>4. drawn' \in [Callers -> Works \cup {NoWork}]
  BY <1>1, <1>2 DEF Inv, TypeOK
<1>5. TypeOK'
  BY <1>1, <1>3, <1>4 DEF Inv, TypeOK, stateVars, listing, history
<1>6. ListedAnswered' /\ HoldsWork' /\ TaskConnected' /\ CutOff'
  BY <1>1 DEF Inv, ListedAnswered, HoldsWork, TaskConnected, CutOff, Flagged,
              Placed, Lists, stateVars, listing, history
<1>7. Apart'
  <2>1. \A u \in Callers : drawn'[u] = IF u = t THEN w ELSE drawn[u]
    BY <1>1 DEF Inv, TypeOK
  <2>2. /\ worker'.work = worker.work /\ workQueue' = workQueue
        /\ worker.work \in Works \cup {NoWork}
        /\ \A i \in DOMAIN workQueue : workQueue[i] \in Works
        /\ \A u \in Callers : drawn[u] \in Works \cup {NoWork}
    BY <1>1 DEF Inv, TypeOK, Workers
  <2>3. w # NoWork
    BY <1>2, NoWorkApart
  <2>4. \A v \in Works \cup {NoWork} :
          v.id = None \/ (v.id \in Nat /\ v # NoWork)
    BY NoWorkApart
  <2>5. worker.work.id # nextOperation
    BY <1>3, <2>2, <2>4, NoWorkApart, ServiceAssumption, <1>1 DEF Inv, Apart
  <2>6. \A u \in Callers : drawn[u].id # nextOperation
    BY <1>1, <1>3, <2>2, <2>4, NoWorkApart DEF Inv, Apart
  <2>7. /\ worker'.work # NoWork => worker'.work.id < nextOperation'
        /\ \A u \in Callers : drawn'[u] # NoWork =>
             /\ drawn'[u].id < nextOperation'
             /\ drawn'[u].id # worker'.work.id
             /\ \A v \in Callers : drawn'[v].id = drawn'[u].id => v = u
    BY <1>1, <1>2, <1>3, <2>1, <2>2, <2>4, <2>5, <2>6, NoWorkApart DEF Inv, Apart
  <2>8. \A i \in DOMAIN workQueue' :
          /\ workQueue'[i].id < nextOperation'
          /\ workQueue'[i].id # worker'.work.id
          /\ \A u \in Callers : drawn'[u].id # workQueue'[i].id
          /\ \A j \in DOMAIN workQueue' : workQueue'[j].id = workQueue'[i].id => i = j
    BY <1>1, <1>2, <1>3, <2>1, <2>2, NoWorkApart DEF Inv, Apart
  <2> QED BY <2>7, <2>8 DEF Apart
<1> QED BY <1>5, <1>6, <1>7 DEF Inv

LEMMA PushInv == ASSUME Inv, NEW t \in Callers, Push(t) PROVE Inv'
<1> DEFINE w == drawn[t]
<1>1. /\ w # NoWork
      /\ workQueue' = Append(workQueue, w)
      /\ cancellation' = cancellation \cup {w.id}
      /\ drawn' = [drawn EXCEPT ![t] = NoWork]
      /\ UNCHANGED <<nextOperation, cancelled, doomed, worker, stateVars, events,
                     life, history>>
  BY DEF Push
<1>2. w \in Works /\ w.id \in Operations /\ workQueue \in Seq(Works)
  BY <1>1, NoWorkApart DEF Inv, TypeOK
<1>3. \A u \in Callers : drawn'[u] = IF u = t THEN NoWork ELSE drawn[u]
  BY <1>1 DEF Inv, TypeOK
<1>4. w.id < nextOperation /\ w.id # worker.work.id
      /\ \A u \in Callers : drawn[u].id = w.id => u = t
  BY <1>1 DEF Inv, Apart
<1>5. \A i \in DOMAIN workQueue : w.id # workQueue[i].id
  BY DEF Inv, Apart
<1>6. /\ DOMAIN workQueue' = 1 .. Len(workQueue) + 1 /\ DOMAIN workQueue = 1 .. Len(workQueue)
      /\ \A i \in DOMAIN workQueue : workQueue'[i] = workQueue[i]
      /\ workQueue'[Len(workQueue) + 1] = w /\ Len(workQueue) \in Nat
      /\ workQueue' \in Seq(Works)
  BY <1>1, <1>2
<1> HIDE DEF w
<1>7. TypeOK'
  <2>1. drawn' \in [Callers -> Works \cup {NoWork}]
    BY <1>1 DEF Inv, TypeOK
  <2> QED BY <1>1, <1>2, <1>6, <2>1 DEF Inv, TypeOK, stateVars, listing, history
<1>8. ListedAnswered' /\ HoldsWork' /\ TaskConnected' /\ CutOff'
  BY <1>1 DEF Inv, ListedAnswered, HoldsWork, TaskConnected, CutOff, Flagged,
              Placed, Lists, stateVars, listing, history
<1>9. Apart'
  <2>1. /\ worker'.work # NoWork => worker'.work.id < nextOperation'
        /\ \A u \in Callers : drawn'[u] # NoWork =>
             /\ drawn'[u].id < nextOperation'
             /\ drawn'[u].id # worker'.work.id
             /\ \A v \in Callers : drawn'[v].id = drawn'[u].id => v = u
    <3>1. \A u \in Callers : drawn'[u] # NoWork => drawn'[u].id # NoWork.id
      BY <1>3, NoWorkApart DEF Inv, TypeOK
    <3> QED BY <1>1, <1>3, <3>1 DEF Inv, Apart
  <2>2. \A i \in DOMAIN workQueue' :
          /\ workQueue'[i] \in Works
          /\ workQueue'[i].id < nextOperation'
          /\ workQueue'[i].id # worker'.work.id
          /\ \A u \in Callers : drawn'[u].id # workQueue'[i].id
    <3> SUFFICES ASSUME NEW i \in DOMAIN workQueue'
                 PROVE  /\ workQueue'[i] \in Works
                        /\ workQueue'[i].id < nextOperation'
                        /\ workQueue'[i].id # worker'.work.id
                        /\ \A u \in Callers : drawn'[u].id # workQueue'[i].id
      OBVIOUS
    <3>1. CASE i \in DOMAIN workQueue
      <4>1. workQueue'[i] = workQueue[i] /\ workQueue[i] \in Works
        BY <1>2, <1>6, <3>1
      <4>2. workQueue[i].id # NoWork.id
        BY <4>1, NoWorkApart
      <4> QED BY <1>1, <1>3, <3>1, <4>1, <4>2 DEF Inv, Apart
    <3>2. CASE i = Len(workQueue) + 1
      <4>1. w.id # NoWork.id
        BY <1>2, NoWorkApart
      <4> QED BY <1>1, <1>2, <1>3, <1>4, <1>6, <3>2, <4>1
    <3> QED BY <1>6, <3>1, <3>2
  <2>3. \A i, j \in DOMAIN workQueue' : workQueue'[j].id = workQueue'[i].id => i = j
    BY <1>5, <1>6 DEF Inv, Apart
  <2> QED BY <2>1, <2>2, <2>3 DEF Apart
<1> QED BY <1>7, <1>8, <1>9 DEF Inv

(* A cancellation of an operation that still waits is not one of the       *)
(* operation in service.                                                   *)
LEMMA CancelInv == ASSUME Inv, NEW op \in Operations, Cancel(op) PROVE Inv'
<1>1. /\ cancelled' = cancelled \cup {op}
      /\ doomed' = IF Queued(op) THEN doomed \cup {op} ELSE doomed
      /\ UNCHANGED <<nextOperation, drawn, workQueue, cancellation, worker,
                     stateVars, events, life, history>>
  BY DEF Cancel
<1>2. Queued(op) => op # worker.work.id
  BY DEF Queued, Inv, Apart
<1>3. TypeOK'
  BY <1>1 DEF Inv, TypeOK, stateVars, listing, history
<1>4. CutOff'
  BY <1>1, <1>2 DEF Inv, CutOff, Flagged, history
<1> QED BY <1>1, <1>3, <1>4 DEF Inv, ListedAnswered, HoldsWork, TaskConnected,
        Apart, Placed, Lists, stateVars, listing, history

LEMMA OtherCallsInv == ASSUME Inv, DrainEvents \/ RequestStop \/ Close PROVE Inv'
<1>1. <<>> \in Seq(Endings)
  OBVIOUS
<1>2. CASE DrainEvents
  BY <1>1, <1>2, SameInv DEF DrainEvents, Inv, TypeOK
<1>3. CASE RequestStop
  BY <1>3, SameInv DEF RequestStop, Inv, TypeOK
<1>4. CASE Close
  <2>1. /\ UNCHANGED <<queueVars, worker, activeWork, connected, listing, events, history>>
        /\ worker.at = "stopped" /\ life' = "gone" /\ open' = FALSE
    BY <1>4 DEF Close
  <2> QED BY <2>1 DEF Inv, TypeOK, ListedAnswered, HoldsWork, TaskConnected, CutOff,
          Apart, Flagged, OnTheBus, queueVars, listing, history
<1> QED BY <1>2, <1>3, <1>4

-----------------------------------------------------------------------------
(* The loop of the worker. *)

LEMMA RestingInv == ASSUME Inv, EnterLoop \/ StopWaiting PROVE Inv'
<1>1. /\ UNCHANGED <<queueVars, stateVars, events, life, history>>
      /\ worker.at \in AtRest
      /\ \E at \in {"waiting", "stopped"} : worker' = [worker EXCEPT !.at = at]
  BY DEF EnterLoop, StopWaiting, AtRest
<1>2. /\ worker' \in Workers /\ worker'.work = worker.work /\ worker'.at \in AtRest
      /\ worker'.at \notin OnTheBus /\ worker'.at # "writing"
      /\ worker'.setup = worker.setup
  BY <1>1 DEF Inv, TypeOK, Workers, AtRest, BeforeTask, OnTheBus
<1>3. TypeOK'
  BY <1>1, <1>2 DEF Inv, TypeOK, queueVars, stateVars, listing, history
<1>4. ListedAnswered'
  BY <1>1, SameListing
<1> QED BY <1>1, <1>2, <1>3, <1>4 DEF Inv, HoldsWork, TaskConnected, BeforeTask,
        CutOff, Flagged, Apart, queueVars, stateVars, history

LEMMA PopInv == ASSUME Inv, Pop PROVE Inv'
<1> DEFINE w == Head(workQueue)
<1>1. /\ worker.at = "waiting" /\ workQueue # <<>>
      /\ worker' = [worker EXCEPT !.at = "popped", !.work = w]
      /\ workQueue' = Tail(workQueue)
      /\ UNCHANGED <<nextOperation, drawn, cancellation, cancelled, doomed,
                     stateVars, events, life, history>>
  BY DEF Pop
<1>2. /\ workQueue \in Seq(Works) /\ Len(workQueue) \in Nat \ {0}
      /\ w = workQueue[1] /\ w \in Works
      /\ workQueue' \in Seq(Works) /\ Len(workQueue') = Len(workQueue) - 1
      /\ \A i \in DOMAIN workQueue' : workQueue'[i] = workQueue[i + 1]
  BY <1>1 DEF Inv, TypeOK
<1>3. /\ 1 \in DOMAIN workQueue
      /\ \A i \in DOMAIN workQueue' :
           i + 1 \in DOMAIN workQueue /\ i + 1 # 1 /\ i \in Nat
  BY <1>2
<1>4. worker' \in Workers /\ worker'.work = w /\ worker'.at = "popped"
  BY <1>1, <1>2 DEF Inv, TypeOK, Workers
<1> HIDE DEF w
<1>5. frames = 0 /\ late = 0
  BY <1>1 DEF Inv, HoldsWork, AtRest
<1>6. TypeOK'
  BY <1>1, <1>2, <1>4 DEF Inv, TypeOK, stateVars, listing, history
<1>7. HoldsWork' /\ TaskConnected' /\ ListedAnswered'
  BY <1>1, <1>2, <1>4 DEF Inv, HoldsWork, TaskConnected, ListedAnswered,
                          AtRest, BeforeTask, OnTheBus, Placed, Lists, stateVars, listing
<1>8. CutOff'
  BY <1>1, <1>4, <1>5 DEF Inv, CutOff, OnTheBus, history
<1>9. w.id < nextOperation /\ \A t \in Callers : drawn[t].id # w.id
  BY <1>2, <1>3 DEF Inv, Apart
<1>10. \A i \in DOMAIN workQueue' :
          /\ workQueue'[i].id < nextOperation
          /\ workQueue'[i].id # w.id
          /\ \A t \in Callers : drawn[t].id # workQueue'[i].id
  BY <1>2, <1>3 DEF Inv, Apart
<1>11. \A i, j \in DOMAIN workQueue' : workQueue'[j].id = workQueue'[i].id => i = j
  <2> SUFFICES ASSUME NEW i \in DOMAIN workQueue', NEW j \in DOMAIN workQueue',
                      workQueue'[j].id = workQueue'[i].id
               PROVE  i = j
    OBVIOUS
  <2>1. i + 1 = j + 1
    BY <1>2, <1>3 DEF Inv, Apart
  <2> QED BY <1>3, <2>1
<1>12. Apart'
  BY <1>1, <1>4, <1>9, <1>10, <1>11 DEF Inv, Apart
<1> QED BY <1>6, <1>7, <1>8, <1>12 DEF Inv

LEMMA RestInv == ASSUME Inv, Rest PROVE Inv'
<1>1. /\ worker' = Idle /\ activeWork' = FALSE
      /\ cancelled' = cancelled \ {worker.work.id} /\ doomed' = doomed \ {worker.work.id}
      /\ frames' = 0 /\ late' = 0
      /\ UNCHANGED <<nextOperation, drawn, workQueue, cancellation, connected,
                     open, listing, events, life, last>>
  BY DEF Rest
<1>2. /\ worker' \in Workers /\ worker'.work = NoWork /\ worker'.at = "top"
      /\ worker'.setup = FALSE
  BY <1>1 DEF Idle, Workers
<1>3. TypeOK'
  BY <1>1, <1>2 DEF Inv, TypeOK, listing
<1>4. HoldsWork' /\ TaskConnected' /\ ListedAnswered'
  BY <1>1, <1>2 DEF Inv, HoldsWork, TaskConnected, ListedAnswered, AtRest, OnTheBus,
                    listing
<1>5. CutOff'
  BY <1>1, <1>2, NoWorkApart DEF Inv, TypeOK, CutOff, OnTheBus
<1>6. Apart'
  <2>1. \A i \in DOMAIN workQueue : workQueue[i].id # NoWork.id
    BY NoWorkApart DEF Inv, TypeOK
  <2>2. \A t \in Callers : drawn[t] # NoWork => drawn[t].id # NoWork.id
    BY NoWorkApart DEF Inv, TypeOK
  <2> QED BY <1>1, <1>2, <2>1, <2>2 DEF Inv, Apart
<1> QED BY <1>3, <1>4, <1>5, <1>6 DEF Inv

(* The steps before and after a task. *)
LEMMA AroundInv == ASSUME Inv, Activate \/ Report \/ ReportFailure \/ Forget PROVE Inv'
<1>1. CASE Activate
  <2>1. worker.at = "popped" /\ worker' = [worker EXCEPT !.at = "started"]
    BY <1>1 DEF Activate
  <2>2. /\ worker' \in Workers /\ worker'.work = worker.work /\ worker'.at = "started"
        /\ ~worker'.setup
    BY <2>1 DEF Inv, TypeOK, Workers, TaskConnected, BeforeTask
  <2>3. /\ UNCHANGED <<queueVars, connected, open, listing, events, life, history>>
        /\ activeWork' = TRUE
    BY <1>1 DEF Activate
  <2>4. ListedAnswered'
    BY <2>3 DEF Inv, ListedAnswered, listing
  <2> QED BY <2>1, <2>2, <2>3, <2>4, TaskInv
          DEF AtRest, BeforeTask, OnTheBus, listing, history, Inv, TypeOK
<1>2. CASE Report \/ ReportFailure
  <2>1. PICK how \in {"completed", "cancelled", "failed"} :
          worker.at \in {"returned", "thrown"} /\ Ends(how)
    BY <1>2 DEF Report, ReportFailure
  <2>2. worker.at \notin AtRest
    BY <2>1 DEF AtRest
  <2>3. worker.work.id \in Operations
    BY <2>2, NoWorkApart DEF Inv, HoldsWork
  <2>4. last' \in Endings /\ events' \in Seq(Endings)
    <3>1. last' \in Endings
      BY <2>1, <2>3 DEF Ends, Endings
    <3> QED BY <2>1, <3>1 DEF Ends, Inv, TypeOK
  <2>5. worker' \in Workers /\ worker'.work = worker.work /\ worker'.at = "ended"
    BY <2>1 DEF Ends, Inv, TypeOK, Workers
  <2>6. UNCHANGED <<queueVars, stateVars, life, frames, late>>
    BY <2>1 DEF Ends
  <2> QED BY <2>2, <2>4, <2>5, <2>6, TaskInv, SameListing
          DEF AtRest, BeforeTask, OnTheBus, stateVars, listing, Inv, TypeOK
<1>3. CASE Forget
  <2>1. /\ worker.at = "ended" /\ worker' = [worker EXCEPT !.at = "forgotten"]
        /\ cancellation' = cancellation \ {worker.work.id}
        /\ UNCHANGED <<nextOperation, drawn, workQueue, cancelled, doomed, stateVars,
                       events, life, history>>
    BY <1>3 DEF Forget
  <2>2. worker' \in Workers /\ worker'.work = worker.work /\ worker'.at = "forgotten"
    BY <2>1 DEF Inv, TypeOK, Workers
  <2>3. TypeOK'
    BY <2>1, <2>2 DEF Inv, TypeOK, stateVars, listing, history
  <2> QED BY <2>1, <2>2, <2>3, SameListing DEF Inv, HoldsWork, TaskConnected,
          CutOff, Flagged, Apart, AtRest, BeforeTask, OnTheBus, history
<1> QED BY <1>1, <1>2, <1>3

-----------------------------------------------------------------------------
(* The tasks. *)

LEMMA StartsRuns ==
  ASSUME Inv, NEW kind, Starts(kind)
  PROVE  worker.at \notin AtRest /\ worker.work.id \notin doomed /\ worker.work.kind = kind
BY DEF Starts, AtRest, Inv, CutOff, Flagged

(* A task that ends at once, or fails to begin.                            *)
LEMMA EndedTaskInv ==
  ASSUME Inv, worker.at \notin AtRest, Return \/ Throw,
         UNCHANGED <<queueVars, activeWork, events, life, history>>,
         connected' \in BOOLEAN, open' \in BOOLEAN, devices' \subseteq Addresses,
         found' \subseteq Addresses, kept' \in BOOLEAN, ListedAnswered'
  PROVE  Inv'
<1>1. /\ worker' \in Workers /\ worker'.work = worker.work
      /\ worker'.at \in {"returned", "thrown"}
  BY DEF Return, Throw, Inv, TypeOK, Workers
<1> QED BY <1>1, TaskInv DEF AtRest, BeforeTask, OnTheBus, history, Inv, TypeOK

LEMMA SimpleTasksInv ==
  ASSUME Inv, Skip \/ Connect \/ Disconnect \/ ScanEnds \/ WriteFails \/ ReadFails
  PROVE  Inv'
<1>1. /\ worker.at \notin AtRest /\ (Return \/ Throw)
      /\ UNCHANGED <<queueVars, activeWork, events, life, history>>
  BY DEF Skip, Connect, Disconnect, ScanEnds, WriteFails, ReadFails, Starts, AtRest,
         BetweenAddresses, stateVars
<1>2. CASE Skip \/ ScanEnds \/ WriteFails \/ ReadFails
  <2>1. UNCHANGED stateVars
    BY <1>2 DEF Skip, ScanEnds, WriteFails, ReadFails
  <2> QED BY <1>1, <2>1, SameListing, EndedTaskInv DEF stateVars, listing, Inv, TypeOK
<1>3. CASE Connect
  <2>1. /\ found' = {} /\ kept' = (devices # {}) /\ devices' = devices
        /\ connected' \in BOOLEAN /\ open' \in BOOLEAN
    BY <1>3 DEF Connect, Inv, TypeOK
  <2>2. ListedAnswered' /\ kept' \in BOOLEAN
    BY <2>1 DEF ListedAnswered
  <2> QED BY <1>1, <2>1, <2>2, EndedTaskInv DEF Inv, TypeOK
<1>4. CASE Disconnect
  <2>1. /\ found' = {} /\ kept' = FALSE /\ devices' = {}
        /\ connected' = FALSE /\ open' = FALSE
    BY <1>4 DEF Disconnect
  <2>2. ListedAnswered'
    BY <2>1 DEF ListedAnswered
  <2> QED BY <1>1, <2>1, <2>2, EndedTaskInv
<1> QED BY <1>2, <1>3, <1>4

LEMMA ScanInv == ASSUME Inv, Scan PROVE Inv'
<1>1. /\ worker.at \notin AtRest /\ worker.work.id \notin doomed
      /\ worker.work.kind = "scan"
      /\ UNCHANGED <<queueVars, activeWork, connected, open, events, life, history>>
  BY StartsRuns DEF Scan
<1>2. CASE connected
  <2>1. /\ devices' = {} /\ found' = {} /\ kept' = FALSE
        /\ worker' = [worker EXCEPT !.at = "next", !.address = 1]
    BY <1>2 DEF Scan
  <2>2. 1 \in 1 .. LastAddress + 1 /\ 1 \in Addresses
    BY ServiceAssumption DEF Addresses
  <2>3. /\ worker' \in Workers /\ worker'.work = worker.work /\ worker'.at = "next"
        /\ worker'.address = 1 /\ worker'.setup = worker.setup
    BY <2>1, <2>2 DEF Inv, TypeOK, Workers
  <2>4. worker.setup = FALSE
    BY DEF Scan, Starts, Inv, TypeOK, Workers, TaskConnected, BeforeTask
  <2>5. Placed(worker') /\ Lists(worker)' /\ ListedAnswered'
    BY <1>1, <2>1, <2>2, <2>3, <2>4 DEF Placed, Lists, ListedAnswered
  <2> QED BY <1>1, <1>2, <2>1, <2>3, <2>5, TaskInv DEF AtRest, BeforeTask, history, Inv, TypeOK
<1>3. CASE ~connected
  <2>1. UNCHANGED <<listing, connected, open, life>> /\ Throw
    BY <1>1, <1>3 DEF Scan
  <2>2. ListedAnswered'
    BY <2>1 DEF Inv, ListedAnswered, listing
  <2> QED BY <1>1, <2>1, <2>2, EndedTaskInv DEF Inv, TypeOK, listing
<1> QED BY <1>2, <1>3

LEMMA CommandInv == ASSUME Inv, Command PROVE Inv'
<1>1. /\ worker.at \notin AtRest /\ worker.work.id \notin doomed
      /\ UNCHANGED <<queueVars, stateVars, events, life, history>>
  BY StartsRuns DEF Command
<1>2. CASE connected /\ worker.work.address \in devices
  <2>1. worker' = [worker EXCEPT !.at = "next", !.address = worker.work.address]
    BY <1>2 DEF Command
  <2>2. worker.work.address \in Addresses /\ worker.work.address \in 1 .. LastAddress + 1
    <3>1. worker.work.address \in Addresses
      BY <1>2 DEF Inv, TypeOK
    <3>2. Addresses \subseteq 1 .. LastAddress + 1
      BY ServiceAssumption DEF Addresses
    <3> QED BY <3>1, <3>2
  <2>3. /\ worker' \in Workers /\ worker'.work = worker.work /\ worker'.at = "next"
        /\ worker'.address = worker.work.address
    BY <2>1, <2>2 DEF Inv, TypeOK, Workers
  <2>4. worker.work.kind # "scan"
    BY DEF Command, Starts
  <2>5. Placed(worker') /\ Lists(worker)'
    BY <1>1, <1>2, <2>2, <2>3, <2>4 DEF Placed, Lists, stateVars, listing
  <2> QED BY <1>1, <1>2, <2>3, <2>5, SameListing, TaskInv
          DEF AtRest, BeforeTask, history, stateVars, listing, Inv, TypeOK
<1>3. CASE ~(connected /\ worker.work.address \in devices)
  <2>1. Throw
    BY <1>3 DEF Command
  <2> QED BY <1>1, <2>1, SameListing, EndedTaskInv DEF stateVars, listing, Inv, TypeOK
<1> QED BY <1>2, <1>3

(* What holds of a worker that exchanges frames.                           *)
LEMMA TaskRuns ==
  ASSUME Inv, worker.at \in OnTheBus
  PROVE  /\ worker.at \notin AtRest /\ worker.work.id \notin doomed
         /\ connected /\ Placed(worker) /\ Lists(worker)
BY DEF Inv, OnTheBus, AtRest, CutOff, TaskConnected

LEMMA ExchangeInv == ASSUME Inv, Exchange PROVE Inv'
<1>1. /\ worker.at = "next" /\ (BetweenAddresses => ~ScanIsOver)
      /\ worker.at \notin AtRest /\ worker.work.id \notin doomed
      /\ connected /\ Placed(worker)
      /\ UNCHANGED <<queueVars, stateVars, events, life, history>>
  BY TaskRuns DEF Exchange, OnTheBus
<1>2. CASE open
  <2>1. worker' = [worker EXCEPT !.at = "pacing"]
    BY <1>2 DEF Exchange
  <2>2. worker'.address = worker.address /\ worker'.work = worker.work
        /\ worker'.setup = worker.setup /\ worker'.at = "pacing"
    BY <2>1 DEF Inv, TypeOK, Workers
  <2>3. worker.address \in Addresses
    BY <1>1, ServiceAssumption
       DEF Placed, BetweenAddresses, ScanIsOver, Scans, Addresses
  <2>4. Placed(worker')
    BY <1>1, <2>2, <2>3 DEF Placed
  <2> QED BY <1>1, <1>2, <2>1, <2>4, MoveInv DEF OnTheBus
<1>3. CASE ~open
  <2>1. Throw
    BY <1>3 DEF Exchange
  <2> QED BY <1>1, <2>1, SameListing, EndedTaskInv DEF stateVars, listing, Inv, TypeOK
<1> QED BY <1>2, <1>3

LEMMA OnwardInv == ASSUME Inv, Transmit \/ PollAgain PROVE Inv'
<1>1. /\ worker.at \in {"pacing", "awaiting"}
      /\ UNCHANGED <<queueVars, stateVars, events, life, history>>
      /\ \E at \in {"writing", "pacing"} :
           worker' = [worker EXCEPT !.at = at] /\ (at = "writing" => ~Flagged)
  BY DEF Transmit, PollAgain
<1>2. PICK at \in {"writing", "pacing"} :
        worker' = [worker EXCEPT !.at = at] /\ (at = "writing" => ~Flagged)
  BY <1>1
<1>3. /\ worker.at \notin AtRest /\ worker.work.id \notin doomed
      /\ connected /\ Placed(worker) /\ open
  BY <1>1, TaskRuns DEF OnTheBus, Lists
<1>4. worker'.address = worker.address /\ worker'.work = worker.work
      /\ worker'.setup = worker.setup /\ worker'.at = at
  BY <1>2 DEF Inv, TypeOK, Workers
<1>5. Placed(worker')
  BY <1>1, <1>3, <1>4 DEF Placed
<1> QED BY <1>1, <1>2, <1>3, <1>5, MoveInv DEF OnTheBus

(* The write decided on before the flag was set is the last one.           *)
LEMMA WriteInv == ASSUME Inv, Write PROVE Inv'
<1>1. /\ worker.at = "writing"
      /\ frames' = frames + 1
      /\ late' = IF Flagged THEN late + 1 ELSE late
      /\ worker' = [worker EXCEPT !.at = "awaiting"]
      /\ UNCHANGED <<queueVars, stateVars, events, life, last>>
  BY DEF Write
<1>2. /\ worker.at \notin AtRest /\ worker.work.id \notin doomed
      /\ connected /\ Placed(worker)
  BY <1>1, TaskRuns DEF OnTheBus
<1>3. late = 0 /\ frames \in Nat
  BY <1>1 DEF Inv, CutOff, TypeOK
<1>4. /\ worker' \in Workers /\ worker'.at = "awaiting"
      /\ worker'.address = worker.address /\ worker'.work = worker.work
      /\ worker'.setup = worker.setup
  BY <1>1 DEF Inv, TypeOK, Workers
<1>5. TypeOK'
  BY <1>1, <1>3, <1>4 DEF Inv, TypeOK, queueVars, stateVars, listing
<1>6. ListedAnswered' /\ HoldsWork' /\ TaskConnected'
  BY <1>1, <1>2, <1>4 DEF Inv, ListedAnswered, HoldsWork, TaskConnected, Placed,
                          AtRest, BeforeTask, OnTheBus, Placed, Lists, stateVars, listing
<1>7. CutOff'
  BY <1>1, <1>2, <1>3, <1>4 DEF Inv, CutOff, Flagged, OnTheBus, queueVars
<1>8. Apart'
  BY <1>1, <1>4 DEF Inv, Apart, queueVars
<1> QED BY <1>5, <1>6, <1>7, <1>8 DEF Inv

(* A scan goes on to the next address, which may be one too many.          *)
LEMMA NextAddressPlaced ==
  ASSUME Inv, worker.address \in Addresses, worker.work.kind = "scan"
  PROVE  /\ NextAddress \in Workers /\ NextAddress.work = worker.work
         /\ NextAddress.at = "next" /\ Placed(NextAddress)
<1>1. worker \in Workers /\ worker.address + 1 \in 1 .. LastAddress + 1
  BY ServiceAssumption DEF Inv, TypeOK, Addresses
<1>2. /\ NextAddress \in Workers /\ NextAddress.work = worker.work
      /\ NextAddress.at = "next" /\ NextAddress.setup = FALSE
      /\ NextAddress.address = worker.address + 1
  BY <1>1 DEF NextAddress, Workers
<1> QED BY <1>1, <1>2 DEF Placed

LEMMA AnsweredInv == ASSUME Inv, Answer \/ NoAnswer PROVE Inv'
<1> DEFINE a == worker.address
<1>1. /\ worker.at \in {"pacing", "awaiting"}
      /\ UNCHANGED <<queueVars, activeWork, connected, open, kept, events, life, history>>
      /\ devices' = devices \/ (devices' = devices \cup {a} /\ (Scans => worker.setup))
      /\ found' = found \/ found' = found \cup {a}
      /\ \/ worker' = [worker EXCEPT !.at = "next", !.setup = TRUE]
            /\ Scans /\ found' = found \cup {a}
         \/ worker' = [worker EXCEPT !.at = "next"] /\ ~Scans
         \/ worker' = NextAddress /\ Scans
         \/ Return \/ Throw
  BY DEF Answer, NoAnswer, ListDevice
<1>2. /\ worker.at \notin AtRest /\ worker.work.id \notin doomed
      /\ connected /\ Placed(worker) /\ a \in Addresses
      /\ open /\ (Scans /\ worker.setup => a \in found) /\ (~Scans => a \in devices)
  BY <1>1, TaskRuns DEF OnTheBus, Placed, Lists, Scans
<1>3. devices' \subseteq Addresses /\ found' \subseteq Addresses /\ kept' \in BOOLEAN
  BY <1>1, <1>2 DEF Inv, TypeOK
<1>4. ListedAnswered'
  BY <1>1, <1>2 DEF Inv, ListedAnswered
<1>5. CASE Return \/ Throw
  BY <1>1, <1>2, <1>3, <1>4, <1>5, EndedTaskInv DEF Inv, TypeOK
<1>6. ASSUME worker' \in Workers, worker'.work = worker.work, worker'.at = "next",
             Placed(worker'), Lists(worker)'
      PROVE  Inv'
  BY <1>1, <1>2, <1>3, <1>4, <1>6, TaskInv DEF AtRest, BeforeTask, history, Inv, TypeOK
<1>7. CASE worker' = NextAddress /\ Scans
  <2>1. worker'.work = worker.work /\ worker'.at = "next" /\ worker'.setup = FALSE
    BY <1>7 DEF NextAddress, Inv, TypeOK, Workers
  <2>2. Lists(worker)'
    BY <1>7, <2>1 DEF Lists, Scans
  <2> QED BY <1>2, <1>6, <1>7, <2>2, NextAddressPlaced DEF Scans
<1>8. CASE worker' = [worker EXCEPT !.at = "next", !.setup = TRUE]
           /\ Scans /\ found' = found \cup {a}
  <2>1. /\ worker' \in Workers /\ worker'.work = worker.work /\ worker'.at = "next"
        /\ worker'.address = a
    BY <1>8 DEF Inv, TypeOK, Workers
  <2>2. Placed(worker') /\ Lists(worker)'
    BY <1>2, <1>8, <2>1 DEF Placed, Lists, Scans
  <2> QED BY <1>6, <2>1, <2>2
<1>9. CASE worker' = [worker EXCEPT !.at = "next"] /\ ~Scans
  <2>1. /\ worker' \in Workers /\ worker'.work = worker.work /\ worker'.at = "next"
        /\ worker'.address = a
    BY <1>9 DEF Inv, TypeOK, Workers
  <2>2. Placed(worker') /\ Lists(worker)'
    BY <1>1, <1>2, <1>9, <2>1 DEF Placed, Lists, Scans
  <2> QED BY <1>6, <2>1, <2>2
<1> QED BY <1>1, <1>5, <1>7, <1>8, <1>9

-----------------------------------------------------------------------------
LEMMA InitInv == Init => Inv
<1> SUFFICES ASSUME Init PROVE Inv
  OBVIOUS
<1>1. /\ worker \in Workers /\ worker.at = "top" /\ worker.work = NoWork
  BY DEF Init, Idle, Workers
<1>2. nextOperation \in 1 .. MaxOperations + 1
  BY ServiceAssumption DEF Init
<1>3. workQueue \in Seq(Works) /\ events \in Seq(Endings) /\ DOMAIN workQueue = {}
  BY DEF Init
<1>4. \A t \in Callers : drawn[t] = NoWork
  BY DEF Init
<1>5. TypeOK
  BY <1>1, <1>2, <1>3 DEF Init, TypeOK
<1>6. ListedAnswered /\ HoldsWork /\ TaskConnected /\ CutOff
  BY <1>1 DEF Init, ListedAnswered, HoldsWork, TaskConnected, CutOff, AtRest, OnTheBus,
                   Idle
<1>7. Apart
  BY <1>1, <1>3, <1>4 DEF Apart
<1> QED BY <1>5, <1>6, <1>7 DEF Inv

LEMMA NextInv == Inv /\ [Next]_vars => Inv'
<1> SUFFICES ASSUME Inv, [Next]_vars PROVE Inv'
  OBVIOUS
<1>1. CASE UNCHANGED vars
  <2>1. /\ UNCHANGED <<queueVars, worker, stateVars, history>>
        /\ life' \in {"up", "stopping", "gone"} /\ life' = life
        /\ events' \in Seq(Endings)
    BY <1>1 DEF vars, Inv, TypeOK
  <2> QED BY <2>1, SameInv
<1>2. CASE CallerStep
  BY <1>2, DrawInv, PushInv, CancelInv, OtherCallsInv DEF CallerStep
<1>3. CASE WorkerStep
  BY <1>3, RestingInv, PopInv, AroundInv, SimpleTasksInv, ScanInv, CommandInv,
     ExchangeInv, OnwardInv, WriteInv, AnsweredInv, RestInv DEF WorkerStep
<1>4. CASE RequestStop \/ Close
  BY <1>4, OtherCallsInv
<1> QED BY <1>1, <1>2, <1>3, <1>4 DEF Next

LEMMA Invariance == Spec => []Inv
BY InitInv, NextInv, PTL DEF Spec

-----------------------------------------------------------------------------
(* Every field keeps its type, and a scan stays within its addresses       *)
(* (enqueue, workerLoop, scanAisg2).                                       *)
THEOREM TypeCorrect == Spec => []TypeOK
<1>1. Inv => TypeOK
  BY DEF Inv
<1> QED BY <1>1, Invariance, PTL

(* At most one frame of an operation is written after it was cancelled,    *)
(* and none if it was still waiting (workerLoop, transmit).                *)
THEOREM CancellationCutsOff == Spec => []CancelCutsOff
<1>1. Inv => CancelCutsOff
  BY DEF Inv, CutOff, CancelCutsOff
<1> QED BY <1>1, Invariance, PTL

(* A device on the list answered a scan over the connection that is open   *)
(* now, unless a connect kept the list of the one before (connect,         *)
(* disconnect, scanAisg2, storeDevice).                                    *)
THEOREM ListIsOfThisConnection == Spec => []ListedAnswered
<1>1. Inv => ListedAnswered
  BY DEF Inv
<1> QED BY <1>1, Invariance, PTL
-----------------------------------------------------------------------------
(* The service and the single flight of its operations. *)

(* An identifier can be cancelled from its place in the queue on, and a    *)
(* task that threw was not cancelled while it waited.                      *)
FlightKept ==
  /\ \A op \in cancellation \cup cancelled :
       op < nextOperation /\ \A t \in Callers : drawn[t].id # op
  /\ worker.at = "thrown" => worker.work.id \notin doomed

LEMMA OnTheBusThrows ==
  ASSUME Inv, (worker.at = "started" /\ ~Flagged) \/ worker.at \in OnTheBus
  PROVE  worker.work.id \notin doomed
BY DEF Inv, CutOff, Flagged

LEMMA NextFlightKept == Inv /\ FlightKept /\ [Next]_vars => FlightKept'
<1> SUFFICES ASSUME Inv, FlightKept, [Next]_vars PROVE FlightKept'
  OBVIOUS
<1>1. worker \in Workers /\ nextOperation \in Nat /\ cancelled \subseteq Operations
      /\ cancellation \subseteq Operations /\ Operations \subseteq Nat
  BY ServiceAssumption DEF Inv, TypeOK, Operations
<1>2. ASSUME NEW t \in Callers, NEW call \in Calls, Draw(t, call) PROVE FlightKept'
  <2>1. /\ nextOperation' = nextOperation + 1
        /\ \A u \in Callers : drawn'[u].id = IF u = t THEN nextOperation ELSE drawn[u].id
        /\ UNCHANGED <<cancellation, cancelled, doomed, worker>>
    BY <1>2 DEF Draw, Inv, TypeOK
  <2>2. ASSUME NEW op \in cancellation \cup cancelled
        PROVE  op < nextOperation' /\ \A u \in Callers : drawn'[u].id # op
    <3>1. op \in Nat /\ op < nextOperation /\ \A u \in Callers : drawn[u].id # op
      BY <1>1 DEF FlightKept
    <3> QED BY <1>1, <2>1, <3>1
  <2>3. worker'.at = "thrown" => worker'.work.id \notin doomed'
    BY <2>1 DEF FlightKept
  <2> QED BY <2>1, <2>2, <2>3 DEF FlightKept
<1>3. ASSUME NEW t \in Callers, Push(t) PROVE FlightKept'
  <2>1. /\ drawn[t] # NoWork /\ cancellation' = cancellation \cup {drawn[t].id}
        /\ \A u \in Callers : drawn'[u] = IF u = t THEN NoWork ELSE drawn[u]
        /\ UNCHANGED <<nextOperation, cancelled, doomed, worker>>
    BY <1>3 DEF Push, Inv, TypeOK
  <2>2. drawn[t] \in Works /\ drawn[t].id < nextOperation
        /\ \A u \in Callers : drawn[u].id = drawn[t].id => u = t
    BY <2>1 DEF Inv, TypeOK, Apart
  <2>3. \A op \in Operations : NoWork.id # op
    BY NoWorkApart
  <2>4. drawn[t].id \in Operations
    BY <2>2, NoWorkApart
  <2>5. \A op \in cancellation' \cup cancelled' :
          op < nextOperation' /\ \A u \in Callers : drawn'[u].id # op
    BY <1>1, <2>1, <2>2, <2>3, <2>4 DEF FlightKept
  <2> QED BY <2>1, <2>5 DEF FlightKept
<1>4. ASSUME NEW op \in Operations, Cancel(op) PROVE FlightKept'
  <2>1. /\ op \in cancellation /\ cancelled' = cancelled \cup {op}
        /\ doomed' = IF Queued(op) THEN doomed \cup {op} ELSE doomed
        /\ UNCHANGED <<nextOperation, drawn, cancellation, worker>>
    BY <1>4 DEF Cancel
  <2>2. Queued(op) => op # worker.work.id
    BY DEF Queued, Inv, Apart
  <2> QED BY <2>1, <2>2 DEF FlightKept
<1>5. CASE DrainEvents \/ RequestStop \/ Close \/ UNCHANGED vars
  BY <1>5 DEF DrainEvents, RequestStop, Close, vars, queueVars, FlightKept
<1>6. CASE WorkerStep
  <2>1. /\ UNCHANGED <<nextOperation, drawn>>
        /\ cancellation' \cup cancelled' \subseteq cancellation \cup cancelled
        /\ doomed' \subseteq doomed
    BY <1>6 DEF WorkerStep, EnterLoop, Pop, StopWaiting, Activate, Skip, Connect,
       Disconnect, Scan, Command, ScanEnds, Exchange, Transmit, Write, WriteFails, Answer,
       PollAgain, NoAnswer, ReadFails, Report, ReportFailure, Ends, Forget, Rest, queueVars
  <2>2. worker'.at = "thrown" =>
          /\ worker'.work = worker.work
          /\ (worker.at = "started" /\ ~Flagged) \/ worker.at \in OnTheBus
    <3>1. CASE EnterLoop \/ Pop \/ StopWaiting \/ Activate \/ Skip
      BY <1>1, <3>1 DEF EnterLoop, Pop, StopWaiting, Activate, Skip, Return, Workers
    <3>2. CASE Connect \/ Disconnect \/ Scan \/ Command
      BY <1>1, <3>2 DEF Connect, Disconnect, Scan, Command, Starts, Return, Throw, Workers
    <3>3. CASE ScanEnds \/ Exchange \/ Transmit \/ Write \/ WriteFails \/ ReadFails
      BY <1>1, <3>3 DEF ScanEnds, Exchange, Transmit, Write, WriteFails, ReadFails,
         BetweenAddresses, OnTheBus, Return, Throw, Workers
    <3>4. CASE Answer \/ PollAgain \/ NoAnswer
      <4>1. worker.at \in OnTheBus
        BY <3>4 DEF Answer, PollAgain, NoAnswer, OnTheBus
      <4>2. worker'.work = worker.work
        BY <1>1, <3>4 DEF Answer, PollAgain, NoAnswer, NextAddress, Return, Throw, Workers
      <4> QED BY <4>1, <4>2
    <3>5. CASE Report \/ ReportFailure \/ Forget \/ Rest
      BY <1>1, <3>5 DEF Report, ReportFailure, Ends, Forget, Rest, Idle, Workers
    <3> QED BY <1>6, <3>1, <3>2, <3>3, <3>4, <3>5 DEF WorkerStep
  <2> QED BY <2>1, <2>2, OnTheBusThrows DEF FlightKept
<1> QED BY <1>2, <1>3, <1>4, <1>5, <1>6 DEF Next, CallerStep

LEMMA FlightInvariance == Spec => [](Inv /\ FlightKept)
<1>1. Init => FlightKept
  BY DEF Init, Idle, FlightKept
<1> QED BY <1>1, InitInv, NextInv, NextFlightKept, PTL DEF Spec

(* The state of SingleFlight that a state of the service stands for.       *)
Ids(queue) == [i \in DOMAIN queue |-> queue[i].id]
Current    == IF InService THEN worker.work.id ELSE None
EndedOps   == {op \in 1 .. nextOperation - 1 : Ended(op)}
Asked      == {op \in cancelled : ~Ended(op)}
Doomed     == {op \in doomed : ~Ended(op)}
FlightState ==
  <<Ids(workQueue), Current, EndedOps, last, Asked, Doomed, life # "up">>

LEMMA IdsOf ==
  ASSUME NEW q \in Seq(Works)
  PROVE  /\ Ids(q) \in Seq(Operations) /\ Len(Ids(q)) = Len(q) /\ DOMAIN Ids(q) = DOMAIN q
         /\ \A w \in Works : Ids(Append(q, w)) = Append(Ids(q), w.id)
         /\ q # <<>> => /\ Ids(q) # <<>> /\ Head(Ids(q)) = Head(q).id
                        /\ Ids(Tail(q)) = Tail(Ids(q))
<1>1. Len(q) \in Nat /\ DOMAIN q = 1 .. Len(q) /\ \A i \in 1 .. Len(q) : q[i].id \in Operations
  BY NoWorkApart
<1>2. /\ Ids(q) \in Seq(Operations) /\ Len(Ids(q)) = Len(q) /\ DOMAIN Ids(q) = DOMAIN q
      /\ \A i \in 1 .. Len(q) : Ids(q)[i] = q[i].id
  BY <1>1 DEF Ids
<1>3. ASSUME NEW w \in Works PROVE Ids(Append(q, w)) = Append(Ids(q), w.id)
  <2>1. w.id \in Operations
    BY NoWorkApart
  <2>2. /\ Append(q, w) \in Seq(Works) /\ Len(Append(q, w)) = Len(q) + 1
        /\ \A i \in 1 .. Len(q) + 1 : Append(q, w)[i] = IF i = Len(q) + 1 THEN w ELSE q[i]
    BY <1>1
  <2>3. /\ Append(Ids(q), w.id) \in Seq(Operations)
        /\ Len(Append(Ids(q), w.id)) = Len(q) + 1
        /\ \A i \in 1 .. Len(q) + 1 :
             Append(Ids(q), w.id)[i] = IF i = Len(q) + 1 THEN w.id ELSE Ids(q)[i]
    BY <1>2, <2>1
  <2>4. /\ Ids(Append(q, w)) \in Seq(Operations)
        /\ Len(Ids(Append(q, w))) = Len(q) + 1
        /\ \A i \in 1 .. Len(q) + 1 : Ids(Append(q, w))[i] = Append(q, w)[i].id
    BY <1>1, <2>1, <2>2 DEF Ids
  <2>5. \A i \in 1 .. Len(q) + 1 : Ids(Append(q, w))[i] = Append(Ids(q), w.id)[i]
    BY <1>1, <1>2, <2>2, <2>3, <2>4
  <2> QED BY <2>3, <2>4, <2>5, SeqEqual
<1>4. ASSUME q # <<>> PROVE Ids(q) # <<>> /\ Head(Ids(q)) = Head(q).id
  BY <1>1, <1>2, <1>4
<1>5. ASSUME q # <<>> PROVE Ids(Tail(q)) = Tail(Ids(q))
  <2>1. /\ Tail(q) \in Seq(Works) /\ Len(Tail(q)) = Len(q) - 1 /\ Len(q) >= 1
        /\ \A i \in 1 .. Len(q) - 1 : Tail(q)[i] = q[i + 1]
    BY <1>1, <1>5
  <2>2. /\ Tail(Ids(q)) \in Seq(Operations) /\ Len(Tail(Ids(q))) = Len(q) - 1
        /\ \A i \in 1 .. Len(q) - 1 : Tail(Ids(q))[i] = Ids(q)[i + 1]
    BY <1>2, <1>4, <1>5
  <2>3. \A i \in 1 .. Len(Tail(q)) : Tail(q)[i].id \in Operations
    BY <2>1, NoWorkApart
  <2>4. /\ Ids(Tail(q)) \in Seq(Operations) /\ Len(Ids(Tail(q))) = Len(q) - 1
        /\ \A i \in 1 .. Len(q) - 1 : Ids(Tail(q))[i] = Tail(q)[i].id
    BY <2>1, <2>3 DEF Ids
  <2>5. \A i \in 1 .. Len(q) - 1 : Ids(Tail(q))[i] = Tail(Ids(q))[i]
    BY <1>1, <1>2, <2>1, <2>2, <2>4
  <2> QED BY <2>2, <2>4, <2>5, SeqEqual
<1> QED BY <1>2, <1>3, <1>4, <1>5

(* An operation waits, is in service, or has ended.                        *)
LEMMA Stages ==
  ASSUME Inv, FlightKept
  PROVE  /\ \A op : Flight!Waits(op) <=> Queued(op)
         /\ InService => ~Queued(worker.work.id) /\ ~Ended(worker.work.id)
         /\ \A op : Queued(op) => ~Ended(op) /\ op # Current
         /\ \A op \in cancellation \cup cancelled :
              op \in EndedOps \/ Queued(op) \/ op = Current
         /\ None \notin EndedOps
<1>1. \A op : Flight!Waits(op) <=> Queued(op)
  BY DEF Flight!Waits, Queued
<1>2. InService => ~Queued(worker.work.id) /\ ~Ended(worker.work.id)
  BY DEF Queued, Ended, Inv, Apart
<1>3. workQueue \in Seq(Works) /\ worker.work \in Works \cup {NoWork} /\ nextOperation \in Nat
      /\ cancellation \cup cancelled \subseteq Operations /\ Operations \subseteq Nat \ {0}
      /\ nextOperation \in 1 .. MaxOperations + 1 /\ MaxOperations \in Nat
  BY ServiceAssumption DEF Inv, TypeOK, Workers, Operations
<1>4. \A i \in DOMAIN workQueue : workQueue[i].id # None
  BY <1>3, NoWorkApart
<1>5. \A op : Queued(op) => ~Ended(op) /\ op # Current
  BY <1>4 DEF Queued, Ended, Current, Inv, Apart
<1>6. ASSUME NEW op \in cancellation \cup cancelled
      PROVE  op \in EndedOps \/ Queued(op) \/ op = Current
  <2>1. op < nextOperation /\ \A t \in Callers : drawn[t].id # op
    BY DEF FlightKept
  <2>2. op \in Nat \ {0}
    BY <1>3
  <2>3. op \in 1 .. nextOperation - 1
    BY <1>3, <2>1, <2>2
  <2> QED BY <2>1, <2>3 DEF EndedOps, Ended, Current
<1>7. None \notin EndedOps
  <2>1. EndedOps \subseteq Operations
    BY <1>3 DEF EndedOps, Operations
  <2> QED BY <2>1, NoWorkApart
<1> QED BY <1>1, <1>2, <1>5, <1>6, <1>7

(* A step that moves no operation from one stage to the next.              *)
LEMMA SameStages ==
  ASSUME UNCHANGED <<workQueue, drawn, nextOperation, last>>,
         InService' = InService, InService => worker'.work = worker.work,
         \A op : ~Ended(op) => (op \in cancelled' <=> op \in cancelled),
         \A op : ~Ended(op) => (op \in doomed' <=> op \in doomed),
         (life # "up")' = (life # "up")
  PROVE  FlightState' = FlightState
<1>1. \A op : Ended(op)' <=> Ended(op)
  BY DEF Ended, Queued
<1>2. Asked' = Asked /\ Doomed' = Doomed /\ EndedOps' = EndedOps
  BY <1>1 DEF Asked, Doomed, EndedOps
<1>3. Current' = Current
  BY DEF Current
<1> QED BY <1>2, <1>3 DEF FlightState

LEMMA Stutters == ASSUME FlightState' = FlightState PROVE UNCHANGED Flight!vars
BY DEF FlightState, Flight!vars, Ids, Current, EndedOps, Asked, Doomed

LEMMA PushQueues ==
  ASSUME Inv, FlightKept, NEW t \in Callers, Push(t)
  PROVE  \E op \in Operations : Flight!Queue(op)
<1>1. PICK w : w = drawn[t]
  OBVIOUS
<1>2. /\ w # NoWork /\ workQueue' = Append(workQueue, w)
      /\ \A u \in Callers : drawn'[u] = IF u = t THEN NoWork ELSE drawn[u]
      /\ UNCHANGED <<nextOperation, cancelled, doomed, worker, life, last>>
  BY <1>1 DEF Push, Inv, TypeOK, history
<1>3. w \in Works /\ w.id \in Operations /\ workQueue \in Seq(Works)
  BY <1>1, <1>2, NoWorkApart DEF Inv, TypeOK
<1>4. Ids(workQueue') = Append(Ids(workQueue), w.id)
  BY <1>2, <1>3, IdsOf
<1>5. /\ ~Queued(w.id) /\ worker.work.id # w.id /\ ~Ended(w.id)
      /\ \A u \in Callers : drawn[u].id = w.id => u = t
  BY <1>1, <1>2 DEF Inv, Apart, Queued, Ended
<1>6. \A op : Queued(op)' <=> Queued(op) \/ op = w.id
  <2>1. /\ DOMAIN workQueue' = 1 .. Len(workQueue) + 1
        /\ DOMAIN workQueue = 1 .. Len(workQueue) /\ Len(workQueue) \in Nat
        /\ \A i \in DOMAIN workQueue : workQueue'[i] = workQueue[i]
        /\ workQueue'[Len(workQueue) + 1] = w
    BY <1>2, <1>3
  <2>2. \A i \in DOMAIN workQueue' : i \in DOMAIN workQueue \/ i = Len(workQueue) + 1
    BY <2>1
  <2>3. DOMAIN workQueue \subseteq DOMAIN workQueue' /\ Len(workQueue) + 1 \in DOMAIN workQueue'
    BY <2>1
  <2> QED BY <2>1, <2>2, <2>3 DEF Queued
<1>7. \A op \in Operations : Ended(op)' <=> Ended(op)
  <2>1. \A op \in Operations : NoWork.id # op
    BY NoWorkApart
  <2>2. ASSUME NEW op \in Operations, op # w.id
        PROVE  (\A u \in Callers : drawn'[u].id # op) <=> (\A u \in Callers : drawn[u].id # op)
    BY <1>1, <1>2, <2>1, <2>2
  <2>3. InService' <=> InService
    BY <1>2 DEF InService
  <2> QED BY <1>2, <1>5, <1>6, <2>2, <2>3 DEF Ended
<1>8. /\ cancelled \subseteq Operations /\ doomed \subseteq Operations
      /\ 1 .. nextOperation - 1 \subseteq Operations
  BY ServiceAssumption DEF Inv, TypeOK, Operations
<1>9. EndedOps' = EndedOps /\ Asked' = Asked /\ Doomed' = Doomed /\ Current' = Current
  <2>1. EndedOps' = EndedOps
    BY <1>2, <1>7, <1>8 DEF EndedOps
  <2>2. Asked' = Asked /\ Doomed' = Doomed
    BY <1>2, <1>7, <1>8 DEF Asked, Doomed
  <2>3. Current' = Current
    BY <1>2 DEF Current, InService
  <2> QED BY <2>1, <2>2, <2>3
<1>10. /\ ~Flight!Waits(w.id) /\ Current # w.id /\ w.id \notin EndedOps
  <2>1. w.id # None
    BY <1>3, NoWorkApart
  <2> QED BY <1>5, <2>1, Stages DEF Current, EndedOps
<1>11. Flight!Queue(w.id)
  BY <1>2, <1>4, <1>9, <1>10 DEF Flight!Queue, Ids, Current, EndedOps, Asked, Doomed
<1> QED BY <1>3, <1>11

LEMMA DrawStutters ==
  ASSUME Inv, FlightKept, NEW t \in Callers, NEW call \in Calls, Draw(t, call)
  PROVE  FlightState' = FlightState
<1>1. PICK n : n = nextOperation
  OBVIOUS
<1>2. /\ nextOperation' = n + 1 /\ n \in Operations /\ drawn[t] = NoWork
      /\ \A u \in Callers : drawn'[u].id = IF u = t THEN n ELSE drawn[u].id
      /\ UNCHANGED <<workQueue, cancelled, doomed, worker, life, last>>
  BY <1>1 DEF Draw, Inv, TypeOK, history
<1>3. n \in Nat \ {0} /\ Operations \subseteq Nat /\ 1 .. n \subseteq Operations
  BY <1>2, ServiceAssumption DEF Operations
<1>4. ASSUME NEW op \in Operations, op # n PROVE Ended(op)' <=> Ended(op)
  <2>1. NoWork.id # op
    BY NoWorkApart
  <2>2. (\A u \in Callers : drawn'[u].id # op) <=> (\A u \in Callers : drawn[u].id # op)
    BY <1>2, <1>4, <2>1
  <2> QED BY <1>2, <2>2 DEF Ended, Queued, InService
<1>5. ~Ended(n)'
  BY <1>2 DEF Ended
<1>6. EndedOps' = EndedOps
  <2>1. /\ EndedOps = {op \in 1 .. n - 1 : Ended(op)}
        /\ EndedOps' = {op \in 1 .. n : Ended(op)'}
    BY <1>1, <1>2, <1>3 DEF EndedOps
  <2>2. \A op \in 1 .. n : op = n \/ op \in 1 .. n - 1
    BY <1>3
  <2>3. \A op \in 1 .. n - 1 : op # n /\ op \in 1 .. n
    BY <1>3
  <2>4. \A op \in 1 .. n - 1 : Ended(op)' <=> Ended(op)
    BY <1>3, <1>4, <2>3
  <2>5. \A op : op \in EndedOps' <=> op \in EndedOps
    BY <1>5, <2>1, <2>2, <2>3, <2>4
  <2> QED BY <2>5
<1>7. \A op \in cancelled \cup doomed : op # n /\ op \in Operations
  <2>1. \A op \in cancelled : op \in Operations /\ op < n
    BY <1>1 DEF Inv, TypeOK, FlightKept
  <2>2. doomed \subseteq cancelled
    BY DEF Inv, CutOff
  <2> QED BY <1>3, <2>1, <2>2
<1>8. Asked' = Asked /\ Doomed' = Doomed
  BY <1>2, <1>4, <1>7 DEF Asked, Doomed
<1>9. Current' = Current
  BY <1>2 DEF Current, InService
<1> QED BY <1>2, <1>6, <1>8, <1>9 DEF FlightState

(* A flag set on an operation that has ended goes with it.                 *)
LEMMA CancelCancels ==
  ASSUME Inv, FlightKept, NEW op \in Operations, Cancel(op)
  PROVE  Flight!Cancel(op) \/ FlightState' = FlightState
<1>1. /\ op \in cancellation /\ cancelled' = cancelled \cup {op}
      /\ doomed' = IF Queued(op) THEN doomed \cup {op} ELSE doomed
      /\ UNCHANGED <<nextOperation, drawn, workQueue, worker, life, last>>
  BY DEF Cancel, history
<1>2. \A o : Ended(o)' <=> Ended(o)
  BY <1>1 DEF Ended, Queued, InService
<1>3. EndedOps' = EndedOps /\ Current' = Current
  BY <1>1, <1>2 DEF EndedOps, Current, InService
<1>4. CASE Ended(op)
  <2>1. ~Queued(op)
    BY <1>4 DEF Ended
  <2>2. Asked' = Asked /\ Doomed' = Doomed
    BY <1>1, <1>2, <1>4, <2>1 DEF Asked, Doomed
  <2> QED BY <1>1, <1>3, <2>2 DEF FlightState
<1>5. CASE ~Ended(op)
  <2>1. /\ Asked' = Asked \cup {op}
        /\ Doomed' = IF Queued(op) THEN Doomed \cup {op} ELSE Doomed
    BY <1>1, <1>2, <1>5 DEF Asked, Doomed
  <2>2. Flight!Waits(op) \/ Current = op
    BY <1>1, <1>5, Stages DEF EndedOps
  <2>3. Flight!Waits(op) <=> Queued(op)
    BY Stages
  <2>4. Flight!Cancel(op)
    BY <1>1, <1>3, <2>1, <2>2, <2>3
       DEF Flight!Cancel, Ids, Current, EndedOps, Asked, Doomed
  <2> QED BY <2>4
<1> QED BY <1>4, <1>5

LEMMA PopBegins ==
  ASSUME Inv, FlightKept, Pop
  PROVE  Flight!Begin
<1>1. PICK w : w = Head(workQueue)
  OBVIOUS
<1>2. /\ worker.at = "waiting" /\ workQueue # <<>>
      /\ worker' = [worker EXCEPT !.at = "popped", !.work = w]
      /\ workQueue' = Tail(workQueue)
      /\ UNCHANGED <<nextOperation, drawn, cancelled, doomed, life, last>>
  BY <1>1 DEF Pop, history
<1>3. /\ workQueue \in Seq(Works) /\ Len(workQueue) \in Nat \ {0}
      /\ w = workQueue[1] /\ w \in Works /\ w # NoWork
      /\ Len(workQueue') = Len(workQueue) - 1
      /\ DOMAIN workQueue' = 1 .. Len(workQueue) - 1 /\ DOMAIN workQueue = 1 .. Len(workQueue)
      /\ \A i \in DOMAIN workQueue' : workQueue'[i] = workQueue[i + 1]
  <2>1. /\ workQueue \in Seq(Works) /\ Len(workQueue) \in Nat \ {0}
        /\ w = workQueue[1] /\ w \in Works
    BY <1>1, <1>2 DEF Inv, TypeOK
  <2>2. w # NoWork
    BY <2>1, NoWorkApart
  <2> QED BY <1>2, <2>1, <2>2
<1>4. worker'.work = w /\ worker'.at = "popped" /\ worker.work = NoWork
  BY <1>2 DEF Inv, TypeOK, Workers, HoldsWork, AtRest
<1>5. ~InService /\ InService'
  BY <1>3, <1>4 DEF InService
<1>6. \A op : Queued(op) <=> Queued(op)' \/ op = w.id
  <2>1. \A i \in DOMAIN workQueue : i = 1 \/ (i - 1 \in DOMAIN workQueue' /\ i = (i - 1) + 1)
    BY <1>3
  <2>2. \A i \in DOMAIN workQueue' : i + 1 \in DOMAIN workQueue
    BY <1>3
  <2>3. 1 \in DOMAIN workQueue
    BY <1>3
  <2> QED BY <1>3, <2>1, <2>2, <2>3 DEF Queued
<1>7. \A op : Ended(op)' <=> Ended(op)
  BY <1>2, <1>4, <1>5, <1>6 DEF Ended
<1>8. EndedOps' = EndedOps /\ Asked' = Asked /\ Doomed' = Doomed
  BY <1>2, <1>7 DEF EndedOps, Asked, Doomed
<1>9. Current = None /\ Current' = w.id
  BY <1>4, <1>5 DEF Current
<1>10. /\ Ids(workQueue) # <<>> /\ w.id = Head(Ids(workQueue))
       /\ Ids(workQueue') = Tail(Ids(workQueue))
  BY <1>1, <1>2, <1>3, IdsOf
<1> QED BY <1>2, <1>8, <1>9, <1>10 DEF Flight!Begin, Ids, Current, EndedOps, Asked, Doomed

(* A task reports one outcome, and the one its cancellation allows.        *)
LEMMA ReportEnds ==
  ASSUME Inv, FlightKept, Report \/ ReportFailure
  PROVE  \E how \in Flight!Outcomes : Flight!End(how)
<1>1. PICK how \in {"completed", "cancelled", "failed"} :
        /\ worker.at \in {"returned", "thrown"} /\ Ends(how)
        /\ how = "cancelled" => Flagged
        /\ how = "completed" => ~Flagged
        /\ how = "failed" => worker.at = "thrown"
  BY DEF Report, ReportFailure
<1>2. PICK op : op = worker.work.id
  OBVIOUS
<1>3. /\ last' = [operation |-> op, kind |-> how]
      /\ worker'.work = worker.work /\ worker'.at = "ended"
      /\ UNCHANGED <<nextOperation, drawn, workQueue, cancelled, doomed, life>>
  BY <1>1, <1>2 DEF Ends, queueVars, Inv, TypeOK, Workers
<1>4. worker.work \in Works /\ worker.work # NoWork /\ InService /\ ~InService'
  BY <1>1, <1>3, NoWorkApart DEF Inv, HoldsWork, AtRest, InService
<1>5. op \in Operations /\ Current = op /\ Current' = None /\ op # None
  BY <1>2, <1>4, NoWorkApart DEF Current
<1>6. ~Ended(op)
  BY <1>2, <1>4, Stages
<1>7. \A o : Ended(o)' <=> Ended(o) \/ o = op
  <2>1. ~Queued(op) /\ \A t \in Callers : drawn[t].id # op
    <3>1. op # NoWork.id
      BY <1>5, NoWorkApart
    <3> QED BY <1>2, <1>4, <3>1, Stages DEF Inv, Apart
  <2> QED BY <1>2, <1>3, <1>4, <2>1 DEF Ended, Queued
<1>8. op \in 1 .. nextOperation - 1
  <2>1. op < nextOperation
    BY <1>2, <1>4 DEF Inv, Apart
  <2>2. op \in Nat \ {0} /\ nextOperation \in Nat
    BY <1>5, ServiceAssumption DEF Inv, TypeOK, Operations
  <2> QED BY <2>1, <2>2
<1>9. EndedOps' = EndedOps \cup {op} /\ Asked' = Asked \ {op} /\ Doomed' = Doomed \ {op}
  BY <1>3, <1>7, <1>8 DEF EndedOps, Asked, Doomed
<1>10. /\ op \in Doomed => how = "cancelled"
       /\ how = "cancelled" => op \in Asked
  <2>1. how = "cancelled" => op \in Asked
    BY <1>1, <1>2, <1>6 DEF Asked, Flagged
  <2>2. op \in Doomed => op \in cancelled /\ op \in doomed
    BY DEF Doomed, Inv, CutOff
  <2> QED BY <1>1, <1>2, <2>1, <2>2 DEF FlightKept, Flagged
<1>11. Flight!End(how)
  BY <1>3, <1>5, <1>9, <1>10 DEF Flight!End, Ids, Current, EndedOps, Asked, Doomed
<1>12. how \in Flight!Outcomes
  BY <1>1 DEF Flight!Outcomes
<1> QED BY <1>11, <1>12

(* The worker goes on with the operation it has, or on resting.            *)
Stays ==
  /\ UNCHANGED <<queueVars, events, last, life>>
  /\ worker'.work = worker.work
  /\ worker.at \notin {"ended", "forgotten"} /\ worker'.at \notin {"ended", "forgotten"}
  /\ connected =>
       \/ connected'
       \/ worker.at = "started" /\ ~Flagged /\ worker.work.kind = "disconnect"

LEMMA TasksStay ==
  ASSUME Inv,
         \/ EnterLoop \/ StopWaiting \/ Activate \/ Skip
         \/ Connect \/ Disconnect \/ Scan \/ Command
         \/ ScanEnds \/ Exchange \/ Transmit \/ Write \/ WriteFails
         \/ Answer \/ PollAgain \/ NoAnswer \/ ReadFails
  PROVE  Stays
<1>1. worker \in Workers
  BY DEF Inv, TypeOK
<1>2. /\ UNCHANGED <<queueVars, events, last, life>>
      /\ worker.at \notin {"ended", "forgotten"}
  BY DEF EnterLoop, StopWaiting, Activate, Skip, Connect, Disconnect, Scan, Command,
         Starts, ScanEnds, BetweenAddresses, Exchange, Transmit, Write, WriteFails,
         Answer, PollAgain, NoAnswer, ReadFails, history
<1>3. /\ worker'.work = worker.work
      /\ worker'.at \notin {"ended", "forgotten"}
  <2>1. CASE EnterLoop \/ StopWaiting \/ Activate \/ Skip
    BY <1>1, <2>1 DEF EnterLoop, StopWaiting, Activate, Skip, Return, Workers
  <2>2. CASE Connect \/ Disconnect \/ Scan \/ Command
    BY <1>1, <2>2 DEF Connect, Disconnect, Scan, Command, Return, Throw, Workers
  <2>3. CASE ScanEnds \/ Exchange \/ Transmit \/ Write \/ WriteFails \/ ReadFails
    BY <1>1, <2>3 DEF ScanEnds, Exchange, Transmit, Write, WriteFails, ReadFails, Return,
                      Throw, Workers
  <2>4. CASE Answer \/ PollAgain \/ NoAnswer
    BY <1>1, <2>4 DEF Answer, PollAgain, NoAnswer, NextAddress, Return, Throw, Workers
  <2> QED BY <2>1, <2>2, <2>3, <2>4
<1>4. connected =>
        \/ connected'
        \/ worker.at = "started" /\ ~Flagged /\ worker.work.kind = "disconnect"
  BY DEF EnterLoop, StopWaiting, Activate, Skip, Connect, Disconnect, Scan, Command,
         Starts, ScanEnds, Exchange, Transmit, Write, WriteFails, Answer, PollAgain,
         NoAnswer, ReadFails, stateVars
<1> QED BY <1>2, <1>3, <1>4 DEF Stays

LEMMA StaysStutters == ASSUME Inv, Stays PROVE FlightState' = FlightState
<1>1. InService' = InService
  BY DEF Stays, InService
<1> QED BY <1>1, SameStages DEF Stays, queueVars

LEMMA ForgetStutters ==
  ASSUME Inv, Forget \/ Rest
  PROVE  FlightState' = FlightState
<1>1. PICK op : op = worker.work.id
  OBVIOUS
<1>2. /\ UNCHANGED <<nextOperation, drawn, workQueue, life, last>>
      /\ cancelled' = cancelled \/ cancelled' = cancelled \ {op}
      /\ doomed' = doomed \/ doomed' = doomed \ {op}
      /\ worker.at \in {"ended", "forgotten"}
  BY <1>1 DEF Forget, Rest, history
<1>3. ~InService /\ ~InService'
  <2>1. CASE Forget
    BY <2>1 DEF Forget, InService, Inv, TypeOK, Workers
  <2>2. CASE Rest
    BY <2>2 DEF Rest, Idle, InService
  <2> QED BY <2>1, <2>2
<1>4. Ended(op)
  <2>1. worker.work \in Works /\ worker.work # NoWork
    BY <1>2, NoWorkApart DEF Inv, HoldsWork, AtRest
  <2>2. op # NoWork.id
    BY <1>1, <2>1, NoWorkApart
  <2> QED BY <1>1, <1>3, <2>1, <2>2 DEF Ended, Queued, Inv, Apart
<1>5. \A o : ~Ended(o) => /\ o \in cancelled' <=> o \in cancelled
                          /\ o \in doomed' <=> o \in doomed
  BY <1>2, <1>4
<1>6. InService' = InService
  BY <1>3 DEF InService
<1> QED BY <1>2, <1>3, <1>5, <1>6, SameStages

LEMMA FlightStep == Inv /\ FlightKept /\ [Next]_vars => [Flight!Next]_(Flight!vars)
<1> SUFFICES ASSUME Inv, FlightKept, [Next]_vars
             PROVE  Flight!Next \/ FlightState' = FlightState
  BY Stutters
<1>1. CASE CallerStep
  <2>1. CASE \E t \in Callers : Push(t)
    BY <2>1, PushQueues DEF Flight!Next
  <2>2. CASE \E t \in Callers, call \in Calls : Draw(t, call)
    BY <2>2, DrawStutters
  <2>3. CASE \E op \in Operations : Cancel(op)
    BY <2>3, CancelCancels DEF Flight!Next
  <2>4. CASE DrainEvents
    <3>1. UNCHANGED <<queueVars, worker, life, last>>
      BY <2>4 DEF DrainEvents, history
    <3> QED BY <3>1, SameStages DEF queueVars, InService
  <2> QED BY <1>1, <2>1, <2>2, <2>3, <2>4 DEF CallerStep
<1>2. CASE WorkerStep
  <2>1. CASE Pop
    BY <2>1, PopBegins DEF Flight!Next
  <2>2. CASE Report \/ ReportFailure
    BY <2>2, ReportEnds DEF Flight!Next
  <2>3. CASE Forget \/ Rest
    BY <2>3, ForgetStutters
  <2> QED BY <1>2, <2>1, <2>2, <2>3, TasksStay, StaysStutters DEF WorkerStep
<1>3. CASE RequestStop
  <2>1. life = "up" /\ life' = "stopping" /\ UNCHANGED <<queueVars, worker, last>>
    BY <1>3 DEF RequestStop, history
  <2>2. \A op : Ended(op)' <=> Ended(op)
    BY <2>1 DEF Ended, Queued, InService, queueVars
  <2>3. EndedOps' = EndedOps /\ Asked' = Asked /\ Doomed' = Doomed /\ Current' = Current
    BY <2>1, <2>2 DEF EndedOps, Asked, Doomed, Current, InService, queueVars
  <2>4. Flight!Close
    BY <2>1, <2>3 DEF Flight!Close, EndedOps, Asked, Doomed, Current, queueVars
  <2> QED BY <2>4 DEF Flight!Next
<1>4. CASE Close
  <2>1. life = "stopping" /\ life' = "gone" /\ UNCHANGED <<queueVars, worker, last>>
    BY <1>4 DEF Close, history
  <2> QED BY <2>1, SameStages DEF queueVars, InService
<1>5. CASE UNCHANGED vars
  <2>1. UNCHANGED <<queueVars, worker, life, last>>
    BY <1>5 DEF vars, history
  <2> QED BY <2>1, SameStages DEF queueVars, InService
<1> QED BY <1>1, <1>2, <1>3, <1>4, <1>5 DEF Next

(* Operations run one at a time and in order, each ends once, with the     *)
(* outcome its cancellation allows (enqueue, workerLoop, cancel): the      *)
(* service implements the initial states and steps of SingleFlight.        *)
THEOREM QueueIsSingleFlight ==
  Spec => Flight!Init /\ [][Flight!Next]_(Flight!vars)
<1>1. Init => Flight!Init
  BY DEF Init, Idle, Flight!Init, InService, Ended
<1> QED BY <1>1, FlightStep, FlightInvariance, PTL DEF Spec
=============================================================================
