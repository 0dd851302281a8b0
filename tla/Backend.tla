-------------------------------- MODULE Backend --------------------------------
(***************************************************************************)
(* CoreBackend, src/gui/backend.cpp, and the window that drives it,        *)
(* src/gui/main_window.cpp: two threads on one ControllerService.  The GUI *)
(* thread runs one call at a time; a scan runs in a future of its own,     *)
(* while the GUI thread may cancel it, disconnect, quit, or diagnose a     *)
(* device with controls that a scan does not disable.                      *)
(*                                                                         *)
(* A call of either thread asks for an operation and waits for its event   *)
(* (wait), up to a deadline, which may pass at any time.  While both       *)
(* threads wait, each takes the events of the other and drops them.        *)
(***************************************************************************)
EXTENDS ControllerService, FiniteSets

Threads == {"gui", "future"}

ASSUME BackendAssumption == Callers = Threads

VARIABLES
  call,             (* the call of wait each thread is in, with its answer *)
                    (* and, as history, how its operation ended            *)
  currentOperation, (* currentOperation_; None is 0                        *)
  gui,              (* what the GUI thread does                            *)
  loaded,           (* the operation cancelCurrent loaded                  *)
  future,           (* what the future of the scan does                    *)
  todo,             (* addresses whose alarms scan has yet to refresh      *)
  scanCancelled     (* the user cancelled the scan, and finds the button   *)
                    (* to cancel disabled until the scan is finished       *)

service == vars
windowVars == <<gui, loaded, future, todo, scanCancelled>>
allVars == <<service, call, currentOperation, windowVars>>

NoCall == [at |-> "none", op |-> None, answer |-> None, fate |-> None]
Plain(kind) == [kind |-> kind, address |-> None]
CommandTo(a) == [kind |-> "command", address |-> a]

-----------------------------------------------------------------------------
(* A call: the operation is queued, then wait.                             *)

Ask(t, what) ==
  /\ call[t].at = "none" /\ Draw(t, what)
  /\ call' = [call EXCEPT ![t] = [NoCall EXCEPT !.at = "queueing", !.op = nextOperation]]

Queue(t) ==
  /\ call[t].at = "queueing" /\ Push(t)
  /\ call' = [call EXCEPT ![t].at = "storing"]
  /\ UNCHANGED <<currentOperation, windowVars>>

Store(t) ==
  /\ call[t].at = "storing"
  /\ currentOperation' = call[t].op
  /\ call' = [call EXCEPT ![t].at = "waiting"]
  /\ UNCHANGED <<service, windowVars>>

Settles(t, how) ==
  call' = [call EXCEPT ![t].at = "settled", ![t].answer = how]

(* Mutant of Drain: the event of another operation ends the wait. *)
DrainAny(t) ==
  /\ call[t].at = "waiting" /\ DrainEvents /\ events # <<>>
  /\ Settles(t, events[1].kind)
  /\ UNCHANGED <<currentOperation, windowVars>>

(* All events are taken; those of other operations are only logged. *)
Drain(t) ==
  /\ call[t].at = "waiting" /\ DrainEvents /\ events # <<>>
  /\ LET own == {i \in DOMAIN events : events[i].operation = call[t].op} IN
       IF own = {}
       THEN UNCHANGED call
       ELSE Settles(t, events[CHOOSE i \in own : \A j \in own : i <= j].kind)
  /\ UNCHANGED <<currentOperation, windowVars>>

(* cancel, which finds nothing when the operation has ended. *)
CancelIfKnown(op) ==
  IF op \in cancellation THEN Cancel(op) ELSE UNCHANGED service

(* Mutant of Deadline: the operation is cancelled and its end awaited. *)
DeadlineWaiting(t) ==
  /\ call[t].at = "waiting" /\ CancelIfKnown(call[t].op)
  /\ UNCHANGED <<call, currentOperation, windowVars>>

(* The deadline passes, whatever events have come since the last look. *)
Deadline(t) ==
  /\ call[t].at = "waiting" /\ CancelIfKnown(call[t].op)
  /\ Settles(t, "timeout")
  /\ UNCHANGED <<currentOperation, windowVars>>

(* wait returns, and the thread goes on. *)
Returns(t) ==
  /\ call[t].at = "settled"
  /\ currentOperation' = None
  /\ call' = [call EXCEPT ![t] = NoCall]

-----------------------------------------------------------------------------
(* The GUI thread. *)

(* Bound of the model: the user starts nothing that would run out of       *)
(* identifiers, with those that the scan still needs set aside.            *)
Needed ==
  CASE future = "starting" -> LastAddress + 1
    [] future = "scanning" -> LastAddress
    [] future \in {"refreshing", "waiting"} -> Cardinality(todo)
    [] future \in {"none", "done"} -> 0
Room(n) == nextOperation + Needed + n <= MaxOperations + 1

GuiAsks(what, next) ==
  /\ Ask("gui", what) /\ gui' = next
  /\ UNCHANGED <<currentOperation, loaded, future, todo, scanCancelled>>

GuiGoes(next) ==
  /\ gui' = next
  /\ UNCHANGED <<service, call, currentOperation, loaded, future, todo, scanCancelled>>

(* The controller is destroyed, if there is one. *)
Reset == RequestStop \/ (life = "gone" /\ UNCHANGED service)

(* connectBackend: the controller of the last connection is destroyed, *)
PressConnect ==
  /\ gui = "idle" /\ ~connected /\ Reset /\ gui' = "replacing"
  /\ UNCHANGED <<call, currentOperation, loaded, future, todo, scanCancelled>>

(* and a new one is made, with a list of operations of its own. *)
NewController ==
  /\ gui = "replacing" /\ life = "gone"
  /\ nextOperation' = 1 /\ drawn' = [t \in Callers |-> NoWork]
  /\ workQueue' = <<>> /\ cancellation' = {} /\ cancelled' = {} /\ doomed' = {}
  /\ worker' = Idle
  /\ activeWork' = FALSE /\ connected' = FALSE /\ open' = FALSE
  /\ devices' = {} /\ found' = {} /\ kept' = FALSE
  /\ events' = <<>> /\ life' = "up"
  /\ last' = None /\ frames' = 0 /\ late' = 0
  /\ gui' = "connecting"
  /\ UNCHANGED <<call, currentOperation, loaded, future, todo, scanCancelled>>

AskConnect == gui = "connecting" /\ GuiAsks(Plain("connect"), "calling")

(* The buttons of a device that updateActionState disables during a scan. *)
PressCommand ==
  /\ gui = "idle" /\ connected /\ future = "none" /\ Room(1)
  /\ \E a \in Addresses : GuiAsks(CommandTo(a), "calling")

(* The two buttons and the menu entry that it never disables: the device   *)
(* is one of a former scan, or added by hand.  Before the first connection *)
(* controller_ is null.                                                    *)
PressDiagnostics ==
  /\ gui = "idle"
  /\ \/ Room(1) /\ \E a \in Addresses : GuiAsks(CommandTo(a), "diagnosing")
     \/ life = "gone" /\ GuiGoes("crashed")

PressScan ==
  /\ gui = "idle" /\ connected /\ future = "none" /\ Room(LastAddress + 1)
  /\ future' = "starting" /\ scanCancelled' = FALSE
  /\ UNCHANGED <<service, call, currentOperation, gui, loaded, todo>>

FinishScan ==
  /\ gui = "idle" /\ future = "done" /\ future' = "none" /\ scanCancelled' = FALSE
  /\ UNCHANGED <<service, call, currentOperation, gui, loaded, todo>>

(* cancelScan, disconnectBackend and the destructor of the window begin    *)
(* with cancelCurrent, which loads the operation *)
LoadCurrent(next) ==
  /\ gui = "idle" /\ gui' = next /\ loaded' = currentOperation
  /\ UNCHANGED <<service, call, currentOperation, future, todo>>

PressCancel ==
  /\ future # "none" /\ ~scanCancelled      \* the button is disabled then
  /\ scanCancelled' = TRUE /\ LoadCurrent("cancelling")
PressDisconnect ==
  /\ connected /\ Room(1)
  /\ scanCancelled' = (scanCancelled \/ future # "none")
  /\ LoadCurrent("cancelling, disconnecting")
CloseWindow ==
  Room(1) /\ UNCHANGED scanCancelled /\ LoadCurrent("cancelling, closing")

(* and cancels it. *)
CancelLoaded ==
  /\ \/ gui = "cancelling" /\ gui' = "idle"
     \/ gui = "cancelling, disconnecting" /\ gui' = "joining, disconnecting"
     \/ gui = "cancelling, closing" /\ gui' = "joining, closing"
  /\ loaded' = None
  /\ CancelIfKnown(loaded)
  /\ UNCHANGED <<call, currentOperation, future, todo, scanCancelled>>

(* Mutant of Join: the future is left to itself. *)
JoinNobody ==
  /\ \/ gui = "joining, disconnecting" /\ gui' = "disconnecting"
     \/ gui = "joining, closing" /\ gui' = "disconnecting, closing"
  /\ UNCHANGED <<service, call, currentOperation, loaded, future, todo, scanCancelled>>

Join ==
  /\ future \in {"none", "done"} /\ future' = "none" /\ scanCancelled' = FALSE
  /\ \/ gui = "joining, disconnecting" /\ gui' = "disconnecting"
     \/ gui = "joining, closing" /\ gui' = "disconnecting, closing"
  /\ UNCHANGED <<service, call, currentOperation, loaded, todo>>

(* Only this thread disconnects, so that who pressed the button still is   *)
(* connected; the window may also be closed when nothing is.               *)
AskDisconnect ==
  \/ gui = "disconnecting" /\ GuiAsks(Plain("disconnect"), "calling")
  \/ gui = "disconnecting, closing" /\ connected
     /\ GuiAsks(Plain("disconnect"), "calling, closing")
  \/ gui = "disconnecting, closing" /\ ~connected /\ GuiGoes("closing")

CallReturns ==
  /\ Returns("gui")
  /\ \/ gui \in {"calling", "diagnosing"} /\ gui' = "idle"
     \/ gui = "calling, closing" /\ gui' = "closing"
  /\ UNCHANGED <<service, loaded, future, todo, scanCancelled>>

DestroyController ==
  /\ gui = "closing" /\ Reset /\ gui' = "closed"
  /\ UNCHANGED <<call, currentOperation, loaded, future, todo, scanCancelled>>

-----------------------------------------------------------------------------
(* The future: CoreBackend::scan. *)

FutureAsks(what, next) ==
  /\ Ask("future", what) /\ future' = next
  /\ UNCHANGED <<currentOperation, gui, loaded, scanCancelled>>

FutureGoes(next) ==
  /\ future' = next
  /\ UNCHANGED <<service, call, currentOperation, gui, loaded, todo, scanCancelled>>

(* connected() holds: the GUI thread waits for the future to disconnect.   *)
BeginScan ==
  future = "starting" /\ FutureAsks(Plain("scan"), "scanning") /\ UNCHANGED todo

(* The alarms of each device that was found, whatever comes of the last. *)
ScanReturns ==
  /\ future = "scanning" /\ Returns("future")
  /\ IF call["future"].answer = "completed"
     THEN future' = "refreshing" /\ todo' = devices
     ELSE future' = "done" /\ UNCHANGED todo
  /\ UNCHANGED <<service, gui, loaded, scanCancelled>>

RefreshAlarms ==
  \/ /\ future = "refreshing" /\ todo # {}
     /\ LET a == CHOOSE x \in todo : \A y \in todo : x <= y IN
          FutureAsks(CommandTo(a), "waiting") /\ todo' = todo \ {a}
  \/ future = "refreshing" /\ todo = {} /\ FutureGoes("done")

AlarmsReturn ==
  /\ future = "waiting" /\ Returns("future") /\ future' = "refreshing"
  /\ UNCHANGED <<service, gui, loaded, todo, scanCancelled>>

-----------------------------------------------------------------------------
(* No controller yet. *)
NoController ==
  /\ nextOperation = 1 /\ drawn = [t \in Callers |-> NoWork]
  /\ workQueue = <<>> /\ cancellation = {} /\ cancelled = {} /\ doomed = {}
  /\ worker = [Idle EXCEPT !.at = "stopped"]
  /\ activeWork = FALSE /\ connected = FALSE /\ open = FALSE
  /\ devices = {} /\ found = {} /\ kept = FALSE
  /\ events = <<>> /\ life = "gone"
  /\ last = None /\ frames = 0 /\ late = 0

BackendInit ==
  /\ NoController
  /\ call = [t \in Threads |-> NoCall] /\ currentOperation = None
  /\ gui = "idle" /\ loaded = None /\ future = "none" /\ todo = {}
  /\ scanCancelled = FALSE

WaitStep(t) == Queue(t) \/ Store(t) \/ Drain(t)

(* The user. *)
Press ==
  \/ PressConnect \/ PressCommand \/ PressDiagnostics \/ PressScan
  \/ PressCancel \/ PressDisconnect \/ CloseWindow

GuiStep ==
  \/ NewController \/ AskConnect \/ FinishScan \/ CancelLoaded \/ Join
  \/ AskDisconnect \/ CallReturns \/ DestroyController

FutureStep == BeginScan \/ ScanReturns \/ RefreshAlarms \/ AlarmsReturn

(* An event of the operation this thread asked for was added. *)
Fated(t) == events' # events /\ last'.operation = call[t].op
ServiceStep ==
  /\ WorkerStep \/ Close
  /\ call' = [t \in Threads |->
                IF Fated(t) THEN [call[t] EXCEPT !.fate = last'.kind] ELSE call[t]]
  /\ UNCHANGED <<currentOperation, windowVars>>

BackendNext ==
  \/ Press \/ GuiStep \/ FutureStep \/ ServiceStep
  \/ \E t \in Threads : WaitStep(t) \/ Deadline(t)

(* Every thread runs.  Nothing is assumed of the user, nor that a deadline *)
(* ever passes.                                                            *)
BackendFairness ==
  /\ WF_allVars(ServiceStep)
  /\ WF_allVars(GuiStep \/ WaitStep("gui"))
  /\ WF_allVars(FutureStep \/ WaitStep("future"))

BackendSpec == BackendInit /\ [][BackendNext]_allVars /\ BackendFairness

-----------------------------------------------------------------------------
(* Properties. *)

(* What wait returns of an operation is what became of it: the success of  *)
(* one operation is never reported for another, in spite of late events of *)
(* operations that timed out and of the events of the other thread (wait). *)
AnswerIsOwn ==
  \A t \in Threads : call[t].answer \in {None, "timeout", call[t].fate}

(* The controller is never destroyed under the future that uses it: every  *)
(* way to a new connection or out of the program leads past the end of the *)
(* scan (connectBackend, disconnectBackend, ~MainWindow).                  *)
NotDestroyedInUse == life # "up" => future \in {"none", "done"}

Overlap == \A t \in Threads : call[t].at # "none"
Returned ==
  /\ []<>(gui \in {"idle", "closed", "crashed"})
  /\ []<>(future = "none" \/ gui = "closed")

(* As long as the two threads are not in calls at once, the GUI thread     *)
(* always comes back from what it does, and a scan ends, even when no      *)
(* deadline ever passes: neither waits for an event that the other has     *)
(* drained, nor for a future that waits for it (wait, disconnectBackend).  *)
EveryCallReturns == ([]~Overlap) => Returned

(* Calls at once may lose the event they wait for; they, and all that      *)
(* waits for them, end nevertheless, once their deadlines pass (wait).     *)
DeadlinesRelease == (\A t \in Threads : WF_allVars(Deadline(t))) => Returned
=============================================================================
