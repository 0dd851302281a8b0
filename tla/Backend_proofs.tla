---------------------------- MODULE Backend_proofs ----------------------------
(***************************************************************************)
(* Proofs about Backend: the controller is not destroyed under a scan, and *)
(* what a call of wait returns is what became of its own operation, for    *)
(* any number of operations and addresses.  Both threads may be in calls   *)
(* at once, and each may take the events of the other: what carries the    *)
(* argument is that no identifier is drawn twice from one controller, so   *)
(* that an event for the operation of a call tells of that operation, and  *)
(* that the future is joined before the controller goes.                   *)
(***************************************************************************)
EXTENDS Backend, ControllerService_proofs, WellFoundedInduction

Places  == {"none", "queueing", "storing", "waiting", "settled"}
Fates   == {"completed", "cancelled", "failed", None}
CallRecords == [at : Places, op : Operations \cup {None},
                answer : Fates \cup {"timeout"}, fate : Fates]

(* The GUI thread in a call that disables the window, and in all it does   *)
(* while no future runs; the call of a diagnosis is not one of them.       *)
Calling == {"calling", "calling, closing"}
Alone   == {"replacing", "connecting", "disconnecting", "disconnecting, closing",
            "closing", "closed"} \cup Calling
Running == {"scanning", "waiting"}

(* Work nobody has reported an end of. *)
Pending(w) ==
  /\ w # NoWork
  /\ \/ \E t \in Callers : w = drawn[t]
     \/ \E i \in DOMAIN workQueue : w = workQueue[i]
     \/ InService /\ w = worker.work
Over(op) == \A w \in Works : Pending(w) => w.id # op

CallsTyped ==
  /\ call \in [Threads -> CallRecords]
  /\ todo \subseteq Addresses

(* A call has an operation of its own, and work drawn for it while it is   *)
(* about to queue it.                                                      *)
CallShape ==
  \A t \in Threads :
    /\ call[t].at = "none" => call[t] = NoCall
    /\ call[t].at # "none" =>
         /\ call[t].op \in Operations /\ call[t].op < nextOperation
         /\ \A u \in Threads : call[u].op = call[t].op => u = t
    /\ call[t].at # "settled" => call[t].answer = None
    /\ IF call[t].at = "queueing" THEN drawn[t].id = call[t].op ELSE drawn[t] = NoWork

(* The call of a thread is the one its program is in.  Without a           *)
(* controller nothing is connected; one that is no longer up is replaced,  *)
(* or the window is closed.                                                *)
Turns ==
  /\ call["gui"].at # "none" => gui \in Calling \cup {"diagnosing"}
  /\ call["future"].at # "none" => future \in Running
  /\ gui \in Alone => future = "none"
  /\ future # "none" => connected
  /\ life # "up" => \/ gui \in {"replacing", "closed"}
                    \/ life = "gone" /\ ~connected
Gone == life = "gone" => worker.at = "stopped"

(* What was reported is over, was reported once, and is the fate of the    *)
(* call that asked for it.                                                 *)
Reported ==
  /\ \A i \in DOMAIN events :
       /\ events[i].operation < nextOperation /\ Over(events[i].operation)
       /\ \A t \in Threads :
            call[t].op = events[i].operation => call[t].fate = events[i].kind
  /\ \A t \in Threads : call[t].fate # None => Over(call[t].op)

(* An operation has a flag from its place in the queue to its end.         *)
Known ==
  /\ \A i \in DOMAIN workQueue : workQueue[i].id \in cancellation
  /\ InService => worker.work.id \in cancellation

(* Work nobody waits for any more was cancelled; only the GUI thread asks  *)
(* for a disconnect, when no future runs.                                  *)
Awaited(w) ==
  \/ w.id \in cancelled
  \/ \E t \in Threads :
       /\ call[t].op = w.id /\ call[t].at \notin {"none", "settled"}
       /\ w.kind = "disconnect" => t = "gui" /\ gui \in Calling
AllAwaited == \A w \in Works : Pending(w) => Awaited(w)

CallInv ==
  /\ CallsTyped /\ CallShape /\ Turns /\ Gone
  /\ Reported /\ Known /\ AllAwaited /\ AnswerIsOwn

-----------------------------------------------------------------------------
LEMMA LeastNatural ==
  ASSUME NEW T, T \subseteq Nat, T # {}
  PROVE  \E n \in T : \A m \in T : n <= m
<1> DEFINE Less == OpToRel(<, Nat)
<1>1. IsWellFoundedOn(Less, Nat)
  BY NatLessThanWellFounded
<1>2. \A x, y \in Nat : x < y => <<x, y>> \in Less
  BY DEF OpToRel
<1> HIDE DEF Less
<1>3. PICK n \in T : \A m \in T : ~(<<m, n>> \in Less)
  BY <1>1, WFMin
<1>4. ASSUME NEW m \in T PROVE n <= m
  <2>1. ~(m < n)
    BY <1>2, <1>3
  <2> QED BY <2>1
<1> QED BY <1>3, <1>4

LEMMA ThreadsCall == Callers = Threads /\ "gui" \in Threads /\ "future" \in Threads
BY BackendAssumption DEF Threads

LEMMA PendingWork ==
  ASSUME Inv, NEW w, Pending(w)
  PROVE  w \in Works /\ w.id \in Nat /\ w.id \in Operations /\ w.id < nextOperation
<1>1. w \in Works
  BY DEF Pending, Inv, TypeOK, Workers, InService
<1>2. w.id < nextOperation
  BY DEF Pending, Inv, Apart, InService
<1> QED BY <1>1, <1>2, NoWorkApart

LEMMA EndedTyped ==
  ASSUME Inv
  PROVE  /\ nextOperation \in Nat
         /\ \A i \in DOMAIN events : events[i] \in Endings
         /\ \A e \in Endings :
              /\ e.operation \in Nat /\ e.operation \in Operations
              /\ e.kind \in Fates
<1>1. Operations \subseteq Nat /\ nextOperation \in Nat
  BY ServiceAssumption DEF Inv, TypeOK, Operations
<1>2. \A i \in DOMAIN events : events[i] \in Endings
  BY DEF Inv, TypeOK
<1>3. \A e \in Endings :
        /\ e.operation \in Nat /\ e.operation \in Operations
        /\ e.kind \in Fates
  BY <1>1 DEF Endings, Fates
<1> QED BY <1>1, <1>2, <1>3

LEMMA CallTyped ==
  ASSUME CallInv, NEW t \in Threads
  PROVE  call[t] \in CallRecords /\ todo \subseteq Addresses
BY DEF CallInv, CallsTyped

LEMMA NoCallTyped ==
  /\ NoCall \in CallRecords
  /\ NoCall.at = "none" /\ NoCall.op = None /\ NoCall.answer = None /\ NoCall.fate = None
BY DEF NoCall, CallRecords, Places, Fates

-----------------------------------------------------------------------------
(* The steps of the service. *)

LEMMA WorkerRuns ==
  ASSUME Inv, WorkerStep PROVE worker.at # "stopped"
BY DEF WorkerStep, EnterLoop, Pop, StopWaiting, Activate, Skip, Connect, Disconnect,
       Scan, Command, Starts, ScanEnds, BetweenAddresses, Exchange, Transmit, Write,
       WriteFails, Answer, PollAgain, NoAnswer, ReadFails, Report, ReportFailure,
       Forget, Rest

(* A step after which no more work waits than before, and that tells of no *)
(* end, changes nothing of what the calls rely on.                         *)
LEMMA CallsKept ==
  ASSUME Inv, CallInv,
         UNCHANGED <<nextOperation, drawn, events, call, todo, gui, future>>,
         life # "gone", life' = life \/ (life = "stopping" /\ life' = "gone"),
         \A w \in Works : Pending(w)' =>
           Pending(w) /\ (w.id \in cancelled => w.id \in cancelled'),
         Known', Gone',
         connected => connected' \/ future = "none"
  PROVE  CallInv'
<1>1. CallsTyped' /\ CallShape' /\ Turns'
  BY DEF CallInv, CallsTyped, CallShape, Turns
<1>2. \A op : Over(op) => Over(op)'
  BY DEF Over
<1>3. Reported' /\ AnswerIsOwn'
  BY <1>2 DEF CallInv, Reported, AnswerIsOwn
<1>4. AllAwaited'
  BY DEF CallInv, AllAwaited, Awaited
<1> QED BY <1>1, <1>3, <1>4 DEF CallInv

(* Only a disconnect the GUI thread still waits for ends a connection, and *)
(* then no future runs.                                                    *)
LEMMA StaysKept ==
  ASSUME Inv, CallInv, Stays, life # "gone", UNCHANGED <<call, todo, gui, future>>
  PROVE  CallInv'
<1>1. /\ UNCHANGED <<nextOperation, drawn, workQueue, cancellation, cancelled,
                     events, last, life>>
      /\ worker'.work = worker.work /\ worker.at \notin {"ended", "forgotten"}
  BY DEF Stays, queueVars
<1>2. InService' => InService
  BY <1>1 DEF InService
<1>3. \A w \in Works : Pending(w)' => Pending(w)
  BY <1>1, <1>2 DEF Pending
<1>4. Known' /\ Gone'
  BY <1>1, <1>2 DEF CallInv, Known, Gone
<1>5. connected => connected' \/ future = "none"
  <2> SUFFICES ASSUME worker.at = "started", ~Flagged, worker.work.kind = "disconnect"
               PROVE  future = "none"
    BY DEF Stays
  <2>1. worker.work \in Works /\ worker.work # NoWork
    BY NoWorkApart DEF Inv, HoldsWork, AtRest
  <2>2. Pending(worker.work)
    BY <2>1 DEF Pending, InService
  <2>3. Awaited(worker.work)
    BY <2>1, <2>2 DEF CallInv, AllAwaited
  <2>4. gui \in Calling
    BY <2>3 DEF Awaited, Flagged
  <2> QED BY <2>4 DEF CallInv, Turns, Alone
<1> QED BY <1>1, <1>3, <1>4, <1>5, CallsKept

LEMMA PopKept ==
  ASSUME Inv, CallInv, Pop, life # "gone", UNCHANGED <<call, todo, gui, future>>
  PROVE  CallInv'
<1> DEFINE w == Head(workQueue)
<1>1. /\ worker.at = "waiting" /\ workQueue # <<>>
      /\ worker' = [worker EXCEPT !.at = "popped", !.work = w]
      /\ workQueue' = Tail(workQueue)
      /\ UNCHANGED <<nextOperation, drawn, cancellation, cancelled, connected,
                     events, life, last>>
  BY DEF Pop, stateVars, history
<1>2. /\ workQueue \in Seq(Works) /\ Len(workQueue) \in Nat \ {0}
      /\ w = workQueue[1] /\ w \in Works
      /\ workQueue' \in Seq(Works) /\ Len(workQueue') = Len(workQueue) - 1
      /\ \A i \in DOMAIN workQueue' : workQueue'[i] = workQueue[i + 1]
  BY <1>1 DEF Inv, TypeOK
<1>3. /\ 1 \in DOMAIN workQueue
      /\ \A i \in DOMAIN workQueue' : i + 1 \in DOMAIN workQueue /\ i \in Nat \ {0}
  BY <1>2
<1>4. worker'.work = w /\ worker'.at = "popped"
  BY <1>1 DEF Inv, TypeOK, Workers
<1> HIDE DEF w
<1>5. \A x \in Works : Pending(x)' => Pending(x)
  BY <1>1, <1>2, <1>3, <1>4 DEF Pending
<1>6. Known' /\ Gone'
  BY <1>1, <1>2, <1>3, <1>4 DEF CallInv, Known, Gone
<1> QED BY <1>1, <1>5, <1>6, CallsKept

LEMMA ForgetKept ==
  ASSUME Inv, CallInv, Forget \/ Rest, life # "gone", UNCHANGED <<call, todo, gui, future>>
  PROVE  CallInv'
<1>1. /\ UNCHANGED <<nextOperation, drawn, workQueue, connected, events, life, last>>
      /\ worker.at \in {"ended", "forgotten"}
      /\ cancelled \ {worker.work.id} \subseteq cancelled'
      /\ cancellation \ {worker.work.id} \subseteq cancellation'
  BY DEF Forget, Rest, stateVars, history
<1>2. ~InService /\ ~InService'
  <2>1. CASE Forget
    BY <2>1 DEF Forget, InService, Inv, TypeOK, Workers
  <2>2. CASE Rest
    BY <2>2 DEF Rest, Idle, InService
  <2> QED BY <2>1, <2>2
<1>3. \A i \in DOMAIN workQueue : workQueue[i].id # worker.work.id
  BY DEF Inv, Apart
<1>4. \A x \in Works : Pending(x)' => Pending(x) /\ x.id # worker.work.id
  BY <1>1, <1>2, <1>3 DEF Pending, Inv, Apart
<1>5. Known' /\ Gone'
  BY <1>1, <1>2, <1>3 DEF CallInv, Known, Gone
<1> QED BY <1>1, <1>4, <1>5, CallsKept

(* An operation that ends was pending, so that nothing was reported of it  *)
(* before; the call that asked for it learns its fate.                     *)
LEMMA EndsKept ==
  ASSUME Inv, CallInv, Report \/ ReportFailure, ServiceStep, life # "gone"
  PROVE  CallInv'
<1> DEFINE Later(o) == \A w \in Works : Pending(w)' => w.id # o
<1>1. PICK how \in {"completed", "cancelled", "failed"} :
        worker.at \in {"returned", "thrown"} /\ Ends(how)
  BY DEF Report, ReportFailure
<1>2. PICK op : op = worker.work.id
  OBVIOUS
<1>3. /\ last' = [operation |-> op, kind |-> how]
      /\ events' = Append(events, last')
      /\ UNCHANGED <<nextOperation, drawn, workQueue, cancellation, cancelled,
                     connected, life>>
      /\ UNCHANGED <<todo, gui, future>>
  BY <1>1, <1>2 DEF Ends, queueVars, stateVars, ServiceStep, windowVars
<1>4. worker'.work = worker.work /\ worker'.at = "ended" /\ ~InService'
  BY <1>1 DEF Ends, Inv, TypeOK, Workers, InService
<1>5. worker.work \in Works /\ worker.work # NoWork /\ InService
  BY <1>1, NoWorkApart DEF Inv, HoldsWork, AtRest, InService
<1>6. Pending(worker.work)
  BY <1>5 DEF Pending
<1>7. op \in Nat /\ op \in Operations /\ op < nextOperation /\ op # None
  BY <1>2, <1>5, <1>6, PendingWork, NoWorkApart
<1>8. ~Over(op)
  BY <1>2, <1>5, <1>6 DEF Over
<1>9. last'.operation = op /\ last'.kind = how
  BY <1>3
<1>10. /\ DOMAIN events' = 1 .. Len(events) + 1 /\ Len(events) \in Nat
       /\ \A i \in DOMAIN events : events'[i] = events[i]
       /\ DOMAIN events = 1 .. Len(events)
       /\ events'[Len(events) + 1] = last'
       /\ events' # events
  <2>1. events \in Seq(Endings) /\ last' \in Endings
    BY <1>3, <1>7 DEF Endings, Inv, TypeOK
  <2> QED BY <1>3, <2>1
<1>11. \A w \in Works : Pending(w)' => Pending(w) /\ w.id # op
  <2>1. \A i \in DOMAIN workQueue : workQueue[i].id # op
    BY <1>2 DEF Inv, Apart
  <2>2. \A t \in Callers : drawn[t] # NoWork => drawn[t].id # op
    BY <1>2 DEF Inv, Apart
  <2> QED BY <1>3, <1>4, <2>1, <2>2 DEF Pending
<1>12. Later(op) /\ \A o : Over(o) => Later(o) /\ o # op
  BY <1>8, <1>11 DEF Over
<1> HIDE DEF Later
<1>13. PICK n : n = [t \in Threads |-> IF call[t].op = op
                       THEN [call[t] EXCEPT !.fate = how] ELSE call[t]]
  OBVIOUS
<1>14. call' = n
  BY <1>9, <1>10, <1>13 DEF ServiceStep, Fated
<1>15. \A t \in Threads :
         /\ call'[t].at = call[t].at /\ call'[t].op = call[t].op
         /\ call'[t].answer = call[t].answer
         /\ call'[t].fate = IF call[t].op = op THEN how ELSE call[t].fate
         /\ call'[t] \in CallRecords
         /\ call[t].op # op => call'[t] = call[t]
  <2> SUFFICES ASSUME NEW t \in Threads
               PROVE  /\ call'[t].at = call[t].at /\ call'[t].op = call[t].op
                      /\ call'[t].answer = call[t].answer
                      /\ call'[t].fate = IF call[t].op = op THEN how ELSE call[t].fate
                      /\ call'[t] \in CallRecords
                      /\ call[t].op # op => call'[t] = call[t]
    OBVIOUS
  <2>1. call'[t] = IF call[t].op = op THEN [call[t] EXCEPT !.fate = how] ELSE call[t]
    BY <1>13, <1>14
  <2>2. call[t] \in CallRecords /\ how \in Fates
    BY CallTyped DEF Fates
  <2> QED BY <2>1, <2>2 DEF CallRecords
<1>16. CallsTyped'
  <2>1. \A t \in Threads : n[t] \in CallRecords
    BY <1>14, <1>15
  <2>2. n \in [Threads -> CallRecords]
    BY <1>13, <2>1
  <2> QED BY <1>3, <1>14, <2>2 DEF CallInv, CallsTyped
<1>17. CallShape' /\ Turns'
  <2>1. \A t \in Threads : call[t].at = "none" => call[t].op # op
    BY <1>7, NoCallTyped DEF CallInv, CallShape
  <2>2. CallShape'
    BY <1>3, <1>15, <2>1 DEF CallInv, CallShape
  <2>3. Turns'
    BY <1>3, <1>15, ThreadsCall DEF CallInv, Turns
  <2> QED BY <2>2, <2>3
<1>18. Reported'
  <2>1. \A i \in DOMAIN events' :
          /\ events'[i].operation < nextOperation' /\ Later(events'[i].operation)
          /\ \A t \in Threads :
               call'[t].op = events'[i].operation => call'[t].fate = events'[i].kind
    <3> SUFFICES ASSUME NEW i \in DOMAIN events'
                 PROVE  /\ events'[i].operation < nextOperation'
                        /\ Later(events'[i].operation)
                        /\ \A t \in Threads :
                             call'[t].op = events'[i].operation =>
                               call'[t].fate = events'[i].kind
      OBVIOUS
    <3>1. CASE i \in DOMAIN events
      <4>1. events'[i] = events[i] /\ Over(events[i].operation)
            /\ events[i].operation < nextOperation
        BY <1>10, <3>1 DEF CallInv, Reported
      <4>2. events[i].operation # op /\ Later(events[i].operation)
        BY <1>12, <4>1
      <4> QED BY <1>3, <1>15, <3>1, <4>1, <4>2 DEF CallInv, Reported
    <3>2. CASE i = Len(events) + 1
      BY <1>3, <1>7, <1>9, <1>10, <1>12, <1>15, <3>2
    <3> QED BY <1>10, <3>1, <3>2
  <2>2. \A t \in Threads : call'[t].fate # None => Later(call'[t].op)
    BY <1>12, <1>15 DEF CallInv, Reported
  <2> USE DEF Later
  <2> QED BY <2>1, <2>2 DEF Reported, Over
<1>19. AnswerIsOwn'
  <2>1. \A t \in Threads : call[t].op = op => call[t].fate = None
    BY <1>8 DEF CallInv, Reported
  <2> QED BY <1>15, <2>1 DEF CallInv, AnswerIsOwn
<1>20. Known' /\ Gone'
  BY <1>3, <1>4 DEF CallInv, Known, Gone
<1>21. AllAwaited'
  BY <1>3, <1>11, <1>15 DEF CallInv, AllAwaited, Awaited
<1> QED BY <1>16, <1>17, <1>18, <1>19, <1>20, <1>21 DEF CallInv

(* Without an event no call learns its fate. *)
LEMMA SameFates ==
  ASSUME CallInv, ServiceStep, UNCHANGED events PROVE UNCHANGED <<call, todo, gui, future>>
<1>1. call' = [t \in Threads |-> call[t]]
  BY DEF ServiceStep, Fated
<1> QED BY <1>1 DEF CallInv, CallsTyped, ServiceStep, windowVars

LEMMA ServiceKept ==
  ASSUME Inv, CallInv, ServiceStep
  PROVE  CallInv'
<1>1. life # "gone"
  BY WorkerRuns DEF ServiceStep, Close, CallInv, Gone
<1>2. CASE Close
  <2>1. /\ UNCHANGED <<nextOperation, drawn, workQueue, cancellation, cancelled,
                       worker, connected, events>>
        /\ life = "stopping" /\ life' = "gone" /\ worker.at = "stopped"
    BY <1>2 DEF Close, queueVars
  <2>2. \A w \in Works : Pending(w)' => Pending(w)
    BY <2>1 DEF Pending, InService
  <2>3. Known' /\ Gone'
    BY <2>1 DEF CallInv, Known, InService, Gone
  <2>4. UNCHANGED <<call, todo, gui, future>>
    BY <2>1, SameFates
  <2> QED BY <1>1, <2>1, <2>2, <2>3, <2>4, CallsKept
<1>3. CASE Report \/ ReportFailure
  BY <1>1, <1>3, EndsKept
<1>4. CASE Pop \/ Forget \/ Rest
  <2>1. UNCHANGED <<call, todo, gui, future>>
    BY <1>4, SameFates DEF Pop, Forget, Rest
  <2> QED BY <1>1, <1>4, <2>1, PopKept, ForgetKept
<1>5. CASE Stays
  <2>1. UNCHANGED <<call, todo, gui, future>>
    BY <1>5, SameFates DEF Stays
  <2> QED BY <1>1, <1>5, <2>1, StaysKept
<1> QED BY <1>2, <1>3, <1>4, <1>5, TasksStay DEF ServiceStep, WorkerStep

-----------------------------------------------------------------------------
(* The calls of the two threads. *)

(* A thread asks, whatever the other does: its operation is one nobody has *)
(* heard of.                                                               *)
LEMMA AskKept ==
  ASSUME Inv, CallInv, NEW t \in Threads, NEW what, Ask(t, what), what \in Calls,
         what.kind = "disconnect" => t = "gui" /\ gui' \in Calling,
         t = "future" => gui' = gui,
         todo' \subseteq Addresses, Turns'
  PROVE  CallInv'
<1> DEFINE Later(o) == \A x \in Works : Pending(x)' => x.id # o
<1>0. PICK w, c :
        /\ w = [id |-> nextOperation, kind |-> what.kind, address |-> what.address]
        /\ c = [NoCall EXCEPT !.at = "queueing", !.op = nextOperation]
  OBVIOUS
<1>1. /\ life = "up" /\ nextOperation \in Operations /\ nextOperation \in Nat
      /\ nextOperation' = nextOperation + 1
      /\ drawn' = [drawn EXCEPT ![t] = w] /\ drawn[t] = NoWork
      /\ call' = [call EXCEPT ![t] = c] /\ call[t].at = "none"
      /\ UNCHANGED <<workQueue, cancellation, cancelled, worker, events, life>>
  BY <1>0, EndedTyped DEF Ask, Draw
<1>2. w \in Works /\ w.id = nextOperation /\ w.kind = what.kind /\ w # NoWork
  <2>1. w \in Works /\ w.id = nextOperation /\ w.kind = what.kind
    BY <1>0, <1>1 DEF Works, Calls
  <2> QED BY <2>1, NoWorkApart
<1>3. /\ c.at = "queueing" /\ c.op = nextOperation /\ c.answer = None /\ c.fate = None
      /\ c \in CallRecords
  BY <1>0, <1>1 DEF NoCall, CallRecords, Places, Fates
<1>4. /\ \A u \in Threads : drawn'[u] = IF u = t THEN w ELSE drawn[u]
      /\ \A u \in Threads : call'[u] = IF u = t THEN c ELSE call[u]
      /\ call' \in [Threads -> CallRecords]
  <2>1. drawn \in [Threads -> Works \cup {NoWork}]
    BY ThreadsCall DEF Inv, TypeOK
  <2> QED BY <1>1, <1>3, <2>1 DEF CallInv, CallsTyped
<1>5. \A x \in Works : Pending(x)' => x = w \/ (Pending(x) /\ x.id < nextOperation)
  <2>1. \A x \in Works : Pending(x)' => x = w \/ Pending(x)
    BY <1>1, <1>4, ThreadsCall DEF Pending, InService
  <2> QED BY <2>1, PendingWork
<1>6. \A u \in Threads :
        \/ call[u].op \in Operations /\ call[u].op \in Nat /\ call[u].op < nextOperation
        \/ call[u] = NoCall
  <2>1. Operations \subseteq Nat
    BY ServiceAssumption DEF Operations
  <2> QED BY <2>1 DEF CallInv, CallShape
<1>7. \A u \in Threads : call[u].op # nextOperation
  BY <1>1, <1>6, NoCallTyped, NoWorkApart
<1>8. CallsTyped' /\ CallShape'
  <2>1. CallsTyped'
    BY <1>4 DEF CallsTyped
  <2>2. call'[t].op \in Operations /\ call'[t].op < nextOperation' /\ drawn'[t].id = call'[t].op
    BY <1>1, <1>2, <1>3, <1>4
  <2>3. \A u \in Threads : u # t /\ call[u].at # "none" =>
          call'[u].op \in Operations /\ call'[u].op < nextOperation'
    BY <1>1, <1>4, <1>6, NoCallTyped
  <2>4. \A u, v \in Threads : call'[u].at # "none" /\ call'[v].op = call'[u].op => v = u
    BY <1>3, <1>4, <1>7 DEF CallInv, CallShape
  <2> QED BY <1>3, <1>4, <2>1, <2>2, <2>3, <2>4 DEF CallInv, CallShape
<1>9. Known' /\ Gone'
  BY <1>1 DEF CallInv, Known, Gone, InService
<1>10. Reported'
  <2>1. \A o \in Nat : o < nextOperation /\ Over(o) =>
          Later(o) /\ o # nextOperation /\ o < nextOperation'
    BY <1>1, <1>2, <1>5 DEF Over
  <2> HIDE DEF Later
  <2>2. \A i \in DOMAIN events :
          /\ Later(events[i].operation) /\ events[i].operation # nextOperation
          /\ events[i].operation < nextOperation'
    BY <2>1, EndedTyped DEF CallInv, Reported
  <2>3. \A i \in DOMAIN events : \A u \in Threads :
          call'[u].op = events[i].operation => call'[u].fate = events[i].kind
    BY <1>3, <1>4, <2>2 DEF CallInv, Reported
  <2>4. \A u \in Threads : call'[u].fate # None => Later(call'[u].op)
    BY <1>3, <1>4, <1>6, <2>1, NoCallTyped DEF CallInv, Reported
  <2> USE DEF Later
  <2> QED BY <1>1, <2>2, <2>3, <2>4 DEF Reported, Over
<1> HIDE DEF Later
<1>11. AllAwaited'
  <2>1. Awaited(w)'
    BY <1>2, <1>3, <1>4 DEF Awaited
  <2>2. ASSUME NEW x \in Works, Pending(x), x.id \notin cancelled PROVE Awaited(x)'
    <3>1. PICK u \in Threads :
            /\ call[u].op = x.id /\ call[u].at \notin {"none", "settled"}
            /\ x.kind = "disconnect" => u = "gui" /\ gui \in Calling
      BY <2>2 DEF CallInv, AllAwaited, Awaited
    <3>2. u # t
      BY <1>1, <3>1
    <3>3. u = "gui" => t = "future"
      BY <3>2 DEF Threads
    <3> QED BY <1>4, <3>1, <3>2, <3>3 DEF Awaited
  <2> QED BY <1>1, <1>5, <2>1, <2>2 DEF AllAwaited, Awaited
<1>12. AnswerIsOwn'
  BY <1>3, <1>4 DEF CallInv, AnswerIsOwn
<1> QED BY <1>8, <1>9, <1>10, <1>11, <1>12 DEF CallInv

LEMMA QueueKept ==
  ASSUME Inv, CallInv, NEW t \in Threads, Queue(t) PROVE CallInv'
<1> DEFINE w == drawn[t]
           Later(o) == \A x \in Works : Pending(x)' => x.id # o
<1>1. /\ call[t].at = "queueing" /\ w # NoWork
      /\ workQueue' = Append(workQueue, w)
      /\ cancellation' = cancellation \cup {w.id}
      /\ drawn' = [drawn EXCEPT ![t] = NoWork]
      /\ call' = [call EXCEPT ![t].at = "storing"]
      /\ UNCHANGED <<nextOperation, cancelled, worker, connected, events, life,
                     todo, gui, future>>
  BY DEF Queue, Push, stateVars, history, windowVars
<1>2. w \in Works /\ workQueue \in Seq(Works) /\ drawn \in [Threads -> Works \cup {NoWork}]
  BY <1>1, ThreadsCall DEF Inv, TypeOK
<1>3. /\ DOMAIN workQueue' = 1 .. Len(workQueue) + 1 /\ DOMAIN workQueue = 1 .. Len(workQueue)
      /\ \A i \in DOMAIN workQueue : workQueue'[i] = workQueue[i]
      /\ workQueue'[Len(workQueue) + 1] = w /\ Len(workQueue) \in Nat
  BY <1>1, <1>2
<1>4. /\ \A u \in Threads : drawn'[u] = IF u = t THEN NoWork ELSE drawn[u]
      /\ call'[t].at = "storing" /\ call'[t].op = call[t].op
      /\ call'[t].answer = call[t].answer /\ call'[t].fate = call[t].fate
      /\ \A u \in Threads : u # t => call'[u] = call[u]
      /\ call' \in [Threads -> CallRecords]
  BY <1>1, <1>2 DEF CallInv, CallsTyped, CallRecords, Places
<1> HIDE DEF w
<1>5. \A x \in Works : Pending(x)' => Pending(x)
  <2>1. Pending(w)
    BY <1>1, ThreadsCall DEF Pending, w
  <2> QED BY <1>1, <1>3, <1>4, <2>1, ThreadsCall DEF Pending, InService
<1>6. CallsTyped' /\ CallShape'
  BY <1>1, <1>4 DEF CallInv, CallsTyped, CallShape
<1>7. Turns' /\ Gone'
  BY <1>1, <1>4 DEF CallInv, Turns, Gone
<1>8. Known'
  BY <1>1, <1>3 DEF CallInv, Known, InService
<1>9. Reported'
  <2>1. \A o : Over(o) => Later(o)
    BY <1>5 DEF Over
  <2> HIDE DEF Later
  <2>2. \A u \in Threads : call'[u].op = call[u].op /\ call'[u].fate = call[u].fate
    BY <1>4
  <2>3. \A i \in DOMAIN events :
          /\ events[i].operation < nextOperation /\ Later(events[i].operation)
          /\ \A u \in Threads :
               call'[u].op = events[i].operation => call'[u].fate = events[i].kind
    BY <2>1, <2>2 DEF CallInv, Reported
  <2>4. \A u \in Threads : call'[u].fate # None => Later(call'[u].op)
    BY <2>1, <2>2 DEF CallInv, Reported
  <2> USE DEF Later
  <2> QED BY <1>1, <2>3, <2>4 DEF Reported, Over
<1> HIDE DEF Later
<1>10. AnswerIsOwn'
  BY <1>4 DEF CallInv, AnswerIsOwn
<1>11. AllAwaited'
  <2> SUFFICES ASSUME NEW x \in Works, Pending(x) PROVE Awaited(x)'
    BY <1>5 DEF AllAwaited
  <2>1. Awaited(x)
    BY DEF CallInv, AllAwaited
  <2> QED BY <1>1, <1>4, <2>1 DEF Awaited
<1> QED BY <1>6, <1>7, <1>8, <1>9, <1>10, <1>11 DEF CallInv

(* A step of one thread in its call: it goes on, is settled or returns.    *)
LEMMA CallGoes ==
  ASSUME Inv, CallInv, NEW t \in Threads, NEW c,
         c \in CallRecords, call' = [call EXCEPT ![t] = c],
         call[t].at \notin {"none", "queueing"}, c.at # "queueing",
         IF c.at = "none" THEN c = NoCall
                          ELSE c.op = call[t].op /\ c.fate = call[t].fate,
         c.at # "settled" => c.answer = None,
         c.answer \in {None, "timeout", c.fate},
         UNCHANGED <<nextOperation, drawn, workQueue, cancellation, worker, life>>,
         events' = events \/ events' = <<>>,
         cancelled \subseteq cancelled',
         \/ c.at \notin {"none", "settled"}
         \/ call[t].at = "settled"
         \/ \A w \in Works : Pending(w) /\ w.id = call[t].op => w.id \in cancelled',
         gui' = gui \/ (t = "gui" /\ call[t].at = "settled"),
         todo' \subseteq Addresses, Turns'
  PROVE  CallInv'
<1> DEFINE Later(o) == \A w \in Works : Pending(w)' => w.id # o
<1>1. \A u \in Threads : call'[u] = IF u = t THEN c ELSE call[u]
  BY DEF CallInv, CallsTyped
<1>2. CallsTyped' /\ CallShape'
  <2>1. call' \in [Threads -> CallRecords]
    BY DEF CallInv, CallsTyped
  <2>2. \A u \in Threads : call[u].op = None \/ call[u].op \in Operations
    BY CallTyped DEF CallRecords
  <2>3. \A u, v \in Threads : call'[u].at # "none" /\ call'[v].op = call'[u].op => v = u
    <3>1. c.at = "none" => c.op = None
      BY NoCallTyped
    <3>2. \A u \in Threads : call'[u].at # "none" =>
            call[u].at # "none" /\ call'[u].op = call[u].op /\ call[u].op # None
      BY <1>1, NoWorkApart DEF CallInv, CallShape
    <3>3. \A v \in Threads : call'[v].op = call[v].op \/ call'[v].op = None
      BY <1>1, <3>1
    <3> QED BY <3>2, <3>3 DEF CallInv, CallShape
  <2> QED BY <1>1, <2>1, <2>3 DEF CallInv, CallsTyped, CallShape
<1>3. \A w : Pending(w)' <=> Pending(w)
  BY DEF Pending, InService
<1>4. Known' /\ Gone'
  BY DEF CallInv, Known, Gone, InService
<1>5. Reported'
  <2>1. \A i \in DOMAIN events' :
          /\ i \in DOMAIN events /\ events'[i] = events[i]
    OBVIOUS
  <2>2. \A o : Over(o) => Later(o)
    BY <1>3 DEF Over
  <2> HIDE DEF Later
  <2>3. \A i \in DOMAIN events : events[i].operation # None
    BY EndedTyped, NoWorkApart
  <2>4. \A i \in DOMAIN events' : \A u \in Threads :
          call'[u].op = events'[i].operation => call'[u].fate = events'[i].kind
    BY <1>1, <2>1, <2>3, NoCallTyped DEF CallInv, Reported
  <2>5. \A u \in Threads : call'[u].fate # None => Later(call'[u].op)
    BY <1>1, <2>2, NoCallTyped DEF CallInv, Reported
  <2>6. \A i \in DOMAIN events' :
          events'[i].operation < nextOperation' /\ Later(events'[i].operation)
    BY <2>1, <2>2 DEF CallInv, Reported
  <2> USE DEF Later
  <2> QED BY <2>4, <2>5, <2>6 DEF Reported, Over
<1> HIDE DEF Later
<1>6. AnswerIsOwn'
  BY <1>1 DEF CallInv, AnswerIsOwn
<1>7. AllAwaited'
  <2> SUFFICES ASSUME NEW w \in Works, Pending(w), w.id \notin cancelled'
               PROVE  Awaited(w)'
    BY <1>3 DEF AllAwaited, Awaited
  <2>1. PICK u \in Threads :
          /\ call[u].op = w.id /\ call[u].at \notin {"none", "settled"}
          /\ w.kind = "disconnect" => u = "gui" /\ gui \in Calling
    BY DEF CallInv, AllAwaited, Awaited
  <2>2. call'[u].op = w.id /\ call'[u].at \notin {"none", "settled"}
    BY <1>1, <2>1
  <2>3. w.kind = "disconnect" => gui' = gui
    BY <2>1
  <2> QED BY <2>1, <2>2, <2>3 DEF Awaited
<1> QED BY <1>2, <1>4, <1>5, <1>6, <1>7 DEF CallInv

(* A step of the window, which does not touch a call.                      *)
LEMMA WindowKept ==
  ASSUME Inv, CallInv,
         UNCHANGED <<nextOperation, drawn, workQueue, cancellation, worker, events, call>>,
         cancelled \subseteq cancelled', life' = life \/ life' # "gone",
         gui \in Calling => gui' \in Calling, todo' \subseteq Addresses, Turns'
  PROVE  CallInv'
<1>1. \A w : Pending(w)' <=> Pending(w)
  BY DEF Pending, InService
<1>2. CallsTyped' /\ CallShape'
  BY DEF CallInv, CallsTyped, CallShape
<1>3. Known' /\ Gone' /\ Reported' /\ AllAwaited' /\ AnswerIsOwn'
  BY <1>1 DEF CallInv, Known, Gone, InService, Reported, Over, AllAwaited, Awaited,
              AnswerIsOwn
<1> QED BY <1>2, <1>3 DEF CallInv

LEMMA StoreKept ==
  ASSUME Inv, CallInv, NEW t \in Threads, Store(t)
  PROVE  CallInv'
<1>1. /\ call[t].at = "storing" /\ call' = [call EXCEPT ![t].at = "waiting"]
      /\ UNCHANGED <<service, windowVars>>
  BY DEF Store
<1>2. PICK c : c = [call[t] EXCEPT !.at = "waiting"]
  OBVIOUS
<1>3. call' = [call EXCEPT ![t] = c]
  BY <1>1, <1>2
<1>4. /\ c \in CallRecords /\ c.at = "waiting" /\ c.op = call[t].op
      /\ c.answer = call[t].answer /\ c.fate = call[t].fate
  BY <1>2, CallTyped DEF CallRecords, Places
<1>5. c.answer = None
  BY <1>1, <1>4 DEF CallInv, CallShape
<1>6. /\ UNCHANGED <<nextOperation, drawn, workQueue, cancellation, cancelled, worker,
                     events, life, connected, gui, future>>
      /\ todo' \subseteq Addresses
  BY <1>1, CallTyped DEF service, vars, queueVars, stateVars, windowVars
<1>7. Turns'
  BY <1>1, <1>3, <1>6 DEF CallInv, CallsTyped, Turns
<1> QED BY <1>1, <1>3, <1>4, <1>5, <1>6, <1>7, CallGoes

(* The events of the operation of a call tell its fate.                    *)
LEMMA DrainKept ==
  ASSUME Inv, CallInv, NEW t \in Threads, Drain(t)
  PROVE  CallInv'
<1> DEFINE own == {i \in DOMAIN events : events[i].operation = call[t].op}
<1>1. /\ call[t].at = "waiting" /\ events' = <<>>
      /\ UNCHANGED <<nextOperation, drawn, workQueue, cancellation, cancelled, worker,
                     life, connected, gui, future>>
      /\ todo' \subseteq Addresses
  BY CallTyped DEF Drain, DrainEvents, queueVars, stateVars, windowVars
<1>2. CASE own = {}
  <2>1. call' = call
    BY <1>2 DEF Drain
  <2>2. PICK c : c = call[t]
    OBVIOUS
  <2>3. call' = [call EXCEPT ![t] = c]
    BY <2>1, <2>2 DEF CallInv, CallsTyped
  <2>4. c \in CallRecords
    BY <2>2, CallTyped
  <2>5. c.at = "waiting" /\ c.op = call[t].op /\ c.answer = None /\ c.fate = call[t].fate
    BY <1>1, <2>2 DEF CallInv, CallShape
  <2>6. Turns'
    BY <1>1, <2>1 DEF CallInv, Turns
  <2> QED BY <1>1, <2>3, <2>4, <2>5, <2>6, CallGoes
<1>3. CASE own # {}
  <2>1. PICK i \in own : \A j \in own : i <= j
    <3>1. own \subseteq Nat
      BY DEF Inv, TypeOK
    <3> HIDE DEF own
    <3> QED BY <1>3, <3>1, LeastNatural
  <2>2. PICK n : n = CHOOSE k \in own : \A j \in own : k <= j
    OBVIOUS
  <2>3. n \in own
    <3> HIDE DEF own
    <3> QED BY <2>1, <2>2
  <2>4. PICK c : c = [call[t] EXCEPT !.at = "settled", !.answer = events[n].kind]
    OBVIOUS
  <2>5. call' = [call EXCEPT ![t] = c]
    <3>1. call' = [call EXCEPT ![t].at = "settled", ![t].answer = events[n].kind]
      BY <1>3, <2>2 DEF Drain, Settles
    <3> QED BY <2>4, <3>1 DEF CallInv, CallsTyped
  <2>6. events[n].operation = call[t].op /\ events[n].kind \in Fates
    BY <2>3, EndedTyped
  <2>7. /\ c \in CallRecords /\ c.at = "settled" /\ c.op = call[t].op
        /\ c.answer = events[n].kind /\ c.fate = call[t].fate
    BY <2>4, <2>6, CallTyped DEF CallRecords, Places
  <2>8. c.answer = c.fate /\ Over(call[t].op)
    BY <2>3, <2>6, <2>7 DEF CallInv, Reported
  <2>9. \A w \in Works : Pending(w) => w.id # call[t].op
    BY <2>8 DEF Over
  <2>10. Turns'
    BY <1>1, <2>5 DEF CallInv, CallsTyped, Turns
  <2> QED BY <1>1, <2>5, <2>7, <2>8, <2>9, <2>10, CallGoes
<1> QED BY <1>2, <1>3

LEMMA CancelIfKnownCancels ==
  ASSUME Inv, NEW op, CancelIfKnown(op)
  PROVE  /\ UNCHANGED <<nextOperation, drawn, workQueue, cancellation, worker, events,
                        life, connected>>
         /\ cancelled \subseteq cancelled'
         /\ op \in cancellation => op \in cancelled'
BY DEF CancelIfKnown, Cancel, service, vars, queueVars, stateVars

(* An operation that is given up has ended, or is cancelled.               *)
LEMMA DeadlineKept ==
  ASSUME Inv, CallInv, NEW t \in Threads, Deadline(t)
  PROVE  CallInv'
<1>1. /\ call[t].at = "waiting" /\ CancelIfKnown(call[t].op)
      /\ call' = [call EXCEPT ![t].at = "settled", ![t].answer = "timeout"]
      /\ UNCHANGED <<gui, future>> /\ todo' \subseteq Addresses
  BY CallTyped DEF Deadline, Settles, windowVars
<1>2. /\ UNCHANGED <<nextOperation, drawn, workQueue, cancellation, worker, events,
                     life, connected>>
      /\ cancelled \subseteq cancelled'
      /\ call[t].op \in cancellation => call[t].op \in cancelled'
  BY <1>1, CancelIfKnownCancels
<1>3. PICK c : c = [call[t] EXCEPT !.at = "settled", !.answer = "timeout"]
  OBVIOUS
<1>4. call' = [call EXCEPT ![t] = c]
  BY <1>1, <1>3 DEF CallInv, CallsTyped
<1>5. /\ c \in CallRecords /\ c.at = "settled" /\ c.op = call[t].op
      /\ c.answer = "timeout" /\ c.fate = call[t].fate
  BY <1>3, CallTyped DEF CallRecords, Places
<1>6. \A u \in Threads : drawn[u] = NoWork \/ drawn[u].id # call[t].op
  BY <1>1 DEF CallInv, CallShape
<1>7. \A w \in Works : Pending(w) /\ w.id = call[t].op => w.id \in cancellation
  BY <1>6, ThreadsCall DEF Pending, CallInv, Known
<1>8. Turns'
  <2>1. \A u \in Threads : call'[u].at # "none" => call[u].at # "none"
    BY <1>1, <1>4 DEF CallInv, CallsTyped
  <2> QED BY <1>1, <1>2, <2>1, ThreadsCall DEF CallInv, Turns
<1> QED BY <1>1, <1>2, <1>4, <1>5, <1>7, <1>8, CallGoes

LEMMA ReturnKept ==
  ASSUME Inv, CallInv, NEW t \in Threads, Returns(t), UNCHANGED service,
         gui' = gui \/ t = "gui", todo' \subseteq Addresses, Turns'
  PROVE  CallInv'
<1>1. /\ call[t].at = "settled" /\ call' = [call EXCEPT ![t] = NoCall]
      /\ UNCHANGED <<nextOperation, drawn, workQueue, cancellation, cancelled, worker,
                     events, life>>
  BY DEF Returns, service, vars, queueVars
<1> QED BY <1>1, NoCallTyped, CallGoes

-----------------------------------------------------------------------------
(* The GUI thread and the future. *)

LEMMA SameService ==
  ASSUME UNCHANGED service
  PROVE  /\ UNCHANGED <<nextOperation, drawn, workQueue, cancellation, cancelled, worker,
                        events, life, connected, devices>>
         /\ cancelled \subseteq cancelled'
BY DEF service, vars, queueVars, stateVars, listing

(* Who is alone, or idle, is in no call.                                   *)
LEMMA Resting ==
  ASSUME CallInv
  PROVE  /\ gui \notin Calling \cup {"diagnosing"} => call["gui"].at = "none"
         /\ future \notin Running => call["future"].at = "none"
         /\ gui \in Alone => future = "none"
         /\ life # "up" => gui \in {"replacing", "closed"} \/ (life = "gone" /\ ~connected)
         /\ ~connected => future = "none"
BY DEF CallInv, Turns

LEMMA WindowStepsKept ==
  ASSUME Inv, CallInv,
         \/ PressScan \/ FinishScan \/ PressCancel \/ PressDisconnect \/ CloseWindow
         \/ Join \/ (gui \in {"idle", "disconnecting, closing"}
                       /\ \E next \in {"crashed", "closing"} :
                            GuiGoes(next) /\ (next = "closing" => gui # "idle"))
         \/ (future = "refreshing" /\ FutureGoes("done"))
  PROVE  CallInv'
<1>1. UNCHANGED <<service, call, todo>>
  BY DEF PressScan, FinishScan, PressCancel, PressDisconnect, CloseWindow, LoadCurrent,
         Join, GuiGoes, FutureGoes
<1>2. /\ UNCHANGED <<nextOperation, drawn, workQueue, cancellation, cancelled, worker,
                     events, life, connected>>
      /\ cancelled \subseteq cancelled'
  BY <1>1, SameService
<1>3. todo' \subseteq Addresses
  BY <1>1 DEF CallInv, CallsTyped
<1>4. /\ gui \notin Calling \cup {"diagnosing"} \/ gui' = gui
      /\ future \notin Running \/ future' \in Running
      /\ gui' \in Alone => future' = "none"
      /\ future' # "none" => connected
      /\ gui \notin {"replacing", "closed"} \/ gui' = gui
  <2>1. CASE PressScan \/ FinishScan
    BY <2>1, Resting DEF PressScan, FinishScan, Running, Alone, Calling
  <2>2. CASE PressCancel \/ PressDisconnect \/ CloseWindow
    BY <2>2, Resting
       DEF PressCancel, PressDisconnect, CloseWindow, LoadCurrent, Running, Alone, Calling
  <2>3. CASE Join
    BY <2>3, Resting DEF Join, Running, Alone, Calling
  <2>4. CASE gui \in {"idle", "disconnecting, closing"}
               /\ \E next \in {"crashed", "closing"} :
                    GuiGoes(next) /\ (next = "closing" => gui # "idle")
    BY <2>4, Resting DEF GuiGoes, Running, Alone, Calling
  <2>5. CASE future = "refreshing" /\ FutureGoes("done")
    BY <2>5, Resting DEF FutureGoes, Running, Alone, Calling
  <2> QED BY <2>1, <2>2, <2>3, <2>4, <2>5
<1>5. Turns'
  BY <1>1, <1>2, <1>4 DEF CallInv, Turns
<1> QED BY <1>1, <1>2, <1>3, <1>4, <1>5, WindowKept

LEMMA CancelLoadedKept == ASSUME Inv, CallInv, CancelLoaded PROVE CallInv'
<1>1. /\ CancelIfKnown(loaded) /\ UNCHANGED <<call, todo, future>>
      /\ gui \in {"cancelling", "cancelling, disconnecting", "cancelling, closing"}
      /\ gui' \in {"idle", "joining, disconnecting", "joining, closing"}
  BY DEF CancelLoaded
<1>2. /\ UNCHANGED <<nextOperation, drawn, workQueue, cancellation, worker, events,
                     life, connected>>
      /\ cancelled \subseteq cancelled'
  BY <1>1, CancelIfKnownCancels
<1>3. todo' \subseteq Addresses
  BY <1>1 DEF CallInv, CallsTyped
<1>4. Turns'
  BY <1>1, <1>2, Resting DEF CallInv, Turns, Alone, Calling
<1> QED BY <1>1, <1>2, <1>3, <1>4, WindowKept DEF Calling

(* The two ways to the end of a controller. *)
LEMMA DestroyKept ==
  ASSUME Inv, CallInv, PressConnect \/ DestroyController PROVE CallInv'
<1>1. /\ Reset /\ UNCHANGED <<call, todo, future>>
      /\ \/ gui = "idle" /\ ~connected /\ gui' = "replacing"
         \/ gui = "closing" /\ gui' = "closed"
  BY DEF PressConnect, DestroyController
<1>2. /\ UNCHANGED <<nextOperation, drawn, workQueue, cancellation, cancelled, worker,
                     events, connected>>
      /\ life' = life \/ life' # "gone"
  BY <1>1, SameService DEF Reset, RequestStop, queueVars, stateVars, service, vars
<1>3. todo' \subseteq Addresses
  BY <1>1 DEF CallInv, CallsTyped
<1>4. call["gui"].at = "none" /\ future = "none"
  BY <1>1, Resting DEF Alone, Calling
<1>5. Turns'
  BY <1>1, <1>2, <1>4 DEF CallInv, Turns, Running
<1> QED BY <1>1, <1>2, <1>3, <1>5, WindowKept DEF Calling

LEMMA NewControllerKept ==
  ASSUME CallInv, NewController PROVE CallInv'
<1>1. /\ nextOperation' = 1 /\ drawn' = [t \in Callers |-> NoWork]
      /\ workQueue' = <<>> /\ worker' = Idle /\ events' = <<>> /\ life' = "up"
      /\ gui = "replacing" /\ gui' = "connecting" /\ UNCHANGED <<call, future, todo>>
  BY DEF NewController
<1>2. \A t \in Threads : call[t] = NoCall
  <2>1. call["gui"].at = "none" /\ call["future"].at = "none"
    BY <1>1, Resting DEF Alone, Calling, Running
  <2> QED BY <2>1, ThreadsCall DEF Threads, CallInv, CallShape
<1>3. \A w : ~Pending(w)'
  BY <1>1 DEF Pending, InService, Idle
<1>4. CallsTyped' /\ Turns'
  BY <1>1, <1>2, Resting, NoCallTyped, ThreadsCall DEF CallInv, CallsTyped, Turns, Alone
<1>5. CallShape'
  BY <1>1, <1>2, NoCallTyped, ThreadsCall DEF CallShape
<1>6. Known' /\ Gone'
  BY <1>1 DEF Known, Gone, InService, Idle
<1>7. Reported' /\ AllAwaited' /\ AnswerIsOwn'
  BY <1>1, <1>2, <1>3, NoCallTyped DEF Reported, AllAwaited, AnswerIsOwn
<1> QED BY <1>4, <1>5, <1>6, <1>7 DEF CallInv

Diagnoses == \E a \in Addresses : GuiAsks(CommandTo(a), "diagnosing")
GuiAsksStep ==
  \/ AskConnect \/ PressCommand \/ (gui = "idle" /\ Diagnoses)
  \/ (AskDisconnect /\ ~GuiGoes("closing"))

LEMMA GuiAsksCall ==
  ASSUME Inv, CallInv, GuiAsksStep
  PROVE  \E what \in Calls :
        /\ Ask("gui", what) /\ UNCHANGED <<future, todo>>
        /\ gui \notin {"replacing", "closed"}
        /\ \/ gui' \in Calling /\ future = "none"
           \/ gui' = "diagnosing" /\ what.kind # "disconnect"
<1>1. /\ Plain("connect") \in Calls /\ Plain("disconnect") \in Calls
      /\ \A a \in Addresses : CommandTo(a) \in Calls /\ CommandTo(a).kind # "disconnect"
  BY DEF Plain, CommandTo, Calls
<1>2. CASE AskConnect
  BY <1>1, <1>2, Resting DEF AskConnect, GuiAsks, Calling, Alone
<1>3. CASE PressCommand
  BY <1>1, <1>3 DEF PressCommand, GuiAsks, Calling
<1>4. CASE AskDisconnect /\ ~GuiGoes("closing")
  BY <1>1, <1>4, Resting DEF AskDisconnect, GuiAsks, Calling, Alone
<1>5. CASE gui = "idle" /\ Diagnoses
  BY <1>1, <1>5 DEF Diagnoses, GuiAsks
<1> QED BY <1>2, <1>3, <1>4, <1>5 DEF GuiAsksStep

LEMMA GuiAsksKept ==
  ASSUME Inv, CallInv, GuiAsksStep
  PROVE  CallInv'
<1>1. PICK what \in Calls :
        /\ Ask("gui", what) /\ UNCHANGED <<future, todo>>
        /\ gui \notin {"replacing", "closed"}
        /\ \/ gui' \in Calling /\ future = "none"
           \/ gui' = "diagnosing" /\ what.kind # "disconnect"
  BY GuiAsksCall
<1>2. /\ UNCHANGED <<life, connected>> /\ life = "up"
      /\ call'["future"] = call["future"]
  BY <1>1, ThreadsCall DEF Ask, Draw, stateVars, CallInv, CallsTyped
<1>3. Turns'
  BY <1>1, <1>2 DEF CallInv, Turns, Alone, Calling
<1>4. todo' \subseteq Addresses
  BY <1>1 DEF CallInv, CallsTyped
<1>5. what.kind = "disconnect" => gui' \in Calling
  BY <1>1
<1> QED BY <1>1, <1>3, <1>4, <1>5, ThreadsCall, AskKept

LEMMA FutureAsksCall ==
  ASSUME Inv, CallInv, BeginScan \/ (RefreshAlarms /\ ~FutureGoes("done"))
  PROVE  \E what \in Calls :
        /\ Ask("future", what) /\ what.kind # "disconnect"
        /\ future' \in Running /\ gui' = gui
        /\ future # "none" /\ todo' \subseteq todo
<1>1. CASE BeginScan
  <2>1. Plain("scan") \in Calls /\ Plain("scan").kind # "disconnect"
    BY DEF Plain, Calls
  <2> QED BY <1>1, <2>1 DEF BeginScan, FutureAsks, Running
<1>2. CASE RefreshAlarms /\ ~FutureGoes("done")
  <2>1. todo # {} /\ todo \subseteq Addresses /\ todo \subseteq Nat
    BY <1>2, ServiceAssumption DEF RefreshAlarms, CallInv, CallsTyped, Addresses
  <2>2. PICK b \in todo : \A y \in todo : b <= y
    BY <2>1, LeastNatural
  <2>3. PICK a : a = CHOOSE x \in todo : \A y \in todo : x <= y
    OBVIOUS
  <2>4. a \in Addresses
    BY <2>1, <2>2, <2>3
  <2>5. CommandTo(a) \in Calls /\ CommandTo(a).kind # "disconnect"
    BY <2>4 DEF CommandTo, Calls
  <2>6. /\ FutureAsks(CommandTo(a), "waiting") /\ todo' = todo \ {a}
        /\ future = "refreshing"
    BY <1>2, <2>3 DEF RefreshAlarms
  <2> QED BY <2>5, <2>6 DEF FutureAsks, Running
<1> QED BY <1>1, <1>2

LEMMA FutureAsksKept ==
  ASSUME Inv, CallInv, BeginScan \/ (RefreshAlarms /\ ~FutureGoes("done"))
  PROVE  CallInv'
<1>1. PICK what \in Calls :
        /\ Ask("future", what) /\ what.kind # "disconnect"
        /\ future' \in Running /\ gui' = gui
        /\ future # "none" /\ todo' \subseteq todo
  BY FutureAsksCall
<1>2. /\ UNCHANGED <<life, connected>> /\ gui \notin Alone
      /\ call'["gui"] = call["gui"]
  BY <1>1, Resting, ThreadsCall DEF Ask, Draw, stateVars, CallInv, CallsTyped
<1>3. Turns'
  BY <1>1, <1>2 DEF CallInv, Turns
<1>4. todo' \subseteq Addresses
  BY <1>1 DEF CallInv, CallsTyped
<1> QED BY <1>1, <1>3, <1>4, ThreadsCall, AskKept

LEMMA ReturnsKept ==
  ASSUME Inv, CallInv, CallReturns \/ ScanReturns \/ AlarmsReturn
  PROVE  CallInv'
<1>1. PICK t \in Threads :
        /\ Returns(t) /\ UNCHANGED service
        /\ todo' = todo \/ todo' = devices
        /\ \/ /\ t = "gui" /\ UNCHANGED future
              /\ \/ gui \in {"calling", "diagnosing"} /\ gui' = "idle"
                 \/ gui = "calling, closing" /\ gui' = "closing"
           \/ /\ t = "future" /\ future \in Running /\ UNCHANGED gui
              /\ future' \in {"refreshing", "done"}
  BY ThreadsCall DEF CallReturns, ScanReturns, AlarmsReturn, Running
<1>2. UNCHANGED <<life, connected>>
  BY <1>1, SameService
<1>3. todo' \subseteq Addresses
  BY <1>1 DEF CallInv, CallsTyped, Inv, TypeOK
<1>4. call' = [call EXCEPT ![t] = NoCall] /\ NoCall.at = "none"
  BY <1>1, NoCallTyped DEF Returns
<1>5. /\ call'[t].at = "none"
      /\ \A u \in Threads : u # t => call'[u] = call[u]
  BY <1>4 DEF CallInv, CallsTyped
<1>6. Turns'
  <2>1. CASE t = "gui"
    <3>1. call'["gui"].at = "none" /\ call'["future"].at = call["future"].at
      BY <1>5, <2>1, ThreadsCall
    <3> QED BY <1>1, <1>2, <2>1, <3>1 DEF CallInv, Turns, Alone, Calling
  <2>2. CASE t = "future"
    <3>1. gui \notin Alone /\ call'["gui"].at = call["gui"].at /\ connected
          /\ call'["future"].at = "none" /\ gui' = gui
      BY <1>1, <1>5, <2>2, Resting, ThreadsCall DEF Running
    <3> QED BY <1>1, <1>2, <2>2, <3>1 DEF CallInv, Turns
  <2> QED BY <1>1, <2>1, <2>2
<1>7. gui' = gui \/ t = "gui"
  BY <1>1
<1> QED BY <1>1, <1>3, <1>6, <1>7, ReturnKept

-----------------------------------------------------------------------------
LEMMA NoControllerInv == NoController => Inv
<1> SUFFICES ASSUME NoController PROVE Inv
  OBVIOUS
<1>1. /\ worker \in Workers /\ worker.at = "stopped" /\ worker.work = NoWork
      /\ worker.setup = FALSE
  BY DEF NoController, Idle, Workers
<1>2. nextOperation \in 1 .. MaxOperations + 1
  BY ServiceAssumption DEF NoController
<1>3. workQueue \in Seq(Works) /\ events \in Seq(Endings) /\ DOMAIN workQueue = {}
  BY DEF NoController
<1>4. \A t \in Callers : drawn[t] = NoWork
  BY DEF NoController
<1>5. TypeOK
  BY <1>1, <1>2, <1>3 DEF NoController, TypeOK
<1>6. ListedAnswered /\ HoldsWork /\ TaskConnected /\ CutOff
  BY <1>1 DEF NoController, ListedAnswered, HoldsWork, TaskConnected, CutOff, AtRest,
              OnTheBus
<1>7. Apart
  BY <1>1, <1>3, <1>4 DEF Apart
<1> QED BY <1>5, <1>6, <1>7 DEF Inv

LEMMA InitCallInv == BackendInit => CallInv
<1> SUFFICES ASSUME BackendInit PROVE CallInv
  OBVIOUS
<1>1. /\ nextOperation = 1 /\ drawn = [t \in Threads |-> NoWork] /\ ~connected
      /\ workQueue = <<>> /\ worker = [Idle EXCEPT !.at = "stopped"] /\ events = <<>>
      /\ life = "gone" /\ call = [t \in Threads |-> NoCall] /\ gui = "idle"
      /\ future = "none" /\ todo = {}
  BY ThreadsCall DEF BackendInit, NoController
<1>2. worker.at = "stopped" /\ worker.work = NoWork
  BY <1>1 DEF Idle
<1>3. \A w : ~Pending(w)
  BY <1>1, <1>2, ThreadsCall DEF Pending, InService
<1>4. CallsTyped /\ CallShape /\ Turns /\ Gone
  BY <1>1, <1>2, NoCallTyped, ThreadsCall
     DEF CallsTyped, CallShape, Turns, Gone, Alone, Calling
<1>5. Known
  BY <1>1, <1>2 DEF Known, InService
<1>6. Reported /\ AllAwaited /\ AnswerIsOwn
  BY <1>1, <1>3, NoCallTyped DEF Reported, AllAwaited, AnswerIsOwn
<1> QED BY <1>4, <1>5, <1>6 DEF CallInv

LEMMA NextCallInv == Inv /\ CallInv /\ [BackendNext]_allVars => CallInv'
<1> SUFFICES ASSUME Inv, CallInv, [BackendNext]_allVars PROVE CallInv'
  OBVIOUS
<1>1. CASE UNCHANGED allVars
  <2>1. UNCHANGED <<service, call, todo, gui, future>>
    BY <1>1 DEF allVars, windowVars
  <2>2. /\ UNCHANGED <<nextOperation, drawn, workQueue, cancellation, cancelled, worker,
                       events, life, connected>>
        /\ cancelled \subseteq cancelled'
    BY <2>1, SameService
  <2>3. Turns' /\ todo' \subseteq Addresses
    BY <2>1, <2>2 DEF CallInv, Turns, CallsTyped
  <2> QED BY <2>1, <2>2, <2>3, WindowKept
<1>2. CASE Press
  <2>1. PressDiagnostics =>
          \/ gui = "idle" /\ Diagnoses
          \/ gui = "idle" /\ GuiGoes("crashed")
    BY DEF PressDiagnostics, Diagnoses
  <2> QED BY <1>2, <2>1, DestroyKept, GuiAsksKept, WindowStepsKept DEF Press, GuiAsksStep
<1>3. CASE GuiStep
  <2>1. AskDisconnect => \/ AskDisconnect /\ ~GuiGoes("closing")
                         \/ gui = "disconnecting, closing" /\ GuiGoes("closing")
    BY DEF AskDisconnect, GuiAsks, GuiGoes
  <2> QED BY <1>3, <2>1, NewControllerKept, GuiAsksKept, WindowStepsKept,
             CancelLoadedKept, ReturnsKept, DestroyKept DEF GuiStep, GuiAsksStep
<1>4. CASE FutureStep
  <2>1. RefreshAlarms => \/ RefreshAlarms /\ ~FutureGoes("done")
                         \/ future = "refreshing" /\ FutureGoes("done")
    BY DEF RefreshAlarms
  <2> QED BY <1>4, <2>1, FutureAsksKept, ReturnsKept, WindowStepsKept DEF FutureStep
<1>5. CASE ServiceStep
  BY <1>5, ServiceKept
<1>6. CASE \E t \in Threads : WaitStep(t) \/ Deadline(t)
  BY <1>6, QueueKept, StoreKept, DrainKept, DeadlineKept DEF WaitStep
<1> QED BY <1>1, <1>2, <1>3, <1>4, <1>5, <1>6 DEF BackendNext

(* Every step of the program is one of its controller, or brings a new one *)
(* in its initial state.                                                   *)
LEMMA BackendStepsService ==
  Inv /\ CallInv /\ [BackendNext]_allVars => [Next]_vars \/ Init'
<1> SUFFICES ASSUME Inv, CallInv, [BackendNext]_allVars PROVE [Next]_vars \/ Init'
  OBVIOUS
<1>1. CASE UNCHANGED service
  BY <1>1 DEF service
<1>2. CASE NewController
  BY <1>2 DEF NewController, Init
<1>3. CASE Reset \/ ServiceStep
  BY <1>1, <1>3 DEF Reset, ServiceStep, Next
<1>4. CASE \E t \in Threads : Push(t) \/ DrainEvents
  BY <1>4, ThreadsCall DEF Next, CallerStep
<1>5. CASE \E t \in Threads, what \in Calls : Ask(t, what)
  BY <1>5, ThreadsCall DEF Ask, Next, CallerStep
<1>6. CASE \E op : CancelIfKnown(op)
  <2>1. PICK op : CancelIfKnown(op)
    BY <1>6
  <2>2. CASE op \in cancellation
    <3>1. op \in Operations
      BY <2>2 DEF Inv, TypeOK
    <3> QED BY <2>1, <2>2, <3>1 DEF CancelIfKnown, Next, CallerStep
  <2> QED BY <1>1, <2>1, <2>2 DEF CancelIfKnown
<1>7. CASE Press
  <2>1. CASE PressConnect
    BY <1>3, <2>1 DEF PressConnect
  <2>2. CASE PressCommand \/ (gui = "idle" /\ Diagnoses)
    BY <1>5, <2>2, GuiAsksCall, ThreadsCall DEF GuiAsksStep
  <2>3. CASE PressScan \/ PressCancel \/ PressDisconnect \/ CloseWindow
    BY <1>1, <2>3 DEF PressScan, PressCancel, PressDisconnect, CloseWindow, LoadCurrent
  <2>4. CASE PressDiagnostics
    BY <1>1, <2>2, <2>4 DEF PressDiagnostics, Diagnoses, GuiGoes
  <2> QED BY <1>7, <2>1, <2>2, <2>3, <2>4 DEF Press
<1>8. CASE GuiStep
  <2>1. CASE AskConnect \/ (AskDisconnect /\ ~GuiGoes("closing"))
    BY <1>5, <2>1, GuiAsksCall, ThreadsCall DEF GuiAsksStep
  <2>2. CASE FinishScan \/ Join \/ CallReturns \/ GuiGoes("closing")
    BY <1>1, <2>2 DEF FinishScan, Join, CallReturns, GuiGoes
  <2>3. CASE CancelLoaded
    BY <1>6, <2>3 DEF CancelLoaded
  <2>4. CASE DestroyController
    BY <1>3, <2>4 DEF DestroyController
  <2> QED BY <1>2, <1>8, <2>1, <2>2, <2>3, <2>4 DEF GuiStep
<1>9. CASE FutureStep
  <2>1. CASE BeginScan \/ (RefreshAlarms /\ ~FutureGoes("done"))
    BY <1>5, <2>1, FutureAsksCall, ThreadsCall
  <2>2. CASE ScanReturns \/ AlarmsReturn \/ FutureGoes("done")
    BY <1>1, <2>2 DEF ScanReturns, AlarmsReturn, FutureGoes
  <2> QED BY <1>9, <2>1, <2>2 DEF FutureStep
<1>10. CASE \E t \in Threads : WaitStep(t) \/ Deadline(t)
  <2>1. PICK t \in Threads : Queue(t) \/ Store(t) \/ Drain(t) \/ Deadline(t)
    BY <1>10 DEF WaitStep
  <2>2. CASE Queue(t) \/ Drain(t)
    BY <1>4, <2>2 DEF Queue, Drain
  <2>3. CASE Store(t)
    BY <1>1, <2>3 DEF Store
  <2>4. CASE Deadline(t)
    BY <1>6, <2>4 DEF Deadline
  <2> QED BY <2>1, <2>2, <2>3, <2>4
<1>11. CASE UNCHANGED allVars
  BY <1>1, <1>11 DEF allVars
<1> QED BY <1>3, <1>7, <1>8, <1>9, <1>10, <1>11 DEF BackendNext

LEMMA BackendInvariance == BackendSpec => [](Inv /\ CallInv)
<1>1. BackendInit => Inv
  BY NoControllerInv DEF BackendInit
<1>2. Inv /\ CallInv /\ [BackendNext]_allVars /\ (Init' => Inv') => Inv' /\ CallInv'
  BY NextInv, BackendStepsService, NextCallInv
<1> QED BY <1>1, <1>2, InitInv, InitCallInv, PTL DEF BackendSpec

-----------------------------------------------------------------------------
(* What wait returns of an operation is what became of it, in spite of     *)
(* late events of operations that timed out, and of the events of a call   *)
(* of the other thread at the same time (wait).                            *)
THEOREM AnswersAreOwn == BackendSpec => []AnswerIsOwn
<1>1. CallInv => AnswerIsOwn
  BY DEF CallInv
<1> QED BY <1>1, BackendInvariance, PTL

(* The controller is not destroyed while the future of a scan uses it,     *)
(* whatever the GUI thread called for meanwhile (connectBackend,           *)
(* disconnectBackend, ~MainWindow).                                        *)
THEOREM NoUseAfterDestruction == BackendSpec => []NotDestroyedInUse
<1>1. CallInv => NotDestroyedInUse
  BY DEF CallInv, Turns, Alone, NotDestroyedInUse
<1> QED BY <1>1, BackendInvariance, PTL
=============================================================================
