----------------------------- MODULE SingleFlight -----------------------------
(***************************************************************************)
(* What the work queue of ControllerService promises, without threads: the *)
(* "fila single-flight" of README.md.  Operations run one at a time, in    *)
(* the order they were queued; each ends once, with one outcome; one that  *)
(* was cancelled while it waited ends cancelled, and none ends cancelled   *)
(* that nobody cancelled.  As long as the service lives every operation    *)
(* that was queued ends.                                                   *)
(***************************************************************************)
EXTENDS Sequences

CONSTANTS
  Operations,   (* identifiers of operations                               *)
  None          (* no operation, no outcome                                *)

Outcomes == {"completed", "cancelled", "failed"}

VARIABLES
  waiting,      (* operations queued, in order                             *)
  current,      (* the operation that runs                                 *)
  ended,        (* operations that ended,                                  *)
  last,         (* and how the last of them did                            *)
  asked,        (* operations somebody cancelled before they ended         *)
  doomed,       (* those of them that were still waiting                   *)
  closing       (* the service is being destroyed                          *)

vars == <<waiting, current, ended, last, asked, doomed, closing>>

Waits(op) == \E i \in DOMAIN waiting : waiting[i] = op

Init ==
  /\ waiting = <<>> /\ current = None
  /\ ended = {} /\ last = None
  /\ asked = {} /\ doomed = {} /\ closing = FALSE

Queue(op) ==
  /\ ~Waits(op) /\ current # op /\ op \notin ended
  /\ waiting' = Append(waiting, op)
  /\ UNCHANGED <<current, ended, last, asked, doomed, closing>>

Cancel(op) ==
  /\ Waits(op) \/ current = op
  /\ asked' = asked \cup {op}
  /\ doomed' = IF Waits(op) THEN doomed \cup {op} ELSE doomed
  /\ UNCHANGED <<waiting, current, ended, last, closing>>

Begin ==
  /\ current = None /\ waiting # <<>>
  /\ current' = Head(waiting) /\ waiting' = Tail(waiting)
  /\ UNCHANGED <<ended, last, asked, doomed, closing>>

End(how) ==
  /\ current # None
  /\ current \in doomed => how = "cancelled"
  /\ how = "cancelled" => current \in asked
  /\ ended' = ended \cup {current}
  /\ last' = [operation |-> current, kind |-> how]
  /\ current' = None /\ asked' = asked \ {current} /\ doomed' = doomed \ {current}
  /\ UNCHANGED <<waiting, closing>>

(* What still waits when the service is destroyed need not run. *)
Close ==
  closing' = TRUE /\ UNCHANGED <<waiting, current, ended, last, asked, doomed>>

Next ==
  \/ \E op \in Operations : Queue(op) \/ Cancel(op)
  \/ Begin
  \/ \E how \in Outcomes : End(how)
  \/ Close

Fairness ==
  /\ WF_vars(~closing /\ Begin)
  /\ WF_vars(\E how \in Outcomes : End(how))

Spec == Init /\ [][Next]_vars /\ Fairness
=============================================================================
