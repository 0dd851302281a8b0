----------------------------- MODULE PersistentStore -----------------------------
(***************************************************************************)
(* What the configuration store of the STM32 promises its caller: at any   *)
(* moment one payload, or none, would be loaded.  A save that returns true *)
(* has replaced it; a save that fails, or that a power loss cuts short,    *)
(* leaves the old payload or the new one.  Two things weaken the promise:  *)
(* a full sector is wiped before the save, and an erase that did not       *)
(* finish may bring any payload saved before back until the next erase.    *)
(* FlashJournal implements it.                                             *)
(***************************************************************************)
CONSTANTS
  Payloads,    (* what may be saved *)
  None

VARIABLES
  stored,      (* what a load would return                              *)
  saving,      (* the payload of the call that runs, None between calls *)
  returned,    (* how the last call ended                               *)
  past,        (* every payload that was stored at some time            *)
  scarred      (* an erase was cut short and none has finished since    *)

vars == <<stored, saving, returned, past, scarred>>

Init ==
  /\ stored = None /\ saving = None /\ returned = "nothing"
  /\ past = {} /\ scarred = FALSE

Begin(p) ==
  /\ saving = None
  /\ saving' = p /\ returned' = "nothing"
  /\ UNCHANGED <<stored, past, scarred>>

(* The new payload is stored; the caller hears of it unless power is lost. *)
Commit ==
  /\ saving # None
  /\ stored' = saving /\ past' = past \cup {saving}
  /\ saving' = None /\ returned' \in {"ok", "power lost"}
  /\ UNCHANGED scarred

(* The old payload, or none after a wipe, is what remains. *)
Abort ==
  /\ saving # None
  /\ saving' = None /\ returned' \in {"failed", "power lost"}
  /\ UNCHANGED <<stored, past, scarred>>

(* Every slot is taken: the old payload goes before the new one comes. *)
Wipe ==
  /\ saving # None
  /\ stored' = None /\ scarred' = FALSE
  /\ UNCHANGED <<saving, returned, past>>

(* The erase does not finish. *)
Scar ==
  /\ saving # None
  /\ stored' \in past \cup {None} /\ scarred' = TRUE
  /\ saving' = None /\ returned' \in {"failed", "power lost"}
  /\ UNCHANGED past

(* With the remains of records in the sector the words a save programs     *)
(* need not be the words it reads back: an old payload may return, and a   *)
(* save may return true and be lost.                                       *)
Muddle ==
  /\ saving # None /\ scarred
  /\ stored' \in past \cup {None}
  /\ \/ UNCHANGED <<saving, returned>>
     \/ saving' = None /\ returned' \in {"ok", "failed", "power lost"}
  /\ past' \in {past, past \cup {saving}}
  /\ UNCHANGED scarred

Next == (\E p \in Payloads : Begin(p)) \/ Commit \/ Abort \/ Wipe \/ Scar
          \/ Muddle

Spec == Init /\ [][Next]_vars
=============================================================================
