------------------------------ MODULE FlashJournal ------------------------------
(***************************************************************************)
(* The configuration journal of the STM32, platform/stm32f4/               *)
(* ret_flash_storage.c: records appended to one flash sector, each made    *)
(* valid by a marker programmed last.  Flash is programmed word by word,   *)
(* and power may be lost before, during or after any word and any erase.   *)
(*                                                                         *)
(* A record is kept as the five words its validity rests on; format and    *)
(* payload_size are constants that go with the magic word.  A payload is   *)
(* ret_storage_payload_t, the configuration with the ADC calibration.  The *)
(* CRC of a payload is taken to be the payload itself: no two collide.  A  *)
(* torn payload may well be a configuration ret_config_is_valid accepts.   *)
(***************************************************************************)
EXTENDS Integers, Sequences

CONSTANTS
  Payloads,      (* payloads a save may be called with                      *)
  Invalid,       (* those that ret_config_is_valid refuses                  *)
  SlotCount,     (* RET_STORAGE_SLOT_COUNT                                  *)
  SequenceCount, (* sequence numbers count modulo this: 2^32                *)
  None,          (* no slot, no payload, no save                            *)
  Blank,         (* an erased word, 0xFFFFFFFF                              *)
  Torn           (* any other word that nobody meant to write               *)

Slots == 1 .. SlotCount
SequenceNumbers == 0 .. SequenceCount - 1

(* The locals of storage_save, and the next word it programs. *)
Saves == [payload : Payloads, slot : Slots \cup {None}, word : 1 .. 5,
          sequence : SequenceNumbers, before : Payloads \cup {None}]

ASSUME JournalAssumption ==
  /\ Invalid \subseteq Payloads
  /\ SlotCount \in Nat /\ SlotCount >= 2          \* the _Static_assert
  /\ SequenceCount \in Nat /\ 2 * SlotCount < SequenceCount
  /\ {None, Blank, Torn} \cap (Payloads \cup SequenceNumbers) = {}
  /\ Blank # Torn /\ {Blank, Torn} \cap {"RET2", "VALI"} = {}
  /\ None \notin Saves

VARIABLES
  flash,         (* the sector: a record per slot                           *)
  save,          (* the call of storage_save that runs, None between calls  *)
  returned,      (* history: how the last call ended                        *)
  confirmed,     (* history: what the last call saved, if it returned true  *)
  past,          (* history: the payloads whose marker has been programmed  *)
  scarred        (* history: an erase was cut short and none finished since *)

vars == <<flash, save, returned, confirmed, past, scarred>>

(* The words in the order program_words writes them. *)
Words == <<"magic", "sequence", "crc", "payload", "valid">>
Erased == [w \in {"magic", "sequence", "crc", "payload", "valid"} |-> Blank]

-----------------------------------------------------------------------------
(* Reading the sector. *)

(* Mutant of RecordValid: the marker is trusted. *)
RecordMarked(r) ==
  r.magic = "RET2" /\ r.valid = "VALI" /\ r.payload \notin Invalid \cup {Blank}

RecordValid(r) ==
  /\ r.magic = "RET2" /\ r.valid = "VALI"
  /\ r.crc # Torn /\ r.crc = r.payload
  /\ r.payload \notin Invalid \cup {Blank}

(* Mutant of Newer: numbers compared without a sign. *)
Larger(a, b) == a > b

(* (int32_t)(a - b) > 0 *)
Newer(a, b) ==
  LET difference == (a - b) % SequenceCount
  IN  difference # 0 /\ difference < SequenceCount \div 2

(* newest_record: the loop over the slots, None when no record is valid.   *)
NewestSlot(f) ==
  LET scan[slot \in 0 .. SlotCount] ==
        IF slot = 0 THEN None
        ELSE LET best == scan[slot - 1]
             IN  IF /\ RecordValid(f[slot])
                    /\ best = None \/ Newer(f[slot].sequence, f[best].sequence)
                   THEN slot ELSE best
  IN  scan[SlotCount]

Sequence(f) == IF NewestSlot(f) = None THEN 0 ELSE f[NewestSlot(f)].sequence

(* Mutant of FreeSlot: a record that is not valid is written over. *)
UnusedSlot(f) ==
  LET unused == {slot \in Slots : ~RecordValid(f[slot])}
  IN  IF unused = {} THEN None
      ELSE CHOOSE slot \in unused : \A other \in unused : slot <= other

(* The first slot whose magic word is erased; its other words are not      *)
(* looked at.                                                              *)
FreeSlot(f) ==
  LET free == {slot \in Slots : f[slot].magic = Blank}
  IN  IF free = {} THEN None
                   ELSE CHOOSE slot \in free : \A other \in free : slot <= other

(* ret_stm32_storage_load *)
Loaded(f) == IF NewestSlot(f) = None THEN None ELSE f[NewestSlot(f)].payload

-----------------------------------------------------------------------------
(* External: the flash.  Programming an erased word gives the word, and    *)
(* over anything else, or cut short, something else.  A torn sequence      *)
(* number is still a number, and TornNumbers bounds which.                 *)

TornNumbers == {0, SequenceCount - 1}
TornWord(w) == IF w = "sequence" THEN TornNumbers ELSE {Torn}

Programmed(w, old, new) == IF old \in {Blank, new} THEN {new} ELSE TornWord(w)

(* What an erase that does not finish leaves of a record: the whole of it, *)
(* nothing, all but its magic word, or all with its payload torn.          *)
Remains(r) ==
  {r, Erased, [r EXCEPT !.magic = Blank], [r EXCEPT !.payload = Torn]}

HalfErased(f) == {g \in [Slots -> UNION {Remains(f[s]) : s \in Slots}] :
                    \A s \in Slots : g[s] \in Remains(f[s])}

-----------------------------------------------------------------------------
(* ret_stm32_storage_save. *)

(* The words of the record that is saved. *)
Record(call) ==
  [magic |-> "RET2", sequence |-> call.sequence, crc |-> call.payload,
   payload |-> call.payload, valid |-> "VALI"]

End(how) == save' = None /\ returned' = how

(* Up to the first access that changes the flash. *)
Begin(p) ==
  /\ save = None
  /\ save' = [payload |-> p, slot |-> FreeSlot(flash), word |-> 1,
              sequence |-> (Sequence(flash) + 1) % SequenceCount,
              before |-> Loaded(flash)]
  /\ returned' = "nothing" /\ confirmed' = None
  /\ UNCHANGED <<flash, past, scarred>>

(* The payload is not valid, or the flash stays locked.  After an erase    *)
(* this is the failure of the first word.                                  *)
Refuse ==
  /\ save # None /\ save.word = 1 /\ End("failed")
  /\ UNCHANGED <<flash, confirmed, past, scarred>>

Accepted == save # None /\ save.payload \notin Invalid

Erase ==
  /\ Accepted /\ save.slot = None
  /\ flash' = [slot \in Slots |-> Erased]
  /\ save' = [save EXCEPT !.slot = 1] /\ scarred' = FALSE
  /\ UNCHANGED <<returned, confirmed, past>>

(* The erase fails, or power is lost in it. *)
EraseCutShort ==
  /\ Accepted /\ save.slot = None
  /\ flash' \in HalfErased(flash)
  /\ scarred' = TRUE
  /\ \E how \in {"failed", "power lost"} : End(how)
  /\ UNCHANGED <<confirmed, past>>

(* The marker is the last word, after which the save returns true. *)
Last == save.word = Len(Words)

ProgramWord ==
  /\ Accepted /\ save.slot # None
  /\ \E v \in Programmed(Words[save.word],
                         flash[save.slot][Words[save.word]],
                         Record(save)[Words[save.word]]) :
        flash' = [flash EXCEPT ![save.slot][Words[save.word]] = v]
  /\ IF Last
       THEN End("ok") /\ confirmed' = save.payload
       ELSE /\ save' = [save EXCEPT !.word = @ + 1]
            /\ UNCHANGED <<returned, confirmed>>
  /\ past' = IF Last THEN past \cup {save.payload} ELSE past
  /\ UNCHANGED scarred

(* The flash reports an error: the word stayed as it was, or is torn. *)
ProgramFails ==
  /\ Accepted /\ save.slot # None
  /\ \E v \in {flash[save.slot][Words[save.word]]} \cup TornWord(Words[save.word]) :
        flash' = [flash EXCEPT ![save.slot][Words[save.word]] = v]
  /\ End("failed")
  /\ UNCHANGED <<confirmed, past, scarred>>

(* Power is lost between two words, or in one: it may be complete, torn,   *)
(* or untouched.  Everything but the flash is gone.  Between saves a power *)
(* loss changes nothing here.                                              *)
PowerLossInSave ==
  /\ Accepted
  /\ \/ save.slot = None /\ UNCHANGED flash
     \/ /\ save.slot # None
        /\ \E v \in {flash[save.slot][Words[save.word]]}
                      \cup TornWord(Words[save.word])
                      \cup Programmed(Words[save.word],
                                      flash[save.slot][Words[save.word]],
                                      Record(save)[Words[save.word]]) :
              flash' = [flash EXCEPT ![save.slot][Words[save.word]] = v]
  /\ End("power lost")
  /\ past' = IF save.slot # None /\ Last /\ flash'[save.slot].valid = "VALI"
                THEN past \cup {save.payload} ELSE past
  /\ UNCHANGED <<confirmed, scarred>>

Init ==
  /\ flash = [slot \in Slots |-> Erased]
  /\ save = None /\ returned = "nothing" /\ confirmed = None
  /\ past = {} /\ scarred = FALSE

Next ==
  \/ \E p \in Payloads : Begin(p)
  \/ Refuse \/ Erase \/ EraseCutShort \/ ProgramWord \/ ProgramFails
  \/ PowerLossInSave

Spec == Init /\ [][Next]_vars
-----------------------------------------------------------------------------
(* Properties. *)

(* What a save that returned true has saved is what every later boot       *)
(* loads, until the next save begins, whatever failed or lost power        *)
(* before, and however often the sector and the sequence numbers have gone *)
(* round.  The one exception: an erase that did not finish.                *)
ConfirmedIsLoaded ==
  confirmed # None /\ ~scarred => Loaded(flash) = confirmed

(* A boot never loads anything that no save was called with: a torn or     *)
(* half-erased record is never taken for a valid one.                      *)
NothingInvented == Loaded(flash) \in past \cup {None}

(* HARDWARE.md: losing power during a save keeps the last valid record.    *)
(* Whatever a load would find in the middle of a save is what a boot finds *)
(* if power is lost there.                                                 *)
LastRecordKept == save # None => Loaded(flash) = save.before

Store == INSTANCE PersistentStore
  WITH stored <- Loaded(flash),
       saving <- IF save = None THEN None ELSE save.payload

(* The journal keeps the promise of PersistentStore at every step. *)
StoreSpec == Store!Spec
=============================================================================
