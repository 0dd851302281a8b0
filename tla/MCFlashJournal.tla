----------------------------- MODULE MCFlashJournal -----------------------------
(* A sector of two slots, which is soon full, and two payloads that are    *)
(* only ever compared.                                                     *)
EXTENDS FlashJournal, TLC

CONSTANTS p1, p2
Symmetry == Permutations({p1, p2})
=============================================================================
