-------------------------- MODULE FlashJournal_proofs --------------------------
(***************************************************************************)
(* Proofs about FlashJournal: what a confirmed save has saved is what      *)
(* every later boot loads, nothing else is ever loaded, and the journal    *)
(* implements PersistentStore, for any number of slots and any range of    *)
(* sequence numbers.                                                       *)
(*                                                                         *)
(* newest_record is a loop, so that what it returns needs an induction     *)
(* over its slots; SetInduction states the principle with sets, from the   *)
(* well-foundedness of the natural numbers.                                *)
(***************************************************************************)
EXTENDS FlashJournal, WellFoundedInduction, TLAPS

FlashRecord ==
  [magic : {"RET2", Blank, Torn}, sequence : SequenceNumbers \cup {Blank},
   crc : Payloads \cup {Blank, Torn}, payload : Payloads \cup {Blank, Torn},
   valid : {"VALI", Blank, Torn}]

(* Values of the right kind; the history of a save is of the last one.     *)
Typed ==
  /\ flash \in [Slots -> FlashRecord]
  /\ save \in Saves \cup {None}
  /\ confirmed \in Payloads \cup {None} /\ past \subseteq Payloads
  /\ scarred \in BOOLEAN
  /\ save # None => confirmed = None /\ (save.slot = None => save.word = 1)

(* A marker over a payload that its CRC confirms was programmed by a save  *)
(* of that payload, whatever has happened to the other words since; and    *)
(* what is under a marker has been programmed.                             *)
Marked(r, saved) ==
  /\ r.valid = "VALI" /\ r.crc = r.payload /\ r.payload \in Payloads
       => r.payload \in saved
  /\ r.valid # Blank => r.sequence # Blank /\ r.crc # Blank /\ r.payload # Blank
Genuine == \A s \in Slots : Marked(flash[s], past)

(* The words a save has passed are its own, or torn.                       *)
Passed ==
  save # None /\ save.slot # None =>
    /\ save.word > 2 => flash[save.slot].sequence # Blank
    /\ save.word > 3 => flash[save.slot].crc \in {save.payload, Torn}
    /\ save.word > 4 => flash[save.slot].payload \in {save.payload, Torn}

(* The slots are filled from the first on, and the numbers of consecutive  *)
(* valid records are consecutive.                                          *)
Filled(f) ==
  /\ \A s \in Slots : f[s].magic = Blank => f[s] = Erased
  /\ \A s, t \in Slots : s < t /\ f[t].magic # Blank => f[s].magic # Blank
Numbered(f) ==
  /\ \A s \in Slots : RecordValid(f[s]) => f[s].sequence \in SequenceNumbers
  /\ \A s, t \in Slots :
       /\ s < t /\ RecordValid(f[s]) /\ RecordValid(f[t])
       /\ \A u \in Slots : s < u /\ u < t => ~RecordValid(f[u])
       => f[t].sequence = (f[s].sequence + 1) % SequenceCount

(* A save programs the first free slot, which it has filled up to its      *)
(* word, with the number after the newest one.                             *)
Prefix(call) ==
  [magic    |-> IF call.word > 1 THEN "RET2" ELSE Blank,
   sequence |-> IF call.word > 2 THEN call.sequence ELSE Blank,
   crc      |-> IF call.word > 3 THEN call.payload ELSE Blank,
   payload  |-> IF call.word > 4 THEN call.payload ELSE Blank,
   valid    |-> Blank]
Writing ==
  save # None /\ save.slot # None =>
    /\ flash[save.slot] = Prefix(save)
    /\ \A s \in Slots : /\ s < save.slot => flash[s].magic # Blank
                        /\ s > save.slot => flash[s] = Erased
    /\ NewestSlot(flash) # None =>
         save.sequence = (flash[NewestSlot(flash)].sequence + 1) % SequenceCount

Tidy == ~scarred => Filled(flash) /\ Numbered(flash) /\ Writing

Inv == Typed /\ Genuine /\ Passed /\ Tidy /\ ConfirmedIsLoaded

-----------------------------------------------------------------------------
(* Induction. *)

LEMMA LeastNatural ==
  ASSUME NEW T, T \subseteq Nat, T # {}
  PROVE  \E n \in T : \A m \in T : n <= m
<1> DEFINE Less == OpToRel(<, Nat)
<1>1. IsWellFoundedOn(Less, Nat)
  BY NatLessThanWellFounded
<1>2. \A x, y \in Nat : x < y => <<x, y>> \in Less
  BY DEF OpToRel
<1> HIDE DEF Less
<1>3. PICK n \in T : \A m \in T : ~(<<m, n>> \in Less)
  BY <1>1, WFMin
<1>4. ASSUME NEW m \in T PROVE n <= m
  <2>1. ~(m < n)
    BY <1>2, <1>3
  <2> QED BY <2>1
<1> QED BY <1>3, <1>4

LEMMA SetInduction ==
  ASSUME NEW T, 0 \in T, \A n \in Nat : n \in T => n + 1 \in T
  PROVE  Nat \subseteq T
<1> SUFFICES ASSUME Nat \ T # {} PROVE FALSE
  OBVIOUS
<1>1. PICK n \in Nat \ T : \A m \in Nat \ T : n <= m
  BY LeastNatural
<1>2. n # 0 /\ n - 1 \in Nat
  BY <1>1
<1>3. n - 1 \in T
  BY <1>1, <1>2
<1> QED BY <1>1, <1>2, <1>3

-----------------------------------------------------------------------------
(* The loop of newest_record. *)

(* One turn of it: g holds what the turns before it have found.            *)
Turn(f, g, slot) ==
  IF slot = 0 THEN None
  ELSE LET best == g[slot - 1]
       IN  IF /\ RecordValid(f[slot])
              /\ best = None \/ Newer(f[slot].sequence, f[best].sequence)
             THEN slot ELSE best
Loop(f) == CHOOSE g : g = [slot \in 0 .. SlotCount |-> Turn(f, g, slot)]

LEMMA NewestIsLoop == ASSUME NEW f PROVE NewestSlot(f) = Loop(f)[SlotCount]
BY DEF NewestSlot, Loop, Turn

(* The turns up to any slot can be taken, one after the other.             *)
LEMMA LoopRuns ==
  ASSUME NEW f
  PROVE  /\ Loop(f)[0] = None
         /\ \A slot \in Slots : Loop(f)[slot] = Turn(f, Loop(f), slot)
<1>1. SlotCount \in Nat
  BY JournalAssumption
<1> DEFINE Runs(g, n) == g = [slot \in 0 .. n |-> Turn(f, g, slot)]
           T == {n \in Nat : \E g : Runs(g, n)}
<1>2. 0 \in T
  <2> DEFINE g == [slot \in 0 .. 0 |-> None]
  <2>1. Runs(g, 0)
    BY DEF Turn
  <2> QED BY <2>1
<1>3. ASSUME NEW n \in Nat, n \in T PROVE n + 1 \in T
  <2>1. PICK g : Runs(g, n)
    BY <1>3
  <2> DEFINE h == [slot \in 0 .. n + 1 |->
                     IF slot = n + 1 THEN Turn(f, g, n + 1) ELSE g[slot]]
  <2>2. ASSUME NEW slot \in 0 .. n + 1 PROVE h[slot] = Turn(f, h, slot)
    <3>1. slot # 0 => slot - 1 \in 0 .. n /\ h[slot - 1] = g[slot - 1]
      OBVIOUS
    <3>2. Turn(f, h, slot) = Turn(f, g, slot)
      BY <3>1 DEF Turn
    <3>3. slot # n + 1 => slot \in 0 .. n /\ g[slot] = Turn(f, g, slot)
      BY <2>1
    <3> QED BY <3>2, <3>3
  <2>3. Runs(h, n + 1)
    BY <2>2
  <2> HIDE DEF Runs, h
  <2>4. \E k : Runs(k, n + 1)
    BY <2>3
  <2> QED BY <2>4
<1> HIDE DEF T
<1>4. Nat \subseteq T
  BY <1>2, <1>3, SetInduction
<1>5. \E g : Runs(g, SlotCount)
  BY <1>1, <1>4 DEF T
<1>6. Loop(f) = [slot \in 0 .. SlotCount |-> Turn(f, Loop(f), slot)]
  BY <1>5 DEF Loop
<1> QED BY <1>1, <1>6 DEF Turn, Slots

(* The ranges of the constants. *)
LEMMA Ranges ==
  /\ SlotCount \in Nat /\ 1 \in Slots /\ Slots \subseteq Nat \ {0}
  /\ None \notin Slots /\ None \notin Payloads /\ None \notin Saves
  /\ SequenceCount \in Nat /\ SequenceCount >= 5
  /\ Blank # Torn /\ {Blank, Torn} \cap ({"RET2", "VALI"} \cup Payloads \cup SequenceNumbers) = {}
<1>1. SlotCount \in Nat /\ SlotCount >= 2 /\ SequenceCount \in Nat
      /\ 2 * SlotCount < SequenceCount
  BY JournalAssumption
<1>2. Slots \subseteq SequenceNumbers
  BY <1>1 DEF Slots, SequenceNumbers
<1>3. None \notin Slots
  BY <1>2, JournalAssumption
<1>4. SequenceCount >= 5
  BY <1>1
<1>5. 1 \in Slots /\ Slots \subseteq Nat \ {0}
  BY <1>1 DEF Slots
<1>6. Blank # Torn /\ {Blank, Torn} \cap ({"RET2", "VALI"} \cup Payloads \cup SequenceNumbers) = {}
  BY JournalAssumption
<1>7. None \notin Payloads /\ None \notin Saves
  BY JournalAssumption
<1> QED BY <1>1, <1>3, <1>4, <1>5, <1>6, <1>7

(* What the loop holds is a valid record. *)
LEMMA NewestValid ==
  ASSUME NEW f, NewestSlot(f) # None
  PROVE  NewestSlot(f) \in Slots /\ RecordValid(f[NewestSlot(f)])
<1> DEFINE Holds(n) == Loop(f)[n] \in Slots /\ RecordValid(f[Loop(f)[n]])
           T == {n \in Nat : n \in 0 .. SlotCount => Loop(f)[n] = None \/ Holds(n)}
<1>1. 0 \in T
  BY LoopRuns
<1>2. ASSUME NEW n \in Nat, n \in T PROVE n + 1 \in T
  <2>1. CASE n + 1 \in Slots
    <3>1. Loop(f)[n + 1] = Turn(f, Loop(f), n + 1)
      BY <2>1, LoopRuns
    <3>2. Loop(f)[n] = None \/ Holds(n)
      BY <1>2, <2>1, Ranges DEF Slots
    <3>3. (n + 1) - 1 = n /\ n + 1 # 0
      OBVIOUS
    <3>4. Loop(f)[n + 1] = Loop(f)[n] \/ (Loop(f)[n + 1] = n + 1 /\ RecordValid(f[n + 1]))
      BY <3>1, <3>3 DEF Turn
    <3> QED BY <2>1, <3>2, <3>4
  <2>2. CASE n + 1 \notin Slots
    BY <2>2 DEF Slots
  <2> QED BY <2>1, <2>2
<1> HIDE DEF T
<1>3. SlotCount \in T
  BY <1>1, <1>2, SetInduction, Ranges
<1>4. Loop(f)[SlotCount] = None \/ Holds(SlotCount)
  BY <1>3, Ranges DEF T
<1> QED BY <1>4, NewestIsLoop

(* The number after another one is newer than it.                          *)
LEMMA NextIsNewer ==
  ASSUME NEW a \in SequenceNumbers
  PROVE  Newer((a + 1) % SequenceCount, a)
<1>1. PICK n \in Nat : n = SequenceCount /\ n >= 5 /\ a \in Nat /\ a < n
  BY Ranges DEF SequenceNumbers
<1>2. 1 < n \div 2 /\ 1 % n = 1
  BY <1>1
<1>3. CASE a + 1 < n
  <2>1. (a + 1) % n = a + 1
    BY <1>1, <1>3
  <2>2. ((a + 1) % n) - a = 1
    BY <1>1, <2>1
  <2> QED BY <1>1, <1>2, <2>2 DEF Newer
<1>4. CASE a + 1 = n
  <2>1. (a + 1) % n = 0
    BY <1>1, <1>4
  <2>2. ((a + 1) % n) - a = 1 - n
    BY <1>1, <1>4, <2>1
  <2>3. (1 - n) % n = 1
    BY <1>1
  <2> QED BY <1>1, <1>2, <2>2, <2>3 DEF Newer
<1> QED BY <1>1, <1>3, <1>4

(* In a sector that has been filled in order the loop finds the last valid *)
(* record.                                                                 *)
LastValid(f, n, b) ==
  IF b = None THEN \A s \in 1 .. n : ~RecordValid(f[s])
  ELSE /\ b \in 1 .. n /\ RecordValid(f[b])
       /\ \A s \in 1 .. n : s > b => ~RecordValid(f[s])

LEMMA NewestLast ==
  ASSUME NEW f, Numbered(f)
  PROVE  LastValid(f, SlotCount, NewestSlot(f))
<1> DEFINE T == {n \in Nat : n \in 0 .. SlotCount => LastValid(f, n, Loop(f)[n])}
<1>1. 0 \in T
  BY LoopRuns DEF LastValid
<1>2. ASSUME NEW n \in Nat, n \in T PROVE n + 1 \in T
  <2>1. CASE n + 1 \in Slots
    <3> DEFINE best == Loop(f)[n]
    <3>1. LastValid(f, n, best)
      BY <1>2, <2>1, Ranges DEF Slots
    <3>2. (n + 1) - 1 = n /\ n + 1 # 0 /\ 1 .. n \subseteq Slots
      BY <2>1, Ranges DEF Slots
    <3>3. Loop(f)[n + 1] =
            IF RecordValid(f[n + 1])
                 /\ (best = None \/ Newer(f[n + 1].sequence, f[best].sequence))
              THEN n + 1 ELSE best
      BY <2>1, <3>2, LoopRuns DEF Turn
    <3>4. ASSUME RecordValid(f[n + 1]), best # None
          PROVE  Newer(f[n + 1].sequence, f[best].sequence)
      <4>1. best \in Slots /\ best < n + 1 /\ RecordValid(f[best])
            /\ \A u \in Slots : best < u /\ u < n + 1 => ~RecordValid(f[u])
        BY <3>1, <3>2, <3>4 DEF LastValid, Slots
      <4>2. f[n + 1].sequence = (f[best].sequence + 1) % SequenceCount
            /\ f[best].sequence \in SequenceNumbers
        BY <2>1, <3>4, <4>1 DEF Numbered
      <4> QED BY <4>2, NextIsNewer
    <3> HIDE DEF best
    <3>5. CASE RecordValid(f[n + 1])
      <4>1. Loop(f)[n + 1] = n + 1
        BY <3>3, <3>4, <3>5
      <4>2. n + 1 # None
        BY <2>1, Ranges
      <4> QED BY <3>5, <4>1, <4>2 DEF LastValid
    <3>6. CASE ~RecordValid(f[n + 1])
      <4>1. Loop(f)[n + 1] = best
        BY <3>3, <3>6
      <4>2. \A s \in 1 .. n + 1 : s \in 1 .. n \/ s = n + 1
        OBVIOUS
      <4>3. 1 .. n \subseteq 1 .. n + 1
        OBVIOUS
      <4>4. LastValid(f, n + 1, best)
        BY <3>1, <3>6, <4>2, <4>3 DEF LastValid
      <4> QED BY <4>1, <4>4
    <3> QED BY <3>5, <3>6
  <2>2. CASE n + 1 \notin Slots
    BY <2>2 DEF Slots
  <2> QED BY <2>1, <2>2
<1> HIDE DEF T
<1>3. SlotCount \in T
  BY <1>1, <1>2, SetInduction, Ranges
<1>4. LastValid(f, SlotCount, Loop(f)[SlotCount])
  BY <1>3, Ranges DEF T
<1> QED BY <1>4, NewestIsLoop

(* Two sectors with the same valid records load the same.                  *)
LEMMA SameNewest ==
  ASSUME NEW f, NEW g, Numbered(f), Numbered(g),
         \A s \in Slots : RecordValid(f[s]) <=> RecordValid(g[s])
  PROVE  NewestSlot(f) = NewestSlot(g)
<1> DEFINE b == NewestSlot(f)
           c == NewestSlot(g)
<1>1. LastValid(f, SlotCount, b) /\ LastValid(g, SlotCount, c)
  BY NewestLast
<1> HIDE DEF b, c
<1>2. CASE b = None
  <2>1. \A s \in Slots : ~RecordValid(g[s])
    BY <1>1, <1>2 DEF LastValid, Slots
  <2> QED BY <1>1, <1>2, <2>1 DEF LastValid, Slots, b, c
<1>3. CASE b # None
  <2>1. b \in Slots /\ RecordValid(g[b]) /\ \A s \in Slots : s > b => ~RecordValid(g[s])
    BY <1>1, <1>3 DEF LastValid, Slots
  <2>2. c # None
    BY <1>1, <2>1 DEF LastValid, Slots
  <2>3. c \in Slots /\ RecordValid(f[c]) /\ \A s \in Slots : s > c => ~RecordValid(g[s])
    BY <1>1, <2>2 DEF LastValid, Slots
  <2>4. ~(c > b) /\ ~(b > c)
    BY <1>1, <2>1, <2>3 DEF LastValid, Slots
  <2>5. b \in Nat /\ c \in Nat
    BY <2>1, <2>3, Ranges
  <2>6. b = c
    BY <2>4, <2>5
  <2> QED BY <2>6 DEF b, c
<1> QED BY <1>2, <1>3

(* A valid record after all the others, with the next number, is the       *)
(* newest one.                                                             *)
LEMMA AddNewest ==
  ASSUME NEW f, NEW g, NEW n \in Slots, Numbered(f),
         \A s \in Slots : s >= n => ~RecordValid(f[s]),
         \A s \in Slots : s # n => g[s] = f[s],
         RecordValid(g[n]), g[n].sequence \in SequenceNumbers,
         NewestSlot(f) # None =>
           g[n].sequence = (f[NewestSlot(f)].sequence + 1) % SequenceCount
  PROVE  Numbered(g) /\ NewestSlot(g) = n
<1> DEFINE b == NewestSlot(f)
           c == NewestSlot(g)
<1>1. LastValid(f, SlotCount, b)
  BY NewestLast
<1> HIDE DEF b, c
<1>2. \A s \in Slots : s \in Nat
  BY Ranges
<1>3. \A s \in Slots : RecordValid(g[s]) => g[s].sequence \in SequenceNumbers
  BY DEF Numbered
<1>4. ASSUME NEW s \in Slots, NEW t \in Slots, s < t,
             RecordValid(g[s]), RecordValid(g[t]),
             \A u \in Slots : s < u /\ u < t => ~RecordValid(g[u])
      PROVE  g[t].sequence = (g[s].sequence + 1) % SequenceCount
  <2>1. s < n /\ t <= n
    BY <1>2, <1>4
  <2>2. g[s] = f[s]
    BY <1>2, <2>1
  <2>3. CASE t = n
    <3>1. b # None /\ b \in Slots
      BY <1>1, <1>4, <2>2 DEF LastValid, Slots
    <3>2. ~(s > b) /\ RecordValid(f[b])
      BY <1>1, <1>4, <2>2, <3>1 DEF LastValid, Slots
    <3>3. b < n /\ g[b] = f[b]
      BY <1>2, <3>1, <3>2
    <3>4. ~(s < b)
      BY <1>4, <2>3, <3>1, <3>2, <3>3
    <3>5. s = b
      BY <1>2, <3>1, <3>2, <3>4
    <3> QED BY <2>2, <2>3, <3>1, <3>5 DEF b
  <2>4. CASE t # n
    <3>1. g[t] = f[t]
      BY <2>4
    <3>2. ASSUME NEW u \in Slots, s < u, u < t PROVE ~RecordValid(f[u])
      <4>1. u # n
        BY <1>2, <2>1, <3>2
      <4> QED BY <1>4, <3>2, <4>1
    <3> QED BY <1>4, <2>2, <3>1, <3>2 DEF Numbered
  <2> QED BY <2>3, <2>4
<1>5. Numbered(g)
  BY <1>3, <1>4 DEF Numbered
<1>6. LastValid(g, SlotCount, c)
  BY <1>5, NewestLast DEF c
<1>7. c # None
  BY <1>6 DEF LastValid, Slots
<1>8. c \in Slots /\ RecordValid(g[c]) /\ ~(n > c)
  BY <1>6, <1>7 DEF LastValid, Slots
<1>9. c = n
  BY <1>2, <1>8
<1> QED BY <1>5, <1>9 DEF c

(* Nothing is loaded from an erased sector, which is as good as new.       *)
LEMMA ErasedSector ==
  ASSUME NEW f, \A s \in Slots : f[s] = Erased
  PROVE  Filled(f) /\ Numbered(f) /\ NewestSlot(f) = None /\ Loaded(f) = None
<1>1. \A s \in Slots : f[s].magic = Blank /\ ~RecordValid(f[s])
  BY Ranges DEF Erased, RecordValid
<1>2. NewestSlot(f) = None
  BY <1>1, NewestValid
<1> QED BY <1>1, <1>2 DEF Filled, Numbered, Loaded

-----------------------------------------------------------------------------
(* What programming a word may do to the slot of a save. *)

Old == flash[save.slot][Words[save.word]]

WordStep(v) ==
  /\ Accepted /\ save.slot # None
  /\ v \in {Old} \cup TornWord(Words[save.word])
            \cup Programmed(Words[save.word], Old, Record(save)[Words[save.word]])
  /\ flash' = [flash EXCEPT ![save.slot][Words[save.word]] = v]

(* The words of a save, by their number.                                   *)
LEMMA WordNames ==
  /\ Len(Words) = 5
  /\ Words[1] = "magic" /\ Words[2] = "sequence" /\ Words[3] = "crc"
  /\ Words[4] = "payload" /\ Words[5] = "valid"
BY DEF Words

LEMMA SaveTyped ==
  ASSUME Typed, save # None
  PROVE  /\ save.payload \in Payloads /\ save.sequence \in SequenceNumbers
         /\ save.slot \in Slots \cup {None} /\ save.word \in 1 .. 5
         /\ save.word \in {1, 2, 3, 4, 5}
BY DEF Typed, Saves

(* One word changes, to one of these values.                               *)
LEMMA WordChange ==
  ASSUME Typed, NEW v, WordStep(v)
  PROVE  LET r == flash[save.slot]
             q == flash'[save.slot]
             k == save.word
         IN /\ flash' \in [Slots -> FlashRecord]
            /\ \A s \in Slots : s # save.slot => flash'[s] = flash[s]
            /\ q.magic    = IF k = 1 THEN v ELSE r.magic
            /\ q.sequence = IF k = 2 THEN v ELSE r.sequence
            /\ q.crc      = IF k = 3 THEN v ELSE r.crc
            /\ q.payload  = IF k = 4 THEN v ELSE r.payload
            /\ q.valid    = IF k = 5 THEN v ELSE r.valid
<1> DEFINE r == flash[save.slot]
<1>1. save.slot \in Slots /\ r \in FlashRecord /\ flash \in [Slots -> FlashRecord]
  BY SaveTyped DEF WordStep, Accepted, Typed
<1>2. flash' = [flash EXCEPT ![save.slot] = [r EXCEPT ![Words[save.word]] = v]]
  BY DEF WordStep
<1>3. flash'[save.slot] = [r EXCEPT ![Words[save.word]] = v]
      /\ \A s \in Slots : s # save.slot => flash'[s] = flash[s]
  BY <1>1, <1>2
<1>4. TornNumbers \subseteq SequenceNumbers
  BY Ranges DEF TornNumbers, SequenceNumbers
<1>5. v \in {r[Words[save.word]], Record(save)[Words[save.word]]} \cup TornWord(Words[save.word])
  BY DEF WordStep, Programmed, Old
<1> HIDE DEF r
<1>6. CASE save.word = 1
  <2>1. flash'[save.slot] = [r EXCEPT !.magic = v]
    BY <1>3, <1>6, WordNames
  <2>2. v \in {"RET2", Blank, Torn}
    BY <1>1, <1>5, <1>6, WordNames DEF TornWord, Record, FlashRecord
  <2> QED BY <1>1, <1>2, <1>3, <1>6, <2>1, <2>2 DEF FlashRecord, r
<1>7. CASE save.word = 2
  <2>1. flash'[save.slot] = [r EXCEPT !.sequence = v]
    BY <1>3, <1>7, WordNames
  <2>2. v \in SequenceNumbers \cup {Blank}
    BY <1>1, <1>4, <1>5, <1>7, WordNames, SaveTyped
       DEF TornWord, Record, FlashRecord, WordStep, Accepted
  <2> QED BY <1>1, <1>2, <1>3, <1>7, <2>1, <2>2 DEF FlashRecord, r
<1>8. CASE save.word = 3
  <2>1. flash'[save.slot] = [r EXCEPT !.crc = v]
    BY <1>3, <1>8, WordNames
  <2>2. v \in Payloads \cup {Blank, Torn}
    BY <1>1, <1>5, <1>8, WordNames, SaveTyped
       DEF TornWord, Record, FlashRecord, WordStep, Accepted
  <2> QED BY <1>1, <1>2, <1>3, <1>8, <2>1, <2>2 DEF FlashRecord, r
<1>9. CASE save.word = 4
  <2>1. flash'[save.slot] = [r EXCEPT !.payload = v]
    BY <1>3, <1>9, WordNames
  <2>2. v \in Payloads \cup {Blank, Torn}
    BY <1>1, <1>5, <1>9, WordNames, SaveTyped
       DEF TornWord, Record, FlashRecord, WordStep, Accepted
  <2> QED BY <1>1, <1>2, <1>3, <1>9, <2>1, <2>2 DEF FlashRecord, r
<1>10. CASE save.word = 5
  <2>1. flash'[save.slot] = [r EXCEPT !.valid = v]
    BY <1>3, <1>10, WordNames
  <2>2. v \in {"VALI", Blank, Torn}
    BY <1>1, <1>5, <1>10, WordNames DEF TornWord, Record, FlashRecord
  <2> QED BY <1>1, <1>2, <1>3, <1>10, <2>1, <2>2 DEF FlashRecord, r
<1> QED BY <1>6, <1>7, <1>8, <1>9, <1>10, SaveTyped DEF WordStep, Accepted

(* A word that is programmed brings no record to life but the one that is  *)
(* saved.                                                                  *)
LEMMA WordGenuine ==
  ASSUME Typed, Genuine, Passed, NEW v, WordStep(v), past \subseteq past',
         v = "VALI" /\ save.word = 5 => Old = "VALI" \/ save.payload \in past'
  PROVE  Genuine'
<1> DEFINE r == flash[save.slot]
           q == flash'[save.slot]
           k == save.word
           p == save.payload
<1>1. /\ \A s \in Slots : s # save.slot => flash'[s] = flash[s]
      /\ q.sequence = IF k = 2 THEN v ELSE r.sequence
      /\ q.crc      = IF k = 3 THEN v ELSE r.crc
      /\ q.payload  = IF k = 4 THEN v ELSE r.payload
      /\ q.valid    = IF k = 5 THEN v ELSE r.valid
  BY WordChange
<1>2. save.slot \in Slots /\ Marked(r, past) /\ k \in {1, 2, 3, 4, 5} /\ p \in Payloads
  BY SaveTyped DEF Genuine, WordStep, Accepted
<1>3. v \in {Old} \cup TornWord(Words[k]) \cup Programmed(Words[k], Old, Record(save)[Words[k]])
  BY DEF WordStep
<1>4. /\ k > 2 => r.sequence # Blank
      /\ k > 3 => r.crc \in {p, Torn}
      /\ k > 4 => r.payload \in {p, Torn}
  BY DEF Passed, WordStep, Accepted
<1> SUFFICES Marked(q, past')
  <2>1. \A s \in Slots : s # save.slot => Marked(flash'[s], past')
    BY <1>1 DEF Genuine, Marked
  <2> QED BY <2>1 DEF Genuine
<1> HIDE DEF q, r, p
<1>5. CASE k = 1
  BY <1>1, <1>2, <1>5 DEF Marked
<1>9. CASE k = 2
  <2>1. v \in {r.sequence} \cup SequenceNumbers
    <3>1. TornNumbers \subseteq SequenceNumbers /\ save.sequence \in SequenceNumbers
      BY SaveTyped, Ranges DEF TornNumbers, SequenceNumbers, WordStep, Accepted
    <3> QED BY <1>3, <1>9, <3>1, WordNames DEF Old, r, TornWord, Programmed, Record
  <2>2. q.sequence = v /\ q.crc = r.crc /\ q.payload = r.payload /\ q.valid = r.valid
    BY <1>1, <1>9
  <2> QED BY <1>2, <2>1, <2>2, Ranges DEF Marked
<1>6. CASE k = 3
  <2>1. v \in {r.crc, Torn} \/ (r.crc = Blank /\ v = p)
    BY <1>3, <1>6, WordNames DEF Old, r, TornWord, Programmed, Record, p
  <2>2. q.sequence = r.sequence /\ q.crc = v /\ q.payload = r.payload /\ q.valid = r.valid
    BY <1>1, <1>6
  <2> QED BY <1>2, <2>1, <2>2, Ranges DEF Marked
<1>7. CASE k = 4
  <2>1. v \in {r.payload, Torn} \/ (r.payload = Blank /\ v = p)
    BY <1>3, <1>7, WordNames DEF Old, r, TornWord, Programmed, Record, p
  <2>2. q.sequence = r.sequence /\ q.crc = r.crc /\ q.payload = v /\ q.valid = r.valid
    BY <1>1, <1>7
  <2> QED BY <1>2, <2>1, <2>2, Ranges DEF Marked
<1>8. CASE k = 5
  <2>1. r.sequence # Blank /\ r.crc \in {p, Torn} /\ r.payload \in {p, Torn}
    BY <1>4, <1>8
  <2>2. q.sequence = r.sequence /\ q.crc = r.crc /\ q.payload = r.payload /\ q.valid = v
    BY <1>1, <1>8
  <2>3. v = "VALI" => r.valid = "VALI" \/ p \in past'
    BY <1>8, WordNames DEF Old, r, p
  <2> QED BY <1>2, <2>1, <2>2, <2>3, Ranges DEF Marked
<1> QED BY <1>2, <1>5, <1>9, <1>6, <1>7, <1>8

(* In a tidy sector a word leaves what is loaded as it was, unless it is   *)
(* the marker, which makes the new record the newest.                      *)
LEMMA WordTidy ==
  ASSUME Inv, ~scarred, NEW v, WordStep(v)
  PROVE  /\ Filled(flash)' /\ Numbered(flash)'
         /\ IF save.word = 5 /\ v = "VALI"
            THEN NewestSlot(flash') = save.slot /\ Loaded(flash') = save.payload
            ELSE NewestSlot(flash') = NewestSlot(flash) /\ Loaded(flash') = Loaded(flash)
<1> DEFINE r == flash[save.slot]
           q == flash'[save.slot]
           k == save.word
<1>1. /\ \A s \in Slots : s # save.slot => flash'[s] = flash[s]
      /\ q.magic    = IF k = 1 THEN v ELSE r.magic
      /\ q.sequence = IF k = 2 THEN v ELSE r.sequence
      /\ q.crc      = IF k = 3 THEN v ELSE r.crc
      /\ q.payload  = IF k = 4 THEN v ELSE r.payload
      /\ q.valid    = IF k = 5 THEN v ELSE r.valid
      /\ q \in FlashRecord
  BY WordChange, SaveTyped DEF Inv, WordStep, Accepted
<1>2. /\ save.slot \in Slots /\ k \in {1, 2, 3, 4, 5} /\ save.payload \in Payloads
      /\ save.sequence \in SequenceNumbers /\ save.payload \notin Invalid
      /\ save # None
  BY SaveTyped DEF Inv, WordStep, Accepted
<1>3. Filled(flash) /\ Numbered(flash) /\ Writing
  BY DEF Inv, Tidy
<1>4. /\ r = Prefix(save)
      /\ \A s \in Slots : /\ s < save.slot => flash[s].magic # Blank
                          /\ s > save.slot => flash[s] = Erased
      /\ NewestSlot(flash) # None =>
           save.sequence = (flash[NewestSlot(flash)].sequence + 1) % SequenceCount
  BY <1>2, <1>3, Ranges DEF Writing
<1>5. /\ r.magic = (IF k > 1 THEN "RET2" ELSE Blank)
      /\ r.sequence = (IF k > 2 THEN save.sequence ELSE Blank)
      /\ r.crc = (IF k > 3 THEN save.payload ELSE Blank)
      /\ r.payload = (IF k > 4 THEN save.payload ELSE Blank)
      /\ r.valid = Blank
  BY <1>4 DEF Prefix
<1>6. v \in {Old} \cup TornWord(Words[k]) \cup {Record(save)[Words[k]]}
  BY DEF WordStep, Programmed
<1>7. \A s \in Slots : s \in Nat
  BY Ranges
<1> HIDE DEF q, r
<1>8. Filled(flash)'
  <2>1. q.magic = Blank => q = Erased
    <3>1. CASE k = 1
      <4>1. q.magic = Blank => q.sequence = Blank /\ q.crc = Blank /\ q.payload = Blank
                                /\ q.valid = Blank
        BY <1>1, <1>5, <3>1
      <4> QED BY <1>1, <4>1 DEF Erased, FlashRecord
    <3>2. CASE k # 1
      <4>1. q.magic = "RET2"
        BY <1>1, <1>2, <1>5, <3>2
      <4> QED BY <4>1, Ranges
    <3> QED BY <3>1, <3>2
  <2>2. \A s \in Slots : flash'[s].magic = Blank => flash'[s] = Erased
    BY <1>1, <1>3, <2>1 DEF Filled, q
  <2>3. ASSUME NEW s \in Slots, NEW t \in Slots, s < t, flash'[t].magic # Blank
        PROVE  flash'[s].magic # Blank
    <3>1. t > save.slot => flash'[t].magic = Blank
      BY <1>1, <1>2, <1>4, <1>7 DEF Erased
    <3>2. s < save.slot /\ s # save.slot
      BY <1>2, <1>7, <2>3, <3>1
    <3> QED BY <1>1, <1>4, <3>2
  <2> QED BY <2>2, <2>3 DEF Filled
<1>9. \A s \in Slots : s >= save.slot => ~RecordValid(flash[s])
  <2>1. ~RecordValid(r)
    BY <1>5, Ranges DEF RecordValid
  <2>2. ~RecordValid(Erased)
    BY Ranges DEF RecordValid, Erased
  <2>3. \A s \in Slots : s >= save.slot => s = save.slot \/ s > save.slot
    BY <1>2, <1>7
  <2> QED BY <1>4, <2>1, <2>2, <2>3 DEF r
<1>10. CASE k = 5 /\ v = "VALI"
  <2>1. RecordValid(q) /\ q.sequence = save.sequence /\ q.payload = save.payload
    BY <1>1, <1>2, <1>5, <1>10, Ranges DEF RecordValid
  <2>2. Numbered(flash') /\ NewestSlot(flash') = save.slot
    BY <1>1, <1>2, <1>3, <1>4, <1>9, <2>1, AddNewest DEF q
  <2>3. Loaded(flash') = save.payload
    BY <1>2, <2>1, <2>2, Ranges DEF Loaded, q
  <2> QED BY <1>8, <1>10, <2>2, <2>3 DEF Numbered
<1>11. CASE ~(k = 5 /\ v = "VALI")
  <2>1. q.valid # "VALI"
    BY <1>1, <1>5, <1>11, Ranges
  <2>2. ~RecordValid(q)
    BY <2>1 DEF RecordValid
  <2>3. \A s \in Slots : RecordValid(flash'[s]) <=> RecordValid(flash[s])
    BY <1>1, <1>2, <1>7, <1>9, <2>2 DEF q
  <2>4. \A s \in Slots : RecordValid(flash[s]) => flash'[s] = flash[s]
    BY <1>1, <1>2, <1>7, <1>9
  <2>5. Numbered(flash')
    BY <1>3, <2>3, <2>4 DEF Numbered
  <2>6. NewestSlot(flash') = NewestSlot(flash)
    BY <1>3, <2>3, <2>5, SameNewest
  <2>7. Loaded(flash') = Loaded(flash)
    BY <2>4, <2>6, NewestValid DEF Loaded
  <2> QED BY <1>8, <1>11, <2>5, <2>6, <2>7 DEF Numbered
<1> QED BY <1>10, <1>11

-----------------------------------------------------------------------------
(* The steps of a save. *)

LEMMA InitInv == Init => Inv
<1> SUFFICES ASSUME Init PROVE Inv
  OBVIOUS
<1>1. Erased \in FlashRecord
  BY DEF Erased, FlashRecord
<1>2. flash \in [Slots -> FlashRecord] /\ \A s \in Slots : flash[s] = Erased
  BY <1>1 DEF Init
<1>3. Typed
  BY <1>2 DEF Init, Typed
<1>4. Genuine
  BY <1>2, Ranges DEF Genuine, Marked, Erased
<1>5. Filled(flash) /\ Numbered(flash)
  BY <1>2, ErasedSector
<1> QED BY <1>3, <1>4, <1>5 DEF Init, Inv, Passed, Tidy, Writing, ConfirmedIsLoaded

LEMMA LoadedTyped == ASSUME Typed PROVE Loaded(flash) \in Payloads \cup {None}
<1>1. CASE NewestSlot(flash) # None
  <2>1. NewestSlot(flash) \in Slots /\ RecordValid(flash[NewestSlot(flash)])
    BY <1>1, NewestValid
  <2> DEFINE r == flash[NewestSlot(flash)]
  <2>2. r \in FlashRecord /\ RecordValid(r) /\ Loaded(flash) = r.payload
    BY <1>1, <2>1 DEF Typed, Loaded
  <2> HIDE DEF r
  <2>3. r.payload \in Payloads \cup {Blank, Torn} /\ r.payload # Torn /\ r.payload # Blank
    BY <2>2 DEF FlashRecord, RecordValid
  <2> QED BY <2>2, <2>3
<1>2. CASE NewestSlot(flash) = None
  BY <1>2 DEF Loaded
<1> QED BY <1>1, <1>2

(* What begins with a call of storage_save.                                *)
Call(p) == [payload |-> p, slot |-> FreeSlot(flash), word |-> 1,
            sequence |-> (Sequence(flash) + 1) % SequenceCount,
            before |-> Loaded(flash)]
Free == {s \in Slots : flash[s].magic = Blank}

LEMMA FreeIsFirst ==
  \/ FreeSlot(flash) = None /\ Free = {}
  \/ FreeSlot(flash) \in Free /\ \A s \in Free : FreeSlot(flash) <= s
<1>1. Free \subseteq Nat
  BY Ranges DEF Free
<1>2. Free # {} => \E s \in Free : \A t \in Free : s <= t
  BY <1>1, LeastNatural
<1> QED BY <1>2 DEF FreeSlot, Free

LEMMA CallTyped ==
  ASSUME Inv, NEW p \in Payloads
  PROVE  Call(p) \in Saves /\ Call(p) # None
<1>1. Typed
  BY DEF Inv
<1>2. (Sequence(flash) + 1) % SequenceCount \in SequenceNumbers
  <2>1. \A n \in Int : n % SequenceCount \in SequenceNumbers
    BY Ranges DEF SequenceNumbers
  <2>2. Sequence(flash) \in Int
    <3>1. CASE NewestSlot(flash) # None
      <4> DEFINE r == flash[NewestSlot(flash)]
      <4>1. r \in FlashRecord /\ r.valid # Blank /\ Marked(r, past)
        BY <1>1, <3>1, NewestValid, Ranges DEF Inv, Typed, Genuine, RecordValid
      <4>2. r.sequence \in SequenceNumbers
        BY <4>1 DEF Marked, FlashRecord
      <4> QED BY <3>1, <4>2 DEF Sequence, SequenceNumbers
    <3>2. CASE NewestSlot(flash) = None
      BY <3>2 DEF Sequence
    <3> QED BY <3>1, <3>2
  <2>3. Sequence(flash) + 1 \in Int
    BY <2>2
  <2> QED BY <2>1, <2>3
<1>3. FreeSlot(flash) \in Slots \cup {None}
  BY FreeIsFirst DEF Free
<1> QED BY <1>1, <1>2, <1>3, LoadedTyped, Ranges DEF Call, Saves

LEMMA BeginInv == ASSUME Inv, NEW p \in Payloads, Begin(p) PROVE Inv'
<1> DEFINE call == Call(p)
<1>1. save = None /\ save' = call /\ confirmed' = None /\ UNCHANGED <<flash, past, scarred>>
  BY DEF Begin, Call
<1>2. Typed
  BY DEF Inv
<1>3. /\ call.payload = p /\ call.slot = FreeSlot(flash) /\ call.word = 1
      /\ call.sequence = (Sequence(flash) + 1) % SequenceCount
  BY DEF Call
<1>4. \/ FreeSlot(flash) = None /\ Free = {}
      \/ FreeSlot(flash) \in Free /\ \A s \in Free : FreeSlot(flash) <= s
  BY FreeIsFirst
<1>5. call \in Saves /\ call # None
  BY CallTyped
<1> HIDE DEF call
<1>6. Typed'
  BY <1>1, <1>2, <1>3, <1>5 DEF Typed
<1>7. Genuine' /\ ConfirmedIsLoaded'
  BY <1>1 DEF Inv, Genuine, ConfirmedIsLoaded
<1>8. Passed'
  BY <1>1, <1>3 DEF Passed
<1>9. ASSUME ~scarred PROVE Filled(flash)' /\ Numbered(flash)' /\ Writing'
  <2>1. Filled(flash) /\ Numbered(flash)
    BY <1>9 DEF Inv, Tidy
  <2>2. Filled(flash)' /\ Numbered(flash)'
    BY <1>1, <2>1 DEF Filled, Numbered
  <2>3. ASSUME call.slot # None
        PROVE  /\ flash[call.slot] = Prefix(call)
               /\ \A s \in Slots : /\ s < call.slot => flash[s].magic # Blank
                                   /\ s > call.slot => flash[s] = Erased
               /\ NewestSlot(flash) # None =>
                    call.sequence = (flash[NewestSlot(flash)].sequence + 1) % SequenceCount
    <3>1. call.slot \in Free /\ \A s \in Free : call.slot <= s
      BY <1>3, <1>4, <2>3
    <3>2. flash[call.slot] = Erased
      BY <2>1, <3>1 DEF Filled, Free
    <3>3. Prefix(call) = Erased
      BY <1>3 DEF Prefix, Erased
    <3>4. ASSUME NEW s \in Slots, s < call.slot PROVE flash[s].magic # Blank
      <4>1. s \in Nat /\ call.slot \in Nat
        BY <3>1, <3>4, Ranges DEF Free
      <4>2. ~(call.slot <= s)
        BY <3>4, <4>1
      <4> QED BY <3>1, <3>4, <4>2 DEF Free
    <3>5. ASSUME NEW s \in Slots, s > call.slot PROVE flash[s] = Erased
      BY <2>1, <3>1, <3>5 DEF Filled, Free
    <3>6. NewestSlot(flash) # None =>
            call.sequence = (flash[NewestSlot(flash)].sequence + 1) % SequenceCount
      BY <1>3 DEF Sequence
    <3> QED BY <3>2, <3>3, <3>4, <3>5, <3>6
  <2> QED BY <1>1, <2>2, <2>3 DEF Writing
<1>10. Tidy'
  BY <1>1, <1>9 DEF Tidy
<1> QED BY <1>6, <1>7, <1>8, <1>10 DEF Inv

(* A call that ends leaves nothing of itself to say.                       *)
LEMMA EndInv ==
  ASSUME Typed, save # None, save' = None, UNCHANGED confirmed, UNCHANGED scarred,
         flash' \in [Slots -> FlashRecord], past' \subseteq Payloads, Genuine',
         ~scarred => Filled(flash)' /\ Numbered(flash)'
  PROVE  Inv'
BY DEF Inv, Typed, Passed, Tidy, Writing, ConfirmedIsLoaded

LEMMA RefuseInv == ASSUME Inv, Refuse PROVE Inv'
<1>1. save # None /\ save' = None /\ UNCHANGED <<flash, confirmed, past, scarred>>
  BY DEF Refuse, End
<1> QED BY <1>1, EndInv DEF Inv, Typed, Genuine, Tidy, Filled, Numbered

LEMMA EraseInv == ASSUME Inv, Erase PROVE Inv'
<1>1. /\ save # None /\ flash' = [slot \in Slots |-> Erased]
      /\ save' = [save EXCEPT !.slot = 1] /\ scarred' = FALSE
      /\ UNCHANGED <<confirmed, past>>
  BY DEF Erase, Accepted
<1>2. Erased \in FlashRecord /\ \A s \in Slots : flash'[s] = Erased
  BY <1>1 DEF Erased, FlashRecord
<1>3. save \in Saves /\ save.word = 1
  BY <1>1 DEF Inv, Typed, Erase
<1>4. /\ save' \in Saves /\ save' # None /\ save'.slot = 1 /\ save'.word = 1
      /\ save'.payload = save.payload
  BY <1>1, <1>3, Ranges DEF Saves
<1>5. Typed'
  <2>1. flash' \in [Slots -> FlashRecord]
    BY <1>1, <1>2
  <2> QED BY <1>1, <1>4, <2>1, Ranges DEF Inv, Typed
<1>6. Genuine'
  BY <1>2, Ranges DEF Genuine, Marked, Erased
<1>7. Filled(flash') /\ Numbered(flash') /\ NewestSlot(flash') = None
  BY <1>2, ErasedSector
<1>8. Writing'
  <2>1. Prefix(save') = Erased
    BY <1>4 DEF Prefix, Erased
  <2>2. \A s \in Slots : ~(s < 1)
    BY Ranges
  <2> QED BY <1>2, <1>4, <1>7, <2>1, <2>2, Ranges DEF Writing
<1> QED BY <1>1, <1>4, <1>5, <1>6, <1>7, <1>8
        DEF Inv, Passed, Tidy, Filled, Numbered, ConfirmedIsLoaded, Typed

(* An erase that does not finish tears records, but makes none.            *)
LEMMA EraseCutShortInv == ASSUME Inv, EraseCutShort PROVE Inv'
<1>1. /\ save # None /\ save' = None /\ flash' \in HalfErased(flash)
      /\ scarred' = TRUE /\ UNCHANGED <<confirmed, past>>
  BY DEF EraseCutShort, Accepted, End
<1>2. \A s \in Slots : flash'[s] \in Remains(flash[s])
  BY <1>1 DEF HalfErased
<1>3. ASSUME NEW s \in Slots PROVE flash'[s] \in FlashRecord /\ Marked(flash'[s], past)
  <2> DEFINE r == flash[s]
             q == flash'[s]
  <2>1. r \in FlashRecord /\ Marked(r, past)
    BY DEF Inv, Typed, Genuine
  <2>2. \/ q = r \/ q = Erased
        \/ q = [r EXCEPT !.magic = Blank] \/ q = [r EXCEPT !.payload = Torn]
    BY <1>2 DEF Remains
  <2> HIDE DEF r, q
  <2>3. CASE q = r
    BY <2>1, <2>3 DEF q
  <2>4. CASE q = Erased
    BY <2>4, Ranges DEF Erased, FlashRecord, Marked, q
  <2>5. CASE q = [r EXCEPT !.magic = Blank]
    BY <2>1, <2>5 DEF FlashRecord, Marked, q
  <2>6. CASE q = [r EXCEPT !.payload = Torn]
    BY <2>1, <2>6, Ranges DEF FlashRecord, Marked, q
  <2> QED BY <2>2, <2>3, <2>4, <2>5, <2>6
<1>4. flash' \in [Slots -> FlashRecord]
  <2>1. flash' \in [Slots -> UNION {Remains(flash[s]) : s \in Slots}]
    BY <1>1 DEF HalfErased
  <2>2. flash' = [s \in Slots |-> flash'[s]]
    BY <2>1
  <2> QED BY <1>3, <2>2
<1>5. Genuine'
  BY <1>1, <1>3 DEF Genuine
<1>6. confirmed' = None
  BY <1>1 DEF Inv, Typed
<1> QED BY <1>1, <1>4, <1>5, <1>6
        DEF Inv, Typed, Passed, Tidy, Writing, ConfirmedIsLoaded

LEMMA ProgramFailsInv == ASSUME Inv, ProgramFails PROVE Inv'
<1>1. PICK v : WordStep(v) /\ (v = "VALI" /\ save.word = 5 => Old = "VALI")
  <2>1. PICK v \in {Old} \cup TornWord(Words[save.word]) :
          flash' = [flash EXCEPT ![save.slot][Words[save.word]] = v]
    BY DEF ProgramFails, Old
  <2>2. WordStep(v)
    BY <2>1 DEF ProgramFails, WordStep
  <2>3. v = "VALI" /\ save.word = 5 => v = Old
    BY <2>1, WordNames, Ranges DEF TornWord
  <2> QED BY <2>2, <2>3
<1>2. save # None /\ save' = None /\ UNCHANGED <<confirmed, past, scarred>>
  BY DEF ProgramFails, Accepted, End
<1>3. flash' \in [Slots -> FlashRecord]
  BY <1>1, WordChange DEF Inv
<1>4. Genuine'
  BY <1>1, <1>2, WordGenuine DEF Inv
<1>5. ~scarred => Filled(flash)' /\ Numbered(flash)'
  BY <1>1, WordTidy
<1> QED BY <1>2, <1>3, <1>4, <1>5, EndInv DEF Inv, Typed

LEMMA PowerLossInv == ASSUME Inv, PowerLossInSave PROVE Inv'
<1>1. save # None /\ save' = None /\ UNCHANGED <<confirmed, scarred>>
  BY DEF PowerLossInSave, Accepted, End
<1>2. past \subseteq past' /\ past' \subseteq Payloads
  BY SaveTyped DEF PowerLossInSave, Inv, Typed, Accepted
<1>3. CASE save.slot = None
  <2>1. UNCHANGED <<flash, past>>
    BY <1>3 DEF PowerLossInSave
  <2> QED BY <1>1, <2>1, EndInv DEF Inv, Typed, Genuine, Tidy, Filled, Numbered
<1>4. CASE save.slot # None
  <2>1. PICK v : WordStep(v)
    BY <1>4 DEF PowerLossInSave, WordStep, Old
  <2>2. v = "VALI" /\ save.word = 5 => save.payload \in past'
    <3> SUFFICES ASSUME v = "VALI", save.word = 5 PROVE save.payload \in past'
      OBVIOUS
    <3>1. flash'[save.slot].valid = "VALI"
      BY <2>1, WordChange DEF Inv
    <3> QED BY <1>4, <3>1, WordNames DEF PowerLossInSave, Last
  <2>3. flash' \in [Slots -> FlashRecord]
    BY <2>1, WordChange DEF Inv
  <2>4. Genuine'
    BY <1>2, <2>1, <2>2, WordGenuine DEF Inv
  <2>5. ~scarred => Filled(flash)' /\ Numbered(flash)'
    BY <2>1, WordTidy
  <2> QED BY <1>1, <1>2, <2>3, <2>4, <2>5, EndInv DEF Inv
<1> QED BY <1>3, <1>4

LEMMA ProgramWordInv == ASSUME Inv, ProgramWord PROVE Inv'
<1> DEFINE k == save.word
           r == flash[save.slot]
           q == flash'[save.slot]
<1>1. PICK v \in Programmed(Words[k], Old, Record(save)[Words[k]]) :
        flash' = [flash EXCEPT ![save.slot][Words[k]] = v]
  BY DEF ProgramWord, Old
<1>2. WordStep(v)
  BY <1>1 DEF ProgramWord, WordStep
<1>3. /\ save # None /\ save \in Saves /\ save.slot \in Slots /\ save.payload \in Payloads
      /\ save.slot # None /\ k \in {1, 2, 3, 4, 5} /\ confirmed = None
  BY SaveTyped, Ranges DEF Inv, Typed, ProgramWord, Accepted
<1>4. UNCHANGED scarred
  BY DEF ProgramWord
<1>5. /\ flash' \in [Slots -> FlashRecord]
      /\ \A s \in Slots : s # save.slot => flash'[s] = flash[s]
      /\ q.magic    = IF k = 1 THEN v ELSE r.magic
      /\ q.sequence = IF k = 2 THEN v ELSE r.sequence
      /\ q.crc      = IF k = 3 THEN v ELSE r.crc
      /\ q.payload  = IF k = 4 THEN v ELSE r.payload
      /\ q.valid    = IF k = 5 THEN v ELSE r.valid
  BY <1>2, WordChange DEF Inv
<1>6. ~scarred => /\ r = Prefix(save)
                  /\ Old = Blank /\ v = Record(save)[Words[k]]
  <2> SUFFICES ASSUME ~scarred PROVE r = Prefix(save) /\ Old = Blank /\ v = Record(save)[Words[k]]
    OBVIOUS
  <2>1. r = Prefix(save)
    BY <1>3 DEF Inv, Tidy, Writing
  <2>2. Old = Blank
    BY <1>3, <2>1, WordNames DEF Old, Prefix
  <2> QED BY <1>1, <2>1, <2>2 DEF Programmed
<1>7. CASE Last
  <2>1. k = 5 /\ save' = None /\ confirmed' = save.payload /\ past' = past \cup {save.payload}
    BY <1>7, WordNames DEF ProgramWord, Last, End
  <2>2. Genuine'
    BY <1>2, <2>1, WordGenuine DEF Inv
  <2>3. ~scarred => Filled(flash)' /\ Numbered(flash)'
    BY <1>2, WordTidy
  <2>4. ~scarred => Loaded(flash') = save.payload
    <3>1. ~scarred => v = "VALI"
      BY <1>6, <2>1, WordNames DEF Record
    <3> QED BY <1>2, <2>1, <3>1, WordTidy
  <2>5. Typed'
    BY <1>3, <1>4, <1>5, <2>1 DEF Inv, Typed
  <2> QED BY <1>4, <2>1, <2>2, <2>3, <2>4, <2>5
          DEF Inv, Passed, Tidy, Writing, ConfirmedIsLoaded
<1>8. CASE ~Last
  <2>1. /\ k \in {1, 2, 3, 4} /\ save' = [save EXCEPT !.word = k + 1]
        /\ UNCHANGED <<confirmed, past>>
    BY <1>3, <1>8, WordNames DEF ProgramWord, Last
  <2>2. /\ save' \in Saves /\ save'.word = k + 1 /\ save'.slot = save.slot
        /\ save'.payload = save.payload /\ save'.sequence = save.sequence
        /\ save' # None
    BY <1>3, <2>1, Ranges DEF Saves
  <2>3. Typed'
    BY <1>3, <1>4, <1>5, <2>1, <2>2 DEF Inv, Typed
  <2>4. Genuine'
    BY <1>2, <2>1, WordGenuine DEF Inv
  <2>5. Passed'
    <3>1. /\ k > 2 => r.sequence # Blank
          /\ k > 3 => r.crc \in {save.payload, Torn}
      BY <1>3 DEF Inv, Passed
    <3>2. k = 2 => v # Blank
      <4>1. TornNumbers \subseteq SequenceNumbers /\ save.sequence \in SequenceNumbers
        BY <1>3, SaveTyped, Ranges DEF TornNumbers, SequenceNumbers, Inv
      <4> QED BY <1>1, <4>1, WordNames, Ranges DEF Programmed, TornWord, Record
    <3>3. k \in {3, 4} => v \in {save.payload, Torn}
      BY <1>1, WordNames DEF Programmed, TornWord, Record
    <3> HIDE DEF q, r, k
    <3>4. /\ k + 1 > 2 => q.sequence # Blank
          /\ k + 1 > 3 => q.crc \in {save.payload, Torn}
          /\ k + 1 > 4 => q.payload \in {save.payload, Torn}
      BY <1>5, <2>1, <3>1, <3>2, <3>3
    <3> QED BY <2>2, <3>4 DEF Passed, q
  <2>6. ASSUME ~scarred PROVE Filled(flash)' /\ Numbered(flash)' /\ Writing'
    <3>1. /\ Filled(flash)' /\ Numbered(flash)'
          /\ NewestSlot(flash') = NewestSlot(flash)
      BY <1>2, <2>1, <2>6, WordTidy
    <3>2. /\ r = Prefix(save)
          /\ \A s \in Slots : /\ s < save.slot => flash[s].magic # Blank
                              /\ s > save.slot => flash[s] = Erased
          /\ NewestSlot(flash) # None =>
               save.sequence = (flash[NewestSlot(flash)].sequence + 1) % SequenceCount
      BY <1>3, <2>6 DEF Inv, Tidy, Writing
    <3>3. q = Prefix(save')
      <4>1. /\ r.magic = (IF k > 1 THEN "RET2" ELSE Blank)
            /\ r.sequence = (IF k > 2 THEN save.sequence ELSE Blank)
            /\ r.crc = (IF k > 3 THEN save.payload ELSE Blank)
            /\ r.payload = (IF k > 4 THEN save.payload ELSE Blank)
            /\ r.valid = Blank
        BY <3>2 DEF Prefix
      <4>2. /\ k = 1 => v = "RET2"
            /\ k = 2 => v = save.sequence
            /\ k \in {3, 4} => v = save.payload
        BY <1>6, <2>6, WordNames DEF Record
      <4>3. q \in FlashRecord
        BY <1>3, <1>5
      <4> HIDE DEF q, r, k
      <4>4. /\ q.magic = (IF k + 1 > 1 THEN "RET2" ELSE Blank)
            /\ q.sequence = (IF k + 1 > 2 THEN save.sequence ELSE Blank)
            /\ q.crc = (IF k + 1 > 3 THEN save.payload ELSE Blank)
            /\ q.payload = (IF k + 1 > 4 THEN save.payload ELSE Blank)
            /\ q.valid = Blank
        BY <1>5, <2>1, <4>1, <4>2
      <4> QED BY <2>2, <4>3, <4>4 DEF Prefix, FlashRecord
    <3>4. \A s \in Slots : /\ s < save.slot => flash'[s].magic # Blank
                           /\ s > save.slot => flash'[s] = Erased
      BY <1>3, <1>5, <3>2, Ranges
    <3>5. NewestSlot(flash) # None => flash'[NewestSlot(flash)].sequence = flash[NewestSlot(flash)].sequence
      <4> SUFFICES ASSUME NewestSlot(flash) # None
                   PROVE  flash'[NewestSlot(flash)].sequence = flash[NewestSlot(flash)].sequence
        OBVIOUS
      <4>1. NewestSlot(flash) \in Slots /\ RecordValid(flash[NewestSlot(flash)])
        BY NewestValid
      <4>2. ~RecordValid(r)
        BY <3>2, Ranges DEF RecordValid, Prefix
      <4> QED BY <1>5, <4>1, <4>2
    <3> QED BY <2>2, <3>1, <3>2, <3>3, <3>4, <3>5 DEF Writing
  <2> QED BY <1>3, <1>4, <2>1, <2>3, <2>4, <2>5, <2>6
          DEF Inv, Tidy, ConfirmedIsLoaded
<1> QED BY <1>7, <1>8

LEMMA NextInv == Inv /\ [Next]_vars => Inv'
<1> SUFFICES ASSUME Inv, [Next]_vars PROVE Inv'
  OBVIOUS
<1>1. CASE UNCHANGED vars
  BY <1>1 DEF vars, Inv, Typed, Genuine, Passed, Tidy, Filled, Numbered, Writing,
              ConfirmedIsLoaded
<1>2. CASE Next
  BY <1>2, BeginInv, RefuseInv, EraseInv, EraseCutShortInv, ProgramWordInv,
     ProgramFailsInv, PowerLossInv DEF Next
<1> QED BY <1>1, <1>2

LEMMA Invariance == Spec => []Inv
BY InitInv, NextInv, PTL DEF Spec

LEMMA LoadsPast ==
  ASSUME NEW f \in [Slots -> FlashRecord], NEW saved, \A s \in Slots : Marked(f[s], saved)
  PROVE  Loaded(f) \in saved \cup {None}
<1>1. CASE NewestSlot(f) # None
  <2> DEFINE r == f[NewestSlot(f)]
  <2>1. r \in FlashRecord /\ RecordValid(r) /\ Marked(r, saved) /\ Loaded(f) = r.payload
    BY <1>1, NewestValid DEF Loaded
  <2> HIDE DEF r
  <2>2. r.payload \in Payloads
    BY <2>1 DEF FlashRecord, RecordValid
  <2> QED BY <2>1, <2>2 DEF Marked, RecordValid
<1>2. CASE NewestSlot(f) = None
  BY <1>2 DEF Loaded
<1> QED BY <1>1, <1>2

-----------------------------------------------------------------------------
(* What a save that returned true has saved is what every later boot loads *)
(* (ret_stm32_storage_save, newest_record).                                *)
THEOREM ConfirmedSurvives == Spec => []ConfirmedIsLoaded
<1>1. Inv => ConfirmedIsLoaded
  BY DEF Inv
<1> QED BY <1>1, Invariance, PTL

(* A boot never loads anything that no save was called with                *)
(* (record_valid, program_words).                                          *)
THEOREM NothingTornIsLoaded == Spec => []NothingInvented
<1>1. Inv => NothingInvented
  BY LoadsPast DEF Inv, Typed, Genuine, NothingInvented
<1> QED BY <1>1, Invariance, PTL

-----------------------------------------------------------------------------
(* The journal implements PersistentStore, step by step. *)

Saving == IF save = None THEN None ELSE save.payload

LEMMA StoreInit == Init => Store!Init
<1> SUFFICES ASSUME Init PROVE Store!Init
  OBVIOUS
<1>1. Loaded(flash) = None
  BY ErasedSector DEF Init
<1> QED BY <1>1 DEF Init, Store!Init

(* What a step does to the payload that a save is called with.             *)
LEMMA SavingIs ==
  ASSUME Inv, save # None
  PROVE  Saving = save.payload /\ Saving \in Payloads /\ Saving # None
BY SaveTyped, Ranges DEF Inv, Saving

LEMMA BeginStored ==
  ASSUME Inv, NEW p \in Payloads, Begin(p)
  PROVE  Store!Begin(p)
<1>1. save' # None /\ save'.payload = p
  BY CallTyped DEF Begin, Call
<1>2. UNCHANGED Loaded(flash)
  BY DEF Begin, Loaded, NewestSlot
<1> QED BY <1>1, <1>2 DEF Begin, Store!Begin

(* The save goes on, or ends, with a sector from which it cannot be told   *)
(* what is loaded.                                                         *)
LEMMA MuddleStored ==
  ASSUME Inv, Inv', save # None, scarred, scarred',
         \/ Saving' = Saving /\ UNCHANGED <<returned, past>>
         \/ save' = None /\ returned' \in {"ok", "failed", "power lost"} /\ past' = past
         \/ /\ save' = None /\ returned' \in {"ok", "power lost"}
            /\ past' = past \cup {save.payload}
  PROVE  Store!Muddle \/ Store!Commit
<1>1. Loaded(flash') \in past' \cup {None}
  BY LoadsPast DEF Inv, Typed, Genuine
<1>2. scarred' = scarred
  BY DEF Inv, Typed
<1>3. CASE Loaded(flash') \in past \cup {None}
  BY <1>2, <1>3, SavingIs DEF Saving, Store!Muddle
<1>4. CASE Loaded(flash') \notin past \cup {None}
  BY <1>1, <1>2, <1>4, SavingIs DEF Saving, Store!Commit
<1> QED BY <1>3, <1>4

(* Nothing is in the way of the marker.                                    *)
LEMMA UnscarredWord ==
  ASSUME Inv, ~scarred, save # None, save.slot # None, save.word = 5
  PROVE  Old = Blank
BY WordNames DEF Inv, Tidy, Writing, Prefix, Old

LEMMA EraseStored == ASSUME Inv, Erase PROVE Store!Wipe
<1>1. Loaded(flash') = None
  BY ErasedSector DEF Erase
<1>2. save' # None /\ save'.payload = save.payload
  <2>1. save \in Saves /\ save # None /\ save' = [save EXCEPT !.slot = 1]
    BY DEF Erase, Accepted, Inv, Typed
  <2>2. save' \in Saves
    BY <2>1, Ranges DEF Saves
  <2> QED BY <2>1, <2>2, Ranges DEF Saves
<1> QED BY <1>1, <1>2, SavingIs DEF Erase, Accepted, Saving, Store!Wipe

LEMMA EraseCutShortStored == ASSUME Inv, Inv', EraseCutShort PROVE Store!Scar
<1>1. Loaded(flash') \in past' \cup {None}
  BY LoadsPast DEF Inv, Typed, Genuine
<1>2. /\ save # None /\ save' = None /\ scarred' = TRUE /\ UNCHANGED past
      /\ returned' \in {"failed", "power lost"}
  BY DEF EraseCutShort, Accepted, End
<1> QED BY <1>1, <1>2, SavingIs DEF Saving, Store!Scar

LEMMA RefuseStored == ASSUME Inv, Refuse PROVE Store!Abort
<1>1. UNCHANGED Loaded(flash)
  BY DEF Refuse, Loaded, NewestSlot
<1> QED BY <1>1, SavingIs DEF Refuse, End, Saving, Store!Abort

LEMMA ProgramFailsStored ==
  ASSUME Inv, Inv', ProgramFails
  PROVE  Store!Abort \/ Store!Muddle \/ Store!Commit
<1>1. PICK v : WordStep(v) /\ ~(save.word = 5 /\ v = "VALI" /\ Old = Blank)
  <2>1. PICK v \in {Old} \cup TornWord(Words[save.word]) :
          flash' = [flash EXCEPT ![save.slot][Words[save.word]] = v]
    BY DEF ProgramFails, Old
  <2>2. WordStep(v)
    BY <2>1 DEF ProgramFails, WordStep
  <2>3. save.word = 5 => v = Old \/ v = Torn
    BY <2>1, WordNames DEF TornWord
  <2> QED BY <2>2, <2>3, Ranges
<1>2. save # None /\ save' = None /\ returned' = "failed" /\ UNCHANGED <<past, scarred>>
  BY DEF ProgramFails, Accepted, End
<1>3. CASE scarred
  BY <1>2, <1>3, MuddleStored
<1>4. CASE ~scarred
  <2>1. save.word = 5 => Old = Blank
    BY <1>2, <1>4, UnscarredWord DEF ProgramFails
  <2>2. UNCHANGED Loaded(flash)
    BY <1>1, <1>4, <2>1, WordTidy
  <2> QED BY <1>2, <2>2, SavingIs DEF Saving, Store!Abort
<1> QED BY <1>3, <1>4, <1>2 DEF Inv, Typed

LEMMA PowerLossStored ==
  ASSUME Inv, Inv', PowerLossInSave
  PROVE  Store!Abort \/ Store!Muddle \/ Store!Commit
<1>1. save # None /\ save' = None /\ returned' = "power lost" /\ UNCHANGED scarred
  BY DEF PowerLossInSave, Accepted, End
<1>2. past' = past \/ past' = past \cup {save.payload}
  BY DEF PowerLossInSave
<1>3. CASE scarred
  BY <1>1, <1>2, <1>3, MuddleStored
<1>4. CASE ~scarred /\ save.slot = None
  <2>1. UNCHANGED <<flash, past>>
    BY <1>4 DEF PowerLossInSave
  <2>2. UNCHANGED Loaded(flash)
    BY <2>1 DEF Loaded, NewestSlot
  <2> QED BY <1>1, <2>1, <2>2, SavingIs DEF Saving, Store!Abort
<1>5. CASE ~scarred /\ save.slot # None
  <2>1. PICK v : WordStep(v)
    BY <1>5 DEF PowerLossInSave, WordStep, Old
  <2>2. CASE save.word = 5 /\ v = "VALI"
    <3>1. flash'[save.slot].valid = "VALI"
      BY <2>1, <2>2, WordChange DEF Inv
    <3>2. past' = past \cup {save.payload}
      BY <1>5, <2>2, <3>1, WordNames DEF PowerLossInSave, Last
    <3>3. Loaded(flash') = save.payload
      BY <1>5, <2>1, <2>2, WordTidy
    <3> QED BY <1>1, <3>2, <3>3, SavingIs DEF Saving, Store!Commit
  <2>3. CASE ~(save.word = 5 /\ v = "VALI")
    <3>1. UNCHANGED Loaded(flash)
      BY <1>5, <2>1, <2>3, WordTidy
    <3>2. past' = past
      <4>1. CASE save.word = 5
        <5>1. flash'[save.slot].valid = v
          BY <2>1, <4>1, WordChange DEF Inv
        <5> QED BY <2>3, <4>1, <5>1 DEF PowerLossInSave
      <4>2. CASE save.word # 5
        BY <4>2, WordNames DEF PowerLossInSave, Last
      <4> QED BY <4>1, <4>2
    <3> QED BY <1>1, <3>1, <3>2, SavingIs DEF Saving, Store!Abort
  <2> QED BY <2>2, <2>3
<1> QED BY <1>3, <1>4, <1>5 DEF Inv, Typed

LEMMA ProgramWordStored ==
  ASSUME Inv, Inv', ProgramWord
  PROVE  Store!Commit \/ Store!Muddle \/ UNCHANGED Store!vars
<1>1. PICK v : WordStep(v) /\ (~scarred /\ save.word = 5 => v = "VALI")
  <2>1. PICK v \in Programmed(Words[save.word], Old, Record(save)[Words[save.word]]) :
          flash' = [flash EXCEPT ![save.slot][Words[save.word]] = v]
    BY DEF ProgramWord, Old
  <2>2. WordStep(v)
    BY <2>1 DEF ProgramWord, WordStep
  <2>3. ~scarred /\ save.word = 5 => Old = Blank
    BY UnscarredWord DEF ProgramWord, Accepted
  <2> QED BY <2>1, <2>2, <2>3, WordNames DEF Programmed, Record
<1>2. save # None /\ UNCHANGED scarred
  BY DEF ProgramWord, Accepted
<1>3. CASE Last
  <2>1. save.word = 5 /\ save' = None /\ returned' = "ok" /\ past' = past \cup {save.payload}
    BY <1>3, WordNames DEF ProgramWord, Last, End
  <2>2. CASE scarred
    BY <1>2, <2>1, <2>2, MuddleStored
  <2>3. CASE ~scarred
    <3>1. Loaded(flash') = save.payload
      BY <1>1, <2>1, <2>3, WordTidy
    <3> QED BY <1>2, <2>1, <3>1, SavingIs DEF Saving, Store!Commit
  <2> QED BY <2>2, <2>3 DEF Inv, Typed
<1>4. CASE ~Last
  <2>1. /\ save.word # 5 /\ save' = [save EXCEPT !.word = @ + 1]
        /\ UNCHANGED <<returned, past>>
    BY <1>4, WordNames DEF ProgramWord, Last
  <2>2. Saving' = Saving
    <3>1. save \in Saves /\ save.word + 1 \in 1 .. 5
      BY <1>2, <2>1, SaveTyped DEF Inv, Typed
    <3>2. save' \in Saves /\ save'.payload = save.payload
      BY <2>1, <3>1 DEF Saves
    <3> QED BY <1>2, <3>2, Ranges DEF Saving
  <2>3. CASE scarred
    BY <1>2, <2>1, <2>2, <2>3, MuddleStored
  <2>4. CASE ~scarred
    <3>1. UNCHANGED Loaded(flash)
      BY <1>1, <2>1, <2>4, WordTidy
    <3> QED BY <1>2, <2>1, <2>2, <3>1 DEF Saving, Store!vars
  <2> QED BY <2>3, <2>4 DEF Inv, Typed
<1> QED BY <1>3, <1>4

LEMMA StoreNext == Inv /\ Inv' /\ [Next]_vars => [Store!Next]_(Store!vars)
<1> SUFFICES ASSUME Inv, Inv', [Next]_vars PROVE Store!Next \/ UNCHANGED Store!vars
  BY DEF Store!vars
<1>1. CASE UNCHANGED vars
  <2>1. UNCHANGED Loaded(flash)
    BY <1>1 DEF vars, Loaded, NewestSlot
  <2> QED BY <1>1, <2>1 DEF vars, Store!vars
<1>2. CASE Next
  BY <1>2, BeginStored, RefuseStored, EraseStored, EraseCutShortStored,
     ProgramWordStored, ProgramFailsStored, PowerLossStored DEF Next, Store!Next
<1> QED BY <1>1, <1>2

(* The journal keeps the promise of PersistentStore at every step: a save  *)
(* that returns true has replaced what is loaded, one that fails or loses  *)
(* power leaves the old payload or the new one (ret_stm32_storage_save,    *)
(* ret_stm32_storage_load).                                                *)
THEOREM JournalImplementsStore == Spec => StoreSpec
BY Invariance, StoreInit, StoreNext, PTL DEF Spec, StoreSpec, Store!Spec
=============================================================================
