------------------------------- MODULE Discovery -------------------------------
(***************************************************************************)
(* The scan of unaddressed devices, scanAisg2 and scanAisg3 of             *)
(* src/controller.cpp, against several devices on one bus.                 *)
(*                                                                         *)
(* A query is a device scan with a pattern of the unique identifier; every *)
(* device that has no address and matches answers, and the answers of      *)
(* several may come through or destroy each other.  A collision is         *)
(* resolved bit by bit, depth first: the calls of resolveCollision are a   *)
(* stack.  What was found is confirmed by its whole identifier, given the  *)
(* next address, and connected; the exchanges that read a device are one   *)
(* step with the SNRM before them.  AISG 3 connects each device when it    *)
(* has its address, AISG 2 all of them in the end.                         *)
(*                                                                         *)
(* The devices of AISG 2 are those of ret_protocol.c; what AISG 3 asks of  *)
(* a device is the same.  A frame that is lost, destroyed or heard without *)
(* another, a refusal and a link that times out are faults.                *)
(***************************************************************************)
EXTENDS Naturals, Sequences, SequencesExt

CONSTANTS
  Devices,
  Width,        (* bits of a padded identifier: 152, with the port 168     *)
  Vendor,       (* of them, those of the vendor: 16                        *)
  Benches,      (* what may be on the bus: unit identifiers of the devices *)
  Profiles,     (* what may be asked for: "aisg2", "aisg3"                 *)
  Echoes,       (* TRUE: the adapter returns what it is given to send      *)
  Resets,       (* TRUE: resetBeforeDiscovery                              *)
  LastAddress,  (* the scan hands out 1 .. LastAddress                     *)
  MaxQueries,   (* queries for one address: 512                            *)
  MaxFaults,    (* bound: faults of one scan                               *)
  None          (* no address, no device                                   *)

Addresses == 1 .. LastAddress
Bits == 1 .. Width

ASSUME DiscoveryAssumption ==
  /\ LastAddress \in Nat \ {0} /\ Width \in Nat /\ Vendor \in 0 .. Width
  /\ MaxQueries \in Nat \ {0} /\ MaxFaults \in Nat
  /\ None \notin Devices \cup Addresses /\ None \notin {"completed", "failed"}
  /\ Profiles \subseteq {"aisg2", "aisg3"} /\ Echoes \subseteq BOOLEAN
  /\ Resets \subseteq BOOLEAN
  /\ \A bench \in Benches, d \in Devices :
       bench[d] \in Seq({0, 1}) /\ Len(bench[d]) <= Width - Vendor

VARIABLES
  address,      (* of each device                                          *)
  bus,          (* what the scan runs on: bench, profile, echo, reset      *)
  scan,         (* the controller: see Scan                                *)
  listed,       (* devices_: addresses and whom the user sees there        *)
  fresh,        (* history: no device had an address when the scan began   *)
  faults        (* history: faults since the scan began                    *)

vars == <<address, bus, scan, listed, fresh, faults>>

(* The locals of a scan.  resolving holds the arguments of the calls of    *)
(* resolveCollision: the bits set so far, the next bit and its value.      *)
Call == [pattern : UNION {[S -> {0, 1}] : S \in SUBSET Bits},
         bit : 1 .. Width + 1, one : BOOLEAN]
Scan == [at : {"idle", "broad", "resolve", "confirm", "assign", "connect"},
         nextAddress : 1 .. LastAddress + 1,
         queryCount : 0 .. MaxQueries,
         resolving : Seq(Call),
         candidate : Devices \cup {None},
         assigned : Seq(Addresses \X Devices),
         cancelled : BOOLEAN,
         outcome : {None, "completed", "failed"}]

-----------------------------------------------------------------------------
(* The devices. *)

(* make_unique_id, padded between the vendor, the same for every device    *)
(* and all ones here, and the unit.                                        *)
Padded(d) ==
  [b \in Bits |-> LET unit == bus.bench[d] IN
     IF b <= Vendor THEN 1
     ELSE IF b <= Width - Len(unit) THEN 0 ELSE unit[b - (Width - Len(unit))]]

Matches(d, pattern) == \A b \in DOMAIN pattern : Padded(d)[b] = pattern[b]

Unaddressed == {d \in Devices : address[d] = None}

(* scan_uid_matches: a device that has an address does not answer. *)
Answering(pattern) == {d \in Unaddressed : Matches(d, pattern)}

(* The mask of a confirmation: the identifier of AISG 2 has no padding, so *)
(* the device compares the end of its own.                                 *)
Exact(d) ==
  LET known == IF bus.profile = "aisg3" THEN Bits
               ELSE {b \in Bits : b <= Vendor \/ b > Width - Len(bus.bench[d])}
  IN  [b \in known |-> Padded(d)[b]]

(* assignment_uid_matches: what was asked for is the end of the identifier *)
(* without padding; in AISG 3 it is the identifier.                        *)
Unpadded(d) == [b \in 1 .. Vendor |-> 1] \o bus.bench[d]
Takes(e, d) == IF bus.profile = "aisg3" THEN e = d
               ELSE IsSuffix(Unpadded(d), Unpadded(e))
Takers(d)   == {e \in Unaddressed : Takes(e, d)}

-----------------------------------------------------------------------------
(* exchangeXid: frames that were read, and what else there was. *)

Reception(M) == [frames : SUBSET M, rest : {"silence", "noise", "invalid"}]
Clean(M) ==
  {r \in Reception(M) :
     \/ r.frames = M /\ r.rest = "silence"
     \/ r.frames = {} /\ r.rest # "silence" /\ \E d, e \in M : d # e}

(* query.  AISG 2 takes the first of several devices, AISG 3 wants one;    *)
(* the echo of the request is activity to AISG 2, and to AISG 3 what stops *)
(* undecodable noise from being activity.                                  *)
Readable(r) ==
  /\ r.rest # "invalid" /\ r.frames # {}
  /\ bus.profile = "aisg3" => \A d, e \in r.frames : d = e

(* Mutant of Activity: what cannot be decoded is not heard. *)
Decoded(r) == r.frames # {} \/ r.rest = "invalid"
Activity(r) ==
  \/ r.frames # {} \/ r.rest = "invalid"
  \/ bus.profile = "aisg2" /\ (bus.echo \/ r.rest = "noise")
  \/ bus.profile = "aisg3" /\ ~bus.echo /\ r.rest = "noise"

Result(kind, d) == [kind |-> kind, device |-> d]
Results(r) ==
  IF Readable(r) THEN {Result("found", d) : d \in r.frames}
  ELSE {Result(IF Activity(r) THEN "collision" ELSE "none", None)}

(* After a cancellation nothing is sent. *)
QueryResults(M, faulty) ==
  IF scan.cancelled THEN {Result("none", None)}
  ELSE UNION {Results(r) : r \in IF faulty THEN Reception(M) ELSE Clean(M)}

-----------------------------------------------------------------------------
(* The scan. *)

(* A step of the scan which meets a fault, or does not. *)
Meets(faulty) ==
  /\ faulty => faults < MaxFaults
  /\ faults' = IF faulty THEN faults + 1 ELSE faults

Queries(pattern, result) ==
  \E faulty \in BOOLEAN :
    /\ scan.queryCount < MaxQueries
    /\ result \in QueryResults(Answering(pattern), faulty)
    /\ Meets(faulty)

(* It returns, or throws: the locals are gone. *)
Locals == [at |-> "idle", nextAddress |-> 1, queryCount |-> 0, resolving |-> <<>>,
           candidate |-> None, assigned |-> <<>>, cancelled |-> FALSE,
           outcome |-> None]
Ended(how) == [Locals EXCEPT !.cancelled = scan.cancelled, !.outcome = how]

(* A scan that goes on with the locals next, having changed nothing else. *)
Goes(next) == scan' = next /\ UNCHANGED <<address, bus, listed, fresh>>
Asked == [scan EXCEPT !.queryCount = @ + 1]

(* The broadcast that resets the devices of a virtual bench, which one may *)
(* miss; nothing else makes a device give up the address it has.           *)
BeginScan ==
  /\ scan.at = "idle"
  /\ \E missing \in SUBSET {d \in Devices : address[d] # None} :
       /\ address' = IF bus.reset
            THEN [d \in Devices |-> IF d \in missing THEN address[d] ELSE None]
            ELSE address
       /\ missing # {} => bus.reset /\ MaxFaults > 0
       /\ faults' = IF missing # {} THEN 1 ELSE 0
  /\ scan' = [Locals EXCEPT !.at = "broad"]
  /\ listed' = {} /\ fresh' = (\A d \in Devices : address'[d] = None)
  /\ UNCHANGED bus

(* Mutant of PoolEmpty: one address too many. *)
PoolOverrun == scan.nextAddress > LastAddress + 1
PoolEmpty == scan.nextAddress > LastAddress

(* The loop over addresses ends: AISG 2 connects what has an address. *)
AllFound == Goes(IF bus.profile = "aisg2" THEN [scan EXCEPT !.at = "connect"]
              ELSE Ended("completed"))
LeaveLoop ==
  /\ scan.at = "broad" /\ (scan.cancelled \/ PoolEmpty)
  /\ AllFound /\ UNCHANGED faults

(* The query that every device answers. *)
Broad ==
  /\ scan.at = "broad" /\ ~PoolEmpty
  /\ \E result \in [kind : {"none", "found", "collision"}, device : Devices \cup {None}] :
       /\ Queries(<<>>, result)
       /\ CASE result.kind = "none" -> AllFound
            [] result.kind = "found" ->
                 Goes([Asked EXCEPT !.at = "confirm", !.candidate = result.device])
            [] result.kind = "collision" ->
                 Goes([Asked EXCEPT !.at = "resolve",
                         !.resolving = <<[pattern |-> <<>>, bit |-> 1, one |-> FALSE]>>])

(* resolveCollision. *)
Innermost == scan.resolving[Len(scan.resolving)]
Outer     == SubSeq(scan.resolving, 1, Len(scan.resolving) - 1)
Branch(call) ==
  [b \in DOMAIN call.pattern \cup {call.bit} |->
     IF b = call.bit THEN (IF call.one THEN 1 ELSE 0) ELSE call.pattern[b]]

NextBranch(call) ==
  IF call.one THEN [call EXCEPT !.bit = @ + 1, !.one = FALSE]
              ELSE [call EXCEPT !.one = TRUE]

Resolve ==
  /\ scan.at = "resolve" /\ scan.resolving # <<>> /\ Innermost.bit <= Width
  /\ LET rest == Append(Outer, NextBranch(Innermost))
         deeper == [pattern |-> Branch(Innermost), bit |-> Innermost.bit + 1, one |-> FALSE]
     IN \E result \in [kind : {"none", "found", "collision"}, device : Devices \cup {None}] :
          /\ Queries(Branch(Innermost), result)
          /\ Goes(CASE result.kind = "none" -> [Asked EXCEPT !.resolving = rest]
                    [] result.kind = "found" ->
                         [Asked EXCEPT !.at = "confirm", !.resolving = <<>>,
                                       !.candidate = result.device]
                    [] result.kind = "collision" ->
                         [Asked EXCEPT !.resolving = Append(rest, deeper)])

(* Out of bits: the call finds nothing; the outermost one throws. *)
ResolvedNothing ==
  /\ scan.at = "resolve" /\ Innermost.bit > Width
  /\ Goes(IF Outer = <<>> THEN Ended("failed") ELSE [scan EXCEPT !.resolving = Outer])
  /\ UNCHANGED faults

Confirm ==
  /\ scan.at = "confirm"
  /\ \E result \in [kind : {"none", "found", "collision"}, device : Devices \cup {None}] :
       /\ Queries(Exact(scan.candidate), result)
       /\ Goes(IF result = Result("found", scan.candidate)
               THEN [Asked EXCEPT !.at = "assign"] ELSE Ended("failed"))

TooManyQueries ==
  /\ scan.at \in {"resolve", "confirm"} /\ scan.queryCount = MaxQueries
  /\ scan.at = "resolve" => Innermost.bit <= Width
  /\ Goes(Ended("failed")) /\ UNCHANGED faults

-----------------------------------------------------------------------------
(* Addresses. *)

(* Mutant of NextAddress: the address stays for the next device. *)
SameAddress(s) == [s EXCEPT !.at = "broad", !.queryCount = 0, !.candidate = None]
NextAddress(s) ==
  [s EXCEPT !.at = "broad", !.queryCount = 0, !.candidate = None, !.nextAddress = @ + 1]

(* The request reaches those it names, who take the address and say so;    *)
(* the scan goes on if the candidate was heard.                            *)
Assign ==
  /\ scan.at = "assign"
  /\ \E faulty \in BOOLEAN :
       \E heard \in SUBSET Takers(scan.candidate) : \E r \in Reception(heard) :
         /\ Meets(faulty)
         /\ scan.cancelled => heard = {} /\ r.rest = "silence"
         /\ ~faulty /\ ~scan.cancelled => heard = Takers(scan.candidate) /\ r \in Clean(heard)
         /\ address' = [d \in Devices |->
                          IF d \in heard THEN scan.nextAddress ELSE address[d]]
         /\ LET given == [scan EXCEPT !.assigned =
                            Append(@, <<scan.nextAddress, scan.candidate>>)]
            IN  scan' = IF scan.candidate \notin r.frames THEN Ended("failed")
                        ELSE IF bus.profile = "aisg2" THEN NextAddress(given)
                        ELSE [given EXCEPT !.at = "connect"]
  /\ UNCHANGED <<bus, listed, fresh>>

Holders(a) == {d \in Devices : address[d] = a}

(* Mutant of Unanswered: the device is passed over. *)
PassedOver == [scan EXCEPT !.assigned = Tail(@)]
Unanswered == Ended("failed")

(* SNRM, then what is read from the device, which is listed. *)
Connect ==
  /\ scan.at = "connect" /\ scan.assigned # <<>>
  /\ LET next == Head(scan.assigned)
         left == [scan EXCEPT !.assigned = Tail(@)]
     IN \E faulty \in BOOLEAN : \E r \in Reception(Holders(next[1])) :
          /\ Meets(faulty)
          /\ scan.cancelled => r.frames = {}
          /\ ~faulty /\ ~scan.cancelled => r \in Clean(Holders(next[1]))
          /\ IF r.frames = {}
             THEN scan' = Unanswered /\ UNCHANGED listed
             ELSE /\ listed' = {l \in listed : l[1] # next[1]} \cup {next}
                  /\ scan' = IF bus.profile = "aisg2" THEN left ELSE NextAddress(left)
  /\ UNCHANGED <<address, bus, fresh>>

AllConnected ==
  /\ scan.at = "connect" /\ bus.profile = "aisg2"
  /\ scan.cancelled \/ scan.assigned = <<>>
  /\ Goes(Ended("completed")) /\ UNCHANGED faults

Cancel ==
  /\ scan.at # "idle" /\ Goes([scan EXCEPT !.cancelled = TRUE]) /\ UNCHANGED faults

(* A device is switched off and on, or its link times out: a fault if the  *)
(* scan is in progress.                                                    *)
Restart(d) ==
  /\ address[d] # None
  /\ address' = [address EXCEPT ![d] = None]
  /\ Meets(scan.at # "idle")
  /\ UNCHANGED <<bus, scan, listed, fresh>>

Init ==
  /\ address = [d \in Devices |-> None]
  /\ bus \in [bench : Benches, profile : Profiles, echo : Echoes, reset : Resets]
  /\ bus.reset => bus.profile = "aisg2"
  /\ scan = Locals /\ listed = {} /\ fresh = TRUE /\ faults = 0

Next ==
  \/ BeginScan \/ LeaveLoop \/ Broad \/ Resolve \/ ResolvedNothing
  \/ Confirm \/ TooManyQueries \/ Assign \/ Connect \/ AllConnected
  \/ Cancel \/ \E d \in Devices : Restart(d)

Spec == Init /\ [][Next]_vars
-----------------------------------------------------------------------------
TypeOK ==
  /\ address \in [Devices -> Addresses \cup {None}]
  /\ scan \in Scan
  /\ listed \subseteq Addresses \X Devices
  /\ fresh \in BOOLEAN /\ faults \in 0 .. MaxFaults

(* No device takes the assignment of another one for its own, which it     *)
(* would if its identifier ended with the whole of the other.              *)
Separate == \A d, e \in Devices : Takes(e, d) => e = d

(* When no device had an address at the start, no two have the same one    *)
(* now, whatever was lost, destroyed, cancelled or timed out since: an     *)
(* address is asked for once (scanAisg2, scanAisg3, process_xid).          *)
UniqueAddresses ==
  fresh /\ Separate =>
    \A d, e \in Devices : address[d] = address[e] /\ address[d] # None => d = e

(* A scan that completes lists every device it found and addressed, and    *)
(* under its own address, whatever went wrong: none is left that can       *)
(* neither be found again nor be used.                                     *)
AddressedAreListed ==
  fresh /\ Separate /\ scan.outcome = "completed" /\ ~scan.cancelled
    => \A d \in Devices : address[d] # None => <<address[d], d>> \in listed

(* Without faults and echoes a fresh scan completes and lists every device *)
(* as long as there are addresses, whichever answers collide: it stays     *)
(* below the limit of queries.  It needs identifiers none of which another *)
(* device takes for its own.                                               *)
Distinct == \A d, e \in Devices : d # e => ~Matches(e, Exact(d))
FindsAll ==
  fresh /\ Distinct /\ ~bus.echo
  /\ scan.outcome # None /\ ~scan.cancelled /\ faults = 0
    => /\ scan.outcome = "completed"
       /\ {l[2] : l \in listed} = Devices \/ {l[1] : l \in listed} = Addresses
=============================================================================
