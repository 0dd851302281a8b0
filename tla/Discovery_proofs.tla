--------------------------- MODULE Discovery_proofs ---------------------------
(***************************************************************************)
(* Proofs about Discovery: types, that no two devices end up with one      *)
(* address, that a scan that completes has listed whoever has one, and     *)
(* that an undisturbed one finds everyone, for any number of devices, any  *)
(* identifiers and either profile.                                         *)
(***************************************************************************)
EXTENDS Discovery, TLAPS

(* A device is looked for only while there is an address to give it.       *)
PoolHolds ==
  /\ scan.at \in {"resolve", "confirm", "assign"} => scan.nextAddress <= LastAddress
  /\ scan.at = "connect" /\ bus.profile # "aisg2" => scan.nextAddress <= LastAddress
  /\ scan.at \in {"confirm", "assign"} => scan.candidate \in Devices

(* During a fresh scan every address in use has been handed out by it.     *)
HandedOut ==
  fresh /\ Separate /\ scan.at # "idle" =>
    \A d \in Devices : address[d] # None =>
      IF scan.at = "connect" THEN address[d] <= scan.nextAddress
                             ELSE address[d] < scan.nextAddress

Inv == TypeOK /\ PoolHolds /\ HandedOut /\ UniqueAddresses

-----------------------------------------------------------------------------
(* The answer to a query: a device that was found is a device, and a query *)
(* is counted below the limit and its fault too.                           *)
LEMMA QueryFinds ==
  ASSUME TypeOK, NEW pattern, NEW result, Queries(pattern, result)
  PROVE  /\ result.kind = "found" => result.device \in Devices
         /\ scan.queryCount < MaxQueries
         /\ faults' \in 0 .. MaxFaults
<1> USE DiscoveryAssumption
<1>1. PICK faulty \in BOOLEAN :
        /\ scan.queryCount < MaxQueries
        /\ result \in QueryResults(Answering(pattern), faulty)
        /\ Meets(faulty)
  BY DEF Queries
<1>2. faults' \in 0 .. MaxFaults
  BY <1>1 DEF TypeOK, Meets
<1>3. ASSUME result.kind = "found" PROVE result.device \in Devices
  <2>1. CASE scan.cancelled
    BY <1>1, <1>3, <2>1 DEF QueryResults, Result
  <2>2. CASE ~scan.cancelled
    <3>1. PICK r \in Reception(Answering(pattern)) : result \in Results(r)
      BY <1>1, <2>2 DEF QueryResults, Clean
    <3>2. PICK d \in r.frames : result = Result("found", d)
      BY <3>1, <1>3 DEF Results, Result
    <3>3. r.frames \subseteq Devices
      BY <3>1 DEF Reception, Answering, Unaddressed
    <3> QED BY <3>2, <3>3 DEF Result
  <2> QED BY <2>1, <2>2
<1> QED BY <1>1, <1>2, <1>3

(* Whether identifiers are told apart does not change.                     *)
LEMMA SeparateStays ==
  ASSUME bus' = bus PROVE Separate' = Separate
BY DEF Separate, Takes, Unpadded

(* A step that leaves the addresses alone, and at most ends the scan, goes *)
(* on to connect or looks for the same device further, keeps them unique.  *)
LEMMA SameAddressesUnique ==
  ASSUME Inv, UNCHANGED <<address, bus, fresh>>,
         scan' \in Scan,
         \/ scan'.at = "idle"
         \/ /\ scan.at \in {"broad", "resolve", "confirm"}
            /\ scan'.at # "idle" /\ scan'.nextAddress = scan.nextAddress
         \/ /\ scan.at # "idle" /\ scan'.nextAddress = scan.nextAddress
            /\ scan'.at = scan.at
         \/ /\ scan.at = "connect" /\ scan'.nextAddress = scan.nextAddress + 1
  PROVE  HandedOut' /\ UniqueAddresses'
<1> USE DiscoveryAssumption
<1>1. Separate' = Separate
  BY SeparateStays
<1>2. UniqueAddresses'
  BY <1>1 DEF Inv, UniqueAddresses
<1>3. HandedOut'
  <2> SUFFICES ASSUME fresh', Separate', scan'.at # "idle",
                      NEW d \in Devices, address'[d] # None
               PROVE  IF scan'.at = "connect" THEN address'[d] <= scan'.nextAddress
                                              ELSE address'[d] < scan'.nextAddress
    BY DEF HandedOut
  <2>1. scan.at # "idle" /\ scan.nextAddress \in Nat
        /\ address[d] \in Nat /\ address'[d] = address[d]
    <3>1. address'[d] = address[d] /\ address[d] \in Addresses /\ scan \in Scan
      BY DEF Inv, TypeOK
    <3>2. scan.nextAddress \in Nat
      BY <3>1 DEF Scan
    <3> QED BY <3>1, <3>2 DEF Addresses
  <2>2. IF scan.at = "connect" THEN address[d] <= scan.nextAddress
                               ELSE address[d] < scan.nextAddress
    BY <1>1, <2>1 DEF Inv, HandedOut
  <2> QED BY <2>1, <2>2
<1> QED BY <1>2, <1>3

LEMMA LocalsTyped ==
  /\ Locals \in Scan /\ Locals.at = "idle" /\ Locals.cancelled = FALSE
  /\ [Locals EXCEPT !.at = "broad"] \in Scan
<1>1. 1 \in 1 .. LastAddress + 1 /\ 0 \in 0 .. MaxQueries
  BY DiscoveryAssumption
<1>2. <<>> \in Seq(Call) /\ <<>> \in Seq(Addresses \X Devices)
  OBVIOUS
<1>3. Locals \in Scan /\ Locals.at = "idle" /\ Locals.cancelled = FALSE
  BY <1>1, <1>2 DEF Locals, Scan
<1>4. [Locals EXCEPT !.at = "broad"] \in Scan
  BY <1>3 DEF Scan
<1> QED BY <1>3, <1>4

(* One more query was asked.                                               *)
LEMMA AskedTyped ==
  ASSUME TypeOK, scan.queryCount < MaxQueries
  PROVE  Asked \in Scan /\ Asked.nextAddress = scan.nextAddress /\ Asked.at = scan.at
<1>1. scan \in Scan /\ scan.queryCount + 1 \in 0 .. MaxQueries
  BY DiscoveryAssumption DEF TypeOK, Scan
<1> QED BY <1>1 DEF Asked, Scan

LEMMA EndedTyped ==
  ASSUME TypeOK, NEW how \in {"completed", "failed"}
  PROVE  Ended(how) \in Scan /\ Ended(how).at = "idle"
BY LocalsTyped DEF TypeOK, Ended, Scan

(* The branches of a collision are patterns of identifiers again.          *)
LEMMA BranchTyped ==
  ASSUME NEW call \in Call, call.bit <= Width
  PROVE  /\ NextBranch(call) \in Call
         /\ [pattern |-> Branch(call), bit |-> call.bit + 1, one |-> FALSE] \in Call
<1> USE DiscoveryAssumption
<1> DEFINE Patterns == UNION {[S -> {0, 1}] : S \in SUBSET Bits}
<1>1. PICK S \in SUBSET Bits : call.pattern \in [S -> {0, 1}]
  BY DEF Call
<1>2. call.bit \in Bits /\ call.bit + 1 \in 1 .. Width + 1 /\ call.one \in BOOLEAN
  BY DEF Call, Bits
<1>3. DOMAIN call.pattern = S
  BY <1>1
<1>4. Branch(call) \in [S \cup {call.bit} -> {0, 1}]
  BY <1>1, <1>3 DEF Branch
<1>5. S \cup {call.bit} \in SUBSET Bits
  BY <1>2
<1>6. Branch(call) \in Patterns
  BY <1>4, <1>5
<1>7. [pattern |-> Branch(call), bit |-> call.bit + 1, one |-> FALSE] \in Call
  BY <1>2, <1>6 DEF Call
<1>8. NextBranch(call) \in Call
  BY <1>2 DEF NextBranch, Call
<1> QED BY <1>7, <1>8

-----------------------------------------------------------------------------
(* The steps, one by one. *)

LEMMA BeginScanInv == ASSUME Inv, BeginScan PROVE Inv'
<1> USE DiscoveryAssumption DEF BeginScan
<1>1. scan' \in Scan /\ scan'.at = "broad"
  BY LocalsTyped DEF Locals
<1>2. address' \in [Devices -> Addresses \cup {None}] /\ faults' \in 0 .. MaxFaults
  BY DEF Inv, TypeOK
<1>3. TypeOK'
  BY <1>1, <1>2 DEF TypeOK
<1>4. fresh' => \A d \in Devices : address'[d] = None
  OBVIOUS
<1> QED BY <1>1, <1>3, <1>4 DEF Inv, PoolHolds, HandedOut, UniqueAddresses

LEMMA GoesInv ==
  ASSUME Inv, NEW next \in Scan, Goes(next), faults' \in 0 .. MaxFaults,
         \/ next.at = "idle"
         \/ /\ scan.at \in {"broad", "resolve", "confirm"}
            /\ next.nextAddress = scan.nextAddress
            /\ next.at = "connect" => bus.profile = "aisg2"
            /\ next.at # "connect" => next.nextAddress <= LastAddress
            /\ next.at \in {"confirm", "assign"} => next.candidate \in Devices
  PROVE  Inv'
<1> USE DiscoveryAssumption
<1>1. TypeOK'
  BY DEF Inv, TypeOK, Goes
<1>2. PoolHolds'
  BY DEF Goes, PoolHolds
<1>3. HandedOut' /\ UniqueAddresses'
  BY SameAddressesUnique DEF Goes
<1> QED BY <1>1, <1>2, <1>3 DEF Inv

LEMMA AllFoundInv ==
  ASSUME Inv, scan.at = "broad", AllFound, faults' \in 0 .. MaxFaults PROVE Inv'
<1>1. CASE bus.profile = "aisg2"
  <2> DEFINE next == [scan EXCEPT !.at = "connect"]
  <2>1. next \in Scan /\ next.nextAddress = scan.nextAddress /\ next.at = "connect"
    BY DEF Inv, TypeOK, Scan
  <2>2. Goes(next)
    BY <1>1 DEF AllFound
  <2> QED BY <1>1, <2>1, <2>2, GoesInv
<1>2. CASE bus.profile # "aisg2"
  <2>1. Goes(Ended("completed"))
    BY <1>2 DEF AllFound
  <2> QED BY <2>1, EndedTyped, GoesInv DEF Inv
<1> QED BY <1>1, <1>2

LEMMA BroadInv == ASSUME Inv, Broad PROVE Inv'
<1> USE DiscoveryAssumption
<1>1. PICK result \in [kind : {"none", "found", "collision"}, device : Devices \cup {None}] :
        /\ Queries(<<>>, result)
        /\ CASE result.kind = "none" -> AllFound
             [] result.kind = "found" ->
                  Goes([Asked EXCEPT !.at = "confirm", !.candidate = result.device])
             [] result.kind = "collision" ->
                  Goes([Asked EXCEPT !.at = "resolve",
                          !.resolving = <<[pattern |-> <<>>, bit |-> 1, one |-> FALSE]>>])
  BY DEF Broad
<1>2. /\ result.kind = "found" => result.device \in Devices
      /\ scan.queryCount < MaxQueries /\ faults' \in 0 .. MaxFaults
  BY <1>1, QueryFinds DEF Inv
<1>3. scan.at = "broad" /\ scan.nextAddress <= LastAddress /\ scan \in Scan
  BY DEF Broad, PoolEmpty, Inv, TypeOK, Scan
<1>4. CASE result.kind = "none"
  BY <1>1, <1>2, <1>3, <1>4, AllFoundInv
<1>5. CASE result.kind = "found"
  <2> DEFINE next == [Asked EXCEPT !.at = "confirm", !.candidate = result.device]
  <2>1. /\ next \in Scan /\ next.at = "confirm" /\ next.candidate \in Devices
        /\ next.nextAddress = scan.nextAddress
    BY <1>2, <1>5, AskedTyped DEF Scan, Inv
  <2>2. Goes(next)
    BY <1>1, <1>5
  <2> QED BY <1>2, <1>3, <2>1, <2>2, GoesInv
<1>6. CASE result.kind = "collision"
  <2> DEFINE first == [pattern |-> <<>>, bit |-> 1, one |-> FALSE]
             next  == [Asked EXCEPT !.at = "resolve", !.resolving = <<first>>]
  <2>1. first \in Call
    <3>1. <<>> \in [1 .. 0 -> {0, 1}] /\ 1 .. 0 \in SUBSET Bits
      OBVIOUS
    <3>2. <<>> \in UNION {[S -> {0, 1}] : S \in SUBSET Bits}
      BY <3>1
    <3>3. 1 \in 1 .. Width + 1 /\ FALSE \in BOOLEAN
      OBVIOUS
    <3> QED BY <3>2, <3>3 DEF Call
  <2> HIDE DEF first
  <2>2. <<first>> \in Seq(Call)
    BY <2>1
  <2>3. next \in Scan /\ next.at = "resolve" /\ next.nextAddress = scan.nextAddress
    BY <1>2, <2>2, AskedTyped DEF Scan, Inv
  <2>4. Goes(next)
    BY <1>1, <1>6 DEF first
  <2> QED BY <1>2, <1>3, <2>3, <2>4, GoesInv
<1> QED BY <1>4, <1>5, <1>6
LEMMA LeaveLoopInv == ASSUME Inv, LeaveLoop PROVE Inv'
BY AllFoundInv DEF LeaveLoop, Inv, TypeOK

LEMMA ResolveInv == ASSUME Inv, Resolve PROVE Inv'
<1> USE DiscoveryAssumption
<1> DEFINE rest == Append(Outer, NextBranch(Innermost))
           deeper == [pattern |-> Branch(Innermost), bit |-> Innermost.bit + 1,
                      one |-> FALSE]
           next(result) ==
             CASE result.kind = "none" -> [Asked EXCEPT !.resolving = rest]
               [] result.kind = "found" ->
                    [Asked EXCEPT !.at = "confirm", !.resolving = <<>>,
                                  !.candidate = result.device]
               [] result.kind = "collision" ->
                    [Asked EXCEPT !.resolving = Append(rest, deeper)]
<1>1. PICK result \in [kind : {"none", "found", "collision"}, device : Devices \cup {None}] :
        Queries(Branch(Innermost), result) /\ Goes(next(result))
  BY DEF Resolve
<1>2. /\ result.kind = "found" => result.device \in Devices
      /\ scan.queryCount < MaxQueries /\ faults' \in 0 .. MaxFaults
  BY <1>1, QueryFinds DEF Inv
<1>3. /\ scan.at = "resolve" /\ scan.nextAddress <= LastAddress
      /\ scan.resolving \in Seq(Call) /\ scan.resolving # <<>>
      /\ Innermost.bit <= Width
  BY DEF Resolve, Inv, TypeOK, Scan, PoolHolds
<1>4. Innermost \in Call /\ Outer \in Seq(Call)
  BY <1>3 DEF Innermost, Outer
<1>5. rest \in Seq(Call) /\ Append(rest, deeper) \in Seq(Call)
  BY <1>3, <1>4, BranchTyped
<1> HIDE DEF rest, deeper
<1>6. Asked \in Scan /\ Asked.nextAddress = scan.nextAddress /\ Asked.at = "resolve"
  BY <1>2, <1>3, AskedTyped DEF Inv
<1>7. /\ next(result) \in Scan
      /\ next(result).at \in {"resolve", "confirm"}
      /\ next(result).at = "confirm" => next(result).candidate \in Devices
      /\ next(result).nextAddress = scan.nextAddress
  <2>1. CASE result.kind = "none"
    BY <1>5, <1>6, <2>1 DEF Scan
  <2>2. CASE result.kind = "found"
    <3>1. <<>> \in Seq(Call)
      OBVIOUS
    <3> QED BY <1>2, <1>6, <2>2, <3>1 DEF Scan
  <2>3. CASE result.kind = "collision"
    BY <1>5, <1>6, <2>3 DEF Scan
  <2> QED BY <2>1, <2>2, <2>3
<1>8. Goes(next(result))
  BY <1>1
<1> HIDE DEF next
<1> QED BY <1>2, <1>3, <1>7, <1>8, GoesInv

LEMMA ResolvedNothingInv == ASSUME Inv, ResolvedNothing PROVE Inv'
<1> USE DiscoveryAssumption
<1> DEFINE outer == [scan EXCEPT !.resolving = Outer]
<1>1. /\ scan.at = "resolve" /\ scan.nextAddress <= LastAddress /\ scan \in Scan
      /\ faults' \in 0 .. MaxFaults
  BY DEF ResolvedNothing, Inv, TypeOK, PoolHolds
<1>2. CASE Outer = <<>>
  <2>1. Goes(Ended("failed"))
    BY <1>2 DEF ResolvedNothing
  <2> QED BY <1>1, <2>1, EndedTyped, GoesInv DEF Inv
<1>3. CASE Outer # <<>>
  <2>1. scan.resolving \in Seq(Call)
    BY <1>1 DEF Scan
  <2>2. Outer \in Seq(Call)
    BY <1>3, <2>1 DEF Outer
  <2>3. outer \in Scan /\ outer.at = "resolve" /\ outer.nextAddress = scan.nextAddress
    BY <1>1, <2>2 DEF Scan
  <2>4. Goes(outer)
    BY <1>3 DEF ResolvedNothing
  <2> QED BY <1>1, <2>3, <2>4, GoesInv
<1> QED BY <1>2, <1>3

LEMMA ConfirmInv == ASSUME Inv, Confirm PROVE Inv'
<1> USE DiscoveryAssumption
<1> DEFINE known == [Asked EXCEPT !.at = "assign"]
<1>1. PICK result \in [kind : {"none", "found", "collision"}, device : Devices \cup {None}] :
        /\ Queries(Exact(scan.candidate), result)
        /\ Goes(IF result = Result("found", scan.candidate) THEN known ELSE Ended("failed"))
  BY DEF Confirm
<1>2. scan.queryCount < MaxQueries /\ faults' \in 0 .. MaxFaults
  BY <1>1, QueryFinds DEF Inv
<1>3. /\ scan.at = "confirm" /\ scan.nextAddress <= LastAddress
      /\ scan.candidate \in Devices
  BY DEF Confirm, Inv, PoolHolds
<1>4. CASE result = Result("found", scan.candidate)
  <2>1. /\ known \in Scan /\ known.at = "assign" /\ known.candidate = scan.candidate
        /\ known.nextAddress = scan.nextAddress
    BY <1>2, AskedTyped DEF Asked, Scan, Inv
  <2>2. Goes(known)
    BY <1>1, <1>4
  <2> QED BY <1>2, <1>3, <2>1, <2>2, GoesInv
<1>5. CASE result # Result("found", scan.candidate)
  <2>1. Goes(Ended("failed"))
    BY <1>1, <1>5
  <2> QED BY <1>2, <2>1, EndedTyped, GoesInv DEF Inv
<1> QED BY <1>4, <1>5

LEMMA TooManyQueriesInv == ASSUME Inv, TooManyQueries PROVE Inv'
BY EndedTyped, GoesInv DEF TooManyQueries, Inv, TypeOK

LEMMA AllConnectedInv == ASSUME Inv, AllConnected PROVE Inv'
BY EndedTyped, GoesInv DEF AllConnected, Inv, TypeOK

(* The next address, for a scan that still had one.                        *)
LEMMA NextAddressTyped ==
  ASSUME NEW s \in Scan, s.nextAddress <= LastAddress
  PROVE  /\ NextAddress(s) \in Scan /\ NextAddress(s).at = "broad"
         /\ NextAddress(s).nextAddress = s.nextAddress + 1
<1>1. s.nextAddress + 1 \in 1 .. LastAddress + 1 /\ 0 \in 0 .. MaxQueries
  BY DiscoveryAssumption DEF Scan
<1> QED BY <1>1 DEF NextAddress, Scan

(* Only the candidate takes the address, which no device has.              *)
LEMMA AssignInv == ASSUME Inv, Assign PROVE Inv'
<1> USE DiscoveryAssumption
<1> DEFINE given == [scan EXCEPT !.assigned =
                       Append(@, <<scan.nextAddress, scan.candidate>>)]
           connecting == [given EXCEPT !.at = "connect"]
<1>1. PICK faulty \in BOOLEAN, heard \in SUBSET Takers(scan.candidate) :
        \E r \in Reception(heard) :
          /\ Meets(faulty)
          /\ address' = [d \in Devices |->
                           IF d \in heard THEN scan.nextAddress ELSE address[d]]
          /\ scan' = IF scan.candidate \notin r.frames THEN Ended("failed")
                     ELSE IF bus.profile = "aisg2" THEN NextAddress(given)
                     ELSE connecting
  BY DEF Assign
<1>2. /\ address' = [d \in Devices |->
                       IF d \in heard THEN scan.nextAddress ELSE address[d]]
      /\ \/ scan' = Ended("failed")
         \/ scan' = NextAddress(given)
         \/ scan' = connecting /\ bus.profile # "aisg2"
  BY <1>1
<1>3. /\ scan.at = "assign" /\ scan.candidate \in Devices
      /\ scan.nextAddress \in Addresses /\ scan \in Scan
      /\ UNCHANGED <<bus, listed, fresh>>
  BY DEF Assign, Inv, PoolHolds, TypeOK, Scan, Addresses
<1>4. given \in Scan /\ given.nextAddress = scan.nextAddress
  <2>1. Append(scan.assigned, <<scan.nextAddress, scan.candidate>>)
          \in Seq(Addresses \X Devices)
    BY <1>3 DEF Scan
  <2> QED BY <1>3, <2>1 DEF Scan
<1>5. /\ connecting \in Scan /\ connecting.at = "connect"
      /\ connecting.nextAddress = scan.nextAddress
  BY <1>4 DEF Scan
<1> HIDE DEF given, connecting
<1>6. given.nextAddress <= LastAddress
  BY <1>3, <1>4 DEF Addresses
<1>7. /\ scan' \in Scan
      /\ \/ scan'.at = "idle"
         \/ scan'.at = "broad" /\ scan'.nextAddress = scan.nextAddress + 1
         \/ /\ scan'.at = "connect" /\ scan'.nextAddress = scan.nextAddress
            /\ scan'.nextAddress <= LastAddress
  BY <1>2, <1>3, <1>4, <1>5, <1>6, EndedTyped, NextAddressTyped DEF Inv, Addresses
<1>8. TypeOK'
  <2>1. faults' \in 0 .. MaxFaults
    BY <1>1 DEF Meets, Inv, TypeOK
  <2>2. address' \in [Devices -> Addresses \cup {None}]
    BY <1>2, <1>3 DEF Inv, TypeOK
  <2> QED BY <1>3, <1>7, <2>1, <2>2 DEF Inv, TypeOK
<1>9. PoolHolds'
  BY <1>7 DEF PoolHolds
<1>10. Separate' = Separate
  BY <1>3, SeparateStays
<1>11. ASSUME fresh, Separate PROVE \A d \in heard : d = scan.candidate
  BY <1>3, <1>11 DEF Takers, Unaddressed, Separate
<1>12. ASSUME fresh, Separate, NEW d \in Devices, address[d] # None
       PROVE  address[d] \in Nat /\ address[d] < scan.nextAddress
  BY <1>3, <1>12 DEF Inv, HandedOut, TypeOK, Addresses
<1>13. HandedOut'
  <2> SUFFICES ASSUME fresh, Separate, scan'.at # "idle",
                      NEW d \in Devices, address'[d] # None
               PROVE  IF scan'.at = "connect" THEN address'[d] <= scan'.nextAddress
                                              ELSE address'[d] < scan'.nextAddress
    BY <1>3, <1>10 DEF HandedOut
  <2>1. address'[d] \in Nat /\ address'[d] <= scan.nextAddress
    BY <1>2, <1>3, <1>12 DEF Addresses
  <2> QED BY <1>3, <1>7, <2>1 DEF Addresses
<1>14. UniqueAddresses'
  <2> SUFFICES ASSUME fresh, Separate, NEW d \in Devices, NEW e \in Devices,
                      address'[d] = address'[e], address'[d] # None
               PROVE  d = e
    BY <1>3, <1>10 DEF UniqueAddresses
  <2>1. CASE d \in heard /\ e \in heard
    BY <1>11, <2>1
  <2>2. CASE d \notin heard /\ e \notin heard
    BY <1>2, <2>2 DEF Inv, UniqueAddresses
  <2>3. CASE (d \in heard) # (e \in heard)
    BY <1>2, <1>3, <1>12, <2>3 DEF Addresses
  <2> QED BY <2>1, <2>2, <2>3
<1> QED BY <1>8, <1>9, <1>13, <1>14 DEF Inv

LEMMA ConnectInv == ASSUME Inv, Connect PROVE Inv'
<1> USE DiscoveryAssumption
<1> DEFINE left == [scan EXCEPT !.assigned = Tail(@)]
           next == Head(scan.assigned)
<1>1. PICK faulty \in BOOLEAN :
        \E r \in Reception(Holders(next[1])) :
          /\ Meets(faulty)
          /\ IF r.frames = {}
             THEN scan' = Unanswered /\ UNCHANGED listed
             ELSE /\ listed' = {l \in listed : l[1] # next[1]} \cup {next}
                  /\ scan' = IF bus.profile = "aisg2" THEN left ELSE NextAddress(left)
  BY DEF Connect
<1>2. /\ scan.at = "connect" /\ scan.assigned # <<>> /\ scan \in Scan
      /\ scan.assigned \in Seq(Addresses \X Devices)
      /\ bus.profile # "aisg2" => scan.nextAddress <= LastAddress
      /\ UNCHANGED <<address, bus, fresh>>
  BY DEF Connect, Inv, TypeOK, Scan, PoolHolds
<1>3. next \in Addresses \X Devices
  BY <1>2
<1>4. left \in Scan /\ left.at = "connect" /\ left.nextAddress = scan.nextAddress
  <2>1. Tail(scan.assigned) \in Seq(Addresses \X Devices)
    BY <1>2
  <2> QED BY <1>2, <2>1 DEF Scan
<1>5. listed' \subseteq Addresses \X Devices
  BY <1>1, <1>3 DEF Inv, TypeOK
<1>6. faults' \in 0 .. MaxFaults
  BY <1>1 DEF Meets, Inv, TypeOK
<1>7. \/ scan' = Ended("failed")
      \/ scan' = left /\ bus.profile = "aisg2"
      \/ scan' = NextAddress(left) /\ bus.profile # "aisg2"
  BY <1>1 DEF Unanswered
<1> HIDE DEF left, next
<1>8. /\ scan' \in Scan
      /\ \/ scan'.at = "idle"
         \/ /\ scan'.at = "connect" /\ scan'.nextAddress = scan.nextAddress
            /\ bus.profile = "aisg2"
         \/ scan'.at = "broad" /\ scan'.nextAddress = scan.nextAddress + 1
  BY <1>2, <1>4, <1>7, EndedTyped, NextAddressTyped DEF Inv
<1>9. TypeOK'
  BY <1>2, <1>5, <1>6, <1>8 DEF Inv, TypeOK
<1>10. PoolHolds'
  BY <1>2, <1>8 DEF PoolHolds
<1>11. HandedOut' /\ UniqueAddresses'
  BY <1>2, <1>8, SameAddressesUnique
<1> QED BY <1>9, <1>10, <1>11 DEF Inv

LEMMA CancelInv == ASSUME Inv, Cancel PROVE Inv'
<1> DEFINE next == [scan EXCEPT !.cancelled = TRUE]
<1>1. /\ scan' = next /\ scan.at # "idle" /\ scan \in Scan
      /\ UNCHANGED <<address, bus, listed, fresh, faults>>
  BY DEF Cancel, Goes, Inv, TypeOK
<1>2. /\ next \in Scan /\ next.at = scan.at /\ next.nextAddress = scan.nextAddress
      /\ next.candidate = scan.candidate
  BY <1>1 DEF Scan
<1> HIDE DEF next
<1>3. TypeOK'
  BY <1>1, <1>2 DEF Inv, TypeOK
<1>4. PoolHolds'
  BY <1>1, <1>2 DEF Inv, PoolHolds
<1>5. HandedOut' /\ UniqueAddresses'
  BY <1>1, <1>2, SameAddressesUnique
<1> QED BY <1>3, <1>4, <1>5 DEF Inv

LEMMA RestartInv == ASSUME Inv, NEW dev \in Devices, Restart(dev) PROVE Inv'
<1> USE DiscoveryAssumption
<1>1. /\ address' = [address EXCEPT ![dev] = None]
      /\ UNCHANGED <<bus, scan, listed, fresh>>
      /\ faults' \in 0 .. MaxFaults
  BY DEF Restart, Meets, Inv, TypeOK
<1>2. Separate' = Separate
  BY <1>1, SeparateStays
<1>3. TypeOK'
  BY <1>1 DEF Inv, TypeOK
<1>4. PoolHolds'
  BY <1>1 DEF Inv, PoolHolds
<1>5. \A d \in Devices : address'[d] # None => address'[d] = address[d]
  BY <1>1 DEF Inv, TypeOK
<1>6. HandedOut' /\ UniqueAddresses'
  BY <1>1, <1>2, <1>5 DEF Inv, HandedOut, UniqueAddresses
<1> QED BY <1>3, <1>4, <1>6 DEF Inv

LEMMA InitInv == Init => Inv
<1> SUFFICES ASSUME Init PROVE Inv
  OBVIOUS
<1> USE DiscoveryAssumption
<1>1. scan = Locals /\ address = [d \in Devices |-> None] /\ listed = {}
      /\ fresh = TRUE /\ faults = 0
  BY DEF Init
<1>2. TypeOK
  BY <1>1, LocalsTyped DEF TypeOK
<1>3. scan.at = "idle"
  BY <1>1, LocalsTyped
<1> QED BY <1>1, <1>2, <1>3 DEF Inv, PoolHolds, HandedOut, UniqueAddresses

LEMMA NextInv == Inv /\ [Next]_vars => Inv'
<1> SUFFICES ASSUME Inv, [Next]_vars PROVE Inv'
  OBVIOUS
<1>1. CASE UNCHANGED vars
  BY <1>1 DEF vars, Inv, TypeOK, PoolHolds, HandedOut, UniqueAddresses,
              Separate, Takes, Unpadded
<1>2. CASE Next
  BY <1>2, BeginScanInv, LeaveLoopInv, BroadInv, ResolveInv, ResolvedNothingInv,
     ConfirmInv, TooManyQueriesInv, AssignInv, ConnectInv, AllConnectedInv,
     CancelInv, RestartInv DEF Next
<1> QED BY <1>1, <1>2

LEMMA Invariance == Spec => []Inv
BY InitInv, NextInv, PTL DEF Spec

-----------------------------------------------------------------------------
(* What becomes of the addresses a scan hands out. *)

(* An address goes with the device it was meant for until that one is      *)
(* listed; AISG 3 connects a device before it looks for the next.          *)
Handed == listed \cup {scan.assigned[i] : i \in DOMAIN scan.assigned}
OneAtATime ==
  bus.profile # "aisg2" =>
    IF scan.at = "connect" THEN Len(scan.assigned) = 1 ELSE scan.assigned = <<>>
Unfinished == scan.at # "idle" => scan.outcome = None

(* During a fresh scan a device that has an address is on the list or      *)
(* waits for it, and nobody else has that address.                         *)
Accounted ==
  fresh /\ Separate /\ scan.at # "idle" =>
    /\ \A d \in Devices : address[d] # None => <<address[d], d>> \in Handed
    /\ \A p \in Handed :
         /\ IF scan.at = "connect" THEN p[1] <= scan.nextAddress
                                   ELSE p[1] < scan.nextAddress
         /\ \A d \in Devices : address[d] = p[1] => d = p[2]
         /\ \A q \in Handed : q[1] = p[1] => q = p

Accounts == OneAtATime /\ Unfinished /\ Accounted /\ AddressedAreListed

LEMMA HandedTyped ==
  ASSUME TypeOK
  PROVE  \A p \in Handed : p \in Addresses \X Devices /\ p[1] \in Addresses /\ p[1] \in Nat
BY DEF TypeOK, Handed, Scan, Addresses

LEMMA EndedFields ==
  ASSUME NEW how
  PROVE  /\ Ended(how).at = "idle" /\ Ended(how).assigned = <<>>
         /\ Ended(how).outcome = how /\ Ended(how).cancelled = scan.cancelled
BY DEF Ended, Locals

LEMMA NextFields ==
  ASSUME NEW s \in Scan
  PROVE  /\ NextAddress(s).at = "broad" /\ NextAddress(s).assigned = s.assigned
         /\ NextAddress(s).outcome = s.outcome
         /\ NextAddress(s).nextAddress = s.nextAddress + 1
         /\ [s EXCEPT !.at = "connect"].at = "connect"
         /\ [s EXCEPT !.at = "connect"].assigned = s.assigned
         /\ [s EXCEPT !.at = "connect"].outcome = s.outcome
         /\ [s EXCEPT !.at = "connect"].nextAddress = s.nextAddress
BY DEF NextAddress, Scan

(* A scan that goes on with the same addresses.                            *)
LEMMA OnwardAccounts ==
  ASSUME Inv, Accounts, UNCHANGED <<address, bus, listed, fresh>>,
         scan.at # "idle", scan'.at # "idle",
         scan'.assigned = scan.assigned, scan'.outcome = scan.outcome,
         scan'.nextAddress = scan.nextAddress,
         \/ scan'.at = "connect" /\ (scan.at = "connect" \/ bus.profile = "aisg2")
         \/ scan'.at # "connect" /\ scan.at # "connect"
  PROVE  Accounts'
<1> USE DiscoveryAssumption
<1>1. Separate' = Separate
  BY SeparateStays
<1>2. OneAtATime' /\ Unfinished' /\ AddressedAreListed'
  BY DEF Accounts, OneAtATime, Unfinished, AddressedAreListed
<1>3. Handed' = Handed
  BY DEF Handed
<1>4. \A p \in Handed : p[1] \in Nat
  BY HandedTyped DEF Inv
<1>5. scan.nextAddress \in Nat
  BY DEF Inv, TypeOK, Scan
<1>6. Accounted'
  <2> SUFFICES ASSUME fresh, Separate
               PROVE  /\ \A d \in Devices : address[d] # None => <<address[d], d>> \in Handed
                      /\ \A p \in Handed :
                           /\ IF scan'.at = "connect" THEN p[1] <= scan.nextAddress
                                                      ELSE p[1] < scan.nextAddress
                           /\ \A d \in Devices : address[d] = p[1] => d = p[2]
                           /\ \A q \in Handed : q[1] = p[1] => q = p
    BY <1>1, <1>3 DEF Accounted
  <2>1. \A p \in Handed : IF scan'.at = "connect" THEN p[1] <= scan.nextAddress
                                                  ELSE p[1] < scan.nextAddress
    BY <1>4, <1>5 DEF Accounts, Accounted
  <2> QED BY <2>1 DEF Accounts, Accounted
<1> QED BY <1>2, <1>6 DEF Accounts

(* A scan that ends, fails, was cancelled, or has connected everything.    *)
LEMMA EndAccounts ==
  ASSUME Inv, Accounts, NEW how, scan' = Ended(how), scan.at # "idle",
         UNCHANGED <<bus, listed, fresh>>,
         \/ how = "failed"
         \/ address' = address /\ (scan.cancelled \/ scan.assigned = <<>>)
  PROVE  Accounts'
<1>1. Separate' = Separate
  BY SeparateStays
<1>2. /\ scan'.at = "idle" /\ scan'.assigned = <<>> /\ scan'.outcome = how
      /\ scan'.cancelled = scan.cancelled
  BY EndedFields
<1>3. OneAtATime' /\ Unfinished' /\ Accounted'
  BY <1>2 DEF OneAtATime, Unfinished, Accounted
<1>4. AddressedAreListed'
  <2> SUFFICES ASSUME fresh, Separate, how = "completed", ~scan.cancelled,
                      NEW d \in Devices, address'[d] # None
               PROVE  <<address'[d], d>> \in listed
    BY <1>1, <1>2 DEF AddressedAreListed
  <2>1. address' = address /\ scan.assigned = <<>>
    OBVIOUS
  <2>2. Handed = listed
    BY <2>1 DEF Handed
  <2> QED BY <2>1, <2>2 DEF Accounts, Accounted
<1> QED BY <1>3, <1>4 DEF Accounts

LEMMA BeginScanAccounts == ASSUME Inv, Accounts, BeginScan PROVE Accounts'
<1>1. /\ scan' = [Locals EXCEPT !.at = "broad"]
      /\ listed' = {}
      /\ fresh' => \A d \in Devices : address'[d] = None
  BY DEF BeginScan
<1>2. scan'.at = "broad" /\ scan'.assigned = <<>> /\ scan'.outcome = None
  BY <1>1 DEF Locals
<1>3. Handed' = {}
  <2>1. PICK waits : waits = {scan'.assigned[i] : i \in DOMAIN scan'.assigned}
    OBVIOUS
  <2>2. Handed' = listed' \cup waits
    BY <2>1 DEF Handed
  <2>3. waits = {}
    <3>1. DOMAIN scan'.assigned = {}
      BY <1>2
    <3> QED BY <2>1, <3>1
  <2> QED BY <1>1, <2>2, <2>3
<1>4. None # "completed"
  BY DiscoveryAssumption
<1>5. OneAtATime' /\ Unfinished' /\ AddressedAreListed'
  BY <1>2, <1>4 DEF OneAtATime, Unfinished, AddressedAreListed
<1>6. Accounted'
  <2>1. \A p \in Handed' : FALSE
    BY <1>3
  <2> QED BY <1>1, <2>1 DEF Accounted
<1> QED BY <1>5, <1>6 DEF Accounts

LEMMA AllFoundAccounts ==
  ASSUME Inv, Accounts, scan.at = "broad", AllFound PROVE Accounts'
<1>1. CASE bus.profile = "aisg2"
  <2>1. /\ scan' = [scan EXCEPT !.at = "connect"] /\ scan \in Scan
        /\ UNCHANGED <<address, bus, listed, fresh>>
    BY <1>1 DEF AllFound, Goes, Inv, TypeOK
  <2>2. /\ scan'.at = "connect" /\ scan'.assigned = scan.assigned
        /\ scan'.outcome = scan.outcome /\ scan'.nextAddress = scan.nextAddress
    BY <2>1 DEF Scan
  <2> QED BY <1>1, <2>1, <2>2, OnwardAccounts
<1>2. CASE bus.profile # "aisg2"
  <2>1. scan' = Ended("completed") /\ UNCHANGED <<address, bus, listed, fresh>>
    BY <1>2 DEF AllFound, Goes
  <2>2. scan.assigned = <<>>
    BY <1>2 DEF Accounts, OneAtATime
  <2> QED BY <2>1, <2>2, EndAccounts
<1> QED BY <1>1, <1>2

(* The search and the confirmation leave the addresses alone.              *)
LEMMA SearchAccounts ==
  ASSUME Inv, Accounts,
         Broad \/ Resolve \/ ResolvedNothing \/ Confirm \/ TooManyQueries
  PROVE  Accounts'
<1>1. /\ scan \in Scan /\ scan.at # "idle" /\ scan.at # "connect"
  BY DEF Broad, Resolve, ResolvedNothing, Confirm, TooManyQueries, Inv, TypeOK
<1>2. \/ scan.at = "broad" /\ AllFound
      \/ /\ UNCHANGED <<address, bus, listed, fresh>>
         /\ \/ scan' = Ended("failed")
            \/ /\ scan'.at \notin {"idle", "connect"} /\ scan'.assigned = scan.assigned
               /\ scan'.outcome = scan.outcome /\ scan'.nextAddress = scan.nextAddress
  <2>1. CASE Broad
    <3>1. PICK result \in [kind : {"none", "found", "collision"},
                           device : Devices \cup {None}] :
            CASE result.kind = "none" -> AllFound
              [] result.kind = "found" ->
                   Goes([Asked EXCEPT !.at = "confirm", !.candidate = result.device])
              [] result.kind = "collision" ->
                   Goes([Asked EXCEPT !.at = "resolve",
                           !.resolving = <<[pattern |-> <<>>, bit |-> 1, one |-> FALSE]>>])
      BY <2>1 DEF Broad
    <3>2. scan.at = "broad"
      BY <2>1 DEF Broad
    <3>3. result.kind \in {"none", "found", "collision"}
      OBVIOUS
    <3>4. CASE result.kind = "none"
      BY <3>1, <3>2, <3>4
    <3>5. CASE result.kind = "found"
      BY <1>1, <3>1, <3>5 DEF Goes, Asked, Scan
    <3>6. CASE result.kind = "collision"
      BY <1>1, <3>1, <3>6 DEF Goes, Asked, Scan
    <3> QED BY <3>3, <3>4, <3>5, <3>6
  <2>2. CASE Resolve
    <3> DEFINE rest == Append(Outer, NextBranch(Innermost))
               deeper == [pattern |-> Branch(Innermost), bit |-> Innermost.bit + 1,
                          one |-> FALSE]
    <3>1. PICK result \in [kind : {"none", "found", "collision"},
                           device : Devices \cup {None}] :
            Goes(CASE result.kind = "none" -> [Asked EXCEPT !.resolving = rest]
                   [] result.kind = "found" ->
                        [Asked EXCEPT !.at = "confirm", !.resolving = <<>>,
                                      !.candidate = result.device]
                   [] result.kind = "collision" ->
                        [Asked EXCEPT !.resolving = Append(rest, deeper)])
      BY <2>2 DEF Resolve
    <3>2. scan.at = "resolve"
      BY <2>2 DEF Resolve
    <3> HIDE DEF rest, deeper
    <3>3. CASE result.kind = "none"
      BY <1>1, <3>1, <3>2, <3>3 DEF Goes, Asked, Scan
    <3>4. CASE result.kind = "found"
      BY <1>1, <3>1, <3>2, <3>4 DEF Goes, Asked, Scan
    <3>5. CASE result.kind = "collision"
      BY <1>1, <3>1, <3>2, <3>5 DEF Goes, Asked, Scan
    <3> QED BY <3>3, <3>4, <3>5
  <2>3. CASE ResolvedNothing
    <3>1. scan.at = "resolve"
      BY <2>3 DEF ResolvedNothing
    <3>2. CASE Outer = <<>>
      BY <2>3, <3>2 DEF ResolvedNothing, Goes
    <3>3. CASE Outer # <<>>
      <4>1. scan' = [scan EXCEPT !.resolving = Outer]
            /\ UNCHANGED <<address, bus, listed, fresh>>
        BY <2>3, <3>3 DEF ResolvedNothing, Goes
      <4> QED BY <1>1, <3>1, <4>1 DEF Scan
    <3> QED BY <3>2, <3>3
  <2>4. CASE Confirm
    <3>1. \/ Goes([Asked EXCEPT !.at = "assign"])
          \/ Goes(Ended("failed"))
      BY <2>4 DEF Confirm
    <3> QED BY <1>1, <3>1 DEF Goes, Asked, Scan
  <2>5. CASE TooManyQueries
    BY <2>5 DEF TooManyQueries, Goes
  <2> QED BY <2>1, <2>2, <2>3, <2>4, <2>5
<1> QED BY <1>1, <1>2, AllFoundAccounts, EndAccounts, OnwardAccounts

(* What waits to be listed, after an address was given and after the first *)
(* of the devices was connected.                                           *)
LEMMA HandedAppended ==
  ASSUME scan.assigned \in Seq(Addresses \X Devices), NEW pair \in Addresses \X Devices,
         scan'.assigned = Append(scan.assigned, pair), listed' = listed
  PROVE  Handed' = Handed \cup {pair}
<1>1. PICK waiting : waiting = {scan.assigned[i] : i \in DOMAIN scan.assigned}
  OBVIOUS
<1>2. PICK waits : waits = {scan'.assigned[i] : i \in DOMAIN scan'.assigned}
  OBVIOUS
<1>3. waits = waiting \cup {pair}
  <2>1. /\ Len(scan.assigned) \in Nat /\ Len(scan'.assigned) = Len(scan.assigned) + 1
        /\ DOMAIN scan.assigned = 1 .. Len(scan.assigned)
        /\ DOMAIN scan'.assigned = 1 .. Len(scan'.assigned)
        /\ scan'.assigned[Len(scan'.assigned)] = pair
        /\ \A i \in DOMAIN scan.assigned : scan'.assigned[i] = scan.assigned[i]
    OBVIOUS
  <2>2. ASSUME NEW i \in DOMAIN scan'.assigned
        PROVE  scan'.assigned[i] \in waiting \cup {pair}
    BY <1>1, <2>1
  <2>3. ASSUME NEW i \in DOMAIN scan.assigned PROVE scan.assigned[i] \in waits
    <3>1. i \in DOMAIN scan'.assigned
      BY <2>1
    <3> QED BY <1>2, <2>1, <3>1
  <2>4. pair \in waits
    <3>1. Len(scan'.assigned) \in DOMAIN scan'.assigned
      BY <2>1
    <3> QED BY <1>2, <2>1, <3>1
  <2> QED BY <1>1, <1>2, <2>2, <2>3, <2>4
<1>4. Handed = listed \cup waiting
  BY <1>1 DEF Handed
<1>5. Handed' = listed' \cup waits
  BY <1>2 DEF Handed
<1> QED BY <1>3, <1>4, <1>5

LEMMA HeadIsHanded ==
  ASSUME scan.assigned \in Seq(Addresses \X Devices), scan.assigned # <<>>
  PROVE  Head(scan.assigned) \in Handed
<1>1. 1 \in DOMAIN scan.assigned /\ Head(scan.assigned) = scan.assigned[1]
  OBVIOUS
<1> QED BY <1>1 DEF Handed

LEMMA HeadListed ==
  ASSUME scan.assigned \in Seq(Addresses \X Devices), scan.assigned # <<>>,
         NEW next, next = Head(scan.assigned),
         scan'.assigned = Tail(scan.assigned),
         listed' = {l \in listed : l[1] # next[1]} \cup {next},
         \A q \in Handed : q[1] = next[1] => q = next
  PROVE  Handed' = Handed
<1>1. PICK waiting : waiting = {scan.assigned[i] : i \in DOMAIN scan.assigned}
  OBVIOUS
<1>2. PICK waits : waits = {scan'.assigned[i] : i \in DOMAIN scan'.assigned}
  OBVIOUS
<1>3. waiting = waits \cup {next}
  <2>1. /\ Len(scan.assigned) \in Nat \ {0} /\ next = scan.assigned[1]
        /\ Len(scan'.assigned) = Len(scan.assigned) - 1
        /\ DOMAIN scan.assigned = 1 .. Len(scan.assigned)
        /\ DOMAIN scan'.assigned = 1 .. Len(scan'.assigned)
        /\ \A i \in 1 .. Len(scan'.assigned) : scan'.assigned[i] = scan.assigned[i + 1]
    OBVIOUS
  <2>2. ASSUME NEW i \in DOMAIN scan.assigned
        PROVE  scan.assigned[i] \in waits \cup {next}
    <3>1. CASE i = 1
      BY <2>1, <3>1
    <3>2. CASE i # 1
      <4>1. i - 1 \in DOMAIN scan'.assigned /\ scan'.assigned[i - 1] = scan.assigned[i]
        BY <2>1, <3>2
      <4> QED BY <1>2, <4>1
    <3> QED BY <3>1, <3>2
  <2>3. ASSUME NEW i \in DOMAIN scan'.assigned
        PROVE  scan'.assigned[i] \in waiting
    <3>1. i + 1 \in DOMAIN scan.assigned /\ scan'.assigned[i] = scan.assigned[i + 1]
      BY <2>1
    <3> QED BY <1>1, <3>1
  <2>4. next \in waiting
    <3>1. 1 \in DOMAIN scan.assigned
      BY <2>1
    <3> QED BY <1>1, <2>1, <3>1
  <2> QED BY <1>1, <1>2, <2>2, <2>3, <2>4
<1>4. Handed = listed \cup waiting
  BY <1>1 DEF Handed
<1>5. Handed' = listed' \cup waits
  BY <1>2 DEF Handed
<1>6. \A l \in listed : l[1] = next[1] => l = next
  BY <1>4
<1> QED BY <1>3, <1>4, <1>5, <1>6

LEMMA AssignAccounts == ASSUME Inv, Accounts, Assign PROVE Accounts'
<1> USE DiscoveryAssumption
<1>1. PICK faulty \in BOOLEAN, heard \in SUBSET Takers(scan.candidate) :
        \E r \in Reception(heard) :
          /\ address' = [d \in Devices |->
                           IF d \in heard THEN scan.nextAddress ELSE address[d]]
          /\ LET given == [scan EXCEPT !.assigned =
                            Append(@, <<scan.nextAddress, scan.candidate>>)]
             IN  scan' = IF scan.candidate \notin r.frames THEN Ended("failed")
                         ELSE IF bus.profile = "aisg2" THEN NextAddress(given)
                         ELSE [given EXCEPT !.at = "connect"]
  BY DEF Assign
<1>2. /\ scan.at = "assign" /\ scan.candidate \in Devices
      /\ scan.nextAddress \in Addresses /\ scan \in Scan /\ scan.nextAddress \in Nat
      /\ scan.assigned \in Seq(Addresses \X Devices)
      /\ UNCHANGED <<bus, listed, fresh>>
  BY DEF Assign, Inv, PoolHolds, TypeOK, Scan, Addresses
<1>3. PICK pair : pair = <<scan.nextAddress, scan.candidate>>
  OBVIOUS
<1>4. PICK given : given = [scan EXCEPT !.assigned = Append(@, pair)]
  OBVIOUS
<1>5. /\ given.assigned = Append(scan.assigned, pair)
      /\ given.nextAddress = scan.nextAddress /\ given.outcome = scan.outcome
      /\ given \in Scan
  <2>1. pair \in Addresses \X Devices
    BY <1>2, <1>3
  <2>2. Append(scan.assigned, pair) \in Seq(Addresses \X Devices)
    BY <1>2, <2>1
  <2> QED BY <1>2, <1>4, <2>2 DEF Scan
<1>6. CASE scan' = Ended("failed")
  BY <1>2, <1>6, EndAccounts
<1>7. CASE scan' # Ended("failed")
  <2>1. \/ bus.profile = "aisg2" /\ scan' = NextAddress(given)
        \/ bus.profile # "aisg2" /\ scan' = [given EXCEPT !.at = "connect"]
    BY <1>1, <1>3, <1>4, <1>7
  <2>2. /\ scan'.assigned = Append(scan.assigned, pair)
        /\ scan'.outcome = scan.outcome
        /\ \/ /\ bus.profile = "aisg2" /\ scan'.at = "broad"
              /\ scan'.nextAddress = scan.nextAddress + 1
           \/ /\ bus.profile # "aisg2" /\ scan'.at = "connect"
              /\ scan'.nextAddress = scan.nextAddress
    <3>1. CASE bus.profile = "aisg2" /\ scan' = NextAddress(given)
      BY <1>5, <3>1, NextFields
    <3>2. CASE bus.profile # "aisg2" /\ scan' = [given EXCEPT !.at = "connect"]
      BY <1>5, <3>2, NextFields
    <3> QED BY <2>1, <3>1, <3>2
  <2>3. OneAtATime' /\ Unfinished'
    <3>1. bus.profile # "aisg2" => scan.assigned = <<>>
      BY <1>2 DEF Accounts, OneAtATime
    <3>2. bus.profile # "aisg2" => Len(scan'.assigned) = 1
      BY <2>2, <3>1
    <3> QED BY <1>2, <2>2, <3>2 DEF Accounts, OneAtATime, Unfinished
  <2>4. Handed' = Handed \cup {pair}
    BY <1>2, <1>3, <2>2, HandedAppended
  <2>5. Separate' = Separate
    BY <1>2, SeparateStays
  <2>6. AddressedAreListed'
    <3>1. scan'.outcome # "completed"
      BY <1>2, <2>2 DEF Accounts, Unfinished
    <3> QED BY <3>1 DEF AddressedAreListed
  <2>7. Accounted'
    <3> SUFFICES ASSUME fresh, Separate
                 PROVE  /\ \A d \in Devices : address'[d] # None => <<address'[d], d>> \in Handed'
                        /\ \A p \in Handed' :
                             /\ IF scan'.at = "connect" THEN p[1] <= scan'.nextAddress
                                                        ELSE p[1] < scan'.nextAddress
                             /\ \A d \in Devices : address'[d] = p[1] => d = p[2]
                             /\ \A q \in Handed' : q[1] = p[1] => q = p
      BY <1>2, <2>5 DEF Accounted
    <3>1. \A d \in heard : d = scan.candidate
      BY <1>2 DEF Takers, Unaddressed, Separate
    <3>2. \A p \in Handed : p[1] \in Nat /\ p[1] < scan.nextAddress
      BY <1>2, HandedTyped DEF Accounts, Accounted, Inv
    <3>3. \A d \in Devices : address[d] # None =>
            address[d] \in Nat /\ address[d] < scan.nextAddress
      BY <1>2 DEF Inv, HandedOut, TypeOK, Addresses
    <3>4. \A d \in Devices :
            address'[d] = IF d \in heard THEN scan.nextAddress ELSE address[d]
      BY <1>1
    <3>5. pair[1] = scan.nextAddress /\ pair[2] = scan.candidate
          /\ pair = <<scan.nextAddress, scan.candidate>>
      BY <1>3
    <3>6. ASSUME NEW d \in Devices, address'[d] # None
          PROVE  <<address'[d], d>> \in Handed'
      BY <1>2, <2>4, <3>1, <3>4, <3>5, <3>6 DEF Accounts, Accounted
    <3>7. ASSUME NEW p \in Handed'
          PROVE  /\ IF scan'.at = "connect" THEN p[1] <= scan'.nextAddress
                                            ELSE p[1] < scan'.nextAddress
                 /\ \A d \in Devices : address'[d] = p[1] => d = p[2]
                 /\ \A q \in Handed' : q[1] = p[1] => q = p
      <4>1. p[1] \in Nat /\ p[1] <= scan.nextAddress /\ p[1] # None
        BY <1>2, <2>4, <3>2, <3>5, HandedTyped DEF Inv
      <4>2. IF scan'.at = "connect" THEN p[1] <= scan'.nextAddress
                                    ELSE p[1] < scan'.nextAddress
        BY <1>2, <2>2, <4>1
      <4>3. \A q \in Handed' : q[1] = p[1] => q = p
        BY <1>2, <2>4, <3>2, <3>5 DEF Accounts, Accounted
      <4>4. \A d \in Devices : address'[d] = p[1] => d = p[2]
        <5>1. CASE p = pair
          BY <1>2, <3>1, <3>3, <3>4, <3>5, <4>1, <5>1
        <5>2. CASE p \in Handed
          BY <1>2, <3>2, <3>4, <5>2 DEF Accounts, Accounted
        <5> QED BY <2>4, <5>1, <5>2
      <4> QED BY <4>2, <4>3, <4>4
    <3> QED BY <3>6, <3>7
  <2> QED BY <2>3, <2>6, <2>7 DEF Accounts
<1> QED BY <1>6, <1>7

(* The head of what was assigned goes to the list.                         *)
LEMMA ConnectAccounts == ASSUME Inv, Accounts, Connect PROVE Accounts'
<1> USE DiscoveryAssumption
<1>1. PICK next : next = Head(scan.assigned)
  OBVIOUS
<1>2. PICK left : left = [scan EXCEPT !.assigned = Tail(@)]
  OBVIOUS
<1>3. /\ scan.at = "connect" /\ scan.assigned # <<>> /\ scan \in Scan
      /\ scan.assigned \in Seq(Addresses \X Devices) /\ scan.nextAddress \in Nat
      /\ UNCHANGED <<address, bus, fresh>>
  BY DEF Connect, Inv, TypeOK, Scan
<1>4. \/ scan' = Ended("failed") /\ UNCHANGED listed
      \/ /\ listed' = {l \in listed : l[1] # next[1]} \cup {next}
         /\ scan' = IF bus.profile = "aisg2" THEN left ELSE NextAddress(left)
  BY <1>1, <1>2 DEF Connect, Unanswered
<1>5. CASE scan' = Ended("failed") /\ UNCHANGED listed
  BY <1>3, <1>5, EndAccounts
<1>6. CASE /\ listed' = {l \in listed : l[1] # next[1]} \cup {next}
           /\ scan' = IF bus.profile = "aisg2" THEN left ELSE NextAddress(left)
  <2>1. /\ left.assigned = Tail(scan.assigned) /\ left.nextAddress = scan.nextAddress
        /\ left.outcome = scan.outcome /\ left.at = "connect" /\ left \in Scan
    <3>1. Tail(scan.assigned) \in Seq(Addresses \X Devices)
      BY <1>3
    <3> QED BY <1>2, <1>3, <3>1 DEF Scan
  <2>2. /\ scan'.assigned = Tail(scan.assigned) /\ scan'.outcome = scan.outcome
        /\ \/ /\ bus.profile = "aisg2" /\ scan'.at = "connect"
              /\ scan'.nextAddress = scan.nextAddress
           \/ /\ bus.profile # "aisg2" /\ scan'.at = "broad"
              /\ scan'.nextAddress = scan.nextAddress + 1
    BY <1>6, <2>1, NextFields
  <2>3. OneAtATime' /\ Unfinished'
    <3>1. bus.profile # "aisg2" => Len(scan.assigned) = 1
      BY <1>3 DEF Accounts, OneAtATime
    <3>2. bus.profile # "aisg2" => scan'.assigned = <<>>
      <4>1. /\ scan'.assigned \in Seq(Addresses \X Devices)
            /\ Len(scan'.assigned) = Len(scan.assigned) - 1
        BY <1>3, <2>2
      <4>2. ASSUME NEW q \in Seq(Addresses \X Devices), Len(q) = 0 PROVE q = <<>>
        BY <4>2
      <4>3. bus.profile # "aisg2" => Len(scan'.assigned) = 0
        BY <3>1, <4>1
      <4> QED BY <4>1, <4>2, <4>3
    <3> QED BY <1>3, <2>2, <3>2 DEF Accounts, OneAtATime, Unfinished
  <2>4. AddressedAreListed'
    <3>1. scan'.outcome # "completed"
      BY <1>3, <2>2 DEF Accounts, Unfinished
    <3> QED BY <3>1 DEF AddressedAreListed
  <2>5. Separate' = Separate
    BY <1>3, SeparateStays
  <2>6. Accounted'
    <3> SUFFICES ASSUME fresh, Separate PROVE Accounted'
      BY <1>3, <2>5 DEF Accounted
    <3>1. next \in Handed
      BY <1>1, <1>3, HeadIsHanded
    <3>2. Handed' = Handed
      <4>1. \A q \in Handed : q[1] = next[1] => q = next
        BY <1>3, <3>1 DEF Accounts, Accounted
      <4> QED BY <1>1, <1>3, <1>6, <2>2, <4>1, HeadListed
    <3>3. \A p \in Handed : p[1] \in Nat
      BY HandedTyped DEF Inv
    <3>4. /\ \A d \in Devices : address[d] # None => <<address[d], d>> \in Handed
          /\ \A p \in Handed :
               /\ p[1] <= scan.nextAddress
               /\ \A d \in Devices : address[d] = p[1] => d = p[2]
               /\ \A q \in Handed : q[1] = p[1] => q = p
      BY <1>3 DEF Accounts, Accounted
    <3>5. \A p \in Handed : IF scan'.at = "connect" THEN p[1] <= scan'.nextAddress
                                                     ELSE p[1] < scan'.nextAddress
      BY <1>3, <2>2, <3>3, <3>4
    <3> QED BY <1>3, <3>2, <3>4, <3>5 DEF Accounted
  <2> QED BY <2>3, <2>4, <2>6 DEF Accounts
<1> QED BY <1>4, <1>5, <1>6

LEMMA RestartAccounts ==
  ASSUME Inv, Accounts, NEW dev \in Devices, Restart(dev) PROVE Accounts'
<1>1. address' = [address EXCEPT ![dev] = None] /\ UNCHANGED <<bus, scan, listed, fresh>>
  BY DEF Restart
<1>2. \A d \in Devices : address'[d] # None => address'[d] = address[d]
  BY <1>1 DEF Inv, TypeOK
<1>3. Separate' = Separate /\ Handed' = Handed
  BY <1>1, SeparateStays DEF Handed
<1>4. \A p \in Handed : p[1] # None
  BY HandedTyped, DiscoveryAssumption DEF Inv
<1>5. OneAtATime' /\ Unfinished'
  BY <1>1 DEF Accounts, OneAtATime, Unfinished
<1>6. Accounted'
  BY <1>1, <1>2, <1>3, <1>4 DEF Accounts, Accounted
<1>7. AddressedAreListed'
  BY <1>1, <1>2, <1>3 DEF Accounts, AddressedAreListed
<1> QED BY <1>5, <1>6, <1>7 DEF Accounts

LEMMA CancelAccounts == ASSUME Inv, Accounts, Cancel PROVE Accounts'
<1>1. /\ scan' = [scan EXCEPT !.cancelled = TRUE] /\ scan.at # "idle" /\ scan \in Scan
      /\ UNCHANGED <<address, bus, listed, fresh>>
  BY DEF Cancel, Goes, Inv, TypeOK
<1>2. /\ scan'.at = scan.at /\ scan'.assigned = scan.assigned
      /\ scan'.outcome = scan.outcome /\ scan'.nextAddress = scan.nextAddress
  BY <1>1 DEF Scan
<1> QED BY <1>1, <1>2, OnwardAccounts

LEMMA NextAccounts == Inv /\ Accounts /\ [Next]_vars => Accounts'
<1> SUFFICES ASSUME Inv, Accounts, [Next]_vars PROVE Accounts'
  OBVIOUS
<1>1. CASE UNCHANGED vars
  <2>1. Separate' = Separate /\ Handed' = Handed
    BY <1>1, SeparateStays DEF vars, Handed
  <2> QED BY <1>1, <2>1 DEF vars, Accounts, OneAtATime, Unfinished, Accounted,
                            AddressedAreListed
<1>2. CASE LeaveLoop
  BY <1>2, AllFoundAccounts DEF LeaveLoop
<1>3. CASE AllConnected
  <2>1. /\ scan.at # "idle" /\ (scan.cancelled \/ scan.assigned = <<>>)
        /\ scan' = Ended("completed") /\ UNCHANGED <<address, bus, listed, fresh>>
    BY <1>3 DEF AllConnected, Goes
  <2> QED BY <2>1, EndAccounts
<1> QED BY <1>1, <1>2, <1>3, BeginScanAccounts, SearchAccounts, AssignAccounts,
           ConnectAccounts, CancelAccounts, RestartAccounts DEF Next

LEMMA InitAccounts == Init => Accounts
<1> SUFFICES ASSUME Init PROVE Accounts
  OBVIOUS
<1>1. scan.at = "idle" /\ scan.assigned = <<>> /\ scan.outcome = None
  BY DEF Init, Locals
<1>2. None # "completed"
  BY DiscoveryAssumption
<1> QED BY <1>1, <1>2 DEF Accounts, OneAtATime, Unfinished, Accounted, AddressedAreListed

-----------------------------------------------------------------------------
(* Identifiers. *)

BusTyped == bus \in [bench : Benches, profile : Profiles, echo : Echoes, reset : Resets]

LEMMA ReverseTyped ==
  ASSUME NEW s \in Seq({0, 1})
  PROVE  /\ Reverse(s) \in Seq({0, 1}) /\ Len(Reverse(s)) = Len(s)
         /\ \A i \in 1 .. Len(s) : Reverse(s)[i] = s[Len(s) - i + 1]
<1>1. Len(s) \in Nat /\ DOMAIN s = 1 .. Len(s) /\ \A i \in 1 .. Len(s) : s[i] \in {0, 1}
  OBVIOUS
<1>2. \A i \in 1 .. Len(s) : Len(s) - i + 1 \in 1 .. Len(s)
  BY <1>1
<1>3. Reverse(s) = [i \in 1 .. Len(s) |-> s[Len(s) - i + 1]]
  BY DEF Reverse
<1>4. Reverse(s) \in [1 .. Len(s) -> {0, 1}]
  BY <1>1, <1>2, <1>3
<1> QED BY <1>1, <1>3, <1>4

LEMMA SuffixMeans ==
  ASSUME NEW s \in Seq({0, 1}), NEW t \in Seq({0, 1}), IsSuffix(s, t)
  PROVE  /\ Len(s) <= Len(t)
         /\ \A i \in 1 .. Len(s) : s[Len(s) - i + 1] = t[Len(t) - i + 1]
<1>1. PICK rs \in Seq({0, 1}) : rs = Reverse(s)
  BY ReverseTyped
<1>2. PICK rt \in Seq({0, 1}) : rt = Reverse(t)
  BY ReverseTyped
<1>3. Len(rs) = Len(s) /\ \A i \in 1 .. Len(s) : rs[i] = s[Len(s) - i + 1]
  BY <1>1, ReverseTyped
<1>4. Len(rt) = Len(t) /\ \A i \in 1 .. Len(t) : rt[i] = t[Len(t) - i + 1]
  BY <1>2, ReverseTyped
<1>5. Len(rs) <= Len(rt) /\ SubSeq(rs, 1, Len(rs)) = SubSeq(rt, 1, Len(rs))
  BY <1>1, <1>2 DEF IsSuffix, IsPrefix
<1>6. ASSUME NEW i \in 1 .. Len(s) PROVE rs[i] = rt[i]
  <2>1. SubSeq(rs, 1, Len(rs))[i] = rs[i] /\ SubSeq(rt, 1, Len(rs))[i] = rt[i]
    BY <1>3, <1>4, <1>5
  <2> QED BY <1>5, <2>1
<1>7. Len(s) \in Nat /\ Len(t) \in Nat
  OBVIOUS
<1> QED BY <1>3, <1>4, <1>5, <1>6, <1>7

LEMMA SuffixOfItself == ASSUME NEW s \in Seq({0, 1}) PROVE IsSuffix(s, s)
<1>1. Len(Reverse(s)) \in Nat
  BY ReverseTyped
<1> QED BY <1>1 DEF IsSuffix, IsPrefix

LEMMA UnitTyped ==
  ASSUME BusTyped, NEW d \in Devices
  PROVE  /\ bus.bench[d] \in Seq({0, 1}) /\ Len(bus.bench[d]) \in Nat
         /\ Len(bus.bench[d]) <= Width - Vendor
         /\ Width \in Nat /\ Vendor \in 0 .. Width
<1>1. bus.bench \in Benches
  BY DEF BusTyped
<1>2. bus.bench[d] \in Seq({0, 1}) /\ Len(bus.bench[d]) <= Width - Vendor
  BY <1>1, DiscoveryAssumption
<1> QED BY <1>2, DiscoveryAssumption

LEMMA UnpaddedTyped ==
  ASSUME BusTyped, NEW d \in Devices
  PROVE  /\ Unpadded(d) \in Seq({0, 1})
         /\ Len(Unpadded(d)) = Vendor + Len(bus.bench[d])
         /\ \A i \in 1 .. Len(bus.bench[d]) : Unpadded(d)[Vendor + i] = bus.bench[d][i]
<1>1. PICK vendor : vendor = [b \in 1 .. Vendor |-> 1]
  OBVIOUS
<1>2. vendor \in Seq({0, 1}) /\ Len(vendor) = Vendor
  BY <1>1, UnitTyped
<1>3. PICK unit \in Seq({0, 1}) : unit = bus.bench[d]
  BY UnitTyped
<1>4. Unpadded(d) = vendor \o unit
  BY <1>1, <1>3 DEF Unpadded
<1>5. Len(unit) \in Nat /\ Vendor \in Nat
  BY <1>3, UnitTyped
<1>6. /\ vendor \o unit \in Seq({0, 1}) /\ Len(vendor \o unit) = Vendor + Len(unit)
      /\ \A i \in 1 .. Len(unit) : (vendor \o unit)[Vendor + i] = unit[i]
  BY <1>2, <1>5
<1> QED BY <1>3, <1>4, <1>6

LEMMA PaddedBit ==
  ASSUME BusTyped, NEW d \in Devices, NEW b \in Bits
  PROVE  Padded(d)[b] \in {0, 1}
<1>1. PICK unit \in Seq({0, 1}) : unit = bus.bench[d]
  BY UnitTyped
<1>2. Len(unit) \in Nat /\ b \in Nat /\ b <= Width /\ Width \in Nat
  BY <1>1, UnitTyped DEF Bits
<1>3. Padded(d)[b] = IF b <= Vendor THEN 1
                     ELSE IF b <= Width - Len(unit) THEN 0
                     ELSE unit[b - (Width - Len(unit))]
  BY <1>1 DEF Padded
<1>4. CASE b <= Width - Len(unit)
  BY <1>3, <1>4
<1>5. CASE ~(b <= Width - Len(unit))
  <2>1. b - (Width - Len(unit)) \in 1 .. Len(unit)
    BY <1>2, <1>5
  <2>2. unit[b - (Width - Len(unit))] \in {0, 1}
    BY <2>1
  <2> QED BY <1>3, <2>2
<1> QED BY <1>4, <1>5

LEMMA ExactBit ==
  ASSUME NEW d
  PROVE  /\ DOMAIN Exact(d) \subseteq Bits
         /\ \A b \in DOMAIN Exact(d) : Exact(d)[b] = Padded(d)[b]
BY DEF Exact

LEMMA MatchesItself == ASSUME NEW d PROVE Matches(d, Exact(d))
BY ExactBit DEF Matches

(* Identifiers that a confirmation tells apart differ in a bit.            *)
LEMMA DifferInABit ==
  ASSUME Distinct, NEW d \in Devices, NEW e \in Devices, d # e
  PROVE  \E b \in Bits : Padded(d)[b] # Padded(e)[b]
<1>1. ~Matches(e, Exact(d))
  BY DEF Distinct
<1>2. PICK b \in DOMAIN Exact(d) : Padded(e)[b] # Exact(d)[b]
  BY <1>1 DEF Matches
<1> QED BY <1>2, ExactBit

(* A device whose assignment another one would take is confused with it by *)
(* the confirmation already.                                               *)
LEMMA DistinctAreSeparate == ASSUME BusTyped, Distinct PROVE Separate
<1> SUFFICES ASSUME NEW d \in Devices, NEW e \in Devices, Takes(e, d) PROVE e = d
  BY DEF Separate
<1>1. CASE bus.profile = "aisg3"
  BY <1>1 DEF Takes
<1>2. CASE bus.profile # "aisg3"
  <2>1. PICK u \in Seq({0, 1}) : u = bus.bench[d]
    BY UnitTyped
  <2>2. PICK v \in Seq({0, 1}) : v = bus.bench[e]
    BY UnitTyped
  <2>3. PICK s \in Seq({0, 1}) : s = Unpadded(d)
    BY UnpaddedTyped
  <2>4. PICK t \in Seq({0, 1}) : t = Unpadded(e)
    BY UnpaddedTyped
  <2>5. /\ Len(s) = Vendor + Len(u) /\ \A i \in 1 .. Len(u) : s[Vendor + i] = u[i]
        /\ Len(t) = Vendor + Len(v) /\ \A i \in 1 .. Len(v) : t[Vendor + i] = v[i]
    BY <2>1, <2>2, <2>3, <2>4, UnpaddedTyped
  <2>6. /\ Len(s) <= Len(t)
        /\ \A i \in 1 .. Len(s) : s[Len(s) - i + 1] = t[Len(t) - i + 1]
    BY <1>2, <2>3, <2>4, SuffixMeans DEF Takes
  <2>7. Len(u) \in Nat /\ Len(v) \in Nat /\ Vendor \in Nat /\ Len(u) <= Len(v)
        /\ Width \in Nat /\ Vendor <= Width
    BY <2>1, <2>2, <2>5, <2>6, UnitTyped
  <2>8. ASSUME NEW i \in 1 .. Len(u) PROVE u[Len(u) - i + 1] = v[Len(v) - i + 1]
    <3>1. i \in Nat /\ i \in 1 .. Len(s) /\ Len(u) - i + 1 \in 1 .. Len(u)
          /\ Len(v) - i + 1 \in 1 .. Len(v)
      BY <2>5, <2>7
    <3>2. s[Vendor + (Len(u) - i + 1)] = u[Len(u) - i + 1]
          /\ t[Vendor + (Len(v) - i + 1)] = v[Len(v) - i + 1]
      BY <2>5, <3>1
    <3>3. Vendor + (Len(u) - i + 1) = Len(s) - i + 1
          /\ Vendor + (Len(v) - i + 1) = Len(t) - i + 1
      BY <2>5, <2>7, <3>1
    <3> QED BY <2>6, <3>1, <3>2, <3>3
  <2>9. ASSUME NEW b \in DOMAIN Exact(d) PROVE Padded(e)[b] = Exact(d)[b]
    <3>1. b \in Bits /\ (b <= Vendor \/ b > Width - Len(u)) /\ Exact(d)[b] = Padded(d)[b]
      BY <1>2, <2>1 DEF Exact
    <3>2. /\ Padded(d)[b] = IF b <= Vendor THEN 1 ELSE IF b <= Width - Len(u) THEN 0
                            ELSE u[b - (Width - Len(u))]
          /\ Padded(e)[b] = IF b <= Vendor THEN 1 ELSE IF b <= Width - Len(v) THEN 0
                            ELSE v[b - (Width - Len(v))]
      BY <2>1, <2>2, <3>1 DEF Padded
    <3>3. CASE b <= Vendor
      BY <3>1, <3>2, <3>3
    <3>4. CASE ~(b <= Vendor)
      <4>1. b \in Nat /\ b <= Width /\ b > Width - Len(u)
        BY <2>7, <3>1, <3>4 DEF Bits
      <4>2. /\ Width - b + 1 \in 1 .. Len(u)
            /\ b - (Width - Len(u)) = Len(u) - (Width - b + 1) + 1
            /\ b - (Width - Len(v)) = Len(v) - (Width - b + 1) + 1
            /\ ~(b <= Width - Len(u)) /\ ~(b <= Width - Len(v))
        BY <2>7, <4>1
      <4>3. u[b - (Width - Len(u))] = v[b - (Width - Len(v))]
        BY <2>8, <4>2
      <4> QED BY <3>1, <3>2, <3>4, <4>2, <4>3
    <3> QED BY <3>3, <3>4
  <2>10. Matches(e, Exact(d))
    BY <2>9 DEF Matches
  <2> QED BY <2>10 DEF Distinct
<1> QED BY <1>1, <1>2

LEMMA TakesItsOwn == ASSUME BusTyped, NEW d \in Devices PROVE Takes(d, d)
BY UnpaddedTyped, SuffixOfItself DEF Takes

-----------------------------------------------------------------------------
(* The search. *)

(* Nothing has gone wrong, and nobody has cancelled.                       *)
Quiet == fresh /\ Distinct /\ ~bus.echo /\ ~scan.cancelled /\ faults = 0

(* What has been handed out is in use, and comes without gaps.             *)
Used(a) == \/ a < scan.nextAddress
           \/ /\ a = scan.nextAddress
              /\ scan.at = "connect" /\ bus.profile # "aisg2"
InUse  == \A p \in Handed : address[p[2]] = p[1]
NoGaps == \A a \in Addresses : Used(a) => \E p \in Handed : p[1] = a

(* A call of resolveCollision looks at the next bit of at least two        *)
(* devices; after the branch of 0 all of them have a 1 there.  Each bit    *)
(* takes two queries at most.                                              *)
Narrows(call, count) ==
  /\ call.bit \in Bits /\ DOMAIN call.pattern = 1 .. call.bit - 1
  /\ \E d, e \in Answering(call.pattern) : d # e
  /\ call.one => \A d \in Answering(call.pattern) : Padded(d)[call.bit] = 1
  /\ count <= 2 * call.bit - (IF call.one THEN 0 ELSE 1)
Sought ==
  /\ scan.at = "broad" => scan.queryCount = 0
  /\ scan.at = "resolve" =>
       scan.resolving # <<>> /\ Narrows(Innermost, scan.queryCount)
  /\ scan.at \in {"confirm", "assign"} => scan.candidate \in Unaddressed
  /\ scan.at = "confirm" => scan.queryCount <= 2 * Width

Exhausted ==
  scan.at = "connect" /\ bus.profile = "aisg2" => Unaddressed = {} \/ PoolEmpty

Searching == Quiet /\ scan.at # "idle" => InUse /\ NoGaps /\ Sought /\ Exhausted

All == Inv /\ Accounts /\ BusTyped /\ Searching /\ FindsAll

LEMMA BusStays ==
  ASSUME bus' = bus
  PROVE  /\ Distinct' = Distinct /\ BusTyped' = BusTyped
         /\ \A d : Padded(d)' = Padded(d)
BY DEF Distinct, BusTyped, Matches, Exact, Padded

(* The answer to a query of a line that works.                             *)
LEMMA QuietQuery ==
  ASSUME BusTyped, TypeOK, Quiet, faults' = 0, NEW pattern, NEW result,
         Queries(pattern, result)
  PROVE  /\ result.kind = "none" => Answering(pattern) = {}
         /\ result.kind = "found" => result.device \in Answering(pattern)
         /\ result.kind = "collision" => \E d, e \in Answering(pattern) : d # e
         /\ scan.queryCount < MaxQueries
<1>1. PICK faulty \in BOOLEAN :
        /\ scan.queryCount < MaxQueries
        /\ result \in QueryResults(Answering(pattern), faulty)
        /\ Meets(faulty)
  BY DEF Queries
<1>2. ~faulty
  <2>1. faults = 0 /\ faults' = 0
    BY DEF Quiet
  <2> QED BY <1>1, <2>1 DEF Meets
<1>3. PICK M : M = Answering(pattern)
  OBVIOUS
<1>4. PICK r \in Clean(M) : result \in Results(r)
  BY <1>1, <1>2, <1>3 DEF QueryResults, Quiet
<1>5. bus.profile \in {"aisg2", "aisg3"} /\ ~bus.echo
  BY DiscoveryAssumption DEF BusTyped, Quiet
<1>6. CASE r.frames = M /\ r.rest = "silence"
  <2>1. CASE Readable(r)
    <3>1. PICK d \in M : result = Result("found", d)
      BY <1>4, <1>6, <2>1 DEF Results
    <3> QED BY <1>1, <1>3, <3>1 DEF Result
  <2>2. CASE ~Readable(r)
    <3>1. result = Result(IF Activity(r) THEN "collision" ELSE "none", None)
      BY <1>4, <2>2 DEF Results
    <3>2. M = {} \/ \E d, e \in M : d # e
      BY <1>6, <2>2 DEF Readable
    <3>3. M = {} => ~Activity(r)
      BY <1>5, <1>6 DEF Activity
    <3>4. M # {} => Activity(r)
      BY <1>6 DEF Activity
    <3> QED BY <1>1, <1>3, <3>1, <3>2, <3>3, <3>4 DEF Result
  <2> QED BY <2>1, <2>2
<1>7. CASE r.frames = {} /\ r.rest # "silence" /\ \E d, e \in M : d # e
  <2>1. r.rest \in {"noise", "invalid"}
    BY <1>4, <1>7 DEF Clean, Reception
  <2>2. ~Readable(r) /\ Activity(r)
    BY <1>5, <1>7, <2>1 DEF Readable, Activity
  <2>3. result = Result("collision", None)
    BY <1>4, <2>2 DEF Results
  <2> QED BY <1>1, <1>3, <1>7, <2>3 DEF Result
<1> QED BY <1>4, <1>6, <1>7 DEF Clean

LEMMA Disturbed == ASSUME ~Quiet' PROVE Searching' /\ FindsAll'
BY DEF Searching, FindsAll, Quiet

(* A scan that goes on has no outcome yet.                                 *)
LEMMA NotOver ==
  ASSUME Accounts', scan'.at # "idle"
  PROVE  FindsAll'
<1>1. scan'.outcome = None
  BY DEF Accounts, Unfinished
<1> QED BY <1>1 DEF FindsAll

LEMMA QuietBefore ==
  ASSUME Quiet', UNCHANGED <<bus, fresh>>, TypeOK,
         scan.cancelled => scan'.cancelled,
         faults' = faults \/ \E faulty \in BOOLEAN : Meets(faulty)
  PROVE  Quiet /\ faults' = 0 /\ faults' = faults
<1>1. Distinct
  BY BusStays DEF Quiet
<1>2. faults \in Nat /\ faults' = 0
  BY DEF TypeOK, Quiet
<1>3. faults' = faults
  BY <1>2 DEF Meets
<1> QED BY <1>1, <1>2, <1>3 DEF Quiet

(* What was handed out does not change while the scan looks further.       *)
LEMMA SameListing ==
  ASSUME UNCHANGED <<address, bus, listed>>, scan'.assigned = scan.assigned,
         scan'.nextAddress = scan.nextAddress,
         scan.at # "connect", scan'.at = "connect" => bus.profile = "aisg2",
         InUse, NoGaps
  PROVE  InUse' /\ NoGaps'
<1>1. Handed' = Handed
  BY DEF Handed
<1>2. \A a : Used(a)' => Used(a)
  BY DEF Used
<1> QED BY <1>1, <1>2 DEF InUse, NoGaps

(* A scan that has connected everything it could.                          *)
LEMMA Completes ==
  ASSUME Inv, Accounts, BusTyped, Quiet, InUse, NoGaps, scan.at # "idle",
         scan' = Ended("completed"), scan.assigned = <<>>,
         UNCHANGED <<address, bus, listed, fresh>>,
         Unaddressed = {} \/ PoolEmpty
  PROVE  Searching' /\ FindsAll'
<1>1. scan'.at = "idle" /\ scan'.outcome = "completed"
  BY EndedFields
<1>2. Handed = listed
  <2>1. PICK waiting : waiting = {scan.assigned[i] : i \in DOMAIN scan.assigned}
    OBVIOUS
  <2>2. DOMAIN scan.assigned = {}
    OBVIOUS
  <2>3. waiting = {}
    BY <2>1, <2>2
  <2> QED BY <2>1, <2>3 DEF Handed
<1>3. \A p \in listed : p \in Addresses \X Devices /\ p[1] \in Addresses /\ p[2] \in Devices
  BY DEF Inv, TypeOK
<1>4. CASE Unaddressed = {}
  <2>1. Separate
    BY DistinctAreSeparate DEF Quiet
  <2>2. \A d \in Devices : <<address[d], d>> \in listed
    BY <1>2, <1>4, <2>1 DEF Accounts, Accounted, Quiet, Unaddressed
  <2>3. {l[2] : l \in listed} = Devices
    <3>1. \A l \in listed : l[2] \in Devices
      BY <1>3
    <3>2. ASSUME NEW d \in Devices PROVE \E l \in listed : l[2] = d
      <4>1. <<address[d], d>>[2] = d
        OBVIOUS
      <4> QED BY <2>2, <4>1
    <3> QED BY <3>1, <3>2
  <2> QED BY <1>1, <2>3 DEF Searching, FindsAll
<1>5. CASE PoolEmpty
  <2>1. \A a \in Addresses : Used(a)
    <3>1. scan.nextAddress \in Nat /\ scan.nextAddress > LastAddress /\ LastAddress \in Nat
      BY <1>5, DiscoveryAssumption DEF PoolEmpty, Inv, TypeOK, Scan
    <3> QED BY <3>1 DEF Used, Addresses
  <2>2. \A a \in Addresses : \E l \in listed : l[1] = a
    BY <1>2, <2>1 DEF NoGaps
  <2>3. {l[1] : l \in listed} = Addresses
    <3>1. \A l \in listed : l[1] \in Addresses
      BY <1>3
    <3>2. \A a \in Addresses : a \in {l[1] : l \in listed}
      BY <2>2
    <3> QED BY <3>1, <3>2
  <2> QED BY <1>1, <2>3 DEF Searching, FindsAll
<1> QED BY <1>4, <1>5

LEMMA AllFoundSearch ==
  ASSUME All, Accounts', Quiet, scan.at = "broad", AllFound,
         Unaddressed = {} \/ PoolEmpty
  PROVE  Searching' /\ FindsAll'
<1>1. InUse /\ NoGaps
  BY DEF All, Searching
<1>2. CASE bus.profile = "aisg2"
  <2>1. /\ scan' = [scan EXCEPT !.at = "connect"] /\ scan \in Scan
        /\ UNCHANGED <<address, bus, listed, fresh>>
    BY <1>2 DEF AllFound, Goes, All, Inv, TypeOK
  <2>2. /\ scan'.at = "connect" /\ scan'.assigned = scan.assigned
        /\ scan'.nextAddress = scan.nextAddress
    BY <2>1 DEF Scan
  <2>3. InUse' /\ NoGaps'
    BY <1>1, <1>2, <2>1, <2>2, SameListing
  <2>4. Exhausted' /\ Sought'
    BY <2>1, <2>2 DEF Exhausted, Sought, Unaddressed, PoolEmpty
  <2> QED BY <2>2, <2>3, <2>4, NotOver DEF Searching
<1>3. CASE bus.profile # "aisg2"
  <2>1. scan' = Ended("completed") /\ UNCHANGED <<address, bus, listed, fresh>>
    BY <1>3 DEF AllFound, Goes
  <2>2. scan.assigned = <<>>
    BY <1>3 DEF All, Accounts, OneAtATime
  <2> QED BY <1>1, <2>1, <2>2, Completes DEF All
<1> QED BY <1>2, <1>3

LEMMA BeginSearch ==
  ASSUME All, Accounts', BeginScan PROVE Searching' /\ FindsAll'
<1>1. /\ scan' = [Locals EXCEPT !.at = "broad"] /\ listed' = {}
  BY DEF BeginScan
<1>2. /\ scan'.at = "broad" /\ scan'.assigned = <<>> /\ scan'.nextAddress = 1
      /\ scan'.queryCount = 0
  BY <1>1 DEF Locals
<1>3. Handed' = {}
  <2>1. PICK waits : waits = {scan'.assigned[i] : i \in DOMAIN scan'.assigned}
    OBVIOUS
  <2>2. DOMAIN scan'.assigned = {}
    BY <1>2
  <2>3. waits = {}
    BY <2>1, <2>2
  <2> QED BY <1>1, <2>1, <2>3 DEF Handed
<1>4. InUse' /\ NoGaps'
  BY <1>2, <1>3, DiscoveryAssumption DEF InUse, NoGaps, Used, Addresses
<1>5. Sought' /\ Exhausted'
  BY <1>2 DEF Sought, Exhausted
<1> QED BY <1>2, <1>4, <1>5, NotOver DEF Searching

LEMMA LeaveLoopSearch ==
  ASSUME All, Accounts', LeaveLoop PROVE Searching' /\ FindsAll'
<1>1. CASE ~Quiet'
  BY <1>1, Disturbed
<1>2. CASE Quiet'
  <2>1. scan.at = "broad" /\ AllFound /\ (scan.cancelled \/ PoolEmpty) /\ UNCHANGED faults
    BY DEF LeaveLoop
  <2>2. UNCHANGED <<bus, fresh>> /\ scan'.cancelled = scan.cancelled
    BY <2>1, EndedFields DEF AllFound, Goes, All, Inv, TypeOK, Scan
  <2>3. Quiet
    BY <1>2, <2>1, <2>2, QuietBefore DEF All, Inv
  <2> QED BY <2>1, <2>3, AllFoundSearch DEF Quiet
<1> QED BY <1>1, <1>2

LEMMA SearchCounts ==
  ASSUME TypeOK
  PROVE  scan.queryCount \in Nat /\ Width \in Nat
BY DiscoveryAssumption DEF TypeOK, Scan

(* A step of the search.                                                   *)
LEMMA GoesOn ==
  ASSUME All, Accounts', Quiet, scan.at \in {"broad", "resolve", "confirm"},
         UNCHANGED <<address, bus, listed, fresh>>,
         scan'.at \in {"resolve", "confirm", "assign"},
         scan'.assigned = scan.assigned, scan'.nextAddress = scan.nextAddress,
         Sought'
  PROVE  Searching' /\ FindsAll'
<1>1. InUse /\ NoGaps
  BY DEF All, Searching
<1>2. InUse' /\ NoGaps'
  BY <1>1, SameListing
<1>3. Exhausted'
  BY DEF Exhausted
<1> QED BY <1>2, <1>3, NotOver DEF Searching

LEMMA BroadSearch ==
  ASSUME Width > 0, All, Accounts', Broad PROVE Searching' /\ FindsAll'
<1>1. CASE ~Quiet'
  BY <1>1, Disturbed
<1>2. CASE Quiet'
  <2> DEFINE first == [pattern |-> <<>>, bit |-> 1, one |-> FALSE]
  <2>1. PICK result \in [kind : {"none", "found", "collision"},
                         device : Devices \cup {None}] :
          /\ Queries(<<>>, result)
          /\ CASE result.kind = "none" -> AllFound
               [] result.kind = "found" ->
                    Goes([Asked EXCEPT !.at = "confirm", !.candidate = result.device])
               [] result.kind = "collision" ->
                    Goes([Asked EXCEPT !.at = "resolve", !.resolving = <<first>>])
    BY DEF Broad
  <2>2. /\ scan.at = "broad" /\ scan \in Scan /\ TypeOK /\ BusTyped
        /\ \E faulty \in BOOLEAN : Meets(faulty)
    BY <2>1 DEF Broad, Queries, All, Inv, TypeOK
  <2>3. scan.queryCount \in Nat /\ Width \in Nat
    BY <2>2, SearchCounts
  <2>4. CASE result.kind = "none"
    <3>1. AllFound
      BY <2>1, <2>4
    <3>2. UNCHANGED <<bus, fresh>> /\ scan'.cancelled = scan.cancelled
      BY <2>2, <3>1, EndedFields DEF AllFound, Goes, Scan
    <3>3. Quiet /\ faults' = 0
      BY <1>2, <2>2, <3>2, QuietBefore
    <3>4. Answering(<<>>) = {}
      BY <2>1, <2>2, <2>4, <3>3, QuietQuery
    <3>5. Unaddressed = {}
      BY <3>4 DEF Answering, Matches
    <3> QED BY <2>2, <3>1, <3>3, <3>5, AllFoundSearch
  <2>5. CASE result.kind = "found"
    <3>1. scan' = [Asked EXCEPT !.at = "confirm", !.candidate = result.device]
          /\ UNCHANGED <<address, bus, listed, fresh>>
      BY <2>1, <2>5 DEF Goes
    <3>2. /\ scan'.at = "confirm" /\ scan'.candidate = result.device
          /\ scan'.cancelled = scan.cancelled /\ scan'.queryCount = scan.queryCount + 1
          /\ scan'.assigned = scan.assigned /\ scan'.nextAddress = scan.nextAddress
      BY <2>2, <3>1 DEF Asked, Scan
    <3>3. Quiet /\ faults' = 0
      BY <1>2, <2>2, <3>1, <3>2, QuietBefore
    <3>4. result.device \in Unaddressed
      BY <2>1, <2>2, <2>5, <3>3, QuietQuery DEF Answering
    <3>5. scan.queryCount = 0
      BY <2>2, <3>3 DEF All, Searching, Sought
    <3>6. Sought'
      BY <2>3, <3>1, <3>2, <3>4, <3>5 DEF Sought, Unaddressed
    <3> QED BY <2>2, <3>1, <3>2, <3>3, <3>6, GoesOn
  <2>6. CASE result.kind = "collision"
    <3>1. scan' = [Asked EXCEPT !.at = "resolve", !.resolving = <<first>>]
          /\ UNCHANGED <<address, bus, listed, fresh>>
      BY <2>1, <2>6 DEF Goes
    <3> HIDE DEF first
    <3>2. /\ scan'.at = "resolve" /\ scan'.resolving = <<first>>
          /\ scan'.cancelled = scan.cancelled /\ scan'.queryCount = scan.queryCount + 1
          /\ scan'.assigned = scan.assigned /\ scan'.nextAddress = scan.nextAddress
      BY <2>2, <3>1 DEF Asked, Scan
    <3>3. Quiet /\ faults' = 0
      BY <1>2, <2>2, <3>1, <3>2, QuietBefore
    <3>4. \E d, e \in Answering(<<>>) : d # e
      BY <2>1, <2>2, <2>6, <3>3, QuietQuery
    <3>5. scan.queryCount = 0
      BY <2>2, <3>3 DEF All, Searching, Sought
    <3>6. first.pattern = <<>> /\ first.bit = 1 /\ first.one = FALSE
      BY DEF first
    <3>7. Answering(<<>>)' = Answering(<<>>)
      BY <3>1, BusStays DEF Answering, Unaddressed, Matches
    <3>8. Narrows(first, 1)'
      <4>1. 1 \in Bits /\ DOMAIN first.pattern = 1 .. first.bit - 1
        BY <2>3, <3>6 DEF Bits
      <4> QED BY <3>4, <3>6, <3>7, <4>1 DEF Narrows
    <3>9. Sought'
      <4>1. Innermost' = first /\ scan'.resolving # <<>> /\ scan'.queryCount = 1
        BY <3>2, <3>5 DEF Innermost
      <4> QED BY <3>2, <3>8, <4>1 DEF Sought
    <3> QED BY <2>2, <3>1, <3>2, <3>3, <3>9, GoesOn
  <2> QED BY <2>4, <2>5, <2>6
<1> QED BY <1>1, <1>2

(* Two devices that agree on all bits are one.                             *)
LEMMA NarrowsWithin ==
  ASSUME Distinct, NEW pattern, NEW bit \in Nat, DOMAIN pattern = 1 .. bit - 1,
         NEW d \in Answering(pattern), NEW e \in Answering(pattern), d # e
  PROVE  bit <= Width
<1> SUFFICES ASSUME bit > Width PROVE FALSE
  BY DiscoveryAssumption
<1>1. d \in Devices /\ e \in Devices
  BY DEF Answering, Unaddressed
<1>2. PICK b \in Bits : Padded(d)[b] # Padded(e)[b]
  BY <1>1, DifferInABit
<1>3. b \in DOMAIN pattern
  BY DiscoveryAssumption DEF Bits
<1> QED BY <1>2, <1>3 DEF Answering, Matches

(* The branch of a call narrows the pattern down to its bit.               *)
LEMMA BranchMeans ==
  ASSUME NEW call, call.bit \in Bits, DOMAIN call.pattern = 1 .. call.bit - 1
  PROVE  /\ DOMAIN Branch(call) = 1 .. call.bit
         /\ \A d : d \in Answering(Branch(call)) <=>
              /\ d \in Answering(call.pattern)
              /\ Padded(d)[call.bit] = IF call.one THEN 1 ELSE 0
<1>1. call.bit \in Nat /\ call.bit >= 1
  BY DiscoveryAssumption DEF Bits
<1>2. DOMAIN Branch(call) = DOMAIN call.pattern \cup {call.bit}
  BY DEF Branch
<1>3. DOMAIN Branch(call) = 1 .. call.bit
  BY <1>1, <1>2
<1>4. call.bit \notin DOMAIN call.pattern
  BY <1>1
<1>5. Branch(call)[call.bit] = IF call.one THEN 1 ELSE 0
  BY DEF Branch
<1>6. \A b \in DOMAIN call.pattern : Branch(call)[b] = call.pattern[b]
  BY <1>4 DEF Branch
<1>7. ASSUME NEW d
      PROVE  Matches(d, Branch(call)) <=>
               /\ Matches(d, call.pattern)
               /\ Padded(d)[call.bit] = IF call.one THEN 1 ELSE 0
  BY <1>2, <1>5, <1>6 DEF Matches
<1> QED BY <1>3, <1>7 DEF Answering

(* What a query of a branch leaves of a call.                              *)
LEMMA NoneNarrows ==
  ASSUME BusTyped, TypeOK, NEW call \in Call, Narrows(call, scan.queryCount),
         Answering(Branch(call)) = {}
  PROVE  ~call.one /\ Narrows(NextBranch(call), scan.queryCount + 1)
<1>1. PICK d \in Answering(call.pattern), e \in Answering(call.pattern) : d # e
  BY DEF Narrows
<1>2. call.bit \in Bits /\ call.bit \in Nat /\ DOMAIN call.pattern = 1 .. call.bit - 1
  BY DiscoveryAssumption DEF Narrows, Bits
<1>3. \A f \in Answering(call.pattern) : Padded(f)[call.bit] # IF call.one THEN 1 ELSE 0
  BY <1>2, BranchMeans
<1>4. ~call.one
  BY <1>1, <1>3 DEF Narrows
<1>5. \A f \in Answering(call.pattern) : Padded(f)[call.bit] = 1
  <2>1. \A f \in Answering(call.pattern) : Padded(f)[call.bit] \in {0, 1}
    BY <1>2, PaddedBit DEF Answering, Unaddressed
  <2> QED BY <1>3, <1>4, <2>1
<1>6. /\ NextBranch(call).pattern = call.pattern /\ NextBranch(call).bit = call.bit
      /\ NextBranch(call).one = TRUE
  BY <1>4 DEF NextBranch, Call
<1>7. scan.queryCount + 1 <= 2 * call.bit
  <2>1. scan.queryCount <= 2 * call.bit - 1
    BY <1>4 DEF Narrows
  <2> QED BY <1>2, <2>1, SearchCounts
<1>8. scan.queryCount + 1 <= 2 * NextBranch(call).bit
                             - (IF NextBranch(call).one THEN 0 ELSE 1)
  BY <1>2, <1>6, <1>7
<1> QED BY <1>1, <1>2, <1>4, <1>5, <1>6, <1>8 DEF Narrows

LEMMA CollisionNarrows ==
  ASSUME BusTyped, TypeOK, Distinct, NEW call \in Call, Narrows(call, scan.queryCount),
         NEW d \in Answering(Branch(call)), NEW e \in Answering(Branch(call)), d # e,
         NEW deeper, deeper = [pattern |-> Branch(call), bit |-> call.bit + 1, one |-> FALSE]
  PROVE  Narrows(deeper, scan.queryCount + 1)
<1>1. call.bit \in Bits /\ call.bit \in Nat /\ DOMAIN call.pattern = 1 .. call.bit - 1
  BY DiscoveryAssumption DEF Narrows, Bits
<1>2. deeper.pattern = Branch(call) /\ deeper.bit = call.bit + 1 /\ deeper.one = FALSE
  OBVIOUS
<1>3. DOMAIN Branch(call) = 1 .. (call.bit + 1) - 1
  <2>1. DOMAIN Branch(call) = 1 .. call.bit
    BY <1>1, BranchMeans
  <2> QED BY <1>1, <2>1
<1>4. call.bit + 1 <= Width
  BY <1>1, <1>3, NarrowsWithin
<1>5. call.bit + 1 \in Bits
  BY <1>1, <1>4, DiscoveryAssumption DEF Bits
<1>6. scan.queryCount + 1 <= 2 * (call.bit + 1) - 1
  <2>1. PICK used \in {0, 1} : scan.queryCount <= 2 * call.bit - used
    BY DEF Narrows
  <2>2. scan.queryCount \in Nat
    BY SearchCounts
  <2>3. CASE used = 0
    BY <1>1, <2>1, <2>2, <2>3
  <2>4. CASE used = 1
    BY <1>1, <2>1, <2>2, <2>4
  <2> QED BY <2>3, <2>4
<1> QED BY <1>2, <1>3, <1>5, <1>6 DEF Narrows

LEMMA FoundInTime ==
  ASSUME TypeOK, Distinct, NEW call, Narrows(call, scan.queryCount)
  PROVE  scan.queryCount + 1 <= 2 * Width
<1>1. call.bit \in Bits /\ call.bit \in Nat /\ DOMAIN call.pattern = 1 .. call.bit - 1
      /\ call.bit <= Width /\ Width \in Nat /\ scan.queryCount \in Nat
  BY DiscoveryAssumption, SearchCounts DEF Narrows, Bits
<1>2. CASE ~call.one
  <2>1. scan.queryCount <= 2 * call.bit - 1
    BY <1>2 DEF Narrows
  <2> QED BY <1>1, <2>1
<1>3. CASE call.one
  <2>1. PICK d \in Answering(call.pattern), e \in Answering(call.pattern) : d # e
    BY DEF Narrows
  <2>2. d \in Answering(Branch(call)) /\ e \in Answering(Branch(call))
    BY <1>1, <1>3, BranchMeans DEF Narrows
  <2>3. DOMAIN Branch(call) = 1 .. (call.bit + 1) - 1
    <3>1. DOMAIN Branch(call) = 1 .. call.bit
      BY <1>1, BranchMeans
    <3> QED BY <1>1, <3>1
  <2>4. call.bit + 1 <= Width
    <3>1. call.bit + 1 \in Nat
      BY <1>1
    <3>2. PICK branch : branch = Branch(call)
      OBVIOUS
    <3> QED BY <2>1, <2>2, <2>3, <3>1, <3>2, NarrowsWithin
  <2>5. scan.queryCount <= 2 * call.bit
    <3>1. scan.queryCount <= 2 * call.bit - 0
      BY <1>3 DEF Narrows
    <3> QED BY <1>1, <3>1
  <2> QED BY <1>1, <2>4, <2>5
<1> QED BY <1>2, <1>3

LEMMA StillAnswering ==
  ASSUME UNCHANGED <<address, bus>>
  PROVE  /\ \A pattern : Answering(pattern)' = Answering(pattern)
         /\ Unaddressed' = Unaddressed
BY BusStays DEF Answering, Unaddressed, Matches

LEMMA NarrowsStays ==
  ASSUME UNCHANGED <<address, bus>>, NEW call, NEW count, Narrows(call, count)
  PROVE  Narrows(call, count)'
<1>1. Answering(call.pattern)' = Answering(call.pattern)
  BY StillAnswering
<1>2. \A d : Padded(d)' = Padded(d)
  BY BusStays
<1> QED BY <1>1, <1>2 DEF Narrows

LEMMA LastAppended ==
  ASSUME NEW q \in Seq(Call), NEW call \in Call
  PROVE  /\ Append(q, call) # <<>>
         /\ Append(q, call)[Len(Append(q, call))] = call
OBVIOUS

LEMMA ResolveSearch ==
  ASSUME All, Accounts', Resolve PROVE Searching' /\ FindsAll'
<1>1. CASE ~Quiet'
  BY <1>1, Disturbed
<1>2. CASE Quiet'
  <2> DEFINE rest == Append(Outer, NextBranch(Innermost))
             deep == [pattern |-> Branch(Innermost), bit |-> Innermost.bit + 1,
                      one |-> FALSE]
  <2>1. PICK result \in [kind : {"none", "found", "collision"},
                         device : Devices \cup {None}] :
          /\ Queries(Branch(Innermost), result)
          /\ Goes(CASE result.kind = "none" -> [Asked EXCEPT !.resolving = rest]
                    [] result.kind = "found" ->
                         [Asked EXCEPT !.at = "confirm", !.resolving = <<>>,
                                       !.candidate = result.device]
                    [] result.kind = "collision" ->
                         [Asked EXCEPT !.resolving = Append(rest, deep)])
    BY DEF Resolve
  <2>2. PICK deeper : deeper = deep
    OBVIOUS
  <2>3. PICK turned : turned = NextBranch(Innermost)
    OBVIOUS
  <2>4. PICK call : call = Innermost
    OBVIOUS
  <2>5. /\ scan.at = "resolve" /\ scan \in Scan /\ TypeOK /\ BusTyped
        /\ \E faulty \in BOOLEAN : Meets(faulty)
        /\ scan.resolving \in Seq(Call) /\ scan.resolving # <<>> /\ call.bit <= Width
    BY <2>1, <2>4 DEF Resolve, Queries, All, Inv, TypeOK, Scan
  <2>6. call \in Call /\ Outer \in Seq(Call)
    BY <2>4, <2>5 DEF Innermost, Outer
  <2>7. turned \in Call /\ deeper \in Call
    BY <2>2, <2>3, <2>4, <2>5, <2>6, BranchTyped
  <2>8. PICK more \in Seq(Call) : more = Append(Outer, turned)
    <3>1. PICK outer \in Seq(Call) : outer = Outer
      BY <2>6
    <3>2. Append(outer, turned) \in Seq(Call)
      BY <2>7
    <3> QED BY <3>1, <3>2
  <2>9. /\ more = rest /\ more # <<>> /\ more[Len(more)] = turned
        /\ Append(more, deeper) # <<>>
        /\ Append(more, deeper)[Len(Append(more, deeper))] = deeper
    BY <2>3, <2>6, <2>7, <2>8, LastAppended
  <2> HIDE DEF rest, deep
  <2>10. UNCHANGED <<address, bus, listed, fresh>>
    BY <2>1 DEF Goes
  <2>11. /\ scan'.cancelled = scan.cancelled /\ scan'.queryCount = scan.queryCount + 1
         /\ scan'.assigned = scan.assigned /\ scan'.nextAddress = scan.nextAddress
         /\ \/ result.kind = "none" /\ scan'.at = "resolve" /\ scan'.resolving = more
            \/ /\ result.kind = "found" /\ scan'.at = "confirm"
               /\ scan'.candidate = result.device
            \/ /\ result.kind = "collision" /\ scan'.at = "resolve"
               /\ scan'.resolving = Append(more, deeper)
    <3>1. CASE result.kind = "none"
      BY <2>1, <2>5, <2>9, <3>1 DEF Goes, Asked, Scan
    <3>2. CASE result.kind = "found"
      BY <2>1, <2>5, <3>2 DEF Goes, Asked, Scan
    <3>3. CASE result.kind = "collision"
      BY <2>1, <2>2, <2>5, <2>9, <3>3 DEF Goes, Asked, Scan
    <3> QED BY <3>1, <3>2, <3>3
  <2>12. Quiet /\ faults' = 0
    BY <1>2, <2>5, <2>10, <2>11, QuietBefore
  <2>13. Narrows(call, scan.queryCount)
    BY <2>4, <2>5, <2>12 DEF All, Searching, Sought
  <2>14. /\ result.kind = "none" => Answering(Branch(call)) = {}
         /\ result.kind = "found" => result.device \in Answering(Branch(call))
         /\ result.kind = "collision" => \E d, e \in Answering(Branch(call)) : d # e
    BY <2>1, <2>4, <2>5, <2>12, QuietQuery
  <2>15. PICK count : count = scan.queryCount + 1
    OBVIOUS
  <2>16. Sought'
    <3>1. CASE result.kind = "none"
      <4>1. Narrows(turned, count)
        BY <2>15, <2>3, <2>4, <2>5, <2>6, <2>13, <2>14, <3>1, NoneNarrows
      <4>2. Narrows(turned, count)'
        BY <2>10, <4>1, NarrowsStays
      <4>3. Innermost' = turned /\ scan'.resolving # <<>>
        BY <2>9, <2>11, <3>1 DEF Innermost
      <4>4. Narrows(Innermost, scan.queryCount)'
        BY <2>11, <2>15, <4>2, <4>3 DEF Narrows
      <4> QED BY <2>11, <3>1, <4>3, <4>4 DEF Sought
    <3>2. CASE result.kind = "found"
      <4>1. scan.queryCount + 1 <= 2 * Width
        BY <2>5, <2>12, <2>13, FoundInTime DEF Quiet
      <4>2. scan'.candidate \in Unaddressed'
        BY <2>10, <2>11, <2>14, <3>2 DEF Answering, Unaddressed
      <4> QED BY <2>11, <3>2, <4>1, <4>2 DEF Sought
    <3>3. CASE result.kind = "collision"
      <4>1. PICK d \in Answering(Branch(call)), e \in Answering(Branch(call)) : d # e
        BY <2>14, <3>3
      <4>2. deeper = [pattern |-> Branch(call), bit |-> call.bit + 1, one |-> FALSE]
        BY <2>2, <2>4 DEF deep
      <4>3. Narrows(deeper, count)
        BY <2>15, <2>5, <2>6, <2>12, <2>13, <4>1, <4>2, CollisionNarrows DEF Quiet
      <4>4. Narrows(deeper, count)'
        BY <2>10, <4>3, NarrowsStays
      <4>5. Innermost' = deeper /\ scan'.resolving # <<>>
        BY <2>9, <2>11, <3>3 DEF Innermost
      <4>6. Narrows(Innermost, scan.queryCount)'
        BY <2>11, <2>15, <4>4, <4>5 DEF Narrows
      <4> QED BY <2>11, <3>3, <4>5, <4>6 DEF Sought
    <3> QED BY <3>1, <3>2, <3>3
  <2> QED BY <2>5, <2>10, <2>11, <2>12, <2>16, GoesOn
<1> QED BY <1>1, <1>2

(* While nothing goes wrong a call finds a device before it is out of      *)
(* bits, and a search before it is out of queries.                         *)
LEMMA NeverLost ==
  ASSUME MaxQueries > 2 * Width, All, Accounts', ResolvedNothing \/ TooManyQueries
  PROVE  Searching' /\ FindsAll'
<1>1. CASE ~Quiet'
  BY <1>1, Disturbed
<1>2. CASE Quiet'
  <2>1. /\ scan.at \in {"resolve", "confirm"} /\ scan \in Scan /\ TypeOK
        /\ UNCHANGED <<bus, fresh, faults>> /\ scan'.cancelled = scan.cancelled
    <3>1. CASE ResolvedNothing
      <4>1. Goes(Ended("failed")) \/ Goes([scan EXCEPT !.resolving = Outer])
        BY <3>1 DEF ResolvedNothing
      <4> QED BY <3>1, <4>1, EndedFields DEF ResolvedNothing, Goes, All, Inv, TypeOK, Scan
    <3>2. CASE TooManyQueries
      BY <3>2, EndedFields DEF TooManyQueries, Goes, All, Inv, TypeOK
    <3> QED BY <3>1, <3>2
  <2>2. Quiet
    BY <1>2, <2>1, QuietBefore
  <2>3. Sought
    BY <2>1, <2>2 DEF All, Searching
  <2>4. scan.queryCount \in Nat /\ Width \in Nat /\ MaxQueries \in Nat
    BY <2>1, SearchCounts, DiscoveryAssumption
  <2>5. CASE scan.at = "resolve"
    <3>1. Narrows(Innermost, scan.queryCount) /\ Innermost.bit \in Bits
      BY <2>3, <2>5 DEF Sought, Narrows
    <3>2. Innermost.bit \in Nat /\ Innermost.bit <= Width
      BY <2>4, <3>1 DEF Bits
    <3>3. scan.queryCount + 1 <= 2 * Width
      BY <2>1, <2>2, <3>1, FoundInTime DEF Quiet
    <3>4. ~ResolvedNothing
      BY <2>4, <3>2 DEF ResolvedNothing
    <3>5. ~TooManyQueries
      BY <2>4, <3>3 DEF TooManyQueries
    <3> QED BY <3>4, <3>5
  <2>6. CASE scan.at = "confirm"
    <3>1. scan.queryCount <= 2 * Width
      BY <2>3, <2>6 DEF Sought
    <3>2. ~TooManyQueries /\ ~ResolvedNothing
      BY <2>4, <2>6, <3>1 DEF TooManyQueries, ResolvedNothing
    <3> QED BY <3>2
  <2> QED BY <2>1, <2>5, <2>6
<1> QED BY <1>1, <1>2

LEMMA ConfirmSearch ==
  ASSUME All, Accounts', Confirm PROVE Searching' /\ FindsAll'
<1>1. CASE ~Quiet'
  BY <1>1, Disturbed
<1>2. CASE Quiet'
  <2> DEFINE known == [Asked EXCEPT !.at = "assign"]
  <2>1. PICK result \in [kind : {"none", "found", "collision"},
                         device : Devices \cup {None}] :
          /\ Queries(Exact(scan.candidate), result)
          /\ Goes(IF result = Result("found", scan.candidate)
                  THEN known ELSE Ended("failed"))
    BY DEF Confirm
  <2>2. /\ scan.at = "confirm" /\ scan \in Scan /\ TypeOK /\ BusTyped
        /\ \E faulty \in BOOLEAN : Meets(faulty)
    BY <2>1 DEF Confirm, Queries, All, Inv, TypeOK
  <2>3. /\ UNCHANGED <<address, bus, listed, fresh>> /\ scan'.cancelled = scan.cancelled
    <3>1. known.cancelled = scan.cancelled
      BY <2>2 DEF Asked, Scan
    <3> QED BY <2>1, <3>1, EndedFields DEF Goes
  <2>4. Quiet /\ faults' = 0
    BY <1>2, <2>2, <2>3, QuietBefore
  <2>5. scan.candidate \in Unaddressed
    BY <2>2, <2>4 DEF All, Searching, Sought
  <2>6. Answering(Exact(scan.candidate)) = {scan.candidate}
    <3>1. scan.candidate \in Answering(Exact(scan.candidate))
      BY <2>5, MatchesItself DEF Answering
    <3>2. ASSUME NEW d \in Answering(Exact(scan.candidate)) PROVE d = scan.candidate
      BY <2>4, <2>5 DEF Answering, Unaddressed, Quiet, Distinct
    <3> QED BY <3>1, <3>2
  <2>7. result.kind = "found" /\ result.device = scan.candidate
    BY <2>1, <2>2, <2>4, <2>6, QuietQuery
  <2>8. result = Result("found", scan.candidate)
    BY <2>7 DEF Result
  <2>9. scan' = known
    BY <2>1, <2>8 DEF Goes
  <2>10. /\ scan'.at = "assign" /\ scan'.candidate = scan.candidate
         /\ scan'.assigned = scan.assigned /\ scan'.nextAddress = scan.nextAddress
    BY <2>2, <2>9 DEF Asked, Scan
  <2>11. Sought'
    BY <2>3, <2>5, <2>10 DEF Sought, Unaddressed
  <2> QED BY <2>2, <2>3, <2>4, <2>10, <2>11, GoesOn
<1> QED BY <1>1, <1>2

(* Its address reaches the candidate and nobody else, who says so.         *)
LEMMA AssignSearch ==
  ASSUME All, Accounts', Assign PROVE Searching' /\ FindsAll'
<1>1. CASE ~Quiet'
  BY <1>1, Disturbed
<1>2. CASE Quiet'
  <2>1. PICK pair : pair = <<scan.nextAddress, scan.candidate>>
    OBVIOUS
  <2>2. PICK given : given = [scan EXCEPT !.assigned = Append(@, pair)]
    OBVIOUS
  <2>3. PICK faulty \in BOOLEAN, heard \in SUBSET Takers(scan.candidate) :
          \E r \in Reception(heard) :
            /\ Meets(faulty)
            /\ ~faulty /\ ~scan.cancelled =>
                 heard = Takers(scan.candidate) /\ r \in Clean(heard)
            /\ address' = [d \in Devices |->
                             IF d \in heard THEN scan.nextAddress ELSE address[d]]
            /\ scan' = IF scan.candidate \notin r.frames THEN Ended("failed")
                       ELSE IF bus.profile = "aisg2" THEN NextAddress(given)
                       ELSE [given EXCEPT !.at = "connect"]
    BY <2>1, <2>2 DEF Assign
  <2>4. PICK r \in Reception(heard) :
          /\ Meets(faulty)
          /\ ~faulty /\ ~scan.cancelled =>
               heard = Takers(scan.candidate) /\ r \in Clean(heard)
          /\ address' = [d \in Devices |->
                           IF d \in heard THEN scan.nextAddress ELSE address[d]]
          /\ scan' = IF scan.candidate \notin r.frames THEN Ended("failed")
                     ELSE IF bus.profile = "aisg2" THEN NextAddress(given)
                     ELSE [given EXCEPT !.at = "connect"]
    BY <2>3
  <2>5. /\ scan.at = "assign" /\ scan.candidate \in Devices /\ scan \in Scan
        /\ scan.nextAddress \in Addresses /\ scan.nextAddress \in Nat
        /\ scan.assigned \in Seq(Addresses \X Devices)
        /\ UNCHANGED <<bus, listed, fresh>> /\ TypeOK /\ BusTyped
    BY DiscoveryAssumption DEF Assign, All, Inv, PoolHolds, TypeOK, Scan, Addresses
  <2>6. pair \in Addresses \X Devices /\ pair[1] = scan.nextAddress
        /\ pair[2] = scan.candidate
    BY <2>1, <2>5
  <2>7. /\ given \in Scan /\ given.assigned = Append(scan.assigned, pair)
        /\ given.nextAddress = scan.nextAddress /\ given.cancelled = scan.cancelled
    <3>1. Append(scan.assigned, pair) \in Seq(Addresses \X Devices)
      BY <2>5, <2>6
    <3> QED BY <2>2, <2>5, <3>1 DEF Scan
  <2>8. scan'.cancelled = scan.cancelled
    <3>1. NextAddress(given).cancelled = given.cancelled
          /\ [given EXCEPT !.at = "connect"].cancelled = given.cancelled
      BY <2>7 DEF NextAddress, Scan
    <3> QED BY <2>4, <2>7, <3>1, EndedFields
  <2>9. Quiet /\ faults' = faults /\ faults \in Nat
    BY <1>2, <2>4, <2>5, <2>8, QuietBefore DEF TypeOK
  <2>10. ~faulty
    BY <2>4, <2>9 DEF Meets
  <2>11. /\ InUse /\ NoGaps /\ scan.candidate \in Unaddressed
    BY <2>5, <2>9 DEF All, Searching, Sought
  <2>12. Takers(scan.candidate) = {scan.candidate}
    <3>1. Separate
      BY <2>5, <2>9, DistinctAreSeparate DEF Quiet
    <3>2. \A e \in Takers(scan.candidate) : e = scan.candidate
      BY <2>5, <3>1 DEF Takers, Unaddressed, Separate
    <3>3. scan.candidate \in Takers(scan.candidate)
      BY <2>5, <2>11, TakesItsOwn DEF Takers
    <3> QED BY <3>2, <3>3
  <2>13. heard = {scan.candidate} /\ r.frames = {scan.candidate}
    BY <2>4, <2>9, <2>10, <2>12 DEF Quiet, Clean
  <2>14. /\ scan'.assigned = Append(scan.assigned, pair)
         /\ \/ /\ bus.profile = "aisg2" /\ scan'.at = "broad" /\ scan'.queryCount = 0
               /\ scan'.nextAddress = scan.nextAddress + 1
            \/ /\ bus.profile # "aisg2" /\ scan'.at = "connect"
               /\ scan'.nextAddress = scan.nextAddress
    <3>1. CASE bus.profile = "aisg2"
      <4>1. scan' = NextAddress(given)
        BY <2>4, <2>13, <3>1
      <4>2. NextAddress(given).queryCount = 0
        BY <2>7 DEF NextAddress, Scan
      <4> QED BY <2>7, <3>1, <4>1, <4>2, NextFields
    <3>2. CASE bus.profile # "aisg2"
      <4>1. scan' = [given EXCEPT !.at = "connect"]
        BY <2>4, <2>13, <3>2
      <4> QED BY <2>7, <3>2, <4>1, NextFields
    <3> QED BY <3>1, <3>2
  <2>15. Handed' = Handed \cup {pair}
    BY <2>5, <2>6, <2>14, HandedAppended
  <2>16. \A d \in Devices :
           address'[d] = IF d = scan.candidate THEN scan.nextAddress ELSE address[d]
    BY <2>4, <2>13
  <2>17. InUse'
    <3>1. ASSUME NEW p \in Handed PROVE address'[p[2]] = p[1]
      <4>1. p[1] \in Addresses /\ p[2] \in Devices
        BY <2>5, HandedTyped
      <4>2. p[1] # None
        BY <4>1, DiscoveryAssumption
      <4>3. p[2] # scan.candidate
        BY <2>11, <4>2 DEF InUse, Unaddressed
      <4> QED BY <2>11, <2>16, <4>1, <4>3 DEF InUse
    <3>2. address'[pair[2]] = pair[1]
      BY <2>5, <2>6, <2>16
    <3> QED BY <2>15, <3>1, <3>2 DEF InUse
  <2>18. NoGaps'
    <3> SUFFICES ASSUME NEW a \in Addresses, Used(a)' PROVE \E p \in Handed' : p[1] = a
      BY DEF NoGaps
    <3>1. a \in Nat
      BY DEF Addresses
    <3>2. a < scan.nextAddress \/ a = scan.nextAddress
      BY <2>5, <2>14, <3>1 DEF Used
    <3>3. CASE a = scan.nextAddress
      BY <2>6, <2>15, <3>3
    <3>4. CASE a < scan.nextAddress
      BY <2>11, <2>15, <3>4 DEF NoGaps, Used
    <3> QED BY <3>2, <3>3, <3>4
  <2>19. Sought' /\ Exhausted'
    BY <2>5, <2>14 DEF Sought, Exhausted
  <2> QED BY <2>14, <2>17, <2>18, <2>19, NotOver DEF Searching
<1> QED BY <1>1, <1>2

(* The device that was given an address answers there, and alone.          *)
LEMMA ConnectSearch ==
  ASSUME All, Accounts', Connect PROVE Searching' /\ FindsAll'
<1>1. CASE ~Quiet'
  BY <1>1, Disturbed
<1>2. CASE Quiet'
  <2>1. PICK next : next = Head(scan.assigned)
    OBVIOUS
  <2>2. PICK left : left = [scan EXCEPT !.assigned = Tail(@)]
    OBVIOUS
  <2>3. PICK faulty \in BOOLEAN, r \in Reception(Holders(next[1])) :
          /\ Meets(faulty)
          /\ ~faulty /\ ~scan.cancelled => r \in Clean(Holders(next[1]))
          /\ IF r.frames = {}
             THEN scan' = Ended("failed") /\ UNCHANGED listed
             ELSE /\ listed' = {l \in listed : l[1] # next[1]} \cup {next}
                  /\ scan' = IF bus.profile = "aisg2" THEN left ELSE NextAddress(left)
    BY <2>1, <2>2 DEF Connect, Unanswered
  <2>4. /\ scan.at = "connect" /\ scan.assigned # <<>> /\ scan \in Scan
        /\ scan.assigned \in Seq(Addresses \X Devices)
        /\ scan.nextAddress \in Nat /\ TypeOK /\ BusTyped
        /\ UNCHANGED <<address, bus, fresh>>
    BY DEF Connect, All, Inv, TypeOK, Scan
  <2>5. /\ left \in Scan /\ left.assigned = Tail(scan.assigned) /\ left.at = "connect"
        /\ left.nextAddress = scan.nextAddress /\ left.cancelled = scan.cancelled
    <3>1. Tail(scan.assigned) \in Seq(Addresses \X Devices)
      BY <2>4
    <3> QED BY <2>2, <2>4, <3>1 DEF Scan
  <2>6. scan'.cancelled = scan.cancelled
    <3>1. NextAddress(left).cancelled = left.cancelled
      BY <2>5 DEF NextAddress, Scan
    <3> QED BY <2>3, <2>5, <3>1, EndedFields
  <2>7. Quiet /\ faults' = faults /\ faults \in Nat
    BY <1>2, <2>3, <2>4, <2>6, QuietBefore DEF TypeOK
  <2>8. ~faulty
    BY <2>3, <2>7 DEF Meets
  <2>9. InUse /\ NoGaps /\ Exhausted
    BY <2>4, <2>7 DEF All, Searching
  <2>10. next \in Handed
    BY <2>1, <2>4, HeadIsHanded
  <2>11. /\ \A d \in Devices : address[d] = next[1] => d = next[2]
         /\ \A q \in Handed : q[1] = next[1] => q = next
    <3>1. fresh /\ Separate
      BY <2>4, <2>7, DistinctAreSeparate DEF Quiet
    <3> QED BY <2>4, <2>10, <3>1 DEF All, Accounts, Accounted
  <2>12. Holders(next[1]) = {next[2]}
    <3>1. next[2] \in Devices
      BY <2>4, <2>10, HandedTyped
    <3> QED BY <2>9, <2>10, <2>11, <3>1 DEF Holders, InUse
  <2>13. r.frames # {}
    BY <2>3, <2>7, <2>8, <2>12 DEF Quiet, Clean
  <2>14. /\ listed' = {l \in listed : l[1] # next[1]} \cup {next}
         /\ scan'.assigned = Tail(scan.assigned)
         /\ \/ /\ bus.profile = "aisg2" /\ scan'.at = "connect"
               /\ scan'.nextAddress = scan.nextAddress
            \/ /\ bus.profile # "aisg2" /\ scan'.at = "broad" /\ scan'.queryCount = 0
               /\ scan'.nextAddress = scan.nextAddress + 1
    <3>1. NextAddress(left).queryCount = 0
      BY <2>5 DEF NextAddress, Scan
    <3> QED BY <2>3, <2>5, <2>13, <3>1, NextFields
  <2>15. Handed' = Handed
    BY <2>1, <2>4, <2>11, <2>14, HeadListed
  <2>16. InUse'
    BY <2>4, <2>9, <2>15 DEF InUse
  <2>17. NoGaps'
    <3>1. ASSUME NEW a \in Addresses, Used(a)' PROVE Used(a)
      <4>1. a \in Nat
        BY DEF Addresses
      <4> QED BY <2>4, <2>14, <3>1, <4>1 DEF Used
    <3> QED BY <2>9, <2>15, <3>1 DEF NoGaps
  <2>18. Sought' /\ Exhausted'
    BY <2>4, <2>9, <2>14 DEF Sought, Exhausted, Unaddressed, PoolEmpty
  <2> QED BY <2>14, <2>16, <2>17, <2>18, NotOver DEF Searching
<1> QED BY <1>1, <1>2

LEMMA AllConnectedSearch ==
  ASSUME All, AllConnected PROVE Searching' /\ FindsAll'
<1>1. CASE ~Quiet'
  BY <1>1, Disturbed
<1>2. CASE Quiet'
  <2>1. /\ scan.at = "connect" /\ bus.profile = "aisg2"
        /\ scan.cancelled \/ scan.assigned = <<>>
        /\ scan' = Ended("completed") /\ UNCHANGED <<address, bus, listed, fresh, faults>>
    BY DEF AllConnected, Goes
  <2>2. Quiet
    BY <1>2, <2>1, EndedFields, QuietBefore DEF All, Inv
  <2>3. InUse /\ NoGaps /\ (Unaddressed = {} \/ PoolEmpty) /\ scan.assigned = <<>>
    BY <2>1, <2>2 DEF All, Searching, Exhausted, Quiet
  <2> QED BY <2>1, <2>2, <2>3, Completes DEF All
<1> QED BY <1>1, <1>2

LEMMA CancelSearch == ASSUME All, Cancel PROVE Searching' /\ FindsAll'
<1>1. scan' = [scan EXCEPT !.cancelled = TRUE] /\ scan \in Scan
  BY DEF Cancel, Goes, All, Inv, TypeOK
<1>2. scan'.cancelled
  BY <1>1 DEF Scan
<1> QED BY <1>2, Disturbed DEF Quiet

LEMMA RestartSearch ==
  ASSUME All, NEW dev \in Devices, Restart(dev) PROVE Searching' /\ FindsAll'
<1>1. UNCHANGED <<bus, scan, listed, fresh>> /\ Meets(scan.at # "idle") /\ faults \in Nat
  BY DEF Restart, All, Inv, TypeOK
<1>2. CASE scan.at # "idle"
  <2>1. faults' # 0
    BY <1>1, <1>2 DEF Meets
  <2> QED BY <2>1, Disturbed DEF Quiet
<1>3. CASE scan.at = "idle"
  <2>1. faults' = faults /\ Distinct' = Distinct
    BY <1>1, <1>3, BusStays DEF Meets
  <2> QED BY <1>1, <1>3, <2>1 DEF Searching, All, FindsAll
<1> QED BY <1>2, <1>3

LEMMA BusTypedStays == BusTyped /\ [Next]_vars => BusTyped'
<1> SUFFICES ASSUME BusTyped, [Next]_vars PROVE bus' = bus
  BY BusStays
<1> QED BY DEF Next, vars, BeginScan, LeaveLoop, Broad, Resolve, ResolvedNothing, Confirm,
               TooManyQueries, Assign, Connect, AllConnected, Cancel, Restart, AllFound, Goes

LEMMA NextSearch ==
  ASSUME MaxQueries > 2 * Width, Width > 0, All, Accounts', [Next]_vars
  PROVE  Searching' /\ FindsAll'
<1>1. CASE UNCHANGED vars
  BY <1>1, BusStays, StillAnswering
     DEF vars, All, Searching, FindsAll, Quiet, InUse, NoGaps, Used, Handed, Sought,
         Narrows, Innermost, Exhausted, PoolEmpty
<1>2. CASE Next
  BY <1>2, BeginSearch, LeaveLoopSearch, BroadSearch, ResolveSearch, NeverLost,
     ConfirmSearch, AssignSearch, ConnectSearch, AllConnectedSearch, CancelSearch,
     RestartSearch DEF Next
<1> QED BY <1>1, <1>2

LEMMA InitSearch == Init => BusTyped /\ Searching /\ FindsAll
<1> SUFFICES ASSUME Init PROVE BusTyped /\ Searching /\ FindsAll
  OBVIOUS
<1>1. scan.at = "idle" /\ scan.outcome = None
  BY DEF Init, Locals
<1> QED BY <1>1 DEF Init, BusTyped, Searching, FindsAll

-----------------------------------------------------------------------------
(* The state of a scan has its type: no address beyond the pool is handed  *)
(* out and no query beyond the limit is sent (scanAisg2, scanAisg3,        *)
(* resolveCollision).                                                      *)
THEOREM TypeCorrect == Spec => []TypeOK
<1>1. Inv => TypeOK
  BY DEF Inv
<1> QED BY <1>1, Invariance, PTL

(* No two devices have one address after a scan that began with none, for  *)
(* any devices none of which takes the assignment of another, whatever is  *)
(* lost, destroyed, cancelled or restarted (scanAisg2, scanAisg3).         *)
THEOREM AddressesUnique == Spec => []UniqueAddresses
<1>1. Inv => UniqueAddresses
  BY DEF Inv
<1> QED BY <1>1, Invariance, PTL

(* A scan that completes has listed every device that has an address, and  *)
(* under its own one, whatever went wrong: an address is either taken and  *)
(* listed or the scan fails (scanAisg2, scanAisg3).                        *)
THEOREM CompletedListsAll == Spec => []AddressedAreListed
<1>1. Accounts => AddressedAreListed
  BY DEF Accounts
<1> QED BY <1>1, InitInv, NextInv, InitAccounts, NextAccounts, PTL DEF Spec

(* A fresh scan that nothing disturbs completes and lists every device, or *)
(* as many as there are addresses, for any number of devices and whatever  *)
(* collides: resolveCollision never runs out of bits, and two queries for  *)
(* a bit and one more stay below the limit (512 for 168 bits).             *)
THEOREM FindsEveryone ==
  ASSUME MaxQueries > 2 * Width, Width > 0 PROVE Spec => []FindsAll
<1>1. Init => All
  BY InitInv, InitAccounts, InitSearch DEF All
<1>2. All /\ [Next]_vars => All'
  <2> SUFFICES ASSUME All, [Next]_vars PROVE All'
    OBVIOUS
  <2>1. Inv' /\ Accounts' /\ BusTyped'
    BY NextInv, NextAccounts, BusTypedStays DEF All
  <2>2. Searching' /\ FindsAll'
    BY <2>1, NextSearch
  <2> QED BY <2>1, <2>2 DEF All
<1>3. All => FindsAll
  BY DEF All
<1> QED BY <1>1, <1>2, <1>3, PTL DEF Spec
=============================================================================
