------------------------------ MODULE MemOrderProof ------------------------------
(***************************************************************************)
(* Round robin bounds waiting, for every number of lanes.                  *)
(***************************************************************************)
EXTENDS MemOrder, MemPathProof

(* How many places behind pointer p the scan comes to lane t. *)
Place(p, t) == IF t >= p THEN t - p ELSE t - p + N

(* The pointer the next scan starts from: the one that an answer will set, *)
(* while one is awaited.                                                   *)
NextPtr == IF mc_state = "IDLE" THEN rr_ptr ELSE PtrAfter(in_flight)

(* A lane that has gone past a waiting lane is behind it in the next scan. *)
PassedAreBehind ==
    \A i \in Lanes : \A j \in passed[i] :
        Waits(i) => j \in Lanes /\ Place(NextPtr, i) < Place(NextPtr, j)

OrderIInv == Inv /\ PassedAreBehind

--------------------------------------------------------------------------------
(* The scan looks at each place in turn. *)
LEMMA PlaceOfScan ==
    ASSUME rr_ptr \in 0 .. N, NEW j \in Lanes
    PROVE  /\ ScanAt(j) \in Lanes
           /\ Place(rr_ptr, ScanAt(j)) = j
  BY NAssumption DEF Lanes, ScanAt, Place

(* Every lane has one of the N places of the scan. *)
LEMMA PlaceInLanes ==
    ASSUME NEW p \in 0 .. N, NEW t \in Lanes
    PROVE  Place(p, t) \in Lanes
  BY NAssumption DEF Lanes, Place

(* The scan returns the requesting lane at the least place. *)
LEMMA ScanTakesFirst ==
    ASSUME rr_ptr \in 0 .. N, NEW R, ScanValid(R) \subseteq Lanes, NEW i \in ScanValid(R)
    PROVE  /\ NextThread(R) \in ScanValid(R)
           /\ Place(rr_ptr, NextThread(R)) <= Place(rr_ptr, i)
<1>1. PICK j \in Lanes : /\ NextThread(R) = ScanAt(j)
                         /\ \A k \in Lanes : k < j => ScanAt(k) \notin ScanValid(R)
  BY ScanFinds
<1>2. NextThread(R) \in ScanValid(R)
  BY ScanFinds
<1>3. PICK k \in Lanes : ScanAt(k) = i
  BY ScanCovers
<1>4. j <= k
  BY <1>1, <1>3, NAssumption DEF Lanes
<1>5. Place(rr_ptr, ScanAt(j)) = j /\ Place(rr_ptr, ScanAt(k)) = k
  BY <1>1, <1>3, PlaceOfScan
<1> QED
  BY <1>1, <1>2, <1>3, <1>4, <1>5

(* Serving a lane puts it at the end of the scan, and turns the lanes that *)
(* were behind it to the front in the order they had.                      *)
LEMMA ServingTurnsTheScan ==
    ASSUME NEW p \in 0 .. N, NEW t \in Lanes, NEW a \in Lanes, Place(p, t) < Place(p, a)
    PROVE  Place(PtrAfter(t), a) = Place(p, a) - Place(p, t) - 1
<1>1. PtrAfter(t) = t + 1 \/ (PtrAfter(t) = 0 /\ t + 1 = N)
  <2>1. CASE t + 1 < PtrMod
    BY <2>1, NAssumption, PtrModAssumption DEF PtrAfter, Lanes
  <2>2. CASE ~(t + 1 < PtrMod)
    <3>1. t + 1 = PtrMod /\ PtrMod = N
      BY <2>2, NAssumption, PtrModAssumption DEF Lanes
    <3>2. PtrMod % PtrMod = 0
      BY PtrModAssumption
    <3> QED
      BY <3>1, <3>2 DEF PtrAfter
  <2> QED
    BY <2>1, <2>2
<1> QED
  BY <1>1, NAssumption DEF Place, Lanes

(* The lane that was served itself. *)
LEMMA ServedIsLast ==
    ASSUME NEW t \in Lanes
    PROVE  Place(PtrAfter(t), t) = N - 1
<1>1. CASE t + 1 < PtrMod
  <2>1. PtrAfter(t) = t + 1
    BY <1>1, NAssumption, PtrModAssumption DEF PtrAfter, Lanes
  <2> QED
    BY <2>1, NAssumption DEF Place, Lanes
<1>2. CASE ~(t + 1 < PtrMod)
  <2>1. t + 1 = PtrMod /\ PtrMod = N
    BY <1>2, NAssumption, PtrModAssumption DEF Lanes
  <2>2. PtrMod % PtrMod = 0
    BY PtrModAssumption
  <2>3. PtrAfter(t) = 0
    BY <2>1, <2>2 DEF PtrAfter
  <2> QED
    BY <2>1, <2>3, NAssumption DEF Place, Lanes
<1> QED
  BY <1>1, <1>2

--------------------------------------------------------------------------------
(* A lane granted in a step is granted by the scan of that step. *)
LEMMA GrantIsScanned ==
    ASSUME Inv, OrderNext, NEW t, GrantNow(t)
    PROVE  /\ Grant(lsu_req_valid, lsu_req)
           /\ t = NextThread(lsu_req_valid)
           /\ t \in Lanes
           /\ \A i \in Lanes : Waits(i) => Place(rr_ptr, t) <= Place(rr_ptr, i)
<1>1. PICK en \in SUBSET Lanes : \E op \in [en -> Access] : PathTick(en, op)
  BY NextIsTick DEF OrderNext
<1>2. Grant(lsu_req_valid, lsu_req)
  BY <1>1 DEF PathTick, McTick, GrantNow, Quiet, Respond, Hold
<1>3. t = NextThread(lsu_req_valid)
  BY <1>2 DEF Grant, GrantNow
<1>4. rr_ptr \in 0 .. N /\ ScanValid(lsu_req_valid) \subseteq Lanes
  BY DEF Inv, TypeOK, McTypeOK, LsuTypeOK, ScanValid
<1>5. t \in Lanes
  BY <1>2, <1>3, <1>4, ScanFinds DEF Grant
<1>6. ASSUME NEW i \in Lanes, Waits(i)
      PROVE  Place(rr_ptr, t) <= Place(rr_ptr, i)
  <2>1. i \in ScanValid(lsu_req_valid)
    BY <1>6 DEF Waits, ScanValid
  <2> QED
    BY <1>3, <1>4, <2>1, ScanTakesFirst
<1> QED
  BY <1>2, <1>3, <1>5, <1>6

(* No lane comes round a second time before a lane that waits. *)
LEMMA OrderStep ==
    ASSUME OrderIInv, OrderNext
    PROVE  PassedAreBehind'
<1> SUFFICES ASSUME NEW i \in Lanes, NEW j \in passed'[i], Waits(i)'
             PROVE  j \in Lanes /\ Place(NextPtr', i) < Place(NextPtr', j)
  BY DEF PassedAreBehind, Place, Lanes
<1>1. Inv /\ rr_ptr \in 0 .. N /\ N \in Nat
  BY NAssumption DEF OrderIInv, Inv, TypeOK, McTypeOK
<1>2. Waits(i) /\ ~GrantNow(i) /\ (j \in passed[i] \/ (j \in Lanes /\ GrantNow(j)))
  BY DEF OrderNext
<1>3. PICK en \in SUBSET Lanes : \E op \in [en -> Access] : PathTick(en, op)
  BY NextIsTick DEF OrderNext
<1>4. McTick(lsu_req_valid, lsu_req, mem_resp_valid, mem_resp_data)
  BY <1>3 DEF PathTick
<1>5. j \in passed[i] => j \in Lanes /\ Place(NextPtr, i) < Place(NextPtr, j)
  BY <1>2 DEF OrderIInv, PassedAreBehind
<1>6. CASE Grant(lsu_req_valid, lsu_req)
  <2> DEFINE t == in_flight'
  <2>1. GrantNow(t) /\ NextPtr = rr_ptr /\ NextPtr' = PtrAfter(t)
    BY <1>6 DEF Grant, GrantNow, NextPtr, PtrAfter
  <2>2. t \in Lanes /\ Place(rr_ptr, t) <= Place(rr_ptr, i) /\ t # i
    BY <1>1, <1>2, <2>1, GrantIsScanned
  <2> HIDE DEF t
  <2>3. Place(rr_ptr, t) < Place(rr_ptr, i)
    BY <1>1, <2>2 DEF Place, Lanes
  <2>4. Place(PtrAfter(t), i) = Place(rr_ptr, i) - Place(rr_ptr, t) - 1
    BY <1>1, <2>2, <2>3, ServingTurnsTheScan
  <2>5. /\ Place(rr_ptr, i) \in Lanes /\ Place(rr_ptr, t) \in Lanes
    BY <1>1, <2>2, PlaceInLanes
  <2>6. CASE j = t
    <3>1. Place(PtrAfter(t), t) = N - 1
      BY <2>2, ServedIsLast
    <3>2. Place(rr_ptr, i) - Place(rr_ptr, t) - 1 < N - 1
      BY <1>1, <2>5 DEF Lanes
    <3> QED
      BY <2>1, <2>2, <2>4, <2>6, <3>1, <3>2
  <2>7. CASE j # t
    <3>1. j \in passed[i]
      BY <1>2, <2>1, <2>7 DEF GrantNow, t
    <3>2. j \in Lanes /\ Place(rr_ptr, i) < Place(rr_ptr, j)
      BY <1>5, <2>1, <3>1
    <3>3. Place(rr_ptr, j) \in Lanes
      BY <1>1, <3>2, PlaceInLanes
    <3>4. Place(rr_ptr, t) < Place(rr_ptr, j)
      BY <1>1, <2>3, <2>5, <3>2, <3>3 DEF Lanes
    <3>5. Place(PtrAfter(t), j) = Place(rr_ptr, j) - Place(rr_ptr, t) - 1
      BY <1>1, <2>2, <3>2, <3>4, ServingTurnsTheScan
    <3>6. Place(rr_ptr, i) - Place(rr_ptr, t) - 1 < Place(rr_ptr, j) - Place(rr_ptr, t) - 1
      BY <1>1, <2>5, <3>2, <3>3 DEF Lanes
    <3> QED
      BY <2>1, <2>4, <3>2, <3>5, <3>6
  <2> QED
    BY <2>6, <2>7
<1>7. CASE Quiet(lsu_req_valid)
  BY <1>2, <1>7 DEF Quiet, Waits, ScanValid
<1>8. CASE Respond(mem_resp_valid, mem_resp_data)
  <2>1. NextPtr' = NextPtr /\ ~GrantNow(j)
    BY <1>8 DEF Respond, NextPtr, PtrAfter, GrantNow
  <2> QED
    BY <1>2, <1>5, <2>1
<1>9. CASE Hold(mem_resp_valid)
  <2>1. NextPtr' = NextPtr /\ ~GrantNow(j)
    BY <1>9 DEF Hold, NextPtr, PtrAfter, GrantNow
  <2> QED
    BY <1>2, <1>5, <2>1
<1> QED
  BY <1>4, <1>6, <1>7, <1>8, <1>9 DEF McTick

(* The history only watches the path.                                      *)
LEMMA OrderIsPath == OrderSpec => Spec
<1>1. OrderInit => Init
  BY DEF OrderInit
<1>2. [OrderNext]_orderVars => [Next]_vars
  BY DEF OrderNext, orderVars
<1> QED
  BY <1>1, <1>2, PTL DEF OrderSpec, Spec

LEMMA OrderHolds == OrderSpec => []OrderIInv
<1>1. OrderSpec => []Inv
  BY OrderIsPath, InvHolds, PTL
<1>2. OrderInit => PassedAreBehind
  BY DEF OrderInit, PassedAreBehind
<1>3. Inv /\ PassedAreBehind /\ [OrderNext]_orderVars => PassedAreBehind'
  <2>1. CASE OrderNext
    BY <2>1, OrderStep DEF OrderIInv
  <2>2. CASE UNCHANGED orderVars
    <3>1. UNCHANGED <<lsu_req_valid, pending, mc_state, in_flight, rr_ptr, passed>>
      BY <2>2 DEF orderVars, vars, lsuVars, mcVars
    <3> QED
      BY <3>1 DEF PassedAreBehind, Waits, NextPtr, Place, PtrAfter, Lanes
  <2> QED
    BY <2>1, <2>2
<1> QED
  BY <1>1, <1>2, <1>3, PTL DEF OrderSpec, OrderIInv

(* While a lane's request waits, no other lane is granted twice, however   *)
(* many lanes there are and whenever they come back: a waiting lane lets   *)
(* each of the others pass once at most.                                   *)
THEOREM WaitingIsBounded == OrderSpec => NoLanePassedTwice
<1>1. OrderIInv /\ [OrderNext]_orderVars =>
        [\A i, j \in Lanes : (i # j /\ Waits(i) /\ GrantNow(j)) => j \notin passed[i]]_orderVars
  <2> SUFFICES ASSUME OrderIInv, OrderNext, NEW i \in Lanes, NEW j \in Lanes,
                      i # j, Waits(i), GrantNow(j), j \in passed[i]
               PROVE  FALSE
    OBVIOUS
  <2>1. Inv /\ rr_ptr \in 0 .. N /\ N \in Nat
    BY NAssumption DEF OrderIInv, Inv, TypeOK, McTypeOK
  <2>2. Place(rr_ptr, j) <= Place(rr_ptr, i)
    BY <2>1, GrantIsScanned
  <2>3. NextPtr = rr_ptr
    BY DEF GrantNow, NextPtr
  <2>4. Place(rr_ptr, i) < Place(rr_ptr, j)
    BY <2>3 DEF OrderIInv, PassedAreBehind
  <2>5. Place(rr_ptr, i) \in Lanes /\ Place(rr_ptr, j) \in Lanes
    BY <2>1, PlaceInLanes
  <2> QED
    BY <2>1, <2>2, <2>4, <2>5 DEF Lanes
<1> QED
  BY <1>1, OrderHolds, PTL DEF OrderSpec, NoLanePassedTwice

================================================================================
