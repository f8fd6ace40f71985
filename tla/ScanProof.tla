-------------------------------- MODULE ScanProof --------------------------------
(***************************************************************************)
(* What the controller's round-robin scan returns, for every number of     *)
(* lanes.                                                                  *)
(***************************************************************************)
EXTENDS MemController, FiniteSetTheorems, TLAPS

(* The lanes below a place, used to order places by inclusion. *)
Below(j) == {k \in Lanes : k < j}

(* A non-empty set of lane numbers has a least element: the loop over the  *)
(* lanes in mem_controller.sv stops at a first requesting lane.            *)
LEMMA LeastLane ==
    ASSUME NEW S \in SUBSET Lanes, S # {}
    PROVE  \E m \in S : \A k \in S : m <= k
<1>1. IsFiniteSet(Lanes)
  BY FS_Interval, NAssumption DEF Lanes
<1>2. IsWellFoundedOn(StrictSubsetOrdering(Lanes), SUBSET Lanes)
  BY <1>1, FS_FiniteSubsetsOfFinite, FS_StrictSubsetOrderingWellFounded
<1> DEFINE T == {Below(j) : j \in S}
<1>3. T \in SUBSET (SUBSET Lanes) /\ T # {}
  BY DEF Below
<1>4. PICK x \in T : \A y \in T : ~ (<<y, x>> \in StrictSubsetOrdering(Lanes))
  BY <1>2, <1>3, WFMin
<1>5. PICK m \in S : x = Below(m)
  BY <1>4
<1>6. ASSUME NEW k \in S, ~ (m <= k)
      PROVE  FALSE
  <2>1. k \in Int /\ m \in Int /\ k < m
    BY <1>6, NAssumption DEF Lanes
  <2>2. Below(k) \subseteq Below(m)
    BY <2>1, NAssumption DEF Below, Lanes
  <2>3. k \in Below(m) /\ k \notin Below(k)
    BY <2>1 DEF Below
  <2>4. <<Below(k), Below(m)>> \in StrictSubsetOrdering(Lanes)
    BY <2>2, <2>3 DEF StrictSubsetOrdering, Below
  <2> QED
    BY <2>4, <1>4, <1>5
<1> QED
  BY <1>6

(* Every lane is at some place of the scan, wherever the pointer stands.   *)
LEMMA ScanCovers ==
    ASSUME rr_ptr \in 0 .. N, NEW t \in Lanes
    PROVE  \E j \in Lanes : ScanAt(j) = t
<1> DEFINE j == IF t >= rr_ptr THEN t - rr_ptr ELSE t - rr_ptr + N
<1>1. j \in Lanes
  BY NAssumption DEF Lanes
<1>2. ScanAt(j) = t
  BY NAssumption DEF Lanes, ScanAt
<1> QED
  BY <1>1, <1>2

(* A scan with a request in sight returns a requesting lane, the first one *)
(* from the pointer on: every lane it looked at before had no request.     *)
LEMMA ScanFinds ==
    ASSUME rr_ptr \in 0 .. N,
           NEW R, ScanValid(R) \subseteq Lanes, ScanValid(R) # {}
    PROVE  /\ NextThread(R) \in ScanValid(R)
           /\ \E j \in Lanes : /\ NextThread(R) = ScanAt(j)
                               /\ \A k \in Lanes : k < j => ScanAt(k) \notin ScanValid(R)
<1> DEFINE Hits == {j \in Lanes : ScanAt(j) \in ScanValid(R)}
           First(j) == /\ ScanAt(j) \in ScanValid(R)
                       /\ \A k \in Lanes : k < j => ScanAt(k) \notin ScanValid(R)
<1>1. Hits # {}
  BY ScanCovers
<1>2. PICK m \in Hits : \A k \in Hits : m <= k
  BY <1>1, LeastLane
<1>3. m \in Lanes /\ First(m)
  <2>1. ASSUME NEW k \in Lanes, k < m, ScanAt(k) \in ScanValid(R)
        PROVE  FALSE
    <3>1. m <= k
      BY <2>1, <1>2
    <3> QED
      BY <2>1, <3>1, NAssumption DEF Lanes
  <2> QED
    BY <2>1, <1>2
<1>4. First(CHOOSE j \in Lanes : First(j)) /\ (CHOOSE j \in Lanes : First(j)) \in Lanes
  <2> HIDE DEF First
  <2> QED
    BY <1>3
<1>5. NextThread(R) = ScanAt(CHOOSE j \in Lanes : First(j))
  BY DEF NextThread
<1> QED
  BY <1>4, <1>5

(* The pointer stays within the lanes (or at N, which the scan wraps) when *)
(* it is cut to PTR_W bits.                                                *)
LEMMA PtrInRange ==
    ASSUME NEW i \in Lanes
    PROVE  PtrAfter(i) \in 0 .. N /\ PtrAfter(i) < PtrMod
<1>1. CASE i + 1 < PtrMod
  <2>1. (i + 1) % PtrMod = i + 1
    BY <1>1, NAssumption, PtrModAssumption DEF Lanes
  <2> QED
    BY <1>1, <2>1, NAssumption DEF PtrAfter, Lanes
<1>2. CASE ~(i + 1 < PtrMod)
  <2>1. i + 1 = PtrMod
    BY <1>2, NAssumption, PtrModAssumption DEF Lanes
  <2>2. PtrMod % PtrMod = 0
    BY PtrModAssumption
  <2> QED
    BY <2>1, <2>2, NAssumption, PtrModAssumption DEF PtrAfter, Lanes
<1> QED
  BY <1>1, <1>2

================================================================================
