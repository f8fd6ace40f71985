------------------------------ MODULE MemPathProof ------------------------------
(***************************************************************************)
(* Proofs about MemPath for every number of lanes, every set of addresses  *)
(* and words, and every sequence of accesses.                              *)
(***************************************************************************)
EXTENDS MemPath, ScanProof

(* After reset every register has its type.                                *)
LEMMA InitTypeOK == Init => TypeOK
<1> SUFFICES ASSUME Init PROVE TypeOK
  OBVIOUS
<1> USE NAssumption, WordAssumption
<1>1. LsuTypeOK
  BY DEF Init, LsuInit, LsuTypeOK, Access
<1>2. McTypeOK
  <2>1. NoAccess \in Access /\ 0 \in Lanes /\ 0 \in 0 .. N
    BY DEF Access, NoAccess, Lanes
  <2>2. 0 < PtrMod
    BY PtrModAssumption
  <2> QED
    BY <2>1, <2>2 DEF Init, McInit, McTypeOK
<1> QED
  BY <1>1, <1>2 DEF Init, TypeOK

(* The registers of the load/store units keep their types on every edge. *)
LEMMA LsuTickType ==
    ASSUME LsuTypeOK, NEW en \in SUBSET Lanes, NEW op \in [en -> Access],
           resp_data \in [Lanes -> Value],
           LsuTick(en, op, resp_valid, resp_data)
    PROVE  LsuTypeOK'
<1>1. \A i \in Lanes : RequestPort(i, en, op) \in Access
  BY WordAssumption DEF RequestPort, Accepted, LsuTypeOK, Access
<1> QED
  BY <1>1 DEF LsuTick, LsuTypeOK, Accepted, Retired

(* So do the controller's, given typed requests and answers. *)
LEMMA McTickType ==
    ASSUME McTypeOK, NEW R \in SUBSET Lanes, NEW req \in [Lanes -> Access],
           NEW resp \in BOOLEAN, NEW data \in Value,
           McTick(R, req, resp, data)
    PROVE  McTypeOK'
<1>1. pending' \subseteq Lanes /\ pending_req' \in [Lanes -> Access]
  BY DEF McTick, BufferTick, McTypeOK
<1>2. CASE Grant(R, req)
  <2>1. NextThread(R) \in Lanes
    BY <1>2, ScanFinds DEF Grant, ScanValid, McTypeOK
  <2> QED
    BY <1>1, <1>2, <2>1 DEF Grant, Selected, McTypeOK
<1>3. CASE Quiet(R)
  BY <1>1, <1>3 DEF Quiet, McTypeOK
<1>4. CASE Respond(resp, data)
  BY <1>1, <1>4, PtrInRange DEF Respond, McTypeOK
<1>5. CASE Hold(resp)
  BY <1>1, <1>5 DEF Hold, McTypeOK
<1> QED
  BY <1>2, <1>3, <1>4, <1>5 DEF McTick

(* One edge keeps every register's type, whatever the core enables.        *)
LEMMA NextTypes ==
    ASSUME TypeOK, NEW en \in SUBSET Lanes, NEW op \in [en -> Access], PathTick(en, op)
    PROVE  TypeOK'
<1>1. LsuTypeOK'
  BY LsuTickType DEF PathTick, TypeOK, McTypeOK
<1>2. McTypeOK'
  BY McTickType DEF PathTick, TypeOK, LsuTypeOK
<1>3. ASSUME NEW r \in Access, MemPerforms(r)
      PROVE  mem' \in [Addr -> Value] /\ mem_resp_valid' \in BOOLEAN
             /\ mem_resp_data' \in Value
  BY <1>3 DEF MemPerforms, TypeOK, Access
<1>4. mem_req \in Access /\ mem_req' \in Access
  BY <1>2 DEF TypeOK, McTypeOK
<1>5. mem' \in [Addr -> Value] /\ mem_resp_valid' \in BOOLEAN /\ mem_resp_data' \in Value
  BY <1>3, <1>4, WordAssumption
     DEF PathTick, AnswerAtOnce, AnswerRegistered, NoAnswer, TypeOK
<1> QED
  BY <1>1, <1>2, <1>5 DEF TypeOK

(* A step of the path is an edge with some lanes enabled.                  *)
LEMMA NextIsTick ==
    ASSUME Next
    PROVE  \E en \in SUBSET Lanes : \E op \in [en -> Access] : PathTick(en, op)
<1>1. PICK en \in SUBSET Lanes : \E op \in [en -> Issued] : PathTick(en, op)
  BY DEF Next
<1> QED
  BY <1>1, IssuedAssumption

(* Type correctness is inductive by itself.                                *)
LEMMA NextTypeOK == TypeOK /\ [Next]_vars => TypeOK'
<1> SUFFICES ASSUME TypeOK, [Next]_vars PROVE TypeOK'
  OBVIOUS
<1>1. CASE Next
  BY <1>1, NextIsTick, NextTypes
<1>2. CASE UNCHANGED vars
  BY <1>2 DEF vars, lsuVars, mcVars, TypeOK, LsuTypeOK, McTypeOK
<1> QED
  BY <1>1, <1>2

(* Every register keeps its type, whatever the core enables and however    *)
(* slowly the memory answers.                                              *)
THEOREM TypeCorrect == Spec => []TypeOK
<1> QED
  BY InitTypeOK, NextTypeOK, PTL DEF Spec

--------------------------------------------------------------------------------
(* What one edge does to a waiting lane that the core can neither enable   *)
(* nor hurry: the facts about the lanes that the invariant needs.          *)
LEMMA LaneFacts ==
    ASSUME TypeOK, OnePlacePerAccess, NEW en \in SUBSET Lanes,
           NEW op \in [en -> Access], PathTick(en, op)
    PROVE  /\ lsu_req_valid' = en \ lsu_waiting
           /\ lsu_waiting' = (lsu_waiting \ resp_valid) \cup lsu_req_valid'
           /\ \A i \in lsu_waiting : i \in is_read' <=> i \in is_read
           /\ \A i \in lsu_req_valid' : /\ i \in is_read' <=> op[i].rw
                                        /\ lsu_req'[i].rw = op[i].rw
           /\ \A i \in Lanes \ lsu_req_valid : pending_req'[i] = pending_req[i]
           /\ \A i \in lsu_req_valid : pending_req'[i] = lsu_req[i]
<1>1. LsuTick(en, op, resp_valid, resp_data)
      /\ BufferTick(lsu_req_valid, lsu_req, mem_resp_valid)
  BY DEF PathTick, McTick
<1>2. \A i \in en \ lsu_waiting : lsu_req'[i].rw = op[i].rw
  <2> SUFFICES ASSUME NEW i \in en \ lsu_waiting PROVE lsu_req'[i].rw = op[i].rw
    OBVIOUS
  <2>1. lsu_req'[i] = RequestPort(i, en, op)
    BY <1>1 DEF LsuTick
  <2> QED
    BY <2>1 DEF RequestPort, Accepted
<1>3. lsu_req_valid' = en \ lsu_waiting
      /\ lsu_waiting' = (lsu_waiting \ resp_valid) \cup (en \ lsu_waiting)
  BY <1>1 DEF LsuTick, Accepted, Retired
<1>4. is_read' = (is_read \ (en \ lsu_waiting)) \cup {i \in en \ lsu_waiting : op[i].rw}
  BY <1>1 DEF LsuTick, Accepted
<1>5. pending_req' = [i \in Lanes |-> IF i \in lsu_req_valid THEN lsu_req[i]
                                      ELSE pending_req[i]]
  BY <1>1 DEF BufferTick
<1>6. lsu_req_valid \subseteq Lanes
  BY DEF TypeOK, LsuTypeOK
<1> QED
  BY <1>2, <1>3, <1>4, <1>5, <1>6

(* No access is lost or duplicated between a lane and the controller. *)
LEMMA NextOnePlace ==
    ASSUME Inv, NEW en \in SUBSET Lanes, NEW op \in [en -> Access], PathTick(en, op)
    PROVE  OnePlacePerAccess'
<1>1. /\ lsu_req_valid' = en \ lsu_waiting
      /\ lsu_waiting' = (lsu_waiting \ resp_valid) \cup lsu_req_valid'
  BY LaneFacts DEF Inv
<1>2. pending' = (pending \cup lsu_req_valid) \ Served(mem_resp_valid)
  BY DEF PathTick, McTick, BufferTick
<1>3. resp_valid' = Served(mem_resp_valid)
  BY DEF PathTick, McTick, Grant, Quiet, Respond, Hold, Served
<1>4. Served(mem_resp_valid) \subseteq pending
  BY DEF Served, Inv, PortCarriesInFlight
<1> QED
  BY <1>1, <1>2, <1>3, <1>4 DEF Inv, OnePlacePerAccess

(* The request on the port stays the one of the lane in flight. *)
LEMMA NextPort ==
    ASSUME Inv, NEW en \in SUBSET Lanes, NEW op \in [en -> Access], PathTick(en, op)
    PROVE  PortCarriesInFlight'
<1>1. pending' = (pending \cup lsu_req_valid) \ Served(mem_resp_valid)
  BY DEF PathTick, McTick, BufferTick
<1>2. /\ \A i \in Lanes \ lsu_req_valid : pending_req'[i] = pending_req[i]
      /\ \A i \in lsu_req_valid : pending_req'[i] = lsu_req[i]
  BY LaneFacts DEF Inv
<1>3. CASE Grant(lsu_req_valid, lsu_req)
  <2>1. NextThread(lsu_req_valid) \in ScanValid(lsu_req_valid)
    BY <1>3, ScanFinds DEF Grant, ScanValid, Inv, TypeOK, McTypeOK, LsuTypeOK
  <2>2. Served(mem_resp_valid) = {}
    BY <1>3 DEF Grant, Served
  <2>3. in_flight' \in pending'
    BY <1>1, <1>3, <2>1, <2>2 DEF Grant, ScanValid
  <2>4. mem_req' = pending_req'[in_flight']
    BY <1>2, <1>3, <2>1 DEF Grant, Selected, ScanValid, Inv, TypeOK, McTypeOK
  <2> QED
    BY <1>3, <2>3, <2>4 DEF Grant, PortCarriesInFlight
<1>4. CASE Quiet(lsu_req_valid)
  BY <1>4 DEF Quiet, PortCarriesInFlight
<1>5. CASE Respond(mem_resp_valid, mem_resp_data)
  BY <1>5 DEF Respond, PortCarriesInFlight
<1>6. CASE Hold(mem_resp_valid)
  <2>1. in_flight \in pending /\ in_flight \notin lsu_req_valid /\ in_flight \in Lanes
    BY <1>6 DEF Hold, Inv, PortCarriesInFlight, OnePlacePerAccess, TypeOK, McTypeOK
  <2>2. in_flight \in pending'
    BY <1>1, <1>6, <2>1 DEF Hold, Served
  <2>3. pending_req'[in_flight] = pending_req[in_flight]
    BY <1>2, <2>1
  <2> QED
    BY <1>6, <2>2, <2>3 DEF Hold, Inv, PortCarriesInFlight
<1> QED
  BY <1>3, <1>4, <1>5, <1>6 DEF PathTick, McTick

(* The direction of an access travels with it into the buffer.             *)
LEMMA NextDirection ==
    ASSUME Inv, NEW en \in SUBSET Lanes, NEW op \in [en -> Access], PathTick(en, op)
    PROVE  DirectionAgrees'
<1>1. \A i \in lsu_req_valid' : i \in is_read' <=> lsu_req'[i].rw
  BY LaneFacts DEF Inv
<1>2. ASSUME NEW i \in pending'
      PROVE  i \in is_read' <=> pending_req'[i].rw
  <2>1. i \in pending \/ i \in lsu_req_valid
    BY DEF PathTick, McTick, BufferTick
  <2>2. i \in Lanes /\ i \in lsu_waiting
    BY <2>1 DEF Inv, OnePlacePerAccess, TypeOK, LsuTypeOK
  <2>3. i \in is_read' <=> i \in is_read
    BY <2>2, LaneFacts DEF Inv
  <2>4. CASE i \in lsu_req_valid
    BY <2>3, <2>4, LaneFacts DEF Inv, DirectionAgrees
  <2>5. CASE i \notin lsu_req_valid
    BY <2>1, <2>2, <2>3, <2>5, LaneFacts DEF Inv, DirectionAgrees
  <2> QED
    BY <2>4, <2>5
<1> QED
  BY <1>1, <1>2 DEF DirectionAgrees

(* An answer that arrives while the controller waits was given in this     *)
(* very step to the request that is on the port.                           *)
LEMMA AnsweredNow ==
    ASSUME PortCarriesInFlight, NEW en, NEW op, PathTick(en, op),
           mc_state' = "WAIT", mem_resp_valid'
    PROVE  MemPerforms(mem_req')
<1>1. CASE AnswerAtOnce
  BY <1>1 DEF AnswerAtOnce
<1>2. CASE AnswerRegistered
  <2>1. mc_state = "WAIT"
    BY <1>2 DEF AnswerRegistered, PortCarriesInFlight
  <2>2. mem_req' = mem_req
    BY <2>1 DEF PathTick, McTick, Grant, Quiet, Respond, Hold
  <2> QED
    BY <1>2, <2>2 DEF AnswerRegistered
<1>3. CASE NoAnswer
  BY <1>3 DEF NoAnswer
<1> QED
  BY <1>1, <1>2, <1>3 DEF PathTick

(* A word that arrives for a reading lane is the one memory holds at the   *)
(* address on the port, and reading did not change it.                     *)
LEMMA NextAnswer ==
    ASSUME Inv, NEW en \in SUBSET Lanes, NEW op \in [en -> Access], PathTick(en, op)
    PROVE  AnswerIsForInFlight'
<1> SUFFICES ASSUME mc_state' = "WAIT", mem_resp_valid', in_flight' \in is_read'
             PROVE  mem_resp_data' = mem'[mem_req'.addr]
  BY DEF AnswerIsForInFlight
<1>1. PortCarriesInFlight' /\ DirectionAgrees'
  BY NextPort, NextDirection
<1>2. mem_req'.rw
  BY <1>1 DEF PortCarriesInFlight, DirectionAgrees
<1>3. MemPerforms(mem_req')
  BY AnsweredNow DEF Inv
<1> QED
  BY <1>2, <1>3 DEF MemPerforms

(* Likewise for a write: its word is in memory once it is answered.        *)
LEMMA NextWrite ==
    ASSUME Inv, NEW en \in SUBSET Lanes, NEW op \in [en -> Access], PathTick(en, op)
    PROVE  AnsweredWriteIsDone'
<1> SUFFICES ASSUME mc_state' = "WAIT", mem_resp_valid', ~mem_req'.rw
             PROVE  mem'[mem_req'.addr] = mem_req'.data
  BY DEF AnsweredWriteIsDone
<1>1. MemPerforms(mem_req')
  BY AnsweredNow DEF Inv
<1>2. mem_req' \in Access
  BY NextTypes DEF Inv, TypeOK, McTypeOK
<1> QED
  BY <1>1, <1>2 DEF MemPerforms, Inv, TypeOK, Access

(* The word the controller hands to a lane is still in memory at the       *)
(* lane's address in the cycle the lane takes it: the only access the      *)
(* memory can repeat meanwhile is the lane's own read.                     *)
LEMMA NextReads ==
    ASSUME Inv, NEW en \in SUBSET Lanes, NEW op \in [en -> Access], PathTick(en, op)
    PROVE  ReadsReturnMemory'
<1> SUFFICES ASSUME NEW i \in resp_valid', i \in is_read'
             PROVE  resp_data'[i] = mem'[pending_req'[i].addr]
  BY DEF ReadsReturnMemory
<1>1. Respond(mem_resp_valid, mem_resp_data) /\ i = in_flight
  BY DEF PathTick, McTick, Grant, Quiet, Respond, Hold
<1>2. i \in pending /\ mem_req = pending_req[i] /\ i \in Lanes
  BY <1>1 DEF Respond, Inv, PortCarriesInFlight, TypeOK, McTypeOK
<1>3. i \in lsu_waiting /\ i \notin lsu_req_valid
  BY <1>2 DEF Inv, OnePlacePerAccess
<1>4. i \in is_read /\ pending_req'[i] = pending_req[i]
  BY <1>2, <1>3, LaneFacts DEF Inv
<1>5. resp_data'[i] = mem[pending_req[i].addr]
  <2>1. resp_data'[i] = mem_resp_data
    BY <1>1, <1>2 DEF Respond, Inv, TypeOK, McTypeOK
  <2> QED
    BY <1>1, <1>2, <1>4, <2>1 DEF Respond, Inv, AnswerIsForInFlight
<1>6. mem_req.rw
  BY <1>2, <1>4 DEF Inv, DirectionAgrees
<1>7. mem' = mem
  BY <1>1, <1>6 DEF Respond, PathTick, AnswerAtOnce, AnswerRegistered, MemPerforms, NoAnswer
<1> QED
  BY <1>4, <1>5, <1>7

(* After reset nothing is asked, buffered or answered.                     *)
LEMMA InitInv == Init => Inv
<1> SUFFICES ASSUME Init PROVE Inv
  OBVIOUS
<1>1. TypeOK
  BY InitTypeOK
<1> QED
  BY <1>1 DEF Init, LsuInit, McInit, Inv, OnePlacePerAccess, PortCarriesInFlight,
              DirectionAgrees, AnswerIsForInFlight, AnsweredWriteIsDone,
              ReadsReturnMemory

(* Every conjunct is preserved, each by its own lemma.                     *)
LEMMA NextInv == Inv /\ [Next]_vars => Inv'
<1> SUFFICES ASSUME Inv, [Next]_vars PROVE Inv'
  OBVIOUS
<1>1. TypeOK'
  BY NextTypeOK DEF Inv
<1>2. CASE Next
  BY <1>1, <1>2, NextIsTick, NextOnePlace, NextPort, NextDirection, NextAnswer,
     NextWrite, NextReads DEF Inv
<1>3. CASE UNCHANGED vars
  BY <1>1, <1>3 DEF vars, lsuVars, mcVars, Inv, OnePlacePerAccess, PortCarriesInFlight,
                    DirectionAgrees, AnswerIsForInFlight, AnsweredWriteIsDone,
                    ReadsReturnMemory
<1> QED
  BY <1>2, <1>3

(* Hence the inductive invariant holds at all times.                       *)
LEMMA InvHolds == Spec => []Inv
<1> QED
  BY InitInv, NextInv, PTL DEF Spec

(* No request pulse is lost, buffered twice or answered unasked.           *)
THEOREM NoAccessLost == Spec => []OnePlacePerAccess
<1>1. Inv => OnePlacePerAccess
  BY DEF Inv
<1> QED
  BY <1>1, InvHolds, PTL

(* A reading lane is handed the word at its own address.                   *)
THEOREM ReadsCorrect == Spec => []ReadsReturnMemory
<1>1. Inv => ReadsReturnMemory
  BY DEF Inv
<1> QED
  BY <1>1, InvHolds, PTL

================================================================================
