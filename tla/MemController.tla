----------------------------- MODULE MemController -----------------------------
(***************************************************************************)
(* The data-memory arbiter of one core                                     *)
(* (Src/memory_controller/mem_controller.sv).  It buffers the one-cycle    *)
(* request pulses of the lanes, grants one of them at a time round robin,  *)
(* holds the granted request on the memory port until the memory answers   *)
(* and routes the answer back to the lane in flight.                       *)
(***************************************************************************)
EXTENDS CoreParams

VARIABLES
    mc_state,        \* "IDLE" or "WAIT"
    rr_ptr,          \* where the next scan starts
    in_flight,       \* the lane whose request is on the memory port
    pending,         \* lanes with a buffered request
    pending_req,     \* lane -> pending_addr, pending_rw, pending_data
    mem_req_valid,
    mem_req,         \* mem_req_addr, mem_req_rw, mem_req_data
    resp_valid,      \* lanes whose resp_valid register is 1
    resp_data        \* lane -> response word

mcVars == <<mc_state, rr_ptr, in_flight, pending, pending_req,
            mem_req_valid, mem_req, resp_valid, resp_data>>

McTypeOK ==
    /\ mc_state \in {"IDLE", "WAIT"}
    /\ rr_ptr \in 0 .. N /\ rr_ptr < PtrMod
    /\ in_flight \in Lanes
    /\ pending \subseteq Lanes
    /\ pending_req \in [Lanes -> Access]
    /\ mem_req_valid \in BOOLEAN
    /\ mem_req \in Access
    /\ resp_valid \subseteq Lanes
    /\ resp_data \in [Lanes -> Value]

McInit ==
    /\ mc_state = "IDLE"
    /\ rr_ptr = 0
    /\ in_flight = 0
    /\ pending = {}
    /\ pending_req = [i \in Lanes |-> NoAccess]
    /\ mem_req_valid = FALSE
    /\ mem_req = NoAccess
    /\ resp_valid = {}
    /\ resp_data = [i \in Lanes |-> 0]

(* The requests a scan sees: buffered ones and the pulses of this cycle. *)
ScanValid(req_valid) == pending \cup req_valid

(* The lane the scan looks at in its j-th place. *)
ScanAt(j) == IF rr_ptr + j >= N THEN rr_ptr + j - N ELSE rr_ptr + j

(* The first requesting lane at or after rr_ptr. *)
NextThread(req_valid) ==
    ScanAt(CHOOSE j \in Lanes :
             /\ ScanAt(j) \in ScanValid(req_valid)
             /\ \A k \in Lanes : k < j => ScanAt(k) \notin ScanValid(req_valid))

(* Fault: the payload is always taken from the buffer, also in the cycle   *)
(* in which it is only being written there.                                *)
SelectedFromBuffer(t, req_valid, req) == pending_req[t]

(* A live pulse carries its own payload; a buffered request was latched. *)
Selected(t, req_valid, req) == IF t \in req_valid THEN req[t] ELSE pending_req[t]

(* Fault: the pointer is not cut to its register. *)
PtrUncut(i) == i + 1

(* Fault: every scan starts at lane 0. *)
PtrFixed(i) == 0

(* rr_ptr after lane i was served: in_flight + 1 cut to PTR_W bits. *)
PtrAfter(i) == (i + 1) % PtrMod

(* Lanes whose buffered request this edge clears. *)
Served(resp) == IF mc_state = "WAIT" /\ resp THEN {in_flight} ELSE {}

(* Fault: a pulse is not buffered while another lane is being served. *)
BufferTickWhenIdle(req_valid, req, resp) ==
    LET pulses == IF mc_state = "IDLE" THEN req_valid ELSE {}
    IN /\ pending' = (pending \cup pulses) \ Served(resp)
       /\ pending_req' = [i \in Lanes |-> IF i \in pulses THEN req[i] ELSE pending_req[i]]

(* The request buffer: every pulse is latched whatever the state is. *)
BufferTick(req_valid, req, resp) ==
    /\ pending' = (pending \cup req_valid) \ Served(resp)
    /\ pending_req' = [i \in Lanes |-> IF i \in req_valid THEN req[i] ELSE pending_req[i]]

(* IDLE and a request found: put it on the memory port. *)
Grant(req_valid, req) ==
    /\ mc_state = "IDLE"
    /\ ScanValid(req_valid) # {}
    /\ LET t == NextThread(req_valid)
       IN /\ in_flight' = t
          /\ mem_req' = Selected(t, req_valid, req)
    /\ mem_req_valid' = TRUE
    /\ mc_state' = "WAIT"
    /\ resp_valid' = {}
    /\ UNCHANGED <<rr_ptr, resp_data>>

(* IDLE and nothing to do. *)
Quiet(req_valid) ==
    /\ mc_state = "IDLE"
    /\ ScanValid(req_valid) = {}
    /\ mem_req_valid' = FALSE
    /\ resp_valid' = {}
    /\ UNCHANGED <<mc_state, rr_ptr, in_flight, mem_req, resp_data>>

(* WAIT and the memory answers: pass the word to the lane in flight. *)
Respond(resp, data) ==
    /\ mc_state = "WAIT"
    /\ resp
    /\ resp_valid' = {in_flight}
    /\ resp_data' = [resp_data EXCEPT ![in_flight] = data]
    /\ rr_ptr' = PtrAfter(in_flight)
    /\ mem_req_valid' = FALSE
    /\ mc_state' = "IDLE"
    /\ UNCHANGED <<in_flight, mem_req>>

(* WAIT and no answer: keep the request on the port. *)
Hold(resp) ==
    /\ mc_state = "WAIT"
    /\ ~resp
    /\ resp_valid' = {}
    /\ UNCHANGED <<mc_state, rr_ptr, in_flight, mem_req_valid, mem_req, resp_data>>

(* One rising edge: req_valid and req are the lanes' request ports, resp   *)
(* and data the memory's answer.                                           *)
McTick(req_valid, req, resp, data) ==
    /\ BufferTick(req_valid, req, resp)
    /\ \/ Grant(req_valid, req)
       \/ Quiet(req_valid)
       \/ Respond(resp, data)
       \/ Hold(resp)

================================================================================
