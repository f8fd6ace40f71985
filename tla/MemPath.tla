--------------------------------- MODULE MemPath --------------------------------
(***************************************************************************)
(* The data-memory path of one core: the lanes' load/store units, the      *)
(* memory controller between them (wired as in Src/core/core.sv) and the   *)
(* data memory outside.  All flip-flops share one clock: one step is one   *)
(* rising edge of everything.                                              *)
(*                                                                         *)
(* The core is left open here: on each edge it may enable any set of lanes *)
(* with any accesses of Issued.  Core.tla closes it with the scheduler.    *)
(***************************************************************************)
EXTENDS Lsu, MemController

CONSTANT Issued     \* the accesses the lanes are given
ASSUME IssuedAssumption == Issued \subseteq Access

VARIABLES
    mem,             \* the data memory: address -> word
    mem_resp_valid,
    mem_resp_data

vars == <<lsuVars, mcVars, mem, mem_resp_valid, mem_resp_data>>

TypeOK ==
    /\ LsuTypeOK
    /\ McTypeOK
    /\ mem \in [Addr -> Value]
    /\ mem_resp_valid \in BOOLEAN
    /\ mem_resp_data \in Value

Init ==
    /\ LsuInit
    /\ McInit
    /\ mem \in [Addr -> Value]
    /\ mem_resp_valid = FALSE
    /\ mem_resp_data = 0

(***************************************************************************)
(* The memory.  A response in a cycle answers a request that was on the    *)
(* port in that cycle (the simulation's memory answers at once) or in the  *)
(* cycle before (the FPGA's block RAM answers one cycle later).  Because   *)
(* the controller holds its request, both memories see it until the        *)
(* answer, may answer late, and the registered one answers once too often, *)
(* in the cycle after the request was withdrawn.                           *)
(***************************************************************************)
MemPerforms(r) ==
    /\ mem_resp_valid' = TRUE
    /\ mem_resp_data' = mem[r.addr]
    /\ mem' = IF r.rw THEN mem ELSE [mem EXCEPT ![r.addr] = r.data]

AnswerAtOnce == mem_req_valid' /\ MemPerforms(mem_req')
AnswerRegistered == mem_req_valid /\ MemPerforms(mem_req)

NoAnswer ==
    /\ mem_resp_valid' = FALSE
    /\ mem_resp_data' = 0
    /\ UNCHANGED mem

(* The clock edge of the path when the core enables the lanes of en. *)
PathTick(en, op) ==
    /\ LsuTick(en, op, resp_valid, resp_data)
    /\ McTick(lsu_req_valid, lsu_req, mem_resp_valid, mem_resp_data)
    /\ AnswerAtOnce \/ AnswerRegistered \/ NoAnswer

Next == \E en \in SUBSET Lanes : \E op \in [en -> Issued] : PathTick(en, op)

(* The clock keeps running, and the memory answers a request that stays.   *)
MemoryFairness ==
    /\ WF_vars(Next)
    /\ WF_vars(Next /\ mem_req_valid /\ mem_resp_valid')

Spec == Init /\ [][Next]_vars
FairSpec == Spec /\ MemoryFairness

--------------------------------------------------------------------------------
(* Each waiting lane's access is in exactly one place: the one-cycle       *)
(* request pulse, the controller's buffer, or the response pulse.  No      *)
(* pulse is lost while the controller is busy with another lane, none is   *)
(* buffered twice, and no lane is answered that did not ask.               *)
OnePlacePerAccess ==
    /\ lsu_waiting = lsu_req_valid \cup pending \cup resp_valid
    /\ lsu_req_valid \cap pending = {}
    /\ lsu_req_valid \cap resp_valid = {}
    /\ pending \cap resp_valid = {}

(* The request on the memory port while the controller waits is the one    *)
(* the lane in flight issued, so the answer it takes is for that lane.     *)
PortCarriesInFlight ==
    /\ mem_req_valid <=> mc_state = "WAIT"
    /\ mc_state = "WAIT" => in_flight \in pending /\ mem_req = pending_req[in_flight]

(* A word handed to a reading lane is what memory holds at that lane's own *)
(* address, in spite of answers given twice and of other lanes' writes.    *)
ReadsReturnMemory ==
    \A i \in resp_valid \cap is_read : resp_data[i] = mem[pending_req[i].addr]

(* The controller knows of each request whether it is a read, as its lane  *)
(* does: the direction travels with the request through the buffer.        *)
DirectionAgrees ==
    /\ \A i \in lsu_req_valid : i \in is_read <=> lsu_req[i].rw
    /\ \A i \in pending : i \in is_read <=> pending_req[i].rw

(* A word that arrives while the controller waits is the one the lane in   *)
(* flight asked for, and memory still holds it.                            *)
AnswerIsForInFlight ==
    mc_state = "WAIT" /\ mem_resp_valid /\ in_flight \in is_read
        => mem_resp_data = mem[mem_req.addr]

(* A write that has been answered is in memory, so doing it again, as a    *)
(* registered memory does, changes nothing.                                *)
AnsweredWriteIsDone ==
    mc_state = "WAIT" /\ mem_resp_valid /\ ~mem_req.rw
        => mem[mem_req.addr] = mem_req.data

(* The conjunction is inductive (MemPathProof). *)
Inv ==
    /\ TypeOK
    /\ OnePlacePerAccess
    /\ PortCarriesInFlight
    /\ DirectionAgrees
    /\ AnswerIsForInFlight
    /\ AnsweredWriteIsDone
    /\ ReadsReturnMemory

(* Every access that a lane starts is completed. *)
EveryAccessCompletes == \A i \in Lanes : (i \in lsu_waiting) ~> (i \in lsu_done)

--------------------------------------------------------------------------------
(* What a lane's access has come to, for the abstract specification: it is *)
(* performed when the memory gives the answer that the controller takes.   *)
AnswerArrives(i) == mc_state = "WAIT" /\ in_flight = i /\ mem_resp_valid

Job(i) ==
    IF i \notin lsu_waiting THEN [st |-> "free"]
    ELSE IF ~(i \in resp_valid \/ AnswerArrives(i))
    THEN [st |-> "asked",
          access |-> IF i \in lsu_req_valid THEN lsu_req[i] ELSE pending_req[i]]
    ELSE IF i \notin is_read THEN [st |-> "answered", read |-> FALSE]
    ELSE [st |-> "answered", read |-> TRUE,
          word |-> IF i \in resp_valid THEN resp_data[i] ELSE mem_resp_data]

LM == INSTANCE LaneMemory WITH job <- [i \in Lanes |-> Job(i)], out <- mem_read_data

(* The path implements the atomic lane memory: every access performed once *)
(* and its own word returned, whatever the interleaving of lanes and the   *)
(* memory's latency.                                                       *)
ImplementsLaneMemory == LM!LmSpec

================================================================================
