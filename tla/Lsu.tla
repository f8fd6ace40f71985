---------------------------------- MODULE Lsu ----------------------------------
(***************************************************************************)
(* The load/store units of one core (Src/lsu/lsu.sv), one per SIMT lane.   *)
(* Every lane has the same registers and every lane takes one step on each *)
(* rising clock edge, so a register is a function of the lane (or the set  *)
(* of lanes in which a one-bit register is 1) and LsuTick is one edge.     *)
(***************************************************************************)
EXTENDS CoreParams

VARIABLES
    lsu_waiting,     \* lanes whose state is WAITING (the others are IDLE)
    is_read,         \* lanes whose current access is a read
    lsu_req_valid,   \* lanes whose req_valid register is 1
    lsu_req,         \* lane -> req_addr, read_write_switch, write_data
    lsu_done,        \* lanes whose done register is 1
    mem_read_data    \* lane -> last word read

lsuVars == <<lsu_waiting, is_read, lsu_req_valid, lsu_req, lsu_done, mem_read_data>>

LsuTypeOK ==
    /\ lsu_waiting \subseteq Lanes
    /\ is_read \subseteq Lanes
    /\ lsu_req_valid \subseteq Lanes
    /\ lsu_req \in [Lanes -> Access]
    /\ lsu_done \subseteq Lanes
    /\ mem_read_data \in [Lanes -> Value]

(* Reset leaves read_write_switch and write_data alone: they start unknown. *)
LsuInit ==
    /\ lsu_waiting = {}
    /\ is_read = {}
    /\ lsu_req_valid = {}
    /\ lsu_req \in [Lanes -> [rw : BOOLEAN, addr : {0}, data : Value]]
    /\ lsu_done = {}
    /\ mem_read_data = [i \in Lanes |-> 0]

(* IDLE with core_en: the lane accepts the access presented to it. *)
Accepted(en) == en \ lsu_waiting

(* Fault: a lane takes any response for its own. *)
RetiredByAny(resp_valid) == IF resp_valid # {} THEN lsu_waiting ELSE {}

(* WAITING with resp_valid: the lane's access is over. *)
Retired(resp_valid) == lsu_waiting \cap resp_valid

(* The request port after the edge: the address register is cleared on     *)
(* every edge on which no access is accepted; write_data is kept by a read. *)
RequestPort(i, en, op) ==
    IF i \in Accepted(en)
    THEN [rw |-> op[i].rw, addr |-> op[i].addr,
          data |-> IF op[i].rw THEN lsu_req[i].data ELSE op[i].data]
    ELSE [lsu_req[i] EXCEPT !.addr = 0]

(* One rising edge of every lane. en is the set of lanes with core_en, op  *)
(* the access presented to each of them (mem_read_en, mem_data_address,    *)
(* mem_write_data), resp_valid and resp_data the controller's answers.     *)
LsuTick(en, op, resp_valid, resp_data) ==
    /\ lsu_waiting' = (lsu_waiting \ Retired(resp_valid)) \cup Accepted(en)
    /\ is_read' = (is_read \ Accepted(en)) \cup {i \in Accepted(en) : op[i].rw}
    /\ lsu_req_valid' = Accepted(en)
    /\ lsu_req' = [i \in Lanes |-> RequestPort(i, en, op)]
    /\ lsu_done' = Retired(resp_valid)
    /\ mem_read_data' = [i \in Lanes |->
           IF i \in Retired(resp_valid) \cap is_read
           THEN resp_data[i] ELSE mem_read_data[i]]

================================================================================
