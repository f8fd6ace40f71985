--------------------------------- MODULE Fetcher --------------------------------
(***************************************************************************)
(* The instruction fetch unit of a core (Src/fetcher/fetcher.sv) and the   *)
(* program memory it reads, which answers a request pulse a fixed number   *)
(* of cycles after the cycle in which it is on the port: 0 in the          *)
(* simulation testbenches, 1 for the block RAM of fpga/gpu_fpga_top.sv.    *)
(***************************************************************************)
EXTENDS Integers, Sequences

CONSTANT ProgLatencies      \* the latencies considered
ASSUME ProgLatencyAssumption == ProgLatencies \subseteq Nat

VARIABLES
    fetch_waiting,      \* state = WAITING
    prog_req,           \* req_valid and req_addr
    instruction_raw,    \* the fetcher's instruction output
    fetch_done,
    prog_pipe           \* requests on their way through the program memory

fetchVars == <<fetch_waiting, prog_req, instruction_raw, fetch_done, prog_pipe>>

NoRequest == [valid |-> FALSE, addr |-> 0]

FetchInit(word0) ==
    /\ fetch_waiting = FALSE
    /\ prog_req = NoRequest
    /\ instruction_raw = word0
    /\ fetch_done = FALSE
    /\ prog_pipe \in {[k \in 1 .. n |-> NoRequest] : n \in ProgLatencies}

(* The request the program memory answers in this cycle: the oldest one.   *)
InPipe == <<prog_req>> \o prog_pipe
Answered == InPipe[Len(InPipe)]

ProgMemTick == prog_pipe' = SubSeq(InPipe, 1, Len(prog_pipe))

(* IDLE and enabled: request the word at the PC. *)
FetchAccepts(core_en) == ~fetch_waiting /\ core_en

(* WAITING and answered: hand the word on for one cycle of done. *)
FetchCompletes == fetch_waiting /\ Answered.valid

(* One edge: resp_data is the word answered.  The address register keeps   *)
(* its value when req_valid falls; only a valid request reads it, so the   *)
(* request is forgotten with it.                                           *)
FetchTick(core_en, pc_value, resp_data) ==
    /\ fetch_waiting' = (FetchAccepts(core_en) \/ (fetch_waiting /\ ~FetchCompletes))
    /\ prog_req' = IF FetchAccepts(core_en) THEN [valid |-> TRUE, addr |-> pc_value]
                   ELSE NoRequest
    /\ instruction_raw' = IF FetchCompletes THEN resp_data ELSE instruction_raw
    /\ fetch_done' = FetchCompletes

================================================================================
