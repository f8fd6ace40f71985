------------------------------- MODULE MatmulAccel -------------------------------
(***************************************************************************)
(* The matrix-multiply accelerator                                         *)
(* (Src/matmul_accelerator/matmul_accelerator.sv): control registers, the  *)
(* copy of them that a run uses, and the state machine that reads A and B  *)
(* transposed chunk by chunk and stores C.  The memory behind its own data *)
(* port answers the one-cycle request pulse at once or any time later.     *)
(*                                                                         *)
(* Words are signed integers; a word of A or B is four signed bytes.       *)
(***************************************************************************)
EXTENDS Integers, FiniteSetsExt

CONSTANT InitialMem     \* the contents of the matrix memory considered

(* Offsets of the control registers. *)
A_BASE == 0
B_BASE == 1
C_BASE == 2
M_REG == 3
N_REG == 4
K_REG == 5
SCALE == 6
START == 7
ConfigRegs == A_BASE .. SCALE

VARIABLES
    regs,            \* reg_a_base .. reg_scale
    reg_done,
    run,             \* run_a_base .. run_scale: the registers as START found them
    ac_state,
    row, col,        \* i and j
    k_chunk,
    a_word, b_word,
    acc,
    data_req,        \* data_req_valid, _addr, _rw, _data
    amem,            \* the matrix memory
    mem_work,        \* the request it has not answered yet
    data_resp,       \* data_resp_valid, data_resp_data
    start_mem        \* history: the matrix memory as START found it

loopVars == <<row, col, k_chunk>>
accelVars == <<regs, reg_done, run, ac_state, loopVars, a_word, b_word, acc,
               data_req, amem, mem_work, data_resp, start_mem>>

NoDataReq == [valid |-> FALSE, addr |-> 0, rw |-> FALSE, data |-> 0]
ReadAt(a) == [valid |-> TRUE, addr |-> a, rw |-> TRUE, data |-> 0]
WriteAt(a, d) == [valid |-> TRUE, addr |-> a, rw |-> FALSE, data |-> d]

AccelInit ==
    /\ regs = [r \in ConfigRegs |-> 0]
    /\ run = [r \in ConfigRegs |-> 0]
    /\ reg_done = FALSE
    /\ ac_state = "IDLE"
    /\ row = 0 /\ col = 0 /\ k_chunk = 0
    /\ a_word = 0 /\ b_word = 0 /\ acc = 0
    /\ data_req = NoDataReq
    /\ amem \in InitialMem
    /\ mem_work = NoDataReq
    /\ data_resp = [valid |-> FALSE, data |-> 0]
    /\ start_mem = amem

--------------------------------------------------------------------------------
(* Byte n of a word, signed. *)
Byte(w, n) ==
    LET b == (w \div 256^n) % 256 IN IF b >= 128 THEN b - 256 ELSE b

Dot4(a, b) == MapThenSumSet(LAMBDA n : Byte(a, n) * Byte(b, n), 0 .. 3)

(* run_k_chunks: K >> 2. *)
Chunks(cfg) == cfg[K_REG] \div 4

(* Where A[r][k], B transposed [c][k] and C[r][c] are. *)
AAddr(cfg, r, k) == cfg[A_BASE] + r * Chunks(cfg) + k
BAddr(cfg, c, k) == cfg[B_BASE] + c * Chunks(cfg) + k
CAddr(cfg, r, c) == cfg[C_BASE] + r * cfg[N_REG] + c

Rows(cfg) == 0 .. cfg[M_REG] - 1
Cols(cfg) == 0 .. cfg[N_REG] - 1
ChunkNos(cfg) == 0 .. Chunks(cfg) - 1

(* acc >>> scale[4:0], an arithmetic shift. *)
Scaled(sum, cfg) == sum \div 2^(cfg[SCALE] % 32)

(* A write to a control register is heeded only in IDLE. *)
RegsTick(wr) ==
    regs' = IF wr.valid /\ ac_state = "IDLE" /\ wr.addr \in ConfigRegs
            THEN [regs EXCEPT ![wr.addr] = wr.data] ELSE regs

StartWrite(wr) == wr.valid /\ wr.addr = START /\ wr.data % 2 = 1

Idle(wr) ==
    /\ ac_state = "IDLE"
    /\ ~StartWrite(wr)
    /\ data_req' = NoDataReq
    /\ UNCHANGED <<ac_state, reg_done, run, loopVars, a_word, b_word, acc, start_mem>>

Start(wr) ==
    /\ ac_state = "IDLE"
    /\ StartWrite(wr)
    /\ reg_done' = FALSE
    /\ run' = regs
    /\ row' = 0 /\ col' = 0 /\ k_chunk' = 0
    /\ acc' = 0
    /\ ac_state' = "LOAD_A"
    /\ data_req' = NoDataReq
    /\ start_mem' = amem
    /\ UNCHANGED <<a_word, b_word>>

(* A state that puts a request on the data port. *)
Ask(from, to, req) ==
    /\ ac_state = from
    /\ ac_state' = to
    /\ data_req' = req
    /\ UNCHANGED <<reg_done, run, loopVars, a_word, b_word, acc, start_mem>>

LoadA == Ask("LOAD_A", "WAIT_A", ReadAt(AAddr(run, row, k_chunk)))
LoadB == Ask("LOAD_B", "WAIT_B", ReadAt(BAddr(run, col, k_chunk)))
Store == Ask("STORE", "WAIT_STORE", WriteAt(CAddr(run, row, col), Scaled(acc, run)))

(* A state that waits for the memory. *)
Wait(from, to) ==
    /\ ac_state = from
    /\ ac_state' = IF data_resp.valid THEN to ELSE from
    /\ data_req' = NoDataReq
    /\ UNCHANGED <<reg_done, run, loopVars, acc, start_mem>>

WaitA == /\ Wait("WAIT_A", "LOAD_B")
         /\ a_word' = IF data_resp.valid THEN data_resp.data ELSE a_word
         /\ UNCHANGED b_word
WaitB == /\ Wait("WAIT_B", "MAC_STATE")
         /\ b_word' = IF data_resp.valid THEN data_resp.data ELSE b_word
         /\ UNCHANGED a_word
WaitStore == Wait("WAIT_STORE", "NEXT_IJ") /\ UNCHANGED <<a_word, b_word>>

Mac ==
    /\ ac_state = "MAC_STATE"
    /\ acc' = acc + Dot4(a_word, b_word)
    /\ IF k_chunk + 1 >= Chunks(run)
       THEN ac_state' = "STORE" /\ UNCHANGED k_chunk
       ELSE ac_state' = "LOAD_A" /\ k_chunk' = k_chunk + 1
    /\ data_req' = NoDataReq
    /\ UNCHANGED <<reg_done, run, row, col, a_word, b_word, start_mem>>

LastCol == col + 1 >= run[N_REG]
LastRow == row + 1 >= run[M_REG]

(* Fault: the accumulator goes on from the cell before. *)
NextIJKeepsSum ==
    /\ ac_state = "NEXT_IJ"
    /\ k_chunk' = 0
    /\ col' = IF LastCol THEN 0 ELSE col + 1
    /\ row' = IF LastCol /\ ~LastRow THEN row + 1 ELSE row
    /\ ac_state' = IF LastCol /\ LastRow THEN "DONE_SET" ELSE "LOAD_A"
    /\ data_req' = NoDataReq
    /\ UNCHANGED <<reg_done, run, a_word, b_word, acc, start_mem>>

NextIJ ==
    /\ ac_state = "NEXT_IJ"
    /\ acc' = 0
    /\ k_chunk' = 0
    /\ col' = IF LastCol THEN 0 ELSE col + 1
    /\ row' = IF LastCol /\ ~LastRow THEN row + 1 ELSE row
    /\ ac_state' = IF LastCol /\ LastRow THEN "DONE_SET" ELSE "LOAD_A"
    /\ data_req' = NoDataReq
    /\ UNCHANGED <<reg_done, run, a_word, b_word, start_mem>>

(* Fault: a START that meets the end of a run takes DONE back. *)
DoneSetUnlessStart(wr) ==
    /\ ac_state = "DONE_SET"
    /\ reg_done' = ~StartWrite(wr)
    /\ ac_state' = "IDLE"
    /\ data_req' = NoDataReq
    /\ UNCHANGED <<run, loopVars, a_word, b_word, acc, start_mem>>

DoneSet(wr) ==
    /\ ac_state = "DONE_SET"
    /\ reg_done' = TRUE
    /\ ac_state' = "IDLE"
    /\ data_req' = NoDataReq
    /\ UNCHANGED <<run, loopVars, a_word, b_word, acc, start_mem>>

(* The data memory: a request it sees or still has is answered now or later. *)
Serving == IF data_req'.valid THEN data_req' ELSE mem_work

MemAnswers ==
    /\ Serving.valid
    /\ data_resp' = [valid |-> TRUE, data |-> IF Serving.rw THEN amem[Serving.addr] ELSE 0]
    /\ amem' = IF Serving.rw THEN amem ELSE [amem EXCEPT ![Serving.addr] = Serving.data]
    /\ mem_work' = NoDataReq

MemWaits ==
    /\ data_resp' = [valid |-> FALSE, data |-> 0]
    /\ mem_work' = Serving
    /\ UNCHANGED amem

(* One clock edge; wr is the control write port. *)
AccelTick(wr) ==
    /\ RegsTick(wr)
    /\ \/ Idle(wr)
       \/ Start(wr)
       \/ LoadA \/ WaitA \/ LoadB \/ WaitB
       \/ Mac
       \/ Store \/ WaitStore
       \/ NextIJ
       \/ DoneSet(wr)
    /\ MemAnswers \/ MemWaits

--------------------------------------------------------------------------------
(* What a matmul of configuration cfg on memory m makes of it: a cell of C *)
(* is the scaled sum of the dot products of its row of A and column of B.  *)
(* Sums has the sums of the first 0, 1, ... chunks.                        *)
Sums(m, cfg, r, c) ==
    LET S[k \in 0 .. Chunks(cfg)] ==
            IF k = 0 THEN 0
            ELSE S[k - 1] + Dot4(m[AAddr(cfg, r, k - 1)], m[BAddr(cfg, c, k - 1)])
    IN S

Cell(m, cfg, r, c) == Scaled(Sums(m, cfg, r, c)[Chunks(cfg)], cfg)

CRegion(cfg) == {CAddr(cfg, r, c) : r \in Rows(cfg), c \in Cols(cfg)}

Product(m, cfg) ==
    [a \in DOMAIN m |->
        IF a \in CRegion(cfg)
        THEN Cell(m, cfg, (a - cfg[C_BASE]) \div cfg[N_REG], (a - cfg[C_BASE]) % cfg[N_REG])
        ELSE m[a]]

================================================================================
