-------------------------------- MODULE AccelMmio --------------------------------
(***************************************************************************)
(* The accelerator as the cores reach it (Src/Top_level_GPU/               *)
(* top_level_gpu.sv): control registers at 0x1F0 on every core's data      *)
(* port, one write and one read performed per cycle for the lowest core    *)
(* that asks, an acknowledgement one cycle later for everybody, and        *)
(* kernel_done held back while a matmul is in flight.                      *)
(*                                                                         *)
(* A core is the access sequence of axelcc's mmio_matmul: every thread     *)
(* stores each of the seven parameters and START, then loads DONE until it *)
(* reads 1 (or does not wait, as hand-written kernels may).  A core's      *)
(* controller keeps a request up until it is acknowledged (MemPath), and   *)
(* other instructions may take any time between two accesses.              *)
(***************************************************************************)
EXTENDS MatmulAccel

CONSTANTS NumCores,
          Threads,      \* THREADS_PER_CORE
          Configs,      \* the parameters considered
          ExtraBlocks   \* bound on the blocks beyond each core's first

Cores == 0 .. NumCores - 1

(* A, B and C are within the memory, and C does not lie on A or B; K is    *)
(* four or more and M and N are not zero.                                  *)
Fits(cfg, mem) ==
    /\ cfg \in [ConfigRegs -> Int]
    /\ cfg[M_REG] >= 1 /\ cfg[N_REG] >= 1 /\ Chunks(cfg) >= 1
    /\ \A r \in Rows(cfg), k \in ChunkNos(cfg) :
          AAddr(cfg, r, k) \in DOMAIN mem \ CRegion(cfg)
    /\ \A c \in Cols(cfg), k \in ChunkNos(cfg) :
          BAddr(cfg, c, k) \in DOMAIN mem \ CRegion(cfg)
    /\ CRegion(cfg) \subseteq DOMAIN mem
ASSUME ConfigsAssumption == \A cfg \in Configs, m \in InitialMem : Fits(cfg, m)
ASSUME MemAssumption == \A m \in InitialMem : m \in [DOMAIN m -> Int]

VARIABLES
    config,          \* the parameters of the kernel's mmio_matmul
    polls,           \* whether the kernel waits for DONE
    step,            \* core -> accesses of its block that are over
    asking,          \* cores with a request on their data port
    accel_resp_valid_d,  \* cores that are acknowledged in this cycle
    blocks_left,     \* blocks that are still to be handed out or run again
    through,         \* cores that are through a block
    disp_done,       \* dispatcher_kernel_done
    accel_inflight

mmioVars == <<accelVars, config, polls, step, asking, accel_resp_valid_d,
              blocks_left, through, disp_done, accel_inflight>>

(* The accesses of a block: Stores * Threads stores, then a load per thread *)
(* that is repeated until it reads 1.                                      *)
Stores == (START + 1) * Threads
Last == IF polls THEN Stores + Threads ELSE Stores
IsStore(c) == step[c] < Stores
StoreReg(c) == step[c] \div Threads
StoreData(c) == IF StoreReg(c) = START THEN 1 ELSE config[StoreReg(c)]

(* The control write port takes the lowest core that stores. *)
Storing == {c \in asking : IsStore(c)}
CtrlWrite ==
    IF Storing = {} THEN [valid |-> FALSE, addr |-> 0, data |-> 0]
    ELSE LET c == Min(Storing)
         IN [valid |-> TRUE, addr |-> StoreReg(c), data |-> StoreData(c)]

(* Every load is one of DONE, the register shown when nobody loads. *)
CtrlRead == reg_done

(* The cores that are acknowledged in this cycle, the ones that may come   *)
(* to their next access, and the ones that may begin another block.        *)
Answered == asking \cap accel_resp_valid_d
Ready == {c \in Cores \ asking : step[c] < Last}
Over == {c \in Cores \ asking : step[c] = Last}

CoresTick ==
    \E ask \in SUBSET Ready, begin \in SUBSET Over :
        /\ Cardinality(begin) <= blocks_left
        /\ blocks_left' = blocks_left - Cardinality(begin)
        /\ asking' = (asking \ Answered) \cup ask
        /\ step' = [c \in Cores |->
               IF c \in begin THEN 0
               ELSE IF c \in Answered /\ (IsStore(c) \/ CtrlRead) THEN step[c] + 1
               ELSE step[c]]
        /\ through' = through \cup Over

AckTick == accel_resp_valid_d' = asking

(* A START write counts, also one that the accelerator does not heed. *)
InflightTick(wr) ==
    accel_inflight' = (StartWrite(wr) \/ (accel_inflight /\ ~CtrlRead))

(* The dispatcher is done some time after every core is through a block;   *)
(* then a core may still be running its last block again (Launch).         *)
DispTick == disp_done' \in {disp_done, disp_done \/ through = Cores}

(* Fault: the host is told of the dispatcher's end. *)
KernelDoneUngated == disp_done

kernel_done == disp_done /\ ~accel_inflight

MmioInit ==
    /\ AccelInit
    /\ config \in Configs
    /\ polls \in BOOLEAN
    /\ step = [c \in Cores |-> 0]
    /\ asking = {}
    /\ accel_resp_valid_d = {}
    /\ blocks_left = ExtraBlocks
    /\ through = {}
    /\ disp_done = FALSE
    /\ accel_inflight = FALSE

MmioTick ==
    /\ AccelTick(CtrlWrite)
    /\ CoresTick
    /\ AckTick
    /\ InflightTick(CtrlWrite)
    /\ DispTick
    /\ UNCHANGED <<config, polls>>

MmioSpec == MmioInit /\ [][MmioTick]_mmioVars

(* The clock runs, the matrix memory does not owe an answer for ever, and  *)
(* a core with work left comes to its next access.                         *)
MmioFairSpec ==
    /\ MmioSpec
    /\ WF_mmioVars(MmioTick)
    /\ []<>~mem_work.valid
    /\ \A c \in Cores : []<>(c \in asking \/ step[c] = Last)

--------------------------------------------------------------------------------
(* DONE is shown only when the matrix memory is what the matmul should     *)
(* have made of it as the last accepted START found it: all of C and       *)
(* nothing else, whatever the cores wrote to the registers meanwhile and   *)
(* however often they asked to start (runs that found other parameters are *)
(* the matter of RunsAsConfigured).                                        *)
DoneMeansProduct == reg_done /\ run = config => amem = Product(start_mem, config)

(* kernel_done is never up while the accelerator still has something to    *)
(* write, also for kernels that do not wait for DONE.                      *)
KernelDoneMeansWritten ==
    kernel_done => ac_state = "IDLE" /\ ~data_req.valid /\ ~mem_work.valid

(* A thread that waits for DONE sees it: no START takes it away for good,  *)
(* and none that is not heeded or not performed is needed for it.          *)
PollEnds == \A c \in Cores : (polls /\ step[c] = Stores) ~> (step[c] > Stores)

(* All cores write the same parameters, so each matmul runs with them,     *)
(* whoever's write was taken in a cycle (top_level_gpu.sv: "last-write-    *)
(* wins does not matter").                                                 *)
RunsAsConfigured == ac_state # "IDLE" => run = config

================================================================================
