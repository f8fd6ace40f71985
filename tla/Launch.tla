---------------------------------- MODULE Launch ---------------------------------
(***************************************************************************)
(* A kernel launch: the host writes the control registers                  *)
(* (Src/device_control_register/dcr.sv), the dispatcher hands blocks to    *)
(* the cores, the cores run them.  One step is one clock edge of the whole *)
(* GPU, or a reset.                                                        *)
(*                                                                         *)
(* A core is what CoreHandshake says of it; its run reads the block number *)
(* on its blockIdx wire at any time, so the numbers it may have read are   *)
(* recorded.  blockDim and the program steer neither.  The host is the     *)
(* launch sequence of the testbenches: num_blocks, start (held one or two  *)
(* cycles), poll kernel_done, and a reset before the next kernel.  The     *)
(* hardware also takes a launch without a reset; here that host waits      *)
(* until every core is idle and holds start for two cycles.  The cycle     *)
(* counter is read with kernel_done; only whose cycles it holds is kept.   *)
(***************************************************************************)
EXTENDS Dispatcher, CoreHandshake

CONSTANT MaxBlocks       \* bound on the grid
ASSUME MaxBlocksAssumption == MaxBlocks \in Nat \ {0}

Blocks == 0 .. MaxBlocks - 1
Former == -1             \* a block of the kernel before

VARIABLES
    num_blocks, start,   \* dcr: the register and the launch pulse
    busy,                \* cores that are running
    block_done,          \* cores that say block_done in this cycle
    host,                \* where the host is in the launch sequence
    grid,                \* num_blocks as the launch found it
    kc_running,          \* the cycle counter runs
    kernel_cycles,       \* it counts "this" launch, or still a "former" one
    seen,                \* core -> block numbers on its wire during this run
    runs                 \* block -> complete runs of it since the launch

launchVars == <<dispVars, num_blocks, start, busy, block_done, host, grid, kc_running, kernel_cycles,
                seen, runs>>

LaunchInit ==
    /\ DispInit
    /\ num_blocks = 0
    /\ start = FALSE
    /\ busy = {}
    /\ block_done = {}
    /\ host = "setup"
    /\ grid = 0
    /\ kc_running = FALSE
    /\ kernel_cycles = "former"
    /\ seen = [c \in Cores |-> {}]
    /\ runs = [b \in Blocks |-> 0]

--------------------------------------------------------------------------------
(* The host's turn on the dcr port in each cycle. *)
WriteNothing == start' = FALSE /\ UNCHANGED num_blocks
WriteNumBlocks == start' = FALSE /\ num_blocks' \in 0 .. MaxBlocks
WriteStart == start' = TRUE /\ UNCHANGED num_blocks

Poll == host' = (IF kernel_done THEN "done" ELSE "poll")

(* launch_kernel writes start once and polls at once.  That is a fault of  *)
(* a host that launches without a reset (reset=False, see Relaunch).       *)
LaunchKernelTick ==
    \/ host = "setup" /\ (WriteNothing \/ WriteNumBlocks) /\ host' = "setup"
    \/ host = "setup" /\ WriteStart /\ host' = "started"
    \/ host = "started" /\ WriteNothing /\ Poll
    \/ host = "poll" /\ WriteNothing /\ Poll
    \/ host = "done" /\ WriteNothing /\ host' = "done"

(* run_kernel writes start in two cycles and then polls; launch_kernel,    *)
(* after a reset, writes it once.                                          *)
HostTick ==
    \/ host = "setup" /\ (WriteNothing \/ WriteNumBlocks) /\ host' = "setup"
    \/ host = "setup" /\ WriteStart /\ host' = "started"
    \/ host = "started" /\ WriteStart /\ host' = "poll"
    \/ host = "started" /\ WriteNothing /\ ~kernel_done /\ Poll
    \/ host = "poll" /\ WriteNothing /\ Poll
    \/ host = "done" /\ WriteNothing /\ host' = "done"

(* The host goes on to the next kernel. *)
NextKernel == host = "done" /\ WriteNothing /\ host' = "setup"

CoreTick ==
    /\ busy' \in SUBSET Cores
    /\ block_done' = busy \ busy'
    /\ \A c \in Cores :
          HandshakeStep(c \in core_start, c \in busy, c \in busy', c \in block_done')

(* What the runs were given, and what came of them: a run that a launch    *)
(* finds going on is one of the kernel before.                             *)
Observe(launch) ==
    /\ grid' = IF launch THEN num_blocks ELSE grid
    /\ seen' = [c \in Cores |->
           IF c \notin busy' THEN {}
           ELSE {blockIdx_out'[c]} \cup (IF c \in busy THEN seen[c] ELSE {})
                \cup (IF launch /\ c \in busy THEN {Former} ELSE {})]
    /\ runs' = [b \in Blocks |->
           IF launch THEN 0
           ELSE runs[b] + Cardinality({c \in block_done' : seen[c] = {b}})]

(* The cycle counter restarts with a start pulse that finds kernel_done    *)
(* down, and stops with kernel_done.                                       *)
Restarts == start /\ ~kc_running /\ ~kernel_done
Counts(launch) ==
    kernel_cycles' = IF Restarts THEN "this" ELSE IF launch THEN "former" ELSE kernel_cycles

(* Fault: kernel_done does not stop the counter. *)
CycleTickOn(launch) == kc_running' = (Restarts \/ kc_running) /\ Counts(launch)

CycleTick(launch) == kc_running' = ((Restarts \/ kc_running) /\ ~kernel_done) /\ Counts(launch)

(* One clock edge of the GPU. *)
Edge ==
    /\ DispTick(start, num_blocks, block_done)
    /\ CoreTick
    /\ CycleTick(Launches(start))
    /\ Observe(Launches(start))

Clock == HostTick /\ Edge

(* A host that waits until every core is idle may launch without a reset.  *)
QuietNextKernel == busy = {} /\ NextKernel /\ Edge

(* The reset between two kernels. *)
Reset ==
    /\ host = "done"
    /\ running' = FALSE
    /\ kernel_done' = FALSE
    /\ next_block' = 0
    /\ completed_blocks' = 0
    /\ core_start' = {}
    /\ blockIdx_out' = [c \in Cores |-> 0]
    /\ num_blocks' = 0
    /\ start' = FALSE
    /\ busy' = {}
    /\ block_done' = {}
    /\ host' = "setup"
    /\ grid' = 0
    /\ kc_running' = FALSE
    /\ kernel_cycles' = "former"
    /\ seen' = [c \in Cores |-> {}]
    /\ runs' = [b \in Blocks |-> 0]

LaunchNext == Clock \/ QuietNextKernel \/ Reset
LaunchSpec == LaunchInit /\ [][LaunchNext]_launchVars

(* The clock runs and every core ends the block it is running (Core's      *)
(* BlocksEnd).                                                             *)
LaunchFairSpec ==
    /\ LaunchSpec
    /\ WF_launchVars(Clock)
    /\ \A c \in Cores : WF_launchVars(Clock /\ c \in busy /\ c \notin busy')

--------------------------------------------------------------------------------
LaunchTypeOK ==
    /\ running \in BOOLEAN /\ kernel_done \in BOOLEAN /\ start \in BOOLEAN
    /\ next_block \in 0 .. MaxBlocks
    /\ completed_blocks \in 0 .. MaxBlocks
    /\ num_blocks \in 0 .. MaxBlocks
    /\ core_start \subseteq Cores
    /\ blockIdx_out \in [Cores -> Blocks]
    /\ busy \subseteq Cores
    /\ block_done \subseteq Cores
    /\ host \in {"setup", "started", "poll", "done"}
    /\ grid \in 0 .. MaxBlocks
    /\ kc_running \in BOOLEAN /\ kernel_cycles \in {"this", "former"}
    /\ seen \in [Cores -> SUBSET (Blocks \cup {Former})]
    /\ runs \in [Blocks -> Nat]

(* While a kernel runs, every block handed out is either counted as        *)
(* complete or still held by exactly one core, also when several cores     *)
(* finish in one cycle and are handed new blocks in the same cycle.        *)
BlocksAccounted ==
    running =>
        /\ completed_blocks + Cardinality(core_start) = next_block
        /\ \A c, d \in core_start : c # d => blockIdx_out[c] # blockIdx_out[d]

(* kernel_done means that every block of the grid has been run from start  *)
(* to end by a core that saw no other block number meanwhile: the count of *)
(* completed blocks is right, and a number is never changed under a run    *)
(* that is going to be counted.                                            *)
DoneMeansEveryBlockRan ==
    kernel_done => \A b \in 0 .. grid - 1 : runs[b] >= 1

(* The host never takes the kernel_done of the kernel before, which stays  *)
(* up until its start pulse has reached the dispatcher, for its own.       *)
DoneIsThisKernels == host = "done" => ~running /\ completed_blocks = grid

(* The cycle count that the host reads then is that of its kernel, also    *)
(* when the kernel before was not followed by a reset: the counter missed  *)
(* the first start pulse, but not the second.  (An empty grid is over      *)
(* before that.)                                                           *)
CyclesAreThisKernels == host = "done" /\ grid > 0 => kernel_cycles = "this"

(* The dispatcher never takes the start bit away from a core before its    *)
(* block_done; Core assumes it (StartTick).                                *)
StartIsHeld ==
    [][\A c \in core_start \ block_done :
          Edge => c \in core_start' /\ blockIdx_out'[c] = blockIdx_out[c]]_launchVars

(* Every launch ends, the launch of an empty grid too. *)
LaunchEnds == start ~> kernel_done

(* The cores execute the blocks they are assigned, each once.              *)
EachBlockRunsOnce == \A b \in Blocks : runs[b] <= 1

================================================================================
