------------------------------- MODULE Dispatcher --------------------------------
(***************************************************************************)
(* The block dispatcher (Src/dispatcher/dispatcher.sv).  Its next values   *)
(* are computed in the order of the source: a launch clears everything,    *)
(* then finished blocks are consumed, then free cores get blocks, then the *)
(* end of the kernel is tested.                                            *)
(***************************************************************************)
EXTENDS Integers, FiniteSets

CONSTANT NumCores
ASSUME NumCoresAssumption == NumCores \in Nat \ {0}

Cores == 0 .. NumCores - 1

VARIABLES
    running, kernel_done, next_block, completed_blocks,
    core_start,      \* cores whose bit is 1: assigned and not known to be done
    blockIdx_out     \* core -> block

dispVars == <<running, kernel_done, next_block, completed_blocks,
              core_start, blockIdx_out>>

DispInit ==
    /\ running = FALSE
    /\ kernel_done = FALSE
    /\ next_block = 0
    /\ completed_blocks = 0
    /\ core_start = {}
    /\ blockIdx_out = [c \in Cores |-> 0]

(* A launch pulse counts only when no kernel is running. *)
Launches(dispatch_en) == dispatch_en /\ ~running

(* Fault: a block_done counts whether or not its core is assigned. *)
FinishedUnasked(launch, block_done) == IF launch THEN {} ELSE block_done

(* Cores whose block is over: a core that is not assigned is not listened to. *)
Finished(launch, block_done) == IF launch THEN {} ELSE core_start \cap block_done

(* Fault: the start bit is a pulse. *)
StillPulsed(launch, block_done) == {}

Still(launch, block_done) ==
    IF launch THEN {} ELSE core_start \ Finished(launch, block_done)

(* Fault: every core that is launched in a cycle is given the same block. *)
PlaceSame(c, free) == 0

(* Free cores take the next blocks, lower cores first, as long as there are any. *)
Place(c, free) == Cardinality({k \in free : k < c})

(* Fault: the end of the grid is tested once for all free cores. *)
AssignedAll(free, next, num_blocks) == IF next < num_blocks THEN free ELSE {}

Assigned(free, next, num_blocks) == {c \in free : next + Place(c, free) < num_blocks}

(* The kernel is over: all blocks handed out and complete. *)
Over(num_blocks) ==
    /\ num_blocks > 0
    /\ next_block' = num_blocks
    /\ completed_blocks' = num_blocks

(* Fault: an empty grid waits for its last block like any other. *)
EmptyWaits(launch, num_blocks) == FALSE

(* A launch of an empty grid is over at once. *)
Empty(launch, num_blocks) == launch /\ num_blocks = 0

DispRun(launch, num_blocks, block_done) ==
    LET next == IF launch THEN 0 ELSE next_block
        completed == IF launch THEN 0 ELSE completed_blocks
        still == Still(launch, block_done)
        free == Cores \ still
        new == Assigned(free, next, num_blocks)
        over == Over(num_blocks) \/ Empty(launch, num_blocks)
    IN /\ next_block' = next + Cardinality(new)
       /\ completed_blocks' = completed + Cardinality(Finished(launch, block_done))
       /\ blockIdx_out' = [c \in Cores |->
              IF c \in new THEN next + Place(c, free)
              ELSE IF launch THEN 0 ELSE blockIdx_out[c]]
       /\ running' = ~over
       /\ kernel_done' = (over \/ (~launch /\ kernel_done))
       /\ core_start' = IF over THEN {} ELSE still \cup new

(* One clock edge. *)
DispTick(dispatch_en, num_blocks, block_done) ==
    IF running \/ dispatch_en
    THEN DispRun(Launches(dispatch_en), num_blocks, block_done)
    ELSE UNCHANGED dispVars

================================================================================
