---------------------------------- MODULE Simt ----------------------------------
(***************************************************************************)
(* Core against the meaning of a program: each lane should run the program *)
(* as if it were alone, whatever the active mask, the warp stack and the   *)
(* shared call stack do to interleave the paths of a divergent branch.     *)
(* The history variables run every lane alone; they move only when the     *)
(* core says that it has executed an instruction for the lane.             *)
(***************************************************************************)
EXTENDS Core

VARIABLES
    ref_pc,       \* lane -> where it would be, running alone
    ref_nzp,      \* lane -> its flags, running alone
    ref_stack     \* lane -> its return addresses, running alone

refVars == <<ref_pc, ref_nzp, ref_stack>>
simtVars == <<allVars, refVars>>

RefInit ==
    /\ ref_pc = [i \in Lanes |-> 0]
    /\ ref_nzp = [i \in Lanes |-> "none"]
    /\ ref_stack = [i \in Lanes |-> <<>>]

(* The lanes that the core executes the current instruction for, on its    *)
(* last cycle; RET ends the block instead.                                 *)
Executed == IF sched_state = "UPDATE" /\ ~Is("RET") THEN active_mask ELSE {}

(* What the instruction at its own PC does to a lane that runs alone; a    *)
(* comparison comes out as it does for the lane in the core.  RET is the   *)
(* end of it.                                                              *)
Own(i) == Word(ref_pc[i])
RefPcAfter(i) ==
    LET w == Own(i)
    IN CASE w.op = "RET" -> ref_pc[i]
         [] w.op = "SRET" -> Head(ref_stack[i])
         [] w.op = "CALL" -> ref_pc[i] + w.off
         [] w.op = "BR" /\ ref_nzp[i] \in w.mask -> ref_pc[i] + w.off
         [] OTHER -> ref_pc[i] + 1
RefStackAfter(i) ==
    CASE Own(i).op = "CALL" -> <<ref_pc[i] + 1>> \o ref_stack[i]
      [] Own(i).op = "SRET" -> Tail(ref_stack[i])
      [] OTHER -> ref_stack[i]

RefTick ==
    IF BlockReset
    THEN /\ ref_pc' = [i \in Lanes |-> 0]
         /\ ref_nzp' = [i \in Lanes |-> "none"]
         /\ ref_stack' = [i \in Lanes |-> <<>>]
    ELSE /\ ref_pc' = [i \in Lanes |-> IF i \in Executed THEN RefPcAfter(i) ELSE ref_pc[i]]
         /\ ref_nzp' = [i \in Lanes |-> IF i \in Executed /\ Own(i).op = "CMP"
                                        THEN outcome[i] ELSE ref_nzp[i]]
         /\ ref_stack' = [i \in Lanes |-> IF i \in Executed THEN RefStackAfter(i)
                                          ELSE ref_stack[i]]

SimtInit == CoreInit /\ RefInit
SimtTick == Tick /\ RefTick
SimtSpec == SimtInit /\ [][SimtTick]_simtVars

(* A loop's comparison comes out as at its last round. *)
LoopLeft ==
    /\ sched_state = "FETCH" /\ fetch_done /\ instruction_raw.op = "CMP"
    /\ SimtTick
    /\ outcome' = [i \in Lanes |-> "z"]

(* The clock runs, the data memory answers a request that stays, and a     *)
(* loop is left sometime: its bound is reached.                            *)
SimtFairSpec ==
    /\ SimtSpec
    /\ WF_simtVars(SimtTick)
    /\ WF_simtVars(mem_req_valid /\ SimtTick /\ mem_resp_valid')
    /\ SF_simtVars(LoopLeft)

--------------------------------------------------------------------------------
(* Every active lane shares the PC from which the core executes: one       *)
(* instruction register and one return address are enough for all of them  *)
(* (Src/call_stack/README.md).                                             *)
ActiveLanesShareThePC == Executing => \A i \in active_mask : pc[i] = ActivePc

(* The core executes for a lane exactly the instructions the lane would    *)
(* execute alone, in order; while an instruction executes, nobody is left  *)
(* without a lane to execute it for.                                       *)
LanesRunTheirOwnPath ==
    sched_state = "UPDATE" =>
        /\ active_mask # {}
        /\ \A i \in active_mask : pc[i] = ref_pc[i] /\ instruction = Own(i)

(* RET ends the block for the whole core, so it may be executed only when  *)
(* no lane has anything else left to do: a lane parked on the warp stack   *)
(* would lose the rest of its path.                                        *)
NoLaneCutShort ==
    sched_state = "UPDATE" /\ Is("RET") => \A i \in Lanes : Own(i).op = "RET"

(* A block leaves both stacks as it found them: nothing resets them when   *)
(* the next block starts, so what one block leaves the next would pop.     *)
StacksBalanced == BlockReset => warp_stack = <<>> /\ call_stack = <<>>

================================================================================
