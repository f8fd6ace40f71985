------------------------------- MODULE Scheduler -------------------------------
(***************************************************************************)
(* The per-core instruction sequencer (Src/scheduler/scheduler.sv): every  *)
(* instruction is taken through FETCH, DECODE, (REQUEST, WAIT,) EXECUTE    *)
(* and UPDATE for all active lanes together; a divergent branch and a SYNC *)
(* add a step that changes the active mask.                                *)
(*                                                                         *)
(* The one-bit outputs are registers that fall back to 0 on every edge     *)
(* unless the state sets them: strobes is the set of those that are 1.     *)
(* execute_en drives nothing in core.sv and is left out.                   *)
(***************************************************************************)
EXTENDS CoreParams

Strobes == {"fetcher_en", "lsu_en", "write_back_en", "block_done", "pc_en"}
States == {"IDLE", "FETCH", "DECODE", "REQUEST", "WAIT", "EXECUTE", "UPDATE",
           "DIVERGE", "SYNC_POP"}

VARIABLES sched_state, strobes, active_mask

schedVars == <<sched_state, strobes, active_mask>>

SchedTypeOK ==
    /\ sched_state \in States
    /\ strobes \subseteq Strobes
    /\ active_mask \subseteq Lanes

SchedInit ==
    /\ sched_state = "IDLE"
    /\ strobes = {}
    /\ active_mask = Lanes

(* A state that leaves the active mask alone. *)
Step(from, to, out) ==
    /\ sched_state = from
    /\ sched_state' = to
    /\ strobes' = out
    /\ UNCHANGED active_mask

Idle(core_start) == ~core_start /\ Step("IDLE", "IDLE", {})

Start(core_start) ==
    /\ sched_state = "IDLE"
    /\ core_start
    /\ sched_state' = "FETCH"
    /\ strobes' = {"fetcher_en"}
    /\ active_mask' = Lanes

Fetch(fetcher_done) ==
    IF fetcher_done THEN Step("FETCH", "DECODE", {})
                    ELSE Step("FETCH", "FETCH", {"fetcher_en"})

Decode(mem_en) == Step("DECODE", IF mem_en THEN "REQUEST" ELSE "EXECUTE", {})

Request == Step("REQUEST", "WAIT", {"lsu_en"})

(* all_done is the AND over every lane of the core's lsu_done. *)
Wait(all_done) == Step("WAIT", IF all_done THEN "EXECUTE" ELSE "WAIT", {})

Execute == Step("EXECUTE", "UPDATE", {})

(* Fault: the next fetch is started with the PC update, a cycle early. *)
UpdateFetchesEarly(ret, divergence_detected, sync_en) ==
    IF ret THEN Step("UPDATE", "IDLE", {"block_done", "write_back_en"})
    ELSE Step("UPDATE",
              IF divergence_detected THEN "DIVERGE"
              ELSE IF sync_en THEN "SYNC_POP" ELSE "FETCH",
              {"pc_en", "write_back_en", "fetcher_en"})

(* Fault: RET goes to the next block without passing IDLE. *)
UpdateChainsBlocks(ret, divergence_detected, sync_en) ==
    IF ret THEN Step("UPDATE", "FETCH", {"block_done", "write_back_en"})
    ELSE Step("UPDATE",
              IF divergence_detected THEN "DIVERGE"
              ELSE IF sync_en THEN "SYNC_POP" ELSE "FETCH",
              {"pc_en", "write_back_en"})

(* RET ends the block for the whole core and moves no PC. *)
Update(ret, divergence_detected, sync_en) ==
    IF ret THEN Step("UPDATE", "IDLE", {"block_done", "write_back_en"})
    ELSE Step("UPDATE",
              IF divergence_detected THEN "DIVERGE"
              ELSE IF sync_en THEN "SYNC_POP" ELSE "FETCH",
              {"pc_en", "write_back_en"})

(* The two states that narrow or restore the active mask. *)
ChangeMask(from, mask) ==
    /\ sched_state = from
    /\ sched_state' = "FETCH"
    /\ strobes' = {}
    /\ active_mask' = mask

(* Fault: the mask is not narrowed. *)
DivergeKeepsMask(taken_mask) == Step("DIVERGE", "FETCH", {})

Diverge(taken_mask) == ChangeMask("DIVERGE", taken_mask)
SyncPop(saved_mask) == ChangeMask("SYNC_POP", saved_mask)

SchedTick(core_start, fetcher_done, all_done, mem_en, ret, diverges, taken_mask, sync_en, saved_mask) ==
    \/ Idle(core_start)
    \/ Start(core_start)
    \/ Fetch(fetcher_done)
    \/ Decode(mem_en)
    \/ Request
    \/ Wait(all_done)
    \/ Execute
    \/ Update(ret, diverges, sync_en)
    \/ Diverge(taken_mask)
    \/ SyncPop(saved_mask)

================================================================================
