---------------------------------- MODULE Core ----------------------------------
(***************************************************************************)
(* One SIMT core (Src/core/core.sv): scheduler, fetcher, decoder, active   *)
(* mask, per-lane PC and flags (Src/pc/pc.sv), warp stack, call stack,     *)
(* load/store units and memory controller, wired as in the source.  One    *)
(* step is one rising clock edge of the whole core, its program memory and *)
(* its data memory.                                                        *)
(*                                                                         *)
(* Data is abstracted to what steers control: an instruction is its        *)
(* decoded control signals.  A CMP says which outcomes its registers may   *)
(* have; one is taken, for all lanes, each time it comes to be executed    *)
(* (the registers do not change under it).                                 *)
(***************************************************************************)
EXTENDS MemPath, Scheduler, Fetcher, CoreHandshake, FiniteSets

CONSTANTS WarpDepth,    \* warp_stack's STACK_DEPTH
          CallDepth,    \* call_stack's STACK_DEPTH
          Programs      \* the programs considered: sequences, address 0 first

ASSUME DepthAssumption == WarpDepth \in Nat /\ CallDepth \in Nat

Flags == {"n", "z", "p"}

(* The instructions, with the fields their opcode uses. *)
Plain(op) == [op |-> op, off |-> 0, mask |-> {}, flags |-> {}]
Nop == Plain("NOP")
Branch(mask, off) == [Plain("BR") EXCEPT !.mask = mask, !.off = off]
Call(off) == [Plain("CALL") EXCEPT !.off = off]
Cmp(flags) == [Plain("CMP") EXCEPT !.flags = flags]

VARIABLES
    core_start,       \* the dispatcher's start/busy bit for this core
    prog,             \* the program in program memory
    instruction,      \* the latched instruction that is decoded
    outcome,          \* lane -> how its registers compare under the last CMP begun
    lsu_done_latch,   \* lanes whose access of this instruction is done
    pc, nzp,          \* per lane; nzp is "none" until a CMP
    warp_stack,       \* saved masks (their sync PCs are never read)
    call_stack        \* return PCs

coreVars == <<core_start, prog, instruction, outcome, lsu_done_latch, pc, nzp,
              warp_stack, call_stack>>
allVars == <<vars, schedVars, fetchVars, coreVars>>

(* Program memory answers 0, a NOP, outside the program. *)
Word(a) == IF a + 1 \in DOMAIN prog THEN prog[a + 1] ELSE Nop

--------------------------------------------------------------------------------
(* Wires. *)
On(strobe) == strobe \in strobes
Is(op) == instruction.op = op
MemEn == Is("LDR") \/ Is("STR")

(* The lowest active lane's PC is the core's; lane 0's if none is active. *)
ActivePc ==
    IF active_mask = {} THEN pc[0]
    ELSE pc[CHOOSE i \in active_mask : \A k \in active_mask : i <= k]

Taken == {i \in active_mask : Is("BR") /\ nzp[i] \in instruction.mask}
Diverges == Is("BR") /\ Taken # active_mask /\ Taken # {}
(* Fault: SYNC on an empty stack leaves the mask alone. *)
SavedMaskKept == IF warp_stack = <<>> THEN active_mask ELSE Head(warp_stack)

SavedMask == IF warp_stack = <<>> THEN Lanes ELSE Head(warp_stack)
BlockReset == sched_state = "IDLE" /\ core_start

(* A lane that is not active counts as done. *)
AllDone == lsu_done_latch \cup (Lanes \ active_mask) = Lanes

(* Fault: the latch is cleared only when the requests go out. *)
ClearLatchOnLaunch == On("lsu_en")

(* The latch forgets the last access when a new load or store is fetched,  *)
(* and again when the requests go out.                                     *)
ClearLatch == (fetch_done /\ instruction_raw.op \in {"LDR", "STR"}) \/ On("lsu_en")

--------------------------------------------------------------------------------
(* Registers of core.sv, pc.sv, warp_stack.sv and call_stack.sv. *)
(* Fault: completions are not accumulated. *)
LatchTickForgets ==
    /\ instruction' = IF fetch_done THEN instruction_raw ELSE instruction
    /\ IF sched_state = "FETCH" /\ fetch_done /\ instruction_raw.op = "CMP"
       THEN outcome' \in instruction_raw.flags ELSE UNCHANGED outcome
    /\ lsu_done_latch' = IF ClearLatch THEN {} ELSE lsu_done

LatchTick ==
    /\ instruction' = IF fetch_done THEN instruction_raw ELSE instruction
    /\ IF sched_state = "FETCH" /\ fetch_done /\ instruction_raw.op = "CMP"
       THEN outcome' \in instruction_raw.flags ELSE UNCHANGED outcome
    /\ lsu_done_latch' = IF ClearLatch THEN {} ELSE lsu_done_latch \cup lsu_done

TopReturn == IF call_stack = <<>> THEN 0 ELSE Head(call_stack)

(* Fault: a parked lane's PC moves with the others. *)
PcAfterUngated(i) ==
    IF ~On("pc_en") THEN pc[i]
    ELSE IF Is("SRET") THEN TopReturn
    ELSE IF Is("CALL") \/ (Is("BR") /\ nzp[i] \in instruction.mask)
         THEN pc[i] + instruction.off
    ELSE pc[i] + 1

(* Fault: a branch counts from the instruction behind it. *)
PcAfterNext(i) ==
    IF ~(On("pc_en") /\ i \in active_mask) THEN pc[i]
    ELSE IF Is("SRET") THEN TopReturn
    ELSE IF Is("CALL") \/ (Is("BR") /\ nzp[i] \in instruction.mask)
         THEN pc[i] + 1 + instruction.off
    ELSE pc[i] + 1

(* Branches test the lane's own flags, active or not; pc_en is gated by    *)
(* the active mask, the flags are not.                                     *)
PcAfter(i) ==
    IF ~(On("pc_en") /\ i \in active_mask) THEN pc[i]
    ELSE IF Is("SRET") THEN TopReturn
    ELSE IF Is("CALL") \/ (Is("BR") /\ nzp[i] \in instruction.mask)
         THEN pc[i] + instruction.off
    ELSE pc[i] + 1

PcTick ==
    IF BlockReset
    THEN /\ pc' = [i \in Lanes |-> 0]
         /\ nzp' = [i \in Lanes |-> "none"]
    ELSE /\ pc' = [i \in Lanes |-> PcAfter(i)]
         /\ nzp' = IF Is("CMP") THEN outcome ELSE nzp

(* The lanes a divergent branch leaves behind. *)
PushedMask == active_mask \ Taken

(* A push on a full stack and a pop of an empty one do nothing. *)
WarpTick ==
    warp_stack' =
        IF sched_state = "DIVERGE" /\ Len(warp_stack) < WarpDepth
        THEN <<PushedMask>> \o warp_stack
        ELSE IF sched_state = "SYNC_POP" /\ warp_stack # <<>>
        THEN Tail(warp_stack) ELSE warp_stack

(* Fault: SRET reads the stack without popping it. *)
CallTickNoPop ==
    call_stack' =
        IF Is("CALL") /\ On("pc_en") /\ Len(call_stack) < CallDepth
        THEN <<ActivePc + 1>> \o call_stack ELSE call_stack

CallTick ==
    call_stack' =
        IF Is("CALL") /\ On("pc_en") /\ Len(call_stack) < CallDepth
        THEN <<ActivePc + 1>> \o call_stack
        ELSE IF Is("SRET") /\ On("pc_en") /\ call_stack # <<>>
        THEN Tail(call_stack) ELSE call_stack

(* The dispatcher keeps a busy core's bit up until block_done, and then    *)
(* drops it or keeps it for the next block; it may start a core any time.  *)
StartTick == core_start /\ ~On("block_done") => core_start'

(* What the load/store units are given: a stale lsu_en without a memory    *)
(* instruction enables nothing.                                            *)
Enabled == IF On("lsu_en") /\ MemEn THEN active_mask ELSE {}
Presented == [i \in Enabled |-> [NoAccess EXCEPT !.rw = Is("LDR")]]

CoreInit ==
    /\ Init
    /\ SchedInit
    /\ FetchInit(Nop)
    /\ core_start = FALSE
    /\ prog \in Programs
    /\ instruction = Nop
    /\ outcome = [i \in Lanes |-> "z"]
    /\ lsu_done_latch = {}
    /\ pc = [i \in Lanes |-> 0]
    /\ nzp = [i \in Lanes |-> "none"]
    /\ warp_stack = <<>>
    /\ call_stack = <<>>

Tick ==
    /\ core_start' \in BOOLEAN
    /\ StartTick
    /\ SchedTick(core_start, fetch_done, AllDone, MemEn, Is("RET"),
                 Diverges, Taken, Is("SYNC"), SavedMask)
    /\ FetchTick(On("fetcher_en"), ActivePc, Word(Answered.addr))
    /\ ProgMemTick
    /\ PathTick(Enabled, Presented)
    /\ LatchTick
    /\ PcTick
    /\ WarpTick
    /\ CallTick
    /\ UNCHANGED prog

CoreSpec == CoreInit /\ [][Tick]_allVars

--------------------------------------------------------------------------------
(* Everything has its type, no PC leaves the program, and neither stack    *)
(* holds more than it has room for.                                        *)
CoreTypeOK ==
    /\ TypeOK
    /\ SchedTypeOK
    /\ core_start \in BOOLEAN
    /\ prog \in Programs
    /\ instruction \in {Word(a) : a \in 0 .. Len(prog)}
    /\ outcome \in [Lanes -> Flags]
    /\ lsu_done_latch \subseteq Lanes
    /\ pc \in [Lanes -> 0 .. Len(prog)]
    /\ nzp \in [Lanes -> Flags \cup {"none"}]
    /\ Len(warp_stack) <= WarpDepth
    /\ Len(call_stack) <= CallDepth

(* While an instruction is being executed, what the decoder sees is the    *)
(* program word at the core's PC: no answer of the program memory is taken *)
(* for another instruction than the one it was fetched for.                *)
Executing == sched_state \in {"DECODE", "REQUEST", "WAIT", "EXECUTE", "UPDATE"}
DecodesInstructionAtPc == Executing => instruction = Word(ActivePc)

(* A load or store leaves WAIT only when every active lane's own access is *)
(* over: completions of an earlier instruction are not counted.            *)
NoAccessOutlivesInstruction ==
    sched_state \in {"EXECUTE", "UPDATE", "FETCH", "IDLE"}
        => lsu_waiting = {} /\ lsu_done = {}

(* A block that is started ends: neither the fetch handshake nor the wait  *)
(* for the lanes' accesses can hang.                                       *)
BlocksEnd == (sched_state # "IDLE") ~> On("block_done")

(* Towards the dispatcher the core is what Launch takes it for: it begins  *)
(* a run exactly when idle and started, and every run ends in one cycle of *)
(* block_done in which the core is idle again already.                     *)
ImplementsHandshake ==
    [][HandshakeStep(core_start, sched_state # "IDLE",
                     sched_state' # "IDLE", "block_done" \in strobes')]_allVars

================================================================================
