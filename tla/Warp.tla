---------------------------------- MODULE Warp ---------------------------------
(***************************************************************************)
(* One block of threads on one core, an instruction at a time, with data:  *)
(* the architecture a compiled program runs on (Src/core/core.sv,          *)
(* registers/register_file.sv, pc.sv, warp_stack.sv, call_stack.sv).       *)
(* Core.tla has the same masks and stacks cycle by cycle, without data.    *)
(***************************************************************************)
EXTENDS Isa, SequencesExt, Functions

CONSTANTS WarpDepth, CallDepth,
          Leftover,       \* what registers hold from the block before
          BlockIdx

VARIABLES
    prog_mem,       \* the program memory
    lanes,          \* blockDim
    mem,            \* data memory, the words that were ever written
    regs, nzp, pc,  \* per lane
    active_mask, warp_stack, call_stack,
    accel,          \* the accelerator: "idle", "busy" or "done"
    launches        \* the operands it was started with, in order

warpVars == <<prog_mem, lanes, mem, regs, nzp, pc, active_mask, warp_stack, call_stack,
              accel, launches>>

Lanes == 0 .. lanes - 1
Read(m, a) == IF a \in DOMAIN m THEN m[a] ELSE 0

(* Reset of a block: threads all active, at address 0, without flags. *)
Boot(words, n, data) ==
    /\ prog_mem' = words
    /\ lanes' = n
    /\ mem' = data
    /\ regs' = [i \in 0 .. n - 1 |-> [r \in 1 .. 28 |-> Leftover]]
    /\ nzp' = [i \in 0 .. n - 1 |-> 0]
    /\ pc' = [i \in 0 .. n - 1 |-> 0]
    /\ active_mask' = 0 .. n - 1
    /\ warp_stack' = <<>>
    /\ call_stack' = <<>>
    /\ accel' = "idle"
    /\ launches' = <<>>

(* Off is the machine before a program is loaded. *)
Off ==
    /\ prog_mem = <<>> /\ lanes = 0 /\ mem = <<>> /\ regs = <<>> /\ nzp = <<>> /\ pc = <<>>
    /\ active_mask = {} /\ warp_stack = <<>> /\ call_stack = <<>>
    /\ accel = "idle" /\ launches = <<>>

--------------------------------------------------------------------------------
(* The instruction at the active lanes' PC, and its operands. *)
OpName == [n \in 0 .. 63 |-> IF \E o \in DOMAIN Op : Op[o] = n
                             THEN CHOOSE o \in DOMAIN Op : Op[o] = n ELSE "NOP"]
ActivePc == pc[Min(active_mask)]
Instr == Decode(prog_mem[ActivePc + 1])
Is(op) == OpName[Instr.op] = op

(* With one thread to a block, R29 is the block's number. *)
Reg(i, r) ==
    CASE r = 0 -> 0
      [] r = 29 -> IF lanes = 1 THEN BlockIdx ELSE i
      [] r = 30 -> BlockIdx
      [] r = 31 -> lanes
      [] OTHER -> regs[i][r]

Address(i) == Wrap(Reg(i, Instr.rs1) + SignedIn(Instr.imm, ImmBits))
Loaded(a) == IF a = CTRL_BASE + 8 THEN (IF accel = "done" THEN 1 ELSE 0) ELSE Read(mem, a)

WriteData(i) ==
    CASE Is("LDR") -> Loaded(Address(i))
      [] Is("CONST") -> Instr.imm
      [] OTHER -> Alu(OpName[Instr.op], Reg(i, Instr.rs1), Reg(i, Instr.rs2), Reg(i, Instr.rs3))

WritesBack == Instr.rd \in 1 .. 28
    /\ OpName[Instr.op] \notin {"NOP", "CMP", "BR", "STR", "RET", "SYNC", "CALL", "SRET"}

Registers ==
    regs' = IF ~WritesBack THEN regs
            ELSE [i \in Lanes |-> IF i \in active_mask THEN [regs[i] EXCEPT ![Instr.rd] = WriteData(i)]
                                  ELSE regs[i]]

(* Every lane's flags are set, parked or not. *)
SetFlags ==
    nzp' = IF Is("CMP") THEN [i \in Lanes |-> Compare(Reg(i, Instr.rs1), Reg(i, Instr.rs2))] ELSE nzp

(* A store to START clears DONE and starts the accelerator. *)
Store ==
    IF ~Is("STR") THEN UNCHANGED <<mem, accel, launches>>
    ELSE LET stored == [a \in {Address(i) : i \in active_mask} |->
                           Reg(Min({i \in active_mask : Address(i) = a}), Instr.rd)]
         IN  /\ mem' = stored @@ mem
             /\ IF CTRL_BASE + 7 \in DOMAIN stored
                THEN /\ accel' = "busy"
                     /\ launches' = Append(launches, [k \in 1 .. 7 |-> Read(mem, CTRL_BASE + k - 1)])
                ELSE UNCHANGED <<accel, launches>>

--------------------------------------------------------------------------------
(* Where the lanes go. *)
Taken == {i \in active_mask : Is("BR") /\ nzp[i] & Instr.nzp # 0}
Diverges == Taken # {} /\ Taken # active_mask

NextPc(i) ==
    CASE i \notin active_mask -> pc[i]
      [] Is("SRET") -> IF call_stack = <<>> THEN 0 ELSE Head(call_stack)
      [] Is("CALL") \/ i \in Taken -> pc[i] + Instr.branch_offset
      [] OTHER -> pc[i] + 1

Mask ==
    CASE Diverges ->
            /\ active_mask' = Taken
            /\ warp_stack' = IF Len(warp_stack) < WarpDepth
                             THEN <<active_mask \ Taken>> \o warp_stack ELSE warp_stack
      [] Is("SYNC") ->
            /\ active_mask' = IF warp_stack = <<>> THEN Lanes ELSE Head(warp_stack)
            /\ warp_stack' = IF warp_stack = <<>> THEN <<>> ELSE Tail(warp_stack)
      [] OTHER -> UNCHANGED <<active_mask, warp_stack>>

Calls ==
    call_stack' = CASE Is("CALL") /\ Len(call_stack) < CallDepth -> <<ActivePc + 1>> \o call_stack
                    [] Is("SRET") /\ call_stack # <<>> -> Tail(call_stack)
                    [] OTHER -> call_stack

(* One instruction other than RET, for all active lanes. *)
Step ==
    /\ ~Is("RET")
    /\ Registers
    /\ SetFlags
    /\ Store
    /\ pc' = [i \in Lanes |-> NextPc(i)]
    /\ Mask
    /\ Calls
    /\ UNCHANGED <<prog_mem, lanes>>

AccelFinishes ==
    /\ accel = "busy"
    /\ accel' = "done"
    /\ UNCHANGED <<prog_mem, lanes, mem, regs, nzp, pc, active_mask, warp_stack, call_stack, launches>>

================================================================================
