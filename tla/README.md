# TLA+ models of the 32-bit Tiny GPU

Models, model checks and proofs of the control logic of this repository's GPU
and of its compiler: how a kernel launch is spread over the cores, how a core
sequences its instructions and its diverging lanes, how the lanes share one data
memory, and how `axelcc` gets from a source text to the code those lanes run.
Paths below are those of the repository (`Src/`, `fpga/`, `axelcc/`).

The GPU is synchronous hardware with one clock, so in its modules **one step is
one rising clock edge** of everything a module describes: a module gives each
register its next value from the values before the edge (`always_ff`), and
operators without primes are the wires (`assign`, `always_comb`). What is
nondeterministic is what lies outside: the lanes' accesses, when the memory
answers, how long a core runs, what the host writes. The compiler is a
sequential program; there a step is one of its stages, and afterwards one
instruction of the block that runs what it compiled.

## 1. Inventory of the system

| part (source) | state | operations | talks to | what is hard | what makes it correct |
|---|---|---|---|---|---|
| load/store unit (`Src/lsu`) | IDLE/WAITING, request port, done, word read | accept an access, take the answer | scheduler (`core_en`, `done`), controller | request and response are one-cycle pulses | no access is lost; it takes its own answer |
| memory controller (`Src/memory_controller`) | one buffered request per lane, round-robin pointer, lane in flight, request port, response registers | buffer pulses, grant, hold, respond | LSUs, data memory | pulses while busy; a payload that is being written while it is granted; memories that answer late or twice; a pointer cut to its width | each access performed once, its word to the right lane; no starvation |
| scheduler (`Src/scheduler`) | state, strobes, active mask | FETCH, DECODE, REQUEST, WAIT, EXECUTE, UPDATE, DIVERGE, SYNC_POP | every part of the core, dispatcher | strobes are registers and act a cycle later than the state that sets them | every block ends; no instruction starts before the last one's accesses are over |
| fetcher (`Src/fetcher`) | IDLE/WAITING, request, instruction, done | request, complete | scheduler, program memory | `fetcher_en` is still up in the cycle of `done`: every fetch asks twice | the decoder sees the word at the PC |
| core (`Src/core`, with `Src/pc`, `Src/warp_stack`, `Src/call_stack`, `Src/decoder`) | instruction, done latch, PC and flags per lane, two stacks | divergence, reconvergence, CALL, SRET, block reset | all of the above | lanes on different paths share one instruction register, one call stack and one RET | each lane runs the path it would run alone |
| dispatcher (`Src/dispatcher`) | running, next block, completed blocks, start bit and block number per core | launch, count finished blocks, hand out blocks, end | cores, control registers | several cores finishing in one cycle; live block numbers; a core that restarts by itself | `kernel_done` only after every block was run; the kernel ends |
| control registers (`Src/device_control_register`), host (`Src/Top_level_GPU/tests/common.py`) | blockDim, num_blocks, start pulse | write, poll | host, dispatcher | start written twice; `kernel_done` of the kernel before | the host takes neither `kernel_done` nor the cycle count for its own kernel's when it is not |
| top level (`Src/Top_level_GPU`) | accel_inflight, cycle counter, accelerator acknowledge | address decode of the accelerator's registers, response mux | cores, accelerator, host | all cores' accesses in skewed cycles | no access is acknowledged for another one |
| matmul accelerator (`Src/matmul_accelerator`) | registers, FSM, loop counters, accumulator | MMIO read and write, C = A x B | top level, its own memory port | zero sizes; START while busy | stores the product, then DONE |
| register file, ALU (`Src/registers`, `Src/alu`) | 32 registers per lane | read, write, arithmetic | decoder, LSU, flags | 32-bit wrap, saturation | pure functions |
| compiler front end (`axelcc`: lexer, parser, sema) | position in the text, syntax tree, a symbol table per kernel and func | lex, parse, check | source text, code generator | tokens that begin other tokens; precedence and optional parts; register windows that depend on there being funcs | reads what was written; turns down the ill-formed programs, with one omission (section 6), and no others |
| code generator (`axelcc`: codegen, emit) | instruction buffer, temporaries, patch lists, error flag | fold, evaluate, lay out if/for/CALL, patch | sema's tables, the writer | temporaries given back too early; branches emitted before their targets; layouts that the hardware must reconverge | the code does in every thread what the source says |
| writer and loader (`axelcc/src/writer.c`, `assembler/tools/axelbin.py`) | - | write and read the `.axelbin` file | file, host | byte order, header | the words arrive |
| assembler (`assembler`), runtime (`pyaxel`) | - | encode; write files, run the simulator | - | - | - |
| FPGA top (`fpga/gpu_fpga_top.sv`) | boot FSM, timer, capture, UART | launch once, send the results | GPU, block RAMs | two clock domains | sends what the kernel wrote |

`PROJECT.json` lists the same parts with what is modelled of each, and the
hazards with the line at which each bites and the properties that cover it.

## 2. Modules

```
CoreParams    parameters shared by the modules of one core
Lsu           the lanes' load/store units              (Src/lsu/lsu.sv)
MemController the arbiter                              (Src/memory_controller/mem_controller.sv)
MemPath       = Lsu + MemController + data memory, wired as in Src/core/core.sv;
                the core is open: any lanes may be enabled on any edge
LaneMemory    abstract: an atomic memory, one access at a time per lane
MemOrder      = MemPath + a history of the order of grants
Scheduler     the instruction sequencer                (Src/scheduler/scheduler.sv)
Fetcher       fetch unit and program memory            (Src/fetcher/fetcher.sv)
CoreHandshake abstract: what the dispatcher sees of a core
Core          = MemPath + Scheduler + Fetcher + masks, PCs, stacks (Src/core/core.sv,
                Src/pc, Src/warp_stack, Src/call_stack, Src/decoder)
Simt          = Core + a history that runs every lane alone
Layout        the programs the hardware can run for all lanes together: the shape
                codegen.c gives them (a hypothesis of theorems)
Dispatcher    the block dispatcher                     (Src/dispatcher/dispatcher.sv)
Launch        = Dispatcher + control registers + cycle counter + host + cores as CoreHandshake
Relaunch      = Launch with the host launch_kernel, reset=False
MatmulAccel   the accelerator and its matrix memory    (Src/matmul_accelerator/matmul_accelerator.sv)
AccelMmio     = MatmulAccel + address decode, acknowledgement, accel_inflight
                (Src/Top_level_GPU/top_level_gpu.sv) + cores as access sequences
ScanProof, MemPathProof, LaneMemoryProof, MemOrderProof, CoreProof, SimtProof,
LaunchProof, AccelMmioProof   theorems and proofs

Ast           tokens and the syntax tree               (axelcc/src/lexer.h, ast.h, ast.c)
Lexer         text to tokens                           (axelcc/src/lexer.c)
Parser        tokens to tree                           (axelcc/src/parser.c)
Sema          symbol tables and rejections             (axelcc/src/sema.c)
Isa           instruction words, fields, ALU           (axelcc/src/emit.c, Src/decoder, Src/alu)
Codegen       tree to instruction words                (axelcc/src/codegen.c)
Warp          a block on a core, an instruction at a time, with data
                (Src/core, Src/registers, Src/pc, Src/warp_stack, Src/call_stack)
AxelLang      abstract: the language without the compiler (its grammar written down,
                when a program is well formed, what a thread does)
Axelcc        = Parser + Sema + Codegen + writer + loader + Warp
                (axelcc/src/main.c, writer.c, assembler/tools/axelbin.py)

MCMemPath, MCMemOrder, MCSimt, MCLaunch, MCRelaunch, MCAccelMmio, MCAxelcc
              instances for TLC
```

How state corresponds: a register that exists once per lane (or core) is a
function of the lane, or, if it has one bit, the *set* of lanes in which it is 1
(`lsu_waiting`, `pending`, `core_start`, `active_mask`). Variables have the
source's names, with a prefix where two sources use the same one
(`lsu_req_valid`, `mem_req_valid`). Each state of a two-state LSU or of the
controller's FSM is an operator (`Accepted`, `Retired`; `Grant`, `Quiet`,
`Respond`, `Hold`); the scheduler has one action per `case` arm.

Abstractions, by module:

* **MemPath.** Memory performs a request at any edge at which the request is on
  the port now or was in the cycle before, late if it likes. This includes the
  testbenches' memory, which answers at once, and the FPGA's registered block
  RAM, which answers one cycle later and therefore once more after the request
  was withdrawn; a repeated write really is done again. Registers that reset
  leaves alone (`write_data`, `read_write_switch`) start with any value.
* **Core.** An instruction is its decoded control signals. Register values are
  gone; a CMP carries the flag it produces in each lane. That is sound as long
  as lanes do not compare values that depend on what the properties talk
  about, and every combination of outcomes is enumerated. `off` is what
  a taken branch or a CALL adds to the PC (`branch_offset`, sign-extended). The saved sync PC
  of the warp stack is written but read by nothing in the source and is left
  out. `core_start` follows what Dispatcher promises (`StartIsHeld`).
* **Simt.** `ref_pc`, `ref_nzp`, `ref_stack` run each lane alone on the same
  program, one instruction whenever the core says that it executed one for that
  lane. They never influence the core.
* **Launch.** A core is `CoreHandshake`, which `Core` is shown to implement
  (`ImplementsHandshake`): it begins when idle with its start bit up, runs any
  time, and ends with one cycle of `block_done` in which it is idle already.
  The host follows `Src/Top_level_GPU/tests/common.py`: `num_blocks`, `start`
  for two cycles (`run_kernel`) or one (`launch_kernel`), poll, and a reset
  before the next kernel. The hardware also takes a launch without a reset; in
  `Launch` a host that does so waits for the cores to come to rest
  (`QuietNextKernel`) and holds start for two cycles. `Relaunch` has the host
  the repository offers for it instead, `launch_kernel` with `reset=False`:
  it goes on at once, writes start once, and polls a cycle earlier. Of the cycle
  counter only whose cycles it holds is kept. `grid` remembers the size of the
  kernel that was launched last.
* **MatmulAccel, AccelMmio.** Every state of the accelerator is an action; words
  are integers of either sign, and a word of A or B is split into four signed
  bytes as the code does it. Its matrix memory answers a request at once or any
  time later. A core is the access sequence of `axelcc`'s `mmio_matmul`: each
  thread stores seven parameters and START and then loads DONE until it reads 1.
  A request stays on the core's port until it is acknowledged (which `MemPath`
  does), and any time may pass between two accesses, so cores lead and lag as
  they like. Each thread's poll is repeated on its own; the branch that
  carries the threads of a core round the poll together is not modelled, and
  neither are loads of registers other than DONE. `start_mem` remembers what
  the matrix memory held at the last START that was heeded.

* **Ast, Lexer, Parser.** A text is a sequence of *pieces*: a keyword, a
  letter or word of a name, a digit, a punctuation sign, a blank, a line end, or a foreign
  character. The lexer joins pieces to tokens with the code's own rules (longest
  match, keyword or name, comments), so `//`, `<<`, `<=`, `++` and names that
  continue a keyword are there; spelling is not. The parser has one operator per
  production. A failed one returns position 0, which is what the code's
  `had_error` comes to, as the first error ends the compilation. Trees are
  records; positions, `malloc` and messages are gone.
* **Sema.** `KernelSyms` maps the names declared so far to their registers. Every
  error makes the program rejected; which message is printed is left out. Like
  `stmt_has_call`, `stmtlist_has_call` does not look at the arguments of `mmio_matmul`.
* **Isa.** A word is a pair of its upper and lower half, because TLC's integers
  have 32 bits. Fields are packed and unpacked as in `emit.c` and `decoder.sv`. The
  data width is a parameter: `WordBits`, `ImmBits` (immediates) and `ByteBits` (the lanes
  of DOT4, EXP8 and CLAMP), 32, 16 and 8 in the source.
* **Codegen.** `CGen` is a record: the code so far, the next temporary, the
  call sites to patch, the error flag. `try_fold_const`, the forms of immediate
  operands, the order of evaluation, the inverted branches of `if` and `for`, the
  patching of branches and calls, parameters loaded from `PARAM_BASE`, and the
  check of the instruction limit are as in the code.
* **Warp.** The same machine as `Core`, an instruction at a time, with
  registers, flags, data memory and the ALU, and the accelerator reduced to idle,
  busy, done and the parameters of each start. Of two lanes that store to one address the lowest
  is taken; the programs of the run have no such race. Registers start as
  `Leftover`: a block finds what the one before left.
* **AxelLang** is what `Axelcc` is checked against. It is written from the
  language, not from the compiler: `Written` lists the tokens of a tree with parentheses only
  where precedence asks for them; `WellFormed` quantifies over declarations and
  uses (and lets a call among a func's `mmio_matmul` operands pass, as `sema.c` does, section 6); `Threads` interprets a program for each thread by itself.
* **Axelcc.** One action per stage of `main`, with its way out (`syntax_error`,
  `sema_error`, `codegen_error`), then loading, one action per instruction, and the
  accelerator's finishing at any time. `--ast` stops after parsing. `unit` is what the stage before handed over.

Some operators are headed *Fault*. They are variants of a modelled operator
with one plausible mistake (a dropped guard, a pointer that is not cut, a latch
cleared at the wrong moment), are used by no specification, and document which
mistake each property catches: put in place of the operator they vary, they make
the property fail. `PROJECT.json` pairs them under "mutants".

## 3. Runs

| run | instance | properties | what it shows |
|---|---|---|---|
| `mem_path` | 2 lanes, 2 addresses, 2 words, 5 accesses | TypeOK, OnePlacePerAccess, ReadsReturnMemory, ImplementsLaneMemory | No request pulse is lost or buffered twice; words reach the lane that asked and are what memory holds; the path implements an atomic memory. |
| `mem_order` | 4 lanes, 1 access | NoLanePassedTwice, EveryAccessCompletes | While a lane waits nobody is granted twice; every access completes. |
| `core_slow_fetch` | 2 lanes, straight programs, program memory 2 cycles late | DecodesInstructionAtPc: **violated** | finding 1 |
| `simt` | 3 lanes (rr_ptr of 2 bits), program memory 0 or 1 cycle late, all straight programs of 3 NOP/LDR/STR, compiled if/else, calls and loops with all outcomes | CoreTypeOK, DecodesInstructionAtPc, NoAccessOutlivesInstruction, ActiveLanesShareThePC, LanesRunTheirOwnPath, NoLaneCutShort, StacksBalanced, BlocksEnd, ImplementsHandshake | The fetch and WAIT handshakes of consecutive instructions never take an answer or a completion that belongs to another one; divergence, calls in either arm and reconvergence give every lane its own path; blocks end, leave both stacks empty for the next, and look to the dispatcher as Launch says. |
| `simt_nested` | 3 lanes, a func with an `if` called from a divergent `if` | ActiveLanesShareThePC: **violated** | finding 2 |
| `launch` | 3 cores, grids of 0 to 5 blocks | LaunchTypeOK, BlocksAccounted, DoneMeansEveryBlockRan, DoneIsThisKernels, CyclesAreThisKernels, StartIsHeld, LaunchEnds | Counting, hand-out and completion are right also when cores finish together, restart by themselves, or the grid is empty; a host that polls as `run_kernel` does takes neither `kernel_done` nor the cycle count of the kernel before. |
| `launch_once` | 2 cores, grids of 0 to 2 blocks | EachBlockRunsOnce: **violated** | finding 3 |
| `launch_again` | 2 cores, grids of 0 to 2 blocks, `launch_kernel` with `reset=False` | DoneMeansEveryBlockRan: **violated** | finding 4 |
| `accel_mmio` | 2 cores, 1 thread, 2x1 with K = 8 and 1x2 with K = 4 | DoneMeansProduct, KernelDoneMeansWritten, PollEnds | DONE means the product of the parameters START found, kernel_done means that all of it is written, and whoever polls gets on, whatever the cores' lead over each other. |
| `accel_skew` | 2 cores, 4 threads | RunsAsConfigured: **violated** | finding 5 |
| `axelcc` | about 400 programs and 2100 damaged texts, 1 or 2 threads | AxelccTypeOK, ReadsBackWhatWasWritten, NothingLostInReading, AcceptsTheWellFormed, CompiledMeansSource, StacksSuffice, EveryKernelEnds | From text to the end of the block: what was written is read, nothing is lost in reading, the ill-formed programs, save those with a call among a func's `mmio_matmul` operands, and no others are turned down, and the code leaves in memory what each thread alone would have left, on stacks with room for one entry. |
| `axelcc_call` | an operand computed before a CALL in the same expression | CompiledMeansSource: **violated** | finding 6 |

Bounds, and why they are enough:

* *Lanes.* Two lanes give every pairing of a lane that is served with one that
  asks; with two addresses and two words a lane can overwrite what the
  other is reading. Ordering needs a third to be passed over; four is the
  source's `THREADS_PER_CORE`. Three lanes make `PtrMod` (4) larger than the
  number of lanes, so that `rr_ptr` can stand past the last lane. The theorems
  of section 5 remove this bound, and those on cores, blocks, addresses and
  words, from every safety property of the runs of the hardware.
* *Programs.* Three instructions before RET give every ordered pair of
  neighbours, with a predecessor; hazards of stale latches or answers are
  between neighbours. Blocks restart for ever, so RET followed by each first
  instruction occurs as well. The SIMT programs are two `if`s and a call one after the other,
  so that what the first leaves on a stack would be met by the second; a loop
  around an `if` with a call in one arm and a load in the other; and an `if`
  that calls a func with a loop. Each time a CMP comes to be executed it comes
  out in any way it can, so a loop goes round any number of times, with another
  divergence each time. TLC also checks that each program is laid out as the
  theorems about Simt suppose (`ProgramsLaidOut`).
* *Stacks.* In the runs of `Core` their depths are the source's defaults, 4 and 2.
  `axelcc` gives both a depth of one, which the code of a well-formed program
  fills (an `if` in the kernel that diverges, a call of a func) and must not exceed; on the
  default stacks it then has room to spare. The memory path's `rr_ptr` past the
  last lane needs a number of lanes that is no power of two: `simt` has three,
  `mem_path` and `mem_order` do not meet it, and the theorems cover every number.
* *Cores and blocks.* Three cores so that two can finish in one cycle while a
  third runs; five blocks so that every core can get a second one and the last
  hand-out is short. Runs have any length.
* *Accelerator.* Two cores are a higher and a lower priority. 2x1 with two
  chunks per cell and 1x2 with one make each of the three loops go round, and
  the bytes have both signs. One thread per core suffices for the run that
  passes. In `accel_skew` a core must overtake another by one register
  without the accelerator being started by the other's first thread, which needs
  several threads. `ExtraBlocks` is 0 in both: a core repeats the sequence
  only to be acknowledged again, and START while busy already occurs with two
  cores. The two invariants also hold with one extra block (3.3 million states),
  which is too large for the liveness property.

* *Launches.* A host of `launch` may launch, with or without a reset, for ever.
* *Source programs* (`MCAxelcc`). Expressions: every pair of the ten
  arithmetic operators nested either way, under each unary operator, with
  operands that are variables, literals and literals to be folded; every
  intrinsic; one expression that takes many temporaries, and one that takes eight and
  one that takes nine. Control: every comparison with every outcome in two threads, loops of
  0 to 3 rounds, loops in ifs, ifs in loops, loops in loops. Calls from either arm of an `if`, from loops,
  for arguments, of funcs with a loop or an `if`. Up to two `mmio_matmul`. Programs
  just inside and just outside each limit of `sema.c` and of the instruction
  buffer. Each is written with blanks only where needed, between all tokens, or
  with comments. For the damaged texts, every piece of two programs that contain every
  construct is dropped, doubled, exchanged with the next, or replaced by a
  foreign character; these are only parsed.
* *Widths.* 16-bit words with 11-bit immediates and 4-bit bytes (32, 16 and
  8 in the source; TLC's own integers have 32 bits) keep a word four bytes
  long, folded values wider than an immediate, and results that wrap. The instruction
  limit is 64 instead of 256, so that programs on either side of it stay
  small. `Leftover` and the data are numbers that no program computes by itself.

What the programs of `axelcc` leave out, since it is meant to be so or has no
meaning: two threads that store to one address; division by zero and
constant shifts by the width or more; literals that do not fit a
`CONST`; folding a division of negative literals, which C rounds differently
from the unsigned DIV; a variable declared in one arm of an `if` and used after it;
bitwise operators as in C (here they bind like `*`, as `parser.c` has it). And
since hardware and compiler do not support it: loop bounds that differ between
lanes (hazard at `codegen.c:544`), `mmio_matmul` in blocks of more than one thread
(`codegen.c:620`), `return` in an arm that only some lanes take, `return expr;` in a kernel or a bare
`return;` in a func (each is compiled as the other's, `codegen.c:571`), running a func that
calls from a `mmio_matmul` (compiled, but called by no kernel; section 6), and a func with
an `if` called in such an arm, except where all lanes agree (that is `simt_nested`).

Deadlock is checked in every run except `axelcc` and `axelcc_call`, where
compilation, or the block, comes to its end.

## 4. Fairness

`MemoryFairness` and `SimtFairSpec` assume that the clock keeps running
(`WF(Next)`, `WF(SimtTick)`) and that a request that stays on the memory port is
answered eventually: `mem_controller` holds its request and has no timeout, and
both memories of the repository answer within one cycle. `SimtFairSpec` assumes
besides that a loop is left sometime (`SF(LoopLeft)`): a program whose loops do
not reach their bound never ends, whatever the core does. `LaunchFairSpec`
assumes the clock and that each core's run ends, which for terminating programs
is `BlocksEnd` of `simt`. The host may idle for ever; `LaunchEnds`
speaks only of launches it made. `MmioFairSpec` assumes the clock, that the matrix memory
does not owe an answer for ever (both memories of the repository answer within a
few cycles), and that a core with accesses left comes to its next one: between
them lie only instructions that end (`BlocksEnd`). `AxelccSpec` assumes that the
block goes on to its next instruction (`WF(Execute \/ Halt)`, again `BlocksEnd`)
and that the accelerator ends what it was given (`WF(Finish)`: its FSM has
only counted loops and waits for memory); nothing is assumed of the compiler. No fairness is assumed of
choices inside the design: it has none.

## 5. Proofs

Proved with TLAPS. The invariants of the runs' finite instances hold, by these
theorems, for every number of lanes and cores, every width of pointer that can
hold a lane number, every set of addresses and words, every sequence of accesses
and every grid; `PROJECT.json` pairs each theorem with the property it states.

| module | theorems (property) |
|---|---|
| `MemPathProof` | `TypeCorrect` (TypeOK), `NoAccessLost` (OnePlacePerAccess), `ReadsCorrect` (ReadsReturnMemory) |
| `LaneMemoryProof` | `PathImplementsLaneMemory` (ImplementsLaneMemory) |
| `MemOrderProof` | `WaitingIsBounded` (NoLanePassedTwice) |
| `CoreProof` | `DecodesRightInstruction` (DecodesInstructionAtPc), `AccessesEndInWait` (NoAccessOutlivesInstruction), `CoreKeepsHandshake` (ImplementsHandshake), `CoreUsesPath` (`CoreSpec => Spec` of MemPath) |
| `SimtProof` | `OnePcForAll` (ActiveLanesShareThePC), `EachLaneRunsItsPath` (LanesRunTheirOwnPath), `RetEndsEveryLane` (NoLaneCutShort), `BlocksLeaveNoStack` (StacksBalanced), `CoreTypeCorrect` (CoreTypeOK) |
| `LaunchProof` | `LaunchTypes` (LaunchTypeOK), `EveryBlockAccounted` (BlocksAccounted), `KernelDoneIsTrue` (DoneMeansEveryBlockRan), `HostSeesItsOwnDone` (DoneIsThisKernels), `HostReadsItsOwnCycles` (CyclesAreThisKernels), `StartBitIsHeld` (StartIsHeld) |
| `AccelMmioProof` | `KernelDoneIsAfterTheMatmul` (KernelDoneMeansWritten), `DoneIsAfterTheProduct` (DoneMeansProduct), `AccelWritesOnlyC` |

Assumptions on constants: at least one lane (`NAssumption`) and one core
(`NumCoresAssumption`), a pointer register that can hold every lane number and
more than one value (`PtrModAssumption`), the reset value 0 is an address and a
word (`WordAssumption`), lanes are given accesses (`IssuedAssumption`), stack
depths, latencies and the bound on the grid are numbers (`DepthAssumption`,
`ProgLatencyAssumption`, `MaxBlocksAssumption`), a matmul's three matrices are
in memory and C is not on A or B, M and N are at least one and K at least four
(`ConfigsAssumption`), memories are functions of addresses (`MemAssumption`). Hypotheses of single theorems are
named below.

**The memory path** (`MemPathProof`). OnePlacePerAccess and ReadsReturnMemory are not inductive. Whether
a word is right depends on what is on the port and on what the memory may
repeat, so `Inv` adds: the port carries the buffered request of the lane in
flight (`PortCarriesInFlight`); buffer and lane agree on the direction of the
access (`DirectionAgrees`); an answer seen while waiting is for the lane in
flight and still true of memory (`AnswerIsForInFlight`); a write that was
answered is in memory, so that doing it again is harmless
(`AnsweredWriteIsDone`). Each conjunct has its own lemma (`NextOnePlace`,
`NextPort`, ...) over one step of `Next`, and `NextInv` joins them.
`ScanProof` supplies what the round-robin scan returns: some requesting lane if
there is one, and a pointer that stays in range although it is cut to its width.

**The refinement** (`LaneMemoryProof`) maps an access to "asked" while it is a pulse or buffered, and to
"answered" from the edge at which memory gives the answer that the controller
will take. That is the edge at which `Perform` happens; the surplus answer of a
registered memory comes when the controller is idle, or rewrites a word that is
already there. `TickImplements` says that each edge is one abstract step.

**The order of grants** (`MemOrderProof`). `Place(p, t)` is how far behind the
pointer p the scan comes to lane t, and `NextPtr` the pointer of the next scan.
The invariant (`PassedAreBehind`) is that a lane that was granted while i waits
has a larger place than i in every scan to come: the scan takes the least place
that asks (`ScanTakesFirst`), and moving the pointer behind the granted lane
brings i nearer without changing who is behind it.

**The core** (`CoreProof`). Every instruction is fetched twice, because
`fetcher_en` is still up in the cycle of `done`. What keeps the second answer
from being taken for the next instruction is a matter of cycles, so `CoreIInv`
says which strobes can be up in which state (`StrobesFit`), that at most one
request is under way, with the core's PC on it (`OneFetch`), and in which states
the second one is over (`SecondFetchEnds`): in all from which the PC moves. For the
WAIT handshake it says that in WAIT each active lane is waiting, about to be
counted, or counted, and only one of them (`AccessesCounted`). Both theorems
suppose `ProgLatencies \subseteq {0, 1}`, the two memories that are built;
with 2 the property is false (finding 1). Programs are arbitrary, and so is the
order in which the stacks are used. `CoreKeepsHandshake` and `CoreUsesPath` suppose
nothing of the latency. `CoreUsesPath` makes the theorems about `MemPath`
theorems about a core; it supposes that a plain load and a plain store are among
the accesses considered.

**Divergence and calls** (`SimtProof`). Hardware with one PC register to fetch from, one
call stack and one RET cannot give every lane its own path for every program
(finding 2), so the theorems have a hypothesis about the programs: each can be
*laid out* (`LaidOut` in `Layout`). A layout says of every address whether it is
in an arm of an `if`, is its SYNC, or neither; how many returns are outstanding
there; and what is known of the flags. `LaidOutAt` says, instruction by
instruction, which neighbours that allows. Straight code, loops whose exit is
decided alike in all lanes, `if`s that do not contain one another, and calls
from anywhere, to any depth the call stack has room for, of funcs without an
`if` can be laid out. That is the shape `codegen.c` gives a program that
`sema.c` accepts, save for what section 3 lists as left out and for a func with
an `if`; TLC checks it of the programs of `MCSimt` (`ProgramsLaidOut`), it is not
proved of the code generator. A CMP carries every outcome its registers may have and takes one
of them each time it is begun; a loop's bound is *decided alike* if each outcome
it may have is the same in all lanes. The theorems so hold for any number of
rounds, also for loops that never end. Further hypotheses: latency
up to 1, and room for one mask on the warp stack.

The invariant (`SimtIInv`) has to speak of the lanes as they will be when the
last instruction has taken effect, because history, PCs and mask move on
different edges (UPDATE, one later, two later): `MaskThen`, `WarpThen`,
`CallsThen`. Then: all active lanes are at one place x with the same returns c
outstanding, as if each ran alone; the returns are as deep as the layout says
(`ReturnsFit`); and a lane that is not active is `Parked`, either behind the
branch of the one `if` that is open, its mask the only one on the warp stack,
while the others are in the `then` arm; or behind the SYNC, while the others are
in the `else` arm. `FlagsFit` carries what is known of the flags, which branches
need: CMP sets the flags of parked lanes too, so between two lanes' comparisons
the core's flags and a lane's own are different things, and only behind a lane's own CMP
equal. Edges on which no instruction ends change nothing (`QuietEdge`); the edge
of UPDATE has one lemma per kind of instruction (`PlainCase`, `CmpCase`,
`BranchCase`, `ForkCase`, `SyncCase`, `CallCase`, `SretCase`). `CoreTypeCorrect`
then follows: no PC leaves the program and no stack overflows because of where
lanes can be, not because of a width.

**The launch** (`LaunchProof`). BlocksAccounted alone is not kept by a step on which
several cores end and several are assigned. `LaunchIInv` adds that a core is
without a block only when the grid is used up, and holds one that was handed out
(`HandedOut`); that a block that was handed out and is held by no core has run
(`HeldOrRun`); that a running core has seen its own block number and no other,
and one that says `block_done` has run its block (`RunsTrueToBlock`), which is
what keeps the phantom run of finding 3 from being counted; that `kernel_done`
stands for a complete grid (`DoneIsComplete`); and what the host may rely on at
each point of its sequence (`HostSequence`). `AssignedTakesTheNext`
is what the assignment to all free cores in one cycle comes to: the next
blocks, each once, none skipped; it rests on `PlaceRanks`, that the number of free
cores below one is its rank.

**The accelerator** (`AccelMmioProof`). `kernel_done` waits for `accel_inflight`.
`MmioIInv`: the matrix memory owes or shows an answer only in the states that wait for it
(`OneRequest`), and a busy accelerator shows no DONE and keeps the in-flight bit
(`BusyIsInflight`), so that no read of DONE takes it down.

That DONE means the product rests on `RunIInv`, which says how far a run is: which
cells are `Stored` (those before the current one in the order of the loops, and
the current one from the answer to its store on); that memory has the product's
word at these and START's word everywhere else (`StoredRight`); that the operand
registers and the answers under way are START's words (`OperandsRight`), which is
so because C is not on A or B (`OperandsKept`); that `acc` is the sum of the
chunks before the current one, and the store under way carries the whole sum
(`SumRight`). It is kept by one lemma per state of the machine
(`LoadAStep`, ..., `NextIJStep`, `StartStep`). Two things come from
arithmetic: no two cells share an address (`CellOfAddr`), and a cell's sum is
taken chunk by chunk (`SumsStep`). `Sums` is a recursive function, so the latter needs
that such a function exists; `RunningSum` builds it up to n with `UpTo`,
which gets the induction from the well-foundedness of the subsets of a finite
set. Only runs that START began with the kernel's own parameters are claimed; the
others are the matter of finding 5.

Only model-checked: all liveness (`EveryAccessCompletes`, `BlocksEnd`,
`LaunchEnds`, `PollEnds`, `EveryKernelEnds`), which the prover does not reach
under fairness; and all of the compiler, whose parser, checker and code
generator are recursive over their trees. `Relaunch` has only a finding.

## 6. Findings

1. **A program memory with two cycles of latency makes the core skip
   instructions** (`core_slow_fetch`). The scheduler keeps `fetcher_en` up in
   the cycle in which `fetcher.sv` reports `done`, so the idle fetcher asks for
   the same PC again. With 0 or 1 cycle the second answer comes back before the
   next fetch can mistake it (`simt`); with 2 it is taken for the next
   instruction. `Src/fetcher/README.md` puts no bound on the latency.
2. **An `if` inside a func that is called from a divergent `if`**
   (`simt_nested`). `sema.c` rejects only an `if` written inside another. The
   inner SYNC pops the outer entry, or activates all lanes if the stack is
   empty; the active lanes then have different PCs, which
   `Src/call_stack/README.md` says never happens.
3. **A core runs its last block again** (`launch_once`). The start bit is a
   level that falls one cycle after `block_done`, and the core is in IDLE in
   the `block_done` cycle. The phantom run is never counted
   (`DoneMeansEveryBlockRan` holds, because the dispatcher does not listen to a
   core it has not assigned), but its stores are performed.
4. **A kernel launched without a reset may end before it has run**
   (`launch_again`). The phantom run of finding 3 may still be going on when the
   host sees `kernel_done`. If the host launches the next kernel then, the
   dispatcher counts the end of the phantom run as the end of the new block it
   has just assigned to that core. In the same trace the host, which writes start once and
   polls in the next cycle, has already returned with the `kernel_done` of the
   former kernel. `launch` shows that nothing goes wrong once all cores are at
   rest and start is held for two cycles. No test of the repository relaunches
   without a reset.
5. **A matmul with a parameter that was never written** (`accel_skew`). One
   core's write is performed per cycle, and every core that asks is
   acknowledged. A core that is one register ahead of a lower one loses its
   writes to it and then starts the accelerator before the lower core has
   written that register; writes are not heeded during a run.
   `top_level_gpu.sv` says that it does not matter whose write is taken, which
   is so only while the cores are in step.
6. **An operand computed before a CALL is lost** (`axelcc_call`). A func uses the
   temporaries R20 to R27 from the first on, and so does its caller; nothing
   saves them over a CALL. `mem[threadIdx + 8] = x * 2 + f(threadIdx)` stores
   `f(threadIdx)` plus what the func left in R20; with the operands the other way
   round it is right. `sema.h` says that sharing them is safe because only one
   call is in flight. The programs of `axelcc` make their calls before they
   compute anything else in an expression.

One more disagreement has no run of its own, as `AcceptsTheWellFormed` states it.
`sema.h` and the comment in `sema_check` say that no func calls another, since all share
one register window; but `stmt_has_call` has no case for `mmio_matmul`
(`sema.c:70`), so that `func int f(int x) { mmio_matmul(f(x), 1, 1, 1, 1, 4, 0); return x; }`
is accepted. The property allows for these programs and for no other ill-formed
ones: of the funcs of `MCMatmulCalls` the two that call an existing func with the
right arguments are let through, the three others are turned down.

## 7. Not modelled, and the plan

Modelled only in part, or next, in this order:

1. *AccelMmio*: the poll loop as the threads of a core run it together (those
   that saw DONE first are parked until the others have), loads of the other
   registers (which also end `accel_inflight`), zero sizes and a K that is no
   multiple of four.
2. `FpgaBoot`: boot FSM, timer, capture and hand-over to the UART.
3. *Composition*: `Warp` as an abstraction of `Core` with data.
4. *Proofs*: layouts for funcs that
   contain an `if` and are called where all lanes agree; that an `if` as
   `codegen.c` lays it out, with any arms, can be laid out in the sense of `Layout`.

Left out for good: `num_blocks` rewritten while a kernel runs (no host does it);
the compiler's messages, its options other than `--ast`, the printing of tokens
and trees, the `.hex` text and failing file operations; the data segment of an
`.axelbin`; the assemblers (a table of mnemonics; `gpu_asm.c` and `axel.c` encode
what `Isa` encodes) and `pyaxel` (files and a subprocess); testbenches other than
the memories and the hosts they define; `legacy/` directories; the keep-alive XOR;
layout, timing and GDS reports.
