--------------------------------- MODULE Axelcc --------------------------------
(***************************************************************************)
(* axelcc from source text to the block that runs its output: the stages   *)
(* of axelcc/src/main.c and writer.c, the host's loader                    *)
(* (assembler/tools/axelbin.py), and the machine of Warp.  Each stage      *)
(* hands one thing to the next: unit is the text, the tree, the tree with  *)
(* its register tables, the instruction words, then the file's bytes.      *)
(***************************************************************************)
EXTENDS Parser, Codegen, Warp

CONSTANTS Sources,    \* texts with what they are meant to be, see MCAxelcc
          InitData    \* the data memory the host prepares

VARIABLES phase, source, unit

axelccVars == <<phase, source, unit, warpVars>>

Stage(from, to, result) ==
    /\ phase = from
    /\ phase' = to
    /\ unit' = result
    /\ UNCHANGED <<source, warpVars>>

--------------------------------------------------------------------------------
(* The file: a 32-byte header, then the words, all little-endian. *)
write_u32le(w) == <<w[2] % 2^8, w[2] \div 2^8, w[1] % 2^8, w[1] \div 2^8>>
Magic == <<65, 88, 76, 66>>    \* AXLB
Zero == <<0, 0>>

write_axelbin(words) ==
    LET contents == <<Zero, Zero, <<0, Len(words)>>, Zero, Zero, Zero>> \o words
    IN  Magic \o <<1, 0, 0, 0>>
        \o [k \in 1 .. 4 * Len(contents) |-> write_u32le(contents[(k + 3) \div 4])[1 + ((k + 3) % 4)]]

(* The loader: the text segment's words, none from a file it turns down. *)
ReadWord(bytes, at) ==
    <<bytes[at + 4] * 2^8 + bytes[at + 3], bytes[at + 2] * 2^8 + bytes[at + 1]>>
load_axelbin(bytes) ==
    LET text_words == ReadWord(bytes, 16)[2]
        valid == /\ Len(bytes) >= 32 /\ SubSeq(bytes, 1, 4) = Magic /\ bytes[5] = 1
                 /\ Len(bytes) >= 32 + 4 * text_words
    IN  IF valid THEN [k \in 1 .. text_words |-> ReadWord(bytes, 32 + 4 * (k - 1))] ELSE <<>>

--------------------------------------------------------------------------------
(* The stages of main.  With --ast it stops when the text is read. *)
Parse ==
    /\ phase = "source"
    /\ \E r \in {parse(Lex(unit))} :
          IF r.i = 0 THEN Stage("source", "syntax_error", unit) ELSE Stage("source", "parsed", r.v)

Check ==
    /\ phase = "parsed" /\ ~source.dump_ast
    /\ \E sema \in {sema_check(unit)} :
          IF sema.ok THEN Stage("parsed", "checked", [prog |-> unit, sema |-> sema])
          ELSE Stage("parsed", "sema_error", unit)

Generate ==
    /\ phase = "checked"
    /\ \E g \in {codegen(unit.prog, unit.sema)} :
          IF g.had_error THEN Stage("checked", "codegen_error", unit)
          ELSE Stage("checked", "compiled", g.code)

Write == phase = "compiled" /\ Stage("compiled", "written", write_axelbin(unit))

(* The host starts one block of the size the source is meant for. *)
Load ==
    /\ phase = "written"
    /\ phase' = "running"
    /\ unit' = <<>>
    /\ Boot(load_axelbin(unit), source.lanes, InitData)
    /\ UNCHANGED source

Execute == phase = "running" /\ Step /\ UNCHANGED <<phase, source, unit>>
Halt == phase = "running" /\ Is("RET") /\ phase' = "halted" /\ UNCHANGED <<source, unit, warpVars>>
Finish == phase = "running" /\ AccelFinishes /\ UNCHANGED <<phase, source, unit>>

AxelccInit ==
    /\ phase = "source"
    /\ source \in Sources
    /\ unit = source.text
    /\ Off

AxelccNext == Parse \/ Check \/ Generate \/ Write \/ Load \/ Execute \/ Halt \/ Finish

(* A block that was started goes on, and the accelerator finishes what it  *)
(* was given (its FSM has only counted loops and waits for memory).        *)
AxelccSpec ==
    /\ AxelccInit
    /\ [][AxelccNext]_axelccVars
    /\ WF_axelccVars(Execute \/ Halt)
    /\ WF_axelccVars(Finish)

--------------------------------------------------------------------------------
Lang == INSTANCE AxelLang

(* The machine stays inside the program it was given, and every register   *)
(* and every word of memory is one of the width.                           *)
AxelccTypeOK ==
    /\ phase \in {"source", "parsed", "checked", "compiled", "written", "running", "halted",
                  "syntax_error", "sema_error", "codegen_error"}
    /\ Range(mem) \cup UNION {Range(regs[i]) : i \in DOMAIN regs}
          \subseteq -(2^(WordBits - 1)) .. 2^(WordBits - 1) - 1
    /\ phase = "running" => active_mask # {} /\ \A i \in Lanes : pc[i] \in 0 .. Len(prog_mem) - 1

(* What the grammar writes down, lexer and parser read back as the same    *)
(* tree, in every layout: precedence, associativity, comments, and the     *)
(* tokens that are a prefix of another.                                    *)
ReadsBackWhatWasWritten ==
    source.intact => /\ phase # "syntax_error"
                     /\ phase = "parsed" => unit = source.prog

(* Whatever text is accepted, also a damaged one: the tree accounts for    *)
(* every piece of it, in order.  Nothing is skipped and nothing invented.  *)
NothingLostInReading ==
    phase = "parsed" =>
        Lang!Essence(source.text) = Lang!Essence(Lang!Concat(Lang!WrittenProgram(unit)))

(* sema_check lets through every well-formed program, and no other save    *)
(* those whose only fault is a call among the operands of a mmio_matmul in *)
(* a func: against sema.h, stmt_has_call does not look there.              *)
AcceptsTheWellFormed ==
    phase \in {"checked", "sema_error"} =>
        (phase = "checked") = Lang!WellFormed(IF phase = "checked" THEN unit.prog ELSE unit)

(* The memory and the launches that threads leave together.               *)
Left(threads) ==
    LET writers(a) == {i \in Lanes : a \in threads[i].written}
    IN  /\ \A i \in Lanes : threads[i].written \subseteq DOMAIN mem
        /\ \A a \in DOMAIN mem \ (CTRL_BASE .. CTRL_BASE + 8) :
              mem[a] = IF writers(a) = {} THEN Read(InitData, a)
                       ELSE threads[Min(writers(a))].data[a]
        /\ launches = threads[0].launches

(* A block that has run has left in memory what each of its threads, alone *)
(* and by the meaning of the source, would have left there, and has        *)
(* started the accelerator with the operands the source names.             *)
CompiledMeansSource ==
    phase = "halted" => Left(Lang!Threads(source.prog, lanes, InitData))

(* The hardware drops a push on a full stack and pops 0 from an empty one  *)
(* without a sign; compiled code never comes to that, and a block leaves   *)
(* both stacks empty for the next.                                         *)
StacksSuffice ==
    phase = "running" =>
        /\ Diverges => Len(warp_stack) < WarpDepth
        /\ Is("CALL") => Len(call_stack) < CallDepth
        /\ Is("SRET") => call_stack # <<>>
        /\ Is("RET") => warp_stack = <<>> /\ call_stack = <<>>

(* Every block that is started ends: the loops the compiler makes of `for' *)
(* and of waiting for DONE come to their end.                              *)
EveryKernelEnds == phase = "running" ~> phase = "halted"

================================================================================
