-------------------------------- MODULE Codegen --------------------------------
(***************************************************************************)
(* axelcc's code generator (axelcc/src/codegen.c, emit.c).  The context g  *)
(* is the code's CGen with its instruction buffer; every emitter takes one *)
(* and returns the next.  Addresses in the buffer count from 0.            *)
(***************************************************************************)
EXTENDS Sema, Isa

CONSTANT AXELCC_MAX_INSTRUCTIONS, PARAM_BASE

CGen(syms) == [code |-> <<>>, syms |-> syms, next_tmp |-> SEMA_TMP_BASE,
               call_sites |-> <<>>, had_error |-> FALSE]

(* A full buffer ends the compiler; like an error, nothing is written. *)
push(g, word) ==
    IF g.had_error \/ Len(g.code) >= AXELCC_MAX_INSTRUCTIONS THEN [g EXCEPT !.had_error = TRUE]
    ELSE [g EXCEPT !.code = Append(@, word)]

(* Several pushes: either all fit, or the compiler ends. *)
push_all(g, words) ==
    IF g.had_error \/ Len(g.code) + Len(words) > AXELCC_MAX_INSTRUCTIONS
    THEN [g EXCEPT !.had_error = TRUE]
    ELSE [g EXCEPT !.code = @ \o words]

Pc(g) == Len(g.code)
Patch(g, idx, word) == IF g.had_error THEN g ELSE [g EXCEPT !.code[idx + 1] = word]

Branch(nzp, off) == b_type("BR", nzp, off, off)
CallTo(off) == b_type("CALL", NzpAll, off, off)
reset_tmp(g) == [g EXCEPT !.next_tmp = SEMA_TMP_BASE]
Mov(dst, src) == IF dst = src THEN <<>> ELSE <<r_type("ADD", dst, src, 0)>>
emit_mov(g, dst, src) == push_all(g, Mov(dst, src))
emit_const(g, rd, imm) == push(g, i_type("CONST", rd, 0, imm))

(* What an expression leaves: the context and the register of its value;   *)
(* after an error it no longer matters which.                              *)
Result(g, reg) == [g |-> g, reg |-> reg]
AnyReg == SEMA_TMP_ONE - 1

alloc_tmp(g) ==
    IF g.next_tmp >= SEMA_TMP_ONE THEN Result([g EXCEPT !.had_error = TRUE], AnyReg)
    ELSE Result([g EXCEPT !.next_tmp = @ + 1], g.next_tmp)

nzp_for_op ==
    (">" :> NzpP) @@ ("<" :> NzpN) @@ (">=" :> NzpZ + NzpP) @@
    ("<=" :> NzpN + NzpZ) @@ ("==" :> NzpZ) @@ ("!=" :> NzpN + NzpP)

--------------------------------------------------------------------------------
BinopInstr ==
    ("+" :> "ADD") @@ ("-" :> "SUB") @@ ("*" :> "IMUL") @@ ("/" :> "DIV") @@ ("%" :> "MOD") @@
    (">>" :> "SAR") @@ ("<<" :> "SHL") @@ ("&" :> "AND") @@ ("|" :> "OR") @@ ("^" :> "XOR")

(* Constant folding: the values, none or one, of an expression of literals. *)
(* C's division rounds towards zero.                                       *)
FoldOp(op, l, r) ==
    LET abs(x) == IF x < 0 THEN -x ELSE x
        q == IF (l < 0) = (r < 0) THEN abs(l) \div abs(r) ELSE -(abs(l) \div abs(r))
    IN  CASE op = "/" -> q
          [] op = "%" -> l - r * q
          [] OTHER -> Alu(BinopInstr[op], l, r, 0)

RECURSIVE try_fold_const(_)
try_fold_const(e) ==
    CASE e.kind = "INT_LIT" -> {e.ival}
      [] e.kind = "UNOP" -> {IF e.op = "-" THEN -v ELSE -1 - v : v \in try_fold_const(e.args[1])}
      [] e.kind = "BINOP" /\ e.op \in DOMAIN BinopInstr ->
            {FoldOp(e.op, lr[1], lr[2]) :
                lr \in {p \in try_fold_const(e.args[1]) \X try_fold_const(e.args[2]) :
                           ~(e.op \in {"/", "%"} /\ p[2] = 0)}}
      [] OTHER -> {}

--------------------------------------------------------------------------------
(* The emitters below call one another by their names. *)
RECURSIVE Emit(_, _, _)
Eval(g, e) == Emit("eval_expr", g, e)
EvalAll(g, es) == Emit("eval_each", g, es)
Stmts(g, list) == Emit("emit_stmtlist", g, list)

(* Expressions one after the other; the registers they end up in. *)
eval_each(g, es) ==
    LET first == Eval(g, Head(es))
        rest == EvalAll(first.g, Tail(es))
    IN  IF g.had_error \/ es = <<>> THEN Result(g, [k \in DOMAIN es |-> AnyReg])
        ELSE Result(rest.g, <<first.reg>> \o rest.reg)

(* The instruction of a compound expression, from its operands' registers. *)
Compute(e, dst, r) ==
    CASE e.kind = "BINOP" -> r_type(BinopInstr[e.op], dst, r[1], r[2])
      [] e.kind = "UNOP" /\ e.op = "-" -> r_type("SUB", dst, 0, r[1])
      [] e.kind = "UNOP" -> r_type("NOT", dst, r[1], 0)
      [] e.kind = "fma" -> r4_type("FMA", dst, r[1], r[2], r[3])
      [] e.kind = "dot4" -> r4_type("DOT", dst, r[1], r[2], 0)
      [] e.kind = "exp8" -> r_type("EXP8", dst, r[1], 0)
      [] e.kind = "relu" -> r_type("RELU", dst, r[1], 0)
      [] e.kind = "clamp" -> r_type("CLAMP", dst, r[1], 0)

(* Fault: the operands' temporaries are given back one operand early. *)
EvalCompoundEarly(g, e) ==
    LET first == Eval(g, e.args[1])
        rest == EvalAll([first.g EXCEPT !.next_tmp = g.next_tmp], Tail(e.args))
        dst == alloc_tmp([rest.g EXCEPT !.next_tmp = g.next_tmp])
    IN  IF is_comparison(e) THEN Result([rest.g EXCEPT !.had_error = TRUE], 0)
        ELSE Result(push(dst.g, Compute(e, dst.reg, <<first.reg>> \o rest.reg)), dst.reg)

(* The destination reuses the operands' temporaries. *)
EvalCompound(g, e) ==
    LET r == EvalAll(g, e.args)
        dst == alloc_tmp([r.g EXCEPT !.next_tmp = g.next_tmp])
    IN  IF is_comparison(e) THEN Result([dst.g EXCEPT !.had_error = TRUE], dst.reg)
        ELSE Result(push(dst.g, Compute(e, dst.reg, r.reg)), dst.reg)

(* All arguments first, then their moves into the func's window. *)
EvalCall(g, e) ==
    LET r == EvalAll(g, e.args)
        moved == push_all(r.g, FlattenSeq([i \in DOMAIN e.args |->
                                              Mov(SEMA_FUNC_REG_BASE + i - 1, r.reg[i])]))
        called == push([moved EXCEPT !.next_tmp = g.next_tmp], CallTo(0))
        dst == alloc_tmp([called EXCEPT !.call_sites = Append(@, [at |-> Pc(moved), name |-> e.name])])
    IN  Result(emit_mov(dst.g, dst.reg, SEMA_FUNC_REG_RET), dst.reg)

(* A folded value must fit CONST's zero-extended immediate. *)
eval_expr(g, e) ==
    LET t == alloc_tmp(g)
        folded == IF e.kind \in {"BINOP", "UNOP"}
                  THEN try_fold_const(e) \cap 0 .. 2^ImmBits - 1 ELSE {}
        addr == Eval(g, e.args[1])
        dst == alloc_tmp(addr.g)
    IN  CASE g.had_error -> Result(g, AnyReg)
          [] e.kind = "INT_LIT" -> Result(emit_const(t.g, t.reg, e.ival), t.reg)
          [] e.kind = "IDENT" -> Result(g, g.syms.vars[e.name])
          [] e.kind = "threadIdx" -> Result(g, 29)
          [] e.kind = "blockIdx" -> Result(g, 30)
          [] e.kind = "blockDim" -> Result(g, 31)
          [] folded # {} -> Result(emit_const(t.g, t.reg, CHOOSE v \in folded : TRUE), t.reg)
          [] e.kind = "MEM_LOAD" -> Result(push(dst.g, i_type("LDR", dst.reg, addr.reg, 0)), dst.reg)
          [] e.kind = "CALL" -> EvalCall(g, e)
          [] OTHER -> EvalCompound(g, e)

--------------------------------------------------------------------------------
RECURSIVE StoreAll(_, _, _)

(* Fault: an `if' without an else branch has no SYNC. *)
EmitIfSyncsElse(g, s) ==
    LET cond == s.exprs[1]
        r == EvalAll(g, cond.args)
        cmp == push(r.g, r_type("CMP", 0, r.reg[1], r.reg[2]))
        els == Stmts(push(cmp, Branch(nzp_for_op[cond.op], 0)), s.els)
        then == Stmts(push(push(els, Branch(NzpAll, 0)), n_type("NOP")), s.then)
    IN  Patch(Patch(IF s.els = <<>> THEN then ELSE push(then, n_type("SYNC")),
                    Pc(cmp), Branch(nzp_for_op[cond.op], Pc(els) - Pc(cmp) + 1)),
              Pc(els), Branch(NzpAll, Pc(then) - Pc(els)))

(* CMP; BR cond -> NOP; else body; BR -> SYNC; NOP; then body; SYNC. *)
EmitIf(g, s) ==
    LET cond == s.exprs[1]
        r == EvalAll(g, cond.args)
        cmp == push(r.g, r_type("CMP", 0, r.reg[1], r.reg[2]))
        els == Stmts(push(cmp, Branch(nzp_for_op[cond.op], 0)), s.els)
        then == Stmts(push(push(els, Branch(NzpAll, 0)), n_type("NOP")), s.then)
        len_else == Pc(els) - (Pc(cmp) + 1)
        len_then == Pc(then) - (Pc(els) + 2)
    IN  Patch(Patch(push(then, n_type("SYNC")),
                    Pc(cmp), Branch(nzp_for_op[cond.op], 2 + len_else)),
              Pc(els), Branch(NzpAll, 2 + len_then))

(* Fault: the loop goes back to where its variable is set. *)
EmitForFromInit(g, s) ==
    LET var == g.syms.vars[s.name]
        init == Eval(g, s.exprs[1])
        top == reset_tmp(emit_const(emit_mov(init.g, var, init.reg), SEMA_TMP_ONE, 1))
        bound == Eval(top, s.exprs[2])
        cmp == push(bound.g, r_type("CMP", 0, var, bound.reg))
        body == Stmts(push(cmp, Branch(NzpZ + NzpP, 0)), s.body)
        inc == push(body, r_type("ADD", var, var, SEMA_TMP_ONE))
        end == push(inc, Branch(NzpAll, Pc(g) - Pc(inc)))
    IN  Patch(end, Pc(cmp), Branch(NzpZ + NzpP, Pc(end) - Pc(cmp)))

(* var = init; R28 = 1; top: CMP var, bound; BR >= end; body; var++; BR top. *)
EmitFor(g, s) ==
    LET var == g.syms.vars[s.name]
        init == Eval(g, s.exprs[1])
        top == reset_tmp(emit_const(emit_mov(init.g, var, init.reg), SEMA_TMP_ONE, 1))
        bound == Eval(top, s.exprs[2])
        cmp == push(bound.g, r_type("CMP", 0, var, bound.reg))
        body == Stmts(push(cmp, Branch(NzpZ + NzpP, 0)), s.body)
        inc == push(body, r_type("ADD", var, var, SEMA_TMP_ONE))
        end == push(inc, Branch(NzpAll, Pc(top) - Pc(inc)))
    IN  Patch(end, Pc(cmp), Branch(NzpZ + NzpP, Pc(end) - Pc(cmp)))

(* R20 holds the control base, R21 the value stored, R22 the DONE flag:    *)
(* seven stores, START, then a loop that reads DONE.                       *)
StoreAll(g, es, off) ==
    LET v == Eval([g EXCEPT !.next_tmp = SEMA_TMP_BASE + 3], Head(es))
        stored == push(emit_mov(v.g, SEMA_TMP_BASE + 1, v.reg),
                       i_type("STR", SEMA_TMP_BASE + 1, SEMA_TMP_BASE, off))
    IN  IF g.had_error \/ es = <<>> THEN g ELSE StoreAll(stored, Tail(es), off + 1)

EmitMmio(g, s) ==
    LET stored == StoreAll(emit_const(g, SEMA_TMP_BASE, CTRL_BASE), s.exprs, 0)
        started == push(emit_const(stored, SEMA_TMP_BASE + 1, 1),
                        i_type("STR", SEMA_TMP_BASE + 1, SEMA_TMP_BASE, 7))
        poll == push(push(started, i_type("LDR", SEMA_TMP_BASE + 2, 0, CTRL_BASE + 8)),
                     r_type("CMP", 0, SEMA_TMP_BASE + 2, 0))
    IN  push(poll, Branch(NzpZ, Pc(started) - Pc(poll)))

(* A return with a value is a func's, a bare one the kernel's. *)
EmitReturn(g, s) ==
    LET r == Eval(g, s.exprs[1])
    IN  IF s.exprs = <<>> THEN push(g, n_type("RET"))
        ELSE push(emit_mov(r.g, SEMA_FUNC_REG_RET, r.reg), n_type("SRET"))

emit_stmt(g0, s) ==
    LET g == reset_tmp(g0)
        src == Eval(g, s.exprs[1])
        pair == EvalAll(g, <<s.exprs[2], s.exprs[1]>>)    \* the value before the address
    IN  CASE g.had_error -> g
          [] s.kind \in {"VAR_DECL", "ASSIGN"} -> emit_mov(src.g, g.syms.vars[s.name], src.reg)
          [] s.kind = "MEM_STORE" -> push(pair.g, i_type("STR", pair.reg[1], pair.reg[2], 0))
          [] s.kind = "IF" -> EmitIf(g, s)
          [] s.kind = "FOR" -> EmitFor(g, s)
          [] s.kind = "RETURN" -> EmitReturn(g, s)
          [] s.kind = "MMIO_MATMUL" -> EmitMmio(g, s)

emit_stmtlist(g, list) ==
    IF g.had_error \/ list = <<>> THEN g
    ELSE Stmts(emit_stmt(g, Head(list)), Tail(list))

Emit(name, g, x) ==
    CASE name = "eval_expr" -> eval_expr(g, x)
      [] name = "eval_each" -> eval_each(g, x)
      [] name = "emit_stmtlist" -> emit_stmtlist(g, x)

--------------------------------------------------------------------------------
(* The first kernel with its parameters' loads and a RET at its end, the   *)
(* funcs behind it, and the CALLs patched when every func has its place.   *)
LoadParams(g, params) ==
    push_all(g, [i \in DOMAIN params |-> i_type("LDR", g.syms.vars[params[i]], 0, PARAM_BASE + i - 1)])

(* Fault: the kernel ends where its text ends. *)
EndKernelOpen(g) == g

EndKernel(g) ==
    IF g.had_error \/ (g.code # <<>> /\ Decode(Last(g.code)).op = Op.RET) THEN g
    ELSE push(g, n_type("RET"))

(* [g, reg]: the context and every func's first address. *)
EmitFuncs(g, prog, sema) ==
    FoldLeft(LAMBDA acc, i :
                Result(Stmts([acc.g EXCEPT !.syms = sema.funcs[i]], prog.funcs[i].body),
                       Append(acc.reg, Pc(acc.g))),
             Result(g, <<>>), [i \in DOMAIN prog.funcs |-> i])

PatchCalls(f, prog) ==
    FoldLeft(LAMBDA acc, site :
                LET fi == Min({i \in DOMAIN prog.funcs : prog.funcs[i].name = site.name})
                IN  Patch(acc, site.at, CallTo(f.reg[fi] - site.at)),
             f.g, f.g.call_sites)

codegen(prog, sema) ==
    IF prog.kernels = <<>> THEN [CGen(KernelSyms(1, 1)) EXCEPT !.had_error = TRUE]
    ELSE LET kernel == prog.kernels[1]
             g == EndKernel(Stmts(LoadParams(CGen(sema.kernels[1]), kernel.params),
                                          kernel.body))
         IN  PatchCalls(EmitFuncs(g, prog, sema), prog)

================================================================================
