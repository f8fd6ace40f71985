---------------------------------- MODULE Sema ---------------------------------
(***************************************************************************)
(* axelcc's semantic checks and register allocation (axelcc/src/sema.c).   *)
(* An error only ever turns the result into a rejection: ok is sema_check's *)
(* accumulated err, upside down.                                           *)
(***************************************************************************)
EXTENDS Ast

SEMA_MAX_VARS == 19
SEMA_TMP_BASE == 20
SEMA_TMP_ONE == 28
SEMA_FUNC_REG_BASE == 14
SEMA_FUNC_MAX_VARS == 5
SEMA_FUNC_REG_RET == 19
SEMA_KERNEL_MAX_VARS_WITH_FUNCS == SEMA_FUNC_REG_BASE - 1

(* vars is a function from the names declared so far to their registers. *)
KernelSyms(next_reg, max_reg) ==
    [vars |-> <<>>, next_reg |-> next_reg, max_reg |-> max_reg, ok |-> TRUE]

(* Fault: a name declared again gets a register of its own. *)
syms_add_again(k, name) ==
    IF k.next_reg > k.max_reg THEN [k EXCEPT !.ok = FALSE]
    ELSE [k EXCEPT !.vars = (name :> k.next_reg) @@ @, !.next_reg = @ + 1]

syms_add(k, name) ==
    IF name \in DOMAIN k.vars \/ k.next_reg > k.max_reg THEN [k EXCEPT !.ok = FALSE]
    ELSE [k EXCEPT !.vars = (name :> k.next_reg) @@ @, !.next_reg = @ + 1]

(* The first func of that name; none is <<>>. *)
find_func(funcs, name) == SelectSeq(funcs, LAMBDA f : f.name = name)

(* What a mmio_matmul is given is not looked at. *)
stmtlist_has_call(list) ==
    \E s \in Statements(list) :
        /\ s.kind # "MMIO_MATMUL"
        /\ \E e \in Range(s.exprs) : \E x \in Within(e) : x.kind = "CALL"

check_expr(k, e, funcs) ==
    \A x \in Within(e) :
        /\ x.kind = "IDENT" => x.name \in DOMAIN k.vars
        /\ x.kind = "CALL" =>
              LET f == find_func(funcs, x.name)
              IN  f # <<>> /\ Len(x.args) = Len(f[1].params)

is_comparison(e) == e.kind = "BINOP" /\ e.op \in Comparisons

RECURSIVE check_stmtlist(_, _, _, _)

(* A variable is in scope from its declaration to the routine's end, the   *)
(* loop variable not yet in its own bound.                                 *)
check_stmt(k, s, if_depth, funcs) ==
    LET e == [k EXCEPT !.ok = @ /\ \A x \in Range(s.exprs) : check_expr(k, x, funcs)]
    IN  CASE s.kind = "VAR_DECL" -> syms_add(e, s.name)
          [] s.kind = "ASSIGN" -> [e EXCEPT !.ok = @ /\ s.name \in DOMAIN k.vars]
          [] s.kind = "IF" ->
                check_stmtlist([e EXCEPT !.ok = @ /\ if_depth = 0 /\ is_comparison(s.exprs[1])],
                               s.then \o s.els, if_depth + 1, funcs)
          [] s.kind = "FOR" -> check_stmtlist(syms_add(e, s.name), s.body, if_depth, funcs)
          [] OTHER -> e

check_stmtlist(k, list, if_depth, funcs) ==
    FoldLeft(LAMBDA acc, s : check_stmt(acc, s, if_depth, funcs), k, list)

check_routine(r, syms, funcs) ==
    check_stmtlist(FoldLeft(syms_add, syms, r.params), r.body, 0, funcs)

(* A func calls none and ends in `return expr;'. *)
check_func(f, funcs) ==
    LET k == check_routine(f, KernelSyms(SEMA_FUNC_REG_BASE,
                                         SEMA_FUNC_REG_BASE + SEMA_FUNC_MAX_VARS - 1), funcs)
    IN  [k EXCEPT !.ok = /\ @
                         /\ ~stmtlist_has_call(f.body)
                         /\ f.body # <<>>
                         /\ Last(f.body).kind = "RETURN" /\ Last(f.body).exprs # <<>>]

(* The register tables, and whether the program is accepted. *)
sema_check(prog) ==
    LET max_reg == IF prog.funcs # <<>> THEN SEMA_KERNEL_MAX_VARS_WITH_FUNCS ELSE SEMA_MAX_VARS
        funcs == [i \in DOMAIN prog.funcs |-> check_func(prog.funcs[i], prog.funcs)]
        kernels == [i \in DOMAIN prog.kernels |->
                       check_routine(prog.kernels[i], KernelSyms(1, max_reg), prog.funcs)]
    IN  [funcs |-> funcs, kernels |-> kernels,
         ok |-> \A k \in Range(funcs) \cup Range(kernels) : k.ok]

================================================================================
