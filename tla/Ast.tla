---------------------------------- MODULE Ast ----------------------------------
(***************************************************************************)
(* The tokens and the syntax tree of axelcc (axelcc/src/lexer.h, ast.h).   *)
(* A token's type is written as tok_name spells it.  A name is a sequence  *)
(* of text pieces, so that x and x1 are different without characters.      *)
(* Positions (line, col) only reach error messages and are left out.       *)
(***************************************************************************)
EXTENDS Integers, Sequences, SequencesExt

Keywords == {"kernel", "func", "void", "int", "return", "if", "else", "for", "mem",
             "fma", "dot4", "exp8", "relu", "clamp", "mmio_matmul",
             "threadIdx", "blockIdx", "blockDim"}
Single == {"+", "-", "*", "/", "%", "~", "^", "|", "(", ")", "{", "}", "[", "]",
           ";", ",", ">", "<", "=", "!", "&"}
Double == <<">", ">">> :> ">>" @@ <<">", "=">> :> ">=" @@ <<"<", "<">> :> "<<" @@
          <<"<", "=">> :> "<=" @@ <<"=", "=">> :> "==" @@ <<"!", "=">> :> "!="
TokenType == {"INT_LIT", "IDENT", "EOF", "ERROR"} \cup Keywords \cup Single \cup Range(Double)

(* text is a name, for IDENT; ival a number, for INT_LIT. *)
Token(type, text, ival) == [type |-> type, text |-> text, ival |-> ival]

Comparisons == {"<", ">", "<=", ">=", "==", "!="}

--------------------------------------------------------------------------------
(* Expressions: whatever the kind, args are the subexpressions in order. *)
Builtins == {"threadIdx", "blockIdx", "blockDim"}
Arity == [fma |-> 3, dot4 |-> 2, exp8 |-> 1, relu |-> 1, clamp |-> 1]

IntLit(v) == [kind |-> "INT_LIT", ival |-> v, args |-> <<>>]
Ident(n) == [kind |-> "IDENT", name |-> n, args |-> <<>>]
Builtin(b) == [kind |-> b, args |-> <<>>]
Binop(op, l, r) == [kind |-> "BINOP", op |-> op, args |-> <<l, r>>]
Unop(op, e) == [kind |-> "UNOP", op |-> op, args |-> <<e>>]
MemLoad(addr) == [kind |-> "MEM_LOAD", args |-> <<addr>>]
Intrinsic(kind, args) == [kind |-> kind, args |-> args]
CallExpr(n, args) == [kind |-> "CALL", name |-> n, args |-> args]

(* Statements; a statement list is a sequence of them.  An `if' without an *)
(* else branch has an empty one, and a bare return has no val.             *)
VarDecl(n, e) == [kind |-> "VAR_DECL", name |-> n, exprs |-> <<e>>]
Assign(n, e) == [kind |-> "ASSIGN", name |-> n, exprs |-> <<e>>]
MemStore(addr, val) == [kind |-> "MEM_STORE", exprs |-> <<addr, val>>]
If(cond, then, els) == [kind |-> "IF", exprs |-> <<cond>>, then |-> then, els |-> els]
For(v, init, bound, body) ==
    [kind |-> "FOR", name |-> v, exprs |-> <<init, bound>>, body |-> body]
Return(val) == [kind |-> "RETURN", exprs |-> val]    \* <<>> or <<e>>
Mmio(args) == [kind |-> "MMIO_MATMUL", exprs |-> args]

(* A kernel or a func, and a program. *)
Routine(n, params, body) == [name |-> n, params |-> params, body |-> body]
Program(kernels, funcs) == [kernels |-> kernels, funcs |-> funcs]

--------------------------------------------------------------------------------
(* The expressions in an expression, and the statements in a list. *)
RECURSIVE Within(_)
Within(e) == {e} \cup UNION {Within(e.args[k]) : k \in DOMAIN e.args}

Inner(s) == CASE s.kind = "IF" -> s.then \o s.els
              [] s.kind = "FOR" -> s.body
              [] OTHER -> <<>>

RECURSIVE Statements(_)
Statements(list) ==
    UNION {{list[k]} \cup Statements(Inner(list[k])) : k \in DOMAIN list}

================================================================================
