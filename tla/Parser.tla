--------------------------------- MODULE Parser --------------------------------
(***************************************************************************)
(* axelcc's recursive-descent parser (axelcc/src/parser.c).                *)
(*                                                                         *)
(* Every parse returns [i, v]: the token to go on with and the sequence of *)
(* syntax trees built.  i = 0 is a failure: had_error is never cleared and *)
(* parse returns NULL when it is set, so that after a first error the code *)
(* only looks for more messages to print.                                  *)
(***************************************************************************)
EXTENDS Lexer

Fail == [i |-> 0, v |-> <<>>]
Done(i, v) == [i |-> i, v |-> v]
Peek(ts, i) == IF i = 0 THEN "FAILED" ELSE ts[i].type

(* What Make builds from the parts of r, if it is no failure. *)
Build(r, Make(_)) == IF r.i = 0 THEN Fail ELSE Done(r.i, <<Make(r.v)>>)

RECURSIVE expect(_, _, _), Match(_, _, _), CommaList(_, _, _, _), Chain(_, _, _)

(* The items one after the other, with what they built.  A token's type    *)
(* asks for that token; the other items are the parts of the grammar, and  *)
(* it is by these names that the productions below refer to one another.   *)
Match(ts, i, items) ==
    IF items = <<>> THEN Done(i, <<>>)
    ELSE LET r == expect(ts, i, Head(items))
             rest == Match(ts, r.i, Tail(items))
         IN  IF r.i = 0 \/ rest.i = 0 THEN Fail ELSE Done(rest.i, r.v \o rest.v)

(* Elements up to `)', which may follow a comma. *)
CommaList(ts, i, element, found) ==
    IF Peek(ts, i) \in {")", "FAILED"} THEN Done(i, <<found>>)
    ELSE LET r == Match(ts, i, element)
         IN  CommaList(ts, IF Peek(ts, r.i) = ")" THEN r.i ELSE expect(ts, r.i, ",").i,
                       element, found \o r.v)

--------------------------------------------------------------------------------
(* Expressions. *)
parse_args(ts, i, n) ==
    Match(ts, i, <<"(", "Expr">> \o FlattenSeq([k \in 1 .. n - 1 |-> <<",", "Expr">>]) \o <<")">>)

parse_primary(ts, i) ==
    LET t == ts[i]
    IN  CASE t.type = "INT_LIT" -> Done(i + 1, <<IntLit(t.ival)>>)
          [] t.type \in Builtins -> Done(i + 1, <<Builtin(t.type)>>)
          [] t.type = "mem" -> Build(Match(ts, i + 1, <<"[", "Expr", "]">>),
                                     LAMBDA v : MemLoad(v[1]))
          [] t.type \in DOMAIN Arity -> Build(parse_args(ts, i + 1, Arity[t.type]),
                                              LAMBDA v : Intrinsic(t.type, v))
          [] t.type = "IDENT" ->
                IF Peek(ts, i + 1) # "(" THEN Done(i + 1, <<Ident(t.text)>>)
                ELSE Build(Match(ts, i + 1, <<"(", "Args", ")">>),
                           LAMBDA v : CallExpr(t.text, v[1]))
          [] t.type = "(" -> Match(ts, i + 1, <<"Expr", ")">>)
          [] OTHER -> Fail

parse_unary(ts, i) ==
    IF i = 0 THEN Fail
    ELSE IF ts[i].type \notin {"-", "~"} THEN parse_primary(ts, i)
    ELSE Build(expect(ts, i + 1, "Unary"), LAMBDA v : Unop(ts[i].type, v[1]))

(* The operators of one level, joined from the left onto what r built. *)
LevelOps == [Add |-> {"+", "-"}, Mul |-> {"*", "/", "%", ">>", "<<", "&", "|", "^"}]
Operand == [Add |-> "Mul", Mul |-> "Unary"]

Chain(ts, l, level) ==
    IF Peek(ts, l.i) \notin LevelOps[level] THEN l
    ELSE Chain(ts, Build(expect(ts, l.i + 1, Operand[level]),
                         LAMBDA v : Binop(ts[l.i].type, l.v[1], v[1])), level)

parse_mul(ts, i) == Chain(ts, expect(ts, i, "Unary"), "Mul")

(* Fault: the operands of + and - are joined from the right. *)
parse_add_right(ts, i) ==
    LET l == expect(ts, i, "Mul")
    IN  IF Peek(ts, l.i) \notin LevelOps.Add THEN l
        ELSE Build(expect(ts, l.i + 1, "Add"), LAMBDA v : Binop(ts[l.i].type, l.v[1], v[1]))

parse_add(ts, i) == Chain(ts, expect(ts, i, "Mul"), "Add")

(* At most one comparison. *)
parse_expr(ts, i) ==
    LET l == expect(ts, i, "Add")
    IN  IF Peek(ts, l.i) \notin Comparisons THEN l
        ELSE Build(expect(ts, l.i + 1, "Add"), LAMBDA v : Binop(ts[l.i].type, l.v[1], v[1]))

--------------------------------------------------------------------------------
(* Statements. *)
Block == <<"{", "Stmts", "}">>

parse_if(ts, i) ==
    LET c == Match(ts, i, <<"if", "(", "Expr", ")">>)
        t == Match(ts, c.i, Block)
        e == Match(ts, t.i, <<"else">> \o Block)
    IN  IF Peek(ts, t.i) # "else" THEN Build(t, LAMBDA v : If(c.v[1], v[1], <<>>))
        ELSE Build(e, LAMBDA v : If(c.v[1], t.v[1], v[1]))

ForHead == <<"for", "(", "int", "IDENT", "=", "Expr", ";", "IDENT", "<", "Expr", ";",
             "IDENT", "+", "+", ")">>

(* Fault: the name in the condition is not compared with the loop variable. *)
ParseForAnyName(ts, i) ==
    LET h == Match(ts, i, ForHead)
        b == Match(ts, h.i, Block)
    IN  IF b.i = 0 \/ h.v[5] # h.v[1] THEN Fail
        ELSE Done(b.i, <<For(h.v[1], h.v[2], h.v[4], b.v[1])>>)

(* The condition and the increment name the loop variable. *)
parse_for(ts, i) ==
    LET h == Match(ts, i, ForHead)
        b == Match(ts, h.i, Block)
    IN  IF b.i = 0 \/ h.v[3] # h.v[1] \/ h.v[5] # h.v[1] THEN Fail
        ELSE Done(b.i, <<For(h.v[1], h.v[2], h.v[4], b.v[1])>>)

parse_stmt(ts, i) ==
    LET t == ts[i].type
    IN  CASE t = "int" -> Build(Match(ts, i + 1, <<"IDENT", "=", "Expr", ";">>),
                                LAMBDA v : VarDecl(v[1], v[2]))
          [] t = "mem" -> Build(Match(ts, i + 1, <<"[", "Expr", "]", "=", "Expr", ";">>),
                                LAMBDA v : MemStore(v[1], v[2]))
          [] t = "IDENT" -> Build(Match(ts, i, <<"IDENT", "=", "Expr", ";">>),
                                  LAMBDA v : Assign(v[1], v[2]))
          [] t = "if" -> parse_if(ts, i)
          [] t = "for" -> parse_for(ts, i)
          [] t = "mmio_matmul" ->
                LET a == parse_args(ts, i + 1, 7)
                IN  Build(Done(IF a.i = 0 THEN 0 ELSE expect(ts, a.i, ";").i, a.v), Mmio)
          [] t = "return" /\ ts[i + 1].type = ";" -> Done(i + 2, <<Return(<<>>)>>)
          [] t = "return" -> Build(Match(ts, i + 1, <<"Expr", ";">>), Return)
          [] OTHER -> Fail

RECURSIVE parse_stmtlist(_, _, _)
parse_stmtlist(ts, i, found) ==
    IF Peek(ts, i) \in {"}", "EOF", "FAILED"} THEN Done(i, <<found>>)
    ELSE LET s == expect(ts, i, "Stmt") IN parse_stmtlist(ts, s.i, found \o s.v)

--------------------------------------------------------------------------------
(* A kernel, a func, and the whole program. *)
RoutineFrom(ts, i, keyword, type) ==
    LET h == Match(ts, i, <<keyword, type, "IDENT", "(", "Params", ")">>)
        b == Match(ts, h.i, Block)
    IN  Build(b, LAMBDA v : Routine(h.v[1], h.v[2], v[1]))

parse_kernel(ts, i) == RoutineFrom(ts, i, "kernel", "void")
parse_func(ts, i) == RoutineFrom(ts, i, "func", "int")

RECURSIVE ParseFrom(_, _, _)
ParseFrom(ts, i, prog) ==
    LET k == expect(ts, i, "Kernel")
        f == expect(ts, i, "Func")
    IN  CASE Peek(ts, i) = "EOF" -> Done(i, prog)
          [] Peek(ts, i) = "func" -> ParseFrom(ts, f.i, [prog EXCEPT !.funcs = @ \o f.v])
          [] Peek(ts, i) = "kernel" -> ParseFrom(ts, k.i, [prog EXCEPT !.kernels = @ \o k.v])
          [] OTHER -> Fail

(* One item of the grammar: one of its parts, or a token of that type. *)
expect(ts, i, item) ==
    CASE item = "Expr" -> parse_expr(ts, i)
      [] item = "Add" -> parse_add(ts, i)
      [] item = "Mul" -> parse_mul(ts, i)
      [] item = "Unary" -> parse_unary(ts, i)
      [] item = "Stmt" -> parse_stmt(ts, i)
      [] item = "Stmts" -> parse_stmtlist(ts, i, <<>>)
      [] item = "Kernel" -> parse_kernel(ts, i)
      [] item = "Func" -> parse_func(ts, i)
      [] item = "Program" -> ParseFrom(ts, i, Program(<<>>, <<>>))
      [] item = "Params" -> CommaList(ts, i, <<"int", "IDENT">>, <<>>)
      [] item = "Args" -> CommaList(ts, i, <<"Expr">>, <<>>)
      [] Peek(ts, i) # item -> Fail
      [] item = "IDENT" -> Done(i + 1, <<ts[i].text>>)
      [] OTHER -> Done(i + 1, <<>>)

parse(ts) == expect(ts, 1, "Program")

================================================================================
