-------------------------------- MODULE AxelLang -------------------------------
(***************************************************************************)
(* The language axelcc compiles (axelcc/README.md), without the compiler:  *)
(* how a program is written, when it is well formed, and what each thread  *)
(* does to memory.                                                         *)
(***************************************************************************)
EXTENDS Ast, Isa

CONSTANT Foreign, PARAM_BASE, BlockIdx

--------------------------------------------------------------------------------
(* Writing: an expression in parentheses only where its place asks for     *)
(* them.  A token is the sequence of its pieces.                           *)
Precedence(e) ==
    CASE e.kind = "UNOP" -> 3
      [] e.kind # "BINOP" -> 4
      [] e.op \in Comparisons -> 0
      [] e.op \in {"+", "-"} -> 1
      [] OTHER -> 2

Spelling(op) == IF op \in Range(Double) THEN CHOOSE p \in DOMAIN Double : Double[p] = op ELSE <<op>>
Digits == <<"0", "1", "2", "3", "4", "5", "6", "7", "8", "9">>

RECURSIVE Number(_)
Number(n) == IF n < 10 THEN <<Digits[n + 1]>> ELSE Append(Number(n \div 10), Digits[(n % 10) + 1])

(* The parts one behind the other; in halves, for TLC's stack. *)
RECURSIVE Concat(_)
Concat(parts) ==
    LET half == Len(parts) \div 2
    IN  IF half = 0 THEN FlattenSeq(parts)
        ELSE Concat(SubSeq(parts, 1, half)) \o Concat(SubSeq(parts, half + 1, Len(parts)))

Toks(words) == [k \in DOMAIN words |-> <<words[k]>>]
Separated(parts) ==
    FoldLeft(LAMBDA acc, p : IF acc = <<>> THEN p ELSE acc \o Toks(<<",">>) \o p, <<>>, parts)

RECURSIVE Written(_, _)
WrittenArgs(args) ==
    Toks(<<"(">>) \o Separated([k \in DOMAIN args |-> Written(args[k], 0)]) \o Toks(<<")">>)

Written(e, place) ==
    LET p == Precedence(e)
        bare ==
            CASE e.kind = "INT_LIT" -> <<Number(e.ival)>>
              [] e.kind = "IDENT" -> <<e.name>>
              [] e.kind \in Builtins -> <<<<e.kind>>>>
              [] e.kind = "BINOP" -> Written(e.args[1], IF p = 0 THEN 1 ELSE p)
                                     \o <<Spelling(e.op)>> \o Written(e.args[2], p + 1)
              [] e.kind = "UNOP" -> <<<<e.op>>>> \o Written(e.args[1], 3)
              [] e.kind = "MEM_LOAD" -> Toks(<<"mem", "[">>) \o Written(e.args[1], 0) \o Toks(<<"]">>)
              [] e.kind = "CALL" -> <<e.name>> \o WrittenArgs(e.args)
              [] e.kind \in DOMAIN Arity -> <<<<e.kind>>>> \o WrittenArgs(e.args)
    IN  IF p < place THEN Toks(<<"(">>) \o bare \o Toks(<<")">>) ELSE bare

RECURSIVE WrittenBlock(_)
WrittenStmt(s, E) ==
    CASE s.kind = "VAR_DECL" -> Toks(<<"int">>) \o <<s.name>> \o Toks(<<"=">>) \o E[1] \o Toks(<<";">>)
      [] s.kind = "ASSIGN" -> <<s.name>> \o Toks(<<"=">>) \o E[1] \o Toks(<<";">>)
      [] s.kind = "MEM_STORE" -> Toks(<<"mem", "[">>) \o E[1] \o Toks(<<"]", "=">>) \o E[2] \o Toks(<<";">>)
      [] s.kind = "IF" -> Toks(<<"if", "(">>) \o E[1] \o Toks(<<")">>) \o WrittenBlock(s.then)
                          \o (IF s.els = <<>> THEN <<>> ELSE Toks(<<"else">>) \o WrittenBlock(s.els))
      [] s.kind = "FOR" -> Toks(<<"for", "(", "int">>) \o <<s.name>> \o Toks(<<"=">>) \o E[1]
                           \o Toks(<<";">>) \o <<s.name>> \o Toks(<<"<">>) \o E[2] \o Toks(<<";">>)
                           \o <<s.name>> \o Toks(<<"+", "+", ")">>) \o WrittenBlock(s.body)
      [] s.kind = "RETURN" -> Toks(<<"return">>) \o (IF s.exprs = <<>> THEN <<>> ELSE E[1]) \o Toks(<<";">>)
      [] s.kind = "MMIO_MATMUL" -> Toks(<<"mmio_matmul">>) \o WrittenArgs(s.exprs) \o Toks(<<";">>)

WrittenBlock(list) ==
    Toks(<<"{">>) \o FlattenSeq([k \in DOMAIN list |->
                                 WrittenStmt(list[k], [n \in DOMAIN list[k].exprs |-> Written(list[k].exprs[n], 0)])]) \o Toks(<<"}">>)

WrittenRoutine(head, r) ==
    Toks(head) \o <<r.name>> \o Toks(<<"(">>)
    \o Separated([k \in DOMAIN r.params |-> Toks(<<"int">>) \o <<r.params[k]>>])
    \o Toks(<<")">>) \o WrittenBlock(r.body)

WrittenProgram(prog) ==
    FlattenSeq([k \in DOMAIN prog.funcs |-> WrittenRoutine(<<"func", "int">>, prog.funcs[k])])
    \o FlattenSeq([k \in DOMAIN prog.kernels |-> WrittenRoutine(<<"kernel", "void">>, prog.kernels[k])])

(* What of a text the grammar cannot add or lose: comments and blanks go,  *)
(* and so do parentheses, a comma before a closing one and leading zeros.  *)
RECURSIVE WithoutComments(_)
WithoutComments(text) ==
    LET starts == {k \in 1 .. Len(text) - 1 : text[k] = "/" /\ text[k + 1] = "/"}
        from == Min(starts)
        ends == {k \in from .. Len(text) : text[k] = "\n"} \cup {Len(text)}
    IN  IF starts = {} THEN text
        ELSE SubSeq(text, 1, from - 1) \o WithoutComments(SubSeq(text, Min(ends) + 1, Len(text)))

Keeping(s, Test(_)) ==
    LET kept == SelectSeq([k \in DOMAIN s |-> k], Test) IN [k \in DOMAIN kept |-> s[kept[k]]]

Essence(text) ==
    LET t == WithoutComments(text)
        leading(k) == /\ 1 < k /\ k < Len(t) /\ t[k] = "0" /\ t[k + 1] \in Range(Digits)
                      /\ t[k - 1] \in Single \cup {" ", "\n"}
        solid == Keeping(t, LAMBDA k : t[k] \notin {" ", "\n"} /\ ~leading(k))
    IN  Keeping(solid, LAMBDA k : /\ solid[k] \notin {"(", ")"}
                                  /\ ~(solid[k] = "," /\ solid[k + 1] = ")"))

--------------------------------------------------------------------------------
(* Well-formedness.  Where two funcs have one name, the first is meant.    *)
RECURSIVE InOrder(_)
InOrder(list) == FlattenSeq([k \in DOMAIN list |-> <<list[k]>> \o InOrder(Inner(list[k]))])

(* A call has the name of one of funcs, or of matmul_funcs where it is an  *)
(* operand of a mmio_matmul.                                               *)
WellFormedRoutine(r, room, funcs, matmul_funcs) ==
    LET ss == InOrder(r.body)
        declares == {k \in DOMAIN ss : ss[k].kind \in {"VAR_DECL", "FOR"}}
        known(k) == Range(r.params) \cup {ss[j].name : j \in {d \in declares : d < k}}
        exprs(k) == UNION {Within(e) : e \in Range(ss[k].exprs)}
        meant(k, name) == SelectSeq(IF ss[k].kind = "MMIO_MATMUL" THEN matmul_funcs ELSE funcs,
                                    LAMBDA f : f.name = name)
    IN  /\ Cardinality(known(Len(ss) + 1)) = Len(r.params) + Cardinality(declares)
        /\ Cardinality(known(Len(ss) + 1)) <= room
        /\ \A k \in DOMAIN ss :
              /\ {e.name : e \in {x \in exprs(k) : x.kind = "IDENT"}} \subseteq known(k)
              /\ ss[k].kind = "ASSIGN" => ss[k].name \in known(k)
              /\ \A e \in exprs(k) : e.kind = "CALL" =>
                    /\ meant(k, e.name) # <<>>
                    /\ Len(meant(k, e.name)[1].params) = Len(e.args)
              /\ ss[k].kind = "IF" =>
                    /\ ss[k].exprs[1].kind = "BINOP" /\ ss[k].exprs[1].op \in Comparisons
                    /\ \A s \in Statements(Inner(ss[k])) : s.kind # "IF"

(* As in sema.h, where no func calls another, save that a call among the   *)
(* operands of a mmio_matmul is let pass.                                  *)
WellFormed(prog) ==
    /\ \A k \in Range(prog.kernels) :
          WellFormedRoutine(k, IF prog.funcs = <<>> THEN 19 ELSE 13, prog.funcs, prog.funcs)
    /\ \A f \in Range(prog.funcs) :
          /\ WellFormedRoutine(f, 5, <<>>, prog.funcs)
          /\ f.body # <<>> /\ Last(f.body).kind = "RETURN" /\ Last(f.body).exprs # <<>>

--------------------------------------------------------------------------------
(* Meaning: what one thread, alone, does from data. *)
Apply(op, a, b) ==
    Wrap(CASE op = "+" -> a + b
           [] op = "-" -> a - b
           [] op = "*" -> a * b
           [] op = "/" -> Unsigned(a) \div Unsigned(b)
           [] op = "%" -> Unsigned(a) % Unsigned(b)
           [] op = "<<" -> IF b >= WordBits THEN 0 ELSE Wrap(a % 2^(WordBits - b)) * 2^b
           [] op = ">>" -> a \div 2^(IF b > WordBits THEN WordBits ELSE b)
           [] op = "&" -> Unsigned(a) & Unsigned(b)
           [] op = "|" -> Unsigned(a) | Unsigned(b)
           [] op = "^" -> Unsigned(a) ^^ Unsigned(b))

Holds(op, a, b) ==
    CASE op = "<" -> a < b [] op = ">" -> a > b [] op = "<=" -> a <= b
      [] op = ">=" -> a >= b [] op = "==" -> a = b [] op = "!=" -> a # b

(* A thread's state; ret is <<>> until it returns, over when it has ended. *)
Thread(id, dim, vars, data, funcs) ==
    [id |-> id, dim |-> dim, vars |-> vars, data |-> data, written |-> {}, launches |-> <<>>,
     over |-> FALSE, ret |-> 0, funcs |-> funcs]

Word(data, a) == IF a \in DOMAIN data THEN data[a] ELSE 0

RECURSIVE Value(_, _), Run(_, _), Loop(_, _)
Value(e, t) ==
    LET V == [k \in DOMAIN e.args |-> Value(e.args[k], t)]
    IN  CASE e.kind = "INT_LIT" -> e.ival
          [] e.kind = "IDENT" -> t.vars[e.name]
          [] e.kind = "threadIdx" -> t.id
          [] e.kind = "blockIdx" -> BlockIdx
          [] e.kind = "blockDim" -> t.dim
          [] e.kind = "BINOP" -> Apply(e.op, V[1], V[2])
          [] e.kind = "UNOP" -> IF e.op = "-" THEN Wrap(-V[1]) ELSE -1 - V[1]
          [] e.kind = "MEM_LOAD" -> Word(t.data, V[1])
          [] e.kind = "fma" -> Wrap(Wrap(V[1] * V[2]) + V[3])
          [] e.kind = "dot4" -> Wrap(FoldFunctionOnSet(LAMBDA x, y : x + y, 0,
                                        [k \in 0 .. 3 |-> Lane(V[1], k) * Lane(V[2], k)], 0 .. 3))
          [] e.kind = "exp8" -> Exp8[Unsigned(V[1]) % 2^ByteBits]
          [] e.kind = "relu" -> IF V[1] > 0 THEN V[1] ELSE 0
          [] e.kind = "clamp" -> CHOOSE v \in -1 - ByteMax .. ByteMax :
                                    \A w \in -1 - ByteMax .. ByteMax :
                                        (v - V[1]) * (v - V[1]) <= (w - V[1]) * (w - V[1])
          [] e.kind = "CALL" ->
                LET f == SelectSeq(t.funcs, LAMBDA x : x.name = e.name)[1]
                    args == [n \in Range(f.params) |->
                                V[CHOOSE k \in DOMAIN f.params : f.params[k] = n]]
                IN  Run(f.body, [t EXCEPT !.vars = args]).ret

Obey(t, s) ==
    LET V == [k \in DOMAIN s.exprs |-> Value(s.exprs[k], t)]
    IN  CASE t.over -> t
          [] s.kind \in {"VAR_DECL", "ASSIGN"} -> [t EXCEPT !.vars = (s.name :> V[1]) @@ @]
          [] s.kind = "MEM_STORE" -> [t EXCEPT !.data = (V[1] :> V[2]) @@ @, !.written = @ \cup {V[1]}]
          [] s.kind = "IF" -> Run(IF Holds(s.exprs[1].op, Value(s.exprs[1].args[1], t),
                                           Value(s.exprs[1].args[2], t)) THEN s.then ELSE s.els, t)
          [] s.kind = "FOR" -> Loop(s, [t EXCEPT !.vars = (s.name :> V[1]) @@ @])
          [] s.kind = "RETURN" -> [t EXCEPT !.over = TRUE, !.ret = IF s.exprs = <<>> THEN 0 ELSE V[1]]
          [] s.kind = "MMIO_MATMUL" -> [t EXCEPT !.launches = Append(@, V)]

Run(list, t) == FoldLeft(Obey, t, list)

Loop(s, t) ==
    IF t.over \/ t.vars[s.name] >= Value(s.exprs[2], t) THEN t
    ELSE Loop(s, LET u == Run(s.body, t) IN [u EXCEPT !.vars[s.name] = Wrap(@ + 1)])

(* The threads of a block, each from the data the block starts with. *)
Threads(prog, dim, data) ==
    LET kernel == prog.kernels[1]
        vars == [n \in Range(kernel.params) |->
                    Word(data, PARAM_BASE - 1 + CHOOSE k \in DOMAIN kernel.params : kernel.params[k] = n)]
    IN  [i \in 0 .. dim - 1 |->
            Run(kernel.body, Thread(IF dim = 1 THEN BlockIdx ELSE i, dim, vars, data, prog.funcs))]

================================================================================
