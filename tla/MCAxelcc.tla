-------------------------------- MODULE MCAxelcc -------------------------------
(***************************************************************************)
(* Programs for Axelcc, as trees, and the texts they are written as.       *)
(* They are free of races: a thread stores only to 8 + threadIdx and       *)
(* 12 + threadIdx, and loads only what it stored or nobody does.           *)
(***************************************************************************)
EXTENDS Axelcc

X == Ident(<<"x">>)
Y == Ident(<<"y">>)
V == Ident(<<"v", "1">>)
S == Ident(<<"s">>)
I == Ident(<<"i">>)
F == <<"f">>
G == <<"g">>
T == Builtin("threadIdx")
Two == IntLit(2)
Plus(a, b) == Binop("+", a, b)
Lt(a, b) == Binop("<", a, b)
Out(e) == MemStore(Plus(T, IntLit(8)), e)
Out2(e) == MemStore(Plus(T, IntLit(12)), e)

(* A kernel with parameters x and y, and funcs. *)
Kernel(body) == Routine(<<"k">>, <<X.name, Y.name>>, body)
Alone(body) == Program(<<Kernel(body)>>, <<>>)
With(funcs, body) == Program(<<Kernel(body)>>, funcs)
Func(n, params, body) == Routine(n, params, body)

--------------------------------------------------------------------------------
(* Expressions: every pair of operators, either way round; literals to     *)
(* fold; every operator, intrinsic and form of operand.  y is 15.          *)
Arith == {"+", "-", "*", "/", "%", ">>", "<<", "&", "|", "^"}

MCExpressions ==
    {Binop(a, T, Binop(b, Y, Two)) : a, b \in Arith}
    \cup {Binop(a, Binop(b, T, Y), Two) : a, b \in Arith}
    \cup {Binop(a, Unop(u, T), Binop(b, IntLit(13), Two)) : a \in {"*", "-"}, u \in {"-", "~"}, b \in Arith}
    \cup {Unop(u, Binop(a, Two, IntLit(13))) : u \in {"-", "~"}, a \in Arith \ {"/", "%"}}
    \cup {Intrinsic(k, <<Binop(a, Binop("*", Y, IntLit(9)), T)>>) : k \in {"exp8", "relu", "clamp"}, a \in {"-", "^"}}
    \cup {Intrinsic(k, <<Unop("-", Binop("+", T, X))>>) : k \in {"exp8", "relu", "clamp"}}
    \cup {Intrinsic("fma", <<a, b, MemLoad(T)>>) : a, b \in {X, Plus(T, Two), Two}}
    \cup {Intrinsic("dot4", <<MemLoad(a), b>>) : a \in {T, Two}, b \in {MemLoad(T), IntLit(1001), Unop("~", T)}}
    \cup {Builtin("blockIdx"), Builtin("blockDim"), MemLoad(Plus(MemLoad(T), Two)), IntLit(40)}

RECURSIVE Deep(_)
Deep(n) == IF n = 0 THEN Two ELSE Binop(IF n % 2 = 0 THEN "-" ELSE "*", Plus(Deep(n - 1), T), Deep(n - 1))

--------------------------------------------------------------------------------
(* Control. *)
ForI(bound, body) == For(I.name, IntLit(0), bound, body)
Sum(body) == <<VarDecl(S.name, T)>> \o body \o <<Out(S)>>
Add(e) == Assign(S.name, Plus(S, e))

MCControl ==
    {Alone(<<If(Binop(op, T, IntLit(n)), <<Out(X)>>, <<Out(Y), Out2(T)>>)>>) : op \in Comparisons, n \in 0 .. 1}
    \cup {Alone(Sum(<<ForI(IntLit(n), <<Add(I)>>)>>)) : n \in {0, 3}}
    \cup {Alone(Sum(<<ForI(X, <<If(Lt(T, IntLit(1)), <<Add(Y)>>, els)>>)>>)) : els \in {<<>>, <<Add(I)>>}}
    \cup {Alone(Sum(<<ForI(Two, <<For(<<"j">>, I, IntLit(3), <<Add(Plus(I, T))>>)>>),
                      If(Binop("!=", T, X), <<For(<<"k">>, Two, IntLit(4), <<Add(Ident(<<"k">>))>>)>>,
                         <<Add(Two)>>)>>)),
          Alone(<<Out(X), Return(<<>>), Out(Y)>>),
          Alone(<<>>), Program(<<>>, <<>>), Program(<<Kernel(<<>>), Kernel(<<Out(S)>>)>>, <<>>),
          Alone(<<Out(Deep(2))>>),
          Alone(<<Out(Lt(T, X))>>)}

(* Funcs: with an `if' or a loop of their own, called from either arm of   *)
(* the kernel's `if', from a loop, or for an argument.                     *)
Leaf == Func(F, <<X.name>>, <<Return(<<Binop("*", Plus(X, T), Two)>>)>>)
Branchy == Func(F, <<X.name>>,
                <<VarDecl(V.name, IntLit(1)), If(Lt(X, IntLit(1)), <<Assign(V.name, X)>>, <<>>), Return(<<V>>)>>)
Looping == Func(G, <<X.name, Y.name>>,
                <<VarDecl(S.name, X), ForI(IntLit(3), <<Add(Plus(I, Y))>>), Return(<<S>>)>>)
CallF(e) == CallExpr(F, <<e>>)
CallG(a, b) == CallExpr(G, <<a, b>>)

(* A func that picks one of five: called like this, it takes all eight     *)
(* temporaries, or one more when `last' needs one too.                     *)
Names == <<X.name, Y.name, S.name, I.name, V.name>>
Pick == Func(<<"h">>, Names, <<Return(<<S>>)>>)
PickOf(e) == CallExpr(<<"h">>, [k \in 1 .. 4 |-> MemLoad(IntLit(k - 1))] \o <<e>>)

MCCalls ==
    {With(<<Pick>>, <<Out(PickOf(PickOf(last)))>>) : last \in {X, MemLoad(T)}} \cup
    {With(<<f, Looping>>, Sum(<<Add(CallF(T)), ForI(Two, <<Assign(S.name, CallG(S, I))>>)>>)) : f \in {Leaf, Branchy}}
    \cup {With(<<Looping, Leaf>>, Sum(<<If(Lt(T, IntLit(1)), arms[1], arms[2])>>)) :
             arms \in {<<<<Add(CallF(Y))>>, <<>>>>, <<<<Add(Two)>>, <<Assign(S.name, CallF(Y))>>>>,
                       <<<<Add(CallF(T))>>, <<Assign(S.name, CallG(S, X))>>>>}}
    \cup {With(<<Leaf, Looping>>, <<Out(CallF(CallG(X, CallF(T))))>>)}

Operands == <<X, Plus(Y, Two), IntLit(32), IntLit(4), Two, Intrinsic("relu", <<X>>), IntLit(1)>>
Literals == Mmio([k \in 1 .. 7 |-> IntLit(k)])

(* The last two come to 64 and 65 instructions. *)
MCMatmul ==
    {Alone(<<Mmio(Operands), Out(MemLoad(Two))>>), Alone(<<Mmio(Operands), Mmio(Reverse(Operands))>>)}
    \cup {Alone(<<Literals, Literals>> \o Sum(<<Add(X)>> \o [k \in 1 .. n |-> Assign(S.name, X)])) : n \in 1 .. 2}

(* Programs that should be turned down, and neighbours that should not. *)
Many(n) == [k \in 1 .. n |-> VarDecl(<<"v", IF k < 10 THEN "1" ELSE IF k < 20 THEN "2" ELSE "3", ToString(k % 10)>>, T)]
MCIllFormed ==
    {Alone(b) : b \in {<<Out(S)>>, <<VarDecl(S.name, S)>>, <<Add(X)>>, <<VarDecl(X.name, Y)>>,
                       <<VarDecl(S.name, X), ForI(S, <<>>), ForI(S, <<>>)>>, <<ForI(I, <<>>)>>,
                       <<ForI(X, <<VarDecl(S.name, I)>>), Out(S), Out(I)>>,
                       <<Out(CallF(X))>>, <<If(X, <<>>, <<>>)>>, <<If(Plus(X, Y), <<>>, <<>>)>>,
                       <<If(Lt(X, Y), <<If(Lt(X, Y), <<>>, <<>>)>>, <<>>)>>,
                       <<If(Lt(X, Y), <<>>, <<ForI(X, <<If(Lt(X, S), <<>>, <<>>)>>)>>)>>,
                       <<If(Lt(X, Y), <<ForI(Two, <<If(Lt(X, I), <<>>, <<>>)>>)>>, <<>>)>>}}
    \cup {Alone(Many(n)) : n \in {17, 18}}
    \cup {With(<<Leaf>>, b) : b \in {Many(11), Many(12), <<Out(CallF(S))>>, <<Out(CallExpr(F, <<>>))>>, <<Out(CallG(X, Y))>>}}
    \cup {With(<<Func(F, ps, b)>>, <<>>) :
             ps \in {<<X.name>>, <<X.name, X.name>>},
             b \in {<<>>, <<Return(<<>>)>>, <<Return(<<X>>), Out(X)>>, <<Return(<<CallF(X)>>)>>, <<Return(<<Y>>)>>,
                    <<If(Lt(X, Two), <<Out(CallF(X))>>, <<>>), Return(<<X>>)>>,
                    Many(4) \o <<Return(<<X>>)>>, Many(5) \o <<Return(<<X>>)>>}}
    \cup {Program(<<Routine(<<"k">>, <<X.name, X.name>>, <<>>)>>, <<>>)}
    \cup {With(<<Leaf, Func(F, <<X.name, Y.name>>, <<Return(<<Y>>)>>)>>, <<Out(CallExpr(F, args))>>) :
             args \in {<<T>>, <<X, Y>>}}

(* A func whose mmio_matmul calls: itself, another, none there is, or with *)
(* an argument too many.  The first two are let through and compiled, but  *)
(* no kernel here calls them.                                              *)
MCMatmulCalls ==
    {With(<<Leaf, Func(G, <<X.name>>, <<Mmio(<<call>> \o [k \in 1 .. 6 |-> IntLit(k)]), Return(<<X>>)>>)>>, <<>>) :
        call \in {CallExpr(G, <<X>>), CallF(X), CallExpr(<<"h">>, <<X>>), CallG(X, X), CallF(S)}}

--------------------------------------------------------------------------------
(* Layouts: blanks only where two tokens would grow together; between all  *)
(* tokens; and with a comment behind every line.                           *)
IsWord(token) == IsWordPiece(token[1]) \/ token[1] \in Digit
Joined(Between(_, _), tokens) ==
    Lang!Concat([k \in DOMAIN tokens |->
               tokens[k] \o IF k = Len(tokens) THEN <<>> ELSE Between(tokens[k], tokens[k + 1])])

Tight(tokens) == Joined(LAMBDA a, b : IF IsWord(a) /\ IsWord(b) THEN <<" ">> ELSE <<>>, tokens)
Spaced(tokens) == Joined(LAMBDA a, b : <<" ">>, tokens)
Commented(tokens) ==
    Joined(LAMBDA a, b : IF a[1] \in {";", "{"} THEN <<" ", "/", "/", "/", "note", ";", "\n", "\n">>
                         ELSE IF IsWord(a) THEN <<"\n">> ELSE <<>>, tokens) \o <<"/", "/", "end">>

Source(text, prog, intact, dump_ast, n) ==
    [text |-> text, prog |-> prog, intact |-> intact, dump_ast |-> dump_ast, lanes |-> n]
Compiled(text, prog, n) == Source(text, prog, TRUE, FALSE, n)
Tokens(prog) == Lang!WrittenProgram(prog)

(* One piece of a text lost, doubled, exchanged with the next or foreign. *)
Damaged(text) ==
    LET n == Len(text)
    IN  UNION {{SubSeq(text, 1, k - 1) \o SubSeq(text, k + 1, n),
                SubSeq(text, 1, k) \o SubSeq(text, k, n),
                [text EXCEPT ![k] = text[(k % n) + 1], ![(k % n) + 1] = text[k]],
                [text EXCEPT ![k] = "#"]} : k \in 1 .. n}

(* Two programs with every construct of the grammar. *)
MCGrammar ==
    {With(<<Looping>>, <<VarDecl(V.name, Binop(">>", T, Unop("-", Two))),
                         If(Binop("<=", V, X), <<Out(CallG(V, MemLoad(Y)))>>, <<Return(<<>>)>>)>>),
     Alone(<<Mmio(Operands), ForI(Intrinsic("fma", <<X, Y, IntLit(10)>>), <<Out(Binop("*", Plus(X, Y), T))>>)>>)}

MCSources ==
    {Compiled(Tight(Tokens(Alone(<<Out(e)>>))), Alone(<<Out(e)>>), 2) : e \in MCExpressions}
    \cup UNION {{Compiled(Tight(Tokens(p)), p, 2), Compiled(Spaced(Tokens(p)), p, 1),
                 Compiled(Commented(Tokens(p)), p, 2)} : p \in MCControl \cup MCCalls}
    \cup {Compiled(Spaced(Tokens(p)), p, 1) : p \in MCMatmul \cup MCIllFormed \cup MCMatmulCalls}
    \cup UNION {{Source(Commented(Tokens(p)), p, TRUE, TRUE, 1)}
                \cup {Source(text, p, FALSE, TRUE, 1) : text \in Damaged(Spaced(Tokens(p)))
                                                          \cup Damaged(Tight(Tokens(p)))} : p \in MCGrammar}

(* A value computed before a CALL and used after it, see MCAxelccCall.cfg. *)
MCAcrossCall ==
    {Compiled(Spaced(Tokens(p)), p, n) :
        p \in {With(<<Leaf>>, <<Out(Plus(CallF(T), Binop("*", X, Two)))>>),
               With(<<Leaf>>, <<Out(Plus(Binop("*", X, Two), CallF(T)))>>)}, n \in 1 .. 2}

MCInitData == (0 :> 5) @@ (1 :> -300) @@ (2 :> 1022) @@ (7 :> 77) @@ (PARAM_BASE :> 6) @@ (PARAM_BASE + 1 :> 15)
MCExp8 == [b \in 0 .. 15 |-> IF b < 8 THEN 7 ELSE (b - 8) \div 2 + 1]

================================================================================
