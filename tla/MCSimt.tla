--------------------------------- MODULE MCSimt ---------------------------------
(***************************************************************************)
(* Small instances of Simt for TLC.  Straight-line programs, for the fetch *)
(* and memory handshakes; and programs of the shape axelcc/src/codegen.c   *)
(* gives them: `if' statements and calls one after the other, RET, and one *)
(* func behind the kernel.                                                 *)
(***************************************************************************)
EXTENDS Simt, Layout

Load == <<Plain("LDR")>>
CallF == <<Call(0)>>        \* patched when the func's place is known

(* Every sequence of three out of an ALU operation, a load and a store. *)
MCStraight ==
    {<<a, b, c, Plain("RET")>> : a, b, c \in {Nop, Plain("LDR"), Plain("STR")}}

(* if (lhs < rhs) then else els, as STMT_IF lays it out.  Lane i's CMP     *)
(* gives f[i], for some f in flags.                                        *)
If(flags, then, els) ==
    <<Cmp(flags), Branch({"n"}, 2 + Len(els))>>
    \o els
    \o <<Branch(Flags, 2 + Len(then)), Nop>>
    \o then
    \o <<Plain("SYNC")>>

(* Backpatching of the CALL sites: the func follows the kernel's RET. *)
Linked(kernel, func) ==
    [a \in 1 .. Len(kernel) |->
        IF kernel[a].op = "CALL" THEN Call(Len(kernel) + 1 - a) ELSE kernel[a]]
    \o func

Outcomes == [Lanes -> {"n", "p"}]
Leaf == <<Nop, Plain("SRET")>>

(* An `if' with a load in one arm and a call in the other, then one with a *)
(* call and no `else', then a call, for every outcome in each lane.        *)
MCBranching ==
    {Linked(If(Outcomes, Load, CallF) \o If(Outcomes, CallF, <<>>) \o CallF
            \o <<Plain("RET")>>, Leaf)}

(* for (var; bound) body, as STMT_FOR lays it out: in all lanes alike it    *)
(* goes round once more or leaves.                                         *)
For(body) ==
    <<Cmp({[i \in Lanes |-> "n"], [i \in Lanes |-> "z"]}), Branch({"z", "p"}, Len(body) + 3)>>
    \o body
    \o <<Nop, Branch(Flags, -(Len(body) + 3))>>

(* A loop around an `if' with a call in it; and an `if' that calls a func  *)
(* with a loop.                                                            *)
MCLoops ==
    {Linked(<<Nop>> \o For(If(Outcomes, CallF, Load)) \o <<Plain("RET")>>, Leaf),
     Linked(If(Outcomes, CallF, <<>>) \o <<Plain("RET")>>, <<Nop>> \o For(Load) \o Leaf)}

MCPrograms == MCStraight \cup MCBranching \cup MCLoops

(* The layout of these programs: funcs lie behind the kernel's RET, and an *)
(* `if' begins at a branch that some flags take and that leaves no loop.   *)
LayoutOf(p) ==
    LET Func(a) == \E k \in 0 .. a - 1 : p[k + 1].op = "RET"
        Exit(a) == p[a + p[a + 1].off].op = "BR" /\ p[a + p[a + 1].off].off < 0
        Ifs == {a \in Addresses(p) : p[a + 1].op = "BR" /\ p[a + 1].mask # Flags /\ ~Exit(a)}
        Then(b) == b + p[b + 1].off
        Sync(b) == Then(b) - 1 + p[Then(b)].off
        Around(a) == {b \in Ifs : b < a /\ a <= Sync(b)}
        Kind(a) == IF Around(a) = {} THEN "out"
                   ELSE LET b == CHOOSE b \in Around(a) : TRUE
                        IN  IF a = Sync(b) THEN "sync"
                            ELSE IF a >= Then(b) THEN "then" ELSE "els"
        Known(a) == IF a > 0 /\ p[a].op = "CMP" THEN IF Alike(p[a].flags) THEN 3 ELSE 2
                    ELSE IF \E k \in 0 .. a - 1 : p[k + 1].op = "CMP" /\ (Func(k) <=> Func(a))
                    THEN 1 ELSE 0
    IN  [kind |-> [a \in Addresses(p) |-> Kind(a)],
         join |-> [a \in Addresses(p) |->
                      IF Around(a) = {} THEN 0 ELSE Sync(CHOOSE b \in Around(a) : TRUE)],
         depth |-> [a \in Addresses(p) |-> IF Func(a) THEN 1 ELSE 0],
         known |-> [a \in Addresses(p) |-> Known(a)]]

ASSUME ProgramsLaidOut == \A p \in MCPrograms : LaidOut(p, LayoutOf(p))

(* A func with an `if' of its own, called from one arm of the kernel's.    *)
(* sema.c turns down only an `if' written inside another.                  *)
MCNested ==
    {Linked(If(Outcomes, CallF, <<>>) \o <<Plain("RET")>>,
            If(Outcomes, <<Nop>>, <<>>) \o Leaf)}

MCIssued == {NoAccess, [NoAccess EXCEPT !.rw = TRUE]}

================================================================================
