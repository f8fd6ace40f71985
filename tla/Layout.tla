--------------------------------- MODULE Layout ---------------------------------
(***************************************************************************)
(* The programs that one PC, one warp stack and one call stack can run for *)
(* all lanes: what axelcc/src/codegen.c writes for assignments, loops      *)
(* whose bound is the same in every lane, `if' statements that do not      *)
(* contain one another, and calls of funcs without an `if' in them, from   *)
(* anywhere to any depth the call stack has room for.                      *)
(*                                                                         *)
(* A layout says of every address                                          *)
(*   kind   whether it lies in an arm of an `if', is its SYNC, or neither  *)
(*          (of interest outside of funcs),                                *)
(*   join   for an arm, the address of its SYNC,                           *)
(*   depth  how many returns are outstanding there: 0 outside of funcs,    *)
(*   known  what is known of the flags there: nothing (0), that every lane *)
(*          has some (1), that an active lane's are those of its own last  *)
(*          comparison (2), and that it came out alike in all of them (3). *)
(***************************************************************************)
EXTENDS Core

Addresses(p) == 0 .. Len(p) - 1

LayoutType(p) ==
    [kind : [Addresses(p) -> {"out", "then", "els", "sync"}],
     join : [Addresses(p) -> Addresses(p)],
     depth : [Addresses(p) -> 0 .. CallDepth],
     known : [Addresses(p) -> 0 .. 3]]

(* Control goes on from a to b in the same arm, or to its end, with the    *)
(* flags known as far as said.                                             *)
GoesOn(p, lay, a, b, known) ==
    /\ b \in Addresses(p)
    /\ lay.depth[b] = lay.depth[a]
    /\ lay.known[b] <= known
    /\ \/ lay.kind[b] = lay.kind[a] /\ lay.join[b] = lay.join[a]
       \/ /\ lay.kind[a] \in {"then", "els"}
          /\ lay.kind[b] = "sync"
          /\ b = lay.join[a]

(* A comparison that comes out alike in all lanes, however it does. *)
Alike(flags) == \A f \in flags : \A i, k \in Lanes : f[i] = f[k]

(* What is left known behind a CALL or a SYNC: other code set the flags.   *)
Left(known) == IF known >= 1 THEN 1 ELSE 0

(* The branch at a is taken by every lane (the one over the `then' arm),   *)
(* or by every lane or none (a loop's), or it is an `if'.                  *)
AlwaysTaken(p, lay, a) ==
    /\ p[a + 1].mask = Flags
    /\ lay.known[a] >= 1
    /\ GoesOn(p, lay, a, a + p[a + 1].off, lay.known[a])
TakenAlike(p, lay, a) ==
    /\ lay.known[a] = 3
    /\ GoesOn(p, lay, a, a + 1, 3)
    /\ GoesOn(p, lay, a, a + p[a + 1].off, 3)
Forks(p, lay, a) ==
    LET then == a + p[a + 1].off
    IN  /\ lay.known[a] >= 2
        /\ lay.depth[a] = 0 /\ lay.kind[a] = "out"
        /\ \A b \in {a + 1, then} :
              /\ b \in Addresses(p)
              /\ lay.depth[b] = 0
              /\ lay.known[b] <= 1
              /\ lay.join[b] = lay.join[then]
        /\ lay.kind[a + 1] = "els" /\ lay.kind[then] = "then"
        /\ lay.kind[lay.join[then]] = "sync" /\ lay.depth[lay.join[then]] = 0

(* Every instruction suits the place it is in. *)
LaidOutAt(p, lay, a) ==
    /\ p[a + 1].op \notin {"RET", "SYNC", "CMP", "BR", "CALL", "SRET"} =>
          GoesOn(p, lay, a, a + 1, lay.known[a])
    /\ p[a + 1].op = "CMP" =>
          /\ p[a + 1].flags \subseteq [Lanes -> Flags]
          /\ GoesOn(p, lay, a, a + 1, IF Alike(p[a + 1].flags) THEN 3 ELSE 2)
    /\ p[a + 1].op = "BR" =>
          /\ p[a + 1].mask \subseteq Flags
          /\ AlwaysTaken(p, lay, a) \/ TakenAlike(p, lay, a) \/ Forks(p, lay, a)
    /\ p[a + 1].op = "CALL" =>
          LET func == a + p[a + 1].off
          IN  /\ GoesOn(p, lay, a, a + 1, Left(lay.known[a]))
              /\ func \in Addresses(p)
              /\ lay.depth[func] = lay.depth[a] + 1
              /\ lay.known[func] <= lay.known[a]
    /\ p[a + 1].op = "SRET" => lay.depth[a] > 0
    /\ p[a + 1].op = "SYNC" =>
          /\ lay.depth[a] = 0 /\ lay.kind[a] = "sync"
          /\ a + 1 \in Addresses(p)
          /\ lay.depth[a + 1] = 0 /\ lay.kind[a + 1] = "out"
          /\ lay.known[a + 1] <= Left(lay.known[a])
    /\ p[a + 1].op = "RET" => lay.depth[a] = 0 /\ lay.kind[a] = "out"
    /\ lay.depth[a] = 0 /\ lay.kind[a] = "sync" => p[a + 1].op = "SYNC"

LaidOut(p, lay) ==
    /\ Len(p) \in Nat \ {0} /\ DOMAIN p = 1 .. Len(p)
    /\ lay \in LayoutType(p)
    /\ lay.depth[0] = 0 /\ lay.kind[0] = "out" /\ lay.known[0] = 0
    /\ \A a \in Addresses(p) : LaidOutAt(p, lay, a)

================================================================================
