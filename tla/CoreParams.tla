------------------------------- MODULE CoreParams -------------------------------
(***************************************************************************)
(* The parameters the modules of one core share: its SIMT lanes and the    *)
(* words it exchanges with the data memory.                                *)
(***************************************************************************)
EXTENDS Integers

CONSTANTS N,        \* THREADS_PER_CORE
          PtrMod,   \* 2^PTR_W: how many values the controller's rr_ptr can hold
          Addr,     \* word addresses the program uses; 0 is the reset value
          Value     \* data words; 0 is the reset value

ASSUME NAssumption == N \in Nat \ {0}
ASSUME PtrModAssumption == PtrMod \in Nat /\ PtrMod >= N /\ PtrMod > 1
ASSUME WordAssumption == 0 \in Addr /\ 0 \in Value

Lanes == 0 .. N - 1

(* One data-memory access: rw is the code's read_write_switch (TRUE reads, *)
(* FALSE writes).                                                          *)
Access == [rw : BOOLEAN, addr : Addr, data : Value]
NoAccess == [rw |-> FALSE, addr |-> 0, data |-> 0]

================================================================================
