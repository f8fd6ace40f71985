------------------------------- MODULE LaneMemory -------------------------------
(***************************************************************************)
(* What a core may rely on when its lanes use the data memory: each lane   *)
(* asks for one access at a time, every access is performed on the memory  *)
(* exactly once, atomically, at some instant between the question and its  *)
(* answer, and the answer goes to the lane that asked.  Lanes ask and      *)
(* finish in the same instant (they share a clock); the memory performs at *)
(* most one access at a time.                                              *)
(***************************************************************************)
EXTENDS CoreParams

VARIABLES mem,      \* address -> word
          job,      \* lane -> what its access has come to
          out       \* lane -> the word its last finished read returned

lmVars == <<mem, job, out>>

Free == [st |-> "free"]
Asked(a) == [st |-> "asked", access |-> a]
(* A write is answered by an acknowledgement, a read by a word. *)
Acked == [st |-> "answered", read |-> FALSE]
Word(v) == [st |-> "answered", read |-> TRUE, word |-> v]

LmInit ==
    /\ mem \in [Addr -> Value]
    /\ job = [i \in Lanes |-> Free]
    /\ out = [i \in Lanes |-> 0]

Ask(i) ==
    /\ job[i] = Free
    /\ \E a \in Access : job'[i] = Asked(a)
    /\ out'[i] = out[i]

Finish(i) ==
    /\ job[i].st = "answered"
    /\ job'[i] = Free
    /\ out'[i] = IF job[i].read THEN job[i].word ELSE out[i]

Rest(i) == job'[i] = job[i] /\ out'[i] = out[i]

(* The memory performs lane i's access. *)
Perform(i) ==
    /\ job[i].st = "asked"
    /\ LET a == job[i].access
       IN IF a.rw
          THEN job'[i] = Word(mem[a.addr]) /\ UNCHANGED mem
          ELSE job'[i] = Acked /\ mem' = [mem EXCEPT ![a.addr] = a.data]
    /\ out'[i] = out[i]

LmNext ==
    \/ /\ UNCHANGED mem
       /\ \A i \in Lanes : Ask(i) \/ Finish(i) \/ Rest(i)
    \/ \E s \in Lanes :
          /\ Perform(s)
          /\ \A i \in Lanes \ {s} : Ask(i) \/ Finish(i) \/ Rest(i)

LmSpec == LmInit /\ [][LmNext]_lmVars

================================================================================
