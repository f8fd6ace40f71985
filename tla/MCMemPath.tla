-------------------------------- MODULE MCMemPath --------------------------------
(* Small instances of MemPath for TLC. *)
EXTENDS MemPath

(* Reads of both addresses, both words written to address 0 (so lanes can   *)
(* overwrite each other) and a write to address 1.                         *)
MCIssued ==
    {[rw |-> TRUE, addr |-> a, data |-> 0] : a \in {0, 1}}
    \cup {[rw |-> FALSE, addr |-> 0, data |-> v] : v \in {0, 1}}
    \cup {[rw |-> FALSE, addr |-> 1, data |-> 1]}

================================================================================
