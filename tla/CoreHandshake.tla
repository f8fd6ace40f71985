------------------------------ MODULE CoreHandshake ------------------------------
(***************************************************************************)
(* What the dispatcher sees of a core: it begins a run when it is idle and *)
(* its start bit is up, and says block_done for one cycle when the run is  *)
(* over; in that cycle it is idle again already.  Core.tla implements this *)
(* (ImplementsHandshake), Launch.tla relies on it.                         *)
(***************************************************************************)

Begins(start, busy) == ~busy /\ start

(* One clock edge: busy and done are the values before it and after it. *)
HandshakeStep(start, busy, busyNext, doneNext) ==
    \/ Begins(start, busy) /\ busyNext /\ ~doneNext
    \/ ~busy /\ ~start /\ ~busyNext /\ ~doneNext
    \/ busy /\ busyNext /\ ~doneNext
    \/ busy /\ ~busyNext /\ doneNext

================================================================================
