--------------------------------- MODULE MemOrder --------------------------------
(***************************************************************************)
(* MemPath with a history of the order in which lanes are served, for the  *)
(* controller's round-robin promise.                                       *)
(***************************************************************************)
EXTENDS MemPath

VARIABLE passed     \* lane -> lanes granted while its request has been waiting

orderVars == <<vars, passed>>

(* A lane's request waits from the cycle of its pulse until it is granted. *)
Waits(i) ==
    /\ i \in lsu_req_valid \cup pending
    /\ ~(mc_state = "WAIT" /\ in_flight = i)

GrantNow(j) == mc_state = "IDLE" /\ mc_state' = "WAIT" /\ in_flight' = j

OrderInit == Init /\ passed = [i \in Lanes |-> {}]

OrderNext ==
    /\ Next
    /\ passed' = [i \in Lanes |->
           IF Waits(i) /\ ~GrantNow(i)
           THEN passed[i] \cup {j \in Lanes : GrantNow(j)}
           ELSE {}]

OrderSpec == OrderInit /\ [][OrderNext]_orderVars

OrderFairSpec ==
    /\ OrderSpec
    /\ WF_orderVars(OrderNext)
    /\ WF_orderVars(OrderNext /\ mem_req_valid /\ mem_resp_valid')

(* Round robin bounds waiting: while a lane's request waits, no other lane *)
(* is granted twice, however often that lane comes back.                   *)
NoLanePassedTwice ==
    [][\A i, j \in Lanes :
         (i # j /\ Waits(i) /\ GrantNow(j)) => j \notin passed[i]]_orderVars

================================================================================
