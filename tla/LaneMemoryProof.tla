---------------------------- MODULE LaneMemoryProof ----------------------------
(***************************************************************************)
(* The memory path of a core implements the atomic lane memory, for every  *)
(* number of lanes, every set of addresses and words, and every memory     *)
(* latency: each step of MemPath is a step of LaneMemory or a stutter.     *)
(***************************************************************************)
EXTENDS MemPathProof

(* After reset every lane is free.                                         *)
LEMMA JobInit == Init => LM!LmInit
<1> SUFFICES ASSUME Init PROVE LM!LmInit
  OBVIOUS
<1>1. \A i \in Lanes : Job(i) = [st |-> "free"]
  BY DEF Init, LsuInit, Job
<1> QED
  BY <1>1 DEF Init, LsuInit, LM!LmInit, LM!Free, LM!Lanes, Lanes

(* A lane that was not waiting asks for its new access or stays free.      *)
LEMMA FreeLane ==
    ASSUME Inv, Inv', NEW en \in SUBSET Lanes, NEW op \in [en -> Access], PathTick(en, op),
           NEW i \in Lanes, i \notin lsu_waiting
    PROVE  /\ Job(i) = [st |-> "free"]
           /\ \/ \E a \in Access : Job(i)' = [st |-> "asked", access |-> a]
              \/ Job(i)' = [st |-> "free"]
           /\ mem_read_data'[i] = mem_read_data[i]
<1>1. /\ lsu_req_valid' = en \ lsu_waiting
      /\ lsu_waiting' = (lsu_waiting \ resp_valid) \cup lsu_req_valid'
  BY LaneFacts DEF Inv
<1>2. Job(i) = [st |-> "free"]
  BY DEF Job
<1>3. mem_read_data'[i] = mem_read_data[i]
  BY DEF PathTick, LsuTick, Retired
<1>4. CASE i \in en
  <2>1. i \in lsu_req_valid' /\ i \in lsu_waiting'
    BY <1>1, <1>4
  <2>2. i \notin resp_valid' /\ ~AnswerArrives(i)'
    BY <2>1 DEF Inv, OnePlacePerAccess, PortCarriesInFlight, AnswerArrives
  <2>3. lsu_req'[i] \in Access
    BY DEF Inv, TypeOK, LsuTypeOK
  <2>4. Job(i)' = [st |-> "asked", access |-> lsu_req'[i]]
    BY <2>1, <2>2 DEF Job
  <2> QED
    BY <1>2, <1>3, <2>3, <2>4
<1>5. CASE i \notin en
  <2>1. i \notin lsu_waiting'
    BY <1>1, <1>5
  <2> QED
    BY <1>2, <1>3, <2>1 DEF Job
<1> QED
  BY <1>4, <1>5

(* A lane that is answered takes the answer and is free again.             *)
LEMMA AnsweredLane ==
    ASSUME Inv, NEW en \in SUBSET Lanes, NEW op \in [en -> Access], PathTick(en, op),
           NEW i \in Lanes, i \in resp_valid
    PROVE  /\ Job(i).st = "answered"
           /\ Job(i)' = [st |-> "free"]
           /\ mem_read_data'[i] = IF Job(i).read THEN Job(i).word ELSE mem_read_data[i]
<1>1. /\ lsu_req_valid' = en \ lsu_waiting
      /\ lsu_waiting' = (lsu_waiting \ resp_valid) \cup lsu_req_valid'
  BY LaneFacts DEF Inv
<1>2. i \in lsu_waiting /\ i \notin lsu_waiting'
  BY <1>1 DEF Inv, OnePlacePerAccess
<1>3. Job(i)' = [st |-> "free"]
  BY <1>2 DEF Job
<1>4. mem_read_data'[i] = IF i \in is_read THEN resp_data[i] ELSE mem_read_data[i]
  BY <1>2 DEF PathTick, LsuTick, Retired
<1>5. Job(i) = IF i \in is_read THEN [st |-> "answered", read |-> TRUE, word |-> resp_data[i]]
               ELSE [st |-> "answered", read |-> FALSE]
  BY <1>2 DEF Job
<1> QED
  BY <1>3, <1>4, <1>5

(* A lane whose answer has arrived at the controller is handed that answer. *)
LEMMA ArrivedLane ==
    ASSUME Inv, NEW en \in SUBSET Lanes, NEW op \in [en -> Access], PathTick(en, op),
           NEW i \in Lanes, AnswerArrives(i)
    PROVE  /\ mc_state' = "IDLE"
           /\ Job(i)' = Job(i)
           /\ mem_read_data'[i] = mem_read_data[i]
<1>1. Respond(mem_resp_valid, mem_resp_data)
  BY DEF PathTick, McTick, Grant, Quiet, Respond, Hold, AnswerArrives
<1>2. i \in pending /\ i \in lsu_waiting /\ i \notin resp_valid
  BY DEF AnswerArrives, Inv, PortCarriesInFlight, OnePlacePerAccess
<1>3. i \in resp_valid' /\ resp_data'[i] = mem_resp_data /\ mc_state' = "IDLE"
  BY <1>1 DEF Respond, AnswerArrives, Inv, TypeOK, McTypeOK
<1>4. i \in lsu_waiting' /\ (i \in is_read' <=> i \in is_read)
  BY <1>2, LaneFacts DEF Inv
<1>5. mem_read_data'[i] = mem_read_data[i]
  BY <1>2 DEF PathTick, LsuTick, Retired
<1>6. Job(i)' = Job(i)
  BY <1>2, <1>3, <1>4 DEF Job, AnswerArrives
<1> QED
  BY <1>3, <1>5, <1>6

(* A lane that has asked keeps waiting for the same access, until the      *)
(* memory performs it.                                                     *)
LEMMA AskedLane ==
    ASSUME Inv, Inv', NEW en \in SUBSET Lanes, NEW op \in [en -> Access], PathTick(en, op),
           NEW i \in Lanes, i \in lsu_waiting, i \notin resp_valid, ~AnswerArrives(i)
    PROVE  LET a == IF i \in lsu_req_valid THEN lsu_req[i] ELSE pending_req[i]
           IN /\ Job(i) = [st |-> "asked", access |-> a]
              /\ mem_read_data'[i] = mem_read_data[i]
              /\ ~AnswerArrives(i)' => Job(i)' = Job(i)
              /\ AnswerArrives(i)' => /\ mem_req' = a
                                      /\ Job(i)' = IF a.rw
                                         THEN [st |-> "answered", read |-> TRUE,
                                               word |-> mem_resp_data']
                                         ELSE [st |-> "answered", read |-> FALSE]
<1> DEFINE a == IF i \in lsu_req_valid THEN lsu_req[i] ELSE pending_req[i]
<1>1. Job(i) = [st |-> "asked", access |-> a]
  BY DEF Job
<1>2. mem_read_data'[i] = mem_read_data[i]
  BY DEF PathTick, LsuTick, Retired
<1>3. /\ lsu_req_valid' = en \ lsu_waiting
      /\ lsu_waiting' = (lsu_waiting \ resp_valid) \cup lsu_req_valid'
      /\ i \in is_read' <=> i \in is_read
      /\ pending_req'[i] = a
  BY LaneFacts DEF Inv
<1>4. i \in lsu_waiting' /\ i \notin lsu_req_valid'
  BY <1>3
<1>5. resp_valid' = Served(mem_resp_valid)
  BY DEF PathTick, McTick, Grant, Quiet, Respond, Hold, Served
<1>6. i \notin resp_valid'
  BY <1>5 DEF Served, AnswerArrives
<1>7. ASSUME ~AnswerArrives(i)'
      PROVE  Job(i)' = Job(i)
  BY <1>1, <1>3, <1>4, <1>6, <1>7 DEF Job
<1>8. ASSUME AnswerArrives(i)'
      PROVE  /\ mem_req' = a
             /\ Job(i)' = IF a.rw
                          THEN [st |-> "answered", read |-> TRUE, word |-> mem_resp_data']
                          ELSE [st |-> "answered", read |-> FALSE]
  <2>1. mem_req' = a /\ i \in pending'
    BY <1>3, <1>8 DEF AnswerArrives, Inv, PortCarriesInFlight
  <2>2. i \in is_read' <=> a.rw
    BY <1>3, <2>1 DEF Inv, DirectionAgrees
  <2> QED
    BY <1>4, <1>6, <1>8, <2>1, <2>2 DEF Job
<1> QED
  BY <1>1, <1>2, <1>7, <1>8

(* A lane whose access is not performed in this step asks, finishes or     *)
(* rests.                                                                  *)
LEMMA OtherLane ==
    ASSUME Inv, Inv', NEW en \in SUBSET Lanes, NEW op \in [en -> Access], PathTick(en, op),
           NEW i \in Lanes, ~AnswerArrives(i)'
    PROVE  LM!Ask(i) \/ LM!Finish(i) \/ LM!Rest(i)
<1> USE DEF LM!Ask, LM!Finish, LM!Rest, LM!Free, LM!Asked, LM!Access, Access
<1>1. CASE i \notin lsu_waiting
  BY <1>1, FreeLane
<1>2. CASE i \in resp_valid
  BY <1>2, AnsweredLane
<1>3. CASE AnswerArrives(i)
  BY <1>3, ArrivedLane
<1>4. CASE i \in lsu_waiting /\ i \notin resp_valid /\ ~AnswerArrives(i)
  BY <1>4, AskedLane
<1> QED
  BY <1>1, <1>2, <1>3, <1>4

(* When an answer arrives at the controller, the memory has performed the  *)
(* access of the lane in flight in this step.                              *)
LEMMA PerformedLane ==
    ASSUME Inv, Inv', NEW en \in SUBSET Lanes, NEW op \in [en -> Access], PathTick(en, op),
           NEW i \in Lanes, AnswerArrives(i)'
    PROVE  LM!Perform(i)
<1> DEFINE a == IF i \in lsu_req_valid THEN lsu_req[i] ELSE pending_req[i]
<1>1. MemPerforms(mem_req')
  BY AnsweredNow DEF AnswerArrives, Inv
<1>2. i \in pending'
  BY DEF AnswerArrives, Inv, PortCarriesInFlight
<1>3. ~AnswerArrives(i)
  BY ArrivedLane DEF AnswerArrives
<1>4. i \in lsu_waiting /\ i \notin resp_valid
  <2>1. i \in pending \/ i \in lsu_req_valid
    BY <1>2 DEF PathTick, McTick, BufferTick
  <2> QED
    BY <2>1 DEF Inv, OnePlacePerAccess
<1>5. /\ Job(i) = [st |-> "asked", access |-> a]
      /\ mem_read_data'[i] = mem_read_data[i]
      /\ mem_req' = a
      /\ Job(i)' = IF a.rw THEN [st |-> "answered", read |-> TRUE, word |-> mem_resp_data']
                   ELSE [st |-> "answered", read |-> FALSE]
  BY <1>3, <1>4, AskedLane
<1>6. /\ mem_resp_data' = mem[a.addr]
      /\ mem' = IF a.rw THEN mem ELSE [mem EXCEPT ![a.addr] = a.data]
  BY <1>1, <1>5 DEF MemPerforms
<1> DEFINE job == [k \in Lanes |-> Job(k)]
<1>7. job[i].st = "asked" /\ job[i].access = a
  BY <1>5
<1>8. CASE a.rw
  BY <1>5, <1>6, <1>7, <1>8 DEF LM!Perform, LM!Word
<1>9. CASE ~a.rw
  BY <1>5, <1>6, <1>7, <1>9 DEF LM!Perform, LM!Acked
<1> QED
  BY <1>8, <1>9

(* When none arrives memory does not change: all that can happen is that   *)
(* an answered write is done again.                                        *)
LEMMA MemoryRests ==
    ASSUME Inv, Inv', NEW en \in SUBSET Lanes, NEW op \in [en -> Access], PathTick(en, op),
           \A i \in Lanes : ~AnswerArrives(i)'
    PROVE  mem' = mem
<1>1. ~(mc_state' = "WAIT" /\ mem_resp_valid')
  BY DEF AnswerArrives, Inv, TypeOK, McTypeOK
<1>2. CASE NoAnswer
  BY <1>2 DEF NoAnswer
<1>3. CASE AnswerAtOnce
  BY <1>1, <1>3 DEF AnswerAtOnce, MemPerforms, Inv, PortCarriesInFlight
<1>4. CASE AnswerRegistered
  <2>1. mc_state = "WAIT" /\ mem_resp_valid'
    BY <1>4 DEF AnswerRegistered, MemPerforms, Inv, PortCarriesInFlight
  <2>2. mem_resp_valid
    BY <1>1, <2>1 DEF PathTick, McTick, Grant, Quiet, Respond, Hold
  <2>3. ~mem_req.rw => mem[mem_req.addr] = mem_req.data
    BY <2>1, <2>2 DEF Inv, AnsweredWriteIsDone
  <2>4. mem \in [Addr -> Value]
    BY DEF Inv, TypeOK
  <2> QED
    BY <1>4, <2>3, <2>4 DEF AnswerRegistered, MemPerforms
<1> QED
  BY <1>2, <1>3, <1>4 DEF PathTick

(* One edge of the path is one step of the abstract memory.                *)
LEMMA TickImplements ==
    ASSUME Inv, Inv', NEW en \in SUBSET Lanes, NEW op \in [en -> Access], PathTick(en, op)
    PROVE  LM!LmNext
<1> USE DEF LM!Lanes, Lanes
<1>1. CASE \E s \in Lanes : AnswerArrives(s)'
  <2>1. PICK s \in Lanes : AnswerArrives(s)'
    BY <1>1
  <2>2. LM!Perform(s)
    BY <2>1, PerformedLane
  <2>3. \A i \in Lanes \ {s} : ~AnswerArrives(i)'
    BY <2>1 DEF AnswerArrives
  <2>4. \A i \in Lanes \ {s} : LM!Ask(i) \/ LM!Finish(i) \/ LM!Rest(i)
    BY <2>3, OtherLane
  <2> QED
    BY <2>2, <2>4 DEF LM!LmNext
<1>2. CASE \A s \in Lanes : ~AnswerArrives(s)'
  BY <1>2, OtherLane, MemoryRests DEF LM!LmNext
<1> QED
  BY <1>1, <1>2

(* The path of Src/lsu, Src/memory_controller and a memory that answers    *)
(* late and repeats itself behaves as an atomic memory that performs every *)
(* access once and answers the lane that asked.                            *)
THEOREM PathImplementsLaneMemory == Spec => ImplementsLaneMemory
<1>1. Inv /\ Inv' /\ [Next]_vars => [LM!LmNext]_LM!lmVars
  <2> SUFFICES ASSUME Inv, Inv', [Next]_vars PROVE [LM!LmNext]_LM!lmVars
    OBVIOUS
  <2>1. CASE Next
    BY <2>1, NextIsTick, TickImplements
  <2>2. CASE UNCHANGED vars
    BY <2>2 DEF vars, lsuVars, mcVars, LM!lmVars, Job, AnswerArrives
  <2> QED
    BY <2>1, <2>2
<1> QED
  BY <1>1, JobInit, InvHolds, PTL DEF Spec, ImplementsLaneMemory, LM!LmSpec

================================================================================
