-------------------------------- MODULE CoreProof --------------------------------
(***************************************************************************)
(* The core's pipeline, for every number of lanes, every stack depth and   *)
(* every program: what it decodes, when a load or store is over, and what  *)
(* the dispatcher sees of it.                                              *)
(***************************************************************************)
EXTENDS Core, SequenceTheorems, TLAPS

--------------------------------------------------------------------------------
(* The inductive invariant. *)

(* The strobes that may be up in each state of the scheduler.              *)
StrobesFit ==
    /\ active_mask \subseteq Lanes
    /\ sched_state \in States
    /\ sched_state = "IDLE" => strobes \subseteq {"block_done", "write_back_en"}
    /\ sched_state = "FETCH" => strobes \in {{"fetcher_en"}, {}, {"pc_en", "write_back_en"}}
    /\ sched_state \in {"DECODE", "REQUEST", "EXECUTE", "UPDATE"} => strobes = {}
    /\ sched_state = "WAIT" => strobes \in {{"lsu_en"}, {}}
    /\ sched_state \in {"DIVERGE", "SYNC_POP"} => strobes = {"pc_en", "write_back_en"}

(* A request that the block RAM holds while it reads. *)
PipeValid == Len(prog_pipe) = 1 /\ prog_pipe[1].valid

(* The fetcher waits exactly as long as one request of its is under way,   *)
(* with the core's PC on it, and hands on the word at that PC.  (The       *)
(* program memory is one of the two that are built: it answers in the      *)
(* cycle of the request or in the next one.)                               *)
OneFetch ==
    /\ fetch_waiting \in BOOLEAN /\ fetch_done \in BOOLEAN
    /\ prog_req = NoRequest \/ prog_req = [valid |-> TRUE, addr |-> ActivePc]
    /\ prog_pipe = <<>> \/ prog_pipe = <<NoRequest>>
       \/ prog_pipe = <<[valid |-> TRUE, addr |-> ActivePc]>>
    /\ fetch_waiting <=> prog_req.valid \/ PipeValid
    /\ ~(prog_req.valid /\ PipeValid)
    /\ fetch_done => ~fetch_waiting /\ instruction_raw = Word(ActivePc)

(* fetcher_en is still up in the cycle in which the scheduler sees the     *)
(* word, so every instruction is fetched twice.  The second answer comes   *)
(* while the instruction is being executed, never after UPDATE: every      *)
(* state in which the PC can move finds the fetcher at rest.               *)
FetchAtRest == ~fetch_waiting /\ ~fetch_done
SecondFetchEnds ==
    /\ sched_state \in {"IDLE", "DIVERGE", "SYNC_POP"} => FetchAtRest
    /\ sched_state = "FETCH" /\ ~On("fetcher_en") => FetchAtRest
    /\ sched_state = "WAIT" /\ ~On("lsu_en") => FetchAtRest
    /\ sched_state \in {"WAIT", "UPDATE"} => ~fetch_waiting
    /\ sched_state \in {"EXECUTE", "REQUEST"} => ~prog_req.valid

(* In WAIT every active lane is either waiting, about to be counted, or    *)
(* counted, and no lane twice; outside of it nothing is under way, and the *)
(* count starts at zero.                                                   *)
AccessesCounted ==
    /\ ~(sched_state = "WAIT" /\ ~On("lsu_en")) => lsu_waiting = {} /\ lsu_done = {}
    /\ sched_state \in {"REQUEST", "WAIT"} => MemEn
    /\ sched_state = "DECODE" /\ MemEn => lsu_done_latch = {}
    /\ sched_state = "REQUEST" => lsu_done_latch = {}
    /\ sched_state = "WAIT" /\ On("lsu_en") => lsu_done_latch = {}
    /\ sched_state = "WAIT" /\ ~On("lsu_en") =>
          /\ lsu_waiting \cup lsu_done \cup lsu_done_latch = active_mask
          /\ lsu_waiting \cap lsu_done = {}
          /\ lsu_waiting \cap lsu_done_latch = {}
          /\ lsu_done \cap lsu_done_latch = {}

(* pc is a register per lane, and the warp stack holds masks. *)
LaneRegisters == pc = [i \in Lanes |-> pc[i]] /\ warp_stack \in Seq(SUBSET Lanes)

CoreIInv ==
    /\ LaneRegisters
    /\ StrobesFit
    /\ OneFetch
    /\ SecondFetchEnds
    /\ DecodesInstructionAtPc
    /\ AccessesCounted

--------------------------------------------------------------------------------
(* The scheduler. *)

LEMMA RegistersStep ==
    ASSUME LaneRegisters, StrobesFit, Tick
    PROVE  LaneRegisters'
<1>1. warp_stack \in Seq(SUBSET Lanes) /\ PushedMask \in SUBSET Lanes
  BY DEF LaneRegisters, StrobesFit, PushedMask
<1>2. <<PushedMask>> \o warp_stack \in Seq(SUBSET Lanes)
  BY <1>1
<1>3. warp_stack # <<>> => Tail(warp_stack) \in Seq(SUBSET Lanes)
  BY <1>1
<1>4. warp_stack' \in Seq(SUBSET Lanes)
  BY <1>1, <1>2, <1>3 DEF Tick, WarpTick
<1>5. pc' = [i \in Lanes |-> pc'[i]]
  BY DEF Tick, PcTick
<1> QED
  BY <1>4, <1>5 DEF LaneRegisters, Lanes

LEMMA StrobesStep ==
    ASSUME LaneRegisters, StrobesFit, Tick
    PROVE  StrobesFit'
<1>1. SchedTick(core_start, fetch_done, AllDone, MemEn, Is("RET"), Diverges, Taken, Is("SYNC"), SavedMask)
  BY DEF Tick
<1>2. active_mask' \subseteq Lanes
  <2>1. CASE active_mask' = active_mask \/ active_mask' = Lanes \/ active_mask' = Taken
    BY <2>1 DEF StrobesFit, Taken
  <2>2. CASE active_mask' = SavedMask
    BY <2>2 DEF SavedMask, LaneRegisters
  <2> QED
    BY <1>1, <2>1, <2>2 DEF SchedTick, Idle, Start, Fetch, Decode, Request, Wait, Execute, Update,
                            Diverge, SyncPop, ChangeMask, Step
<1> QED
  BY <1>1, <1>2 DEF StrobesFit, SchedTick, Idle, Start, Fetch, Decode, Request, Wait,
                    Execute, Update, Diverge, SyncPop, ChangeMask, Step, States

--------------------------------------------------------------------------------
(* The fetcher. *)

(* Sequences of two. *)
LEMMA ConcatOfTwo ==
    ASSUME NEW a, NEW b
    PROVE  <<a>> \o <<b>> = <<a, b>>
<1> DEFINE s == <<a>> \o <<b>>
           t == <<a, b>>
<1>1. <<a>> \in Seq({a, b}) /\ <<b>> \in Seq({a, b}) /\ t \in Seq({a, b})
  OBVIOUS
<1>2. s \in Seq({a, b}) /\ Len(s) = 2 /\ s[1] = a /\ s[2] = b
  BY <1>1, ConcatProperties
<1>3. Len(t) = 2 /\ t[1] = a /\ t[2] = b
  OBVIOUS
<1> HIDE DEF s, t
<1>4. \A i \in 1 .. Len(s) : s[i] = t[i]
  BY <1>2, <1>3
<1>5. s = t
  BY <1>1, <1>2, <1>3, <1>4, SeqEqual
<1> QED
  BY <1>5 DEF s, t

LEMMA FirstOfTwo ==
    ASSUME NEW a, NEW b
    PROVE  SubSeq(<<a, b>>, 1, 1) = <<a>>
<1> DEFINE t == <<a, b>>
           s == SubSeq(t, 1, 1)
           u == <<a>>
<1>1. t \in Seq({a, b}) /\ Len(t) = 2 /\ t[1] = a
  OBVIOUS
<1>2. u \in Seq({a, b}) /\ Len(u) = 1 /\ u[1] = a
  OBVIOUS
<1> HIDE DEF t, u
<1>3. s \in Seq({a, b}) /\ Len(s) = 1 /\ s[1] = t[1]
  BY <1>1, SubSeqProperties
<1> HIDE DEF s
<1>4. s = u
  BY <1>1, <1>2, <1>3, SeqEqual
<1> QED
  BY <1>4 DEF s, t, u

(* What the program memory answers, and what it holds after the edge.      *)
LEMMA PipeStep ==
    ASSUME ProgMemTick
    PROVE  /\ prog_pipe = <<>> => Answered = prog_req /\ prog_pipe' = <<>>
           /\ \A x : prog_pipe = <<x>> => Answered = x /\ prog_pipe' = <<prog_req>>
<1>1. CASE prog_pipe = <<>>
  <2>1. InPipe = <<prog_req>> /\ Len(prog_pipe) = 0
    BY <1>1 DEF InPipe
  <2>2. Answered = prog_req
    BY <2>1 DEF Answered
  <2>3. prog_pipe' = <<>>
    BY <2>1 DEF ProgMemTick
  <2> QED
    BY <1>1, <2>2, <2>3
<1>2. ASSUME NEW x, prog_pipe = <<x>>
      PROVE  Answered = x /\ prog_pipe' = <<prog_req>>
  <2>1. InPipe = <<prog_req, x>> /\ Len(prog_pipe) = 1
    BY <1>2, ConcatOfTwo DEF InPipe
  <2>2. Answered = x
    BY <2>1 DEF Answered
  <2>3. prog_pipe' = <<prog_req>>
    BY <2>1, FirstOfTwo DEF ProgMemTick
  <2> QED
    BY <2>2, <2>3
<1> QED
  BY <1>1, <1>2

(* The PC moves only when the fetcher is at rest and is not enabled.       *)
LEMMA PcMoves ==
    ASSUME CoreIInv, Tick
    PROVE  \/ FetchAtRest /\ ~On("fetcher_en")
           \/ ActivePc' = ActivePc /\ Word(ActivePc)' = Word(ActivePc)
<1>1. CASE FetchAtRest /\ ~On("fetcher_en")
  BY <1>1
<1>2. CASE ~(FetchAtRest /\ ~On("fetcher_en"))
  <2>1. sched_state \in {"IDLE", "FETCH", "DECODE", "REQUEST", "WAIT", "EXECUTE", "UPDATE"} /\ ~On("pc_en")
    BY <1>2 DEF CoreIInv, StrobesFit, SecondFetchEnds, States, On
  <2>2. sched_state # "IDLE"
    BY <1>2 DEF CoreIInv, StrobesFit, SecondFetchEnds, On
  <2>3. active_mask' = active_mask
    BY <2>1, <2>2 DEF Tick, SchedTick, Idle, Start, Fetch, Decode, Request, Wait, Execute, Update,
                      Diverge, SyncPop, ChangeMask, Step
  <2>4. pc' = pc
    <3>1. pc' = [i \in Lanes |-> PcAfter(i)]
      BY <2>2 DEF Tick, PcTick, BlockReset
    <3>2. \A i \in Lanes : PcAfter(i) = pc[i]
      BY <2>1 DEF PcAfter
    <3> QED
      BY <3>1, <3>2 DEF CoreIInv, LaneRegisters
  <2>5. prog' = prog
    BY DEF Tick
  <2> QED
    BY <2>3, <2>4, <2>5 DEF ActivePc, Word
<1> QED
  BY <1>1, <1>2

LEMMA FetchStep ==
    ASSUME CoreIInv, Tick
    PROVE  /\ OneFetch'
           /\ FetchAtRest /\ ~On("fetcher_en") => FetchAtRest'
           /\ ~fetch_waiting => ~fetch_done'
           /\ ~On("fetcher_en") => prog_req' = NoRequest
           /\ ~On("fetcher_en") /\ ~prog_req.valid => ~fetch_waiting'
<1> USE DEF NoRequest
<1>1. /\ OneFetch /\ ProgMemTick
      /\ fetch_waiting' = (FetchAccepts(On("fetcher_en")) \/ (fetch_waiting /\ ~FetchCompletes))
      /\ prog_req' = IF FetchAccepts(On("fetcher_en")) THEN [valid |-> TRUE, addr |-> ActivePc]
                     ELSE NoRequest
      /\ instruction_raw' = IF FetchCompletes THEN Word(Answered.addr) ELSE instruction_raw
      /\ fetch_done' = FetchCompletes
  BY DEF CoreIInv, Tick, FetchTick
<1>2. FetchAccepts(On("fetcher_en")) <=> ~fetch_waiting /\ On("fetcher_en")
  BY DEF FetchAccepts
<1>3. FetchCompletes <=> fetch_waiting /\ Answered.valid
  BY DEF FetchCompletes
<1>4. CASE prog_pipe = <<>>
  <2>1. Answered = prog_req /\ prog_pipe' = <<>> /\ ~PipeValid /\ ~PipeValid'
    BY <1>1, <1>4, PipeStep DEF PipeValid
  <2>2. fetch_waiting <=> prog_req.valid
    BY <1>1, <2>1 DEF OneFetch
  <2>3. FetchCompletes <=> fetch_waiting
    BY <1>3, <2>1, <2>2
  <2>4. fetch_waiting' <=> FetchAccepts(On("fetcher_en"))
    BY <1>1, <2>3
  <2>5. fetch_done' => Answered.addr = ActivePc
    BY <1>1, <2>1, <2>2, <2>3 DEF OneFetch
  <2>6. OneFetch'
    <3>1. CASE FetchAtRest /\ ~On("fetcher_en")
      BY <1>1, <1>2, <2>1, <2>3, <2>4, <3>1 DEF OneFetch, FetchAtRest
    <3>2. CASE ActivePc' = ActivePc /\ Word(ActivePc)' = Word(ActivePc)
      BY <1>1, <1>2, <2>1, <2>3, <2>4, <2>5, <3>2 DEF OneFetch
    <3> QED
      BY <3>1, <3>2, PcMoves
  <2> QED
    BY <1>1, <1>2, <2>3, <2>4, <2>6 DEF FetchAtRest
<1>5. ASSUME NEW x, prog_pipe = <<x>>
      PROVE  /\ OneFetch'
             /\ FetchAtRest /\ ~On("fetcher_en") => FetchAtRest'
             /\ ~fetch_waiting => ~fetch_done'
             /\ ~On("fetcher_en") => prog_req' = NoRequest
             /\ ~On("fetcher_en") /\ ~prog_req.valid => ~fetch_waiting'
  <2>1. /\ Answered = x /\ prog_pipe' = <<prog_req>>
        /\ PipeValid <=> x.valid
        /\ PipeValid' <=> prog_req.valid
    BY <1>1, <1>5, PipeStep DEF PipeValid
  <2>2. /\ x = NoRequest \/ x = [valid |-> TRUE, addr |-> ActivePc]
        /\ fetch_waiting <=> prog_req.valid \/ x.valid
        /\ ~(prog_req.valid /\ x.valid)
    BY <1>1, <1>5, <2>1 DEF OneFetch
  <2>3. FetchCompletes <=> x.valid
    BY <1>3, <2>1, <2>2
  <2>4. fetch_waiting' <=> FetchAccepts(On("fetcher_en")) \/ prog_req.valid
    BY <1>1, <2>2, <2>3
  <2>5. fetch_done' => Answered.addr = ActivePc
    BY <1>1, <2>1, <2>2, <2>3
  <2>6. OneFetch'
    <3>1. prog_req = NoRequest \/ prog_req = [valid |-> TRUE, addr |-> ActivePc]
      BY <1>1 DEF OneFetch
    <3>2. /\ fetch_waiting' <=> prog_req'.valid \/ prog_req.valid
          /\ ~(prog_req'.valid /\ prog_req.valid)
          /\ fetch_done' => ~fetch_waiting'
      BY <1>1, <1>2, <2>2, <2>3, <2>4
    <3>3. fetch_waiting' \in BOOLEAN /\ fetch_done' \in BOOLEAN
      BY <1>1 DEF FetchAccepts, FetchCompletes
    <3>4. CASE FetchAtRest /\ ~On("fetcher_en")
      <4>1. prog_req = NoRequest /\ prog_req' = NoRequest /\ ~fetch_done'
        BY <1>1, <1>2, <2>2, <2>3, <3>1, <3>4 DEF FetchAtRest
      <4> QED
        BY <2>1, <3>2, <3>3, <4>1 DEF OneFetch
    <3>5. CASE ActivePc' = ActivePc /\ Word(ActivePc)' = Word(ActivePc)
      <4>1. prog_req' = NoRequest \/ prog_req' = [valid |-> TRUE, addr |-> ActivePc']
        BY <1>1, <3>5
      <4>2. \/ prog_pipe' = <<NoRequest>>
            \/ prog_pipe' = <<[valid |-> TRUE, addr |-> ActivePc']>>
        BY <2>1, <3>1, <3>5
      <4>3. fetch_done' => instruction_raw' = Word(ActivePc)'
        BY <1>1, <2>5, <3>5
      <4> QED
        BY <2>1, <3>2, <3>3, <4>1, <4>2, <4>3 DEF OneFetch
    <3> QED
      BY <3>4, <3>5, PcMoves
  <2> QED
    BY <1>1, <1>2, <2>2, <2>3, <2>4, <2>6 DEF FetchAtRest
<1> QED
  BY <1>1, <1>4, <1>5 DEF OneFetch

(* How the scheduler moves on: the order of an instruction's states.       *)
LEMMA SchedMoves ==
    ASSUME Tick
    PROVE  \/ sched_state = "IDLE" /\ sched_state' \in {"IDLE", "FETCH"}
              /\ (sched_state' = "FETCH" => strobes' = {"fetcher_en"})
           \/ sched_state = "FETCH" /\ ~fetch_done /\ sched_state' = "FETCH" /\ strobes' = {"fetcher_en"}
           \/ sched_state = "FETCH" /\ fetch_done /\ sched_state' = "DECODE" /\ strobes' = {}
           \/ sched_state = "DECODE" /\ sched_state' = (IF MemEn THEN "REQUEST" ELSE "EXECUTE") /\ strobes' = {}
           \/ sched_state = "REQUEST" /\ sched_state' = "WAIT" /\ strobes' = {"lsu_en"}
           \/ sched_state = "WAIT" /\ sched_state' = (IF AllDone THEN "EXECUTE" ELSE "WAIT") /\ strobes' = {}
           \/ sched_state = "EXECUTE" /\ sched_state' = "UPDATE" /\ strobes' = {}
           \/ sched_state = "UPDATE" /\ sched_state' \in {"IDLE", "FETCH", "DIVERGE", "SYNC_POP"}
              /\ (sched_state' # "IDLE" => strobes' = {"pc_en", "write_back_en"})
           \/ sched_state \in {"DIVERGE", "SYNC_POP"} /\ sched_state' = "FETCH" /\ strobes' = {}
  BY DEF Tick, SchedTick, Idle, Start, Fetch, Decode, Request, Wait, Execute, Update,
         Diverge, SyncPop, ChangeMask, Step

LEMMA SecondFetchStep ==
    ASSUME CoreIInv, Tick
    PROVE  SecondFetchEnds'
<1>1. CASE sched_state \in {"IDLE", "DIVERGE", "SYNC_POP"}
  <2>1. FetchAtRest /\ ~On("fetcher_en")
    BY <1>1 DEF CoreIInv, SecondFetchEnds, StrobesFit, On
  <2>2. FetchAtRest'
    BY <2>1, FetchStep
  <2> QED
    BY <1>1, <2>2, SchedMoves DEF SecondFetchEnds, FetchAtRest
<1>2. CASE sched_state = "FETCH"
  <2>1. \/ sched_state' = "FETCH" /\ strobes' = {"fetcher_en"}
        \/ sched_state' = "DECODE"
    BY <1>2, SchedMoves
  <2> QED
    BY <2>1 DEF SecondFetchEnds, On
<1>3. CASE sched_state = "DECODE"
  <2>1. ~On("fetcher_en") /\ sched_state' \in {"REQUEST", "EXECUTE"}
    BY <1>3, SchedMoves DEF CoreIInv, StrobesFit, On
  <2>2. ~prog_req'.valid
    BY <2>1, FetchStep DEF NoRequest
  <2> QED
    BY <2>1, <2>2 DEF SecondFetchEnds
<1>4. CASE sched_state \in {"REQUEST", "EXECUTE"}
  <2>1. /\ ~On("fetcher_en") /\ ~prog_req.valid
        /\ \/ sched_state' = "WAIT" /\ strobes' = {"lsu_en"}
           \/ sched_state' = "UPDATE"
    BY <1>4, SchedMoves DEF CoreIInv, StrobesFit, SecondFetchEnds, On
  <2>2. ~fetch_waiting'
    BY <2>1, FetchStep
  <2> QED
    BY <2>1, <2>2 DEF SecondFetchEnds, On
<1>5. CASE sched_state \in {"WAIT", "UPDATE"}
  <2>1. ~On("fetcher_en") /\ ~fetch_waiting /\ ~prog_req.valid
    BY <1>5 DEF CoreIInv, StrobesFit, SecondFetchEnds, OneFetch, On
  <2>2. ~fetch_waiting' /\ ~fetch_done' /\ ~prog_req'.valid
    BY <2>1, FetchStep DEF NoRequest
  <2> QED
    BY <2>2 DEF SecondFetchEnds, FetchAtRest
<1> QED
  BY <1>1, <1>2, <1>3, <1>4, <1>5 DEF CoreIInv, StrobesFit, States

LEMMA DecodesStep ==
    ASSUME CoreIInv, Tick
    PROVE  DecodesInstructionAtPc'
<1> SUFFICES ASSUME sched_state' \in {"DECODE", "REQUEST", "WAIT", "EXECUTE", "UPDATE"}
             PROVE  instruction' = Word(ActivePc)'
  BY DEF DecodesInstructionAtPc, Executing
<1>1. instruction' = IF fetch_done THEN instruction_raw ELSE instruction
  BY DEF Tick, LatchTick
<1>2. \/ sched_state = "FETCH" /\ fetch_done
      \/ sched_state \in {"DECODE", "REQUEST", "WAIT", "EXECUTE"}
  BY SchedMoves
<1>3. ~(FetchAtRest /\ ~On("fetcher_en")) => Word(ActivePc)' = Word(ActivePc)
  BY PcMoves
<1>4. Word(ActivePc)' = Word(ActivePc)
  <2>1. CASE sched_state = "FETCH" /\ fetch_done
    BY <2>1, <1>3 DEF FetchAtRest
  <2>2. CASE sched_state \in {"DECODE", "REQUEST", "WAIT", "EXECUTE"}
    <3>1. ~On("pc_en") /\ ~BlockReset
      BY <2>2 DEF CoreIInv, StrobesFit, On, BlockReset
    <3>2. pc' = pc
      <4>1. pc' = [i \in Lanes |-> PcAfter(i)]
        BY <3>1 DEF Tick, PcTick
      <4>2. \A i \in Lanes : PcAfter(i) = pc[i]
        BY <3>1 DEF PcAfter
      <4> QED
        BY <4>1, <4>2 DEF CoreIInv, LaneRegisters
    <3>3. active_mask' = active_mask
      BY <2>2 DEF Tick, SchedTick, Idle, Start, Fetch, Decode, Request, Wait, Execute, Update,
                  Diverge, SyncPop, ChangeMask, Step
    <3>4. prog' = prog
      BY DEF Tick
    <3> QED
      BY <3>2, <3>3, <3>4 DEF ActivePc, Word
  <2> QED
    BY <1>2, <2>1, <2>2
<1>5. fetch_done => instruction_raw = Word(ActivePc)
  BY DEF CoreIInv, OneFetch
<1>6. sched_state \in {"DECODE", "REQUEST", "WAIT", "EXECUTE"} => instruction = Word(ActivePc)
  BY DEF CoreIInv, DecodesInstructionAtPc, Executing
<1> QED
  BY <1>1, <1>2, <1>4, <1>5, <1>6

--------------------------------------------------------------------------------
(* The accesses. *)

(* What one edge does to them. *)
LEMMA AccessStep ==
    ASSUME CoreIInv, Tick
    PROVE  /\ lsu_waiting' = (lsu_waiting \ resp_valid) \cup (Enabled \ lsu_waiting)
           /\ lsu_done' = lsu_waiting \cap resp_valid
           /\ lsu_done_latch' = IF ClearLatch THEN {} ELSE lsu_done_latch \cup lsu_done
           /\ Enabled # {} => On("lsu_en")
           /\ On("lsu_en") => sched_state = "WAIT" /\ (MemEn => Enabled = active_mask)
  BY DEF CoreIInv, StrobesFit, Tick, PathTick, LsuTick, Accepted, Retired, LatchTick, Enabled, On, States

(* The instruction stays what it is while it is being executed. *)
LEMMA InstructionStays ==
    ASSUME CoreIInv, Tick, sched_state \in {"DECODE", "REQUEST", "WAIT", "EXECUTE", "UPDATE"}
    PROVE  instruction' = instruction
  BY DEF CoreIInv, OneFetch, DecodesInstructionAtPc, Executing, Tick, LatchTick

LEMMA AccessesStep ==
    ASSUME CoreIInv, Tick
    PROVE  AccessesCounted'
<1>1. AccessesCounted /\ active_mask \subseteq Lanes
  BY DEF CoreIInv, StrobesFit
<1>2. CASE sched_state = "WAIT" /\ On("lsu_en")
  <2>1. /\ lsu_waiting = {} /\ lsu_done = {} /\ lsu_done_latch = {} /\ MemEn
        /\ sched_state' = (IF AllDone THEN "EXECUTE" ELSE "WAIT") /\ strobes' = {}
        /\ active_mask' = active_mask
    BY <1>1, <1>2, SchedMoves DEF AccessesCounted, Tick, SchedTick, Idle, Start, Fetch, Decode,
       Request, Wait, Execute, Update, Diverge, SyncPop, ChangeMask, Step
  <2>2. lsu_waiting' = active_mask /\ lsu_done' = {} /\ lsu_done_latch' = {}
    BY <1>2, <2>1, AccessStep DEF ClearLatch
  <2>3. AllDone => active_mask = {}
    BY <1>1, <2>1 DEF AllDone
  <2>4. MemEn'
    BY <1>2, <2>1, InstructionStays DEF MemEn, Is
  <2> QED
    BY <2>1, <2>2, <2>3, <2>4 DEF AccessesCounted, On
<1>3. CASE sched_state = "WAIT" /\ ~On("lsu_en")
  <2>1. /\ lsu_waiting \cup lsu_done \cup lsu_done_latch = active_mask
        /\ lsu_waiting \cap lsu_done = {}
        /\ lsu_waiting \cap lsu_done_latch = {}
        /\ lsu_done \cap lsu_done_latch = {}
        /\ MemEn
        /\ sched_state' = (IF AllDone THEN "EXECUTE" ELSE "WAIT") /\ strobes' = {}
        /\ active_mask' = active_mask
    BY <1>1, <1>3, SchedMoves DEF AccessesCounted, Tick, SchedTick, Idle, Start, Fetch, Decode,
       Request, Wait, Execute, Update, Diverge, SyncPop, ChangeMask, Step
  <2>2. ~ClearLatch
    BY <1>3 DEF ClearLatch, CoreIInv, SecondFetchEnds, FetchAtRest
  <2>3. /\ lsu_waiting' = lsu_waiting \ resp_valid
        /\ lsu_done' = lsu_waiting \cap resp_valid
        /\ lsu_done_latch' = lsu_done_latch \cup lsu_done
    BY <1>3, <2>2, AccessStep
  <2>4. AllDone => lsu_waiting = {} /\ lsu_done = {}
    BY <1>1, <2>1 DEF AllDone
  <2>5. MemEn'
    BY <1>3, <2>1, InstructionStays DEF MemEn, Is
  <2> QED
    BY <2>1, <2>3, <2>4, <2>5 DEF AccessesCounted, On
<1>4. CASE sched_state # "WAIT"
  <2>1. lsu_waiting = {} /\ lsu_done = {} /\ ~On("lsu_en")
    BY <1>1, <1>4, AccessStep DEF AccessesCounted
  <2>2. lsu_waiting' = {} /\ lsu_done' = {}
    BY <2>1, AccessStep
  <2>3. CASE sched_state' = "DECODE"
    <3>1. sched_state = "FETCH" /\ fetch_done
      BY <2>3, SchedMoves
    <3>2. instruction' = instruction_raw
      BY <3>1 DEF Tick, LatchTick
    <3>3. MemEn' => lsu_done_latch' = {}
      BY <3>1, <3>2, AccessStep DEF MemEn, Is, ClearLatch
    <3> QED
      BY <2>2, <2>3, <3>3 DEF AccessesCounted
  <2>4. CASE sched_state' = "REQUEST"
    <3>1. sched_state = "DECODE" /\ MemEn
      BY <2>4, SchedMoves
    <3>2. lsu_done_latch' = {}
      BY <1>1, <2>1, <3>1, AccessStep DEF AccessesCounted
    <3>3. MemEn'
      BY <3>1, InstructionStays DEF MemEn, Is
    <3> QED
      BY <2>2, <2>4, <3>2, <3>3 DEF AccessesCounted
  <2>5. CASE sched_state' = "WAIT"
    <3>1. sched_state = "REQUEST" /\ strobes' = {"lsu_en"}
      BY <1>4, <2>5, SchedMoves
    <3>2. lsu_done_latch' = {}
      BY <1>1, <2>1, <3>1, AccessStep DEF AccessesCounted
    <3>3. MemEn'
      BY <1>1, <3>1, InstructionStays DEF MemEn, Is, AccessesCounted
    <3> QED
      BY <2>2, <2>5, <3>1, <3>2, <3>3 DEF AccessesCounted, On
  <2>6. CASE sched_state' \notin {"DECODE", "REQUEST", "WAIT"}
    BY <2>2, <2>6 DEF AccessesCounted
  <2> QED
    BY <2>3, <2>4, <2>5, <2>6
<1> QED
  BY <1>2, <1>3, <1>4

--------------------------------------------------------------------------------
(* The invariant, and what it says.  The program memories that are built   *)
(* answer in the cycle of the request or in the next one.                  *)

LEMMA CoreInitIInv ==
    ASSUME ProgLatencies \subseteq {0, 1}
    PROVE  CoreInit => CoreIInv
<1> SUFFICES ASSUME CoreInit
             PROVE  CoreIInv
  OBVIOUS
<1>1. prog_pipe = <<>> \/ prog_pipe = <<NoRequest>>
  <2>1. PICK n \in {0, 1} : prog_pipe = [k \in 1 .. n |-> NoRequest]
    BY DEF CoreInit, FetchInit
  <2>2. CASE n = 0
    BY <2>1, <2>2
  <2>3. CASE n = 1
    <3>1. prog_pipe = [k \in 1 .. 1 |-> NoRequest]
      BY <2>1, <2>3
    <3>2. [k \in 1 .. 1 |-> NoRequest] = <<NoRequest>>
      OBVIOUS
    <3> QED
      BY <3>1, <3>2
  <2> QED
    BY <2>2, <2>3
<1>2. ~PipeValid
  BY <1>1 DEF PipeValid, NoRequest
<1>3. OneFetch
  BY <1>1, <1>2 DEF CoreInit, FetchInit, OneFetch, NoRequest
<1>4. LaneRegisters /\ StrobesFit /\ SecondFetchEnds /\ DecodesInstructionAtPc
  BY DEF CoreInit, SchedInit, FetchInit, LaneRegisters, StrobesFit, States, SecondFetchEnds,
         FetchAtRest, DecodesInstructionAtPc, Executing
<1>5. AccessesCounted
  BY DEF CoreInit, Init, LsuInit, SchedInit, AccessesCounted
<1> QED
  BY <1>3, <1>4, <1>5 DEF CoreIInv

LEMMA CoreTickIInv == CoreIInv /\ [Tick]_allVars => CoreIInv'
<1> SUFFICES ASSUME CoreIInv, [Tick]_allVars
             PROVE  CoreIInv'
  OBVIOUS
<1>1. CASE Tick
  BY <1>1, RegistersStep, StrobesStep, FetchStep, SecondFetchStep, DecodesStep, AccessesStep DEF CoreIInv
<1>2. CASE UNCHANGED allVars
  <2>1. UNCHANGED <<vars, schedVars, fetchVars, coreVars>>
    BY <1>2 DEF allVars
  <2> USE <2>1 DEF vars, lsuVars, schedVars, fetchVars, coreVars
  <2>2. LaneRegisters' /\ StrobesFit'
    BY DEF CoreIInv, LaneRegisters, StrobesFit, Lanes
  <2>3. ActivePc' = ActivePc /\ Word(ActivePc)' = Word(ActivePc) /\ PipeValid' = PipeValid
    BY DEF ActivePc, Word, PipeValid
  <2>4. OneFetch'
    BY <2>3 DEF CoreIInv, OneFetch
  <2>5. SecondFetchEnds'
    BY DEF CoreIInv, SecondFetchEnds, FetchAtRest, On
  <2>6. DecodesInstructionAtPc'
    BY <2>3 DEF CoreIInv, DecodesInstructionAtPc, Executing
  <2>7. AccessesCounted'
    BY DEF CoreIInv, AccessesCounted, On, MemEn, Is
  <2> QED
    BY <2>2, <2>4, <2>5, <2>6, <2>7 DEF CoreIInv
<1> QED
  BY <1>1, <1>2

LEMMA CoreIInvHolds ==
    ASSUME ProgLatencies \subseteq {0, 1}
    PROVE  CoreSpec => []CoreIInv
  BY CoreInitIInv, CoreTickIInv, PTL DEF CoreSpec

(* While an instruction is executed, the decoder sees the program word at  *)
(* the core's PC, whatever the program and the stacks do: no answer to the *)
(* second fetch of an instruction is ever taken for the next one.          *)
THEOREM DecodesRightInstruction ==
    ASSUME ProgLatencies \subseteq {0, 1}
    PROVE  CoreSpec => []DecodesInstructionAtPc
<1>1. CoreIInv => DecodesInstructionAtPc
  BY DEF CoreIInv
<1> QED
  BY <1>1, CoreIInvHolds, PTL

(* A load or store leaves WAIT only when the accesses of all active lanes  *)
(* are over, for every number of lanes and every order of the answers:     *)
(* the latch counts each lane once and no completion of the instruction    *)
(* before.                                                                 *)
THEOREM AccessesEndInWait ==
    ASSUME ProgLatencies \subseteq {0, 1}
    PROVE  CoreSpec => []NoAccessOutlivesInstruction
<1>1. CoreIInv => NoAccessOutlivesInstruction
  BY DEF CoreIInv, AccessesCounted, NoAccessOutlivesInstruction
<1> QED
  BY <1>1, CoreIInvHolds, PTL

(* Every clock edge of the core is a step of the handshake that Launch     *)
(* takes a core for.                                                       *)
THEOREM CoreKeepsHandshake == CoreSpec => ImplementsHandshake
<1>1. [Tick]_allVars =>
         [HandshakeStep(core_start, sched_state # "IDLE",
                        sched_state' # "IDLE", "block_done" \in strobes')]_allVars
  <2> SUFFICES ASSUME Tick
               PROVE  HandshakeStep(core_start, sched_state # "IDLE",
                                    sched_state' # "IDLE", "block_done" \in strobes')
    OBVIOUS
  <2> QED
    BY DEF Tick, SchedTick, Idle, Start, Fetch, Decode, Request, Wait, Execute, Update,
           Diverge, SyncPop, ChangeMask, Step, HandshakeStep, Begins
<1> QED
  BY <1>1, PTL DEF CoreSpec, ImplementsHandshake

(* The masks keep to the lanes, whatever the memories' latencies. *)
LEMMA MasksHold == CoreSpec => [](LaneRegisters /\ StrobesFit)
<1>1. CoreInit => LaneRegisters /\ StrobesFit
  BY DEF CoreInit, SchedInit, LaneRegisters, StrobesFit, States
<1>2. LaneRegisters /\ StrobesFit /\ [Tick]_allVars => (LaneRegisters /\ StrobesFit)'
  <2>1. LaneRegisters /\ StrobesFit /\ Tick => (LaneRegisters /\ StrobesFit)'
    BY RegistersStep, StrobesStep
  <2>2. LaneRegisters /\ StrobesFit /\ UNCHANGED allVars => (LaneRegisters /\ StrobesFit)'
    BY DEF allVars, schedVars, coreVars, LaneRegisters, StrobesFit, Lanes
  <2> QED
    BY <2>1, <2>2
<1> QED
  BY <1>1, <1>2, PTL DEF CoreSpec

(* The core's memory path is MemPath's: what is proved of the path for any *)
(* lanes enabled at any time holds of it when the scheduler enables them.  *)
THEOREM CoreUsesPath ==
    ASSUME \A r \in BOOLEAN : [NoAccess EXCEPT !.rw = r] \in Issued
    PROVE  CoreSpec => Spec
<1>1. CoreInit => Init
  BY DEF CoreInit
<1>2. (LaneRegisters /\ StrobesFit) /\ [Tick]_allVars => [Next]_vars
  <2> SUFFICES ASSUME LaneRegisters, StrobesFit, [Tick]_allVars
               PROVE  [Next]_vars
    OBVIOUS
  <2>1. CASE Tick
    <3>1. Enabled \in SUBSET Lanes
      BY DEF StrobesFit, Enabled
    <3>2. Is("LDR") \in BOOLEAN
      BY DEF Is
    <3>3. [NoAccess EXCEPT !.rw = Is("LDR")] \in Issued
      BY <3>2
    <3>4. Presented \in [Enabled -> Issued]
      BY <3>3 DEF Presented
    <3>5. PathTick(Enabled, Presented)
      BY <2>1 DEF Tick
    <3> QED
      BY <3>1, <3>4, <3>5 DEF Next
  <2>2. CASE UNCHANGED allVars
    BY <2>2 DEF allVars
  <2> QED
    BY <2>1, <2>2
<1> QED
  BY <1>1, <1>2, MasksHold, PTL DEF CoreSpec, Spec

================================================================================
