-------------------------------- MODULE SimtProof -------------------------------
(***************************************************************************)
(* Divergence and calls, for every number of lanes and every program that  *)
(* can be laid out: each lane runs the path it would run alone.            *)
(***************************************************************************)
EXTENDS Simt, Layout, CoreProof, MemPathProof

--------------------------------------------------------------------------------
(* The inductive invariant.  It speaks of the lanes as they are when the   *)
(* instruction that was executed last has taken effect: the history moves  *)
(* in UPDATE, the core's PCs and stacks one edge later, its mask two.      *)

MaskThen == CASE sched_state = "DIVERGE" -> Taken
              [] sched_state = "SYNC_POP" -> SavedMask
              [] OTHER -> active_mask

WarpThen ==
    IF sched_state = "DIVERGE" /\ Len(warp_stack) < WarpDepth
    THEN <<PushedMask>> \o warp_stack
    ELSE IF sched_state = "SYNC_POP" /\ warp_stack # <<>>
    THEN Tail(warp_stack) ELSE warp_stack

CallsThen ==
    IF Is("CALL") /\ On("pc_en") /\ Len(call_stack) < CallDepth
    THEN <<ActivePc + 1>> \o call_stack
    ELSE IF Is("SRET") /\ On("pc_en") /\ call_stack # <<>>
    THEN Tail(call_stack) ELSE call_stack

(* Lanes that are in the same place as if each ran alone.                  *)
Together(S, x, c) == \A i \in S : ref_pc[i] = x /\ ref_stack[i] = c

(* The place outside of funcs that the active lanes are in or return to. *)
Home(x, c) == IF c = <<>> THEN x ELSE c[Len(c)]

(* Every lane has flags. *)
SomeFlags == \A i \in Lanes : nzp[i] \in Flags /\ ref_nzp[i] \in Flags

(* The return addresses are as deep as they should be, and lead to code    *)
(* that counts on no comparison before the call.                           *)
ReturnsFit(lay, x, c) ==
    /\ Len(c) = lay.depth[x]
    /\ \A k \in 1 .. Len(c) : /\ lay.depth[c[k]] = Len(c) - k
                              /\ lay.known[c[k]] <= 1
                              /\ lay.known[c[k]] = 1 => SomeFlags

(* A lane is parked only while the others are in the other arm of the same *)
(* `if': first behind the branch, its mask on the warp stack, then behind  *)
(* the SYNC, where the others will join it.                                *)
InArm(lay, h, arm, s) == h = s \/ (lay.kind[h] = arm /\ lay.join[h] = s)
NoneParked == MaskThen = Lanes /\ WarpThen = <<>>
ElsParked(lay, h, s) ==
    /\ InArm(lay, h, "then", s)
    /\ WarpThen = <<Lanes \ MaskThen>>
    /\ \E y \in Addresses(prog) :
          /\ lay.depth[y] = 0 /\ lay.kind[y] = "els" /\ lay.join[y] = s /\ lay.known[y] <= 1
          /\ Together(Lanes \ MaskThen, y, <<>>)
ThenParked(lay, h, s) ==
    /\ InArm(lay, h, "els", s)
    /\ WarpThen = <<>>
    /\ Together(Lanes \ MaskThen, s + 1, <<>>)
Parked(lay, h) ==
    \/ NoneParked
    \/ /\ MaskThen # Lanes
       /\ SomeFlags
       /\ \E s \in Addresses(prog) : /\ lay.kind[s] = "sync" /\ lay.depth[s] = 0
                                     /\ ElsParked(lay, h, s) \/ ThenParked(lay, h, s)

(* The flags are known as far as the layout says, except while a CMP is    *)
(* being executed.                                                         *)
Comparing == Executing /\ Is("CMP")
FlagsFit(lay, x) ==
    /\ lay.known[x] >= 1 => SomeFlags
    /\ lay.known[x] >= 2 /\ ~Comparing => \A i \in MaskThen : nzp[i] = ref_nzp[i]
    /\ lay.known[x] >= 3 /\ ~Comparing => \A i, k \in MaskThen : nzp[i] = nzp[k]

(* The active lanes are at x, with the returns c outstanding. *)
PathAt(lay, x, c) ==
    /\ MaskThen # {} /\ MaskThen \subseteq Lanes
    /\ CallsThen = c
    /\ Together(MaskThen, x, c)
    /\ ReturnsFit(lay, x, c)
    /\ Parked(lay, Home(x, c))
    /\ FlagsFit(lay, x)

Paths(lay) ==
    sched_state # "IDLE" =>
        \E x \in Addresses(prog), c \in Seq(Addresses(prog)) : PathAt(lay, x, c)

(* The core's PCs follow the history. *)
PcsFollow == sched_state # "IDLE" => \A i \in Lanes : PcAfter(i) = ref_pc[i]

(* A CMP comes out as it may, and has set the flags from the edge after    *)
(* DECODE on; it keeps setting them until the next instruction is latched. *)
FlagsSet ==
    /\ Comparing => outcome \in instruction.flags
    /\ Is("CMP") /\ sched_state # "DECODE" => nzp = outcome

(* Between blocks both stacks are empty. *)
AtRest == sched_state = "IDLE" => warp_stack = <<>> /\ call_stack = <<>> /\ ~Is("CMP")

SimtIInv(lay) ==
    /\ CoreIInv
    /\ LaidOut(prog, lay)
    /\ Paths(lay)
    /\ PcsFollow
    /\ FlagsSet
    /\ AtRest

--------------------------------------------------------------------------------
(* The core's place. *)

(* The lowest active lane is an active lane. *)
LEMMA ActiveAt ==
    ASSUME active_mask \in SUBSET Lanes, active_mask # {},
           NEW x, \A i \in active_mask : pc[i] = x
    PROVE  ActivePc = x
<1>1. PICK m \in active_mask : \A k \in active_mask : m <= k
  BY LeastLane
<1>2. (CHOOSE i \in active_mask : \A k \in active_mask : i <= k) \in active_mask
  BY <1>1
<1> QED
  BY <1>2 DEF ActivePc

(* While an instruction is being executed nothing is ahead of the core's   *)
(* registers, and every active lane executes the word it would execute     *)
(* alone.                                                                  *)
LEMMA WhereNow ==
    ASSUME CoreIInv, Executing, PcsFollow, NEW lay, NEW x \in Addresses(prog), NEW c,
           PathAt(lay, x, c)
    PROVE  /\ ~On("pc_en")
           /\ MaskThen = active_mask /\ WarpThen = warp_stack
           /\ CallsThen = call_stack
           /\ \A i \in Lanes : pc[i] = ref_pc[i]
           /\ ActivePc = x
           /\ instruction = prog[x + 1]
           /\ \A i \in active_mask : Own(i) = instruction
<1>1. ~On("pc_en")
  BY DEF CoreIInv, StrobesFit, Executing, On
<1>2. MaskThen = active_mask /\ WarpThen = warp_stack
  BY DEF Executing, MaskThen, WarpThen
<1>3. CallsThen = call_stack
  BY <1>1 DEF CallsThen
<1>4. \A i \in Lanes : pc[i] = ref_pc[i]
  BY <1>1 DEF PcsFollow, PcAfter, Executing
<1>5. ActivePc = x
  <2>1. active_mask \in SUBSET Lanes /\ active_mask # {}
    BY <1>2 DEF PathAt
  <2>2. \A i \in active_mask : pc[i] = x
    BY <1>2, <1>4 DEF PathAt, Together
  <2> QED
    BY <2>1, <2>2, ActiveAt
<1>6. Word(x) = prog[x + 1]
  BY DEF Word, Addresses
<1>7. instruction = Word(x)
  BY <1>5 DEF CoreIInv, DecodesInstructionAtPc
<1>8. \A i \in active_mask : Own(i) = Word(x)
  BY <1>2 DEF PathAt, Together, Own
<1> QED
  BY <1>1, <1>2, <1>3, <1>4, <1>5, <1>6, <1>7, <1>8

--------------------------------------------------------------------------------
(* Edges on which no instruction ends. *)

(* The history moves in UPDATE and when a block starts, only. *)
LEMMA RefsStay ==
    ASSUME SimtTick, sched_state # "UPDATE", ~BlockReset, NEW i \in Lanes
    PROVE  ref_pc'[i] = ref_pc[i] /\ ref_nzp'[i] = ref_nzp[i] /\ ref_stack'[i] = ref_stack[i]
  BY DEF SimtTick, RefTick, Executed

(* What was to come has come. *)
LEMMA EffectComes ==
    ASSUME CoreIInv, Tick, sched_state \notin {"IDLE", "UPDATE"}
    PROVE  /\ sched_state' # "IDLE" /\ ~On("pc_en")'
           /\ MaskThen' = MaskThen /\ WarpThen' = WarpThen /\ CallsThen' = CallsThen
           /\ \A i \in Lanes : PcAfter(i)' = PcAfter(i)
<1>1. /\ sched_state' \notin {"IDLE", "DIVERGE", "SYNC_POP"}
      /\ ~On("pc_en")'
  BY SchedMoves DEF On, CoreIInv, StrobesFit, States
<1>2. active_mask' = MaskThen
  BY DEF Tick, SchedTick, Idle, Start, Fetch, Decode, Request, Wait, Execute, Update,
         Diverge, SyncPop, ChangeMask, Step, MaskThen
<1>3. warp_stack' = WarpThen
  BY DEF Tick, WarpTick, WarpThen
<1>4. call_stack' = CallsThen
  BY DEF Tick, CallTick, CallsThen
<1>5. \A i \in Lanes : pc'[i] = PcAfter(i)
  BY DEF Tick, PcTick, BlockReset
<1>6. \A i \in Lanes : PcAfter(i)' = pc'[i]
  BY <1>1 DEF PcAfter
<1>7. MaskThen' = active_mask' /\ WarpThen' = warp_stack' /\ CallsThen' = call_stack'
  BY <1>1 DEF MaskThen, WarpThen, CallsThen
<1> QED
  BY <1>1, <1>2, <1>3, <1>4, <1>5, <1>6, <1>7

(* An instruction is latched on entering DECODE, or again as it is; a CMP  *)
(* takes its outcome with it.                                              *)
LEMMA InstructionMoves ==
    ASSUME CoreIInv, Tick, sched_state' # "DECODE"
    PROVE  instruction' = instruction /\ outcome' = outcome
<1> outcome' = outcome
  <2>1. ~(sched_state = "FETCH" /\ fetch_done)
    BY SchedMoves
  <2> QED
    BY <2>1 DEF Tick, LatchTick
<1>1. CASE Executing
  BY <1>1, InstructionStays DEF Executing
<1>2. CASE sched_state \in {"IDLE", "DIVERGE", "SYNC_POP"}
  BY <1>2 DEF CoreIInv, SecondFetchEnds, FetchAtRest, Tick, LatchTick
<1>3. CASE sched_state = "FETCH"
  BY <1>3, SchedMoves DEF Tick, LatchTick
<1> QED
  BY <1>1, <1>2, <1>3 DEF Executing, CoreIInv, StrobesFit, States

(* The flags. *)
LEMMA FlagsMove ==
    ASSUME FlagsSet, Tick, ~BlockReset
    PROVE  /\ nzp' # nzp => sched_state = "DECODE" /\ Is("CMP")
           /\ nzp' = nzp \/ nzp' = outcome
           /\ Is("CMP") => nzp' = outcome
  BY DEF Tick, PcTick, FlagsSet

LEMMA FlagsSetStep ==
    ASSUME CoreIInv, FlagsSet, AtRest, Tick
    PROVE  FlagsSet'
<1>1. ASSUME Is("CMP")', sched_state' # "DECODE"
      PROVE  nzp' = outcome'
  <2>1. instruction' = instruction /\ outcome' = outcome /\ Is("CMP")
    BY <1>1, InstructionMoves DEF Is
  <2>2. ~BlockReset
    BY <2>1 DEF AtRest, BlockReset
  <2> QED
    BY <2>1, <2>2, FlagsMove
<1>2. ASSUME Comparing'
      PROVE  outcome' \in instruction'.flags
  <2>1. CASE sched_state' = "DECODE"
    <3>1. sched_state = "FETCH" /\ fetch_done
      BY <2>1, SchedMoves
    <3>2. instruction' = instruction_raw
      BY <3>1 DEF Tick, LatchTick
    <3> QED
      BY <1>2, <3>1, <3>2 DEF Tick, LatchTick, Comparing, Is
  <2>2. CASE sched_state' # "DECODE"
    <3>1. instruction' = instruction /\ outcome' = outcome
      BY <2>2, InstructionMoves
    <3>2. Executing
      BY <1>2, <2>2, SchedMoves DEF Comparing, Executing
    <3> QED
      BY <1>2, <3>1, <3>2 DEF FlagsSet, Comparing, Is
  <2> QED
    BY <2>1, <2>2
<1> QED
  BY <1>1, <1>2 DEF FlagsSet

(* A CMP gives every lane flags. *)
LEMMA ComparisonSets ==
    ASSUME CoreIInv, Executing, PcsFollow, FlagsSet, NEW lay, LaidOut(prog, lay),
           NEW x \in Addresses(prog), NEW c, PathAt(lay, x, c), Is("CMP")
    PROVE  outcome \in [Lanes -> Flags]
<1>1. instruction = prog[x + 1]
  BY WhereNow
<1>2. LaidOutAt(prog, lay, x)
  BY DEF LaidOut
<1> QED
  BY <1>1, <1>2 DEF LaidOutAt, Is, FlagsSet, Comparing

(* Lanes that have flags keep having some. *)
LEMMA SomeFlagsStay ==
    ASSUME CoreIInv, PcsFollow, FlagsSet, NEW lay, LaidOut(prog, lay),
           NEW x \in Addresses(prog), NEW c, PathAt(lay, x, c),
           SimtTick, sched_state # "UPDATE", ~BlockReset, SomeFlags
    PROVE  SomeFlags'
<1>1. \A i \in Lanes : ref_nzp'[i] = ref_nzp[i]
  BY RefsStay
<1>2. Tick
  BY DEF SimtTick
<1>3. CASE nzp' = nzp
  BY <1>1, <1>3 DEF SomeFlags, Lanes
<1>4. CASE nzp' # nzp
  <2>1. sched_state = "DECODE" /\ Is("CMP") /\ nzp' = outcome
    BY <1>2, <1>4, FlagsMove
  <2>2. nzp' \in [Lanes -> Flags]
    BY <2>1, ComparisonSets DEF Executing
  <2> QED
    BY <1>1, <2>2 DEF SomeFlags, Lanes
<1> QED
  BY <1>3, <1>4

(* What is known of the flags stays known. *)
LEMMA FlagsFitStay ==
    ASSUME CoreIInv, PcsFollow, FlagsSet, NEW lay, LaidOut(prog, lay),
           NEW x \in Addresses(prog), NEW c, PathAt(lay, x, c),
           SimtTick, sched_state \notin {"IDLE", "UPDATE"}
    PROVE  FlagsFit(lay, x)'
<1>1. Tick /\ ~BlockReset
  BY DEF SimtTick, BlockReset
<1>2. lay.known[x] >= 1 => SomeFlags'
  BY <1>1, SomeFlagsStay DEF PathAt, FlagsFit
<1>3. ASSUME ~Comparing'
      PROVE  ~Comparing /\ nzp' = nzp
  <2>1. ~Comparing
    <3> SUFFICES ASSUME Comparing
                 PROVE  FALSE
      OBVIOUS
    <3>1. instruction' = instruction
      BY <1>1, InstructionStays DEF Comparing, Executing
    <3>2. Executing'
      BY <1>1, SchedMoves DEF Comparing, Executing
    <3> QED
      BY <1>3, <3>1, <3>2 DEF Comparing, Is
  <2> QED
    BY <1>1, <2>1, FlagsMove DEF Comparing, Executing
<1>4. MaskThen' = MaskThen /\ MaskThen \subseteq Lanes
  BY <1>1, EffectComes DEF PathAt
<1>5. \A i \in Lanes : ref_nzp'[i] = ref_nzp[i]
  BY <1>1, RefsStay
<1>6. FlagsFit(lay, x)
  BY DEF PathAt
<1> QED
  BY <1>2, <1>3, <1>4, <1>5, <1>6 DEF FlagsFit

(* On an edge on which no instruction ends the lanes stay where they are. *)
LEMMA QuietEdge ==
    ASSUME CoreIInv, PcsFollow, FlagsSet, NEW lay, LaidOut(prog, lay),
           NEW x \in Addresses(prog), NEW c, PathAt(lay, x, c),
           SimtTick, sched_state \notin {"IDLE", "UPDATE"}
    PROVE  PathAt(lay, x, c)' /\ PcsFollow'
<1>1. Tick /\ ~BlockReset /\ prog' = prog
  BY DEF SimtTick, BlockReset, Tick
<1>2. /\ MaskThen' = MaskThen /\ WarpThen' = WarpThen /\ CallsThen' = CallsThen
      /\ \A i \in Lanes : PcAfter(i)' = PcAfter(i)
  BY <1>1, EffectComes
<1>3. \A i \in Lanes : ref_pc'[i] = ref_pc[i] /\ ref_stack'[i] = ref_stack[i]
  BY <1>1, RefsStay
<1>4. SomeFlags => SomeFlags'
  BY <1>1, SomeFlagsStay
<1>5. \A S \in SUBSET Lanes : \A y, d : Together(S, y, d) => Together(S, y, d)'
  BY <1>3 DEF Together
<1>6. Together(MaskThen, x, c)'
  BY <1>2, <1>3 DEF PathAt, Together
<1>7. ReturnsFit(lay, x, c)'
  BY <1>4 DEF PathAt, ReturnsFit
<1>8. Parked(lay, Home(x, c))'
  <2> DEFINE h == Home(x, c)
  <2> HIDE DEF h
  <2>1. CASE NoneParked
    BY <1>2, <2>1 DEF Parked, NoneParked, Lanes
  <2>2. CASE ~NoneParked
    <3>1. MaskThen # Lanes /\ SomeFlags
      BY <2>2 DEF PathAt, Parked
    <3>2. PICK s \in Addresses(prog) : /\ lay.kind[s] = "sync" /\ lay.depth[s] = 0
                                       /\ ElsParked(lay, h, s) \/ ThenParked(lay, h, s)
      BY <2>2 DEF PathAt, Parked, h
    <3>3. ElsParked(lay, h, s) => ElsParked(lay, h, s)'
      BY <1>1, <1>2, <1>3 DEF ElsParked, Together, Lanes, InArm, Addresses
    <3>4. ThenParked(lay, h, s) => ThenParked(lay, h, s)'
      BY <1>1, <1>2, <1>3 DEF ThenParked, Together, Lanes, InArm
    <3>5. s \in Addresses(prog)'
      BY <1>1 DEF Addresses
    <3> QED
      BY <1>2, <1>4, <3>1, <3>2, <3>3, <3>4, <3>5 DEF Parked, Lanes, h
  <2> QED
    BY <2>1, <2>2
<1>9. FlagsFit(lay, x)'
  BY FlagsFitStay
<1>10. PcsFollow'
  BY <1>2, <1>3 DEF PcsFollow, Lanes
<1> QED
  BY <1>2, <1>6, <1>7, <1>8, <1>9, <1>10 DEF PathAt, Lanes

--------------------------------------------------------------------------------
(* The beginning and the end of a block. *)

LEMMA StartEdge ==
    ASSUME CoreIInv, AtRest, NEW lay, LaidOut(prog, lay), SimtTick, BlockReset
    PROVE  PathAt(lay, 0, <<>>)' /\ PcsFollow' /\ 0 \in Addresses(prog)
<1>1. Tick /\ prog' = prog /\ sched_state = "IDLE" /\ core_start
  BY DEF SimtTick, Tick, BlockReset
<1>2. sched_state' = "FETCH" /\ strobes' = {"fetcher_en"} /\ active_mask' = Lanes
  BY <1>1 DEF Tick, SchedTick, Idle, Start, Fetch, Decode, Request, Wait, Execute, Update,
              Diverge, SyncPop, ChangeMask, Step
<1>3. warp_stack' = <<>> /\ call_stack' = <<>>
  <2>1. ~On("pc_en")
    BY <1>1 DEF CoreIInv, StrobesFit, On
  <2> QED
    BY <1>1, <2>1 DEF AtRest, Tick, WarpTick, CallTick
<1>4. MaskThen' = Lanes /\ WarpThen' = <<>> /\ CallsThen' = <<>>
  BY <1>2, <1>3 DEF MaskThen, WarpThen, CallsThen, On
<1>5. \A i \in Lanes : pc'[i] = 0 /\ ref_pc'[i] = 0 /\ ref_stack'[i] = <<>>
  BY <1>1 DEF Tick, PcTick, SimtTick, RefTick
<1>6. Lanes # {}
  BY NAssumption DEF Lanes
<1>7. 0 \in Addresses(prog)
  BY DEF LaidOut, Addresses
<1>8. lay.depth[0] = 0 /\ lay.known[0] = 0
  BY DEF LaidOut
<1>9. Together(MaskThen, 0, <<>>)'
  BY <1>4, <1>5 DEF Together
<1>10. ReturnsFit(lay, 0, <<>>)'
  BY <1>8 DEF ReturnsFit
<1>11. Parked(lay, Home(0, <<>>))'
  BY <1>4 DEF Parked, NoneParked, Lanes
<1>12. FlagsFit(lay, 0)'
  BY <1>8 DEF FlagsFit
<1>13. PcsFollow'
  BY <1>2, <1>5 DEF PcsFollow, PcAfter, On, Lanes
<1> QED
  BY <1>4, <1>6, <1>7, <1>9, <1>10, <1>11, <1>12, <1>13 DEF PathAt, Lanes

(* Outside of funcs and arms no return is outstanding and no lane parked. *)
LEMMA OutsideIsWhole ==
    ASSUME NEW lay, NEW x, NEW c, PathAt(lay, x, c), c \in Seq(Addresses(prog)),
           lay.depth[x] = 0, lay.kind[x] = "out"
    PROVE  c = <<>> /\ NoneParked
<1>1. Len(c) = 0
  BY DEF PathAt, ReturnsFit
<1>2. c = <<>>
  BY <1>1
<1>3. Home(x, c) = x
  BY <1>2 DEF Home
<1> QED
  BY <1>2, <1>3 DEF PathAt, Parked, ElsParked, ThenParked, InArm

LEMMA EndEdge ==
    ASSUME CoreIInv, PcsFollow, NEW lay, LaidOut(prog, lay),
           NEW x \in Addresses(prog), NEW c \in Seq(Addresses(prog)), PathAt(lay, x, c),
           SimtTick, sched_state = "UPDATE", Is("RET")
    PROVE  sched_state' = "IDLE" /\ AtRest'
<1>1. Tick /\ Executing
  BY DEF SimtTick, Executing
<1>2. sched_state' = "IDLE"
  BY <1>1 DEF Tick, SchedTick, Idle, Start, Fetch, Decode, Request, Wait, Execute, Update,
              Diverge, SyncPop, ChangeMask, Step
<1>3. instruction = prog[x + 1] /\ call_stack = c /\ WarpThen = warp_stack /\ ~On("pc_en")
  BY <1>1, WhereNow DEF PathAt
<1>4. LaidOutAt(prog, lay, x)
  BY DEF LaidOut
<1>5. lay.depth[x] = 0 /\ lay.kind[x] = "out"
  BY <1>3, <1>4 DEF LaidOutAt, Is
<1>6. warp_stack = <<>> /\ call_stack = <<>>
  BY <1>3, <1>5, OutsideIsWhole DEF NoneParked
<1>7. warp_stack' = <<>> /\ call_stack' = <<>>
  BY <1>1, <1>3, <1>6 DEF Tick, WarpTick, CallTick
<1>8. instruction' = instruction
  BY <1>1, InstructionStays
<1> QED
  BY <1>2, <1>7, <1>8 DEF AtRest, Is

LEMMA IdleEdge ==
    ASSUME CoreIInv, AtRest, SimtTick, sched_state = "IDLE", ~BlockReset
    PROVE  sched_state' = "IDLE" /\ AtRest'
<1>1. Tick /\ ~core_start
  BY DEF SimtTick, BlockReset
<1>2. sched_state' = "IDLE"
  BY <1>1 DEF Tick, SchedTick, Idle, Start, Fetch, Decode, Request, Wait, Execute, Update,
              Diverge, SyncPop, ChangeMask, Step
<1>3. instruction' = instruction
  BY <1>1, <1>2, InstructionMoves
<1>4. ~On("pc_en")
  BY DEF CoreIInv, StrobesFit, On
<1>5. warp_stack' = <<>> /\ call_stack' = <<>>
  BY <1>1, <1>4 DEF AtRest, Tick, WarpTick, CallTick
<1> QED
  BY <1>2, <1>3, <1>5 DEF AtRest, Is

--------------------------------------------------------------------------------
(* The edge on which an instruction ends. *)

(* The core has yet to move ... *)
LEMMA UpdateEdge ==
    ASSUME CoreIInv, PcsFollow, FlagsSet, NEW lay, NEW x \in Addresses(prog), NEW c,
           PathAt(lay, x, c), SimtTick, sched_state = "UPDATE", ~Is("RET")
    PROVE  /\ active_mask' = active_mask /\ warp_stack' = warp_stack /\ call_stack' = c
           /\ instruction' = instruction /\ nzp' = nzp /\ prog' = prog
           /\ \A i \in Lanes : pc'[i] = pc[i]
           /\ On("pc_en")'
           /\ sched_state' = IF Diverges THEN "DIVERGE"
                             ELSE IF Is("SYNC") THEN "SYNC_POP" ELSE "FETCH"
<1>1. Tick /\ ~BlockReset /\ Executing
  BY DEF SimtTick, BlockReset, Executing
<1>2. /\ active_mask' = active_mask
      /\ strobes' = {"pc_en", "write_back_en"}
      /\ sched_state' = IF Diverges THEN "DIVERGE"
                        ELSE IF Is("SYNC") THEN "SYNC_POP" ELSE "FETCH"
  BY <1>1 DEF Tick, SchedTick, Idle, Start, Fetch, Decode, Request, Wait, Execute, Update,
              Diverge, SyncPop, ChangeMask, Step
<1>3. ~On("pc_en") /\ call_stack = c
  BY <1>1, WhereNow DEF PathAt
<1>4. warp_stack' = warp_stack /\ call_stack' = c
  BY <1>1, <1>3 DEF Tick, WarpTick, CallTick
<1>5. instruction' = instruction
  BY <1>1, InstructionStays
<1>6. nzp' = nzp
  BY <1>1, FlagsMove
<1>7. \A i \in Lanes : pc'[i] = pc[i]
  BY <1>1, <1>3 DEF Tick, PcTick, PcAfter
<1> QED
  BY <1>1, <1>2, <1>4, <1>5, <1>6, <1>7 DEF On, Tick

(* ... and the lanes that are active have done what each would do alone.   *)
LEMMA HistoryMoves ==
    ASSUME CoreIInv, PcsFollow, NEW lay, NEW x \in Addresses(prog), NEW c,
           PathAt(lay, x, c), SimtTick, sched_state = "UPDATE", ~Is("RET")
    PROVE  /\ \A i \in active_mask :
                 /\ ref_pc'[i] = IF Is("SRET") THEN Head(c)
                                 ELSE IF Is("CALL") \/ (Is("BR") /\ ref_nzp[i] \in instruction.mask)
                                 THEN x + instruction.off ELSE x + 1
                 /\ ref_stack'[i] = IF Is("CALL") THEN <<x + 1>> \o c
                                    ELSE IF Is("SRET") THEN Tail(c) ELSE c
                 /\ ref_nzp'[i] = IF Is("CMP") THEN outcome[i] ELSE ref_nzp[i]
           /\ \A i \in Lanes \ active_mask :
                 ref_pc'[i] = ref_pc[i] /\ ref_stack'[i] = ref_stack[i] /\ ref_nzp'[i] = ref_nzp[i]
<1>1. RefTick /\ ~BlockReset /\ Executed = active_mask /\ Executing
  BY DEF SimtTick, BlockReset, Executed, Executing
<1>2. MaskThen = active_mask /\ active_mask \subseteq Lanes
      /\ \A i \in active_mask : Own(i) = instruction
  BY <1>1, WhereNow DEF PathAt
<1>3. \A i \in active_mask : ref_pc[i] = x /\ ref_stack[i] = c
  BY <1>2 DEF PathAt, Together
<1>4. \A i \in Lanes \ active_mask :
         ref_pc'[i] = ref_pc[i] /\ ref_stack'[i] = ref_stack[i] /\ ref_nzp'[i] = ref_nzp[i]
  BY <1>1 DEF RefTick
<1>5. ASSUME NEW i \in active_mask
      PROVE  /\ ref_pc'[i] = RefPcAfter(i)
             /\ ref_stack'[i] = RefStackAfter(i)
             /\ ref_nzp'[i] = IF Own(i).op = "CMP" THEN outcome[i] ELSE ref_nzp[i]
  BY <1>1, <1>2 DEF RefTick
<1>6. ASSUME NEW i \in active_mask
      PROVE  /\ RefPcAfter(i) = IF Is("SRET") THEN Head(c)
                                ELSE IF Is("CALL") \/ (Is("BR") /\ ref_nzp[i] \in instruction.mask)
                                THEN x + instruction.off ELSE x + 1
             /\ RefStackAfter(i) = IF Is("CALL") THEN <<x + 1>> \o c
                                   ELSE IF Is("SRET") THEN Tail(c) ELSE c
  BY <1>2, <1>3 DEF RefPcAfter, RefStackAfter, Is
<1> QED
  BY <1>2, <1>4, <1>5, <1>6 DEF Is

(* An instruction other than RET ends. *)
Ending(lay, x, c) ==
    /\ CoreIInv /\ PcsFollow /\ FlagsSet
    /\ LaidOut(prog, lay)
    /\ x \in Addresses(prog) /\ c \in Seq(Addresses(prog))
    /\ PathAt(lay, x, c)
    /\ sched_state = "UPDATE" /\ ~Is("RET")

(* What is used of it again and again. *)
LEMMA EndingFacts ==
    ASSUME NEW lay, NEW x, NEW c, Ending(lay, x, c)
    PROVE  /\ Executing /\ ActivePc = x /\ instruction = prog[x + 1]
           /\ LaidOutAt(prog, lay, x)
           /\ MaskThen = active_mask /\ WarpThen = warp_stack
           /\ active_mask # {} /\ active_mask \subseteq Lanes
           /\ \A i \in Lanes : pc[i] = ref_pc[i]
           /\ \A i \in active_mask : ref_pc[i] = x /\ ref_stack[i] = c
           /\ lay.depth \in [Addresses(prog) -> 0 .. CallDepth]
           /\ lay.known \in [Addresses(prog) -> 0 .. 3]
           /\ Len(c) = lay.depth[x] /\ Len(c) \in Nat
           /\ lay.depth[x] = 0 => c = <<>>
<1> USE DEF Ending
<1>1. Executing
  BY DEF Executing
<1>2. /\ ActivePc = x /\ instruction = prog[x + 1]
      /\ MaskThen = active_mask /\ WarpThen = warp_stack
      /\ \A i \in Lanes : pc[i] = ref_pc[i]
  BY <1>1, WhereNow
<1>3. LaidOutAt(prog, lay, x)
  BY DEF LaidOut
<1>4. /\ lay.depth \in [Addresses(prog) -> 0 .. CallDepth]
      /\ lay.known \in [Addresses(prog) -> 0 .. 3]
  BY DEF LaidOut, LayoutType
<1>5. Len(c) = lay.depth[x] /\ Len(c) \in Nat
  BY DEF PathAt, ReturnsFit
<1>6. lay.depth[x] = 0 => c = <<>>
  BY <1>5
<1>7. active_mask # {} /\ active_mask \subseteq Lanes
  BY <1>2 DEF PathAt
<1>8. \A i \in active_mask : ref_pc[i] = x /\ ref_stack[i] = c
  BY <1>2 DEF PathAt, Together
<1> QED
  BY <1>1, <1>2, <1>3, <1>4, <1>5, <1>6, <1>7, <1>8

(* The flags the core branches on are the lane's own. *)
LEMMA BranchesAgree ==
    ASSUME NEW lay, NEW x, NEW c, Ending(lay, x, c), Is("BR"), NEW i \in active_mask
    PROVE  /\ ref_nzp[i] \in instruction.mask <=> i \in Taken
           /\ nzp[i] \in instruction.mask <=> i \in Taken
<1>1. /\ instruction = prog[x + 1] /\ LaidOutAt(prog, lay, x)
      /\ MaskThen = active_mask /\ i \in Lanes
      /\ lay.known[x] \in 0 .. 3
  BY EndingFacts DEF Ending
<1>2. nzp[i] \in instruction.mask <=> i \in Taken
  BY DEF Taken
<1>3. ~Comparing
  BY DEF Comparing, Is
<1>4. CASE AlwaysTaken(prog, lay, x)
  <2>1. SomeFlags
    BY <1>4 DEF AlwaysTaken, Ending, PathAt, FlagsFit
  <2> QED
    BY <1>1, <1>2, <1>4, <2>1 DEF AlwaysTaken, SomeFlags
<1>5. CASE lay.known[x] >= 2
  BY <1>1, <1>2, <1>3, <1>5 DEF Ending, PathAt, FlagsFit
<1> QED
  BY <1>1, <1>4, <1>5 DEF LaidOutAt, TakenAlike, Forks, Is

(* So the core's PCs will be the history's. *)
LEMMA PcsFollowUpdate ==
    ASSUME NEW lay, NEW x, NEW c, Ending(lay, x, c), SimtTick
    PROVE  PcsFollow'
<1>1. /\ active_mask' = active_mask /\ call_stack' = c
      /\ instruction' = instruction /\ nzp' = nzp
      /\ \A i \in Lanes : pc'[i] = pc[i]
      /\ On("pc_en")'
  BY UpdateEdge DEF Ending
<1>2. /\ active_mask \subseteq Lanes /\ instruction = prog[x + 1] /\ LaidOutAt(prog, lay, x)
      /\ \A i \in Lanes : pc[i] = ref_pc[i]
      /\ \A i \in active_mask : ref_pc[i] = x
      /\ Len(c) = lay.depth[x] /\ Len(c) \in Nat
  BY EndingFacts
<1>3. ASSUME NEW i \in Lanes, i \notin active_mask
      PROVE  PcAfter(i)' = ref_pc'[i]
  <2>1. ref_pc'[i] = ref_pc[i]
    BY <1>3, HistoryMoves DEF Ending
  <2> QED
    BY <1>1, <1>2, <1>3, <2>1 DEF PcAfter
<1>4. ASSUME NEW i \in active_mask
      PROVE  PcAfter(i)' = ref_pc'[i]
  <2>1. ref_pc'[i] = IF Is("SRET") THEN Head(c)
                     ELSE IF Is("CALL") \/ (Is("BR") /\ ref_nzp[i] \in instruction.mask)
                     THEN x + instruction.off ELSE x + 1
    BY HistoryMoves DEF Ending
  <2>2. Is("BR") => (ref_nzp[i] \in instruction.mask <=> nzp[i] \in instruction.mask)
    BY BranchesAgree
  <2>3. Is("SRET") => c # <<>>
    BY <1>2 DEF LaidOutAt, Is
  <2>4. PcAfter(i)' = IF Is("SRET") THEN (IF c = <<>> THEN 0 ELSE Head(c))
                      ELSE IF Is("CALL") \/ (Is("BR") /\ nzp[i] \in instruction.mask)
                      THEN x + instruction.off ELSE x + 1
    BY <1>1, <1>2 DEF PcAfter, TopReturn, Is
  <2> QED
    BY <2>1, <2>2, <2>3, <2>4
<1> QED
  BY <1>3, <1>4 DEF PcsFollow, Lanes

(* Lanes that have flags keep having some, in the history as well. *)
LEMMA SomeFlagsUpdate ==
    ASSUME NEW lay, NEW x, NEW c, Ending(lay, x, c), SimtTick, SomeFlags
    PROVE  SomeFlags'
<1>1. nzp' = nzp
  BY UpdateEdge DEF Ending
<1>2. Is("CMP") => outcome \in [Lanes -> Flags]
  BY ComparisonSets DEF Ending, Executing
<1>3. \A i \in Lanes : ref_nzp'[i] = ref_nzp[i] \/ (Is("CMP") /\ ref_nzp'[i] = outcome[i])
  BY HistoryMoves DEF Ending
<1> QED
  BY <1>1, <1>2, <1>3 DEF SomeFlags, Lanes

(* Behind a CMP the active lanes' flags are their own. *)
LEMMA FlagsAfterCmp ==
    ASSUME NEW lay, NEW x, NEW c, Ending(lay, x, c), SimtTick, Is("CMP"), NEW y,
           MaskThen' = MaskThen, lay.known[y] \in 0 .. 3,
           lay.known[y] <= IF Alike(instruction.flags) THEN 3 ELSE 2
    PROVE  FlagsFit(lay, y)'
<1>1. nzp' = nzp /\ nzp = outcome
  BY UpdateEdge DEF Ending, FlagsSet
<1>2. outcome \in [Lanes -> Flags] /\ MaskThen = active_mask
      /\ active_mask \subseteq Lanes
  BY EndingFacts, ComparisonSets DEF Ending
<1>3. \A i \in active_mask : ref_nzp'[i] = outcome[i]
  BY HistoryMoves DEF Ending
<1>4. SomeFlags'
  <2>1. CASE active_mask = Lanes
    BY <1>1, <1>2, <1>3, <2>1 DEF SomeFlags, Lanes
  <2>2. CASE active_mask # Lanes
    <3>1. SomeFlags
      BY <1>2, <2>2 DEF Ending, PathAt, Parked, NoneParked
    <3> QED
      BY <3>1, SomeFlagsUpdate
  <2> QED
    BY <2>1, <2>2
<1>5. lay.known[y] >= 3 => \A i, k \in Lanes : outcome[i] = outcome[k]
  <2>1. CASE Alike(instruction.flags)
    <3>1. outcome \in instruction.flags
      BY DEF Ending, FlagsSet, Comparing, Executing
    <3> QED
      BY <2>1, <3>1 DEF Alike
  <2>2. CASE ~Alike(instruction.flags)
    <3>1. lay.known[y] <= 2
      BY <2>2
    <3> QED
      BY <3>1
  <2> QED
    BY <2>1, <2>2
<1> QED
  BY <1>1, <1>2, <1>3, <1>4, <1>5 DEF FlagsFit

(* Behind any other instruction what was known is still true. *)
LEMMA FlagsKept ==
    ASSUME NEW lay, NEW x, NEW c, Ending(lay, x, c), SimtTick, ~Is("CMP"), NEW y,
           MaskThen' \subseteq MaskThen, lay.known[y] \in 0 .. 3, lay.known[y] <= lay.known[x]
    PROVE  FlagsFit(lay, y)'
<1>1. nzp' = nzp
  BY UpdateEdge DEF Ending
<1>2. \A i \in Lanes : ref_nzp'[i] = ref_nzp[i]
  BY HistoryMoves DEF Ending
<1>3. MaskThen \subseteq Lanes /\ FlagsFit(lay, x)
  BY DEF Ending, PathAt
<1>4. lay.known[x] \in 0 .. 3
  BY EndingFacts DEF Ending
<1>5. SomeFlags => SomeFlags'
  BY SomeFlagsUpdate
<1>6. lay.known[y] >= 1 => SomeFlags'
  BY <1>3, <1>4, <1>5 DEF FlagsFit
<1>7. lay.known[y] >= 2 => \A i \in MaskThen' : nzp'[i] = ref_nzp'[i]
  BY <1>1, <1>2, <1>3, <1>4 DEF FlagsFit, Comparing
<1>8. lay.known[y] >= 3 => \A i, k \in MaskThen' : nzp'[i] = nzp'[k]
  BY <1>1, <1>3, <1>4 DEF FlagsFit, Comparing
<1> QED
  BY <1>6, <1>7, <1>8 DEF FlagsFit

(* Where little is known little is needed. *)
LEMMA FlagsFew ==
    ASSUME NEW lay, NEW y, lay.known[y] \in 0 .. 3, lay.known[y] <= 1,
           lay.known[y] = 1 => SomeFlags'
    PROVE  FlagsFit(lay, y)'
  BY DEF FlagsFit

(* The other arm's lanes stay parked while the active ones go on to the    *)
(* end of theirs.                                                          *)
LEMMA ParkedGoesOn ==
    ASSUME NEW lay, NEW h, NEW g, NEW known, Parked(lay, h),
           g = h \/ (GoesOn(prog, lay, h, g, known) /\ lay.kind[h] # "sync"),
           MaskThen' = MaskThen, WarpThen' = WarpThen, prog' = prog,
           SomeFlags => SomeFlags',
           \A i \in Lanes \ MaskThen : ref_pc'[i] = ref_pc[i] /\ ref_stack'[i] = ref_stack[i]
    PROVE  Parked(lay, g)'
<1>1. CASE NoneParked
  BY <1>1 DEF Parked, NoneParked, Lanes
<1>2. CASE ~NoneParked
  <2>1. MaskThen # Lanes /\ SomeFlags
    BY <1>2 DEF Parked
  <2>2. PICK s \in Addresses(prog) : /\ lay.kind[s] = "sync" /\ lay.depth[s] = 0
                                     /\ ElsParked(lay, h, s) \/ ThenParked(lay, h, s)
    BY <1>2 DEF Parked
  <2>3. \A arm \in {"then", "els"} : InArm(lay, h, arm, s) => InArm(lay, g, arm, s)
    BY <2>2 DEF InArm, GoesOn
  <2>4. \A y, d : Together(Lanes \ MaskThen, y, d) => Together(Lanes \ MaskThen, y, d)'
    BY DEF Together, Lanes
  <2>5. ElsParked(lay, h, s) => ElsParked(lay, g, s)'
    <3> SUFFICES ASSUME ElsParked(lay, h, s)
                 PROVE  ElsParked(lay, g, s)'
      OBVIOUS
    <3>1. InArm(lay, g, "then", s)
      BY <2>3 DEF ElsParked
    <3>2. WarpThen' = <<Lanes \ MaskThen'>>
      BY DEF ElsParked
    <3>3. PICK y \in Addresses(prog) :
             /\ lay.depth[y] = 0 /\ lay.kind[y] = "els" /\ lay.join[y] = s /\ lay.known[y] <= 1
             /\ Together(Lanes \ MaskThen, y, <<>>)
      BY DEF ElsParked
    <3>4. Together(Lanes \ MaskThen, y, <<>>)' /\ y \in Addresses(prog')
      BY <2>4, <3>3
    <3> QED
      BY <3>1, <3>2, <3>3, <3>4 DEF ElsParked, InArm, Lanes
  <2>6. ThenParked(lay, h, s) => ThenParked(lay, g, s)'
    BY <2>3, <2>4 DEF ThenParked, InArm, Lanes
  <2> QED
    BY <2>1, <2>2, <2>5, <2>6 DEF Parked, Lanes
<1> QED
  BY <1>1, <1>2

--------------------------------------------------------------------------------
(* The instructions, one by one. *)

(* The active lanes are somewhere again. *)
Somewhere(lay) ==
    \E x \in Addresses(prog), c \in Seq(Addresses(prog)) : PathAt(lay, x, c)

(* Instructions that change no stack and no mask. *)
LEMMA MovesOn ==
    ASSUME NEW lay, NEW x, NEW c, Ending(lay, x, c), SimtTick,
           ~Is("CALL"), ~Is("SRET"), ~Is("SYNC"), ~Diverges,
           NEW y, NEW known, GoesOn(prog, lay, x, y, known),
           \A i \in active_mask : ref_pc'[i] = y,
           FlagsFit(lay, y)'
    PROVE  Somewhere(lay)'
<1>1. /\ active_mask' = active_mask /\ warp_stack' = warp_stack /\ call_stack' = c
      /\ instruction' = instruction /\ prog' = prog /\ sched_state' = "FETCH"
  BY UpdateEdge DEF Ending
<1>2. /\ MaskThen = active_mask /\ WarpThen = warp_stack
      /\ active_mask # {} /\ active_mask \subseteq Lanes
      /\ LaidOutAt(prog, lay, x) /\ instruction = prog[x + 1]
      /\ Len(c) = lay.depth[x] /\ (lay.depth[x] = 0 => c = <<>>)
  BY EndingFacts
<1>3. MaskThen' = active_mask /\ WarpThen' = warp_stack /\ CallsThen' = c
  BY <1>1 DEF MaskThen, WarpThen, CallsThen, Is
<1>4. \A i \in active_mask : ref_stack'[i] = c
  BY HistoryMoves DEF Ending
<1>5. \A i \in Lanes \ active_mask : ref_pc'[i] = ref_pc[i] /\ ref_stack'[i] = ref_stack[i]
  BY HistoryMoves DEF Ending
<1>6. SomeFlags => SomeFlags'
  BY SomeFlagsUpdate
<1>7. y \in Addresses(prog') /\ c \in Seq(Addresses(prog'))
  BY <1>1 DEF GoesOn, Ending
<1>8. ReturnsFit(lay, y, c)'
  BY <1>6 DEF Ending, PathAt, ReturnsFit, GoesOn
<1>9. Parked(lay, Home(y, c))'
  <2>1. Parked(lay, Home(x, c))
    BY DEF Ending, PathAt
  <2>2. Home(y, c) = Home(x, c) \/
        (GoesOn(prog, lay, Home(x, c), Home(y, c), known) /\ lay.kind[Home(x, c)] # "sync")
    <3>1. CASE c = <<>>
      <4>1. Home(x, c) = x /\ Home(y, c) = y
        BY <3>1 DEF Home
      <4>2. lay.kind[x] # "sync"
        BY <1>2, <3>1 DEF LaidOutAt, Is
      <4> QED
        BY <4>1, <4>2
    <3>2. CASE c # <<>>
      BY <3>2 DEF Home
    <3> QED
      BY <3>1, <3>2
  <2>3. Parked(lay, Home(y, c))'
    BY <1>1, <1>2, <1>3, <1>5, <1>6, <2>1, <2>2, ParkedGoesOn
  <2> QED
    BY <2>3
<1>10. Together(MaskThen, y, c)'
  BY <1>3, <1>4 DEF Together
<1>11. PathAt(lay, y, c)'
  BY <1>2, <1>3, <1>8, <1>9, <1>10 DEF PathAt, Lanes
<1> QED
  BY <1>7, <1>11 DEF Somewhere

LEMMA PlainCase ==
    ASSUME NEW lay, NEW x, NEW c, Ending(lay, x, c), SimtTick,
           instruction.op \notin {"RET", "SYNC", "CMP", "BR", "CALL", "SRET"}
    PROVE  Somewhere(lay)'
<1>1. GoesOn(prog, lay, x, x + 1, lay.known[x])
  BY EndingFacts DEF LaidOutAt
<1>2. \A i \in active_mask : ref_pc'[i] = x + 1
  BY HistoryMoves DEF Ending, Is
<1>3. ~Is("CMP") /\ ~Is("CALL") /\ ~Is("SRET") /\ ~Is("SYNC") /\ ~Diverges
  BY DEF Is, Diverges
<1>4. MaskThen' = MaskThen
  BY <1>3, UpdateEdge, EndingFacts DEF Ending, MaskThen
<1>5. lay.known[x + 1] \in 0 .. 3 /\ lay.known[x + 1] <= lay.known[x]
  BY <1>1, EndingFacts DEF GoesOn
<1>6. FlagsFit(lay, x + 1)'
  BY <1>3, <1>4, <1>5, FlagsKept
<1> QED
  BY <1>1, <1>2, <1>3, <1>6, MovesOn

LEMMA CmpCase ==
    ASSUME NEW lay, NEW x, NEW c, Ending(lay, x, c), SimtTick, Is("CMP")
    PROVE  Somewhere(lay)'
<1> DEFINE known == IF Alike(instruction.flags) THEN 3 ELSE 2
<1>1. GoesOn(prog, lay, x, x + 1, known)
  BY EndingFacts DEF LaidOutAt, Is
<1>2. \A i \in active_mask : ref_pc'[i] = x + 1
  BY HistoryMoves DEF Ending, Is
<1>3. ~Is("CALL") /\ ~Is("SRET") /\ ~Is("SYNC") /\ ~Diverges
  BY DEF Is, Diverges
<1>4. MaskThen' = MaskThen
  BY <1>3, UpdateEdge, EndingFacts DEF Ending, MaskThen
<1>5. lay.known[x + 1] \in 0 .. 3 /\ lay.known[x + 1] <= known
  BY <1>1, EndingFacts DEF GoesOn
<1>6. FlagsFit(lay, x + 1)'
  BY <1>4, <1>5, FlagsAfterCmp
<1> HIDE DEF known
<1> QED
  BY <1>1, <1>2, <1>3, <1>6, MovesOn

(* A branch that every lane takes, or none. *)
LEMMA BranchCase ==
    ASSUME NEW lay, NEW x, NEW c, Ending(lay, x, c), SimtTick, Is("BR"),
           AlwaysTaken(prog, lay, x) \/ TakenAlike(prog, lay, x)
    PROVE  Somewhere(lay)'
<1>1. /\ instruction = prog[x + 1] /\ MaskThen = active_mask
      /\ active_mask # {} /\ active_mask \subseteq Lanes
      /\ lay.known \in [Addresses(prog) -> 0 .. 3] /\ lay.known[x] \in 0 .. 3
  BY EndingFacts DEF Ending
<1>2. ~Is("CMP") /\ ~Is("CALL") /\ ~Is("SRET") /\ ~Is("SYNC")
  BY DEF Is
<1>3. Taken = active_mask \/ Taken = {}
  <2>1. CASE AlwaysTaken(prog, lay, x)
    <3>1. SomeFlags
      BY <2>1 DEF AlwaysTaken, Ending, PathAt, FlagsFit
    <3> QED
      BY <1>1, <2>1, <3>1 DEF Taken, AlwaysTaken, SomeFlags
  <2>2. CASE TakenAlike(prog, lay, x)
    <3>1. \A i, k \in active_mask : nzp[i] = nzp[k]
      BY <1>1, <2>2 DEF TakenAlike, Ending, PathAt, FlagsFit, Comparing, Is
    <3> QED
      BY <3>1 DEF Taken
  <2> QED
    BY <2>1, <2>2
<1>4. ~Diverges
  BY <1>3 DEF Diverges
<1>5. MaskThen' = MaskThen
  BY <1>1, <1>2, <1>4, UpdateEdge DEF Ending, MaskThen
<1>6. PICK y : /\ GoesOn(prog, lay, x, y, lay.known[x])
               /\ \A i \in active_mask : ref_pc'[i] = y
  <2>1. CASE Taken = active_mask
    <3>1. \A i \in active_mask : ref_pc'[i] = x + instruction.off
      BY <1>2, <2>1, HistoryMoves, BranchesAgree DEF Ending
    <3>2. GoesOn(prog, lay, x, x + instruction.off, lay.known[x])
      BY <1>1 DEF AlwaysTaken, TakenAlike
    <3> QED
      BY <3>1, <3>2
  <2>2. CASE Taken = {} /\ Taken # active_mask
    <3>1. \A i \in active_mask : ref_pc'[i] = x + 1
      BY <1>2, <2>2, HistoryMoves, BranchesAgree DEF Ending
    <3>2. ~AlwaysTaken(prog, lay, x)
      <4> SUFFICES ASSUME AlwaysTaken(prog, lay, x)
                   PROVE  FALSE
        OBVIOUS
      <4>1. SomeFlags
        BY DEF AlwaysTaken, Ending, PathAt, FlagsFit
      <4> QED
        BY <1>1, <2>2, <4>1 DEF Taken, AlwaysTaken, SomeFlags
    <3>3. GoesOn(prog, lay, x, x + 1, lay.known[x])
      BY <3>2 DEF TakenAlike
    <3> QED
      BY <3>1, <3>3
  <2> QED
    BY <1>3, <2>1, <2>2
<1>7. FlagsFit(lay, y)'
  BY <1>1, <1>2, <1>5, <1>6, FlagsKept DEF GoesOn
<1> QED
  BY <1>2, <1>4, <1>6, <1>7, MovesOn

(* The return address on a stack, and off it. *)
LEMMA Pushed ==
    ASSUME NEW S, NEW c \in Seq(S), NEW a \in S
    PROVE  /\ <<a>> \o c \in Seq(S)
           /\ Len(<<a>> \o c) = Len(c) + 1
           /\ (<<a>> \o c)[1] = a
           /\ \A k \in 1 .. Len(c) + 1 : k # 1 => (<<a>> \o c)[k] = c[k - 1] /\ k - 1 \in 1 .. Len(c)
           /\ <<a>> \o c # <<>>
<1>1. <<a>> \in Seq(S) /\ Len(<<a>>) = 1 /\ <<a>>[1] = a /\ Len(c) \in Nat
  OBVIOUS
<1>2. <<a>> \o c \in Seq(S)
  BY <1>1
<1>3. Len(<<a>> \o c) = Len(c) + 1
  BY <1>1
<1>4. \A k \in 1 .. Len(c) + 1 : (<<a>> \o c)[k] = IF k = 1 THEN a ELSE c[k - 1]
  BY <1>1
<1>5. (<<a>> \o c)[1] = a
  BY <1>1, <1>4
<1>6. \A k \in 1 .. Len(c) + 1 : k # 1 => (<<a>> \o c)[k] = c[k - 1] /\ k - 1 \in 1 .. Len(c)
  BY <1>1, <1>4
<1>7. <<a>> \o c # <<>>
  BY <1>1, <1>3
<1> QED
  BY <1>2, <1>3, <1>5, <1>6, <1>7

LEMMA Popped ==
    ASSUME NEW S, NEW c \in Seq(S), c # <<>>
    PROVE  /\ Tail(c) \in Seq(S)
           /\ Len(Tail(c)) = Len(c) - 1
           /\ Head(c) = c[1] /\ c[1] \in S
           /\ \A k \in 1 .. Len(c) - 1 : Tail(c)[k] = c[k + 1] /\ k + 1 \in 1 .. Len(c)
           /\ Tail(c) = <<>> <=> Len(c) = 1
           /\ Len(c) \in Nat \ {0}
<1>1. Len(c) \in Nat \ {0}
  OBVIOUS
<1>2. Tail(c) \in Seq(S) /\ Len(Tail(c)) = Len(c) - 1
  BY <1>1
<1>3. Head(c) = c[1] /\ c[1] \in S
  BY <1>1
<1>4. \A k \in 1 .. Len(c) - 1 : Tail(c)[k] = c[k + 1] /\ k + 1 \in 1 .. Len(c)
  BY <1>1
<1>5. Tail(c) = <<>> <=> Len(c) = 1
  <2>1. \A t \in Seq(S) : t = <<>> <=> Len(t) = 0
    OBVIOUS
  <2>2. Tail(c) = <<>> <=> Len(Tail(c)) = 0
    BY <1>2, <2>1
  <2> QED
    BY <1>1, <1>2, <2>2
<1> QED
  BY <1>1, <1>2, <1>3, <1>4, <1>5

LEMMA CallCase ==
    ASSUME NEW lay, NEW x, NEW c, Ending(lay, x, c), SimtTick, Is("CALL")
    PROVE  Somewhere(lay)'
<1>1. /\ active_mask' = active_mask /\ warp_stack' = warp_stack /\ call_stack' = c
      /\ instruction' = instruction /\ prog' = prog /\ sched_state' = "FETCH"
      /\ On("pc_en")'
      /\ \A i \in Lanes : pc'[i] = pc[i]
  BY UpdateEdge DEF Ending, Is, Diverges
<1>2. /\ MaskThen = active_mask /\ WarpThen = warp_stack
      /\ active_mask # {} /\ active_mask \subseteq Lanes
      /\ LaidOutAt(prog, lay, x) /\ instruction = prog[x + 1] /\ ActivePc = x
      /\ Len(c) = lay.depth[x] /\ Len(c) \in Nat /\ (lay.depth[x] = 0 => c = <<>>)
      /\ lay.depth \in [Addresses(prog) -> 0 .. CallDepth]
      /\ lay.known \in [Addresses(prog) -> 0 .. 3]
  BY EndingFacts
<1> PICK y : y = x + instruction.off
  OBVIOUS
<1> PICK d : d = <<x + 1>> \o c
  OBVIOUS
<1>3. /\ GoesOn(prog, lay, x, x + 1, Left(lay.known[x]))
      /\ y \in Addresses(prog)
      /\ lay.depth[y] = lay.depth[x] + 1
      /\ lay.known[y] <= lay.known[x]
  BY <1>2 DEF LaidOutAt, Is
<1>4. x \in Addresses(prog) /\ x + 1 \in Addresses(prog) /\ c \in Seq(Addresses(prog))
  BY <1>3 DEF Ending, GoesOn
<1>5. /\ d \in Seq(Addresses(prog)) /\ Len(d) = Len(c) + 1 /\ d[1] = x + 1
      /\ \A k \in 1 .. Len(c) + 1 : k # 1 => d[k] = c[k - 1] /\ k - 1 \in 1 .. Len(c)
      /\ d # <<>>
  BY <1>4, Pushed
<1>6. ActivePc' = x
  <2>1. LaneRegisters /\ LaneRegisters'
    BY RegistersStep DEF Ending, CoreIInv, SimtTick
  <2>2. pc' = pc
    BY <1>1, <2>1 DEF LaneRegisters, Lanes
  <2> QED
    BY <1>1, <1>2, <2>2 DEF ActivePc
<1>7. Len(c) < CallDepth
  <2>1. lay.depth[y] \in 0 .. CallDepth /\ CallDepth \in Nat
    BY <1>2, <1>3, DepthAssumption
  <2> QED
    BY <1>2, <1>3, <2>1
<1>8. MaskThen' = active_mask /\ WarpThen' = warp_stack /\ CallsThen' = d
  BY <1>1, <1>6, <1>7 DEF MaskThen, WarpThen, CallsThen, Is
<1>9. \A i \in active_mask : ref_pc'[i] = y /\ ref_stack'[i] = d
  BY HistoryMoves DEF Ending, Is
<1>10. SomeFlags => SomeFlags'
  BY SomeFlagsUpdate
<1>11. ReturnsFit(lay, y, d)'
  <2>1. Len(d) = lay.depth[y]
    BY <1>2, <1>3, <1>5
  <2>2. ASSUME NEW k \in 1 .. Len(d)
        PROVE  /\ lay.depth[d[k]] = Len(d) - k
               /\ lay.known[d[k]] <= 1
               /\ lay.known[d[k]] = 1 => SomeFlags'
    <3>1. CASE k = 1
      <4>1. lay.depth[x + 1] = lay.depth[x] /\ lay.known[x + 1] <= Left(lay.known[x])
        BY <1>3 DEF GoesOn
      <4>2. lay.known[x] \in 0 .. 3 /\ lay.known[x + 1] \in 0 .. 3
        BY <1>2, <1>4
      <4>3. lay.known[x] >= 1 => SomeFlags
        BY DEF Ending, PathAt, FlagsFit
      <4>4. lay.known[x + 1] <= 1 /\ (lay.known[x + 1] = 1 => lay.known[x] >= 1)
        BY <4>1, <4>2 DEF Left
      <4>5. lay.depth[d[k]] = Len(d) - k
        BY <1>2, <1>5, <3>1, <4>1
      <4> QED
        BY <1>5, <1>10, <3>1, <4>3, <4>4, <4>5
    <3>2. CASE k # 1
      <4>1. d[k] = c[k - 1] /\ k - 1 \in 1 .. Len(c)
        BY <1>5, <3>2
      <4>2. /\ lay.depth[c[k - 1]] = Len(c) - (k - 1)
            /\ lay.known[c[k - 1]] <= 1
            /\ lay.known[c[k - 1]] = 1 => SomeFlags
        BY <4>1 DEF Ending, PathAt, ReturnsFit
      <4>3. lay.depth[d[k]] = Len(d) - k
        BY <1>2, <1>5, <4>1, <4>2
      <4> QED
        BY <1>10, <4>1, <4>2, <4>3
    <3> QED
      BY <3>1, <3>2
  <2> QED
    BY <2>1, <2>2 DEF ReturnsFit
<1>12. Parked(lay, Home(y, d))'
  <2>1. Parked(lay, Home(x, c))
    BY DEF Ending, PathAt
  <2>2. Home(y, d) = Home(x, c) \/
        (GoesOn(prog, lay, Home(x, c), Home(y, d), Left(lay.known[x])) /\ lay.kind[Home(x, c)] # "sync")
    <3>1. CASE c = <<>>
      <4>1. Home(x, c) = x /\ Home(y, d) = x + 1
        BY <1>5, <3>1 DEF Home
      <4>2. lay.kind[x] # "sync"
        BY <1>2, <3>1 DEF LaidOutAt, Is
      <4> QED
        BY <1>3, <4>1, <4>2
    <3>2. CASE c # <<>>
      <4>1. Len(c) + 1 \in 1 .. Len(c) + 1 /\ Len(c) + 1 # 1
        BY <1>4, <3>2
      <4>2. d[Len(d)] = c[Len(c)]
        BY <1>2, <1>5, <4>1
      <4> QED
        BY <1>5, <3>2, <4>2 DEF Home
    <3> QED
      BY <3>1, <3>2
  <2>3. \A i \in Lanes \ active_mask : ref_pc'[i] = ref_pc[i] /\ ref_stack'[i] = ref_stack[i]
    BY HistoryMoves DEF Ending
  <2> QED
    BY <1>1, <1>2, <1>8, <1>10, <2>1, <2>2, <2>3, ParkedGoesOn
<1>13. FlagsFit(lay, y)'
  <2>1. ~Is("CMP") /\ lay.known[y] \in 0 .. 3 /\ MaskThen' \subseteq MaskThen
    BY <1>2, <1>3, <1>8 DEF Is
  <2> QED
    BY <1>3, <2>1, FlagsKept
<1>14. Together(MaskThen, y, d)'
  BY <1>8, <1>9 DEF Together
<1>15. PathAt(lay, y, d)'
  BY <1>2, <1>8, <1>11, <1>12, <1>13, <1>14 DEF PathAt, Lanes
<1>16. y \in Addresses(prog') /\ d \in Seq(Addresses(prog'))
  BY <1>1, <1>3, <1>5
<1> QED
  BY <1>15, <1>16 DEF Somewhere
LEMMA SretCase ==
    ASSUME NEW lay, NEW x, NEW c, Ending(lay, x, c), SimtTick, Is("SRET")
    PROVE  Somewhere(lay)'
<1>1. /\ active_mask' = active_mask /\ warp_stack' = warp_stack /\ call_stack' = c
      /\ instruction' = instruction /\ prog' = prog /\ sched_state' = "FETCH"
      /\ On("pc_en")'
  BY UpdateEdge DEF Ending, Is, Diverges
<1>2. /\ MaskThen = active_mask /\ WarpThen = warp_stack
      /\ active_mask # {} /\ active_mask \subseteq Lanes
      /\ LaidOutAt(prog, lay, x) /\ instruction = prog[x + 1]
      /\ Len(c) = lay.depth[x]
      /\ lay.known \in [Addresses(prog) -> 0 .. 3]
  BY EndingFacts
<1>3. c \in Seq(Addresses(prog)) /\ c # <<>>
  BY <1>2 DEF Ending, LaidOutAt, Is
<1> PICK y : y = c[1]
  OBVIOUS
<1> PICK d : d = Tail(c)
  OBVIOUS
<1>4. /\ d \in Seq(Addresses(prog)) /\ Len(d) = Len(c) - 1
      /\ Head(c) = y /\ y \in Addresses(prog)
      /\ \A k \in 1 .. Len(c) - 1 : d[k] = c[k + 1] /\ k + 1 \in 1 .. Len(c)
      /\ d = <<>> <=> Len(c) = 1
      /\ Len(c) \in Nat \ {0}
  BY <1>3, Popped
<1>5. /\ \A k \in 1 .. Len(c) : /\ lay.depth[c[k]] = Len(c) - k
                                /\ lay.known[c[k]] <= 1
                                /\ lay.known[c[k]] = 1 => SomeFlags'
  BY SomeFlagsUpdate DEF Ending, PathAt, ReturnsFit
<1>6. MaskThen' = active_mask /\ WarpThen' = warp_stack /\ CallsThen' = d
  BY <1>1, <1>3 DEF MaskThen, WarpThen, CallsThen, Is
<1>7. \A i \in active_mask : ref_pc'[i] = y /\ ref_stack'[i] = d
  <2>1. \A i \in active_mask : ref_pc'[i] = Head(c)
    BY HistoryMoves DEF Ending, Is
  <2>2. \A i \in active_mask : ref_stack'[i] = Tail(c)
    BY HistoryMoves DEF Ending, Is
  <2> QED
    BY <1>4, <2>1, <2>2
<1>8. 1 \in 1 .. Len(c) /\ Len(c) \in 1 .. Len(c)
  BY <1>4
<1>9. ReturnsFit(lay, y, d)'
  <2>1. Len(d) = lay.depth[y]
    BY <1>4, <1>5, <1>8
  <2>2. ASSUME NEW k \in 1 .. Len(d)
        PROVE  /\ lay.depth[d[k]] = Len(d) - k
               /\ lay.known[d[k]] <= 1
               /\ lay.known[d[k]] = 1 => SomeFlags'
    <3>1. d[k] = c[k + 1] /\ k + 1 \in 1 .. Len(c)
      BY <1>4
    <3>2. lay.depth[c[k + 1]] = Len(c) - (k + 1)
      BY <1>5, <3>1
    <3>3. lay.depth[d[k]] = Len(d) - k
      BY <1>4, <3>1, <3>2
    <3> QED
      BY <1>5, <3>1, <3>3
  <2> QED
    BY <2>1, <2>2 DEF ReturnsFit
<1>10. Parked(lay, Home(y, d))'
  <2>1. Parked(lay, Home(x, c))
    BY DEF Ending, PathAt
  <2>2. Home(y, d) = c[Len(c)]
    <3>1. CASE d = <<>>
      BY <1>4, <3>1 DEF Home
    <3>2. CASE d # <<>>
      <4>1. Len(d) \in 1 .. Len(c) - 1 /\ Len(d) + 1 = Len(c)
        BY <1>4, <3>2
      <4> QED
        BY <1>4, <3>2, <4>1 DEF Home
    <3> QED
      BY <3>1, <3>2
  <2>3. Home(x, c) = c[Len(c)]
    BY <1>3 DEF Home
  <2>4. \A i \in Lanes \ active_mask : ref_pc'[i] = ref_pc[i] /\ ref_stack'[i] = ref_stack[i]
    BY HistoryMoves DEF Ending
  <2>5. SomeFlags => SomeFlags'
    BY SomeFlagsUpdate
  <2> QED
    BY <1>1, <1>2, <1>6, <2>1, <2>2, <2>3, <2>4, <2>5, ParkedGoesOn
<1>11. FlagsFit(lay, y)'
  BY <1>2, <1>4, <1>5, <1>8, FlagsFew
<1>12. Together(MaskThen, y, d)'
  BY <1>6, <1>7 DEF Together
<1>13. PathAt(lay, y, d)'
  BY <1>2, <1>6, <1>9, <1>10, <1>11, <1>12 DEF PathAt, Lanes
<1>14. y \in Addresses(prog') /\ d \in Seq(Addresses(prog'))
  BY <1>1, <1>4
<1> QED
  BY <1>13, <1>14 DEF Somewhere

(* The active lanes are outside of funcs, and no return is outstanding. *)
LEMMA AtOutside ==
    ASSUME NEW lay, NEW y \in Addresses(prog), prog' = prog, lay.depth[y] = 0,
           MaskThen' # {}, MaskThen' \subseteq Lanes, CallsThen' = <<>>,
           Together(MaskThen, y, <<>>)', Parked(lay, y)', FlagsFit(lay, y)'
    PROVE  Somewhere(lay)'
<1>1. ReturnsFit(lay, y, <<>>)'
  BY DEF ReturnsFit
<1>2. Parked(lay, Home(y, <<>>))'
  BY DEF Home
<1>3. PathAt(lay, y, <<>>)'
  BY <1>1, <1>2 DEF PathAt, Lanes
<1>4. y \in Addresses(prog') /\ <<>> \in Seq(Addresses(prog'))
  OBVIOUS
<1> QED
  BY <1>3, <1>4 DEF Somewhere

(* The branch of an `if': all lanes go one way, or those that take it go   *)
(* first and the others are parked behind it.                              *)
LEMMA ForkCase ==
    ASSUME NEW lay, NEW x, NEW c, Ending(lay, x, c), SimtTick, Is("BR"),
           Forks(prog, lay, x), WarpDepth >= 1
    PROVE  Somewhere(lay)'
<1>1. /\ active_mask' = active_mask /\ warp_stack' = warp_stack /\ call_stack' = c
      /\ instruction' = instruction /\ nzp' = nzp /\ prog' = prog
      /\ sched_state' = IF Diverges THEN "DIVERGE" ELSE "FETCH"
  BY UpdateEdge DEF Ending, Is
<1>2. /\ MaskThen = active_mask /\ WarpThen = warp_stack
      /\ active_mask # {} /\ active_mask \subseteq Lanes
      /\ instruction = prog[x + 1]
      /\ lay.known \in [Addresses(prog) -> 0 .. 3]
      /\ lay.known[x] \in 0 .. 3
      /\ x \in Addresses(prog)
  BY EndingFacts DEF Ending
<1>3. c = <<>> /\ active_mask = Lanes /\ warp_stack = <<>>
  BY <1>2, OutsideIsWhole DEF Ending, Forks, NoneParked
<1> PICK then : then = x + instruction.off
  OBVIOUS
<1>4. /\ \A b \in {x + 1, then} : /\ b \in Addresses(prog) /\ lay.depth[b] = 0
                                  /\ lay.known[b] <= 1 /\ lay.join[b] = lay.join[then]
      /\ lay.kind[x + 1] = "els" /\ lay.kind[then] = "then"
      /\ lay.kind[lay.join[then]] = "sync" /\ lay.depth[lay.join[then]] = 0
  BY <1>2 DEF Forks
<1>5. SomeFlags /\ SomeFlags'
  BY <1>2, SomeFlagsUpdate DEF Forks, Ending, PathAt, FlagsFit
<1>6. CallsThen' = <<>>
  BY <1>1, <1>3 DEF CallsThen, Is
<1>7. \A i \in Lanes : ref_stack'[i] = <<>> /\ ref_pc'[i] = IF i \in Taken THEN then ELSE x + 1
  <2>1. ~Is("CALL") /\ ~Is("SRET")
    BY DEF Is
  <2>2. \A i \in Lanes : ref_stack'[i] = <<>>
    BY <1>3, <2>1, HistoryMoves DEF Ending
  <2>3. \A i \in Lanes : ref_pc'[i] = IF ref_nzp[i] \in instruction.mask
                                     THEN x + instruction.off ELSE x + 1
    BY <1>3, <2>1, HistoryMoves DEF Ending
  <2>4. \A i \in Lanes : ref_nzp[i] \in instruction.mask <=> i \in Taken
    BY <1>3, BranchesAgree
  <2> QED
    BY <2>2, <2>3, <2>4
<1>8. \A b \in {x + 1, then} : FlagsFit(lay, b)'
  BY <1>2, <1>4, <1>5, FlagsFew
<1>9. Taken' = Taken /\ PushedMask' = PushedMask /\ Taken \subseteq Lanes
      /\ PushedMask = Lanes \ Taken
  BY <1>1, <1>3 DEF Taken, PushedMask, Is
<1>10. CASE ~Diverges
  <2>1. Taken = Lanes \/ Taken = {}
    BY <1>3, <1>10 DEF Diverges
  <2>2. MaskThen' = Lanes /\ WarpThen' = <<>>
    BY <1>1, <1>3, <1>10 DEF MaskThen, WarpThen
  <2>3. PICK y \in {x + 1, then} : \A i \in Lanes : ref_pc'[i] = y
    BY <1>7, <2>1
  <2>4. Together(MaskThen, y, <<>>)'
    BY <1>7, <2>2, <2>3 DEF Together
  <2>5. Parked(lay, y)'
    BY <2>2 DEF Parked, NoneParked, Lanes
  <2> QED
    BY <1>1, <1>2, <1>3, <1>4, <1>6, <1>8, <2>2, <2>4, <2>5, AtOutside
<1>11. CASE Diverges
  <2>1. Taken # {} /\ Taken # Lanes
    BY <1>3, <1>11 DEF Diverges
  <2>2. MaskThen' = Taken
    BY <1>1, <1>9, <1>11 DEF MaskThen
  <2>3. WarpThen' = <<Lanes \ Taken>>
    <3>1. Len(warp_stack') < WarpDepth /\ warp_stack' = <<>>
      BY <1>1, <1>3, DepthAssumption
    <3>2. WarpThen' = <<Lanes \ Taken>> \o <<>>
      BY <1>1, <1>9, <1>11, <3>1 DEF WarpThen
    <3> QED
      BY <3>2
  <2>4. Together(MaskThen, then, <<>>)'
    BY <1>7, <1>9, <2>2 DEF Together
  <2>5. Together(Lanes \ MaskThen, x + 1, <<>>)'
    BY <1>7, <2>2 DEF Together, Lanes
  <2>6. PICK s : s = lay.join[then] /\ s \in Addresses(prog)
    BY <1>4 DEF Ending, LaidOut, LayoutType
  <2>7. ElsParked(lay, then, s)'
    <3>1. InArm(lay, then, "then", s)
      BY <1>4, <2>6 DEF InArm
    <3>2. WarpThen' = <<Lanes \ MaskThen'>>
      BY <2>2, <2>3
    <3> QED
      BY <1>1, <1>4, <2>5, <2>6, <3>1, <3>2 DEF ElsParked, InArm, Lanes
  <2>8. Parked(lay, then)'
    BY <1>1, <1>4, <1>5, <2>1, <2>2, <2>6, <2>7 DEF Parked, Lanes
  <2> QED
    BY <1>1, <1>4, <1>6, <1>8, <1>9, <2>1, <2>2, <2>4, <2>8, AtOutside
<1> QED
  BY <1>10, <1>11

(* A SYNC: the lanes parked behind the branch go next, or the lanes parked *)
(* behind the SYNC are joined.                                             *)
LEMMA SyncCase ==
    ASSUME NEW lay, NEW x, NEW c, Ending(lay, x, c), SimtTick, Is("SYNC")
    PROVE  Somewhere(lay)'
<1>1. /\ active_mask' = active_mask /\ warp_stack' = warp_stack /\ call_stack' = c
      /\ instruction' = instruction /\ prog' = prog /\ sched_state' = "SYNC_POP"
  BY UpdateEdge DEF Ending, Is, Diverges
<1>2. /\ MaskThen = active_mask /\ WarpThen = warp_stack
      /\ active_mask # {} /\ active_mask \subseteq Lanes
      /\ instruction = prog[x + 1] /\ LaidOutAt(prog, lay, x)
      /\ lay.known \in [Addresses(prog) -> 0 .. 3]
      /\ lay.known[x] \in 0 .. 3
      /\ lay.depth[x] = 0 => c = <<>>
  BY EndingFacts DEF Ending
<1>3. /\ lay.kind[x] = "sync" /\ c = <<>>
      /\ x + 1 \in Addresses(prog) /\ lay.depth[x + 1] = 0
      /\ lay.known[x + 1] <= Left(lay.known[x])
  BY <1>2 DEF LaidOutAt, Is
<1>4. CallsThen' = <<>>
  BY <1>1, <1>3 DEF CallsThen, Is
<1>5. \A i \in active_mask : ref_stack'[i] = <<>> /\ ref_pc'[i] = x + 1
  BY <1>3, HistoryMoves DEF Ending, Is
<1>6. \A i \in Lanes \ active_mask : ref_pc'[i] = ref_pc[i] /\ ref_stack'[i] = ref_stack[i]
  BY HistoryMoves DEF Ending
<1>7. MaskThen' = (IF warp_stack = <<>> THEN Lanes ELSE Head(warp_stack))
      /\ WarpThen' = (IF warp_stack = <<>> THEN <<>> ELSE Tail(warp_stack))
  BY <1>1 DEF MaskThen, WarpThen, SavedMask, Lanes
<1>8. FlagsFit(lay, x + 1)'
  <2>1. lay.known[x] >= 1 => SomeFlags'
    BY SomeFlagsUpdate DEF Ending, PathAt, FlagsFit
  <2>2. lay.known[x + 1] <= 1 /\ (lay.known[x + 1] = 1 => lay.known[x] >= 1)
    BY <1>2, <1>3 DEF Left
  <2> QED
    BY <1>2, <1>3, <2>1, <2>2, FlagsFew
<1>9. ASSUME warp_stack = <<>>, \A i \in Lanes : ref_stack'[i] = <<>> /\ ref_pc'[i] = x + 1
      PROVE  Somewhere(lay)'
  <2>1. MaskThen' = Lanes /\ WarpThen' = <<>> /\ Lanes # {}
    BY <1>2, <1>7, <1>9
  <2>2. Together(MaskThen, x + 1, <<>>)'
    BY <1>9, <2>1 DEF Together
  <2>3. Parked(lay, x + 1)'
    BY <2>1 DEF Parked, NoneParked, Lanes
  <2> QED
    BY <1>1, <1>3, <1>4, <1>8, <2>1, <2>2, <2>3, AtOutside
<1>10. CASE NoneParked
  BY <1>2, <1>5, <1>9, <1>10 DEF NoneParked
<1>11. CASE ~NoneParked
  <2>1. Parked(lay, x)
    BY <1>3 DEF Ending, PathAt, Home
  <2>2. active_mask # Lanes /\ SomeFlags
    BY <1>2, <1>11, <2>1 DEF Parked
  <2>3. PICK s \in Addresses(prog) : /\ lay.kind[s] = "sync" /\ lay.depth[s] = 0
                                     /\ ElsParked(lay, x, s) \/ ThenParked(lay, x, s)
    BY <1>11, <2>1 DEF Parked
  <2>4. x = s
    BY <1>3, <2>3 DEF ElsParked, ThenParked, InArm
  <2>5. CASE ThenParked(lay, x, s)
    <3>1. warp_stack = <<>>
      BY <1>2, <2>5 DEF ThenParked
    <3>2. \A i \in Lanes \ active_mask : ref_stack'[i] = <<>> /\ ref_pc'[i] = x + 1
      BY <1>2, <1>6, <2>4, <2>5 DEF ThenParked, Together
    <3>3. \A i \in Lanes : ref_stack'[i] = <<>> /\ ref_pc'[i] = x + 1
      BY <1>5, <3>2
    <3> QED
      BY <1>9, <3>1, <3>3
  <2>6. CASE ElsParked(lay, x, s)
    <3>1. warp_stack = <<Lanes \ active_mask>>
      BY <1>2, <2>6 DEF ElsParked
    <3>2. warp_stack # <<>> /\ Head(warp_stack) = Lanes \ active_mask /\ Tail(warp_stack) = <<>>
      BY <3>1
    <3>3. MaskThen' = Lanes \ active_mask /\ WarpThen' = <<>>
      BY <1>7, <3>2
    <3>4. PICK y \in Addresses(prog) :
             /\ lay.depth[y] = 0 /\ lay.kind[y] = "els" /\ lay.join[y] = s /\ lay.known[y] <= 1
             /\ Together(Lanes \ active_mask, y, <<>>)
      BY <1>2, <2>6 DEF ElsParked
    <3>5. MaskThen' # {} /\ MaskThen' \subseteq Lanes /\ MaskThen' # Lanes
          /\ Lanes \ MaskThen' = active_mask
      BY <1>2, <2>2, <3>3
    <3>6. Together(MaskThen, y, <<>>)'
      BY <1>6, <3>3, <3>4 DEF Together
    <3>7. Together(Lanes \ MaskThen, s + 1, <<>>)'
      BY <1>5, <2>4, <3>5 DEF Together, Lanes
    <3>8. ThenParked(lay, y, s)'
      BY <3>3, <3>4, <3>7 DEF ThenParked, InArm
    <3>9. SomeFlags'
      BY <2>2, SomeFlagsUpdate
    <3>10. Parked(lay, y)'
      BY <1>1, <2>3, <3>5, <3>8, <3>9 DEF Parked, Lanes
    <3>11. FlagsFit(lay, y)'
      BY <1>2, <3>4, <3>9, FlagsFew
    <3> QED
      BY <1>1, <1>4, <3>4, <3>5, <3>6, <3>10, <3>11, AtOutside
  <2> QED
    BY <2>3, <2>5, <2>6
<1> QED
  BY <1>10, <1>11
LEMMA UpdateStep ==
    ASSUME NEW lay, NEW x, NEW c, Ending(lay, x, c), SimtTick, WarpDepth >= 1
    PROVE  Somewhere(lay)'
<1>1. LaidOutAt(prog, lay, x) /\ instruction = prog[x + 1] /\ ~Is("RET")
  BY EndingFacts DEF Ending
<1>2. CASE instruction.op \notin {"RET", "SYNC", "CMP", "BR", "CALL", "SRET"}
  BY <1>2, PlainCase
<1>3. CASE Is("BR")
  <2>1. AlwaysTaken(prog, lay, x) \/ TakenAlike(prog, lay, x) \/ Forks(prog, lay, x)
    BY <1>1, <1>3 DEF LaidOutAt, Is
  <2> QED
    BY <1>3, <2>1, BranchCase, ForkCase
<1>4. CASE Is("CMP")
  BY <1>4, CmpCase
<1>5. CASE Is("CALL")
  BY <1>5, CallCase
<1>6. CASE Is("SRET")
  BY <1>6, SretCase
<1>7. CASE Is("SYNC")
  BY <1>7, SyncCase
<1> QED
  BY <1>1, <1>2, <1>3, <1>4, <1>5, <1>6, <1>7 DEF Is

--------------------------------------------------------------------------------
(* The invariant, for the program memories that are built and a warp stack *)
(* with room for the one branch that is open at a time.                    *)

LEMMA SimtTickIInv ==
    ASSUME NEW lay, SimtIInv(lay), SimtTick, WarpDepth >= 1
    PROVE  SimtIInv(lay)'
<1> USE DEF SimtIInv
<1>1. Tick /\ prog' = prog
  BY DEF SimtTick, Tick
<1>2. CoreIInv'
  BY <1>1, CoreTickIInv
<1>3. LaidOut(prog, lay)'
  BY <1>1
<1>4. FlagsSet'
  BY <1>1, FlagsSetStep
<1> SUFFICES (Paths(lay) /\ PcsFollow /\ AtRest)'
  BY <1>2, <1>3, <1>4
<1>5. ASSUME sched_state' = "IDLE", AtRest'
      PROVE  (Paths(lay) /\ PcsFollow /\ AtRest)'
  BY <1>5 DEF Paths, PcsFollow
<1>6. ASSUME sched_state' # "IDLE", Somewhere(lay)', PcsFollow'
      PROVE  (Paths(lay) /\ PcsFollow /\ AtRest)'
  BY <1>6 DEF Paths, Somewhere, AtRest
<1>7. CASE BlockReset
  <2>1. PathAt(lay, 0, <<>>)' /\ PcsFollow' /\ 0 \in Addresses(prog')
    BY <1>1, <1>7, StartEdge
  <2>2. Somewhere(lay)'
    <3>1. <<>> \in Seq(Addresses(prog'))
      OBVIOUS
    <3> QED
      BY <2>1, <3>1 DEF Somewhere
  <2>3. sched_state' # "IDLE"
    BY <1>1, <1>7 DEF BlockReset, Tick, SchedTick, Idle, Start, Fetch, Decode, Request, Wait,
                      Execute, Update, Diverge, SyncPop, ChangeMask, Step
  <2> QED
    BY <1>6, <2>1, <2>2, <2>3
<1>8. CASE sched_state = "IDLE" /\ ~BlockReset
  BY <1>5, <1>8, IdleEdge
<1>9. CASE sched_state # "IDLE"
  <2>1. PICK x \in Addresses(prog), c \in Seq(Addresses(prog)) : PathAt(lay, x, c)
    BY <1>9 DEF Paths
  <2>2. CASE sched_state # "UPDATE"
    <3>1. PathAt(lay, x, c)' /\ PcsFollow'
      BY <1>9, <2>1, <2>2, QuietEdge
    <3>2. Somewhere(lay)'
      BY <1>1, <3>1 DEF Somewhere
    <3>3. sched_state' # "IDLE"
      BY <1>1, <1>9, <2>2, EffectComes
    <3> QED
      BY <1>6, <3>1, <3>2, <3>3
  <2>3. CASE sched_state = "UPDATE" /\ Is("RET")
    BY <1>5, <2>1, <2>3, EndEdge
  <2>4. CASE sched_state = "UPDATE" /\ ~Is("RET")
    <3>1. Ending(lay, x, c)
      BY <2>1, <2>4 DEF Ending
    <3>2. Somewhere(lay)' /\ PcsFollow'
      BY <3>1, UpdateStep, PcsFollowUpdate
    <3>3. sched_state' # "IDLE"
      BY <2>1, <2>4, UpdateEdge
    <3> QED
      BY <1>6, <3>2, <3>3
  <2> QED
    BY <2>2, <2>3, <2>4
<1> QED
  BY <1>7, <1>8, <1>9

(* A step on which nothing changes. *)
LEMMA SimtStutterIInv ==
    ASSUME NEW lay, SimtIInv(lay), UNCHANGED simtVars
    PROVE  SimtIInv(lay)'
<1> USE DEF SimtIInv
<1>1. UNCHANGED allVars
  BY DEF simtVars
<1>2. /\ UNCHANGED <<sched_state, strobes, active_mask>>
      /\ UNCHANGED <<core_start, prog, instruction, outcome, pc, nzp, warp_stack, call_stack>>
      /\ UNCHANGED <<ref_pc, ref_nzp, ref_stack>>
  BY DEF simtVars, allVars, refVars, schedVars, coreVars
<1>3. CoreIInv'
  BY <1>1, CoreTickIInv
<1>4. /\ Taken' = Taken /\ MaskThen' = MaskThen /\ WarpThen' = WarpThen /\ CallsThen' = CallsThen
      /\ \A i \in Lanes : PcAfter(i)' = PcAfter(i)
  BY <1>2 DEF Taken, MaskThen, WarpThen, CallsThen, PushedMask, SavedMask, PcAfter, On, Is,
     TopReturn, ActivePc, Lanes
<1>5. SomeFlags' = SomeFlags /\ Comparing' = Comparing
  BY <1>2 DEF SomeFlags, Comparing, Executing, Is, Lanes
<1>6. ASSUME NEW x, NEW c, PathAt(lay, x, c)
      PROVE  PathAt(lay, x, c)'
  <2>1. FlagsFit(lay, x)'
    BY <1>2, <1>4, <1>5, <1>6 DEF PathAt, FlagsFit
  <2>2. ReturnsFit(lay, x, c)'
    BY <1>5, <1>6 DEF PathAt, ReturnsFit
  <2>3. Parked(lay, Home(x, c))'
    BY <1>2, <1>4, <1>5, <1>6 DEF PathAt, Parked, NoneParked, ElsParked, ThenParked, Together,
       InArm, Lanes, Addresses
  <2>4. Together(MaskThen, x, c)'
    BY <1>2, <1>4, <1>6 DEF PathAt, Together
  <2> QED
    BY <1>4, <1>6, <2>1, <2>2, <2>3, <2>4 DEF PathAt, Lanes
<1>7. Paths(lay)'
  BY <1>2, <1>6 DEF Paths
<1>8. PcsFollow' /\ FlagsSet' /\ AtRest' /\ LaidOut(prog, lay)'
  BY <1>2, <1>4, <1>5 DEF PcsFollow, FlagsSet, AtRest, Is, Lanes
<1> QED
  BY <1>3, <1>7, <1>8

LEMMA SimtInvariant ==
    ASSUME ProgLatencies \subseteq {0, 1}, WarpDepth >= 1,
           \A p \in Programs : \E lay : LaidOut(p, lay)
    PROVE  SimtSpec => [](\E lay : SimtIInv(lay))
<1>1. SimtInit => \E lay : SimtIInv(lay)
  <2> SUFFICES ASSUME SimtInit
               PROVE  \E lay : SimtIInv(lay)
    OBVIOUS
  <2>1. PICK lay : LaidOut(prog, lay)
    BY DEF SimtInit, CoreInit
  <2>2. CoreIInv
    BY CoreInitIInv DEF SimtInit
  <2>3. /\ sched_state = "IDLE" /\ instruction = Nop
        /\ warp_stack = <<>> /\ call_stack = <<>>
    BY DEF SimtInit, CoreInit, SchedInit
  <2>4. ~Is("CMP")
    BY <2>3 DEF Is, Nop, Plain
  <2> QED
    BY <2>1, <2>2, <2>3, <2>4 DEF SimtIInv, Paths, PcsFollow, FlagsSet, Comparing, AtRest
<1>2. (\E lay : SimtIInv(lay)) /\ [SimtTick]_simtVars => (\E lay : SimtIInv(lay))'
  BY SimtTickIInv, SimtStutterIInv
<1> QED
  BY <1>1, <1>2, PTL DEF SimtSpec

--------------------------------------------------------------------------------
(* What it says.  In each theorem: the program memory answers in the cycle *)
(* of the request or in the next one; the warp stack has room for a mask;  *)
(* and every program can be laid out, as the compiler's can.               *)

(* Every active lane shares the PC that the core executes from. *)
THEOREM OnePcForAll ==
    ASSUME ProgLatencies \subseteq {0, 1}, WarpDepth >= 1,
           \A p \in Programs : \E lay : LaidOut(p, lay)
    PROVE  SimtSpec => []ActiveLanesShareThePC
<1>1. (\E lay : SimtIInv(lay)) => ActiveLanesShareThePC
  <2> SUFFICES ASSUME NEW lay, SimtIInv(lay), Executing
               PROVE  \A i \in active_mask : pc[i] = ActivePc
    BY DEF ActiveLanesShareThePC
  <2>1. PICK x \in Addresses(prog), c \in Seq(Addresses(prog)) : PathAt(lay, x, c)
    BY DEF SimtIInv, Paths, Executing
  <2>2. /\ MaskThen = active_mask /\ ActivePc = x
        /\ \A i \in Lanes : pc[i] = ref_pc[i]
    BY <2>1, WhereNow DEF SimtIInv
  <2> QED
    BY <2>1, <2>2 DEF PathAt, Together
<1> QED
  BY <1>1, SimtInvariant, PTL

(* The core executes for each lane what the lane would execute alone, and  *)
(* never for nobody.                                                       *)
THEOREM EachLaneRunsItsPath ==
    ASSUME ProgLatencies \subseteq {0, 1}, WarpDepth >= 1,
           \A p \in Programs : \E lay : LaidOut(p, lay)
    PROVE  SimtSpec => []LanesRunTheirOwnPath
<1>1. (\E lay : SimtIInv(lay)) => LanesRunTheirOwnPath
  <2> SUFFICES ASSUME NEW lay, SimtIInv(lay), sched_state = "UPDATE"
               PROVE  /\ active_mask # {}
                      /\ \A i \in active_mask : pc[i] = ref_pc[i] /\ instruction = Own(i)
    BY DEF LanesRunTheirOwnPath
  <2>1. PICK x \in Addresses(prog), c \in Seq(Addresses(prog)) : PathAt(lay, x, c)
    BY DEF SimtIInv, Paths
  <2>2. Executing
    BY DEF Executing
  <2>3. /\ MaskThen = active_mask
        /\ \A i \in Lanes : pc[i] = ref_pc[i]
        /\ \A i \in active_mask : Own(i) = instruction
    BY <2>1, <2>2, WhereNow DEF SimtIInv
  <2> QED
    BY <2>1, <2>3 DEF PathAt
<1> QED
  BY <1>1, SimtInvariant, PTL

(* A RET finds every lane at a RET: none is parked. *)
THEOREM RetEndsEveryLane ==
    ASSUME ProgLatencies \subseteq {0, 1}, WarpDepth >= 1,
           \A p \in Programs : \E lay : LaidOut(p, lay)
    PROVE  SimtSpec => []NoLaneCutShort
<1>1. (\E lay : SimtIInv(lay)) => NoLaneCutShort
  <2> SUFFICES ASSUME NEW lay, SimtIInv(lay), sched_state = "UPDATE", Is("RET")
               PROVE  \A i \in Lanes : Own(i).op = "RET"
    BY DEF NoLaneCutShort
  <2>1. PICK x \in Addresses(prog), c \in Seq(Addresses(prog)) : PathAt(lay, x, c)
    BY DEF SimtIInv, Paths
  <2>2. Executing
    BY DEF Executing
  <2>3. /\ MaskThen = active_mask /\ instruction = prog[x + 1]
        /\ \A i \in active_mask : Own(i) = instruction
    BY <2>1, <2>2, WhereNow DEF SimtIInv
  <2>4. LaidOutAt(prog, lay, x)
    BY DEF SimtIInv, LaidOut
  <2>5. lay.depth[x] = 0 /\ lay.kind[x] = "out"
    BY <2>3, <2>4 DEF LaidOutAt, Is
  <2>6. active_mask = Lanes
    BY <2>1, <2>3, <2>5, OutsideIsWhole DEF NoneParked
  <2> QED
    BY <2>3, <2>6 DEF Is
<1> QED
  BY <1>1, SimtInvariant, PTL

(* The next block finds both stacks empty. *)
THEOREM BlocksLeaveNoStack ==
    ASSUME ProgLatencies \subseteq {0, 1}, WarpDepth >= 1,
           \A p \in Programs : \E lay : LaidOut(p, lay)
    PROVE  SimtSpec => []StacksBalanced
<1>1. (\E lay : SimtIInv(lay)) => StacksBalanced
  BY DEF SimtIInv, AtRest, StacksBalanced, BlockReset
<1> QED
  BY <1>1, SimtInvariant, PTL
--------------------------------------------------------------------------------
(* The types.  That no PC leaves the program and no stack overflows holds  *)
(* because of the program, not because of the registers' widths.           *)

CoreRegisters ==
    /\ core_start \in BOOLEAN
    /\ prog \in Programs
    /\ instruction \in {Word(a) : a \in 0 .. Len(prog)}
    /\ outcome \in [Lanes -> Flags]
    /\ lsu_done_latch \subseteq Lanes
    /\ pc \in [Lanes -> 0 .. Len(prog)]
    /\ nzp \in [Lanes -> Flags \cup {"none"}]
    /\ Len(warp_stack) <= WarpDepth
    /\ Len(call_stack) <= CallDepth

(* Wherever a lane is when an instruction has taken effect, it is in the   *)
(* program, or behind its last word.                                       *)
LEMMA PlacesInProgram ==
    ASSUME NEW lay, LaidOut(prog, lay), NEW x \in Addresses(prog), NEW c \in Seq(Addresses(prog)),
           PathAt(lay, x, c), NEW i \in Lanes
    PROVE  ref_pc[i] \in 0 .. Len(prog)
<1>1. Len(prog) \in Nat
  BY DEF LaidOut
<1>2. \A a \in Addresses(prog) : a \in 0 .. Len(prog) /\ a + 1 \in 0 .. Len(prog)
  BY <1>1 DEF Addresses
<1>3. CASE i \in MaskThen
  BY <1>2, <1>3 DEF PathAt, Together
<1>4. CASE i \notin MaskThen
  <2>1. PICK s \in Addresses(prog) :
           ElsParked(lay, Home(x, c), s) \/ ThenParked(lay, Home(x, c), s)
    BY <1>4 DEF PathAt, Parked, NoneParked
  <2>2. CASE ElsParked(lay, Home(x, c), s)
    BY <1>2, <1>4, <2>2 DEF ElsParked, Together
  <2>3. CASE ThenParked(lay, Home(x, c), s)
    BY <1>2, <1>4, <2>1, <2>3 DEF ThenParked, Together
  <2> QED
    BY <2>1, <2>2, <2>3
<1> QED
  BY <1>3, <1>4

(* Neither stack is ever asked to hold more than it has room for. *)
LEMMA StacksHaveRoom ==
    ASSUME NEW lay, SimtIInv(lay), WarpDepth >= 1
    PROVE  Len(WarpThen) <= WarpDepth /\ Len(CallsThen) <= CallDepth
<1>1. WarpDepth \in Nat /\ CallDepth \in Nat
  BY DepthAssumption
<1>2. CASE sched_state = "IDLE"
  <2>1. ~On("pc_en")
    BY <1>2 DEF SimtIInv, CoreIInv, StrobesFit, On
  <2>2. WarpThen = <<>> /\ CallsThen = <<>>
    BY <1>2, <2>1 DEF SimtIInv, AtRest, WarpThen, CallsThen
  <2> QED
    BY <1>1, <2>2
<1>3. CASE sched_state # "IDLE"
  <2>1. PICK x \in Addresses(prog), c \in Seq(Addresses(prog)) : PathAt(lay, x, c)
    BY <1>3 DEF SimtIInv, Paths
  <2>2. lay.depth[x] \in 0 .. CallDepth
    BY DEF SimtIInv, LaidOut, LayoutType
  <2>3. Len(CallsThen) <= CallDepth
    BY <1>1, <2>1, <2>2 DEF PathAt, ReturnsFit
  <2>4. WarpThen = <<>> \/ \E S \in SUBSET Lanes : WarpThen = <<S>>
    BY <2>1 DEF PathAt, Parked, NoneParked, ElsParked, ThenParked
  <2>5. Len(WarpThen) <= 1
    <3>1. CASE WarpThen = <<>>
      BY <3>1
    <3>2. CASE WarpThen # <<>>
      <4>1. PICK S \in SUBSET Lanes : WarpThen = <<S>>
        BY <2>4, <3>2
      <4>2. Len(<<S>>) = 1
        OBVIOUS
      <4> QED
        BY <4>1, <4>2
    <3> QED
      BY <3>1, <3>2
  <2> QED
    BY <1>1, <2>3, <2>4, <2>5
<1> QED
  BY <1>2, <1>3

LEMMA CoreRegistersStep ==
    ASSUME NEW lay, SimtIInv(lay), CoreRegisters, SimtTick, WarpDepth >= 1
    PROVE  CoreRegisters'
<1> USE DEF SimtIInv, CoreRegisters
<1>1. Tick /\ prog' = prog /\ core_start' \in BOOLEAN
  BY DEF SimtTick, Tick
<1>2. Len(prog) \in Nat
  BY DEF LaidOut
<1>3. ActivePc \in 0 .. Len(prog)
  <2>1. active_mask \subseteq Lanes /\ 0 \in Lanes
    BY NAssumption DEF CoreIInv, StrobesFit, Lanes
  <2>2. CASE active_mask = {}
    BY <2>1, <2>2 DEF ActivePc
  <2>3. CASE active_mask # {}
    <3>1. PICK m \in active_mask : \A k \in active_mask : m <= k
      BY <2>1, <2>3, LeastLane
    <3>2. (CHOOSE i \in active_mask : \A k \in active_mask : i <= k) \in active_mask
      BY <3>1
    <3> QED
      BY <2>1, <2>3, <3>2 DEF ActivePc
  <2> QED
    BY <2>2, <2>3
<1>4. instruction' \in {Word(a)' : a \in 0 .. Len(prog')}
  <2>1. \A a : Word(a)' = Word(a)
    BY <1>1 DEF Word
  <2>2. instruction' = instruction \/ instruction' = Word(ActivePc)
    BY <1>1 DEF Tick, LatchTick, CoreIInv, OneFetch
  <2> QED
    BY <1>1, <1>3, <2>1, <2>2
<1>5. lsu_done_latch' \subseteq Lanes
  <2>1. lsu_done \subseteq Lanes
    BY DEF CoreIInv, AccessesCounted, StrobesFit
  <2> QED
    BY <1>1, <2>1 DEF Tick, LatchTick, Lanes
<1>6. pc' \in [Lanes -> 0 .. Len(prog')]
  <2>1. CASE BlockReset
    BY <1>1, <1>2, <2>1 DEF Tick, PcTick
  <2>2. CASE ~BlockReset
    <3>1. ASSUME NEW i \in Lanes
          PROVE  PcAfter(i) \in 0 .. Len(prog)
      <4>1. CASE sched_state = "IDLE"
        <5>1. ~On("pc_en")
          BY <4>1 DEF CoreIInv, StrobesFit, On
        <5> QED
          BY <5>1 DEF PcAfter
      <4>2. CASE sched_state # "IDLE"
        <5>1. PICK x \in Addresses(prog), c \in Seq(Addresses(prog)) : PathAt(lay, x, c)
          BY <4>2 DEF Paths
        <5>2. ref_pc[i] \in 0 .. Len(prog)
          BY <5>1, PlacesInProgram
        <5> QED
          BY <4>2, <5>2 DEF PcsFollow
      <4> QED
        BY <4>1, <4>2
    <3>2. pc' = [i \in Lanes |-> PcAfter(i)]
      BY <1>1, <2>2 DEF Tick, PcTick
    <3> QED
      BY <1>1, <3>1, <3>2
  <2> QED
    BY <2>1, <2>2
<1>7. nzp' \in [Lanes -> Flags \cup {"none"}]
  <2>1. CASE BlockReset
    BY <1>1, <2>1 DEF Tick, PcTick
  <2>2. CASE ~BlockReset /\ nzp' = nzp
    BY <2>2
  <2>3. CASE ~BlockReset /\ nzp' # nzp
    BY <1>1, <2>3, FlagsMove
  <2> QED
    BY <2>1, <2>2, <2>3
<1>8. Len(warp_stack') <= WarpDepth /\ Len(call_stack') <= CallDepth
  <2>1. warp_stack' = WarpThen /\ call_stack' = CallsThen
    BY <1>1 DEF Tick, WarpTick, CallTick, WarpThen, CallsThen
  <2> QED
    BY <2>1, StacksHaveRoom
<1>9. outcome' \in [Lanes -> Flags]
  <2>1. CASE sched_state = "FETCH" /\ fetch_done /\ instruction_raw.op = "CMP"
    <3>1. instruction_raw = Word(ActivePc) /\ outcome' \in instruction_raw.flags
      BY <1>1, <2>1 DEF Tick, LatchTick, CoreIInv, OneFetch
    <3>2. ActivePc \in Addresses(prog) /\ instruction_raw = prog[ActivePc + 1]
      <4>1. Nop.op # "CMP"
        BY DEF Nop, Plain
      <4>2. ActivePc + 1 \in DOMAIN prog
        BY <2>1, <3>1, <4>1 DEF Word
      <4> QED
        BY <1>2, <1>3, <3>1, <4>2 DEF Word, Addresses, LaidOut
    <3>3. instruction_raw.flags \subseteq [Lanes -> Flags]
      BY <2>1, <3>2 DEF LaidOut, LaidOutAt
    <3> QED
      BY <3>1, <3>3
  <2>2. CASE ~(sched_state = "FETCH" /\ fetch_done /\ instruction_raw.op = "CMP")
    BY <1>1, <2>2 DEF Tick, LatchTick
  <2> QED
    BY <2>1, <2>2
<1> QED
  BY <1>1, <1>4, <1>5, <1>6, <1>7, <1>8, <1>9 DEF Word, Lanes

(* Everything has its type; no PC leaves the program and neither stack     *)
(* overflows.                                                              *)
THEOREM CoreTypeCorrect ==
    ASSUME ProgLatencies \subseteq {0, 1}, WarpDepth >= 1,
           \A p \in Programs : \E lay : LaidOut(p, lay),
           \A r \in BOOLEAN : [NoAccess EXCEPT !.rw = r] \in Issued
    PROVE  SimtSpec => []CoreTypeOK
<1>1. SimtInit /\ (\E lay : SimtIInv(lay)) => CoreRegisters
  <2> SUFFICES ASSUME SimtInit, NEW lay, SimtIInv(lay)
               PROVE  CoreRegisters
    OBVIOUS
  <2>1. Len(prog) \in Nat /\ DOMAIN prog = 1 .. Len(prog) /\ prog \in Programs
    BY DEF SimtInit, CoreInit, SimtIInv, LaidOut
  <2>2. Word(Len(prog)) = Nop
    BY <2>1 DEF Word
  <2>3. instruction \in {Word(a) : a \in 0 .. Len(prog)}
    BY <2>1, <2>2 DEF SimtInit, CoreInit
  <2>4. WarpDepth \in Nat /\ CallDepth \in Nat
    BY DepthAssumption
  <2>5. Len(warp_stack) <= WarpDepth /\ Len(call_stack) <= CallDepth
    BY <2>4 DEF SimtInit, CoreInit
  <2>6. pc \in [Lanes -> 0 .. Len(prog)]
    BY <2>1 DEF SimtInit, CoreInit
  <2>7. /\ core_start \in BOOLEAN
        /\ outcome \in [Lanes -> Flags]
        /\ lsu_done_latch \subseteq Lanes
        /\ nzp \in [Lanes -> Flags \cup {"none"}]
    BY DEF SimtInit, CoreInit, Flags
  <2> QED
    BY <2>1, <2>3, <2>5, <2>6, <2>7 DEF CoreRegisters
<1>2. (\E lay : SimtIInv(lay)) /\ CoreRegisters /\ [SimtTick]_simtVars => CoreRegisters'
  <2>1. CoreRegisters /\ UNCHANGED simtVars => CoreRegisters'
    BY DEF CoreRegisters, simtVars, allVars, coreVars, Word, Lanes
  <2> QED
    BY <2>1, CoreRegistersStep
<1>3. (\E lay : SimtIInv(lay)) /\ CoreRegisters /\ TypeOK => CoreTypeOK
  BY DEF CoreTypeOK, CoreRegisters, SimtIInv, CoreIInv, StrobesFit, SchedTypeOK, States, Strobes
<1>4. SimtSpec => CoreSpec
  <2>1. SimtInit => CoreInit
    BY DEF SimtInit
  <2>2. [SimtTick]_simtVars => [Tick]_allVars
    BY DEF SimtTick, simtVars
  <2> QED
    BY <2>1, <2>2, PTL DEF SimtSpec, CoreSpec
<1>5. CoreSpec => Spec
  BY CoreUsesPath
<1>6. SimtSpec => [](\E lay : SimtIInv(lay))
  BY SimtInvariant
<1> QED
  BY <1>1, <1>2, <1>3, <1>4, <1>5, <1>6, TypeCorrect, PTL DEF SimtSpec

================================================================================
