------------------------------ MODULE AccelMmioProof -----------------------------
(***************************************************************************)
(* What the host may conclude from kernel_done about the accelerator, for  *)
(* every number of cores and threads, every configuration and contents of  *)
(* the matrix memory, and kernels that wait for DONE or do not.            *)
(***************************************************************************)
EXTENDS AccelMmio, FiniteSetTheorems, WellFoundedInduction, TLAPS

(* The states in which a request of the accelerator is under way. *)
WaitStates == {"WAIT_A", "WAIT_B", "WAIT_STORE"}

(* The matrix memory owes or shows an answer exactly while the accelerator *)
(* waits, one answer for one request: none is taken for the next request,  *)
(* and no write is left over when the loops end.                           *)
OneRequest ==
    /\ data_req.valid => ac_state \in WaitStates
    /\ mem_work.valid \/ data_resp.valid => ac_state \in WaitStates
    /\ ~(mem_work.valid /\ data_resp.valid)

(* From the START that it heeds to the end of the run the accelerator      *)
(* shows no DONE, so no read of DONE can take the in-flight bit down.      *)
BusyIsInflight == ac_state # "IDLE" => accel_inflight /\ ~reg_done

MmioIInv == OneRequest /\ BusyIsInflight

--------------------------------------------------------------------------------
(* The memory answers what it is asked, now or later, and nothing else. *)
LEMMA MemoryStep ==
    ASSUME OneRequest, MemAnswers \/ MemWaits
    PROVE  /\ ~(mem_work'.valid /\ data_resp'.valid)
           /\ ~data_req'.valid /\ ~mem_work.valid => ~mem_work'.valid /\ ~data_resp'.valid
<1>1. CASE MemAnswers
  BY <1>1 DEF MemAnswers, Serving, NoDataReq
<1>2. CASE MemWaits
  BY <1>2 DEF MemWaits, Serving
<1> QED
  BY <1>1, <1>2

(* One request at a time. *)
LEMMA RequestStep ==
    ASSUME OneRequest, NEW wr, AccelTick(wr)
    PROVE  OneRequest'
<1>1. /\ ~(mem_work'.valid /\ data_resp'.valid)
      /\ ~data_req'.valid /\ ~mem_work.valid => ~mem_work'.valid /\ ~data_resp'.valid
  BY MemoryStep DEF AccelTick
<1>2. ~NoDataReq.valid
  BY DEF NoDataReq
<1>3. CASE LoadA \/ LoadB \/ Store
  BY <1>1, <1>3 DEF LoadA, LoadB, Store, Ask, OneRequest, WaitStates
<1>4. CASE WaitA \/ WaitB \/ WaitStore
  <2>1. ~data_req'.valid
    BY <1>2, <1>4 DEF WaitA, WaitB, WaitStore, Wait
  <2>2. CASE data_resp.valid
    BY <1>1, <2>1, <2>2 DEF OneRequest
  <2>3. CASE ~data_resp.valid
    BY <1>1, <1>4, <2>1, <2>3 DEF WaitA, WaitB, WaitStore, Wait, OneRequest, WaitStates
  <2> QED
    BY <2>2, <2>3
<1>5. CASE Idle(wr) \/ Start(wr) \/ Mac \/ NextIJ \/ DoneSet(wr)
  <2>1. ~data_req'.valid /\ ac_state \notin WaitStates
    BY <1>2, <1>5 DEF Idle, Start, Mac, NextIJ, DoneSet, WaitStates
  <2>2. ~mem_work.valid
    BY <2>1 DEF OneRequest
  <2> QED
    BY <1>1, <2>1, <2>2 DEF OneRequest
<1> QED
  BY <1>3, <1>4, <1>5 DEF AccelTick

(* Only a START that is heeded begins a run, and only its end shows DONE.  *)
LEMMA BusyStep ==
    ASSUME BusyIsInflight, MmioTick
    PROVE  BusyIsInflight'
<1> DEFINE wr == CtrlWrite
<1>1. AccelTick(wr) /\ InflightTick(wr)
  BY DEF MmioTick
<1> HIDE DEF wr
<1>2. CASE Start(wr)
  <2>1. accel_inflight'
    BY <1>1, <1>2 DEF Start, InflightTick
  <2>2. ~reg_done'
    BY <1>2 DEF Start
  <2> QED
    BY <2>1, <2>2 DEF BusyIsInflight
<1>3. CASE Idle(wr) \/ DoneSet(wr)
  BY <1>3 DEF Idle, DoneSet, BusyIsInflight
<1>4. CASE LoadA \/ WaitA \/ LoadB \/ WaitB \/ Mac \/ Store \/ WaitStore \/ NextIJ
  <2>1. ac_state # "IDLE" /\ reg_done' = reg_done
    BY <1>4 DEF LoadA, LoadB, Store, Ask, WaitA, WaitB, WaitStore, Wait, Mac, NextIJ
  <2>2. accel_inflight /\ ~reg_done
    BY <2>1 DEF BusyIsInflight
  <2>3. accel_inflight'
    BY <1>1, <2>2 DEF InflightTick, CtrlRead
  <2> QED
    BY <2>1, <2>2, <2>3 DEF BusyIsInflight
<1> QED
  BY <1>1, <1>2, <1>3, <1>4 DEF AccelTick

LEMMA MmioIInvHolds == MmioSpec => []MmioIInv
<1>1. MmioInit => MmioIInv
  BY DEF MmioInit, AccelInit, MmioIInv, OneRequest, BusyIsInflight, NoDataReq
<1>2. MmioIInv /\ [MmioTick]_mmioVars => MmioIInv'
  <2>1. MmioIInv /\ MmioTick => MmioIInv'
    BY RequestStep, BusyStep DEF MmioIInv, MmioTick
  <2>2. MmioIInv /\ UNCHANGED mmioVars => MmioIInv'
    BY DEF mmioVars, accelVars, MmioIInv, OneRequest, BusyIsInflight
  <2> QED
    BY <2>1, <2>2
<1> QED
  BY <1>1, <1>2, PTL DEF MmioSpec

(* kernel_done tells the host that the accelerator has written all it will *)
(* write, also when the kernel does not wait for DONE, and whatever the    *)
(* cores' START and DONE accesses did to the in-flight bit meanwhile.      *)
THEOREM KernelDoneIsAfterTheMatmul == MmioSpec => []KernelDoneMeansWritten
<1>1. MmioIInv => KernelDoneMeansWritten
  BY DEF MmioIInv, OneRequest, BusyIsInflight, KernelDoneMeansWritten, kernel_done, WaitStates
<1> QED
  BY <1>1, MmioIInvHolds, PTL

--------------------------------------------------------------------------------
(* What is true of 0, and of k + 1 when it is of k < n, is true up to n.   *)
LEMMA UpTo ==
    ASSUME NEW n \in Nat, NEW S, 0 \in S, \A k \in 0 .. n - 1 : k \in S => k + 1 \in S
    PROVE  0 .. n \subseteq S
<1> DEFINE T == {0 .. j : j \in (0 .. n) \ S}
<1> SUFFICES ASSUME (0 .. n) \ S # {}
             PROVE  FALSE
  OBVIOUS
<1>1. IsWellFoundedOn(StrictSubsetOrdering(0 .. n), SUBSET (0 .. n))
  <2>1. IsFiniteSet(0 .. n)
    BY FS_Interval
  <2> QED
    BY <2>1, FS_FiniteSubsetsOfFinite, FS_StrictSubsetOrderingWellFounded
<1>2. T \subseteq SUBSET (0 .. n) /\ T # {}
  OBVIOUS
<1>3. PICK x \in T : \A y \in T : ~(<<y, x>> \in StrictSubsetOrdering(0 .. n))
  BY <1>1, <1>2, WFMin
<1>4. PICK j \in (0 .. n) \ S : x = 0 .. j
  BY <1>3
<1>5. j # 0 /\ j - 1 \in 0 .. n - 1 /\ j - 1 + 1 = j
  BY <1>4
<1>6. j - 1 \in (0 .. n) \ S
  BY <1>4, <1>5
<1>7. 0 .. j - 1 \in T
  BY <1>6
<1>8. <<0 .. j - 1, 0 .. j>> \in StrictSubsetOrdering(0 .. n)
  BY <1>4, <1>5 DEF StrictSubsetOrdering
<1> QED
  BY <1>3, <1>4, <1>7, <1>8

(* A sum over 0 .. n - 1 can be taken step by step.                        *)
LEMMA RunningSum ==
    ASSUME NEW n \in Nat, NEW d
    PROVE  \E S : S = [k \in 0 .. n |-> IF k = 0 THEN 0 ELSE S[k - 1] + d[k - 1]]
<1> DEFINE IsSum(S, j) == S = [k \in 0 .. j |-> IF k = 0 THEN 0 ELSE S[k - 1] + d[k - 1]]
           Good == {j \in 0 .. n : \E S : IsSum(S, j)}
<1>1. 0 \in Good
  <2>1. IsSum([k \in 0 .. 0 |-> 0], 0)
    OBVIOUS
  <2> HIDE DEF IsSum
  <2>2. \E S : IsSum(S, 0)
    BY <2>1
  <2> QED
    BY <2>2
<1>2. ASSUME NEW j \in 0 .. n - 1, j \in Good
      PROVE  j + 1 \in Good
  <2>1. PICK S : IsSum(S, j)
    BY <1>2
  <2> DEFINE R == [k \in 0 .. j + 1 |-> IF k = j + 1 THEN S[j] + d[j] ELSE S[k]]
  <2>2. \A k \in 0 .. j : R[k] = S[k]
    OBVIOUS
  <2>3. R[0] = 0
    BY <2>1, <2>2
  <2>4. ASSUME NEW k \in 0 .. j + 1, k # 0
        PROVE  R[k] = R[k - 1] + d[k - 1]
    <3>1. k - 1 \in 0 .. j /\ R[k - 1] = S[k - 1]
      BY <2>2, <2>4
    <3>2. CASE k = j + 1
      <4>1. R[k] = S[j] + d[j] /\ k - 1 = j
        BY <3>2
      <4> QED
        BY <3>1, <4>1
    <3>3. CASE k # j + 1
      <4>1. k \in 0 .. j
        BY <2>4, <3>3
      <4>2. S[k] = S[k - 1] + d[k - 1]
        BY <2>1, <2>4, <4>1
      <4> QED
        BY <2>2, <3>1, <4>1, <4>2
    <3> QED
      BY <3>2, <3>3
  <2>5. R = [k \in 0 .. j + 1 |-> R[k]]
    OBVIOUS
  <2> HIDE DEF R
  <2>6. IsSum(R, j + 1)
    BY <2>3, <2>4, <2>5
  <2> QED
    BY <1>2, <2>6
<1>3. n \in Good
  <2> HIDE DEF Good
  <2> QED
    BY <1>1, <1>2, UpTo
<1> QED
  BY <1>3

(* The sums of a cell: none at first, then one more dot product each time. *)
LEMMA SumsStep ==
    ASSUME NEW m, NEW cfg, NEW r, NEW c, Chunks(cfg) \in Nat
    PROVE  /\ Sums(m, cfg, r, c)[0] = 0
           /\ \A k \in ChunkNos(cfg) :
                 Sums(m, cfg, r, c)[k + 1] =
                     Sums(m, cfg, r, c)[k] + Dot4(m[AAddr(cfg, r, k)], m[BAddr(cfg, c, k)])
<1> DEFINE n == Chunks(cfg)
           e(k) == Dot4(m[AAddr(cfg, r, k)], m[BAddr(cfg, c, k)])
           d == [k \in 0 .. n - 1 |-> e(k)]
           IsSum(S) == S = [k \in 0 .. n |-> IF k = 0 THEN 0 ELSE S[k - 1] + e(k - 1)]
<1>1. Sums(m, cfg, r, c) = CHOOSE S : IsSum(S)
  BY DEF Sums
<1>2. n \in Nat
  OBVIOUS
<1> HIDE DEF n, e
<1>3. PICK S : S = [k \in 0 .. n |-> IF k = 0 THEN 0 ELSE S[k - 1] + d[k - 1]]
  BY <1>2, RunningSum
<1>4. IsSum(S)
  <2>1. \A k \in 0 .. n : k # 0 => d[k - 1] = e(k - 1)
    BY <1>2
  <2> HIDE DEF d
  <2> QED
    BY <1>3, <2>1
<1>5. IsSum(Sums(m, cfg, r, c))
  <2> HIDE DEF IsSum
  <2> QED
    BY <1>1, <1>4
<1> HIDE DEF d
<1>6. Sums(m, cfg, r, c)[0] = 0
  BY <1>2, <1>5
<1>7. ASSUME NEW k \in 0 .. n - 1
      PROVE  Sums(m, cfg, r, c)[k + 1] = Sums(m, cfg, r, c)[k] + e(k)
  <2>1. PICK j \in 0 .. n : j = k + 1
    BY <1>2
  <2>2. j # 0 /\ j - 1 = k
    BY <1>2, <2>1
  <2>3. Sums(m, cfg, r, c)[j] = Sums(m, cfg, r, c)[j - 1] + e(j - 1)
    BY <1>5, <2>2
  <2> QED
    BY <2>1, <2>2, <2>3
<1> QED
  BY <1>6, <1>7 DEF ChunkNos, n, e

--------------------------------------------------------------------------------
(* The cells of C that are stored: the ones before the current one, the    *)
(* current one from the answer to its store on, and all at the end.        *)
IsStored(r, c) ==
    \/ ac_state \in {"DONE_SET", "IDLE"}
    \/ r < row
    \/ r = row /\ c < col
    \/ /\ ac_state = "NEXT_IJ" \/ (ac_state = "WAIT_STORE" /\ data_resp.valid)
       /\ r = row /\ c = col

Stored(a) ==
    \E r \in Rows(config), c \in Cols(config) : IsStored(r, c) /\ a = CAddr(config, r, c)

(* A run with the kernel's parameters, or what one has left behind. *)
OwnRun == (ac_state # "IDLE" \/ reg_done) /\ run = config

(* The loops are within bounds while there is work left. *)
LoopsInRange ==
    ac_state \notin {"IDLE", "DONE_SET"} =>
        row \in Rows(config) /\ col \in Cols(config) /\ k_chunk \in ChunkNos(config)

(* The operands, and the answers to the reads of them, are what START      *)
(* found: no store came in between.                                        *)
AWord == start_mem[AAddr(config, row, k_chunk)]
BWord == start_mem[BAddr(config, col, k_chunk)]

OperandsRight ==
    /\ ac_state = "WAIT_A" =>
          /\ data_resp.valid => data_resp.data = AWord
          /\ mem_work.valid => mem_work = ReadAt(AAddr(config, row, k_chunk))
    /\ ac_state \in {"LOAD_B", "WAIT_B", "MAC_STATE"} => a_word = AWord
    /\ ac_state = "WAIT_B" =>
          /\ data_resp.valid => data_resp.data = BWord
          /\ mem_work.valid => mem_work = ReadAt(BAddr(config, col, k_chunk))
    /\ ac_state = "MAC_STATE" => b_word = BWord

(* The accumulator has the sum of the chunks so far, and the store that is *)
(* owed is the one of the whole.                                           *)
ThisCell == Cell(start_mem, config, row, col)

SumRight ==
    /\ ac_state \in {"LOAD_A", "WAIT_A", "LOAD_B", "WAIT_B", "MAC_STATE"} =>
          acc = Sums(start_mem, config, row, col)[k_chunk]
    /\ ac_state = "STORE" => Scaled(acc, config) = ThisCell
    /\ ac_state = "WAIT_STORE" /\ mem_work.valid =>
          mem_work = WriteAt(CAddr(config, row, col), ThisCell)

(* The stored cells have their results, the rest is as START found it. *)
StoredRight ==
    amem = [a \in DOMAIN start_mem |->
               IF Stored(a) THEN Product(start_mem, config)[a] ELSE start_mem[a]]

OwnRunRight == LoopsInRange /\ OperandsRight /\ SumRight /\ StoredRight

(* The memory keeps its addresses. *)
MemKept ==
    \E m \in InitialMem : amem = [a \in DOMAIN m |-> amem[a]]
StartMemKept ==
    ac_state # "IDLE" \/ reg_done =>
        \E m \in InitialMem : start_mem = [a \in DOMAIN m |-> start_mem[a]]

RunIInv ==
    /\ config \in Configs
    /\ MemKept /\ StartMemKept
    /\ OwnRun => OwnRunRight

--------------------------------------------------------------------------------
(* The quotient and the remainder of a multiple and a bit more. *)
LEMMA QuotientRemainder ==
    ASSUME NEW n \in Int, n >= 1, NEW r \in Int, NEW c \in 0 .. n - 1
    PROVE  (r * n + c) \div n = r /\ (r * n + c) % n = c
<1>1. (r * n + c) \div n = r
  OBVIOUS
<1>2. (r * n + c) % n = c
  OBVIOUS
<1> QED
  BY <1>1, <1>2

(* Row and column of a cell can be told from its address. *)
LEMMA CellOfAddr ==
    ASSUME NEW cfg \in [ConfigRegs -> Int], cfg[N_REG] >= 1,
           NEW r \in Rows(cfg), NEW c \in Cols(cfg)
    PROVE  /\ (CAddr(cfg, r, c) - cfg[C_BASE]) \div cfg[N_REG] = r
           /\ (CAddr(cfg, r, c) - cfg[C_BASE]) % cfg[N_REG] = c
<1>1. PICK n \in Int : n = cfg[N_REG] /\ n >= 1
  BY DEF ConfigRegs, A_BASE, SCALE, N_REG
<1>2. PICK b \in Int : b = cfg[C_BASE]
  BY DEF ConfigRegs, A_BASE, SCALE, C_BASE
<1>3. r \in Int /\ c \in 0 .. n - 1
  BY <1>1 DEF Rows, Cols, M_REG, ConfigRegs, A_BASE, SCALE
<1>4. CAddr(cfg, r, c) - b = r * n + c
  BY <1>1, <1>2, <1>3 DEF CAddr
<1>5. (r * n + c) \div n = r /\ (r * n + c) % n = c
  BY <1>1, <1>3, QuotientRemainder
<1> QED
  BY <1>1, <1>2, <1>4, <1>5

(* What the configuration gives: the bounds of the loops are numbers, the  *)
(* operands lie in memory and outside C, and a cell of the product is at   *)
(* its address.                                                            *)
LEMMA FitFacts ==
    ASSUME RunIInv, NEW s, \E m \in InitialMem : s = [a \in DOMAIN m |-> s[a]]
    PROVE  /\ config \in [ConfigRegs -> Int] /\ config[N_REG] >= 1 /\ config[M_REG] >= 1
           /\ config[N_REG] \in Int /\ config[M_REG] \in Int
           /\ Chunks(config) \in Nat \ {0}
           /\ s = [a \in DOMAIN s |-> s[a]]
           /\ \A r \in Rows(config), k \in ChunkNos(config) :
                 AAddr(config, r, k) \in DOMAIN s \ CRegion(config)
           /\ \A c \in Cols(config), k \in ChunkNos(config) :
                 BAddr(config, c, k) \in DOMAIN s \ CRegion(config)
           /\ \A r \in Rows(config), c \in Cols(config) :
                 /\ CAddr(config, r, c) \in DOMAIN s
                 /\ Product(s, config)[CAddr(config, r, c)] = Cell(s, config, r, c)
<1>1. PICK m \in InitialMem : s = [a \in DOMAIN m |-> s[a]]
  OBVIOUS
<1>2. DOMAIN s = DOMAIN m /\ s = [a \in DOMAIN s |-> s[a]]
  BY <1>1
<1>3. Fits(config, m)
  BY ConfigsAssumption DEF RunIInv
<1>4. config \in [ConfigRegs -> Int] /\ config[N_REG] >= 1 /\ config[M_REG] >= 1
  BY <1>3 DEF Fits
<1>5. config[N_REG] \in Int /\ config[M_REG] \in Int
  BY <1>4 DEF ConfigRegs, A_BASE, SCALE, N_REG, M_REG
<1>6. Chunks(config) \in Nat \ {0}
  <2>1. config[K_REG] \in Int /\ Chunks(config) >= 1
    BY <1>3, <1>4 DEF Fits, ConfigRegs, A_BASE, SCALE, K_REG
  <2>2. Chunks(config) \in Int
    BY <2>1 DEF Chunks
  <2> QED
    BY <2>1, <2>2
<1>7. ASSUME NEW r \in Rows(config), NEW c \in Cols(config)
      PROVE  /\ CAddr(config, r, c) \in DOMAIN s
             /\ Product(s, config)[CAddr(config, r, c)] = Cell(s, config, r, c)
  <2>1. CAddr(config, r, c) \in CRegion(config)
    BY DEF CRegion
  <2>2. CAddr(config, r, c) \in DOMAIN s
    BY <1>2, <1>3, <2>1 DEF Fits
  <2> QED
    BY <1>4, <2>1, <2>2, CellOfAddr DEF Product
<1>8. \A r \in Rows(config), k \in ChunkNos(config) :
         AAddr(config, r, k) \in DOMAIN s \ CRegion(config)
  BY <1>2, <1>3 DEF Fits
<1>9. \A c \in Cols(config), k \in ChunkNos(config) :
         BAddr(config, c, k) \in DOMAIN s \ CRegion(config)
  BY <1>2, <1>3 DEF Fits
<1> QED
  BY <1>2, <1>4, <1>5, <1>6, <1>7, <1>8, <1>9

(* What is not of C is read as START found it. *)
LEMMA OperandsKept ==
    ASSUME StoredRight, NEW a \in DOMAIN start_mem \ CRegion(config)
    PROVE  amem[a] = start_mem[a]
BY DEF StoredRight, Stored, CRegion

--------------------------------------------------------------------------------
(* The memory does nothing while nothing is asked of it, ... *)
LEMMA QuietMem ==
    ASSUME MemAnswers \/ MemWaits, ~Serving.valid
    PROVE  amem' = amem /\ ~data_resp'.valid /\ ~mem_work'.valid
BY DEF MemAnswers, MemWaits

(* ... answers a read with the word, ... *)
LEMMA ReadMem ==
    ASSUME MemAnswers \/ MemWaits, NEW a, Serving.valid => Serving = ReadAt(a)
    PROVE  /\ amem' = amem
           /\ data_resp'.valid => data_resp'.data = amem[a]
           /\ mem_work'.valid => mem_work' = ReadAt(a)
<1>1. ReadAt(a).rw /\ ReadAt(a).addr = a
  BY DEF ReadAt
<1>2. CASE MemAnswers
  BY <1>1, <1>2 DEF MemAnswers, NoDataReq
<1>3. CASE MemWaits
  BY <1>3 DEF MemWaits
<1> QED
  BY <1>2, <1>3

(* ... and stores the word of a write when it answers it. *)
LEMMA WriteMem ==
    ASSUME MemAnswers \/ MemWaits, NEW a, NEW w, Serving.valid => Serving = WriteAt(a, w)
    PROVE  /\ amem' = IF data_resp'.valid THEN [amem EXCEPT ![a] = w] ELSE amem
           /\ mem_work'.valid => mem_work' = WriteAt(a, w)
<1>1. ~WriteAt(a, w).rw /\ WriteAt(a, w).addr = a /\ WriteAt(a, w).data = w
  BY DEF WriteAt
<1>2. CASE MemAnswers
  BY <1>1, <1>2 DEF MemAnswers, NoDataReq
<1>3. CASE MemWaits
  BY <1>3 DEF MemWaits
<1> QED
  BY <1>2, <1>3

--------------------------------------------------------------------------------
(* The facts of the configuration, about the memory that START found. *)
LEMMA OwnFacts ==
    ASSUME RunIInv, OwnRun
    PROVE  /\ config \in [ConfigRegs -> Int] /\ config[N_REG] >= 1 /\ config[M_REG] >= 1
           /\ config[N_REG] \in Int /\ config[M_REG] \in Int
           /\ Chunks(config) \in Nat \ {0}
           /\ start_mem = [a \in DOMAIN start_mem |-> start_mem[a]]
           /\ \A r \in Rows(config), k \in ChunkNos(config) :
                 AAddr(config, r, k) \in DOMAIN start_mem \ CRegion(config)
           /\ \A c \in Cols(config), k \in ChunkNos(config) :
                 BAddr(config, c, k) \in DOMAIN start_mem \ CRegion(config)
           /\ \A r \in Rows(config), c \in Cols(config) :
                 /\ CAddr(config, r, c) \in DOMAIN start_mem
                 /\ Product(start_mem, config)[CAddr(config, r, c)]
                        = Cell(start_mem, config, r, c)
<1>1. \E m \in InitialMem : start_mem = [a \in DOMAIN m |-> start_mem[a]]
  BY DEF RunIInv, StartMemKept, OwnRun
<1>2. PICK s : s = start_mem
  OBVIOUS
<1>3. \E m \in InitialMem : s = [a \in DOMAIN m |-> s[a]]
  BY <1>1, <1>2
<1> QED
  BY <1>2, <1>3, FitFacts

(* A step that neither stores nor counts keeps what is stored. *)
LEMMA StoredSame ==
    ASSUME StoredRight, UNCHANGED <<amem, start_mem, config>>,
           \A r \in Rows(config), c \in Cols(config) : IsStored(r, c)' <=> IsStored(r, c)
    PROVE  StoredRight'
<1>1. \A a : Stored(a)' <=> Stored(a)
  BY DEF Stored
<1> QED
  BY <1>1 DEF StoredRight

(* In a state that does not wait only a new request is served. *)
LEMMA NewRequest ==
    ASSUME OneRequest, ac_state \notin WaitStates
    PROVE  Serving.valid => data_req'.valid /\ Serving = data_req'
BY DEF OneRequest, Serving

(* In a state that waits only the old request is served. *)
LEMMA OldRequest ==
    ASSUME ~data_req'.valid
    PROVE  Serving = mem_work
BY DEF Serving

(* LOAD_A and LOAD_B ask for the operands. *)
LEMMA LoadAStep ==
    ASSUME RunIInv, OneRequest, OwnRun, UNCHANGED config, MemAnswers \/ MemWaits, LoadA
    PROVE  OwnRunRight'
<1>1. /\ ac_state = "LOAD_A" /\ ac_state' = "WAIT_A"
      /\ data_req' = ReadAt(AAddr(run, row, k_chunk))
      /\ UNCHANGED <<run, row, col, k_chunk, acc, start_mem>>
  BY DEF LoadA, Ask, loopVars
<1>2. run = config /\ OwnRunRight
  BY DEF RunIInv, OwnRun
<1>3. row \in Rows(config) /\ col \in Cols(config) /\ k_chunk \in ChunkNos(config)
  BY <1>1, <1>2 DEF OwnRunRight, LoopsInRange
<1>4. PICK a : a = AAddr(config, row, k_chunk)
  OBVIOUS
<1>5. a \in DOMAIN start_mem \ CRegion(config)
  BY <1>3, <1>4, OwnFacts
<1>6. amem[a] = start_mem[a]
  BY <1>2, <1>5, OperandsKept DEF OwnRunRight
<1>7. Serving.valid => Serving = ReadAt(a)
  BY <1>1, <1>2, <1>4, NewRequest DEF WaitStates
<1>8. /\ amem' = amem
      /\ data_resp'.valid => data_resp'.data = amem[a]
      /\ mem_work'.valid => mem_work' = ReadAt(a)
  BY <1>7, ReadMem
<1>9. AAddr(config, row, k_chunk)' = a
  BY <1>1, <1>4
<1>10. StoredRight'
  <2>1. \A r \in Rows(config), c \in Cols(config) : IsStored(r, c)' <=> IsStored(r, c)
    BY <1>1 DEF IsStored
  <2> QED
    BY <1>1, <1>2, <1>8, <2>1, StoredSame DEF OwnRunRight
<1>11. OperandsRight'
  BY <1>1, <1>6, <1>8, <1>9 DEF OperandsRight, AWord
<1>12. SumRight'
  BY <1>1, <1>2 DEF OwnRunRight, SumRight
<1> QED
  BY <1>1, <1>3, <1>10, <1>11, <1>12 DEF OwnRunRight, LoopsInRange

LEMMA LoadBStep ==
    ASSUME RunIInv, OneRequest, OwnRun, UNCHANGED config, MemAnswers \/ MemWaits, LoadB
    PROVE  OwnRunRight'
<1>1. /\ ac_state = "LOAD_B" /\ ac_state' = "WAIT_B"
      /\ data_req' = ReadAt(BAddr(run, col, k_chunk))
      /\ UNCHANGED <<run, row, col, k_chunk, a_word, acc, start_mem>>
  BY DEF LoadB, Ask, loopVars
<1>2. run = config /\ OwnRunRight
  BY DEF RunIInv, OwnRun
<1>3. row \in Rows(config) /\ col \in Cols(config) /\ k_chunk \in ChunkNos(config)
  BY <1>1, <1>2 DEF OwnRunRight, LoopsInRange
<1>4. PICK a : a = BAddr(config, col, k_chunk)
  OBVIOUS
<1>5. a \in DOMAIN start_mem \ CRegion(config)
  BY <1>3, <1>4, OwnFacts
<1>6. amem[a] = start_mem[a]
  BY <1>2, <1>5, OperandsKept DEF OwnRunRight
<1>7. Serving.valid => Serving = ReadAt(a)
  BY <1>1, <1>2, <1>4, NewRequest DEF WaitStates
<1>8. /\ amem' = amem
      /\ data_resp'.valid => data_resp'.data = amem[a]
      /\ mem_work'.valid => mem_work' = ReadAt(a)
  BY <1>7, ReadMem
<1>9. BAddr(config, col, k_chunk)' = a /\ AWord' = AWord
  BY <1>1, <1>4 DEF AWord
<1>10. StoredRight'
  <2>1. \A r \in Rows(config), c \in Cols(config) : IsStored(r, c)' <=> IsStored(r, c)
    BY <1>1 DEF IsStored
  <2> QED
    BY <1>1, <1>2, <1>8, <2>1, StoredSame DEF OwnRunRight
<1>11. a_word = AWord
  BY <1>1, <1>2 DEF OwnRunRight, OperandsRight
<1>12. OperandsRight'
  BY <1>1, <1>6, <1>8, <1>9, <1>11 DEF OperandsRight, BWord
<1>13. SumRight'
  BY <1>1, <1>2 DEF OwnRunRight, SumRight
<1> QED
  BY <1>1, <1>3, <1>10, <1>12, <1>13 DEF OwnRunRight, LoopsInRange

(* WAIT_A and WAIT_B take the word that is answered. *)
LEMMA WaitAStep ==
    ASSUME RunIInv, OneRequest, OwnRun, UNCHANGED config, MemAnswers \/ MemWaits, WaitA
    PROVE  OwnRunRight'
<1>1. /\ ac_state = "WAIT_A"
      /\ ac_state' = IF data_resp.valid THEN "LOAD_B" ELSE "WAIT_A"
      /\ a_word' = IF data_resp.valid THEN data_resp.data ELSE a_word
      /\ ~data_req'.valid
      /\ UNCHANGED <<run, row, col, k_chunk, acc, start_mem>>
  BY DEF WaitA, Wait, loopVars, NoDataReq
<1>2. run = config /\ OwnRunRight
  BY DEF RunIInv, OwnRun
<1>3. row \in Rows(config) /\ col \in Cols(config) /\ k_chunk \in ChunkNos(config)
  BY <1>1, <1>2 DEF OwnRunRight, LoopsInRange
<1>4. PICK a : a = AAddr(config, row, k_chunk)
  OBVIOUS
<1>5. a \in DOMAIN start_mem \ CRegion(config)
  BY <1>3, <1>4, OwnFacts
<1>6. amem[a] = start_mem[a]
  BY <1>2, <1>5, OperandsKept DEF OwnRunRight
<1>7. Serving.valid => Serving = ReadAt(a)
  BY <1>1, <1>2, <1>4, OldRequest DEF OwnRunRight, OperandsRight
<1>8. /\ amem' = amem
      /\ data_resp'.valid => data_resp'.data = amem[a]
      /\ mem_work'.valid => mem_work' = ReadAt(a)
  BY <1>7, ReadMem
<1>9. AAddr(config, row, k_chunk)' = a /\ AWord' = AWord
  BY <1>1, <1>4 DEF AWord
<1>10. StoredRight'
  <2>1. \A r \in Rows(config), c \in Cols(config) : IsStored(r, c)' <=> IsStored(r, c)
    BY <1>1 DEF IsStored
  <2> QED
    BY <1>1, <1>2, <1>8, <2>1, StoredSame DEF OwnRunRight
<1>11. data_resp.valid => data_resp.data = AWord
  BY <1>1, <1>2 DEF OwnRunRight, OperandsRight
<1>12. AWord = start_mem[a]
  BY <1>4 DEF AWord
<1>13. OperandsRight'
  BY <1>1, <1>6, <1>8, <1>9, <1>11, <1>12 DEF OperandsRight
<1>14. SumRight'
  BY <1>1, <1>2 DEF OwnRunRight, SumRight
<1> QED
  BY <1>1, <1>3, <1>10, <1>13, <1>14 DEF OwnRunRight, LoopsInRange

LEMMA WaitBStep ==
    ASSUME RunIInv, OneRequest, OwnRun, UNCHANGED config, MemAnswers \/ MemWaits, WaitB
    PROVE  OwnRunRight'
<1>1. /\ ac_state = "WAIT_B"
      /\ ac_state' = IF data_resp.valid THEN "MAC_STATE" ELSE "WAIT_B"
      /\ b_word' = IF data_resp.valid THEN data_resp.data ELSE b_word
      /\ ~data_req'.valid
      /\ UNCHANGED <<run, row, col, k_chunk, a_word, acc, start_mem>>
  BY DEF WaitB, Wait, loopVars, NoDataReq
<1>2. run = config /\ OwnRunRight
  BY DEF RunIInv, OwnRun
<1>3. row \in Rows(config) /\ col \in Cols(config) /\ k_chunk \in ChunkNos(config)
  BY <1>1, <1>2 DEF OwnRunRight, LoopsInRange
<1>4. PICK a : a = BAddr(config, col, k_chunk)
  OBVIOUS
<1>5. a \in DOMAIN start_mem \ CRegion(config)
  BY <1>3, <1>4, OwnFacts
<1>6. amem[a] = start_mem[a]
  BY <1>2, <1>5, OperandsKept DEF OwnRunRight
<1>7. Serving.valid => Serving = ReadAt(a)
  BY <1>1, <1>2, <1>4, OldRequest DEF OwnRunRight, OperandsRight
<1>8. /\ amem' = amem
      /\ data_resp'.valid => data_resp'.data = amem[a]
      /\ mem_work'.valid => mem_work' = ReadAt(a)
  BY <1>7, ReadMem
<1>9. BAddr(config, col, k_chunk)' = a /\ AWord' = AWord /\ BWord' = BWord
  BY <1>1, <1>4 DEF AWord, BWord
<1>10. StoredRight'
  <2>1. \A r \in Rows(config), c \in Cols(config) : IsStored(r, c)' <=> IsStored(r, c)
    BY <1>1 DEF IsStored
  <2> QED
    BY <1>1, <1>2, <1>8, <2>1, StoredSame DEF OwnRunRight
<1>11. a_word = AWord /\ (data_resp.valid => data_resp.data = BWord)
  BY <1>1, <1>2 DEF OwnRunRight, OperandsRight
<1>12. BWord = start_mem[a]
  BY <1>4 DEF BWord
<1>13. OperandsRight'
  BY <1>1, <1>6, <1>8, <1>9, <1>11, <1>12 DEF OperandsRight
<1>14. SumRight'
  BY <1>1, <1>2 DEF OwnRunRight, SumRight
<1> QED
  BY <1>1, <1>3, <1>10, <1>13, <1>14 DEF OwnRunRight, LoopsInRange

(* MAC_STATE adds the chunk, and after the last one has the cell's sum.    *)
LEMMA MacStep ==
    ASSUME RunIInv, OneRequest, OwnRun, UNCHANGED config, MemAnswers \/ MemWaits, Mac
    PROVE  OwnRunRight'
<1> DEFINE LastChunk == k_chunk + 1 >= Chunks(run)
<1>1. /\ ac_state = "MAC_STATE"
      /\ acc' = acc + Dot4(a_word, b_word)
      /\ LastChunk => ac_state' = "STORE" /\ k_chunk' = k_chunk
      /\ ~LastChunk => ac_state' = "LOAD_A" /\ k_chunk' = k_chunk + 1
      /\ ~data_req'.valid
      /\ UNCHANGED <<run, row, col, start_mem>>
  BY DEF Mac, NoDataReq
<1>2. run = config /\ OwnRunRight
  BY DEF RunIInv, OwnRun
<1>3. row \in Rows(config) /\ col \in Cols(config) /\ k_chunk \in ChunkNos(config)
  BY <1>1, <1>2 DEF OwnRunRight, LoopsInRange
<1>4. Chunks(config) \in Nat \ {0}
  BY OwnFacts
<1>5. amem' = amem
  BY <1>1, QuietMem, OldRequest DEF OneRequest, WaitStates
<1>6. StoredRight'
  <2>1. \A r \in Rows(config), c \in Cols(config) : IsStored(r, c)' <=> IsStored(r, c)
    BY <1>1 DEF IsStored
  <2> QED
    BY <1>1, <1>2, <1>5, <2>1, StoredSame DEF OwnRunRight
<1>7. OperandsRight'
  BY <1>1 DEF OperandsRight
<1>8. acc' = Sums(start_mem, config, row, col)[k_chunk + 1]
  <2>1. PICK m, cfg, r, c, k : m = start_mem /\ cfg = config /\ r = row /\ c = col /\ k = k_chunk
    OBVIOUS
  <2>2. Sums(m, cfg, r, c)[k + 1]
            = Sums(m, cfg, r, c)[k] + Dot4(m[AAddr(cfg, r, k)], m[BAddr(cfg, c, k)])
    BY <1>3, <1>4, <2>1, SumsStep
  <2>3. a_word = m[AAddr(cfg, r, k)] /\ b_word = m[BAddr(cfg, c, k)]
    BY <1>1, <1>2, <2>1 DEF OwnRunRight, OperandsRight, AWord, BWord
  <2>4. acc = Sums(m, cfg, r, c)[k]
    BY <1>1, <1>2, <2>1 DEF OwnRunRight, SumRight
  <2> QED
    BY <1>1, <2>1, <2>2, <2>3, <2>4
<1>9. CASE LastChunk
  <2>1. k_chunk + 1 = Chunks(config)
    BY <1>2, <1>3, <1>4, <1>9 DEF ChunkNos
  <2>2. ac_state' = "STORE" /\ k_chunk' = k_chunk
    BY <1>1, <1>9
  <2>3. Scaled(acc', config) = ThisCell
    BY <1>8, <2>1 DEF ThisCell, Cell
  <2>4. SumRight'
    BY <1>1, <2>2, <2>3 DEF SumRight, ThisCell
  <2> QED
    BY <1>1, <1>3, <1>6, <1>7, <2>2, <2>4 DEF OwnRunRight, LoopsInRange
<1>10. CASE ~LastChunk
  <2>1. k_chunk + 1 \in ChunkNos(config)
    BY <1>2, <1>3, <1>4, <1>10 DEF ChunkNos
  <2>2. ac_state' = "LOAD_A" /\ k_chunk' = k_chunk + 1
    BY <1>1, <1>10
  <2>3. SumRight'
    BY <1>1, <1>8, <2>2 DEF SumRight
  <2> QED
    BY <1>1, <1>3, <1>6, <1>7, <2>1, <2>2, <2>3 DEF OwnRunRight, LoopsInRange
<1> QED
  BY <1>9, <1>10

(* The store is for the current cell, and is done when it is answered. *)
LEMMA StoredOneMore ==
    ASSUME RunIInv, OwnRun, UNCHANGED <<start_mem, config, row, col>>,
           row \in Rows(config), col \in Cols(config),
           NEW a, a = CAddr(config, row, col), NEW w, w = ThisCell,
           amem' = IF data_resp'.valid THEN [amem EXCEPT ![a] = w] ELSE amem,
           \A r \in Rows(config), c \in Cols(config) :
              IsStored(r, c)' <=> IsStored(r, c) \/ (data_resp'.valid /\ r = row /\ c = col)
    PROVE  StoredRight'
<1>1. StoredRight
  BY DEF RunIInv, OwnRunRight
<1>2. CASE ~data_resp'.valid
  BY <1>1, <1>2, StoredSame
<1>3. CASE data_resp'.valid
  <2>1. \A x : Stored(x)' <=> Stored(x) \/ x = a
    BY <1>3 DEF Stored
  <2>2. /\ a \in DOMAIN start_mem
        /\ Product(start_mem, config)[a] = w
    BY OwnFacts DEF ThisCell
  <2>3. PICK P : P = Product(start_mem, config)
    OBVIOUS
  <2>4. DOMAIN amem = DOMAIN start_mem
    BY <1>1 DEF StoredRight
  <2>5. amem' = [x \in DOMAIN start_mem |-> IF x = a THEN w ELSE amem[x]]
    BY <1>3, <2>4
  <2>6. \A x \in DOMAIN start_mem :
           amem[x] = IF Stored(x) THEN P[x] ELSE start_mem[x]
    BY <1>1, <2>3 DEF StoredRight
  <2>7. \A x \in DOMAIN start_mem :
           (IF x = a THEN w ELSE amem[x]) = IF Stored(x)' THEN P[x] ELSE start_mem[x]
    BY <2>1, <2>2, <2>3, <2>6
  <2>8. amem' = [x \in DOMAIN start_mem |-> IF Stored(x)' THEN P[x] ELSE start_mem[x]]
    BY <2>5, <2>7
  <2>9. Product(start_mem', config') = P
    BY <2>3
  <2> QED
    BY <2>8, <2>9 DEF StoredRight
<1> QED
  BY <1>2, <1>3

LEMMA StoreStep ==
    ASSUME RunIInv, OneRequest, OwnRun, UNCHANGED config, MemAnswers \/ MemWaits, Store
    PROVE  OwnRunRight'
<1>1. /\ ac_state = "STORE" /\ ac_state' = "WAIT_STORE"
      /\ data_req' = WriteAt(CAddr(run, row, col), Scaled(acc, run))
      /\ UNCHANGED <<run, row, col, k_chunk, start_mem>>
  BY DEF Store, Ask, loopVars
<1>2. run = config /\ OwnRunRight
  BY DEF RunIInv, OwnRun
<1>3. row \in Rows(config) /\ col \in Cols(config) /\ k_chunk \in ChunkNos(config)
  BY <1>1, <1>2 DEF OwnRunRight, LoopsInRange
<1>4. PICK a, w : a = CAddr(config, row, col) /\ w = ThisCell
  OBVIOUS
<1>5. Serving.valid => Serving = WriteAt(a, w)
  BY <1>1, <1>2, <1>4, NewRequest DEF WaitStates, OwnRunRight, SumRight
<1>6. /\ amem' = IF data_resp'.valid THEN [amem EXCEPT ![a] = w] ELSE amem
      /\ mem_work'.valid => mem_work' = WriteAt(a, w)
  BY <1>5, WriteMem
<1>7. \A r \in Rows(config), c \in Cols(config) :
         IsStored(r, c)' <=> IsStored(r, c) \/ (data_resp'.valid /\ r = row /\ c = col)
  BY <1>1 DEF IsStored
<1>8. StoredRight'
  BY <1>1, <1>3, <1>4, <1>6, <1>7, StoredOneMore
<1>9. OperandsRight'
  BY <1>1 DEF OperandsRight
<1>10. SumRight'
  BY <1>1, <1>4, <1>6 DEF SumRight, ThisCell
<1> QED
  BY <1>1, <1>3, <1>8, <1>9, <1>10 DEF OwnRunRight, LoopsInRange

LEMMA WaitStoreStep ==
    ASSUME RunIInv, OneRequest, OwnRun, UNCHANGED config, MemAnswers \/ MemWaits, WaitStore
    PROVE  OwnRunRight'
<1>1. /\ ac_state = "WAIT_STORE"
      /\ ac_state' = IF data_resp.valid THEN "NEXT_IJ" ELSE "WAIT_STORE"
      /\ ~data_req'.valid
      /\ UNCHANGED <<run, row, col, k_chunk, start_mem>>
  BY DEF WaitStore, Wait, loopVars, NoDataReq
<1>2. run = config /\ OwnRunRight
  BY DEF RunIInv, OwnRun
<1>3. row \in Rows(config) /\ col \in Cols(config) /\ k_chunk \in ChunkNos(config)
  BY <1>1, <1>2 DEF OwnRunRight, LoopsInRange
<1>4. PICK a, w : a = CAddr(config, row, col) /\ w = ThisCell
  OBVIOUS
<1>5. Serving.valid => Serving = WriteAt(a, w) /\ ~data_resp.valid
  BY <1>1, <1>2, <1>4, OldRequest DEF OneRequest, OwnRunRight, SumRight
<1>6. /\ amem' = IF data_resp'.valid THEN [amem EXCEPT ![a] = w] ELSE amem
      /\ mem_work'.valid => mem_work' = WriteAt(a, w)
      /\ data_resp.valid => ~data_resp'.valid
  BY <1>5, WriteMem, QuietMem
<1>7. \A r \in Rows(config), c \in Cols(config) :
         IsStored(r, c)' <=> IsStored(r, c) \/ (data_resp'.valid /\ r = row /\ c = col)
  BY <1>1, <1>6 DEF IsStored
<1>8. StoredRight'
  BY <1>1, <1>3, <1>4, <1>6, <1>7, StoredOneMore
<1>9. OperandsRight'
  BY <1>1 DEF OperandsRight
<1>10. SumRight'
  BY <1>1, <1>4, <1>6 DEF SumRight, ThisCell
<1> QED
  BY <1>1, <1>3, <1>8, <1>9, <1>10 DEF OwnRunRight, LoopsInRange

(* NEXT_IJ passes on to the next cell of the row, to the next row, or out. *)
LEMMA NextIJStep ==
    ASSUME RunIInv, OneRequest, OwnRun, UNCHANGED config, MemAnswers \/ MemWaits, NextIJ
    PROVE  OwnRunRight'
<1>1. /\ ac_state = "NEXT_IJ"
      /\ acc' = 0 /\ k_chunk' = 0
      /\ col' = IF LastCol THEN 0 ELSE col + 1
      /\ row' = IF LastCol /\ ~LastRow THEN row + 1 ELSE row
      /\ ac_state' = IF LastCol /\ LastRow THEN "DONE_SET" ELSE "LOAD_A"
      /\ ~data_req'.valid
      /\ UNCHANGED <<run, start_mem>>
  BY DEF NextIJ, NoDataReq
<1>2. run = config /\ OwnRunRight
  BY DEF RunIInv, OwnRun
<1>3. row \in Rows(config) /\ col \in Cols(config)
  BY <1>1, <1>2 DEF OwnRunRight, LoopsInRange
<1>4. PICK mm \in Int, nn \in Int :
         mm = config[M_REG] /\ nn = config[N_REG] /\ mm >= 1 /\ nn >= 1
  BY OwnFacts
<1>5. Rows(config) = 0 .. mm - 1 /\ Cols(config) = 0 .. nn - 1
  BY <1>4 DEF Rows, Cols
<1>6. (LastCol <=> col + 1 >= nn) /\ (LastRow <=> row + 1 >= mm)
  BY <1>2, <1>4 DEF LastCol, LastRow
<1>7. amem' = amem
  BY <1>1, QuietMem, OldRequest DEF OneRequest, WaitStates
<1>8. \A r \in Rows(config), c \in Cols(config) :
         IsStored(r, c) <=> r < row \/ (r = row /\ c <= col)
  BY <1>1, <1>3, <1>5 DEF IsStored
<1>9. \A r \in Rows(config), c \in Cols(config) : IsStored(r, c)' <=> IsStored(r, c)
  <2>1. CASE ~LastCol
    <3>1. ac_state' = "LOAD_A" /\ row' = row /\ col' = col + 1
      BY <1>1, <2>1
    <3>2. \A r \in Rows(config), c \in Cols(config) :
             IsStored(r, c)' <=> r < row \/ (r = row /\ c < col + 1)
      BY <3>1 DEF IsStored
    <3> QED
      BY <1>3, <1>5, <1>8, <3>2
  <2>2. CASE LastCol /\ ~LastRow
    <3>1. ac_state' = "LOAD_A" /\ row' = row + 1 /\ col' = 0
      BY <1>1, <2>2
    <3>2. \A r \in Rows(config), c \in Cols(config) :
             IsStored(r, c)' <=> r < row + 1 \/ (r = row + 1 /\ c < 0)
      BY <3>1 DEF IsStored
    <3> QED
      BY <1>3, <1>5, <1>6, <1>8, <2>2, <3>2
  <2>3. CASE LastCol /\ LastRow
    <3>1. \A r \in Rows(config), c \in Cols(config) : IsStored(r, c)'
      BY <1>1, <2>3 DEF IsStored
    <3> QED
      BY <1>3, <1>5, <1>6, <1>8, <2>3, <3>1
  <2> QED
    BY <2>1, <2>2, <2>3
<1>10. StoredRight'
  BY <1>1, <1>2, <1>7, <1>9, StoredSame DEF OwnRunRight
<1>11. LoopsInRange'
  <2>1. CASE LastCol /\ LastRow
    BY <1>1, <2>1 DEF LoopsInRange
  <2>2. CASE ~(LastCol /\ LastRow)
    <3>1. row' \in 0 .. mm - 1 /\ col' \in 0 .. nn - 1
      BY <1>1, <1>3, <1>4, <1>5, <1>6, <2>2
    <3>2. 0 \in ChunkNos(config)
      BY OwnFacts DEF ChunkNos
    <3> QED
      BY <1>1, <1>5, <3>1, <3>2 DEF LoopsInRange
  <2> QED
    BY <2>1, <2>2
<1>12. OperandsRight'
  BY <1>1 DEF OperandsRight
<1>13. SumRight'
  <2>1. PICK m, cfg, r, c : m = start_mem' /\ cfg = config' /\ r = row' /\ c = col'
    OBVIOUS
  <2>2. Sums(m, cfg, r, c)[0] = 0
    BY <2>1, OwnFacts, SumsStep
  <2>3. acc' = Sums(start_mem', config', row', col')[k_chunk']
    BY <1>1, <2>1, <2>2
  <2> QED
    BY <1>1, <2>3 DEF SumRight
<1> QED
  BY <1>10, <1>11, <1>12, <1>13 DEF OwnRunRight

(* DONE_SET and IDLE leave everything as it is. *)
LEMMA RestStep ==
    ASSUME RunIInv, OneRequest, OwnRun, UNCHANGED config, MemAnswers \/ MemWaits,
           NEW wr, Idle(wr) \/ DoneSet(wr)
    PROVE  OwnRunRight'
<1>1. /\ ac_state \in {"IDLE", "DONE_SET"} /\ ac_state' = "IDLE"
      /\ ~data_req'.valid
      /\ UNCHANGED start_mem
  BY DEF Idle, DoneSet, NoDataReq
<1>2. OwnRunRight
  BY DEF RunIInv
<1>3. amem' = amem
  BY <1>1, QuietMem, OldRequest DEF OneRequest, WaitStates
<1>4. \A r \in Rows(config), c \in Cols(config) : IsStored(r, c)' <=> IsStored(r, c)
  BY <1>1 DEF IsStored
<1>5. StoredRight'
  BY <1>1, <1>2, <1>3, <1>4, StoredSame DEF OwnRunRight
<1> QED
  BY <1>1, <1>5 DEF OwnRunRight, LoopsInRange, OperandsRight, SumRight

(* START takes the memory as it is, and no cell is stored yet. *)
LEMMA StartStep ==
    ASSUME RunIInv, OneRequest, UNCHANGED config, MemAnswers \/ MemWaits,
           NEW wr, Start(wr), OwnRun'
    PROVE  OwnRunRight'
<1>1. /\ ac_state = "IDLE" /\ ac_state' = "LOAD_A"
      /\ row' = 0 /\ col' = 0 /\ k_chunk' = 0 /\ acc' = 0
      /\ ~data_req'.valid
      /\ start_mem' = amem
  BY DEF Start, NoDataReq
<1>2. amem' = amem
  BY <1>1, QuietMem, OldRequest DEF OneRequest, WaitStates
<1>3. PICK s : s = amem
  OBVIOUS
<1>4. \E m \in InitialMem : s = [a \in DOMAIN m |-> s[a]]
  BY <1>3 DEF RunIInv, MemKept
<1>5. /\ config[N_REG] >= 1 /\ config[M_REG] >= 1
      /\ config[N_REG] \in Int /\ config[M_REG] \in Int
      /\ Chunks(config) \in Nat \ {0}
      /\ s = [a \in DOMAIN s |-> s[a]]
  BY <1>4, FitFacts
<1>6. 0 \in Rows(config) /\ 0 \in Cols(config) /\ 0 \in ChunkNos(config)
  BY <1>5 DEF Rows, Cols, ChunkNos
<1>7. \A r \in Rows(config), c \in Cols(config) : ~IsStored(r, c)'
  BY <1>1, <1>5 DEF IsStored, Rows, Cols
<1>8. StoredRight'
  <2>1. \A a : ~Stored(a)'
    BY <1>7 DEF Stored
  <2> QED
    BY <1>1, <1>2, <1>3, <1>5, <2>1 DEF StoredRight
<1>9. SumRight'
  <2>1. PICK cfg : cfg = config
    OBVIOUS
  <2>2. Sums(s, cfg, 0, 0)[0] = 0
    BY <1>5, <2>1, SumsStep
  <2> QED
    BY <1>1, <1>3, <2>1, <2>2 DEF SumRight
<1> QED
  BY <1>1, <1>6, <1>8, <1>9 DEF OwnRunRight, LoopsInRange, OperandsRight

(* No step makes the memory larger or smaller. *)
LEMMA MemKeptStep ==
    ASSUME MemKept, MemAnswers \/ MemWaits
    PROVE  MemKept'
<1>1. PICK m \in InitialMem : amem = [a \in DOMAIN m |-> amem[a]]
  BY DEF MemKept
<1>2. PICK s : s = Serving
  OBVIOUS
<1>3. amem' = amem \/ amem' = [amem EXCEPT ![s.addr] = s.data]
  BY <1>2 DEF MemAnswers, MemWaits
<1>4. amem' = [a \in DOMAIN m |-> amem'[a]]
  BY <1>1, <1>3
<1> QED
  BY <1>4 DEF MemKept

LEMMA RunStep ==
    ASSUME RunIInv, OneRequest, BusyIsInflight, MmioTick
    PROVE  RunIInv'
<1> DEFINE wr == CtrlWrite
<1>1. AccelTick(wr) /\ UNCHANGED config
  BY DEF MmioTick
<1> HIDE DEF wr
<1>2. MemAnswers \/ MemWaits
  BY <1>1 DEF AccelTick
<1>3. config' \in Configs
  BY <1>1 DEF RunIInv
<1>4. MemKept'
  BY <1>2, MemKeptStep DEF RunIInv
<1>5. CASE Start(wr)
  <2>1. start_mem' = amem
    BY <1>5 DEF Start
  <2>2. StartMemKept'
    BY <2>1 DEF RunIInv, MemKept, StartMemKept
  <2>3. OwnRun' => OwnRunRight'
    BY <1>1, <1>2, <1>5, StartStep
  <2> QED
    BY <1>3, <1>4, <2>2, <2>3 DEF RunIInv
<1>6. CASE ~Start(wr)
  <2>1. UNCHANGED <<start_mem, run>>
    BY <1>1, <1>6 DEF AccelTick, Idle, LoadA, LoadB, Store, Ask, WaitA, WaitB, WaitStore,
                      Wait, Mac, NextIJ, DoneSet
  <2>2. (ac_state # "IDLE" \/ reg_done)' => ac_state # "IDLE" \/ reg_done
    <3>1. CASE Idle(wr)
      BY <3>1 DEF Idle
    <3>2. CASE ~Idle(wr)
      BY <1>1, <1>6, <3>2 DEF AccelTick, LoadA, LoadB, Store, Ask, WaitA, WaitB,
                              WaitStore, Wait, Mac, NextIJ, DoneSet
    <3> QED
      BY <3>1, <3>2
  <2>3. StartMemKept'
    BY <2>1, <2>2 DEF RunIInv, StartMemKept
  <2>4. OwnRun' => OwnRun
    BY <1>1, <2>1, <2>2 DEF OwnRun
  <2>5. OwnRun => OwnRunRight'
    BY <1>1, <1>2, <1>6, LoadAStep, LoadBStep, WaitAStep, WaitBStep, MacStep, StoreStep,
       WaitStoreStep, NextIJStep, RestStep DEF AccelTick
  <2> QED
    BY <1>3, <1>4, <2>3, <2>4, <2>5 DEF RunIInv
<1> QED
  BY <1>5, <1>6

LEMMA RunIInvHolds == MmioSpec => []RunIInv
<1>1. MmioInit => RunIInv
  <2> SUFFICES ASSUME MmioInit
               PROVE  RunIInv
    OBVIOUS
  <2>1. config \in Configs /\ amem \in InitialMem /\ ac_state = "IDLE" /\ ~reg_done
    BY DEF MmioInit, AccelInit
  <2>2. amem = [a \in DOMAIN amem |-> amem[a]]
    BY <2>1, MemAssumption
  <2> QED
    BY <2>1, <2>2 DEF RunIInv, MemKept, StartMemKept, OwnRun
<1>2. RunIInv /\ MmioIInv /\ [MmioTick]_mmioVars => RunIInv'
  <2>1. RunIInv /\ MmioIInv /\ MmioTick => RunIInv'
    BY RunStep DEF MmioIInv
  <2>2. RunIInv /\ UNCHANGED mmioVars => RunIInv'
    BY DEF mmioVars, accelVars, loopVars, RunIInv, MemKept, StartMemKept, OwnRun, OwnRunRight,
           LoopsInRange, OperandsRight, AWord, BWord, SumRight, ThisCell, StoredRight,
           Stored, IsStored
  <2> QED
    BY <2>1, <2>2
<1> QED
  BY <1>1, <1>2, MmioIInvHolds, PTL DEF MmioSpec

(* A thread that reads DONE finds in memory the product that the last      *)
(* heeded START should make of it, all of C and nothing else changed, for  *)
(* matrices of every size: no later write to a register, no START that is  *)
(* not heeded and no delay of the memory can spoil a run.                  *)
THEOREM DoneIsAfterTheProduct == MmioSpec => []DoneMeansProduct
<1>1. RunIInv /\ MmioIInv => DoneMeansProduct
  <2> SUFFICES ASSUME RunIInv, MmioIInv, reg_done, run = config
               PROVE  amem = Product(start_mem, config)
    BY DEF DoneMeansProduct
  <2>1. ac_state = "IDLE" /\ OwnRun
    BY DEF MmioIInv, BusyIsInflight, OwnRun
  <2>2. StoredRight
    BY <2>1 DEF RunIInv, OwnRunRight
  <2>3. \A a : Stored(a) <=> a \in CRegion(config)
    BY <2>1 DEF Stored, IsStored, CRegion
  <2>4. PICK s, cfg : s = start_mem /\ cfg = config
    OBVIOUS
  <2>5. \A a \in DOMAIN s : a \notin CRegion(cfg) => Product(s, cfg)[a] = s[a]
    BY DEF Product
  <2>6. Product(s, cfg) = [a \in DOMAIN s |-> Product(s, cfg)[a]]
    BY DEF Product
  <2> QED
    BY <2>2, <2>3, <2>4, <2>5, <2>6 DEF StoredRight
<1> QED
  BY <1>1, RunIInvHolds, MmioIInvHolds, PTL

(* Not even while it runs does the accelerator change a word outside C,    *)
(* and so none of A and B that it has yet to read.                         *)
OnlyCIsWritten ==
    OwnRun => \A a \in DOMAIN start_mem \ CRegion(config) : amem[a] = start_mem[a]

(* At every moment of a run with the kernel's parameters, the words that   *)
(* the stores of C have no business with are those that START found.       *)
THEOREM AccelWritesOnlyC == MmioSpec => []OnlyCIsWritten
<1>1. RunIInv => OnlyCIsWritten
  BY OperandsKept DEF RunIInv, OnlyCIsWritten, OwnRunRight
<1> QED
  BY <1>1, RunIInvHolds, PTL

================================================================================
