------------------------------- MODULE LaunchProof -------------------------------
(***************************************************************************)
(* The dispatcher and the launch sequence, for every number of cores and   *)
(* every bound on the grid.                                                *)
(***************************************************************************)
EXTENDS Launch, FiniteSetTheorems, TLAPS

--------------------------------------------------------------------------------
(* Placement: what the loop over the free cores in dispatcher.sv computes. *)

(* Sets of cores are finite. *)
LEMMA CoresFinite ==
    ASSUME NEW S \in SUBSET Cores
    PROVE  IsFiniteSet(S) /\ Cardinality(S) \in Nat
<1>1. IsFiniteSet(Cores)
  BY FS_Interval, NumCoresAssumption DEF Cores
<1>2. IsFiniteSet(S)
  BY <1>1, FS_Subset
<1> QED
  BY <1>2, FS_CardinalityType

(* The places of the free cores are the numbers from 0 on, in the order of *)
(* the cores, each taken once.                                             *)
LEMMA PlaceRanks ==
    ASSUME NEW free \in SUBSET Cores
    PROVE  /\ \A c \in free : Place(c, free) \in 0 .. Cardinality(free) - 1
           /\ \A c, d \in free : c # d => Place(c, free) # Place(d, free)
           /\ \A i \in 0 .. Cardinality(free) - 1 : \E c \in free : Place(c, free) = i
<1> DEFINE Under(c) == {k \in free : k < c}
           n == Cardinality(free)
           f == [c \in free |-> Place(c, free)]
<1>1. IsFiniteSet(free) /\ n \in Nat
  BY CoresFinite
<1>2. ASSUME NEW c \in free
      PROVE  IsFiniteSet(Under(c)) /\ Cardinality(Under(c)) \in Nat /\ Place(c, free) = Cardinality(Under(c))
  BY CoresFinite DEF Place
<1>3. ASSUME NEW c \in free
      PROVE  Place(c, free) \in 0 .. n - 1
  <2>1. c \notin Under(c) /\ Under(c) \subseteq free
    BY NumCoresAssumption DEF Cores
  <2>2. Cardinality(Under(c)) <= n /\ Cardinality(Under(c)) # n
    BY <1>1, <2>1, FS_Subset
  <2> QED
    BY <1>1, <1>2, <2>2
<1>4. ASSUME NEW c \in free, NEW d \in free, c < d
      PROVE  Place(c, free) < Place(d, free)
  <2>1. Under(c) \subseteq Under(d) /\ c \in Under(d) /\ c \notin Under(c)
    <3>1. free \subseteq Int
      BY NumCoresAssumption DEF Cores
    <3>2. \A k \in free : k < c => k < d
      BY <1>4, <3>1
    <3>3. ~ (c < c)
      BY <3>1
    <3> QED
      BY <1>4, <3>2, <3>3
  <2>2. Cardinality(Under(c)) <= Cardinality(Under(d)) /\ Cardinality(Under(c)) # Cardinality(Under(d))
    BY <1>2, <2>1, FS_Subset
  <2> QED
    BY <1>2, <2>2
<1>5. ASSUME NEW c \in free, NEW d \in free, c # d
      PROVE  Place(c, free) # Place(d, free)
  <2>1. c < d \/ d < c
    BY <1>5, NumCoresAssumption DEF Cores
  <2> QED
    BY <2>1, <1>3, <1>4, <1>1
<1>6. f \in Injection(free, 0 .. n - 1)
  BY <1>3, <1>5 DEF Injection, IsInjective
<1>7. IsFiniteSet(0 .. n - 1) /\ Cardinality(0 .. n - 1) = n
  BY <1>1, FS_Interval
<1>8. f \in Surjection(free, 0 .. n - 1)
  BY <1>6, <1>7, FS_Injection
<1>9. ASSUME NEW i \in 0 .. n - 1
      PROVE  \E c \in free : Place(c, free) = i
  BY <1>8 DEF Surjection
<1> QED
  BY <1>3, <1>5, <1>9

(* The cores in new get the next blocks of a grid of num blocks: each      *)
(* block goes to one core, none is skipped, and a free core stays without  *)
(* a block only when there are no more.                                    *)
TakesTheNext(new, free, next, num) ==
    /\ new \subseteq free
    /\ Cardinality(new) \in Nat
    /\ next + Cardinality(new) <= num
    /\ new # free => next + Cardinality(new) = num
    /\ \A c \in new : next + Place(c, free) \in next .. next + Cardinality(new) - 1
    /\ \A c, d \in new : c # d => next + Place(c, free) # next + Place(d, free)
    /\ \A b \in next .. next + Cardinality(new) - 1 : \E c \in new : next + Place(c, free) = b

(* That is what the dispatcher's assignment to all free cores in one cycle *)
(* comes to.                                                               *)
LEMMA AssignedTakesTheNext ==
    ASSUME NEW free \in SUBSET Cores, NEW next \in Nat, NEW num \in Nat, next <= num
    PROVE  TakesTheNext(Assigned(free, next, num), free, next, num)
<1> DEFINE new == Assigned(free, next, num)
           n == Cardinality(free)
           m == IF num - next <= n THEN num - next ELSE n
           f == [c \in new |-> Place(c, free)]
<1>1. n \in Nat /\ m \in Nat /\ m <= n /\ next + m <= num /\ (m = n \/ next + m = num)
  BY CoresFinite
<1>2. new \subseteq free
  BY DEF Assigned
<1>3. IsFiniteSet(new) /\ Cardinality(new) \in Nat
  BY <1>2, CoresFinite
<1>4. \A c \in free : Place(c, free) \in 0 .. n - 1
  BY PlaceRanks
<1>5. \A c \in free : c \in new <=> Place(c, free) < m
  BY <1>1, <1>4 DEF Assigned
<1> HIDE DEF m, n, new
<1>6. \A c, d \in new : c # d => Place(c, free) # Place(d, free)
  BY <1>2, PlaceRanks
<1>7. f \in Injection(new, 0 .. m - 1)
  BY <1>1, <1>2, <1>4, <1>5, <1>6 DEF Injection, IsInjective
<1>8. \A i \in 0 .. m - 1 : \E c \in new : Place(c, free) = i
  <2> SUFFICES ASSUME NEW i \in 0 .. m - 1
               PROVE  \E c \in new : Place(c, free) = i
    OBVIOUS
  <2>1. PICK c \in free : Place(c, free) = i
    BY <1>1, PlaceRanks DEF n
  <2>2. Place(c, free) < m
    BY <2>1, <1>1
  <2> QED
    BY <2>1, <2>2, <1>5
<1>9. f \in Surjection(new, 0 .. m - 1)
  BY <1>7, <1>8 DEF Surjection, Injection
<1>10. Cardinality(new) = m
  <2>1. IsFiniteSet(0 .. m - 1) /\ Cardinality(0 .. m - 1) = m
    <3>1. 0 \in Int /\ m - 1 \in Int
      BY <1>1
    <3>2. IsFiniteSet(0 .. m - 1) /\ Cardinality(0 .. m - 1) = IF 0 > m - 1 THEN 0 ELSE m - 1 - 0 + 1
      BY <3>1, FS_Interval
    <3> QED
      BY <1>1, <3>2
  <2> QED
    BY <2>1, <1>7, <1>9, FS_Injection
<1>11. new # free => next + m = num
  <2> SUFFICES ASSUME new # free, m = n
               PROVE  FALSE
    BY <1>1
  <2>1. PICK c \in free : c \notin new
    BY <1>2
  <2>2. Place(c, free) < m
    BY <1>1, <1>4
  <2> QED
    BY <2>1, <2>2, <1>5
<1>12. \A c \in new : Place(c, free) \in 0 .. m - 1
  BY <1>1, <1>2, <1>4, <1>5
<1>13. \A b \in next .. next + m - 1 : \E c \in new : next + Place(c, free) = b
  <2> SUFFICES ASSUME NEW b \in next .. next + m - 1
               PROVE  \E c \in new : next + Place(c, free) = b
    OBVIOUS
  <2>1. b - next \in 0 .. m - 1
    BY <1>1
  <2>2. PICK c \in new : Place(c, free) = b - next
    BY <2>1, <1>8
  <2> QED
    BY <2>2, <1>1
<1>14. \A c, d \in new : c # d => next + Place(c, free) # next + Place(d, free)
  BY <1>6, <1>12, <1>1
<1>15. \A c \in new : next + Place(c, free) \in next .. next + m - 1
  BY <1>12, <1>1
<1> QED
  BY <1>1, <1>2, <1>3, <1>10, <1>11, <1>13, <1>14, <1>15 DEF new, TakesTheNext

--------------------------------------------------------------------------------
(* The inductive invariant. *)

(* While a kernel runs, the blocks below next_block have been handed out,  *)
(* each assigned core holds one of its own, and a core is without a block  *)
(* only when the grid is used up.                                          *)
HandedOut ==
    running =>
        /\ num_blocks > 0 /\ grid = num_blocks /\ next_block <= num_blocks
        /\ \A c \in core_start : blockIdx_out[c] < next_block
        /\ core_start # Cores => next_block = num_blocks

(* A block that was handed out and that no core holds any more has run.    *)
HeldOrRun ==
    running =>
        \A b \in Blocks : b < next_block =>
            runs[b] >= 1 \/ \E c \in core_start : blockIdx_out[c] = b

(* An assigned core that is running has seen its own block number and no   *)
(* other, and one that says block_done has run its block: that is what the *)
(* dispatcher takes block_done for.                                        *)
RunsTrueToBlock ==
    /\ block_done \cap busy = {}
    /\ \A c \in core_start \cap busy : seen[c] = {blockIdx_out[c]}
    /\ \A c \in core_start \cap block_done : runs[blockIdx_out[c]] >= 1

(* kernel_done stands for a grid that is complete. *)
DoneIsComplete ==
    kernel_done =>
        /\ ~running /\ completed_blocks = grid
        /\ \A b \in Blocks : b < grid => runs[b] >= 1

(* What the host may rely on at each point of its sequence.  Between two   *)
(* kernels every core is idle and the cycle counter stands.  While it      *)
(* polls, either the kernel runs or kernel_done is up; the second start    *)
(* pulse of run_kernel can only find the kernel over if its grid is empty; *)
(* and the counter has been restarted, or that pulse is about to do it.    *)
HostSequence ==
    /\ ~running => core_start = {}
    /\ host \in {"setup", "started"} =>
          ~running /\ busy = {} /\ block_done = {} /\ ~kc_running
    /\ host = "setup" => ~start
    /\ host = "started" => start
    /\ host = "poll" =>
          /\ running \/ kernel_done
          /\ start /\ ~running => num_blocks = 0
          /\ grid > 0 => \/ kernel_cycles = "this"
                         \/ start /\ ~kc_running /\ ~kernel_done
    /\ host = "done" =>
          /\ kernel_done /\ ~start /\ ~kc_running
          /\ grid > 0 => kernel_cycles = "this"

LaunchIInv ==
    /\ LaunchTypeOK
    /\ BlocksAccounted
    /\ HandedOut
    /\ HeldOrRun
    /\ RunsTrueToBlock
    /\ DoneIsComplete
    /\ HostSequence

--------------------------------------------------------------------------------
(* What one clock edge does. *)

(* The first block still to be handed out, and the cores that get one.     *)
NextFrom(launch) == IF launch THEN 0 ELSE next_block
New(launch) == Assigned(Cores \ Still(launch, block_done), NextFrom(launch), num_blocks)
CompletedFrom(launch) == IF launch THEN 0 ELSE completed_blocks

(* The blocks handed out in a cycle, and where they go. *)
LEMMA NewBlocks ==
    ASSUME LaunchIInv, NEW launch \in BOOLEAN, launch \/ running,
           DispRun(launch, num_blocks, block_done)
    PROVE  /\ New(launch) \subseteq Cores \ Still(launch, block_done)
           /\ next_block' \in NextFrom(launch) .. num_blocks
           /\ next_block' = NextFrom(launch) + Cardinality(New(launch))
           /\ Still(launch, block_done) \cup New(launch) # Cores => next_block' = num_blocks
           /\ \A c \in New(launch) : /\ blockIdx_out'[c] \in Nat
                                    /\ NextFrom(launch) <= blockIdx_out'[c]
                                    /\ blockIdx_out'[c] < next_block'
           /\ \A c, d \in New(launch) : c # d => blockIdx_out'[c] # blockIdx_out'[d]
           /\ \A b \in Nat : NextFrom(launch) <= b /\ b < next_block' =>
                 \E c \in New(launch) : blockIdx_out'[c] = b
           /\ \A c \in Cores \ New(launch) :
                 blockIdx_out'[c] = IF launch THEN 0 ELSE blockIdx_out[c]
<1> DEFINE next == NextFrom(launch)
           free == Cores \ Still(launch, block_done)
           new == New(launch)
<1>1. free \in SUBSET Cores /\ next \in Nat /\ num_blocks \in Nat /\ next <= num_blocks
  BY DEF LaunchIInv, LaunchTypeOK, HandedOut, NextFrom
<1>2. new = Assigned(free, next, num_blocks)
  BY DEF New
<1> HIDE DEF next, free, new
<1>3. TakesTheNext(new, free, next, num_blocks)
  BY <1>1, <1>2, AssignedTakesTheNext
<1>4. /\ next_block' = next + Cardinality(new)
      /\ blockIdx_out' = [c \in Cores |-> IF c \in new THEN next + Place(c, free)
                                         ELSE IF launch THEN 0 ELSE blockIdx_out[c]]
  BY <1>2 DEF DispRun, next, free, NextFrom
<1>5. new \subseteq Cores
  BY <1>1, <1>3 DEF TakesTheNext
<1>6. Still(launch, block_done) \cup new # Cores => new # free
  BY DEF Still, free, LaunchIInv, LaunchTypeOK
<1>7. next_block' \in next .. num_blocks
  BY <1>1, <1>3, <1>4 DEF TakesTheNext
<1>8. /\ \A c \in new : blockIdx_out'[c] = next + Place(c, free)
      /\ \A c \in Cores \ new : blockIdx_out'[c] = IF launch THEN 0 ELSE blockIdx_out[c]
  BY <1>4, <1>5
<1>9. Still(launch, block_done) \cup new # Cores => next_block' = num_blocks
  BY <1>3, <1>4, <1>6 DEF TakesTheNext
<1>10. new \subseteq Cores \ Still(launch, block_done)
  BY <1>3 DEF free, TakesTheNext
<1>11. \A c, d \in new : c # d => blockIdx_out'[c] # blockIdx_out'[d]
  BY <1>3, <1>8 DEF TakesTheNext
<1>12. \A c \in new : /\ blockIdx_out'[c] \in Nat
                      /\ next <= blockIdx_out'[c]
                      /\ blockIdx_out'[c] < next_block'
  BY <1>1, <1>3, <1>4, <1>8 DEF TakesTheNext
<1>13. \A b \in Nat : next <= b /\ b < next_block' => \E c \in new : blockIdx_out'[c] = b
  <2> SUFFICES ASSUME NEW b \in Nat, next <= b, b < next_block'
               PROVE  \E c \in new : blockIdx_out'[c] = b
    OBVIOUS
  <2>1. b \in next .. next + Cardinality(new) - 1
    BY <1>1, <1>3, <1>4 DEF TakesTheNext
  <2> QED
    BY <2>1, <1>3, <1>8 DEF TakesTheNext
<1> QED
  BY <1>4, <1>7, <1>8, <1>9, <1>10, <1>11, <1>12, <1>13 DEF next, new

(* The count of completed blocks: with the blocks that are still held, it  *)
(* gives next_block also after a cycle in which several cores finish and   *)
(* several get new blocks.  So all blocks are complete only when no core   *)
(* holds one.                                                              *)
LEMMA CompletedBlocks ==
    ASSUME LaunchIInv, NEW launch \in BOOLEAN, launch \/ running, launch => ~running,
           DispRun(launch, num_blocks, block_done)
    PROVE  /\ core_start' = Still(launch, block_done) \cup New(launch)
           /\ completed_blocks' \in 0 .. next_block'
           /\ completed_blocks' + Cardinality(core_start') = next_block'
           /\ completed_blocks' = num_blocks => core_start' = {} /\ next_block' = num_blocks
           /\ running' <=> completed_blocks' # num_blocks
           /\ kernel_done' <=> completed_blocks' = num_blocks
<1> DEFINE still == Still(launch, block_done)
           fin == Finished(launch, block_done)
           new == New(launch)
           held == still \cup new
           over == completed_blocks' = num_blocks
<1>1. /\ next_block' \in Nat /\ next_block' <= num_blocks
      /\ next_block' = NextFrom(launch) + Cardinality(new)
      /\ new \subseteq Cores \ still
      /\ num_blocks \in Nat /\ NextFrom(launch) \in Nat
  <2>1. num_blocks \in Nat /\ NextFrom(launch) \in Nat
    BY DEF LaunchIInv, LaunchTypeOK, NextFrom
  <2> QED
    BY <2>1, NewBlocks
<1>2. still \subseteq Cores /\ fin \subseteq Cores /\ fin \subseteq core_start /\ still \subseteq core_start
  BY DEF LaunchIInv, LaunchTypeOK, Still, Finished
<1>3. /\ Cardinality(still) \in Nat /\ Cardinality(fin) \in Nat
      /\ Cardinality(new) \in Nat /\ Cardinality(held) \in Nat
      /\ IsFiniteSet(still) /\ IsFiniteSet(new) /\ IsFiniteSet(held) /\ IsFiniteSet(fin)
  BY <1>1, <1>2, CoresFinite
<1>4. completed_blocks' = CompletedFrom(launch) + Cardinality(fin) /\ CompletedFrom(launch) \in Nat
  BY DEF DispRun, CompletedFrom, LaunchIInv, LaunchTypeOK
<1>5. CompletedFrom(launch) + Cardinality(fin) + Cardinality(still) = NextFrom(launch)
  <2>1. CASE launch
    <3>1. fin = {} /\ still = {} /\ CompletedFrom(launch) = 0 /\ NextFrom(launch) = 0
      BY <2>1 DEF Finished, Still, CompletedFrom, NextFrom
    <3>2. Cardinality(fin) = 0 /\ Cardinality(still) = 0
      BY <3>1, FS_EmptySet
    <3> QED
      BY <3>1, <3>2
  <2>2. CASE ~launch
    <3>1. fin \cap still = {} /\ core_start = fin \cup still
      BY <2>2 DEF Finished, Still
    <3>2. Cardinality({}) = 0
      BY FS_EmptySet
    <3>3. Cardinality(fin \cup still) = Cardinality(fin) + Cardinality(still) - Cardinality(fin \cap still)
      BY <1>3, FS_Union
    <3>4. completed_blocks + Cardinality(core_start) = next_block
      BY <2>2 DEF LaunchIInv, BlocksAccounted
    <3> QED
      BY <2>2, <3>1, <3>2, <3>3, <3>4, <1>3, <1>4 DEF NextFrom, CompletedFrom
  <2> QED
    BY <2>1, <2>2
<1>6. Cardinality(held) = Cardinality(still) + Cardinality(new)
  <2>1. Cardinality(still \cap new) = 0
    <3>1. still \cap new = {}
      BY <1>1
    <3> QED
      BY <3>1, FS_EmptySet
  <2>2. Cardinality(held) = Cardinality(still) + Cardinality(new) - Cardinality(still \cap new)
    BY <1>3, FS_Union
  <2> QED
    BY <1>3, <2>1, <2>2
<1> HIDE DEF still, fin, new, held
<1>7. completed_blocks' \in 0 .. next_block' /\ completed_blocks' + Cardinality(held) = next_block'
  BY <1>1, <1>3, <1>4, <1>5, <1>6
<1>8. over => held = {} /\ next_block' = num_blocks
  <2> SUFFICES ASSUME over
               PROVE  held = {} /\ next_block' = num_blocks
    OBVIOUS
  <2>1. Cardinality(held) = 0 /\ next_block' = num_blocks
    BY <1>1, <1>3, <1>7
  <2> QED
    BY <2>1, <1>3, FS_EmptySet
<1>9. (Over(num_blocks) \/ Empty(launch, num_blocks)) <=> over
  <2>1. Over(num_blocks) <=> num_blocks > 0 /\ over
    BY <1>8 DEF Over
  <2>2. num_blocks = 0 => over
    BY <1>1, <1>7
  <2>3. num_blocks = 0 => launch
    BY DEF LaunchIInv, HandedOut
  <2> QED
    BY <1>1, <2>1, <2>2, <2>3 DEF Empty
<1>10. /\ running' = ~over
       /\ kernel_done' = (over \/ (~launch /\ kernel_done))
       /\ core_start' = IF over THEN {} ELSE held
  <2>1. /\ running' = ~(Over(num_blocks) \/ Empty(launch, num_blocks))
        /\ kernel_done' = ((Over(num_blocks) \/ Empty(launch, num_blocks)) \/ (~launch /\ kernel_done))
        /\ core_start' = IF Over(num_blocks) \/ Empty(launch, num_blocks) THEN {} ELSE held
    BY DEF DispRun, New, NextFrom, held, still, new
  <2> QED
    BY <2>1, <1>9
<1>11. ~launch => kernel_done = FALSE
  BY DEF LaunchIInv, DoneIsComplete, LaunchTypeOK
<1>12. core_start' = held
  BY <1>8, <1>10
<1> QED
  BY <1>7, <1>8, <1>10, <1>11, <1>12 DEF held, still, new

(* The host's part of a clock edge. *)
HostStep == HostTick \/ (busy = {} /\ NextKernel)

(* num_blocks does not change between the start pulse and the end of the   *)
(* kernel, and a launch finds every core idle and no block assigned.       *)
LEMMA HostLeavesGrid ==
    ASSUME LaunchIInv, HostStep
    PROVE  /\ running \/ start => num_blocks' = num_blocks
           /\ num_blocks' \in 0 .. MaxBlocks /\ start' \in BOOLEAN
           /\ host' \in {"setup", "started", "poll", "done"}
           /\ ~running => core_start = {}
           /\ Launches(start) /\ num_blocks > 0 =>
                 host = "started" /\ busy = {} /\ block_done = {}
<1> USE DEF WriteNothing, WriteNumBlocks, WriteStart
<1>1. running \/ start => host \in {"started", "poll"}
  BY DEF LaunchIInv, LaunchTypeOK, HostSequence, DoneIsComplete
<1>2. running \/ start => num_blocks' = num_blocks
  BY <1>1 DEF HostStep, HostTick, NextKernel
<1>3. num_blocks' \in 0 .. MaxBlocks /\ start' \in BOOLEAN
  BY DEF LaunchIInv, LaunchTypeOK, HostStep, HostTick, NextKernel
<1>4. host' \in {"setup", "started", "poll", "done"}
  BY DEF HostStep, HostTick, NextKernel, Poll
<1>5. ~running => core_start = {}
  BY DEF LaunchIInv, HostSequence
<1>6. Launches(start) /\ num_blocks > 0 => host = "started"
  <2>1. start /\ ~running /\ host = "poll" => num_blocks = 0
    BY DEF LaunchIInv, HostSequence
  <2>2. ~ (num_blocks = 0 /\ num_blocks > 0)
    OBVIOUS
  <2> QED
    BY <1>1, <2>1, <2>2 DEF Launches
<1>7. host = "started" => busy = {} /\ block_done = {}
  BY DEF LaunchIInv, HostSequence
<1> QED
  BY <1>2, <1>3, <1>4, <1>5, <1>6, <1>7

(* The cores' part: a core that says block_done was running and is idle    *)
(* now, and only an assigned core begins a run.                            *)
LEMMA CoresStep ==
    ASSUME CoreTick
    PROVE  /\ busy' \subseteq Cores /\ block_done' = busy \ busy'
           /\ \A c \in Cores : c \in busy' => c \in busy \/ c \in core_start
           /\ \A c \in Cores : c \in core_start /\ c \notin busy => c \in busy'
  BY DEF CoreTick, HandshakeStep, Begins

(* The counts of complete runs: without a launch none is lost, and a core  *)
(* that ends a run in which it saw one block alone has run that block.     *)
LEMMA RunsCount ==
    ASSUME LaunchIInv, CoreTick, NEW launch \in BOOLEAN, Observe(launch)
    PROVE  /\ runs' \in [Blocks -> Nat]
           /\ \A b \in Blocks : ~launch /\ runs[b] >= 1 => runs'[b] >= 1
           /\ \A b \in Blocks, c \in block_done' : ~launch /\ seen[c] = {b} => runs'[b] >= 1
<1> DEFINE ended(b) == {c \in block_done' : seen[c] = {b}}
<1>1. ASSUME NEW b \in Blocks
      PROVE  /\ Cardinality(ended(b)) \in Nat
             /\ ended(b) # {} => Cardinality(ended(b)) >= 1
  <2>1. ended(b) \subseteq Cores
    BY DEF CoreTick, LaunchIInv, LaunchTypeOK
  <2>2. IsFiniteSet(ended(b)) /\ Cardinality(ended(b)) \in Nat
    BY <2>1, CoresFinite
  <2>3. ended(b) # {} => Cardinality(ended(b)) # 0
    BY <2>2, FS_EmptySet
  <2> QED
    BY <2>2, <2>3
<1>2. runs' = [b \in Blocks |-> IF launch THEN 0 ELSE runs[b] + Cardinality(ended(b))]
  BY DEF Observe
<1>3. runs \in [Blocks -> Nat]
  BY DEF LaunchIInv, LaunchTypeOK
<1>4. ASSUME NEW b \in Blocks, NEW c \in block_done', seen[c] = {b}
      PROVE  ended(b) # {}
  BY <1>4
<1> HIDE DEF ended
<1> QED
  BY <1>1, <1>2, <1>3, <1>4

--------------------------------------------------------------------------------
(* The invariant is kept by every clock edge. *)

(* A launch clears the dispatcher and hands out the first blocks; or a     *)
(* kernel goes on; or the dispatcher stands still.                         *)
LEMMA EdgeCases ==
    ASSUME LaunchIInv, Edge
    PROVE  \E launch \in BOOLEAN :
              /\ launch = Launches(start) /\ (launch => ~running)
              /\ CycleTick(launch) /\ Observe(launch)
              /\ \/ (launch \/ running) /\ DispRun(launch, num_blocks, block_done)
                 \/ ~running /\ ~start /\ ~launch /\ UNCHANGED dispVars
<1>1. Launches(start) \in BOOLEAN /\ (Launches(start) => ~running)
  BY DEF LaunchIInv, LaunchTypeOK, Launches
<1>2. PICK launch \in BOOLEAN : launch = Launches(start)
  BY <1>1
<1>3. CycleTick(launch) /\ Observe(launch)
  BY <1>2 DEF Edge
<1>4. \/ (launch \/ running) /\ DispRun(launch, num_blocks, block_done)
      \/ ~running /\ ~start /\ ~launch /\ UNCHANGED dispVars
  <2>1. DispTick(start, num_blocks, block_done)
    BY DEF Edge
  <2>2. CASE running \/ start
    <3>1. DispRun(launch, num_blocks, block_done)
      BY <1>2, <2>1, <2>2 DEF DispTick
    <3> QED
      BY <3>1, <2>2, <1>2 DEF Launches
  <2>3. CASE ~(running \/ start)
    BY <1>2, <2>1, <2>3 DEF DispTick, Launches
  <2> QED
    BY <2>2, <2>3
<1> QED
  BY <1>1, <1>2, <1>3, <1>4

LEMMA EdgeAccounts ==
    ASSUME LaunchIInv, Edge
    PROVE  BlocksAccounted'
<1> SUFFICES ASSUME running'
             PROVE  /\ completed_blocks' + Cardinality(core_start') = next_block'
                    /\ \A c, d \in core_start' : c # d => blockIdx_out'[c] # blockIdx_out'[d]
  BY DEF BlocksAccounted
<1>1. PICK launch \in BOOLEAN :
         /\ launch \/ running
         /\ launch => ~running
         /\ DispRun(launch, num_blocks, block_done)
  <2>1. UNCHANGED dispVars => running' = running
    BY DEF dispVars
  <2> QED
    BY <2>1, EdgeCases
<1> DEFINE still == Still(launch, block_done)
           new == New(launch)
<1>2. core_start' = still \cup new /\ completed_blocks' + Cardinality(core_start') = next_block'
  BY <1>1, CompletedBlocks
<1>3. /\ new \subseteq Cores \ still
      /\ \A c \in new : blockIdx_out'[c] >= NextFrom(launch)
      /\ \A c, d \in new : c # d => blockIdx_out'[c] # blockIdx_out'[d]
      /\ \A c \in Cores \ new : blockIdx_out'[c] = IF launch THEN 0 ELSE blockIdx_out[c]
      /\ \A c \in new : blockIdx_out'[c] \in Nat
      /\ NextFrom(launch) \in Nat
  <2>1. NextFrom(launch) \in Nat
    BY DEF NextFrom, LaunchIInv, LaunchTypeOK
  <2> QED
    BY <1>1, <2>1, NewBlocks
<1>4. ASSUME NEW c \in still
      PROVE  /\ c \in core_start /\ c \in Cores /\ ~launch
             /\ blockIdx_out'[c] = blockIdx_out[c] /\ blockIdx_out'[c] \in Nat
             /\ blockIdx_out'[c] < NextFrom(launch)
  <2>1. c \in core_start /\ c \in Cores /\ ~launch
    BY <1>4 DEF Still, LaunchIInv, LaunchTypeOK
  <2>2. blockIdx_out'[c] = blockIdx_out[c] /\ blockIdx_out[c] \in Nat
    BY <1>3, <1>4, <2>1 DEF LaunchIInv, LaunchTypeOK, Blocks
  <2>3. blockIdx_out[c] < NextFrom(launch)
    BY <1>1, <2>1 DEF LaunchIInv, HandedOut, NextFrom
  <2> QED
    BY <2>1, <2>2, <2>3
<1>5. ASSUME NEW c \in core_start', NEW d \in core_start', c # d
      PROVE  blockIdx_out'[c] # blockIdx_out'[d]
  <2>1. CASE c \in still /\ d \in still
    <3>1. running /\ c \in core_start /\ d \in core_start
      BY <2>1, <1>4, <1>1
    <3> QED
      BY <3>1, <1>4, <1>5, <2>1 DEF LaunchIInv, BlocksAccounted
  <2>2. CASE c \in new /\ d \in new
    BY <2>2, <1>3, <1>5
  <2>3. CASE c \in still /\ d \in new
    <3>1. blockIdx_out'[d] >= NextFrom(launch) /\ blockIdx_out'[c] < NextFrom(launch)
      BY <2>3, <1>3, <1>4
    <3> QED
      BY <3>1, <1>3, <1>4, <2>3
  <2>4. CASE c \in new /\ d \in still
    <3>1. blockIdx_out'[c] >= NextFrom(launch) /\ blockIdx_out'[d] < NextFrom(launch)
      BY <2>4, <1>3, <1>4
    <3> QED
      BY <3>1, <1>3, <1>4, <2>4
  <2> QED
    BY <1>2, <2>1, <2>2, <2>3, <2>4
<1> QED
  BY <1>2, <1>5

(* A core that is assigned after the edge and was running before it held   *)
(* the same block already: no new block is handed to a core in the middle  *)
(* of a run, not even to one that runs a block of its own accord.          *)
LEMMA AssignedWhileRunning ==
    ASSUME LaunchIInv, Edge, HostStep, NEW c \in core_start', c \in busy
    PROVE  /\ ~Launches(start) /\ c \in core_start /\ c \in Cores
           /\ blockIdx_out'[c] = blockIdx_out[c]
           /\ seen[c] = {blockIdx_out[c]}
<1>1. PICK launch \in BOOLEAN :
         /\ launch = Launches(start) /\ (launch => ~running)
         /\ \/ (launch \/ running) /\ DispRun(launch, num_blocks, block_done)
            \/ ~running /\ ~launch /\ UNCHANGED dispVars
  BY EdgeCases
<1>2. running \/ launch
  <2>1. ~running => core_start = {}
    BY HostLeavesGrid
  <2> QED
    BY <1>1, <2>1 DEF dispVars
<1>3. DispRun(launch, num_blocks, block_done)
  BY <1>1, <1>2
<1>4. c \notin block_done /\ c \in Cores /\ busy # {} /\ num_blocks \in Nat
  BY DEF LaunchIInv, RunsTrueToBlock, LaunchTypeOK
<1>5. ~launch
  <2> SUFFICES ASSUME launch
               PROVE  FALSE
    OBVIOUS
  <2>1. ~(num_blocks > 0)
    BY <1>1, <1>4, HostLeavesGrid
  <2>2. next_block' \in 0 .. num_blocks
    BY <1>1, <1>3, NewBlocks DEF NextFrom
  <2>3. completed_blocks' \in 0 .. next_block'
    BY <1>1, <1>3, CompletedBlocks
  <2>4. completed_blocks' = num_blocks
    BY <1>4, <2>1, <2>2, <2>3
  <2> QED
    BY <1>1, <1>3, <2>4, CompletedBlocks
<1>6. c \in core_start
  <2> SUFFICES ASSUME c \notin core_start
               PROVE  FALSE
    OBVIOUS
  <2>1. next_block = num_blocks /\ NextFrom(launch) = next_block
    BY <1>2, <1>4, <1>5 DEF LaunchIInv, HandedOut, NextFrom
  <2>2. c \in New(launch)
    <3>1. c \notin Still(launch, block_done)
      BY <1>5 DEF Still
    <3> QED
      BY <3>1, <1>2, <1>1, <1>3, CompletedBlocks
  <2>3. /\ blockIdx_out'[c] \in Nat /\ next_block <= blockIdx_out'[c] /\ blockIdx_out'[c] < next_block'
        /\ next_block' \in next_block .. num_blocks
    <3>1. /\ next_block' \in NextFrom(launch) .. num_blocks
          /\ \A d \in New(launch) : /\ blockIdx_out'[d] \in Nat
                                   /\ NextFrom(launch) <= blockIdx_out'[d]
                                   /\ blockIdx_out'[d] < next_block'
      BY <1>2, <1>3, NewBlocks
    <3> HIDE <1>1, <1>2, <1>3
    <3> QED
      BY <3>1, <2>1, <2>2
  <2> QED
    BY <1>4, <2>1, <2>3
<1>7. blockIdx_out'[c] = blockIdx_out[c]
  <2>1. c \in Still(launch, block_done)
    BY <1>4, <1>5, <1>6 DEF Still, Finished
  <2>2. c \notin New(launch)
    BY <1>2, <1>3, <2>1, NewBlocks
  <2> QED
    BY <1>2, <1>3, <1>4, <1>5, <2>2, NewBlocks
<1>8. seen[c] = {blockIdx_out[c]}
  BY <1>6 DEF LaunchIInv, RunsTrueToBlock
<1> QED
  BY <1>1, <1>4, <1>5, <1>6, <1>7, <1>8

LEMMA EdgeRunsTrue ==
    ASSUME LaunchIInv, Edge, HostStep
    PROVE  RunsTrueToBlock'
<1>1. CoreTick /\ Observe(Launches(start))
  BY DEF Edge
<1>2. busy' \subseteq Cores /\ block_done' = busy \ busy'
  BY <1>1, CoresStep
<1>3. ASSUME NEW c \in core_start', c \in busy'
      PROVE  seen'[c] = {blockIdx_out'[c]}
  <2>1. seen'[c] = {blockIdx_out'[c]} \cup (IF c \in busy THEN seen[c] ELSE {})
                   \cup (IF Launches(start) /\ c \in busy THEN {Former} ELSE {})
    BY <1>1, <1>2, <1>3 DEF Observe
  <2>2. CASE c \in busy
    BY <2>1, <2>2, AssignedWhileRunning
  <2>3. CASE c \notin busy
    BY <2>1, <2>3
  <2> QED
    BY <2>2, <2>3
<1>4. ASSUME NEW c \in core_start', c \in block_done'
      PROVE  runs'[blockIdx_out'[c]] >= 1
  <2>1. c \in busy
    BY <1>2, <1>4
  <2>2. /\ ~Launches(start) /\ blockIdx_out'[c] = blockIdx_out[c]
        /\ seen[c] = {blockIdx_out[c]} /\ c \in Cores
    BY <2>1, AssignedWhileRunning
  <2>3. blockIdx_out[c] \in Blocks
    BY <2>2 DEF LaunchIInv, LaunchTypeOK
  <2>4. PICK launch \in BOOLEAN : launch = FALSE
    OBVIOUS
  <2>5. Observe(launch) /\ ~launch
    BY <1>1, <2>2, <2>4 DEF Observe
  <2> QED
    BY <1>1, <1>4, <2>2, <2>3, <2>5, RunsCount
<1> QED
  BY <1>2, <1>3, <1>4 DEF RunsTrueToBlock

(* Every block below next_block is held or has run, also after an edge     *)
(* that hands out blocks and takes finished ones back.                     *)
LEMMA EdgeHeldOrRun ==
    ASSUME LaunchIInv, CoreTick, NEW launch \in BOOLEAN, Observe(launch),
           launch \/ running, launch => ~running,
           DispRun(launch, num_blocks, block_done),
           NEW b \in Blocks, b < next_block'
    PROVE  runs'[b] >= 1 \/ \E c \in core_start' : blockIdx_out'[c] = b
<1> DEFINE next == NextFrom(launch)
<1>1. next \in Nat /\ b \in Nat /\ next_block' \in Nat
  <2>1. next \in Nat /\ b \in Nat /\ num_blocks \in Nat
    BY DEF LaunchIInv, LaunchTypeOK, NextFrom, Blocks
  <2> QED
    BY <2>1, NewBlocks
<1>2. core_start' = Still(launch, block_done) \cup New(launch)
  BY CompletedBlocks
<1> HIDE DEF next
<1>3. CASE b >= next
  <2>1. b \in Nat /\ next <= b
    BY <1>1, <1>3
  <2>2. \E c \in New(launch) : blockIdx_out'[c] = b
    BY <2>1, NewBlocks DEF next
  <2> QED
    BY <1>2, <2>2
<1>4. CASE b < next
  <2>1. ~launch /\ running /\ next = next_block
    BY <1>1, <1>4 DEF next, NextFrom
  <2>2. runs[b] >= 1 \/ \E c \in core_start : blockIdx_out[c] = b
    BY <1>4, <2>1 DEF LaunchIInv, HeldOrRun
  <2>3. CASE runs[b] >= 1
    BY <2>1, <2>3, RunsCount
  <2>4. ASSUME NEW c \in core_start, blockIdx_out[c] = b
        PROVE  runs'[b] >= 1 \/ (c \in core_start' /\ blockIdx_out'[c] = b)
    <3>1. CASE c \in block_done
      <4>1. runs[b] >= 1
        BY <2>4, <3>1 DEF LaunchIInv, RunsTrueToBlock
      <4> QED
        BY <4>1, <2>1, RunsCount
    <3>2. CASE c \notin block_done
      <4>1. c \in Still(launch, block_done) /\ c \in Cores
        BY <2>1, <3>2 DEF Still, Finished, LaunchIInv, LaunchTypeOK
      <4>2. c \notin New(launch)
        BY <4>1, NewBlocks
      <4>3. blockIdx_out'[c] = blockIdx_out[c]
        BY <2>1, <4>1, <4>2, NewBlocks
      <4> QED
        BY <1>2, <2>4, <4>1, <4>3
    <3> QED
      BY <3>1, <3>2
  <2> QED
    BY <2>2, <2>3, <2>4
<1> QED
  BY <1>1, <1>3, <1>4

LEMMA EdgeHandsOut ==
    ASSUME LaunchIInv, Edge, HostStep
    PROVE  HandedOut' /\ HeldOrRun' /\ DoneIsComplete'
<1>1. PICK launch \in BOOLEAN :
         /\ launch = Launches(start) /\ (launch => ~running) /\ Observe(launch)
         /\ \/ (launch \/ running) /\ DispRun(launch, num_blocks, block_done)
            \/ ~running /\ ~start /\ ~launch /\ UNCHANGED dispVars
  BY EdgeCases
<1>2. CoreTick
  BY DEF Edge
<1>3. CASE (launch \/ running) /\ DispRun(launch, num_blocks, block_done)
  <2>1. num_blocks' = num_blocks /\ num_blocks \in Nat /\ NextFrom(launch) \in Nat
    <3>1. running \/ start
      BY <1>1, <1>3 DEF Launches
    <3> QED
      BY <3>1, HostLeavesGrid DEF LaunchIInv, LaunchTypeOK, NextFrom
  <2>2. grid' = num_blocks
    BY <1>1, <1>3 DEF Observe, LaunchIInv, HandedOut
  <2>3. /\ core_start' = Still(launch, block_done) \cup New(launch)
        /\ completed_blocks' \in 0 .. next_block'
        /\ completed_blocks' = num_blocks => core_start' = {} /\ next_block' = num_blocks
        /\ running' <=> completed_blocks' # num_blocks
        /\ kernel_done' <=> completed_blocks' = num_blocks
    BY <1>1, <1>3, CompletedBlocks
  <2>4. next_block' \in NextFrom(launch) .. num_blocks
    BY <1>3, NewBlocks
  <2>5. \A b \in Blocks : b < next_block' =>
           runs'[b] >= 1 \/ \E c \in core_start' : blockIdx_out'[c] = b
    BY <1>1, <1>2, <1>3, EdgeHeldOrRun
  <2>6. ASSUME NEW c \in core_start'
        PROVE  blockIdx_out'[c] < next_block'
    <3>1. CASE c \in New(launch)
      BY <1>3, <3>1, NewBlocks
    <3>2. CASE c \in Still(launch, block_done)
      <4>1. ~launch /\ running /\ c \in core_start /\ c \in Cores /\ blockIdx_out[c] \in Nat
        BY <1>3, <3>2 DEF Still, LaunchIInv, LaunchTypeOK, Blocks
      <4>2. c \notin New(launch)
        BY <1>3, <3>2, NewBlocks
      <4>3. blockIdx_out'[c] = blockIdx_out[c]
        BY <1>3, <4>1, <4>2, NewBlocks
      <4>4. blockIdx_out[c] < NextFrom(launch)
        BY <4>1 DEF LaunchIInv, HandedOut, NextFrom
      <4> QED
        BY <2>1, <2>4, <4>1, <4>3, <4>4
    <3> QED
      BY <2>3, <3>1, <3>2
  <2>7. HandedOut'
    <3> SUFFICES ASSUME running'
                 PROVE  /\ num_blocks' > 0 /\ grid' = num_blocks' /\ next_block' <= num_blocks'
                        /\ \A c \in core_start' : blockIdx_out'[c] < next_block'
                        /\ core_start' # Cores => next_block' = num_blocks'
      BY DEF HandedOut, Cores
    <3>1. num_blocks > 0
      BY <2>1, <2>3, <2>4
    <3>2. next_block' <= num_blocks
      BY <2>1, <2>4
    <3>3. core_start' # Cores => next_block' = num_blocks
      BY <1>3, <2>3, NewBlocks
    <3> QED
      BY <2>1, <2>2, <2>6, <3>1, <3>2, <3>3
  <2>8. HeldOrRun'
    BY <2>5 DEF HeldOrRun, Blocks
  <2>9. DoneIsComplete'
    <3> SUFFICES ASSUME kernel_done'
                 PROVE  /\ ~running' /\ completed_blocks' = grid'
                        /\ \A b \in Blocks : b < grid' => runs'[b] >= 1
      BY DEF DoneIsComplete, Blocks
    <3> QED
      BY <2>2, <2>3, <2>5
  <2> QED
    BY <2>7, <2>8, <2>9
<1>4. CASE ~running /\ ~start /\ ~launch /\ UNCHANGED dispVars
  <2>1. /\ ~running' /\ kernel_done' = kernel_done /\ completed_blocks' = completed_blocks
        /\ grid' = grid
    BY <1>1, <1>4 DEF dispVars, Observe
  <2>2. HandedOut' /\ HeldOrRun'
    BY <2>1 DEF HandedOut, HeldOrRun
  <2>3. \A b \in Blocks : runs[b] >= 1 => runs'[b] >= 1
    BY <1>1, <1>2, <1>4, RunsCount
  <2>4. DoneIsComplete'
    <3> SUFFICES ASSUME kernel_done'
                 PROVE  /\ ~running' /\ completed_blocks' = grid'
                        /\ \A b \in Blocks : b < grid' => runs'[b] >= 1
      BY DEF DoneIsComplete, Blocks
    <3> QED
      BY <2>1, <2>3 DEF LaunchIInv, DoneIsComplete
  <2> QED
    BY <2>2, <2>4
<1> QED
  BY <1>1, <1>3, <1>4

LEMMA EdgeTypes ==
    ASSUME LaunchIInv, Edge, HostStep
    PROVE  LaunchTypeOK'
<1>1. PICK launch \in BOOLEAN :
         /\ launch = Launches(start) /\ (launch => ~running)
         /\ CycleTick(launch) /\ Observe(launch)
         /\ \/ (launch \/ running) /\ DispRun(launch, num_blocks, block_done)
            \/ ~running /\ ~start /\ ~launch /\ UNCHANGED dispVars
  BY EdgeCases
<1>2. CoreTick
  BY DEF Edge
<1>3. /\ running' \in BOOLEAN /\ kernel_done' \in BOOLEAN
      /\ next_block' \in 0 .. MaxBlocks
      /\ completed_blocks' \in 0 .. MaxBlocks
      /\ core_start' \subseteq Cores
      /\ blockIdx_out' \in [Cores -> Blocks]
  <2>1. CASE (launch \/ running) /\ DispRun(launch, num_blocks, block_done)
    <3>1. running' \in BOOLEAN /\ kernel_done' \in BOOLEAN
      <4>1. kernel_done \in BOOLEAN
        BY DEF LaunchIInv, LaunchTypeOK
      <4> QED
        BY <2>1, <4>1 DEF DispRun
    <3>2. /\ next_block' \in Nat /\ next_block' <= num_blocks
          /\ num_blocks \in Nat /\ num_blocks <= MaxBlocks
      <4>1. num_blocks \in 0 .. MaxBlocks /\ NextFrom(launch) \in Nat
        BY DEF LaunchIInv, LaunchTypeOK, NextFrom
      <4>2. next_block' \in NextFrom(launch) .. num_blocks
        BY <2>1, NewBlocks
      <4> QED
        BY <4>1, <4>2, MaxBlocksAssumption
    <3>3. next_block' \in 0 .. MaxBlocks
      BY <3>2, MaxBlocksAssumption
    <3>4. completed_blocks' \in 0 .. MaxBlocks
      <4>1. completed_blocks' \in 0 .. next_block'
        BY <1>1, <2>1, CompletedBlocks
      <4> QED
        BY <3>3, <4>1, MaxBlocksAssumption
    <3>5. New(launch) \subseteq Cores /\ Still(launch, block_done) \subseteq Cores
      <4>1. Still(launch, block_done) \subseteq Cores
        BY DEF Still, LaunchIInv, LaunchTypeOK
      <4> QED
        BY <2>1, <4>1, NewBlocks
    <3>6. core_start' \subseteq Cores
      BY <1>1, <2>1, <3>5, CompletedBlocks
    <3>7. ASSUME NEW c \in Cores
          PROVE  blockIdx_out'[c] \in Blocks
      <4>1. CASE c \in New(launch)
        <5>1. blockIdx_out'[c] \in Nat /\ blockIdx_out'[c] < next_block'
          BY <2>1, <4>1, NewBlocks
        <5> QED
          BY <5>1, <3>2, MaxBlocksAssumption DEF Blocks
      <4>2. CASE c \notin New(launch)
        <5>1. blockIdx_out'[c] = IF launch THEN 0 ELSE blockIdx_out[c]
          BY <2>1, <4>2, NewBlocks
        <5>2. blockIdx_out[c] \in Blocks /\ 0 \in Blocks
          BY MaxBlocksAssumption DEF LaunchIInv, LaunchTypeOK, Blocks
        <5> QED
          BY <5>1, <5>2
      <4> QED
        BY <4>1, <4>2
    <3>8. blockIdx_out' = [c \in Cores |-> blockIdx_out'[c]]
      BY <2>1 DEF DispRun
    <3> QED
      BY <3>1, <3>3, <3>4, <3>6, <3>7, <3>8
  <2>2. CASE UNCHANGED dispVars
    BY <2>2 DEF dispVars, LaunchIInv, LaunchTypeOK
  <2> QED
    BY <1>1, <2>1, <2>2
<1>4. num_blocks' \in 0 .. MaxBlocks /\ start' \in BOOLEAN /\ host' \in {"setup", "started", "poll", "done"}
  BY HostLeavesGrid
<1>5. busy' \subseteq Cores /\ block_done' \subseteq Cores
  BY <1>2 DEF CoreTick, LaunchIInv, LaunchTypeOK
<1>6. grid' \in 0 .. MaxBlocks
  BY <1>1 DEF Observe, LaunchIInv, LaunchTypeOK
<1>7. kc_running' \in BOOLEAN /\ kernel_cycles' \in {"this", "former"}
  BY <1>1 DEF CycleTick, Counts, LaunchIInv, LaunchTypeOK
<1>8. seen' \in [Cores -> SUBSET (Blocks \cup {Former})]
  <2>1. \A c \in Cores : blockIdx_out'[c] \in Blocks /\ seen[c] \in SUBSET (Blocks \cup {Former})
    BY <1>3 DEF LaunchIInv, LaunchTypeOK
  <2>2. seen' = [c \in Cores |->
           IF c \notin busy' THEN {}
           ELSE {blockIdx_out'[c]} \cup (IF c \in busy THEN seen[c] ELSE {})
                \cup (IF launch /\ c \in busy THEN {Former} ELSE {})]
    BY <1>1 DEF Observe
  <2> QED
    BY <2>1, <2>2
<1>9. runs' \in [Blocks -> Nat]
  BY <1>1, <1>2, RunsCount
<1> QED
  BY <1>3, <1>4, <1>5, <1>6, <1>7, <1>8, <1>9 DEF LaunchTypeOK, Blocks, Cores, Former

(* An edge between two kernels: nothing moves. *)
LEMMA QuietEdge ==
    ASSUME LaunchIInv, Edge, ~running, ~start, busy = {}
    PROVE  ~running' /\ busy' = {} /\ block_done' = {} /\ (~kc_running => ~kc_running')
<1>1. UNCHANGED dispVars
  BY EdgeCases DEF Launches
<1>2. core_start = {}
  BY DEF LaunchIInv, HostSequence
<1>3. CoreTick /\ CycleTick(Launches(start))
  BY DEF Edge
<1>4. busy' = {} /\ block_done' = {}
  BY <1>2, <1>3, CoresStep
<1>5. ~kc_running => ~kc_running'
  BY <1>3 DEF CycleTick, Restarts
<1> QED
  BY <1>1, <1>4, <1>5 DEF dispVars

(* The host goes from setting up to the start pulse. *)
LEMMA EdgeToStart ==
    ASSUME LaunchIInv, Edge, HostStep, host' \in {"setup", "started"}
    PROVE  /\ ~running' /\ busy' = {} /\ block_done' = {} /\ ~kc_running'
           /\ host' = "setup" => ~start'
           /\ host' = "started" => start'
<1>1. host = "setup" \/ (host = "done" /\ busy = {})
  BY DEF HostStep, HostTick, NextKernel, Poll, LaunchIInv, LaunchTypeOK
<1>2. ~running /\ ~start /\ busy = {} /\ ~kc_running
  BY <1>1 DEF LaunchIInv, HostSequence, DoneIsComplete
<1>3. ~running' /\ busy' = {} /\ block_done' = {} /\ ~kc_running'
  BY <1>2, QuietEdge
<1>4. /\ host' = "setup" => ~start'
      /\ host' = "started" => start'
  BY <1>1 DEF HostStep, HostTick, NextKernel, WriteNothing, WriteNumBlocks, WriteStart, Poll
<1> QED
  BY <1>3, <1>4

(* A launch: the first blocks go out, and unless the grid is empty the     *)
(* kernel runs after it.                                                   *)
LEMMA LaunchEdge ==
    ASSUME LaunchIInv, Edge, HostStep, start, ~running
    PROVE  /\ num_blocks' = num_blocks /\ grid' = num_blocks
           /\ running' \/ kernel_done'
           /\ num_blocks > 0 => running' /\ ~kernel_done'
           /\ num_blocks = 0 => kernel_done'
<1>1. PICK launch \in BOOLEAN :
         launch /\ Observe(launch) /\ DispRun(launch, num_blocks, block_done)
  BY EdgeCases DEF Launches
<1>2. num_blocks' = num_blocks
  BY HostLeavesGrid
<1>3. grid' = num_blocks
  BY <1>1 DEF Observe
<1>4. /\ completed_blocks' \in 0 .. next_block'
      /\ completed_blocks' = num_blocks =>
            Still(launch, block_done) \cup New(launch) = {} /\ next_block' = num_blocks
      /\ running' <=> completed_blocks' # num_blocks
      /\ kernel_done' <=> completed_blocks' = num_blocks
  BY <1>1, CompletedBlocks
<1>5. next_block' = 0 + Cardinality(New(launch)) /\ next_block' \in 0 .. num_blocks /\ num_blocks \in Nat
  <2>1. NextFrom(launch) = 0
    BY <1>1 DEF NextFrom
  <2>2. num_blocks \in Nat
    BY DEF LaunchIInv, LaunchTypeOK
  <2> QED
    BY <1>1, <2>1, <2>2, NewBlocks
<1>6. num_blocks > 0 => completed_blocks' # num_blocks
  <2> SUFFICES ASSUME completed_blocks' = num_blocks
               PROVE  num_blocks = 0
    BY <1>5
  <2>1. New(launch) = {} /\ next_block' = num_blocks
    BY <1>4
  <2>2. Cardinality(New(launch)) = 0
    BY <2>1, FS_EmptySet
  <2> QED
    BY <1>5, <2>1, <2>2
<1>7. num_blocks = 0 => completed_blocks' = num_blocks
  BY <1>4, <1>5
<1> QED
  BY <1>2, <1>3, <1>4, <1>6, <1>7

(* The host polls. *)
LEMMA EdgeToPoll ==
    ASSUME LaunchIInv, Edge, HostStep, host' = "poll"
    PROVE  /\ running' \/ kernel_done'
           /\ start' /\ ~running' => num_blocks' = 0
           /\ grid' > 0 => \/ kernel_cycles' = "this"
                           \/ start' /\ ~kc_running' /\ ~kernel_done'
<1> USE DEF WriteNothing, WriteNumBlocks, WriteStart
<1>1. \/ host = "started" /\ (start' \/ ~kernel_done)
      \/ host = "poll" /\ ~kernel_done /\ ~start'
  BY DEF HostStep, HostTick, NextKernel, Poll
<1>2. CycleTick(Launches(start)) /\ Observe(Launches(start))
  BY DEF Edge
<1>3. CASE host = "started"
  <2>1. start /\ ~running /\ ~kc_running /\ num_blocks \in Nat
    BY <1>3 DEF LaunchIInv, HostSequence, LaunchTypeOK
  <2>2. /\ num_blocks' = num_blocks /\ grid' = num_blocks
        /\ running' \/ kernel_done'
        /\ num_blocks > 0 => running' /\ ~kernel_done'
    BY <2>1, LaunchEdge
  <2>3. CASE kernel_done
    <3>1. start' /\ ~kc_running'
      BY <1>1, <1>2, <1>3, <2>1, <2>3 DEF CycleTick, Restarts
    <3> QED
      BY <2>1, <2>2, <3>1
  <2>4. CASE ~kernel_done
    <3>1. kernel_cycles' = "this"
      BY <1>2, <2>1, <2>4 DEF CycleTick, Counts, Restarts
    <3> QED
      BY <2>1, <2>2, <3>1
  <2> QED
    BY <2>3, <2>4
<1>4. CASE host = "poll" /\ ~kernel_done /\ ~start'
  <2>1. running
    BY <1>4 DEF LaunchIInv, HostSequence
  <2>2. running' \/ kernel_done'
    <3>1. PICK launch \in BOOLEAN :
             launch = FALSE /\ DispRun(launch, num_blocks, block_done)
      BY <2>1, EdgeCases
    <3> QED
      BY <2>1, <3>1, CompletedBlocks
  <2>3. grid' = grid
    BY <1>2, <2>1 DEF Observe, Launches
  <2>4. grid > 0 => kernel_cycles' = "this"
    <3>1. ~Launches(start)
      BY <2>1 DEF Launches
    <3>2. grid > 0 => kernel_cycles = "this" \/ Restarts
      BY <1>4 DEF LaunchIInv, HostSequence, Restarts
    <3> QED
      BY <1>2, <3>1, <3>2 DEF CycleTick, Counts
  <2> QED
    BY <1>4, <2>2, <2>3, <2>4
<1> QED
  BY <1>1, <1>3, <1>4

(* The host sees kernel_done. *)
LEMMA EdgeToDone ==
    ASSUME LaunchIInv, Edge, HostStep, host' = "done"
    PROVE  /\ kernel_done' /\ ~start' /\ ~kc_running'
           /\ grid' > 0 => kernel_cycles' = "this"
<1>1. (host = "poll" \/ host = "done") /\ kernel_done /\ ~start'
  <2>1. host = "done" => kernel_done
    BY DEF LaunchIInv, HostSequence
  <2> QED
    BY <2>1 DEF HostStep, HostTick, NextKernel, Poll, WriteNothing, WriteNumBlocks, WriteStart
<1>2. CycleTick(Launches(start)) /\ Observe(Launches(start))
  BY DEF Edge
<1>3. ~running
  BY <1>1 DEF LaunchIInv, DoneIsComplete
<1>4. ~kc_running'
  BY <1>1, <1>2 DEF CycleTick
<1>5. CASE start
  <2>1. num_blocks = 0
    BY <1>1, <1>3, <1>5 DEF LaunchIInv, HostSequence
  <2>2. kernel_done' /\ grid' = 0
    BY <1>3, <1>5, <2>1, LaunchEdge
  <2> QED
    BY <1>1, <1>4, <2>2
<1>6. CASE ~start
  <2>1. UNCHANGED dispVars
    BY <1>3, <1>6, EdgeCases DEF Launches
  <2>2. kernel_done' /\ grid' = grid
    BY <1>1, <1>2, <1>6, <2>1 DEF dispVars, Observe, Launches
  <2>3. grid > 0 => kernel_cycles = "this"
    BY <1>1, <1>6 DEF LaunchIInv, HostSequence
  <2>4. kernel_cycles' = kernel_cycles
    BY <1>2, <1>6 DEF CycleTick, Counts, Restarts, Launches
  <2> QED
    BY <1>1, <1>4, <2>2, <2>3, <2>4
<1> QED
  BY <1>5, <1>6

LEMMA EdgeHost ==
    ASSUME LaunchIInv, Edge, HostStep
    PROVE  HostSequence'
<1>1. ~running' => core_start' = {}
  <2>1. PICK launch \in BOOLEAN :
           /\ launch => ~running
           /\ \/ (launch \/ running) /\ DispRun(launch, num_blocks, block_done)
              \/ ~running /\ UNCHANGED dispVars
    BY EdgeCases
  <2>2. CASE (launch \/ running) /\ DispRun(launch, num_blocks, block_done)
    BY <2>1, <2>2, CompletedBlocks
  <2>3. CASE ~running /\ UNCHANGED dispVars
    BY <2>3 DEF dispVars, LaunchIInv, HostSequence
  <2> QED
    BY <2>1, <2>2, <2>3
<1> QED
  BY <1>1, EdgeToStart, EdgeToPoll, EdgeToDone DEF HostSequence

--------------------------------------------------------------------------------
(* The invariant, and what it says. *)

LEMMA LaunchInitIInv == LaunchInit => LaunchIInv
<1> SUFFICES ASSUME LaunchInit
             PROVE  LaunchIInv
  OBVIOUS
<1>1. 0 \in 0 .. MaxBlocks /\ 0 \in Blocks
  BY MaxBlocksAssumption DEF Blocks
<1>2. /\ blockIdx_out \in [Cores -> Blocks]
      /\ seen \in [Cores -> SUBSET (Blocks \cup {Former})]
      /\ runs \in [Blocks -> Nat]
  BY <1>1 DEF LaunchInit, DispInit
<1>3. LaunchTypeOK
  BY <1>1, <1>2 DEF LaunchInit, DispInit, LaunchTypeOK
<1> QED
  BY <1>3 DEF LaunchInit, DispInit, LaunchIInv, BlocksAccounted, HandedOut, HeldOrRun,
              RunsTrueToBlock, DoneIsComplete, HostSequence

LEMMA ResetIInv == LaunchIInv /\ Reset => LaunchIInv'
<1> SUFFICES ASSUME Reset
             PROVE  LaunchIInv'
  OBVIOUS
<1>1. 0 \in 0 .. MaxBlocks /\ 0 \in Blocks
  BY MaxBlocksAssumption DEF Blocks
<1>2. LaunchTypeOK'
  <2>1. /\ blockIdx_out' \in [Cores -> Blocks]
        /\ seen' \in [Cores -> SUBSET (Blocks \cup {Former})]
        /\ runs' \in [Blocks -> Nat]
    BY <1>1 DEF Reset
  <2> QED
    BY <1>1, <2>1 DEF Reset, LaunchTypeOK, Blocks, Cores, Former
<1>3. BlocksAccounted' /\ HandedOut' /\ HeldOrRun' /\ RunsTrueToBlock' /\ DoneIsComplete'
  BY DEF Reset, BlocksAccounted, HandedOut, HeldOrRun, RunsTrueToBlock, DoneIsComplete
<1>4. HostSequence'
  BY DEF Reset, HostSequence
<1> QED
  BY <1>2, <1>3, <1>4 DEF LaunchIInv

LEMMA LaunchNextIInv == LaunchIInv /\ [LaunchNext]_launchVars => LaunchIInv'
<1> SUFFICES ASSUME LaunchIInv, [LaunchNext]_launchVars
             PROVE  LaunchIInv'
  OBVIOUS
<1>1. CASE Edge /\ HostStep
  <2>1. BlocksAccounted'
    BY <1>1, EdgeAccounts
  <2>2. HandedOut' /\ HeldOrRun' /\ DoneIsComplete'
    BY <1>1, EdgeHandsOut
  <2>3. LaunchTypeOK'
    BY <1>1, EdgeTypes
  <2>4. RunsTrueToBlock'
    BY <1>1, EdgeRunsTrue
  <2>5. HostSequence'
    BY <1>1, EdgeHost
  <2> QED
    BY <2>1, <2>2, <2>3, <2>4, <2>5 DEF LaunchIInv
<1>2. CASE Reset
  BY <1>2, ResetIInv
<1>3. CASE UNCHANGED launchVars
  BY <1>3 DEF launchVars, dispVars, LaunchIInv, LaunchTypeOK, BlocksAccounted, HandedOut, HeldOrRun,
              RunsTrueToBlock, DoneIsComplete, HostSequence
<1> QED
  BY <1>1, <1>2, <1>3 DEF LaunchNext, Clock, QuietNextKernel, HostStep

LEMMA LaunchIInvHolds == LaunchSpec => []LaunchIInv
  BY LaunchInitIInv, LaunchNextIInv, PTL DEF LaunchSpec

(* Every variable keeps its range: the block counters stay within the      *)
(* grid, however many cores finish and start in a cycle.                   *)
THEOREM LaunchTypes == LaunchSpec => []LaunchTypeOK
<1>1. LaunchIInv => LaunchTypeOK
  BY DEF LaunchIInv
<1> QED
  BY <1>1, LaunchIInvHolds, PTL

(* While a kernel runs, each block handed out is complete or held by       *)
(* exactly one core: dispatcher.sv loses no block and gives none twice.    *)
THEOREM EveryBlockAccounted == LaunchSpec => []BlocksAccounted
<1>1. LaunchIInv => BlocksAccounted
  BY DEF LaunchIInv
<1> QED
  BY <1>1, LaunchIInvHolds, PTL

(* kernel_done is not raised before every block of the grid has been run   *)
(* to its end by a core that saw that block number all the way.            *)
THEOREM KernelDoneIsTrue == LaunchSpec => []DoneMeansEveryBlockRan
<1>1. LaunchIInv => DoneMeansEveryBlockRan
  <2> SUFFICES ASSUME LaunchIInv, kernel_done, NEW b \in 0 .. grid - 1
               PROVE  runs[b] >= 1
    BY DEF DoneMeansEveryBlockRan
  <2>1. b \in Blocks /\ b < grid
    BY MaxBlocksAssumption DEF LaunchIInv, LaunchTypeOK, Blocks
  <2> QED
    BY <2>1 DEF LaunchIInv, DoneIsComplete
<1> QED
  BY <1>1, LaunchIInvHolds, PTL

(* The host that launches as run_kernel does never takes the kernel_done   *)
(* of the kernel before for its own.                                       *)
THEOREM HostSeesItsOwnDone == LaunchSpec => []DoneIsThisKernels
<1>1. LaunchIInv => DoneIsThisKernels
  BY DEF LaunchIInv, HostSequence, DoneIsComplete, DoneIsThisKernels
<1> QED
  BY <1>1, LaunchIInvHolds, PTL

(* The cycle count it reads is that of its own kernel, after a reset and   *)
(* without one.                                                            *)
THEOREM HostReadsItsOwnCycles == LaunchSpec => []CyclesAreThisKernels
<1>1. LaunchIInv => CyclesAreThisKernels
  BY DEF LaunchIInv, HostSequence, CyclesAreThisKernels
<1> QED
  BY <1>1, LaunchIInvHolds, PTL

(* One edge never takes the start bit, or the block number, from a core    *)
(* whose block_done is not up.                                             *)
LEMMA HeldUntilDone ==
    ASSUME LaunchIInv, Edge, NEW c \in core_start \ block_done
    PROVE  c \in core_start' /\ blockIdx_out'[c] = blockIdx_out[c]
<1>1. running /\ c \in Cores
  BY DEF LaunchIInv, LaunchTypeOK, HostSequence
<1>2. PICK launch \in BOOLEAN : ~launch /\ DispRun(launch, num_blocks, block_done)
  BY <1>1, EdgeCases
<1>3. c \in Still(launch, block_done)
  BY <1>2 DEF Still, Finished
<1>4. c \in core_start'
  BY <1>1, <1>2, <1>3, CompletedBlocks
<1>5. c \notin New(launch)
  BY <1>1, <1>2, <1>3, NewBlocks
<1>6. blockIdx_out'[c] = blockIdx_out[c]
  BY <1>1, <1>2, <1>5, NewBlocks
<1> QED
  BY <1>4, <1>6

(* So a core's start bit stays up, with its block number, until its        *)
(* block_done; Core's StartTick assumes it.                                *)
THEOREM StartBitIsHeld == LaunchSpec => StartIsHeld
<1>1. LaunchIInv /\ [LaunchNext]_launchVars =>
         [\A c \in core_start \ block_done :
             Edge => c \in core_start' /\ blockIdx_out'[c] = blockIdx_out[c]]_launchVars
  BY HeldUntilDone
<1> QED
  BY <1>1, LaunchIInvHolds, PTL DEF LaunchSpec, StartIsHeld

================================================================================
