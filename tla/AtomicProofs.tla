---------------------------- MODULE AtomicProofs ----------------------------
(***************************************************************************)
(* Proofs about AtomicPingPong, for any target, give-up limit and number   *)
(* of spurious losses: types, the balance of the rounds, the exactness of  *)
(* the report, and that the line implements AlternatingCounter.            *)
(***************************************************************************)
EXTENDS AtomicPingPong, TLAPS

(* A reservation that survived until the putllc guards the value loaded,   *)
(* which had the SPE's parity; a store is for a round still to be done.    *)
StoreInv ==
  \A s \in Spes :
    pc[s] = "store" => /\ successful[s] < Target
                       /\ reserved[s] => val[s] = counter /\ counter % 2 = s

(* An SPE still in the loop has not given up.                              *)
SpinInv == \A s \in Spes : pc[s] \in {"loop", "store"} => spin[s] < GiveUp

(* The put of the result: in flight only while waited for, landed after;   *)
(* a group that is destroyed takes it along.                               *)
ResultInv ==
  \A s \in Spes :
    /\ putting[s] => pc[s] = "wait" /\ ppu = "join"
    /\ pc[s] = "returned" => iterations[s] = successful[s]
    /\ pc[s] = "wait" /\ ~putting[s] /\ ppu = "join" => iterations[s] = successful[s]

(* No SPE runs unless the PPU is in the join.                              *)
PpuInv ==
  /\ ppu = "report" => \A s \in Spes : pc[s] = "returned"
  /\ \A s \in launched : ppu = "join" \/ pc[s] = "returned"

IInv == TypeOK /\ RoundsBalanced /\ StoreInv /\ SpinInv /\ ResultInv /\ PpuInv

-----------------------------------------------------------------------------
LEMMA SpesAre == Spes = {0, 1}
  BY DEF Spes, NUM_SPES

(* Parity of the next number.                                              *)
LEMMA Parity ==
  ASSUME NEW n \in Nat
  PROVE  /\ n % 2 = 0 \/ n % 2 = 1
         /\ n % 2 = 0 => (n + 1) % 2 = 1
         /\ n % 2 = 1 => (n + 1) % 2 = 0
  OBVIOUS

(* One more round by the SPE whose turn it is keeps the balance.           *)
LEMMA BalanceStep ==
  ASSUME NEW t \in Nat, NEW w0 \in 0 .. t, NEW w1 \in 0 .. t, NEW n \in Nat,
         n = w0 + w1, w0 = w1 + (n % 2)
  PROVE  /\ n % 2 = 0 /\ w0 < t => /\ n + 1 \in 0 .. 2 * t
                                   /\ w0 + 1 = w1 + ((n + 1) % 2)
         /\ n % 2 = 1 /\ w1 < t => /\ n + 1 \in 0 .. 2 * t
                                   /\ w0 = w1 + 1 + ((n + 1) % 2)
  BY Parity

LEMMA InitIInv == Init => IInv
<1> SUFFICES ASSUME Init PROVE IInv
  OBVIOUS
<1>1. TypeOK
  BY SpesAre, TargetAssumption, GiveUpAssumption, LossAssumption DEF Init, TypeOK, All
<1>2. RoundsBalanced
  BY SpesAre DEF Init, RoundsBalanced, Wins, All
<1>3. StoreInv /\ SpinInv /\ ResultInv /\ PpuInv
  BY DEF Init, StoreInv, SpinInv, ResultInv, PpuInv, All
<1> QED
  BY <1>1, <1>2, <1>3 DEF IInv

-----------------------------------------------------------------------------
(* What a successful putllc does to the two counts: one round, by the SPE  *)
(* whose turn it was.                                                      *)
LEMMA StoreWins ==
  ASSUME IInv, NEW s \in Spes, PutllcDone(s)
  PROVE  /\ counter % 2 = s /\ counter' = counter + 1
         /\ Wins' = [Wins EXCEPT ![s] = @ + 1]
         /\ successful[s] < Target
<1>1. /\ val[s] = counter /\ counter % 2 = s /\ successful[s] < Target
      /\ counter' = counter + 1
  BY DEF IInv, StoreInv, PutllcDone
<1>2. Wins' = [Wins EXCEPT ![s] = @ + 1]
  BY DEF IInv, TypeOK, PutllcDone, Wins
<1> QED
  BY <1>1, <1>2

(* The steps that start a batch or fail to reset both counts.              *)
LEMMA ResetWins ==
  ASSUME NEW running, NEW created, StartBatch(running) \/ StartFails(created)
  PROVE  counter' = 0 /\ Wins' = [s \in Spes |-> 0]
  BY DEF StartBatch, StartFails, Wins, All

(* Every other step leaves the counter and the counts alone.               *)
LEMMA OthersKeepWins ==
  ASSUME IInv, NEW s \in Spes,
         \/ Join \/ JoinFails \/ Report
         \/ GetParams(s) \/ Getllar(s) \/ PutllcLost(s) \/ LoopDone(s)
         \/ PutResult(s) \/ Return(s)
         \/ PutLands(s) \/ LoseReservation(s)
  PROVE  UNCHANGED <<counter, Wins>>
<1> USE DEF IInv, TypeOK, Wins, ppuVars
<1>1. CASE Join \/ JoinFails \/ Report
  BY <1>1 DEF Join, JoinFails, Report
<1>2. CASE GetParams(s)
  BY <1>2 DEF GetParams
<1>3. CASE Getllar(s)
  BY <1>3 DEF Getllar
<1>4. CASE PutllcLost(s) \/ LoopDone(s)
  BY <1>4 DEF PutllcLost, LoopDone
<1>5. CASE PutResult(s) \/ Return(s)
  BY <1>5 DEF PutResult, Return
<1>6. CASE PutLands(s) \/ LoseReservation(s)
  BY <1>6 DEF PutLands, LoseReservation
<1> QED
  BY <1>1, <1>2, <1>3, <1>4, <1>5, <1>6

-----------------------------------------------------------------------------
(* The PPU's steps keep the invariant.                                     *)
LEMMA PpuStep == IInv /\ Ppu => IInv'
<1> SUFFICES ASSUME IInv, Ppu PROVE IInv'
  OBVIOUS
<1> USE DEF IInv
<1>1. CASE \E running \in SUBSET Spes : StartBatch(running)
  <2>1. PICK running \in SUBSET Spes : StartBatch(running)
    BY <1>1
  <2>2. TypeOK'
    BY <2>1, TargetAssumption, LossAssumption DEF StartBatch, TypeOK, All
  <2>3. RoundsBalanced'
    BY <2>1, ResetWins, SpesAre DEF RoundsBalanced
  <2>4. StoreInv' /\ SpinInv' /\ ResultInv' /\ PpuInv'
    BY <2>1 DEF StartBatch, SpinInv, StoreInv, ResultInv, PpuInv, All
  <2> QED
    BY <2>2, <2>3, <2>4
<1>2. CASE \E created \in BOOLEAN : StartFails(created)
  <2>1. PICK created \in BOOLEAN : StartFails(created)
    BY <1>2
  <2>2. TypeOK'
    BY <2>1, TargetAssumption DEF StartFails, TypeOK, All
  <2>3. RoundsBalanced'
    BY <2>1, ResetWins, SpesAre DEF RoundsBalanced
  <2>4. StoreInv' /\ SpinInv' /\ ResultInv' /\ PpuInv'
    BY <2>1 DEF StartFails, SpinInv, StoreInv, ResultInv, PpuInv, All
  <2> QED
    BY <2>2, <2>3, <2>4
<1>3. CASE Join
  BY <1>3 DEF Join, TypeOK, RoundsBalanced, Wins, StoreInv, SpinInv, ResultInv, PpuInv
<1>4. CASE Report
  <2>1. iterations[0] \in 0 .. Target /\ iterations[1] \in 0 .. Target
    BY SpesAre DEF TypeOK
  <2>2. iterations[0] + iterations[1] \in 0 .. 2 * Target
    BY <2>1, TargetAssumption
  <2>3. TypeOK'
    BY <1>4, <2>2 DEF Report, TypeOK
  <2> QED
    BY <1>4, <2>3 DEF Report, RoundsBalanced, Wins, StoreInv, SpinInv, ResultInv, PpuInv
<1>5. CASE JoinFails
  BY <1>5 DEF JoinFails, All, TypeOK, RoundsBalanced, Wins, StoreInv, SpinInv, ResultInv, PpuInv
<1> QED
  BY <1>1, <1>2, <1>3, <1>4, <1>5 DEF Ppu

(* The steps of an SPE and of its cache and DMA keep the invariant.        *)
LEMMA PutllcStep ==
   ASSUME IInv, NEW s \in launched, PutllcDone(s) PROVE IInv'
<1> USE DEF IInv, ppuVars
<1>0. s \in Spes
  BY DEF TypeOK
<1>1. /\ counter \in Nat /\ Target \in Nat \ {0} /\ s \in {0, 1}
      /\ successful \in [Spes -> 0 .. Target]
  BY TargetAssumption, SpesAre DEF TypeOK
<1>2. /\ counter % 2 = s /\ counter' = counter + 1
      /\ Wins' = [Wins EXCEPT ![s] = @ + 1] /\ successful[s] < Target
  BY <1>0, StoreWins
<1>3. Wins \in [Spes -> 0 .. Target] /\ Wins[s] = successful[s]
  BY <1>0, <1>1 DEF Wins, PutllcDone
<1>4. Wins[0] \in 0 .. Target /\ Wins[1] \in 0 .. Target
  BY <1>3, SpesAre
<1>5. counter = Wins[0] + Wins[1] /\ Wins[0] = Wins[1] + (counter % 2)
  BY DEF RoundsBalanced
<1>6. RoundsBalanced' /\ counter' \in 0 .. 2 * Target
  <2>1. CASE s = 0
    <3>1. Wins'[0] = Wins[0] + 1 /\ Wins'[1] = Wins[1] /\ Wins[0] < Target
      BY <1>2, <1>3, <2>1, SpesAre
    <3>2. /\ counter + 1 \in 0 .. 2 * Target
          /\ Wins[0] + 1 = Wins[1] + ((counter + 1) % 2)
      BY <1>1, <1>2, <1>4, <1>5, <2>1, <3>1, BalanceStep
    <3>3. counter + 1 = Wins'[0] + Wins'[1]
      BY <1>4, <1>5, <3>1
    <3> QED
      BY <1>2, <3>1, <3>2, <3>3 DEF RoundsBalanced
  <2>2. CASE s = 1
    <3>1. Wins'[1] = Wins[1] + 1 /\ Wins'[0] = Wins[0] /\ Wins[1] < Target
      BY <1>2, <1>3, <2>2, SpesAre
    <3>2. /\ counter + 1 \in 0 .. 2 * Target
          /\ Wins[0] = Wins[1] + 1 + ((counter + 1) % 2)
      BY <1>1, <1>2, <1>4, <1>5, <2>2, <3>1, BalanceStep
    <3>3. counter + 1 = Wins'[0] + Wins'[1]
      BY <1>4, <1>5, <3>1
    <3> QED
      BY <1>2, <3>1, <3>2, <3>3 DEF RoundsBalanced
  <2> QED
    BY <1>1, <2>1, <2>2
<1>8. TypeOK'
  BY <1>1, <1>2, <1>6 DEF PutllcDone, TypeOK, All
<1>9. StoreInv' /\ SpinInv' /\ ResultInv' /\ PpuInv'
  BY DEF PutllcDone, StoreInv, SpinInv, ResultInv, PpuInv, All, TypeOK
<1> QED
  BY <1>6, <1>8, <1>9

LEMMA GetllarStep ==
   ASSUME IInv, NEW s \in launched, Getllar(s) PROVE IInv'
<1> USE DEF IInv
<1>0. s \in Spes
  BY DEF TypeOK
<1>1. /\ counter \in 0 .. 2 * Target /\ spin[s] \in 0 .. GiveUp /\ spin[s] < GiveUp
      /\ GiveUp \in Nat \ {0}
  BY GiveUpAssumption DEF TypeOK, SpinInv, Getllar
<1> DEFINE spins == IF counter % 2 = s THEN 0 ELSE spin[s] + 1
           next  == IF counter % 2 = s THEN "store"
                    ELSE IF spins >= GiveUp THEN "put" ELSE "loop"
<1>2. /\ pc[s] = "loop" /\ successful[s] < Target
      /\ val' = [val EXCEPT ![s] = counter]
      /\ reserved' = [reserved EXCEPT ![s] = TRUE]
      /\ spin' = [spin EXCEPT ![s] = spins] /\ pc' = [pc EXCEPT ![s] = next]
      /\ UNCHANGED <<ppu, rounds, launched, counter, iterations, successful, putting, losses>>
  BY DEF Getllar, ppuVars
<1>3. /\ spins \in 0 .. GiveUp
      /\ next \in {"store", "put", "loop"}
      /\ next = "store" => counter % 2 = s
      /\ next \in {"store", "loop"} => spins < GiveUp
  BY <1>1
<1> HIDE DEF spins, next
<1>4. RoundsBalanced'
  BY <1>0, OthersKeepWins DEF RoundsBalanced
<1>5. TypeOK'
  BY <1>1, <1>2, <1>3 DEF TypeOK
<1>6. StoreInv' /\ SpinInv' /\ ResultInv' /\ PpuInv'
  BY <1>2, <1>3 DEF StoreInv, SpinInv, ResultInv, PpuInv, TypeOK
<1> QED
  BY <1>4, <1>5, <1>6

LEMMA OtherSpeStep ==
  ASSUME IInv, NEW s \in Spes,
         \/ /\ s \in launched
            /\ GetParams(s) \/ PutllcLost(s) \/ LoopDone(s) \/ PutResult(s) \/ Return(s)
         \/ PutLands(s) \/ LoseReservation(s)
  PROVE  IInv'
<1> USE DEF IInv, ppuVars
<1>1. RoundsBalanced'
  BY OthersKeepWins DEF RoundsBalanced
<1>2. /\ successful \in [Spes -> 0 .. Target]
      /\ Target \in Nat \ {0} /\ GiveUp \in Nat \ {0} /\ MaxLosses \in Nat
  BY TargetAssumption, GiveUpAssumption, LossAssumption DEF TypeOK
<1>3. CASE s \in launched /\ GetParams(s)
  <2>1. TypeOK'
    BY <1>2, <1>3 DEF GetParams, TypeOK
  <2>2. StoreInv' /\ SpinInv' /\ ResultInv' /\ PpuInv'
    BY <1>2, <1>3 DEF GetParams, TypeOK, StoreInv, SpinInv, ResultInv, PpuInv
  <2> QED
    BY <1>1, <2>1, <2>2
<1>4. CASE s \in launched /\ PutllcLost(s)
  BY <1>1, <1>4 DEF PutllcLost, TypeOK, StoreInv, SpinInv, ResultInv, PpuInv
<1>5. CASE s \in launched /\ LoopDone(s)
  BY <1>1, <1>5 DEF LoopDone, TypeOK, StoreInv, SpinInv, ResultInv, PpuInv
<1>6. CASE s \in launched /\ PutResult(s)
  BY <1>1, <1>6 DEF PutResult, TypeOK, StoreInv, SpinInv, ResultInv, PpuInv
<1>7. CASE s \in launched /\ Return(s)
  BY <1>1, <1>7 DEF Return, TypeOK, StoreInv, SpinInv, ResultInv, PpuInv
<1>8. CASE PutLands(s)
  BY <1>1, <1>2, <1>8 DEF PutLands, TypeOK, StoreInv, SpinInv, ResultInv, PpuInv
<1>9. CASE LoseReservation(s)
  BY <1>1, <1>2, <1>9 DEF LoseReservation, TypeOK, StoreInv, SpinInv, ResultInv, PpuInv
<1> QED
  BY <1>3, <1>4, <1>5, <1>6, <1>7, <1>8, <1>9

LEMMA NextIInv == IInv /\ [Next]_vars => IInv'
<1> SUFFICES ASSUME IInv, [Next]_vars PROVE IInv'
  OBVIOUS
<1>1. CASE Ppu
  BY <1>1, PpuStep
<1>2. ASSUME NEW s \in Spes, SpeMain(s) \/ PutLands(s) \/ LoseReservation(s) PROVE IInv'
  BY <1>2, PutllcStep, GetllarStep, OtherSpeStep DEF SpeMain
<1>3. CASE UNCHANGED vars
  BY <1>3 DEF vars, IInv, TypeOK, RoundsBalanced, Wins, StoreInv, SpinInv, ResultInv, PpuInv
<1> QED
  BY <1>1, <1>2, <1>3 DEF Next

-----------------------------------------------------------------------------
(* The inductive invariant holds in every reachable state.                 *)
THEOREM Invariance == Spec => []IInv
  BY InitIInv, NextIInv, PTL DEF Spec

(* Type correctness; the counter never exceeds twice the target.           *)
THEOREM TypeCorrect == Spec => []TypeOK
<1>1. IInv => TypeOK
  BY DEF IInv
<1> QED
  BY Invariance, <1>1, PTL

(* Neither SPE is ever more than one round ahead of the other and the      *)
(* counter is the sum of both counts (spu_atomic_main.c:36-69).            *)
THEOREM RoundsStayBalanced == Spec => []RoundsBalanced
<1>1. IInv => RoundsBalanced
  BY DEF IInv
<1> QED
  BY Invariance, <1>1, PTL

(* total_rounds is exactly the number of bounces the line made             *)
(* (atomic_benchmark.c:94-107).                                            *)
THEOREM ReportExact == Spec => []ReportIsExact
<1>1. IInv => ReportIsExact
  <2> SUFFICES ASSUME IInv, ppu = "report" PROVE iterations[0] + iterations[1] = counter
    BY DEF ReportIsExact
  <2>1. \A s \in Spes : iterations[s] = successful[s] /\ Wins[s] = successful[s]
    BY DEF IInv, PpuInv, ResultInv, Wins
  <2> QED
    BY <2>1, SpesAre DEF IInv, RoundsBalanced
<1> QED
  BY Invariance, <1>1, PTL

(* The cache line implements the strictly alternating counter: every step  *)
(* of the two SPEs, the PPU, the caches and the DMA is a reset, one bounce *)
(* by the SPE whose turn it is, or invisible.                              *)
THEOREM LineAlternates == Spec => AlternationSpec
<1>1. Init => Alternating!Init
  BY DEF Init, Alternating!Init, Wins, All
<1>2. IInv /\ [Next]_vars => [Alternating!Next]_(Alternating!vars)
  <2> SUFFICES ASSUME IInv, [Next]_vars
               PROVE  Alternating!Next \/ UNCHANGED <<counter, Wins>>
    BY DEF Alternating!vars
  <2>1. ASSUME NEW running, NEW created, StartBatch(running) \/ StartFails(created)
        PROVE  Alternating!Next
    BY <2>1, ResetWins DEF Alternating!Next, Alternating!Reset
  <2>2. ASSUME NEW s \in Spes, PutllcDone(s) PROVE Alternating!Next
    BY <2>2, StoreWins DEF Alternating!Next, Alternating!Win
  <2>3. CASE Join \/ JoinFails \/ Report
    <3>1. 0 \in Spes
      BY SpesAre
    <3> QED
      BY <2>3, <3>1, OthersKeepWins
  <2>4. ASSUME NEW s \in Spes, SpeMain(s) \/ PutLands(s) \/ LoseReservation(s), ~PutllcDone(s)
        PROVE  UNCHANGED <<counter, Wins>>
    BY <2>4, OthersKeepWins DEF SpeMain
  <2>5. CASE UNCHANGED vars
    BY <2>5 DEF vars, Wins
  <2> QED
    BY <2>1, <2>2, <2>3, <2>4, <2>5 DEF Next, Ppu
<1> QED
  BY <1>1, <1>2, Invariance, PTL DEF Spec, AlternationSpec, Alternating!Spec

-----------------------------------------------------------------------------
(* The budget of a batch.                                                  *)

(* What is left for an SPE, phase by phase.                                *)
LEMMA LeftIs ==
  ASSUME IInv, NEW s \in Spes
  PROVE  /\ pc[s] \in {"none", "returned"} => StepsLeft(s) = 0 /\ ~putting[s]
         /\ pc[s] = "wait" => StepsLeft(s) = 1 + (IF putting[s] THEN 1 ELSE 0)
         /\ pc[s] = "put" => StepsLeft(s) = 3 /\ ~putting[s]
         /\ pc[s] = "loop" => StepsLeft(s) = 4 + GiveUp - spin[s] /\ ~putting[s]
         /\ pc[s] = "store" =>
              StepsLeft(s) = (IF reserved[s] THEN 4 ELSE 5 + GiveUp) /\ ~putting[s]
         /\ pc[s] = "params" => StepsLeft(s) = 5 + GiveUp /\ ~putting[s]
         /\ StepsLeft(s) \in Nat
<1>1. /\ putting[s] => pc[s] = "wait"
      /\ pc[s] \in {"none", "params", "loop", "store", "put", "wait", "returned"}
      /\ spin[s] \in 0 .. GiveUp /\ GiveUp \in Nat \ {0}
  BY GiveUpAssumption DEF IInv, TypeOK, ResultInv
<1>2. CASE pc[s] \in {"none", "returned"}
  BY <1>1, <1>2 DEF StepsLeft
<1>3. CASE pc[s] = "wait"
  BY <1>1, <1>3 DEF StepsLeft
<1>4. CASE pc[s] = "put"
  BY <1>1, <1>4 DEF StepsLeft
<1>5. CASE pc[s] = "loop"
  BY <1>1, <1>5 DEF StepsLeft
<1>6. CASE pc[s] = "store"
  BY <1>1, <1>6 DEF StepsLeft
<1>7. CASE pc[s] = "params"
  BY <1>1, <1>7 DEF StepsLeft
<1> QED
  BY <1>1, <1>2, <1>3, <1>4, <1>5, <1>6, <1>7

(* The same one step later.                                                *)
LEMMA LeftIsNext ==
  ASSUME IInv', NEW s \in Spes
  PROVE  /\ pc'[s] \in {"none", "returned"} => StepsLeft(s)' = 0
         /\ pc'[s] = "wait" => StepsLeft(s)' = 1 + (IF putting'[s] THEN 1 ELSE 0)
         /\ pc'[s] = "put" => StepsLeft(s)' = 3
         /\ pc'[s] = "loop" => StepsLeft(s)' = 4 + GiveUp - spin'[s]
         /\ pc'[s] = "store" => StepsLeft(s)' = (IF reserved'[s] THEN 4 ELSE 5 + GiveUp)
         /\ StepsLeft(s)' \in Nat
<1>1. /\ putting'[s] => pc'[s] = "wait"
      /\ pc'[s] \in {"none", "params", "loop", "store", "put", "wait", "returned"}
      /\ spin'[s] \in 0 .. GiveUp /\ GiveUp \in Nat \ {0}
  BY GiveUpAssumption DEF IInv, TypeOK, ResultInv
<1>2. CASE pc'[s] \in {"none", "returned"}
  BY <1>1, <1>2 DEF StepsLeft
<1>3. CASE pc'[s] = "wait"
  BY <1>1, <1>3 DEF StepsLeft
<1>4. CASE pc'[s] = "put"
  BY <1>1, <1>4 DEF StepsLeft
<1>5. CASE pc'[s] = "loop"
  BY <1>1, <1>5 DEF StepsLeft
<1>6. CASE pc'[s] = "store"
  BY <1>1, <1>6 DEF StepsLeft
<1>7. CASE pc'[s] = "params"
  BY <1>1, <1>7 DEF StepsLeft
<1> QED
  BY <1>1, <1>2, <1>3, <1>4, <1>5, <1>6, <1>7

(* The steps that neither store nor lose a reservation.                    *)
LEMMA PlainStep ==
  ASSUME IInv, IInv', NEW s \in Spes,
         \/ GetParams(s) \/ Getllar(s) \/ PutllcLost(s) \/ LoopDone(s)
         \/ PutResult(s) \/ Return(s) \/ PutLands(s)
  PROVE  StepsLeft(s)' < StepsLeft(s) /\ UNCHANGED <<counter, losses>>
<1> USE DEF ppuVars
<1>1. /\ pc \in [Spes -> {"none", "params", "loop", "store", "put", "wait", "returned"}]
      /\ spin \in [Spes -> 0 .. GiveUp] /\ reserved \in [Spes -> BOOLEAN]
      /\ putting \in [Spes -> BOOLEAN] /\ GiveUp \in Nat \ {0} /\ counter \in Nat
      /\ pc[s] \in {"loop", "store"} => spin[s] < GiveUp
  BY GiveUpAssumption DEF IInv, TypeOK, SpinInv
<1>2. CASE GetParams(s)
  <2>1. pc[s] = "params" /\ pc'[s] = "loop" /\ spin'[s] = 0 /\ UNCHANGED <<counter, losses>>
    BY <1>1, <1>2 DEF GetParams
  <2> QED
    BY <1>1, <2>1, LeftIs, LeftIsNext
<1>3. CASE Getllar(s)
  <2> DEFINE spins == IF counter % 2 = s THEN 0 ELSE spin[s] + 1
  <2>1. /\ pc[s] = "loop" /\ spin'[s] = spins /\ reserved'[s] = TRUE
        /\ pc'[s] = IF counter % 2 = s THEN "store"
                    ELSE IF spins >= GiveUp THEN "put" ELSE "loop"
        /\ UNCHANGED <<counter, losses>>
    BY <1>1, <1>3 DEF Getllar
  <2>2. StepsLeft(s) = 4 + GiveUp - spin[s] /\ spin[s] \in Nat /\ spin[s] < GiveUp
    BY <1>1, <2>1, LeftIs
  <2>3. CASE counter % 2 = s
    <3>1. StepsLeft(s)' = 4
      BY <2>1, <2>3, LeftIsNext
    <3> QED
      BY <1>1, <2>1, <2>2, <3>1
  <2>4. CASE counter % 2 # s
    <3>1. spins = spin[s] + 1
      BY <2>4
    <3>2. \/ StepsLeft(s)' = 3
          \/ StepsLeft(s)' = 4 + GiveUp - (spin[s] + 1)
      BY <2>1, <2>4, <3>1, LeftIsNext
    <3> QED
      BY <1>1, <2>1, <2>2, <3>2
  <2> QED
    BY <2>3, <2>4
<1>4. CASE PutllcLost(s)
  <2>1. /\ pc[s] = "store" /\ ~reserved[s] /\ pc'[s] = "loop" /\ spin'[s] = spin[s]
        /\ UNCHANGED <<counter, losses>>
    BY <1>1, <1>4 DEF PutllcLost
  <2>2. StepsLeft(s) = 5 + GiveUp /\ StepsLeft(s)' = 4 + GiveUp - spin[s]
    BY <2>1, LeftIs, LeftIsNext
  <2> QED
    BY <1>1, <2>1, <2>2
<1>5. CASE LoopDone(s)
  <2>1. pc[s] = "loop" /\ pc'[s] = "put" /\ UNCHANGED <<counter, losses>>
    BY <1>1, <1>5 DEF LoopDone
  <2>2. StepsLeft(s) = 4 + GiveUp - spin[s] /\ StepsLeft(s)' = 3
    BY <2>1, LeftIs, LeftIsNext
  <2> QED
    BY <1>1, <2>1, <2>2
<1>6. CASE PutResult(s)
  <2>1. pc[s] = "put" /\ pc'[s] = "wait" /\ putting'[s] /\ UNCHANGED <<counter, losses>>
    BY <1>1, <1>6 DEF PutResult
  <2> QED
    BY <2>1, LeftIs, LeftIsNext
<1>7. CASE Return(s)
  <2>1. /\ pc[s] = "wait" /\ ~putting[s] /\ pc'[s] = "returned"
        /\ UNCHANGED <<counter, losses>>
    BY <1>1, <1>7 DEF Return
  <2> QED
    BY <2>1, LeftIs, LeftIsNext
<1>8. CASE PutLands(s)
  <2>1. /\ putting[s] /\ ~putting'[s] /\ pc'[s] = pc[s] /\ pc[s] = "wait"
        /\ UNCHANGED <<counter, losses>>
    BY <1>1, <1>8 DEF PutLands, IInv, ResultInv
  <2> QED
    BY <2>1, LeftIs, LeftIsNext
<1> QED
  BY <1>2, <1>3, <1>4, <1>5, <1>6, <1>7, <1>8

(* What an SPE does leaves the other one its steps: a store takes away     *)
(* the reservation of an SPE that polls, not of one about to store, since  *)
(* that one's turn it is not.                                              *)
LEMMA OtherKeepsSteps ==
  ASSUME IInv, IInv', NEW s \in Spes, NEW t \in Spes, t # s,
         SpeMain(s) \/ PutLands(s) \/ LoseReservation(s)
  PROVE  StepsLeft(t)' = StepsLeft(t)
<1> USE DEF ppuVars
<1>1. /\ pc \in [Spes -> {"none", "params", "loop", "store", "put", "wait", "returned"}]
      /\ spin \in [Spes -> 0 .. GiveUp] /\ reserved \in [Spes -> BOOLEAN]
      /\ putting \in [Spes -> BOOLEAN]
  BY DEF IInv, TypeOK
<1>2. pc'[t] = pc[t] /\ spin'[t] = spin[t] /\ putting'[t] = putting[t]
  BY <1>1 DEF SpeMain, GetParams, Getllar, PutllcDone, PutllcLost, LoopDone, PutResult, Return,
              PutLands, LoseReservation
<1>3. pc[t] = "store" => reserved'[t] = reserved[t]
  <2>1. CASE PutllcDone(s)
    <3>1. counter % 2 = s /\ reserved' = [x \in Spes |-> FALSE]
      BY <2>1, StoreWins DEF PutllcDone, All
    <3>2. pc[t] = "store" => ~reserved[t]
      BY <3>1 DEF IInv, StoreInv
    <3> QED
      BY <1>1, <3>1, <3>2
  <2>2. CASE ~PutllcDone(s)
    BY <1>1, <2>2 DEF SpeMain, GetParams, Getllar, PutllcLost, LoopDone, PutResult, Return,
                      PutLands, LoseReservation
  <2> QED
    BY <2>1, <2>2
<1> QED
  BY <1>2, <1>3 DEF StepsLeft

(* A round or a loss gives an SPE at most GiveUp + 1 steps back.           *)
LEMMA RenewedSteps ==
  ASSUME IInv, IInv', NEW s \in Spes, PutllcDone(s) \/ LoseReservation(s)
  PROVE  /\ StepsLeft(s)' <= StepsLeft(s) + GiveUp + 1
         /\ \/ counter' = counter + 1 /\ losses' = losses
            \/ counter' = counter /\ losses' = losses + 1
<1>1. /\ pc \in [Spes -> {"none", "params", "loop", "store", "put", "wait", "returned"}]
      /\ spin \in [Spes -> 0 .. GiveUp] /\ reserved \in [Spes -> BOOLEAN]
      /\ putting \in [Spes -> BOOLEAN] /\ GiveUp \in Nat \ {0}
  BY GiveUpAssumption DEF IInv, TypeOK
<1>2. CASE PutllcDone(s)
  <2>1. /\ pc[s] = "store" /\ reserved[s] /\ pc'[s] = "loop" /\ spin'[s] = spin[s]
        /\ losses' = losses
    BY <1>1, <1>2 DEF PutllcDone
  <2>2. StepsLeft(s) = 4 /\ StepsLeft(s)' = 4 + GiveUp - spin[s] /\ spin[s] \in Nat
    BY <1>1, <2>1, LeftIs, LeftIsNext
  <2>3. counter' = counter + 1
    BY <1>2, StoreWins
  <2> QED
    BY <1>1, <2>1, <2>2, <2>3
<1>3. CASE LoseReservation(s)
  <2>1. /\ reserved[s] /\ ~reserved'[s] /\ pc' = pc /\ spin' = spin /\ putting' = putting
        /\ counter' = counter /\ losses' = losses + 1
    BY <1>1, <1>3 DEF LoseReservation, ppuVars
  <2>2. CASE pc[s] = "store"
    <3>1. StepsLeft(s) = 4 /\ StepsLeft(s)' = 5 + GiveUp
      BY <2>1, <2>2, LeftIs, LeftIsNext
    <3> QED
      BY <1>1, <2>1, <3>1
  <2>3. CASE pc[s] # "store"
    <3>1. StepsLeft(s)' = StepsLeft(s) /\ StepsLeft(s) \in Nat
      BY <2>1, <2>3, LeftIs DEF StepsLeft
    <3> QED
      BY <1>1, <2>1, <3>1
  <2> QED
    BY <2>2, <2>3
<1> QED
  BY <1>2, <1>3

(* A product loses a whole factor with each round or loss.                 *)
LEMMA OneLess ==
  ASSUME NEW w \in Nat, NEW n \in Nat
  PROVE  /\ w * n \in Nat /\ w * (n + 1) = w * n + w
  OBVIOUS

(* Whatever the two SPEs, their caches and their DMA do, and in whatever   *)
(* order, they come to the end of the batch: the give-up bounds the polls  *)
(* between rounds, the target the rounds (spu_atomic_main.c:36-69).        *)
THEOREM NoLivelock == Spec => StepsRunOut
<1>1. ASSUME IInv, IInv', NEW s \in Spes, SpeMain(s) \/ PutLands(s) \/ LoseReservation(s)
      PROVE  Budget' \in 0 .. Budget - 1
  <2> DEFINE w    == GiveUp + 2
             left == (2 * Target - counter) + (MaxLosses - losses)
             now  == StepsLeft(0) + StepsLeft(1)
  <2>1. /\ w \in Nat /\ left \in Nat /\ left' \in Nat /\ GiveUp \in Nat
        /\ counter \in Nat /\ losses \in Nat /\ 2 * Target \in Nat /\ MaxLosses \in Nat
    <3>1. /\ counter \in 0 .. 2 * Target /\ losses \in 0 .. MaxLosses
          /\ counter' \in 0 .. 2 * Target /\ losses' \in 0 .. MaxLosses
      BY <1>1 DEF IInv, TypeOK
    <3>2. 2 * Target \in Nat /\ MaxLosses \in Nat /\ GiveUp \in Nat
      BY TargetAssumption, GiveUpAssumption, LossAssumption
    <3> QED
      BY <3>1, <3>2
  <2>2. now \in Nat /\ now' \in Nat
    <3>1. \A t \in Spes : StepsLeft(t) \in Nat /\ StepsLeft(t)' \in Nat
      BY <1>1, LeftIs, LeftIsNext
    <3> QED
      BY <3>1, SpesAre
  <2>3. Budget = w * left + now /\ Budget' = w * left' + now'
    BY DEF Budget
  <2>4. CASE /\ StepsLeft(s)' < StepsLeft(s) /\ UNCHANGED <<counter, losses>>
    <3>1. left' = left
      BY <2>4
    <3>2. now' < now
      <4>1. \A t \in Spes : t # s => StepsLeft(t)' = StepsLeft(t)
        BY <1>1, OtherKeepsSteps
      <4>2. \A t \in Spes : StepsLeft(t) \in Nat /\ StepsLeft(t)' \in Nat
        BY <1>1, LeftIs, LeftIsNext
      <4> QED
        BY <2>4, <4>1, <4>2, SpesAre
    <3> HIDE DEF left, now, w
    <3>3. w * left \in Nat
      BY <2>1, OneLess
    <3> QED
      BY <2>2, <2>3, <3>1, <3>2, <3>3
  <2>5. CASE /\ StepsLeft(s)' <= StepsLeft(s) + GiveUp + 1
             /\ \/ counter' = counter + 1 /\ losses' = losses
                \/ counter' = counter /\ losses' = losses + 1
    <3>1. left = left' + 1
      BY <2>1, <2>5
    <3>2. now' < now + w
      <4>1. \A t \in Spes : t # s => StepsLeft(t)' = StepsLeft(t)
        BY <1>1, OtherKeepsSteps
      <4>2. \A t \in Spes : StepsLeft(t) \in Nat /\ StepsLeft(t)' \in Nat
        BY <1>1, LeftIs, LeftIsNext
      <4> QED
        BY <2>1, <2>5, <4>1, <4>2, SpesAre
    <3> HIDE DEF left, now, w
    <3>3. w * left' \in Nat /\ w * (left' + 1) = w * left' + w
      BY <2>1, OneLess
    <3>4. w * left = w * left' + w
      BY <3>1, <3>3
    <3>5. Budget = (w * left' + w) + now
      BY <2>3, <3>4
    <3>6. ASSUME NEW a \in Nat, NEW b \in Nat, NEW x \in Nat, NEW y \in Nat, y < x + b
          PROVE  a + y \in 0 .. ((a + b) + x) - 1
      BY <3>6
    <3> QED
      BY <2>1, <2>2, <2>3, <3>2, <3>3, <3>5, <3>6
  <2> QED
    BY <1>1, <2>4, <2>5, PlainStep, RenewedSteps DEF SpeMain
<1>2. IInv /\ IInv' /\ [Next]_vars =>
        [\A s \in Spes : SpeMain(s) \/ PutLands(s) \/ LoseReservation(s)
            => Budget' \in 0 .. Budget - 1]_vars
  BY <1>1
<1> QED
  BY <1>2, Invariance, PTL DEF Spec, StepsRunOut
=============================================================================
