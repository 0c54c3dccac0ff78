---------------------------- MODULE CellPagesProofs ----------------------------
(***************************************************************************)
(* The invariants of CellPages for every number of kernels, tests, benches *)
(* and profiles and every bound on the passes.                             *)
(*                                                                         *)
(* GroupServesPage is not inductive: that a module is stopped before the   *)
(* next one starts rests on what is known of the phases, and of an         *)
(* inactive group (Groups).  WindowHasOwner speaks of one phase only; what *)
(* holds in the others, the ppe page's closing of a window it does not own *)
(* included, is Windowed.                                                  *)
(***************************************************************************)
EXTENDS CellPages, FiniteSetTheorems, TLAPS

Idle == [groups |-> 0, work |-> NoWork, num |-> 0, slices |-> NoSlices]

(* The stress group: none outside of an active page, one on it.            *)
Groups ==
  /\ \A p \in StressPages : active[p] => Page = p /\ phase \notin {"enter", "exited"}
  /\ (\A p \in StressPages : ~active[p]) => spu = Idle
  /\ \A p \in StressPages : active[p] =>
       spu = [groups |-> 1, work |-> Selected(p), num |-> MAX_SPES,
              slices |-> Given(Selected(p), region)]

(* The burn-in's group.                                                    *)
Burning ==
  /\ burn.groups = IF burn.active THEN 1 ELSE 0
  /\ burn.active => region # 0 /\ Page = "burn" /\ phase \notin {"enter", "exited"}

(* The counters: only the sampler keeps a window open over a frame, and it *)
(* loses it to nobody but the batch that has just run on the ppe page.     *)
Windowed ==
  /\ pmu.active => sampler = "measuring" /\ pmu.window.source = "cell"
  /\ sampler = "measuring" => pmu.active \/ (phase = "pmu" /\ Page = "ppe")
  /\ phase = "input" /\ pmu.active => CellActive

IInv == TypeOK /\ Groups /\ Burning /\ Windowed

-----------------------------------------------------------------------------
(* Data.                                                                   *)

(* A selection wraps within its table.                                     *)
LEMMA ModRange ==
  ASSUME NEW a \in Int, NEW n \in Nat \ {0}
  PROVE  a % n \in 0 .. n - 1
  OBVIOUS

(* Neighbouring slices do not overlap.                                     *)
LEMMA Multiples ==
  ASSUME NEW s \in Nat, NEW i \in 0 .. 5, NEW k \in 0 .. 5, i < k
  PROVE  i * s + s <= k * s
  <1>1. i \in {0, 1, 2, 3, 4} /\ k \in {1, 2, 3, 4, 5}
    OBVIOUS
  <1>2. CASE i = 0
    BY <1>1, <1>2
  <1>3. CASE i = 1
    BY <1>1, <1>3
  <1>4. CASE i = 2
    BY <1>1, <1>4
  <1>5. CASE i = 3
    BY <1>1, <1>5
  <1>6. CASE i = 4
    BY <1>1, <1>6
  <1> QED
    BY <1>1, <1>2, <1>3, <1>4, <1>5, <1>6

(* The ring of pages.                                                      *)
LEMMA RingLength == Len(PageRing) = 6 /\ DOMAIN PageRing = 1 .. 6
  BY DEF PageRing

(* Every slice is whole transfers, and six of them fit.                    *)
LEMMA SliceFits ==
  ASSUME NEW r \in Nat
  PROVE  /\ slice_size(r) \in Nat
         /\ slice_size(r) % DMA_MAX_SIZE = 0
         /\ 6 * slice_size(r) <= r
         /\ r >= 98304 => slice_size(r) > 0
  BY DEF slice_size, DMA_MAX_SIZE, MAX_SPES

(* The ladder offers nothing smaller than what the burn-in needs.          *)
LEMMA LadderSizes ==
  ASSUME NEW r \in RegionSizes
  PROVE  r \in Nat /\ (r # 0 => r >= 98304 /\ r >= BURN_DMA_BUFFER_BYTES)
  BY DEF RegionSizes, try_mb, Masked, MiB, BURN_DMA_BUFFER_BYTES

(* The slices of a region, and those of no region.                         *)
LEMMA SlicesTyped ==
  ASSUME NEW r \in Nat
  PROVE  /\ Slices(r) \in [0 .. MAX_SPES - 1 -> [base : Nat, size : Nat]]
         /\ NoSlices \in [0 .. MAX_SPES - 1 -> [base : Nat, size : Nat]]
  <1>1. slice_size(r) \in Nat
    BY SliceFits
  <1>2. \A i \in 0 .. MAX_SPES - 1 : i * slice_size(r) \in Nat
    BY <1>1 DEF MAX_SPES
  <1> QED
    BY <1>1, <1>2 DEF Slices, Slice, NoSlices

(* What may run is among the works.                                        *)
LEMMA WorksTyped ==
  ASSUME TypeOK
  PROVE  /\ \A p \in StressPages : Selected(p) \in Works
         /\ Ppe(ppeBench) \in Works
         /\ NoWork \in Works /\ mode \in Works
         /\ \A q \in 0 .. PPE_PMU_PROFILE_COUNT - 1 : Profile(q) \in Works
         /\ NoWindow \in Windows
  <1>1. compute \in 0 .. COMPUTE_COUNT - 1 /\ memtest \in MemtestIds
        /\ ppeBench \in 0 .. PPE_BENCH_COUNT - 1 /\ mode = Compute(compute)
    BY DEF TypeOK
  <1>2. NoWork \in Works /\ Compute(compute) \in Works /\ Memtest(memtest) \in Works
        /\ Ppe(ppeBench) \in Works
        /\ \A q \in 0 .. PPE_PMU_PROFILE_COUNT - 1 : Profile(q) \in Works
    BY <1>1 DEF Works
  <1>3. NoWindow \in Windows
    BY <1>2, CountAssumption DEF NoWindow, Windows
  <1> QED
    BY <1>1, <1>2, <1>3 DEF Selected, StressPages

(* The modules' stop hooks leave no group of either kind.                  *)
LEMMA StopLeavesNothing ==
  ASSUME IInv, StopPage, phase \notin {"enter", "exited"}
  PROVE  /\ spu' = Idle /\ active' = [p \in StressPages |-> FALSE]
         /\ burn' = [groups |-> 0, active |-> FALSE]
         /\ pmu' \in [active : BOOLEAN, window : Windows]
         /\ pmu'.active = pmu.active /\ pmu'.window.source = pmu.window.source
  <1> USE DEF IInv, StressPages
  <1>1. CASE Page \in StressPages /\ active[Page]
    <2>1. spu' = Idle
      BY <1>1 DEF StopPage, Groups, Stopped, Idle
    <2>2. active' = [p \in StressPages |-> FALSE]
      BY <1>1 DEF StopPage, Groups, TypeOK
    <2>3. burn' = [groups |-> 0, active |-> FALSE]
      BY <1>1 DEF StopPage, Burning, TypeOK
    <2>4. /\ pmu' \in [active : BOOLEAN, window : Windows]
          /\ pmu'.active = pmu.active /\ pmu'.window.source = pmu.window.source
      <3>1. pmu \in [active : BOOLEAN, window : Windows]
        BY DEF TypeOK
      <3>2. pmu' \in {pmu, [pmu EXCEPT !.window = [pmu.window EXCEPT !.cut = TRUE]]}
        BY <1>1, <3>1 DEF StopPage
      <3>3. [pmu.window EXCEPT !.cut = TRUE] \in Windows
            /\ [pmu.window EXCEPT !.cut = TRUE].source = pmu.window.source
        BY <3>1 DEF Windows
      <3> QED
        BY <3>1, <3>2, <3>3
    <2> QED
      BY <2>1, <2>2, <2>3, <2>4
  <1>2. CASE ~(Page \in StressPages /\ active[Page])
    <2>1. \A p \in StressPages : ~active[p]
      BY <1>2 DEF Groups
    <2>2. spu' = Idle
      BY <1>2, <2>1 DEF StopPage, Groups
    <2>3. active' = [p \in StressPages |-> FALSE]
      BY <1>2, <2>1 DEF StopPage, TypeOK
    <2>4. burn' = [groups |-> 0, active |-> FALSE]
      BY <1>2 DEF StopPage, Burning, BurnStopped, TypeOK
    <2> QED
      BY <1>2, <2>2, <2>3, <2>4 DEF StopPage, TypeOK
  <1> QED
    BY <1>1, <1>2

-----------------------------------------------------------------------------
(* The four conjuncts under every action.                                  *)

(* The type invariant holds at first ...                                   *)
LEMMA TypingInit == Init => TypeOK
  <1> SUFFICES ASSUME Init PROVE TypeOK
    OBVIOUS
  <1>1. NoWork \in Works /\ NoWindow \in Windows
    BY CountAssumption DEF Works, Windows, NoWindow, NoWork
  <1>2. region \in RegionSizes
    BY DEF Init
  <1>3. /\ spu.groups \in Nat /\ spu.work \in Works /\ spu.num \in {0, MAX_SPES}
        /\ spu.slices \in [0 .. MAX_SPES - 1 -> [base : Nat, size : Nat]]
    BY <1>1, SlicesTyped DEF Init
  <1>4. pmu \in [active : BOOLEAN, window : Windows]
    BY <1>1 DEF Init, Ended
  <1>5. pushed \in [to : {"none", "cell", "ppe"}, key : Works, sample : Windows]
    BY <1>1 DEF Init, NoPush
  <1> QED
    BY <1>1, <1>2, <1>3, <1>4, <1>5, CountAssumption, RingLength
       DEF Init, TypeOK, MemtestIds

(* Stopping leaves typed what StopPage changes.                            *)
LEMMA TypingStop ==
  ASSUME IInv, StopPage, phase \notin {"enter", "exited"}
  PROVE  /\ active' \in [StressPages -> BOOLEAN]
         /\ spu'.groups \in Nat /\ spu'.work \in Works /\ spu'.num \in {0, MAX_SPES}
         /\ spu'.slices \in [0 .. MAX_SPES - 1 -> [base : Nat, size : Nat]]
         /\ burn' \in [groups : Nat, active : BOOLEAN]
         /\ pmu' \in [active : BOOLEAN, window : Windows]
  <1>1. NoWork \in Works
    BY DEF Works
  <1>2. spu' = Idle /\ active' = [p \in StressPages |-> FALSE]
        /\ burn' = [groups |-> 0, active |-> FALSE]
        /\ pmu' \in [active : BOOLEAN, window : Windows]
    BY StopLeavesNothing
  <1>3. NoSlices \in [0 .. MAX_SPES - 1 -> [base : Nat, size : Nat]]
    BY SlicesTyped
  <1> QED
    BY <1>1, <1>2, <1>3 DEF Idle

(* ... and under every action.                                             *)
LEMMA TypingStep == IInv /\ [Next]_vars => TypeOK'
  <1> SUFFICES ASSUME IInv, [Next]_vars PROVE TypeOK'
    OBVIOUS
  <1> USE DEF IInv
  <1>w. /\ \A p \in StressPages : Selected(p) \in Works
        /\ Ppe(ppeBench) \in Works
        /\ NoWork \in Works /\ mode \in Works
        /\ \A q \in 0 .. PPE_PMU_PROFILE_COUNT - 1 : Profile(q) \in Works
        /\ NoWindow \in Windows
    BY WorksTyped
  <1>r. region \in Nat
    BY LadderSizes DEF TypeOK
  <1>1. ASSUME NEW out \in Outcomes, EnterPage(out) PROVE TypeOK'
    <2>1. UNCHANGED <<selection, lastLogged, pmu, pmuVars>> /\ phase' = "pass"
      BY <1>1 DEF EnterPage
    <2>2. pass' \in 0 .. MaxPasses
      BY <1>1, CountAssumption DEF EnterPage, TypeOK
    <2>3. active' \in [StressPages -> BOOLEAN]
      BY <1>1 DEF EnterPage, TypeOK
    <2>4. burn' \in [groups : Nat, active : BOOLEAN]
      <3>1. burn' = burn \/ burn' = [groups |-> burn.groups + 1, active |-> TRUE]
        BY <1>1 DEF EnterPage, BurnStarted
      <3>2. burn \in [groups : Nat, active : BOOLEAN] /\ burn.groups + 1 \in Nat
        BY DEF TypeOK
      <3>3. CASE burn' = burn
        BY <3>2, <3>3
      <3>4. CASE burn' = [groups |-> burn.groups + 1, active |-> TRUE]
        BY <3>2, <3>4
      <3> QED
        BY <3>1, <3>3, <3>4
    <2>5. /\ spu'.groups \in Nat /\ spu'.work \in Works /\ spu'.num \in {0, MAX_SPES}
          /\ spu'.slices \in [0 .. MAX_SPES - 1 -> [base : Nat, size : Nat]]
      <3>1. CASE Page \in StressPages
        <4>1. spu' = Started(spu, Selected(Page), region, out)
          BY <1>1, <3>1 DEF EnterPage
        <4>2. CASE out = "ok"
          <5>1. Given(Selected(Page), region) \in [0 .. MAX_SPES - 1 -> [base : Nat, size : Nat]]
            BY <1>r, SlicesTyped DEF Given
          <5> QED
            BY <4>1, <4>2, <5>1, <3>1, <1>w DEF Started, TypeOK
        <4>3. CASE out = "create"
          BY <4>1, <4>3 DEF Started, TypeOK
        <4>4. CASE out \notin {"ok", "create"}
          <5>1. spu' = [spu EXCEPT !.num = 0]
            BY <4>1, <4>4 DEF Started
          <5>2. spu \in {Idle} \cup {[groups |-> 1, work |-> Selected(p), num |-> MAX_SPES,
                                    slices |-> Given(Selected(p), region)] : p \in StressPages}
            BY DEF Groups
          <5>3. spu'.groups = spu.groups /\ spu'.work = spu.work /\ spu'.num = 0
                /\ spu'.slices = spu.slices
            BY <5>1, <5>2 DEF Idle
          <5> QED
            BY <5>3 DEF TypeOK
        <4> QED
          BY <4>2, <4>3, <4>4
      <3>2. CASE Page \notin StressPages
        BY <1>1, <3>2 DEF EnterPage, TypeOK
      <3> QED
        BY <3>1, <3>2
    <2> QED
      BY <2>1, <2>2, <2>3, <2>4, <2>5 DEF TypeOK, selection, pmuVars
  <1>2. CASE NoInput
    BY <1>2 DEF NoInput, TypeOK, selection, groupVars, pmuVars
  <1>3. CASE Shutdown
    <2>1. UNCHANGED <<selection, pass, lastLogged, pmuVars>> /\ phase' = "exited"
          /\ StopPage /\ phase = "input"
      BY <1>3 DEF Shutdown
    <2> QED
      BY <2>1, TypingStop DEF TypeOK, selection, pmuVars
  <1>4. ASSUME NEW dir \in {-1, 1}, TurnPage(dir) PROVE TypeOK'
    <2>1. UNCHANGED <<compute, memtest, mode, ppeBench, region, pass, lastLogged, pmuVars>>
          /\ phase' = "enter" /\ StopPage /\ phase = "input"
      BY <1>4 DEF TurnPage
    <2>2. page' \in DOMAIN PageRing
      BY <1>4, RingLength DEF TurnPage, TypeOK
    <2> QED
      BY <2>1, <2>2, TypingStop DEF TypeOK, pmuVars
  <1>5. ASSUME NEW dir \in {-1, 1}, SelectCompute(dir) PROVE TypeOK'
    <2>1. UNCHANGED <<page, memtest, ppeBench, region, pass, lastLogged, pmuVars>>
          /\ phase' = "enter" /\ StopPage /\ phase = "input" /\ mode' = Compute(compute')
      BY <1>5 DEF SelectCompute
    <2>2. compute' \in 0 .. COMPUTE_COUNT - 1
      <3>1. compute + dir \in Int
        BY DEF TypeOK
      <3>2. (compute + dir) % COMPUTE_COUNT \in 0 .. COMPUTE_COUNT - 1
        BY <3>1, CountAssumption, ModRange
      <3> QED
        BY <1>5, <3>2 DEF SelectCompute
    <2> QED
      BY <2>1, <2>2, TypingStop DEF TypeOK, pmuVars
  <1>6. ASSUME NEW dir \in {-1, 1}, SelectMemtest(dir) PROVE TypeOK'
    <2>1. UNCHANGED <<page, compute, mode, ppeBench, region, pass, lastLogged, pmuVars>>
          /\ phase' = "enter" /\ StopPage /\ phase = "input"
      BY <1>6 DEF SelectMemtest
    <2>2. memtest' \in MemtestIds
      BY <1>6, CountAssumption DEF SelectMemtest, NextMemtest, MemtestIds, MEMTEST_AUTO_CYCLE, TypeOK
    <2> QED
      BY <2>1, <2>2, TypingStop DEF TypeOK, pmuVars
  <1>7. ASSUME NEW dir \in {-1, 1}, SelectPpe(dir) PROVE TypeOK'
    <2>1. ppeBench' \in 0 .. PPE_BENCH_COUNT - 1
      <3>1. ppeBench + dir \in Int
        BY DEF TypeOK
      <3>2. (ppeBench + dir) % PPE_BENCH_COUNT \in 0 .. PPE_BENCH_COUNT - 1
        BY <3>1, CountAssumption, ModRange
      <3> QED
        BY <1>7, <3>2 DEF SelectPpe
    <2> QED
      BY <1>7, <2>1 DEF SelectPpe, TypeOK, groupVars, pmuVars
  <1>8. CASE LogPass
    <2>1. lastLogged' \in 0 .. MaxPasses
      BY <1>8 DEF LogPass, TypeOK
    <2> QED
      BY <1>8, <2>1 DEF LogPass, TypeOK, selection, groupVars, pmuVars
  <1>9. ASSUME NEW rotate \in BOOLEAN, NEW ok \in BOOLEAN, NEW readable \in BOOLEAN,
               PpeBatch(rotate, ok, readable)
        PROVE  TypeOK'
    <2> DEFINE profile == IF ~(ppeHist.bench = ppeBench) THEN 0
                          ELSE IF rotate THEN (ppeHist.profile + 1) % PPE_PMU_PROFILE_COUNT
                          ELSE ppeHist.profile
               window == [source |-> "ppe", profile |-> profile,
                          work |-> Ppe(ppeBench), cut |-> FALSE]
               open == Begun(pmu, window, ok)
    <2>1. /\ ppeHist' = [bench |-> ppeBench, profile |-> profile]
          /\ pushed' = IF ReadOk(open, readable)
                       THEN [to |-> "ppe", key |-> Profile(profile), sample |-> open.window]
                       ELSE pushed
          /\ pmu' = IF open.active THEN Ended ELSE open
          /\ UNCHANGED <<selection, groupVars, pass, lastLogged, sampler, histKernel>>
          /\ phase' = "pmu"
      BY <1>9 DEF PpeBatch
    <2>2. profile \in 0 .. PPE_PMU_PROFILE_COUNT - 1
      <3>1. ppeHist.profile \in 0 .. PPE_PMU_PROFILE_COUNT - 1
        BY DEF TypeOK
      <3>2. (ppeHist.profile + 1) % PPE_PMU_PROFILE_COUNT \in 0 .. PPE_PMU_PROFILE_COUNT - 1
        <4>1. ppeHist.profile + 1 \in Int /\ PPE_PMU_PROFILE_COUNT \in Nat \ {0}
          BY <3>1, CountAssumption
        <4> QED
          BY <4>1, ModRange
      <3> QED
        BY <3>1, <3>2, CountAssumption
    <2>3. window \in Windows
      BY <2>2, <1>w DEF Windows
    <2> HIDE DEF profile, window
    <2>4. open \in [active : BOOLEAN, window : Windows]
      BY <2>3 DEF Begun, TypeOK
    <2> HIDE DEF open
    <2>5. pmu' \in [active : BOOLEAN, window : Windows]
      BY <2>1, <2>4, <1>w DEF Ended
    <2>6. pushed' \in [to : {"none", "cell", "ppe"}, key : Works, sample : Windows]
      BY <2>1, <2>2, <2>4, <1>w DEF TypeOK
    <2>7. ppeHist' \in [bench : -1 .. PPE_BENCH_COUNT - 1, profile : 0 .. PPE_PMU_PROFILE_COUNT - 1]
      BY <2>1, <2>2, CountAssumption DEF TypeOK
    <2> QED
      BY <2>1, <2>5, <2>6, <2>7 DEF TypeOK, selection, groupVars
  <1>10. CASE OtherTick
    BY <1>10 DEF OtherTick, TypeOK, selection, groupVars, pmuVars
  <1>11. CASE CellPmuInactive
    BY <1>11, <1>w DEF CellPmuInactive, CellPmuRest, Ended, TypeOK, selection, groupVars
  <1>12. CASE CellPmuWait
    BY <1>12, <1>w DEF CellPmuWait, CellPmuRest, TypeOK, selection, groupVars
  <1>13. ASSUME NEW ok \in BOOLEAN, CellPmuBegin(ok) PROVE TypeOK'
    <2>1. [source |-> "cell", profile |-> 0, work |-> spu.work, cut |-> FALSE] \in Windows
      BY CountAssumption DEF Windows, TypeOK
    <2>2. pmu' \in [active : BOOLEAN, window : Windows]
      BY <1>13, <2>1 DEF CellPmuBegin, Begun, TypeOK
    <2> QED
      BY <1>13, <2>2, <1>w DEF CellPmuBegin, CellPmuRest, TypeOK, selection, groupVars
  <1>14. ASSUME NEW ok \in BOOLEAN, CellPmuRead(ok) PROVE TypeOK'
    <2>1. pushed' \in [to : {"none", "cell", "ppe"}, key : Works, sample : Windows]
      BY <1>14, <1>w DEF CellPmuRead, TypeOK
    <2>2. pmu' \in [active : BOOLEAN, window : Windows]
      BY <1>14, <1>w DEF CellPmuRead, Ended
    <2> QED
      BY <1>14, <2>1, <2>2, <1>w DEF CellPmuRead, CellPmuRest, TypeOK, selection, groupVars
  <1>15. CASE MemtestPass
    <2>1. pass' \in 0 .. MaxPasses
      BY <1>15, CountAssumption DEF MemtestPass, TypeOK
    <2> QED
      BY <1>15, <2>1 DEF MemtestPass, TypeOK, selection, groupVars, pmuVars
  <1>16. CASE UNCHANGED vars
    BY <1>16 DEF vars, TypeOK
  <1> QED
    BY <1>1, <1>2, <1>3, <1>4, <1>5, <1>6, <1>7, <1>8, <1>9, <1>10, <1>11, <1>12, <1>13,
       <1>14, <1>15, <1>16
       DEF Next, Exited

(* Both kinds of groups under every action.                                *)
LEMMA GroupsStep == IInv /\ TypeOK' /\ [Next]_vars => Groups' /\ Burning'
  <1> SUFFICES ASSUME IInv, TypeOK', [Next]_vars PROVE Groups' /\ Burning'
    OBVIOUS
  <1> USE DEF IInv
  <1>a. ASSUME spu' = Idle, active' = [p \in StressPages |-> FALSE],
               burn' = [groups |-> 0, active |-> FALSE]
        PROVE  Groups' /\ Burning'
    BY <1>a DEF Groups, Burning, Idle
  <1>b. ASSUME UNCHANGED <<active, spu, burn, region, page, compute, memtest>>,
               phase' \notin {"enter", "exited"} \/ phase' = phase
        PROVE  Groups' /\ Burning'
    BY <1>b DEF Groups, Burning, Selected, Given, Page
  <1>1. ASSUME NEW out \in Outcomes, EnterPage(out) PROVE Groups' /\ Burning'
    <2>1. UNCHANGED <<region, page, compute, memtest>> /\ phase' = "pass" /\ phase = "enter"
          /\ Page' = Page
      BY <1>1 DEF EnterPage, selection, Page
    <2>2. spu = Idle /\ active \in [StressPages -> BOOLEAN]
          /\ (\A p \in StressPages : ~active[p])
          /\ ~burn.active /\ burn.groups = 0
      BY <2>1 DEF Groups, Burning, TypeOK
    <2>3. CASE Page \in StressPages /\ out = "ok"
      <3>1. active' = [active EXCEPT ![Page] = TRUE] /\ burn' = burn
        BY <1>1, <2>3 DEF EnterPage
      <3>2. spu' = [groups |-> 1, work |-> Selected(Page), num |-> MAX_SPES,
                    slices |-> Given(Selected(Page), region)]
        BY <1>1, <2>2, <2>3 DEF EnterPage, Started, Idle
      <3>3. \A p \in StressPages : active'[p] <=> p = Page
        BY <2>2, <2>3, <3>1
      <3>4. \A p \in StressPages : Selected(p)' = Selected(p)
            /\ Given(Selected(p), region)' = Given(Selected(p), region)
        BY <2>1 DEF Selected, Given
      <3> QED
        BY <2>1, <2>2, <2>3, <3>1, <3>2, <3>3, <3>4 DEF Groups, Burning
    <2>4. CASE Page \in StressPages /\ out # "ok"
      <3>1. active' = active /\ burn' = burn
        BY <1>1, <2>4 DEF EnterPage
      <3>2. spu' = Idle
        BY <1>1, <2>2, <2>4 DEF EnterPage, Started, Idle
      <3> QED
        BY <2>1, <2>2, <3>1, <3>2 DEF Groups, Burning
    <2>5. CASE Page \notin StressPages
      <3>1. active' = active /\ spu' = spu
        BY <1>1, <2>5 DEF EnterPage
      <3>2. burn' = burn \/ (burn' = [groups |-> 1, active |-> TRUE] /\ Page = "burn" /\ region # 0)
        BY <1>1, <2>2, <2>5 DEF EnterPage, BurnStarted
      <3> QED
        BY <2>1, <2>2, <3>1, <3>2 DEF Groups, Burning
    <2> QED
      BY <2>3, <2>4, <2>5
  <1>2. CASE NoInput
    BY <1>2, <1>b DEF NoInput, selection, groupVars
  <1>3. CASE Shutdown
    BY <1>3, <1>a, StopLeavesNothing DEF Shutdown
  <1>4. ASSUME NEW dir \in {-1, 1}, TurnPage(dir) PROVE Groups' /\ Burning'
    BY <1>4, <1>a, StopLeavesNothing DEF TurnPage
  <1>5. ASSUME NEW dir \in {-1, 1}, SelectCompute(dir) PROVE Groups' /\ Burning'
    BY <1>5, <1>a, StopLeavesNothing DEF SelectCompute
  <1>6. ASSUME NEW dir \in {-1, 1}, SelectMemtest(dir) PROVE Groups' /\ Burning'
    BY <1>6, <1>a, StopLeavesNothing DEF SelectMemtest
  <1>7. ASSUME NEW dir \in {-1, 1}, SelectPpe(dir) PROVE Groups' /\ Burning'
    BY <1>7, <1>b DEF SelectPpe, groupVars
  <1>8. CASE LogPass
    BY <1>8, <1>b DEF LogPass, selection, groupVars
  <1>9. ASSUME NEW rotate \in BOOLEAN, NEW ok \in BOOLEAN, NEW readable \in BOOLEAN,
               PpeBatch(rotate, ok, readable)
        PROVE  Groups' /\ Burning'
    BY <1>9, <1>b DEF PpeBatch, selection, groupVars
  <1>10. CASE OtherTick
    BY <1>10, <1>b DEF OtherTick, selection, groupVars
  <1>11. CASE CellPmuInactive
    BY <1>11, <1>b DEF CellPmuInactive, CellPmuRest, selection, groupVars
  <1>12. CASE CellPmuWait
    BY <1>12, <1>b DEF CellPmuWait, CellPmuRest, selection, groupVars
  <1>13. ASSUME NEW ok \in BOOLEAN, CellPmuBegin(ok) PROVE Groups' /\ Burning'
    BY <1>13, <1>b DEF CellPmuBegin, CellPmuRest, selection, groupVars
  <1>14. ASSUME NEW ok \in BOOLEAN, CellPmuRead(ok) PROVE Groups' /\ Burning'
    BY <1>14, <1>b DEF CellPmuRead, CellPmuRest, selection, groupVars
  <1>15. CASE MemtestPass
    BY <1>15, <1>b DEF MemtestPass, selection, groupVars
  <1>16. CASE UNCHANGED vars
    BY <1>16, <1>b DEF vars
  <1> QED
    BY <1>1, <1>2, <1>3, <1>4, <1>5, <1>6, <1>7, <1>8, <1>9, <1>10, <1>11, <1>12, <1>13,
       <1>14, <1>15, <1>16
       DEF Next, Exited

(* The counters under every action.                                        *)
LEMMA WindowedStep == IInv /\ [Next]_vars => Windowed'
  <1> SUFFICES ASSUME IInv, [Next]_vars PROVE Windowed'
    OBVIOUS
  <1> USE DEF IInv
  <1>a. ASSUME pmu'.active = pmu.active, pmu'.window.source = pmu.window.source,
               UNCHANGED sampler, phase \notin {"pmu", "tick"}, phase' # "input"
        PROVE  Windowed'
    BY <1>a DEF Windowed
  <1>1. ASSUME NEW out \in Outcomes, EnterPage(out) PROVE Windowed'
    BY <1>1, <1>a DEF EnterPage, pmuVars
  <1>2. CASE NoInput
    BY <1>2, <1>a DEF NoInput, pmuVars
  <1>3. CASE Shutdown
    BY <1>3, <1>a, StopLeavesNothing DEF Shutdown, pmuVars
  <1>4. ASSUME NEW dir \in {-1, 1}, TurnPage(dir) PROVE Windowed'
    BY <1>4, <1>a, StopLeavesNothing DEF TurnPage, pmuVars
  <1>5. ASSUME NEW dir \in {-1, 1}, SelectCompute(dir) PROVE Windowed'
    BY <1>5, <1>a, StopLeavesNothing DEF SelectCompute, pmuVars
  <1>6. ASSUME NEW dir \in {-1, 1}, SelectMemtest(dir) PROVE Windowed'
    BY <1>6, <1>a, StopLeavesNothing DEF SelectMemtest, pmuVars
  <1>7. ASSUME NEW dir \in {-1, 1}, SelectPpe(dir) PROVE Windowed'
    BY <1>7, <1>a DEF SelectPpe, pmuVars
  <1>8. CASE LogPass
    BY <1>8 DEF LogPass, Windowed, pmuVars
  <1>9. ASSUME NEW rotate \in BOOLEAN, NEW ok \in BOOLEAN, NEW readable \in BOOLEAN,
               PpeBatch(rotate, ok, readable)
        PROVE  Windowed'
    <2>1. ~pmu'.active
      BY <1>9 DEF PpeBatch, Ended
    <2>2. phase' = "pmu" /\ Page' = "ppe"
      BY <1>9 DEF PpeBatch, selection, Page
    <2> QED
      BY <2>1, <2>2 DEF Windowed
  <1>10. CASE OtherTick
    BY <1>10 DEF OtherTick, Windowed, pmuVars
  <1>11. CASE CellPmuInactive
    <2>1. sampler' = "idle" /\ ~pmu'.active
      BY <1>11 DEF CellPmuInactive, Ended, Windowed, TypeOK
    <2> QED
      BY <2>1 DEF Windowed
  <1>12. CASE CellPmuWait
    <2>1. UNCHANGED <<pmu, sampler, page, spu>> /\ CellActive /\ CellActive' /\ phase' = "input"
      BY <1>12 DEF CellPmuWait, CellPmuRest, selection, groupVars, CellActive, Page
    <2>2. Page # "ppe"
      BY <2>1 DEF CellActive, StressPages
    <2> QED
      BY <2>1, <2>2 DEF Windowed
  <1>13. ASSUME NEW ok \in BOOLEAN, CellPmuBegin(ok) PROVE Windowed'
    <2>1. CellActive'
      BY <1>13 DEF CellPmuBegin, CellPmuRest, selection, groupVars, CellActive, Page
    <2>2. ~pmu.active
      BY <1>13 DEF CellPmuBegin, Windowed
    <2>3. CASE ok
      <3>1. pmu'.active /\ pmu'.window.source = "cell" /\ sampler' = "measuring"
        BY <1>13, <2>2, <2>3 DEF CellPmuBegin, Begun
      <3> QED
        BY <2>1, <3>1 DEF Windowed
    <2>4. CASE ~ok
      BY <1>13, <2>2, <2>4 DEF CellPmuBegin, Begun, Windowed
    <2> QED
      BY <2>3, <2>4
  <1>14. ASSUME NEW ok \in BOOLEAN, CellPmuRead(ok) PROVE Windowed'
    BY <1>14 DEF CellPmuRead, Ended, Windowed
  <1>15. CASE MemtestPass
    BY <1>15 DEF MemtestPass, Windowed, pmuVars, selection, groupVars, CellActive, Page
  <1>16. CASE UNCHANGED vars
    BY <1>16 DEF vars, Windowed, CellActive, Page
  <1> QED
    BY <1>1, <1>2, <1>3, <1>4, <1>5, <1>6, <1>7, <1>8, <1>9, <1>10, <1>11, <1>12, <1>13,
       <1>14, <1>15, <1>16
       DEF Next, Exited

-----------------------------------------------------------------------------
(* The inductive invariant.                                                *)
LEMMA Inductive == Spec => []IInv
  <1>1. Init => IInv
    <2> SUFFICES ASSUME Init PROVE IInv
      OBVIOUS
    <2>1. Groups /\ Burning
      BY DEF Init, Groups, Burning, Idle, StressPages
    <2>2. Windowed
      BY DEF Init, Windowed, Ended
    <2> QED
      BY <2>1, <2>2, TypingInit DEF IInv
  <1>2. IInv /\ [Next]_vars => IInv'
    BY TypingStep, GroupsStep, WindowedStep DEF IInv
  <1> QED
    BY <1>1, <1>2, PTL DEF Spec

(* Every variable keeps its type, for every number of kernels, tests,      *)
(* benches and profiles: the selections of cell_input, xdr_input and       *)
(* ppe_input stay in their tables.                                         *)
THEOREM TypeCorrect == Spec => []TypeOK
  <1>1. IInv => TypeOK
    BY DEF IInv
  <1> QED
    BY <1>1, Inductive, PTL

(* The groups of engine/spu.c and burn_benchmark.c exist exactly while     *)
(* their modules are active, on the module's page.                         *)
THEOREM GroupsServePages == Spec => []GroupServesPage
  <1>1. IInv => GroupServesPage
    <2> SUFFICES ASSUME IInv PROVE GroupServesPage
      OBVIOUS
    <2> DEFINE S == {p \in StressPages : active[p]}
    <2>1. CASE \A p \in StressPages : ~active[p]
      <3>1. S = {}
        BY <2>1
      <3>2. Cardinality(S) = 0
        BY <3>1, FS_EmptySet
      <3> QED
        BY <2>1, <3>2 DEF IInv, Groups, Burning, GroupServesPage, Idle, MAX_SPES
    <2>2. ASSUME NEW p \in StressPages, active[p] PROVE GroupServesPage
      <3>1. S = {p}
        BY <2>2 DEF IInv, Groups
      <3>2. Cardinality(S) = 1
        BY <3>1, FS_Singleton
      <3>3. spu.groups = 1 /\ spu.num = MAX_SPES /\ spu.work = Selected(p)
        BY <2>2 DEF IInv, Groups
      <3> QED
        BY <2>2, <3>2, <3>3 DEF IInv, Groups, Burning, GroupServesPage, MAX_SPES
    <2> QED
      BY <2>1, <2>2
  <1> QED
    BY <1>1, Inductive, PTL

(* start_spu_stress cuts every region that the ladder of main.c may find   *)
(* into disjoint slices inside it, and the burn-in's window fits.          *)
THEOREM SlicesStayApart == Spec => []SlicesApart
  <1>1. IInv => SlicesApart
    <2> SUFFICES ASSUME IInv PROVE SlicesApart
      OBVIOUS
    <2>1. region \in Nat /\ (region # 0 => region >= 98304 /\ region >= BURN_DMA_BUFFER_BYTES)
      BY LadderSizes DEF IInv, TypeOK
    <2>2. spu.slices \in {NoSlices, Slices(region)}
          /\ (spu.work.kind = "memtest" /\ region # 0 => spu.slices = Slices(region))
      BY DEF IInv, Groups, Idle, Given, NoWork
    <2>3. /\ slice_size(region) \in Nat /\ slice_size(region) % DMA_MAX_SIZE = 0
          /\ 6 * slice_size(region) <= region
          /\ region # 0 => slice_size(region) > 0
      BY <2>1, SliceFits
    <2>4. burn.active => BURN_DMA_BUFFER_BYTES <= region
      BY <2>1 DEF IInv, Burning, BURN_DMA_BUFFER_BYTES, MiB
    <2>5. CASE spu.slices = NoSlices
      <3>1. \A i \in 0 .. MAX_SPES - 1 : spu.slices[i] = [base |-> 0, size |-> 0]
        BY <2>5 DEF NoSlices
      <3>2. spu.work.kind = "memtest" /\ region # 0 => slice_size(region) = 0
        <4> SUFFICES ASSUME spu.work.kind = "memtest", region # 0 PROVE slice_size(region) = 0
          OBVIOUS
        <4>1. Slices(region)[0] = NoSlices[0]
          BY <2>2, <2>5
        <4> QED
          BY <4>1 DEF Slices, Slice, NoSlices, MAX_SPES
      <3> QED
        BY <2>1, <2>3, <2>4, <3>1, <3>2 DEF SlicesApart, DMA_MAX_SIZE
    <2>6. CASE spu.slices = Slices(region)
      <3>1. \A i \in 0 .. MAX_SPES - 1 :
              spu.slices[i].base = i * slice_size(region) /\ spu.slices[i].size = slice_size(region)
        BY <2>6 DEF Slices, Slice
      <3>2. \A i \in 0 .. MAX_SPES - 1 : i * slice_size(region) + slice_size(region) <= region
        BY <2>1, <2>3 DEF MAX_SPES
      <3>3. \A i, k \in 0 .. MAX_SPES - 1 :
              i < k => i * slice_size(region) + slice_size(region) <= k * slice_size(region)
        <4> SUFFICES ASSUME NEW i \in 0 .. MAX_SPES - 1, NEW k \in 0 .. MAX_SPES - 1, i < k
                     PROVE  i * slice_size(region) + slice_size(region) <= k * slice_size(region)
          OBVIOUS
        <4>1. i \in 0 .. 5 /\ k \in 0 .. 5
          BY DEF MAX_SPES
        <4> HIDE DEF slice_size
        <4> QED
          BY <2>3, <4>1, Multiples
      <3> QED
        BY <2>3, <2>4, <3>1, <3>2, <3>3 DEF SlicesApart, MAX_SPES
    <2> QED
      BY <2>2, <2>5, <2>6
  <1> QED
    BY <1>1, Inductive, PTL

(* No window of the performance counters is left open over a frame but     *)
(* the sampler's, where cell_pmu_tick will close it.                       *)
THEOREM WindowsHaveOwners == Spec => []WindowHasOwner
  <1>1. IInv => WindowHasOwner
    BY DEF IInv, Windowed, WindowHasOwner
  <1> QED
    BY <1>1, Inductive, PTL
=============================================================================
