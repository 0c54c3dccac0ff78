----------------------------- MODULE CellPages ------------------------------
(***************************************************************************)
(* The continuous SPE pages and the performance counters (DECR build): the *)
(* cell and xdr modules of engine/bench_modules.c start, stop and restart  *)
(* the stress group of engine/spu.c; engine/cell_pmu.c samples SPE 0 in    *)
(* 100 ms windows from the main loop; the ppe page opens and closes a      *)
(* window of its own around every batch (benches/ppe, ppe_run_batch) on    *)
(* the same counters (engine/pmu.c); ppu/main.c watches the memtest        *)
(* passes; and the burn page (benches/burn) has a group of its own.        *)
(*                                                                         *)
(* The pages are modelled in a ring as the engine turns them, with one     *)
(* kind, "other", that leaves nothing behind (FabricPages, Mandelbrot and  *)
(* Disk show it).  A sample is what its window observed; a history is      *)
(* abstracted to the sample pushed last and the key it had then.           *)
(***************************************************************************)
EXTENDS SpeRegion, Sequences, FiniteSets

CONSTANTS
  COMPUTE_COUNT,          \* compute kernels of the cell page
  MEMTEST_COUNT,          \* tests of the xdr page
  PPE_PMU_PROFILE_COUNT,  \* event profiles the ppe page rotates
  PPE_BENCH_COUNT,        \* benches of the ppe page
  MaxPasses               \* bound: memtest passes between two starts

ASSUME CountAssumption ==
  /\ COMPUTE_COUNT \in Nat \ {0} /\ MEMTEST_COUNT \in Nat \ {0}
  /\ PPE_PMU_PROFILE_COUNT \in Nat \ {0} /\ PPE_BENCH_COUNT \in Nat \ {0}
  /\ MaxPasses \in Nat

MEMTEST_AUTO_CYCLE == 255

PageRing    == <<"cell", "xdr", "ppe", "other", "burn", "other">>
StressPages == {"cell", "xdr"}

(* What may be running, or may have been measured.                         *)
Compute(c) == [kind |-> "compute", id |-> c]
Memtest(t) == [kind |-> "memtest", id |-> t]
Ppe(b)     == [kind |-> "ppe", id |-> b]
Profile(p) == [kind |-> "profile", id |-> p]   \* a history of the ppe page
NoWork     == [kind |-> "none", id |-> 0]

VARIABLES
  phase,       \* where the main loop is
  page,        \* position of the current page in PageRing
  compute,     \* current_compute
  memtest,     \* current_memtest
  mode,        \* current_mode
  active,      \* g_cell_active, g_xdr_active
  spu,         \* the stress group: see Started
  burn,        \* the burn-in's group: see BurnStarted
  region,      \* memtest_region_size, 0 without a region
  pass,        \* spe_results[0].memtest_pass
  lastLogged,  \* last_logged_pass
  pmu,         \* g_active and what the open window observes
  sampler,     \* s_state of cell_pmu.c
  histKernel,  \* s_history_kernel
  ppeBench,    \* current_ppe_bench
  ppeHist,     \* g_ppe_pmu_history_bench and g_ppe_pmu_profile_idx
  pushed       \* the last sample pushed, and the key of the history it entered

vars      == <<phase, page, compute, memtest, mode, active, spu, burn, region, pass,
               lastLogged, pmu, sampler, histKernel, ppeBench, ppeHist, pushed>>
selection == <<page, compute, memtest, mode, ppeBench, region>>
groupVars == <<active, spu, burn>>
pmuVars   == <<sampler, histKernel, ppeHist, pushed>>

Page == PageRing[page]

NoWindow == [source |-> "none", profile |-> 0, work |-> NoWork, cut |-> FALSE]
NoPush   == [to |-> "none", key |-> NoWork, sample |-> NoWindow]

-----------------------------------------------------------------------------
(* engine/spu.c.  groups: thread groups that exist in the kernel; work:    *)
(* what the started one executes; num: num_spes_active; slices: what the   *)
(* parameters of its SPEs say of the region.                               *)

Outcomes == {"create", "thread", "start", "ok"}  \* the call that failed, or none

Given(w, r) == IF w.kind = "memtest" /\ r # 0 THEN Slices(r) ELSE NoSlices

(* Mutant of Started: the group is not destroyed when it cannot be started. *)
Started_GroupKept(s, w, r, out) ==
  IF out = "ok"
  THEN [groups |-> s.groups + 1, work |-> w, num |-> MAX_SPES, slices |-> Given(w, r)]
  ELSE IF out = "create" THEN s
  ELSE [s EXCEPT !.num = 0, !.groups = IF out = "start" THEN @ + 1 ELSE @]

(* start_spu_stress: after a failure of sys_spu_thread_initialize or       *)
(* sys_spu_thread_group_start the created group is destroyed again.        *)
Started(s, w, r, out) ==
  IF out = "ok"
  THEN [groups |-> s.groups + 1, work |-> w, num |-> MAX_SPES, slices |-> Given(w, r)]
  ELSE IF out = "create" THEN s
  ELSE [s EXCEPT !.num = 0]

(* stop_spu_stress: terminate, join, destroy.                              *)
Stopped(s) == [groups |-> s.groups - 1, work |-> NoWork, num |-> 0, slices |-> NoSlices]

(* benches/burn: burn_start ...  Without a region it is disabled.          *)
BurnStarted(b, r, out) ==
  IF r # 0 /\ ~b.active /\ out = "ok" THEN [groups |-> b.groups + 1, active |-> TRUE] ELSE b

(* ... and burn_stop: the stop word, and the group is terminated at once.  *)
BurnStopped(b) == IF b.active THEN [groups |-> b.groups - 1, active |-> FALSE] ELSE b

-----------------------------------------------------------------------------
(* engine/pmu.c.                                                           *)

(* pmu_begin, pmu_begin_spu: one window at a time; libperf may refuse.     *)
Begun(p, window, ok) ==
  IF p.active \/ ~ok THEN p ELSE [active |-> TRUE, window |-> window]

(* pmu_end_and_read closes the window whoever opened it; the counters may  *)
(* be unreadable.  ReadOk: out->ok.                                        *)
Ended == [active |-> FALSE, window |-> NoWindow]
ReadOk(p, readable) == p.active /\ readable

-----------------------------------------------------------------------------
Init ==
  /\ phase = "enter" /\ page = 1
  /\ compute = 0 /\ memtest = MEMTEST_AUTO_CYCLE /\ mode = Compute(0)
  /\ active = [p \in StressPages |-> FALSE]
  /\ spu = [groups |-> 0, work |-> NoWork, num |-> 0, slices |-> NoSlices]
  /\ burn = [groups |-> 0, active |-> FALSE]
  /\ region \in RegionSizes
  /\ pass = 0 /\ lastLogged = 0
  /\ pmu = Ended /\ sampler = "idle" /\ histKernel = NoWork
  /\ ppeBench = 0 /\ ppeHist = [bench |-> -1, profile |-> 0]
  /\ pushed = NoPush

(* The modules' stop hooks.  A window that watches SPE 0 loses its thread. *)
StopPage ==
  IF Page \in StressPages /\ active[Page]
  THEN /\ spu' = Stopped(spu)
       /\ active' = [active EXCEPT ![Page] = FALSE]
       /\ pmu' = IF pmu.active THEN [pmu EXCEPT !.window.cut = TRUE] ELSE pmu
       /\ UNCHANGED burn
  ELSE /\ burn' = IF Page = "burn" THEN BurnStopped(burn) ELSE burn
       /\ UNCHANGED <<spu, active, pmu>>

(* What the start hook of a page runs.                                     *)
Selected(p) == IF p = "cell" THEN Compute(compute) ELSE Memtest(memtest)

(* The start hooks (the cell page's at startup, too).                      *)
EnterPage(out) ==
  /\ phase = "enter"
  /\ IF Page \in StressPages
     THEN /\ spu' = Started(spu, Selected(Page), region, out)
          /\ active' = IF out = "ok" THEN [active EXCEPT ![Page] = TRUE] ELSE active
          /\ pass' = IF out = "create" THEN pass ELSE 0
          /\ UNCHANGED burn
     ELSE /\ burn' = IF Page = "burn" THEN BurnStarted(burn, region, out) ELSE burn
          /\ UNCHANGED <<spu, active, pass>>
  /\ phase' = "pass"
  /\ UNCHANGED <<selection, lastLogged, pmu, pmuVars>>

NoInput ==
  /\ phase = "input"
  /\ phase' = "pass"
  /\ UNCHANGED <<selection, groupVars, pass, lastLogged, pmu, pmuVars>>

(* L2/R2: the engine stops the module and turns the page.                  *)
TurnPage(dir) ==
  /\ phase = "input"
  /\ StopPage
  /\ page' = ((page - 1 + dir) % Len(PageRing)) + 1
  /\ phase' = "enter"
  /\ UNCHANGED <<compute, memtest, mode, ppeBench, region, pass, lastLogged, pmuVars>>

(* cell_input.                                                             *)
SelectCompute(dir) ==
  /\ phase = "input" /\ Page = "cell"
  /\ StopPage
  /\ compute' = (compute + dir) % COMPUTE_COUNT
  /\ mode' = Compute(compute')
  /\ phase' = "enter"
  /\ UNCHANGED <<page, memtest, ppeBench, region, pass, lastLogged, pmuVars>>

(* Mutant of NextMemtest: one test too many.                               *)
NextMemtest_OffByOne(t, dir) ==
  IF t = MEMTEST_AUTO_CYCLE THEN IF dir < 0 THEN MEMTEST_COUNT - 1 ELSE 0
  ELSE IF t + dir \in 0 .. MEMTEST_COUNT THEN t + dir ELSE MEMTEST_AUTO_CYCLE

(* The test after or before t in the cycle 0, ..., MEMTEST_COUNT - 1, all. *)
NextMemtest(t, dir) ==
  IF t = MEMTEST_AUTO_CYCLE THEN IF dir < 0 THEN MEMTEST_COUNT - 1 ELSE 0
  ELSE IF t + dir \in 0 .. MEMTEST_COUNT - 1 THEN t + dir ELSE MEMTEST_AUTO_CYCLE

(* xdr_input.                                                              *)
SelectMemtest(dir) ==
  /\ phase = "input" /\ Page = "xdr"
  /\ StopPage
  /\ memtest' = NextMemtest(memtest, dir)
  /\ phase' = "enter"
  /\ UNCHANGED <<page, compute, mode, ppeBench, region, pass, lastLogged, pmuVars>>

(* ppe_input.                                                              *)
SelectPpe(dir) ==
  /\ phase = "input" /\ Page = "ppe"
  /\ ppeBench' = (ppeBench + dir) % PPE_BENCH_COUNT
  /\ phase' = "pass"
  /\ UNCHANGED <<page, compute, memtest, mode, region, groupVars, pass, lastLogged, pmu, pmuVars>>

(* The exit chord: cellmark_engine_shutdown stops the current module.      *)
Shutdown ==
  /\ phase = "input"
  /\ StopPage
  /\ phase' = "exited"
  /\ UNCHANGED <<selection, pass, lastLogged, pmuVars>>

(* main.c logs a pass that the memtest completed.                          *)
LogPass ==
  /\ phase = "pass"
  /\ lastLogged' = IF mode.kind = "memtest" /\ spu.num > 0 /\ pass > lastLogged
                   THEN pass ELSE lastLogged
  /\ phase' = "tick"
  /\ UNCHANGED <<selection, groupVars, pass, pmu, pmuVars>>

(* ppe_run_batch.  A new bench resets the histories and the rotation; the  *)
(* result of pmu_begin is not looked at.                                   *)
PpeBatch(rotate, ok, readable) ==
  /\ phase = "tick" /\ Page = "ppe"
  /\ LET same    == ppeHist.bench = ppeBench
         profile == IF ~same THEN 0
                    ELSE IF rotate THEN (ppeHist.profile + 1) % PPE_PMU_PROFILE_COUNT
                    ELSE ppeHist.profile
         open    == Begun(pmu, [source |-> "ppe", profile |-> profile,
                                work |-> Ppe(ppeBench), cut |-> FALSE], ok)
     IN  /\ ppeHist' = [bench |-> ppeBench, profile |-> profile]
         /\ pushed' = IF ReadOk(open, readable)
                      THEN [to |-> "ppe", key |-> Profile(profile), sample |-> open.window]
                      ELSE pushed
         /\ pmu' = IF open.active THEN Ended ELSE open
  /\ phase' = "pmu"
  /\ UNCHANGED <<selection, groupVars, pass, lastLogged, sampler, histKernel>>

OtherTick ==
  /\ phase = "tick" /\ Page # "ppe"
  /\ phase' = "pmu"
  /\ UNCHANGED <<selection, groupVars, pass, lastLogged, pmu, pmuVars>>

-----------------------------------------------------------------------------
(* cell_pmu_tick.  due: the 900 ms pause or the 100 ms window is over.     *)

CellActive == Page \in StressPages /\ spu.num > 0

CellPmuRest == UNCHANGED <<selection, groupVars, pass, lastLogged, ppeHist>>

(* Mutant of CellPmuInactive: the open window is not closed.               *)
CellPmuInactive_NotEnded ==
  /\ phase = "pmu" /\ ~CellActive
  /\ UNCHANGED pmu
  /\ sampler' = "idle"
  /\ phase' = "input"
  /\ UNCHANGED <<histKernel, pushed>> /\ CellPmuRest

(* Not on a stress page: a window still open is read and dropped.          *)
CellPmuInactive ==
  /\ phase = "pmu" /\ ~CellActive
  /\ pmu' = IF sampler = "measuring" THEN Ended ELSE pmu
  /\ sampler' = "idle"
  /\ phase' = "input"
  /\ UNCHANGED <<histKernel, pushed>> /\ CellPmuRest

CellPmuWait ==
  /\ phase = "pmu" /\ CellActive
  /\ histKernel' = mode
  /\ phase' = "input"
  /\ UNCHANGED <<pmu, sampler, pushed>> /\ CellPmuRest

(* The pause is over: a window on SPE 0 is opened.                         *)
CellPmuBegin(ok) ==
  /\ phase = "pmu" /\ CellActive /\ sampler = "idle"
  /\ histKernel' = mode
  /\ pmu' = Begun(pmu, [source |-> "cell", profile |-> 0, work |-> spu.work,
                        cut |-> FALSE], ok)
  /\ sampler' = IF ~pmu.active /\ ok THEN "measuring" ELSE "idle"
  /\ phase' = "input"
  /\ UNCHANGED pushed /\ CellPmuRest

(* The window is over: its counters enter the history of the current mode. *)
CellPmuRead(readable) ==
  /\ phase = "pmu" /\ CellActive /\ sampler = "measuring"
  /\ histKernel' = mode
  /\ pushed' = IF ReadOk(pmu, readable)
               THEN [to |-> "cell", key |-> mode, sample |-> pmu.window] ELSE pushed
  /\ pmu' = Ended
  /\ sampler' = "idle"
  /\ phase' = "input"
  /\ CellPmuRest

(* SPE 0 completes a pass over its slice and publishes the new count.      *)
MemtestPass ==
  /\ phase # "exited" /\ spu.work.kind = "memtest" /\ pass < MaxPasses
  /\ pass' = pass + 1
  /\ UNCHANGED <<phase, selection, groupVars, lastLogged, pmu, pmuVars>>

-----------------------------------------------------------------------------
(* The process has exited.                                                 *)
Exited == phase = "exited" /\ UNCHANGED vars

Next ==
  \/ \E out \in Outcomes : EnterPage(out)
  \/ NoInput \/ Shutdown
  \/ \E dir \in {-1, 1} : \/ TurnPage(dir) \/ SelectCompute(dir)
                          \/ SelectMemtest(dir) \/ SelectPpe(dir)
  \/ LogPass
  \/ \E rotate, ok, readable \in BOOLEAN : PpeBatch(rotate, ok, readable)
  \/ OtherTick
  \/ CellPmuInactive \/ CellPmuWait
  \/ \E ok \in BOOLEAN : CellPmuBegin(ok) \/ CellPmuRead(ok)
  \/ MemtestPass
  \/ Exited

Spec == Init /\ [][Next]_vars

-----------------------------------------------------------------------------
MemtestIds == {MEMTEST_AUTO_CYCLE} \cup 0 .. MEMTEST_COUNT - 1
Works == {NoWork} \cup {Compute(c) : c \in 0 .. COMPUTE_COUNT - 1}
           \cup {Memtest(t) : t \in MemtestIds}
           \cup {Ppe(b) : b \in 0 .. PPE_BENCH_COUNT - 1}
           \cup {Profile(p) : p \in 0 .. PPE_PMU_PROFILE_COUNT - 1}
Windows == [source : {"none", "cell", "ppe"}, profile : 0 .. PPE_PMU_PROFILE_COUNT - 1,
            work : Works, cut : BOOLEAN]

(* Type invariant.                                                         *)
TypeOK ==
  /\ phase \in {"enter", "input", "pass", "tick", "pmu", "exited"}
  /\ page \in DOMAIN PageRing
  /\ compute \in 0 .. COMPUTE_COUNT - 1
  /\ memtest \in MemtestIds
  /\ mode = Compute(compute)
  /\ active \in [StressPages -> BOOLEAN]
  /\ spu.groups \in Nat /\ spu.work \in Works /\ spu.num \in {0, MAX_SPES}
  /\ spu.slices \in [0 .. MAX_SPES - 1 -> [base : Nat, size : Nat]]
  /\ burn \in [groups : Nat, active : BOOLEAN]
  /\ region \in RegionSizes
  /\ pass \in 0 .. MaxPasses /\ lastLogged \in 0 .. MaxPasses
  /\ pmu \in [active : BOOLEAN, window : Windows]
  /\ sampler \in {"idle", "measuring"}
  /\ histKernel \in Works
  /\ ppeBench \in 0 .. PPE_BENCH_COUNT - 1
  /\ ppeHist \in [bench : -1 .. PPE_BENCH_COUNT - 1, profile : 0 .. PPE_PMU_PROFILE_COUNT - 1]
  /\ pushed \in [to : {"none", "cell", "ppe"}, key : Works, sample : Windows]

(* Whatever kernel call fails on whichever page change: the stress group   *)
(* exists exactly while its module is active, on the module's page, runs   *)
(* what the page has selected, and leaves no group behind for the batch    *)
(* pages (which need all six SPEs), for the burn-in, or at exit; and the   *)
(* burn-in's group likewise.                                               *)
GroupServesPage ==
  /\ spu.groups = Cardinality({p \in StressPages : active[p]})
  /\ spu.num = MAX_SPES * spu.groups
  /\ \A p \in StressPages : active[p] => /\ phase \notin {"enter", "exited"}
                                         /\ Page = p /\ spu.work = Selected(p)
  /\ burn.groups = IF burn.active THEN 1 ELSE 0
  /\ burn.active => Page = "burn" /\ phase \notin {"enter", "exited"}

(* Whichever size the ladder has found: the slices of a memtest lie in the *)
(* region, apart from each other, and consist of whole transfers; the      *)
(* burn-in's SPEs, which wrap at BURN_DMA_BUFFER_BYTES, stay inside, too.  *)
SlicesApart ==
  /\ \A i \in 0 .. MAX_SPES - 1 :
       /\ spu.slices[i].base + spu.slices[i].size <= region
       /\ spu.slices[i].size % DMA_MAX_SIZE = 0
       /\ \A k \in 0 .. MAX_SPES - 1 :
            i < k => spu.slices[i].base + spu.slices[i].size <= spu.slices[k].base
  /\ spu.work.kind = "memtest" /\ region # 0 => spu.slices[0].size > 0
  /\ burn.active => BURN_DMA_BUFFER_BYTES <= region

(* Between two frames the counters are either closed or in the hands of    *)
(* the sampler, on a page where it will close them: no window is left open *)
(* that would refuse every later measurement.                              *)
WindowHasOwner ==
  phase = "input" => /\ pmu.active <=> sampler = "measuring"
                     /\ pmu.active => pmu.window.source = "cell" /\ CellActive

(* docs/cell_tuning.md: the cell page's windows are kept "with per-mode    *)
(* history reset": a sample of a compute kernel enters the history of that *)
(* kernel, and its window saw the kernel from begin to end.                *)
(* The code does not keep it (README, Disagreements); no run checks it.    *)
PerModeHistory ==
  pushed.to = "cell" /\ pushed.sample.work.kind = "compute"
    => pushed.sample.work = pushed.key /\ ~pushed.sample.cut

(* docs/cell_tuning.md: "each profile keeping its own rolling history": a  *)
(* sample enters the history of the profile it was counted with.           *)
OwnRollingHistory ==
  pushed.to = "ppe" => pushed.sample.source = "ppe" /\ Profile(pushed.sample.profile) = pushed.key

(* README.md: the log is appended "on every memtest pass": a pass that is  *)
(* visible when the main loop looks is logged in that frame.               *)
(* The code does not keep it (README, Disagreements); no run checks it.    *)
EveryPassLogged ==
  [][phase = "pass" /\ phase' = "tick" /\ active["xdr"] => lastLogged' >= pass]_vars
=============================================================================
