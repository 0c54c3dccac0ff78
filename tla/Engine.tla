------------------------------- MODULE Engine -------------------------------
(***************************************************************************)
(* The bench engine (engine/cellmark_engine.c) and the main loop that      *)
(* drives it (ppu/main.c): the category index is built from the registry,  *)
(* every module is initialised, the selected one is started, and each      *)
(* frame polls the exit callback and the pad, routes the pressed buttons   *)
(* (page change, module change within the page, or the module's own input  *)
(* hook), ticks and renders the selected module.  When the loop ends the   *)
(* selected module is stopped and every module cleaned up.                 *)
(*                                                                         *)
(* Everything runs on the PPU main thread, so a call of the code is one    *)
(* action.  All hooks are optional in the code; a missing hook is a hook   *)
(* with an empty body here.  Module and category positions count from 1    *)
(* (the C arrays from 0); curCat and curInCat count from 0 as in the code. *)
(***************************************************************************)
EXTENDS Integers, Sequences, FiniteSets

CONSTANTS
  Categories,      \* category names
  NoCategory,      \* category = NULL
  Registries,      \* the registries considered (one is linked in)
  MaxCategories,   \* MAX_CATEGORIES
  PadStates        \* sets of buttons the pad may report held

ASSUME RegistryAssumption ==
  /\ NoCategory \notin Categories
  /\ Registries \subseteq Seq(Categories \cup {NoCategory})
ASSUME BoundAssumption == MaxCategories \in Nat \ {0}

VARIABLES
  registry,        \* category of each module of cellmark_bench_registry
  phase,           \* where the main thread is
  i,               \* loop index of build_category_index, init and shutdown
  cats,            \* g_categories[0 .. g_num_categories-1]
  curCat,          \* g_current_cat
  curInCat,        \* g_current_in_cat
  prevBtns,        \* prev_btns1/2: buttons held at the previous pad read
  appRunning,      \* app_running
  initOk,          \* initOk[m]: m->init returned 0 (TRUE until it is called)
  running,         \* running[m]: starts minus stops of m so far (observer)
  cleanups,        \* cleanups[m]: cleanup calls of m so far (observer)
  served           \* module whose tick, render or input hook was called in
                   \* the last step, 0 for none (observer)

vars == <<registry, phase, i, cats, curCat, curInCat, prevBtns, appRunning,
          initOk, running, cleanups, served>>
indexVars == <<registry, cats>>

Modules == DOMAIN registry

(* category_info_t                                                         *)
CategoryInfo == [category : Categories, first : Nat, count : Nat]

(* current_module(): 0 stands for the NULL of an empty category index.     *)
Selected(c, k) == IF cats = <<>> THEN 0 ELSE cats[c + 1].first + k
CurrentModule  == Selected(curCat, curInCat)

(* m->start() and m->stop() as the observer counts them.                   *)
Start(r, m) == IF m = 0 THEN r ELSE [r EXCEPT ![m] = @ + 1]
Stop(r, m)  == IF m = 0 THEN r ELSE [r EXCEPT ![m] = @ - 1]

Init ==
  /\ registry \in Registries
  /\ phase = "index" /\ i = 1
  /\ cats = <<>> /\ curCat = 0 /\ curInCat = 0
  /\ prevBtns = {} /\ appRunning = TRUE
  /\ initOk   = [m \in Modules |-> TRUE]
  /\ running  = [m \in Modules |-> 0]
  /\ cleanups = [m \in Modules |-> 0]
  /\ served = 0

-----------------------------------------------------------------------------
(* build_category_index: one iteration of its loop per action.  The        *)
(* category being filled, cur_cat, is always that of the last entry.       *)

InLastCategory(c) == cats # <<>> /\ cats[Len(cats)].category = c

IndexKeeps == UNCHANGED <<registry, curCat, curInCat, prevBtns, appRunning,
                          initOk, running, cleanups, served>>

(* Mutant of IndexSame: the module is not added to the count of its page.  *)
IndexSame_NotCounted ==
  /\ phase = "index" /\ i <= Len(registry)
  /\ registry[i] # NoCategory /\ InLastCategory(registry[i])
  /\ i' = i + 1
  /\ UNCHANGED <<phase, cats>> /\ IndexKeeps

(* A module without a category is left out of the index.                   *)
IndexSkip ==
  /\ phase = "index" /\ i <= Len(registry)
  /\ registry[i] = NoCategory
  /\ i' = i + 1
  /\ UNCHANGED <<phase, cats>> /\ IndexKeeps

(* A module of the category being filled.                                  *)
IndexSame ==
  /\ phase = "index" /\ i <= Len(registry)
  /\ registry[i] # NoCategory /\ InLastCategory(registry[i])
  /\ cats' = [cats EXCEPT ![Len(cats)].count = @ + 1]
  /\ i' = i + 1
  /\ UNCHANGED phase /\ IndexKeeps

(* A module of another category than the last one opens an entry.          *)
IndexNew ==
  /\ phase = "index" /\ i <= Len(registry)
  /\ registry[i] # NoCategory /\ ~InLastCategory(registry[i])
  /\ Len(cats) < MaxCategories
  /\ cats' = Append(cats, [category |-> registry[i], first |-> i, count |-> 1])
  /\ i' = i + 1
  /\ UNCHANGED phase /\ IndexKeeps

(* A category too many: the warning is printed and the loop is left.       *)
IndexTruncate ==
  /\ phase = "index" /\ i <= Len(registry)
  /\ registry[i] # NoCategory /\ ~InLastCategory(registry[i])
  /\ Len(cats) >= MaxCategories
  /\ phase' = "init" /\ i' = 1
  /\ UNCHANGED cats /\ IndexKeeps

IndexDone ==
  /\ phase = "index" /\ i > Len(registry)
  /\ phase' = "init" /\ i' = 1
  /\ UNCHANGED cats /\ IndexKeeps

-----------------------------------------------------------------------------
(* The rest of cellmark_engine_init.                                       *)

(* m->init; a non-zero result is printed and otherwise ignored.            *)
InitModule(ok) ==
  /\ phase = "init" /\ i <= Len(registry)
  /\ initOk' = [initOk EXCEPT ![i] = ok]
  /\ i' = i + 1
  /\ UNCHANGED <<indexVars, phase, curCat, curInCat, prevBtns, appRunning,
                 running, cleanups, served>>

StartFirst ==
  /\ phase = "init" /\ i > Len(registry)
  /\ running' = Start(running, CurrentModule)
  /\ phase' = "poll"
  /\ UNCHANGED <<indexVars, i, curCat, curInCat, prevBtns, appRunning,
                 initOk, cleanups, served>>

-----------------------------------------------------------------------------
(* One frame: poll and handle input, tick, render.                         *)

(* Mutants of SwitchTo: the old module is not stopped; a new page keeps    *)
(* the position within the old one.                                        *)
SwitchTo_NoStop(c, k) ==
  /\ running' = Start(running, Selected(c, k))
  /\ curCat' = c /\ curInCat' = k
  /\ served' = 0
SwitchTo_KeepPosition(c, k) ==
  LET q == IF c = curCat THEN k ELSE curInCat
  IN  /\ running' = Start(Stop(running, CurrentModule), Selected(c, q))
      /\ curCat' = c /\ curInCat' = q
      /\ served' = 0

(* switch_to(c, k): stop the old module, select, start the new one.        *)
SwitchTo(c, k) ==
  /\ running' = Start(Stop(running, CurrentModule), Selected(c, k))
  /\ curCat' = c /\ curInCat' = k
  /\ served' = 0

ForwardInput ==
  /\ served' = CurrentModule
  /\ UNCHANGED <<curCat, curInCat, running>>

(* Directions as handle_input decodes them: a later test overrides.        *)
CatDir(pressed) == IF "R2" \in pressed THEN 1 ELSE IF "L2" \in pressed THEN -1 ELSE 0
InDir(pressed)  ==
  IF "down" \in pressed THEN 1
  ELSE IF "up" \in pressed THEN -1
  ELSE IF "R1" \in pressed THEN 1
  ELSE IF "L1" \in pressed THEN -1 ELSE 0

(* cellmark_engine_handle_input: page buttons first, then the buttons that *)
(* select within the page (only if it has several modules); anything else  *)
(* goes to the module.                                                     *)
Turned(current, dir, n) == (current + dir + n) % n

TurnsPage(pressed)   == cats # <<>> /\ CatDir(pressed) # 0
TurnsModule(pressed) == /\ cats # <<>> /\ ~TurnsPage(pressed)
                        /\ InDir(pressed) # 0 /\ cats[curCat + 1].count > 1

HandleInput(pressed) ==
  \/ /\ TurnsPage(pressed)
     /\ LET nc == Turned(curCat, CatDir(pressed), Len(cats))
        IN  IF nc # curCat
            THEN SwitchTo(nc, 0)
            ELSE served' = 0 /\ UNCHANGED <<curCat, curInCat, running>>
  \/ /\ TurnsModule(pressed)
     /\ SwitchTo(curCat, Turned(curInCat, InDir(pressed), cats[curCat + 1].count))
  \/ /\ ~TurnsPage(pressed) /\ ~TurnsModule(pressed)
     /\ ForwardInput

(* Mutant of Frame: the held buttons are taken as pressed.                 *)
Frame_HeldAsPressed(quit, held) ==
  /\ phase = "poll" /\ appRunning
  /\ prevBtns' = held
  /\ appRunning' = ~(quit \/ {"select", "start"} \subseteq held)
  /\ HandleInput(held)
  /\ phase' = "tick"
  /\ UNCHANGED <<indexVars, i, initOk, cleanups>>

(* The head of the loop and the pad read.  quit: the system asked the      *)
(* application to exit (sysutil_callback).  The frame in which app_running *)
(* drops is completed.                                                     *)
Frame(quit, held) ==
  /\ phase = "poll" /\ appRunning
  /\ prevBtns' = held
  /\ appRunning' = ~(quit \/ {"select", "start"} \subseteq held)
  /\ HandleInput(held \ prevBtns)
  /\ phase' = "tick"
  /\ UNCHANGED <<indexVars, i, initOk, cleanups>>

(* cellPadGetData returned no data: no input is handled in this frame.     *)
FrameNoPad(quit) ==
  /\ phase = "poll" /\ appRunning
  /\ appRunning' = ~quit
  /\ served' = 0
  /\ phase' = "tick"
  /\ UNCHANGED <<indexVars, i, curCat, curInCat, prevBtns, initOk, running,
                 cleanups>>

Tick ==
  /\ phase = "tick"
  /\ served' = CurrentModule
  /\ phase' = "render"
  /\ UNCHANGED <<indexVars, i, curCat, curInCat, prevBtns, appRunning, initOk,
                 running, cleanups>>

Render ==
  /\ phase = "render"
  /\ served' = CurrentModule
  /\ phase' = "poll"
  /\ UNCHANGED <<indexVars, i, curCat, curInCat, prevBtns, appRunning, initOk,
                 running, cleanups>>

-----------------------------------------------------------------------------
(* cellmark_engine_shutdown.                                               *)

(* Mutant of StopCurrent: the running module is not stopped.               *)
StopCurrent_Forgotten ==
  /\ phase = "poll" /\ ~appRunning
  /\ phase' = "cleanup" /\ i' = 1 /\ served' = 0
  /\ UNCHANGED <<indexVars, curCat, curInCat, prevBtns, appRunning, initOk,
                 running, cleanups>>

StopCurrent ==
  /\ phase = "poll" /\ ~appRunning
  /\ running' = Stop(running, CurrentModule)
  /\ phase' = "cleanup" /\ i' = 1 /\ served' = 0
  /\ UNCHANGED <<indexVars, curCat, curInCat, prevBtns, appRunning, initOk,
                 cleanups>>

(* Mutant of CleanupModule: only modules whose init succeeded are cleaned. *)
CleanupModule_OnlyInitialised ==
  /\ phase = "cleanup" /\ i <= Len(registry)
  /\ cleanups' = IF initOk[i] THEN [cleanups EXCEPT ![i] = @ + 1] ELSE cleanups
  /\ i' = i + 1
  /\ UNCHANGED <<indexVars, phase, curCat, curInCat, prevBtns, appRunning,
                 initOk, running, served>>

CleanupModule ==
  /\ phase = "cleanup" /\ i <= Len(registry)
  /\ cleanups' = [cleanups EXCEPT ![i] = @ + 1]
  /\ i' = i + 1
  /\ UNCHANGED <<indexVars, phase, curCat, curInCat, prevBtns, appRunning,
                 initOk, running, served>>

ShutdownDone ==
  /\ phase = "cleanup" /\ i > Len(registry)
  /\ phase' = "done"
  /\ UNCHANGED <<indexVars, i, curCat, curInCat, prevBtns, appRunning, initOk,
                 running, cleanups, served>>

(* The process has exited.                                                 *)
Exited == phase = "done" /\ UNCHANGED vars

-----------------------------------------------------------------------------
MainThread ==
  \/ IndexSkip \/ IndexSame \/ IndexNew \/ IndexTruncate \/ IndexDone
  \/ \E ok \in BOOLEAN : InitModule(ok)
  \/ StartFirst
  \/ \E quit \in BOOLEAN : FrameNoPad(quit) \/ \E held \in PadStates : Frame(quit, held)
  \/ Tick \/ Render
  \/ StopCurrent \/ CleanupModule \/ ShutdownDone

Next == MainThread \/ Exited

Spec     == Init /\ [][Next]_vars
(* The main thread keeps running: no hook blocks for ever.                 *)
FairSpec == Spec /\ WF_vars(MainThread)

-----------------------------------------------------------------------------
Phases == {"index", "init", "poll", "tick", "render", "cleanup", "done"}

(* Type invariant.                                                         *)
TypeOK ==
  /\ registry \in Registries
  /\ phase \in Phases
  /\ i \in 1 .. Len(registry) + 1
  /\ cats \in Seq(CategoryInfo)
  /\ curCat \in Nat /\ curInCat \in Nat
  /\ prevBtns \in PadStates \cup {{}}
  /\ appRunning \in BOOLEAN
  /\ initOk \in [Modules -> BOOLEAN]
  /\ running \in [Modules -> Int]
  /\ cleanups \in [Modules -> Nat]
  /\ served \in {0} \cup Modules

(* The abstract lifecycle, read off the engine's observers.                *)
Lives == [m \in Modules |->
            IF cleanups[m] = 1 /\ running[m] = 0 THEN "cleaned"
            ELSE IF cleanups[m] # 0 \/ running[m] \notin {0, 1} THEN "broken"
            ELSE IF running[m] = 1 THEN "running"
            ELSE IF phase = "index" \/ (phase = "init" /\ i <= m) THEN "new"
            ELSE "idle"]

Lifecycle == INSTANCE BenchLifecycle WITH life <- Lives, served <- served

(* The engine calls the hooks of every module in the order bench.h         *)
(* promises: init once, start and stop alternating, tick, render and input *)
(* only in between, cleanup once after the last stop.                      *)
LifecycleSpec == Lifecycle!Spec

(* current_module() never indexes outside g_categories or the registry,    *)
(* whatever mix of uncategorised, repeated and truncated categories was    *)
(* linked in, and finds no module only if none has a category.             *)
SelectionInRange ==
  phase \in {"poll", "tick", "render"} =>
    \/ cats = <<>> /\ CurrentModule = 0 /\ \A m \in Modules : registry[m] = NoCategory
    \/ curCat < Len(cats) /\ curInCat < cats[curCat + 1].count /\ CurrentModule \in Modules

(* Exactly the selected module runs while frames are drawn, and none       *)
(* before the first start or after shutdown's stop.                        *)
OnlySelectedRuns ==
  \A m \in Modules :
    running[m] = IF phase \in {"poll", "tick", "render"} /\ m = CurrentModule THEN 1 ELSE 0

(* A registry as the shipped one: every module has a category, and each    *)
(* category's modules are adjacent.                                        *)
Grouped(r) ==
  /\ \A m \in DOMAIN r : r[m] # NoCategory
  /\ \A a, b, c \in DOMAIN r : a < b /\ b < c /\ r[a] = r[c] => r[b] = r[a]

PageOf(m) == {p \in DOMAIN cats : cats[p].first <= m /\ m < cats[p].first + cats[p].count}

(* For a grouped registry whose categories fit the table, every module is  *)
(* on exactly one page, that of its category, so that it can be navigated  *)
(* to: build_category_index loses and doubles nothing.                     *)
PagesPartition ==
  /\ phase # "index"
  /\ Grouped(registry)
  /\ Cardinality({registry[m] : m \in Modules}) <= MaxCategories
  => \A m \in Modules :
      \E p \in PageOf(m) : PageOf(m) = {p} /\ cats[p].category = registry[m]

(* bench.h: the engine "never calls tick/render/stop before init           *)
(* succeeded"; a non-zero init must "permanently disable this bench".      *)
(* The code does not keep it (README, Disagreements); no run checks it.    *)
FailedInitNeverRuns == \A m \in Modules : ~initOk[m] => running[m] = 0

(* A held button acts once: with the same buttons held as at the last pad  *)
(* read, a frame does not change the selection.                            *)
HeldButtonsActOnce ==
  [][prevBtns' = prevBtns => UNCHANGED <<curCat, curInCat>>]_vars

(* Once the exit was requested every module is cleaned up, exactly once.   *)
ExitCleansUp ==
  ~appRunning ~> (phase = "done" /\ \A m \in Modules : cleanups[m] = 1)
=============================================================================
