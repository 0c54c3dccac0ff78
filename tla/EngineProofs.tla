---------------------------- MODULE EngineProofs ----------------------------
(***************************************************************************)
(* Proofs about Engine: type correctness, that the selection stays within  *)
(* the tables, that exactly the selected module runs, and that the engine  *)
(* implements the lifecycle of BenchLifecycle, for every registry.         *)
(***************************************************************************)
EXTENDS Engine, FiniteSetTheorems, TLAPS

(* Every entry of the index lies within the registry; while the index is   *)
(* built, within the part already scanned.                                 *)
IndexInv ==
  \A p \in DOMAIN cats :
    /\ cats[p].first >= 1 /\ cats[p].count >= 1
    /\ cats[p].first + cats[p].count <= Len(registry) + 1
    /\ phase = "index" => cats[p].first + cats[p].count <= i

(* An empty index so far: no module seen so far has a category.            *)
EmptyInv ==
  cats = <<>> => \A m \in Modules :
                   phase # "index" \/ m < i => registry[m] = NoCategory

(* The selection is an entry of the index, or both are empty.              *)
SelectionInv ==
  \/ cats = <<>> /\ curCat = 0 /\ curInCat = 0
  \/ cats # <<>> /\ curCat < Len(cats) /\ curInCat < cats[curCat + 1].count

(* Cleanup happens in registry order, in the last phase only.              *)
CleanupInv ==
  \A m \in Modules :
    cleanups[m] = IF phase = "done" \/ (phase = "cleanup" /\ m < i) THEN 1 ELSE 0

(* Modules are served by frames only.                                      *)
ServedInv == phase \in {"index", "init", "cleanup", "done"} => served = 0

LifecycleInv == OnlySelectedRuns /\ CleanupInv /\ ServedInv

IInv == TypeOK /\ IndexInv /\ EmptyInv /\ SelectionInv /\ LifecycleInv

-----------------------------------------------------------------------------
(* The remainder that turns a page stays below the number of pages.        *)
LEMMA TurnedRange ==
  ASSUME NEW c \in Nat, NEW d \in Int, NEW n \in Nat \ {0}
  PROVE  Turned(c, d, n) \in Nat /\ Turned(c, d, n) < n
  BY DEF Turned

(* The registry is a sequence; its domain are the module positions.        *)
LEMMA RegistryIsSeq ==
  ASSUME TypeOK
  PROVE  /\ registry \in Seq(Categories \cup {NoCategory})
         /\ Len(registry) \in Nat
         /\ Modules = 1 .. Len(registry)
  BY RegistryAssumption DEF TypeOK, Modules

(* Both directions are integers.                                           *)
LEMMA DirType == \A pressed : CatDir(pressed) \in Int /\ InDir(pressed) \in Int
  BY DEF CatDir, InDir

(* A selection within the index selects a registered module.               *)
LEMMA SelectedType ==
  ASSUME TypeOK, IndexInv, NEW c \in Nat, NEW k \in Nat,
         cats = <<>> \/ (c < Len(cats) /\ k < cats[c + 1].count)
  PROVE  /\ Selected(c, k) \in {0} \cup Modules
         /\ cats # <<>> => Selected(c, k) \in Modules
<1>1. CASE cats = <<>>
  BY <1>1 DEF Selected
<1>2. CASE cats # <<>> /\ c < Len(cats) /\ k < cats[c + 1].count
  <2>1. c + 1 \in DOMAIN cats
    BY <1>2 DEF TypeOK
  <2>2. cats[c + 1].first \in Nat /\ cats[c + 1].count \in Nat
    <3>1. cats[c + 1] \in CategoryInfo
      BY <2>1 DEF TypeOK
    <3> QED
      BY <3>1 DEF CategoryInfo
  <2>3. /\ cats[c + 1].first >= 1
        /\ cats[c + 1].first + cats[c + 1].count <= Len(registry) + 1
    BY <2>1 DEF IndexInv
  <2> QED
    BY <1>2, <2>2, <2>3, RegistryIsSeq DEF Selected
<1> QED
  BY <1>1, <1>2

LEMMA InitIInv == Init => IInv
<1> SUFFICES ASSUME Init PROVE IInv
  OBVIOUS
<1>1. Len(registry) \in Nat /\ Modules = 1 .. Len(registry)
  BY RegistryAssumption DEF Init, Modules
<1>2. TypeOK
  BY <1>1 DEF Init, TypeOK, Phases
<1>3. IndexInv /\ EmptyInv /\ SelectionInv
  BY <1>1 DEF Init, IndexInv, EmptyInv, SelectionInv
<1>4. LifecycleInv
  BY <1>1 DEF Init, LifecycleInv, OnlySelectedRuns, CleanupInv, ServedInv, Modules
<1> QED
  BY <1>2, <1>3, <1>4 DEF IInv

-----------------------------------------------------------------------------
(* handle_input either switches to an entry of the index or leaves the     *)
(* selection alone.                                                        *)
LEMMA HandleInputCases ==
  ASSUME IInv, NEW pressed, HandleInput(pressed)
  PROVE  \/ \E c, k \in Nat : /\ cats # <<>>
                              /\ c < Len(cats) /\ k < cats[c + 1].count
                              /\ SwitchTo(c, k)
         \/ /\ UNCHANGED <<curCat, curInCat, running>>
            /\ served' \in {0, CurrentModule}
<1>1. curCat \in Nat /\ curInCat \in Nat /\ Len(cats) \in Nat
  BY DEF IInv, TypeOK
<1>2. ASSUME cats # <<>>, NEW c \in Nat, c < Len(cats)
      PROVE  cats[c + 1].count \in Nat \ {0}
  <2>1. c + 1 \in DOMAIN cats
    BY <1>2 DEF IInv, TypeOK
  <2>2. cats[c + 1] \in CategoryInfo
    BY <2>1 DEF IInv, TypeOK
  <2>3. cats[c + 1].count \in Nat
    BY <2>2 DEF CategoryInfo
  <2>4. cats[c + 1].count >= 1
    BY <2>1 DEF IInv, IndexInv
  <2> QED
    BY <2>3, <2>4
<1>3. CASE TurnsPage(pressed)
  <2>1. cats # <<>> /\ Len(cats) \in Nat \ {0}
    BY <1>1, <1>3 DEF TurnsPage, IInv, TypeOK
  <2> DEFINE nc == Turned(curCat, CatDir(pressed), Len(cats))
  <2>2. nc \in Nat /\ nc < Len(cats)
    BY <1>1, <2>1, TurnedRange, DirType
  <2>3. 0 < cats[nc + 1].count
    BY <1>2, <2>1, <2>2
  <2>4. SwitchTo(nc, 0) \/ (served' = 0 /\ UNCHANGED <<curCat, curInCat, running>>)
    BY <1>3 DEF HandleInput, TurnsModule
  <2> QED
    BY <2>1, <2>2, <2>3, <2>4
<1>4. CASE ~TurnsPage(pressed) /\ TurnsModule(pressed)
  <2>1. cats # <<>> /\ curCat < Len(cats)
    BY <1>4 DEF TurnsModule, IInv, SelectionInv
  <2> DEFINE ni == Turned(curInCat, InDir(pressed), cats[curCat + 1].count)
  <2>2. ni \in Nat /\ ni < cats[curCat + 1].count
    BY <1>1, <1>2, <2>1, TurnedRange, DirType
  <2>3. SwitchTo(curCat, ni)
    BY <1>4 DEF HandleInput
  <2> QED
    BY <1>1, <2>1, <2>2, <2>3
<1>5. CASE ~TurnsPage(pressed) /\ ~TurnsModule(pressed)
  BY <1>5 DEF HandleInput, ForwardInput
<1> QED
  BY <1>3, <1>4, <1>5

-----------------------------------------------------------------------------
(* What SwitchTo does to the counts: the target, and only it, runs.        *)
LEMMA SwitchToRuns ==
  ASSUME IInv, phase \in {"poll", "tick", "render"},
         NEW c \in Nat, NEW k \in Nat,
         cats # <<>>, c < Len(cats), k < cats[c + 1].count, SwitchTo(c, k)
  PROVE  /\ Selected(c, k) \in {0} \cup Modules
         /\ running' = [m \in Modules |-> IF m = Selected(c, k) THEN 1 ELSE 0]
<1>1. Selected(c, k) \in {0} \cup Modules /\ CurrentModule \in {0} \cup Modules
  BY SelectedType DEF IInv, TypeOK, SelectionInv, CurrentModule
<1>2. running = [m \in Modules |-> IF m = CurrentModule THEN 1 ELSE 0]
  BY DEF IInv, TypeOK, LifecycleInv, OnlySelectedRuns
<1>3. Stop(running, CurrentModule) = [m \in Modules |-> 0]
  BY <1>1, <1>2 DEF Stop
<1>4. running' = Start([m \in Modules |-> 0], Selected(c, k))
  BY <1>3 DEF SwitchTo
<1>5. 0 \notin Modules
  BY RegistryIsSeq DEF IInv
<1> QED
  BY <1>1, <1>4, <1>5 DEF Start

-----------------------------------------------------------------------------
(* Building the index keeps the invariant: the two actions that write it.  *)
LEMMA IndexSameStep == IInv /\ IndexSame => IInv'
<1> SUFFICES ASSUME IInv, IndexSame PROVE IInv'
  OBVIOUS
<1> USE DEF IInv
<1>1. Len(registry) \in Nat /\ Modules = 1 .. Len(registry) /\ Modules' = Modules
  BY RegistryIsSeq DEF Modules, IndexSame, IndexKeeps
<1>2. /\ cats # <<>> /\ cats \in Seq(CategoryInfo) /\ Len(cats) \in DOMAIN cats
      /\ i \in Nat /\ i <= Len(registry)
  BY DEF TypeOK, InLastCategory, IndexSame
<1> DEFINE last == cats[Len(cats)]
           more == [last EXCEPT !.count = @ + 1]
<1>3. last \in CategoryInfo
  BY <1>2
<1>4. /\ more \in CategoryInfo
      /\ more.first = last.first /\ more.count = last.count + 1
  <2> HIDE DEF last
  <2>1. PICK c \in Categories, f \in Nat, n \in Nat :
          last = [category |-> c, first |-> f, count |-> n]
    BY <1>3 DEF CategoryInfo
  <2>2. more = [category |-> c, first |-> f, count |-> n + 1]
    BY <2>1
  <2> QED
    BY <2>1, <2>2 DEF CategoryInfo
<1>5. /\ cats' = [cats EXCEPT ![Len(cats)] = more]
      /\ cats' \in Seq(CategoryInfo) /\ Len(cats') = Len(cats)
      /\ DOMAIN cats' = DOMAIN cats
  <2>1. cats' = [cats EXCEPT ![Len(cats)] = more]
    BY DEF IndexSame
  <2> HIDE DEF more
  <2> QED
    BY <1>2, <1>4, <2>1
<1>6. \A p \in DOMAIN cats :
        /\ cats'[p].first = cats[p].first
        /\ cats'[p].count = IF p = Len(cats) THEN cats[p].count + 1 ELSE cats[p].count
  <2> HIDE DEF more
  <2> QED
    BY <1>2, <1>4, <1>5
<1> HIDE DEF more, last
<1>b. cats' # <<>>
  BY <1>2, <1>5
<1>a. /\ phase = "index" /\ i' = i + 1
      /\ UNCHANGED <<phase, registry, curCat, curInCat, prevBtns, appRunning,
                     initOk, running, cleanups, served>>
  BY DEF IndexSame, IndexKeeps
<1>7. \A p \in DOMAIN cats : cats[p].first \in Nat /\ cats[p].count \in Nat
  <2>1. \A p \in DOMAIN cats : cats[p] \in CategoryInfo
    BY <1>2
  <2> QED
    BY <2>1 DEF CategoryInfo
<1>8. TypeOK'
  BY <1>1, <1>2, <1>5, <1>a DEF TypeOK
<1>9. IndexInv'
  BY <1>a, <1>1, <1>2, <1>5, <1>6, <1>7 DEF IndexInv
<1>10. SelectionInv'
  <2>1. curCat + 1 \in DOMAIN cats /\ curCat \in Nat /\ curInCat \in Nat
    BY <1>2 DEF SelectionInv, TypeOK
  <2>2. cats'[curCat + 1].count >= cats[curCat + 1].count
    BY <1>6, <1>7, <2>1
  <2>3. cats'[curCat + 1].count \in Nat
    BY <1>6, <1>7, <2>1
  <2>4. curCat < Len(cats) /\ curInCat < cats[curCat + 1].count
    BY <1>2 DEF SelectionInv
  <2>5. cats[curCat + 1].count \in Nat
    BY <1>7, <2>1
  <2>6. curInCat < cats'[curCat + 1].count
    BY <2>1, <2>2, <2>3, <2>4, <2>5
  <2>7. curCat' = curCat /\ curInCat' = curInCat /\ Len(cats') = Len(cats)
    BY <1>5, <1>a
  <2> QED
    BY <1>b, <2>4, <2>6, <2>7 DEF SelectionInv
<1>11. LifecycleInv'
  BY <1>1, <1>a DEF LifecycleInv, OnlySelectedRuns, CleanupInv, ServedInv
<1>12. EmptyInv'
  BY <1>b DEF EmptyInv
<1> QED
  BY <1>8, <1>9, <1>10, <1>11, <1>12

LEMMA IndexNewStep == IInv /\ IndexNew => IInv'
<1> SUFFICES ASSUME IInv, IndexNew PROVE IInv'
  OBVIOUS
<1> USE DEF IInv, IndexNew, IndexKeeps
<1>1. Len(registry) \in Nat /\ Modules = 1 .. Len(registry) /\ Modules' = Modules
  BY RegistryIsSeq DEF Modules
<1>2. i \in Nat /\ i >= 1 /\ i <= Len(registry) /\ cats \in Seq(CategoryInfo)
  BY DEF TypeOK
<1> DEFINE new == [category |-> registry[i], first |-> i, count |-> 1]
<1>3. registry[i] \in Categories
  BY <1>1, <1>2, RegistryIsSeq
<1>4. new \in CategoryInfo
  BY <1>2, <1>3 DEF CategoryInfo
<1>5. /\ cats' = Append(cats, new) /\ cats' \in Seq(CategoryInfo)
      /\ Len(cats') = Len(cats) + 1 /\ Len(cats) \in Nat
      /\ \A p \in DOMAIN cats' : \/ p \in DOMAIN cats /\ cats'[p] = cats[p]
                                 \/ p = Len(cats) + 1 /\ cats'[p] = new
  <2>1. cats' = Append(cats, new)
    OBVIOUS
  <2> HIDE DEF new, IndexNew
  <2> QED
    BY <1>2, <1>4, <2>1
<1>6. \A p \in DOMAIN cats : cats[p].first \in Nat /\ cats[p].count \in Nat
  <2>1. \A p \in DOMAIN cats : cats[p] \in CategoryInfo
    BY <1>2
  <2> QED
    BY <2>1 DEF CategoryInfo
<1>7. TypeOK'
  BY <1>1, <1>2, <1>5 DEF TypeOK
<1>8. IndexInv'
  BY <1>1, <1>2, <1>5, <1>6 DEF IndexInv
<1>9. SelectionInv'
  <2>1. CASE cats = <<>>
    BY <1>2, <1>5, <2>1 DEF SelectionInv, TypeOK
  <2>2. CASE cats # <<>>
    BY <1>2, <1>5, <2>2 DEF SelectionInv, TypeOK
  <2> QED
    BY <2>1, <2>2
<1>10. LifecycleInv'
  BY <1>1 DEF LifecycleInv, OnlySelectedRuns, CleanupInv, ServedInv
<1>11. EmptyInv'
  BY <1>2, <1>5 DEF EmptyInv
<1> QED
  BY <1>7, <1>8, <1>9, <1>10, <1>11

-----------------------------------------------------------------------------
(* The actions that leave the index alone.                                 *)
LEMMA TablesKept ==
  ASSUME IInv, UNCHANGED <<indexVars>>,
         phase' # "index",
         phase = "index" => phase' = "init" /\ i > Len(registry)
  PROVE  IndexInv' /\ EmptyInv' /\ Modules' = Modules
<1> USE DEF IInv, indexVars
<1>1. Modules = 1 .. Len(registry) /\ Len(registry) \in Nat /\ i \in Nat
  BY RegistryIsSeq DEF TypeOK
<1>2. Modules' = Modules
  BY DEF Modules
<1>3. IndexInv'
  BY DEF IndexInv
<1>4. EmptyInv'
  BY <1>1, <1>2 DEF EmptyInv
<1> QED
  BY <1>2, <1>3, <1>4

LEMMA IndexEndStep == IInv /\ (IndexTruncate \/ IndexDone \/ IndexSkip) => IInv'
<1> SUFFICES ASSUME IInv PROVE IndexTruncate \/ IndexDone \/ IndexSkip => IInv'
  OBVIOUS
<1> USE DEF IInv, IndexKeeps
<1>1. /\ Modules = 1 .. Len(registry) /\ Len(registry) \in Nat /\ i \in Nat
      /\ cats \in Seq(CategoryInfo)
  BY RegistryIsSeq DEF TypeOK
<1>2. ASSUME IndexTruncate PROVE IInv'
  <2>1. Modules' = Modules /\ cats # <<>>
    BY <1>1, <1>2, BoundAssumption DEF IndexTruncate, Modules
  <2>2. TypeOK' /\ IndexInv' /\ EmptyInv' /\ SelectionInv'
    BY <1>1, <1>2, <2>1 DEF IndexTruncate, TypeOK, Phases, IndexInv, EmptyInv, SelectionInv
  <2>3. LifecycleInv'
    BY <1>1, <1>2, <2>1 DEF IndexTruncate, LifecycleInv, OnlySelectedRuns, CleanupInv, ServedInv
  <2> QED
    BY <2>2, <2>3
<1>3. ASSUME IndexDone PROVE IInv'
  <2>1. Modules' = Modules
    BY <1>3 DEF IndexDone, Modules
  <2>2. TypeOK' /\ IndexInv' /\ EmptyInv' /\ SelectionInv'
    BY <1>1, <1>3, <2>1 DEF IndexDone, TypeOK, Phases, IndexInv, EmptyInv, SelectionInv
  <2>3. LifecycleInv'
    BY <1>1, <1>3, <2>1 DEF IndexDone, LifecycleInv, OnlySelectedRuns, CleanupInv, ServedInv
  <2> QED
    BY <2>2, <2>3
<1>4. ASSUME IndexSkip PROVE IInv'
  <2>1. Modules' = Modules
    BY <1>4 DEF IndexSkip, Modules
  <2>2. TypeOK' /\ EmptyInv' /\ SelectionInv'
    BY <1>1, <1>4, <2>1 DEF IndexSkip, TypeOK, Phases, EmptyInv, SelectionInv
  <2>3. IndexInv'
    <3>1. \A p \in DOMAIN cats : cats[p] \in CategoryInfo
      BY <1>1
    <3>2. \A p \in DOMAIN cats : cats[p].first \in Nat /\ cats[p].count \in Nat
      BY <3>1 DEF CategoryInfo
    <3> QED
      BY <1>1, <1>4, <3>2 DEF IndexSkip, IndexInv
  <2>4. LifecycleInv'
    BY <1>1, <1>4, <2>1 DEF IndexSkip, LifecycleInv, OnlySelectedRuns, CleanupInv, ServedInv
  <2> QED
    BY <2>2, <2>3, <2>4
<1> QED
  BY <1>2, <1>3, <1>4

(* The main loop: a frame is polled, ticked and rendered.                  *)
LEMMA FrameStep ==
  ASSUME IInv, NEW quit \in BOOLEAN, NEW held,
         \/ held \in PadStates /\ Frame(quit, held)
         \/ FrameNoPad(quit) \/ Tick \/ Render
  PROVE  IInv'
<1> USE DEF IInv
<1>1. /\ Modules = 1 .. Len(registry) /\ Len(registry) \in Nat
      /\ curCat \in Nat /\ curInCat \in Nat /\ cats \in Seq(CategoryInfo)
  BY RegistryIsSeq DEF TypeOK
<1>2. CurrentModule \in {0} \cup Modules
  BY <1>1, SelectedType DEF SelectionInv, CurrentModule
<1>3. IndexInv' /\ EmptyInv' /\ Modules' = Modules
  BY TablesKept DEF Frame, FrameNoPad, Tick, Render
<1>4. phase \in {"poll", "tick", "render"} /\ phase' \in {"poll", "tick", "render"}
  BY DEF Frame, FrameNoPad, Tick, Render
<1>5. CleanupInv'
  BY <1>3, <1>4 DEF LifecycleInv, CleanupInv, Frame, FrameNoPad, Tick, Render
<1>b. ServedInv'
  BY <1>4 DEF ServedInv
<1>6. ASSUME UNCHANGED <<curCat, curInCat, running>>, served' \in {0, CurrentModule}
      PROVE  IInv'
  <2>1. TypeOK'
    BY <1>2, <1>3, <1>6 DEF Frame, FrameNoPad, Tick, Render, TypeOK, Phases, indexVars
  <2>2. SelectionInv' /\ CurrentModule' = CurrentModule
    BY <1>6 DEF Frame, FrameNoPad, Tick, Render, SelectionInv, CurrentModule, Selected, indexVars
  <2>3. OnlySelectedRuns'
    BY <1>3, <1>4, <1>6, <2>2 DEF LifecycleInv, OnlySelectedRuns
  <2> QED
    BY <1>3, <1>5, <1>b, <2>1, <2>2, <2>3 DEF LifecycleInv
<1>7. ASSUME held \in PadStates, Frame(quit, held),
             NEW c \in Nat, NEW k \in Nat, cats # <<>>,
             c < Len(cats), k < cats[c + 1].count, SwitchTo(c, k)
      PROVE  IInv'
  <2>1. /\ Selected(c, k) \in {0} \cup Modules
        /\ running' = [m \in Modules |-> IF m = Selected(c, k) THEN 1 ELSE 0]
    BY <1>4, <1>7, SwitchToRuns
  <2>2. curCat' = c /\ curInCat' = k /\ served' = 0 /\ cats' = cats
    BY <1>7 DEF SwitchTo, Frame, indexVars
  <2>3. TypeOK'
    BY <1>3, <1>7, <2>1, <2>2 DEF Frame, TypeOK, Phases, indexVars
  <2>4. SelectionInv' /\ CurrentModule' = Selected(c, k)
    BY <1>7, <2>2 DEF SelectionInv, CurrentModule, Selected
  <2>5. OnlySelectedRuns'
    BY <1>3, <1>4, <2>1, <2>4 DEF OnlySelectedRuns
  <2> QED
    BY <1>3, <1>5, <1>b, <2>3, <2>4, <2>5 DEF LifecycleInv
<1>8. CASE held \in PadStates /\ Frame(quit, held)
  <2>1. HandleInput(held \ prevBtns)
    BY <1>8 DEF Frame
  <2> QED
    BY <1>6, <1>7, <1>8, <2>1, HandleInputCases
<1>9. CASE FrameNoPad(quit) \/ Tick \/ Render
  BY <1>6, <1>9 DEF FrameNoPad, Tick, Render
<1> QED
  BY <1>8, <1>9

(* The first start and the shutdown.                                       *)
LEMMA OtherStep ==
  ASSUME IInv, NEW ok \in BOOLEAN,
         InitModule(ok) \/ StartFirst \/ StopCurrent \/ CleanupModule \/ ShutdownDone
  PROVE  IInv'
<1> USE DEF IInv, indexVars
<1>1. /\ Modules = 1 .. Len(registry) /\ Len(registry) \in Nat /\ i \in Nat
      /\ curCat \in Nat /\ curInCat \in Nat
  BY RegistryIsSeq DEF TypeOK
<1>2. CurrentModule \in {0} \cup Modules
  BY <1>1, SelectedType DEF SelectionInv, CurrentModule
<1>3. IndexInv' /\ EmptyInv' /\ Modules' = Modules
  BY TablesKept DEF InitModule, StartFirst, StopCurrent, CleanupModule, ShutdownDone
<1>4. SelectionInv' /\ CurrentModule' = CurrentModule
  BY DEF InitModule, StartFirst, StopCurrent, CleanupModule, ShutdownDone,
         SelectionInv, CurrentModule, Selected
<1>5. ASSUME InitModule(ok) PROVE TypeOK' /\ LifecycleInv'
  BY <1>1, <1>3, <1>5 DEF InitModule, TypeOK, Phases, LifecycleInv,
                          OnlySelectedRuns, CleanupInv, ServedInv
<1>6. ASSUME StartFirst PROVE TypeOK' /\ LifecycleInv'
  <2>1. running' = [m \in Modules |-> IF m = CurrentModule THEN 1 ELSE 0]
    <3>1. running = [m \in Modules |-> 0]
      BY <1>6 DEF StartFirst, TypeOK, LifecycleInv, OnlySelectedRuns
    <3>2. 0 \notin Modules
      BY <1>1
    <3> QED
      BY <1>2, <1>6, <3>1, <3>2 DEF StartFirst, Start
  <2>2. TypeOK'
    BY <1>1, <1>3, <1>6, <2>1 DEF StartFirst, TypeOK, Phases
  <2>3. LifecycleInv'
    BY <1>3, <1>4, <1>6, <2>1 DEF StartFirst, LifecycleInv, OnlySelectedRuns, CleanupInv, ServedInv
  <2> QED
    BY <2>2, <2>3
<1>7. ASSUME StopCurrent PROVE TypeOK' /\ LifecycleInv'
  <2>1. running' = [m \in Modules |-> 0]
    <3>1. running = [m \in Modules |-> IF m = CurrentModule THEN 1 ELSE 0]
      BY <1>7 DEF StopCurrent, TypeOK, LifecycleInv, OnlySelectedRuns
    <3>2. running' = Stop(running, CurrentModule)
      BY <1>7 DEF StopCurrent
    <3>3. 0 \notin Modules
      BY <1>1
    <3>4. Stop(running, CurrentModule) = [m \in Modules |-> 0]
      BY <1>2, <3>1, <3>3 DEF Stop
    <3> QED
      BY <3>2, <3>4
  <2>2. TypeOK'
    BY <1>1, <1>3, <1>7, <2>1 DEF StopCurrent, TypeOK, Phases
  <2>3. LifecycleInv'
    BY <1>1, <1>3, <1>7, <2>1 DEF StopCurrent, LifecycleInv, OnlySelectedRuns, CleanupInv, ServedInv
  <2> QED
    BY <2>2, <2>3
<1>8. ASSUME CleanupModule PROVE TypeOK' /\ LifecycleInv'
  BY <1>1, <1>3, <1>8 DEF CleanupModule, TypeOK, Phases, LifecycleInv,
                          OnlySelectedRuns, CleanupInv, ServedInv
<1>9. ASSUME ShutdownDone PROVE TypeOK' /\ LifecycleInv'
  BY <1>1, <1>3, <1>9 DEF ShutdownDone, TypeOK, Phases, LifecycleInv,
                          OnlySelectedRuns, CleanupInv, ServedInv
<1> QED
  BY <1>3, <1>4, <1>5, <1>6, <1>7, <1>8, <1>9

LEMMA NextIInv == IInv /\ [Next]_vars => IInv'
<1> SUFFICES ASSUME IInv, [Next]_vars PROVE IInv'
  OBVIOUS
<1>1. CASE IndexSkip \/ IndexTruncate \/ IndexDone
  BY <1>1, IndexEndStep
<1>2. CASE IndexSame
  BY <1>2, IndexSameStep
<1>3. CASE IndexNew
  BY <1>3, IndexNewStep
<1>4. ASSUME NEW ok \in BOOLEAN, InitModule(ok) PROVE IInv'
  BY <1>4, OtherStep
<1>5. CASE StartFirst \/ StopCurrent \/ CleanupModule \/ ShutdownDone
  <2>1. TRUE \in BOOLEAN
    OBVIOUS
  <2> QED
    BY <1>5, <2>1, OtherStep
<1>6. ASSUME NEW quit \in BOOLEAN, NEW held \in PadStates, Frame(quit, held) PROVE IInv'
  BY <1>6, FrameStep
<1>7. ASSUME NEW quit \in BOOLEAN, FrameNoPad(quit) \/ Tick \/ Render PROVE IInv'
  BY <1>7, FrameStep
<1>8. CASE Tick \/ Render
  <2>1. TRUE \in BOOLEAN
    OBVIOUS
  <2> QED
    BY <1>8, <2>1, <1>7
<1>9. CASE Exited \/ UNCHANGED vars
  <2>1. UNCHANGED vars
    BY <1>9 DEF Exited
  <2> QED
    BY <2>1 DEF vars, IInv, TypeOK, Modules, IndexInv, EmptyInv, SelectionInv, LifecycleInv,
                OnlySelectedRuns, CleanupInv, ServedInv, CurrentModule, Selected
<1> QED
  BY <1>1, <1>2, <1>3, <1>4, <1>5, <1>6, <1>7, <1>8, <1>9 DEF Next, MainThread

-----------------------------------------------------------------------------
(* The inductive invariant holds in every reachable state.                 *)
THEOREM Invariance == Spec => []IInv
  BY InitIInv, NextIInv, PTL DEF Spec

(* Type correctness of the engine, for every registry.                     *)
THEOREM TypeCorrect == Spec => []TypeOK
<1>1. IInv => TypeOK
  BY DEF IInv
<1> QED
  BY Invariance, <1>1, PTL

(* current_module() stays within g_categories and the registry, whatever   *)
(* categories were linked in (cellmark_engine.c:37-72).                    *)
THEOREM SelectionStaysInRange == Spec => []SelectionInRange
<1>1. IInv => SelectionInRange
  <2> SUFFICES ASSUME IInv, phase \in {"poll", "tick", "render"}
               PROVE  \/ /\ cats = <<>> /\ CurrentModule = 0
                         /\ \A m \in Modules : registry[m] = NoCategory
                      \/ /\ curCat < Len(cats) /\ curInCat < cats[curCat + 1].count
                         /\ CurrentModule \in Modules
    BY DEF SelectionInRange
  <2>1. CASE cats = <<>>
    BY <2>1 DEF IInv, EmptyInv, CurrentModule, Selected
  <2>2. CASE cats # <<>>
    <3>1. curCat \in Nat /\ curInCat \in Nat
      BY DEF IInv, TypeOK
    <3>2. curCat < Len(cats) /\ curInCat < cats[curCat + 1].count
      BY <2>2 DEF IInv, SelectionInv
    <3>3. CurrentModule \in Modules
      BY <2>2, <3>1, <3>2, SelectedType DEF IInv, CurrentModule
    <3> QED
      BY <3>2, <3>3
  <2> QED
    BY <2>1, <2>2
<1> QED
  BY Invariance, <1>1, PTL

(* Starts and stops alternate for every module, and exactly the selected   *)
(* module is started while the main loop runs (cellmark_engine.c:102-177). *)
THEOREM OneModuleRuns == Spec => []OnlySelectedRuns
<1>1. IInv => OnlySelectedRuns
  BY DEF IInv, LifecycleInv
<1> QED
  BY Invariance, <1>1, PTL

-----------------------------------------------------------------------------
(* The partition into pages.  While the index is built, every module       *)
(* scanned is on one page, the last page ends where the scan is, and there *)
(* are as many pages as categories were seen: this is why the table does   *)
(* not overflow early, and where the registry's being grouped is needed.   *)
Seen(n) == {registry[m] : m \in 1 .. n - 1}

OnOnePage(m) == \E p \in PageOf(m) : PageOf(m) = {p} /\ cats[p].category = registry[m]

Fits == Grouped(registry) /\ Cardinality({registry[m] : m \in Modules}) <= MaxCategories

LastPage ==
  /\ cats = <<>> => i = 1
  /\ cats # <<>> => /\ i > 1
                    /\ cats[Len(cats)].first + cats[Len(cats)].count = i
                    /\ cats[Len(cats)].category = registry[i - 1]

Counted == IsFiniteSet(Seen(i)) /\ Cardinality(Seen(i)) = Len(cats)

PagesInv ==
  Fits =>
    /\ phase = "index" => /\ \A m \in 1 .. i - 1 : OnOnePage(m)
                          /\ LastPage /\ Counted
    /\ phase # "index" => \A m \in Modules : OnOnePage(m)

(* One module more has been seen.                                          *)
LEMMA SeenStep ==
  ASSUME NEW n \in Nat \ {0}, IsFiniteSet(Seen(n))
  PROVE  /\ Seen(n + 1) = Seen(n) \cup {registry[n]}
         /\ IsFiniteSet(Seen(n + 1))
         /\ registry[n] \in Seen(n) => Cardinality(Seen(n + 1)) = Cardinality(Seen(n))
         /\ registry[n] \notin Seen(n) => Cardinality(Seen(n + 1)) = Cardinality(Seen(n)) + 1
<1>1. Seen(n + 1) = Seen(n) \cup {registry[n]}
  <2>1. 1 .. (n + 1) - 1 = (1 .. n - 1) \cup {n}
    OBVIOUS
  <2> QED
    BY <2>1 DEF Seen
<1> QED
  BY <1>1, FS_AddElement

(* In a grouped registry a category other than that of the module before   *)
(* has not been seen.                                                      *)
LEMMA NewIsUnseen ==
  ASSUME IInv, Fits, LastPage, i <= Len(registry),
         ~InLastCategory(registry[i])
  PROVE  registry[i] \notin Seen(i)
<1>1. i \in Nat \ {0} /\ Modules = 1 .. Len(registry) /\ Len(registry) \in Nat
  BY RegistryIsSeq DEF IInv, TypeOK
<1> SUFFICES ASSUME NEW a \in 1 .. i - 1, registry[a] = registry[i] PROVE FALSE
  BY DEF Seen
<1>2. cats # <<>> /\ registry[i - 1] # registry[i]
  BY <1>1 DEF LastPage, InLastCategory
<1>3. a \in Modules /\ i - 1 \in Modules /\ i \in Modules
  BY <1>1
<1>4. a < i - 1
  BY <1>1, <1>2
<1>5. \A x, y, z \in Modules : x < y /\ y < z /\ registry[x] = registry[z] => registry[y] = registry[x]
  BY DEF Fits, Grouped, Modules
<1>6. registry[i - 1] = registry[a]
  BY <1>1, <1>3, <1>4, <1>5
<1> QED
  BY <1>2, <1>6

(* The categories of the registry are finitely many.                       *)
LEMMA CategoriesFinite ==
  ASSUME TypeOK
  PROVE  IsFiniteSet({registry[m] : m \in Modules})
<1>1. Modules = 1 .. Len(registry) /\ Len(registry) \in Nat /\ registry \in [Modules -> Categories \cup {NoCategory}]
  BY RegistryIsSeq
<1> DEFINE All == {registry[m] : m \in Modules}
<1>2. registry \in Surjection(Modules, All)
  BY <1>1 DEF Surjection
<1>3. IsFiniteSet(Modules)
  BY <1>1, FS_Interval
<1> HIDE DEF All
<1>4. IsFiniteSet(All)
  BY <1>2, <1>3, FS_Surjection
<1> QED
  BY <1>4 DEF All

(* A registry that fits is not truncated.                                  *)
LEMMA NeverTruncated ==
  ASSUME IInv, PagesInv, Fits
  PROVE  ~IndexTruncate
<1> SUFFICES ASSUME IndexTruncate PROVE FALSE
  OBVIOUS
<1>1. /\ i \in Nat \ {0} /\ Modules = 1 .. Len(registry) /\ Len(registry) \in Nat /\ i <= Len(registry)
      /\ Len(cats) \in Nat
  BY RegistryIsSeq DEF IInv, TypeOK, IndexTruncate
<1>2. LastPage /\ Counted /\ ~InLastCategory(registry[i]) /\ Len(cats) >= MaxCategories
  BY DEF PagesInv, IndexTruncate
<1>3. registry[i] \notin Seen(i)
  BY <1>1, <1>2, NewIsUnseen
<1>4. Cardinality(Seen(i + 1)) = Len(cats) + 1
  BY <1>1, <1>2, <1>3, SeenStep DEF Counted
<1> DEFINE All == {registry[m] : m \in Modules}
<1>5. Seen(i + 1) \in SUBSET All
  BY <1>1 DEF Seen
<1>6. IsFiniteSet(All)
  BY CategoriesFinite DEF IInv
<1>7. Cardinality(All) <= MaxCategories
  BY DEF Fits
<1> HIDE DEF All
<1>8. Cardinality(Seen(i + 1)) <= Cardinality(All) /\ Cardinality(All) \in Nat
  BY <1>5, <1>6, FS_Subset, FS_CardinalityType
<1> QED
  BY <1>1, <1>2, <1>4, <1>7, <1>8, BoundAssumption

(* A page keeps its modules when the last page grows or one is added       *)
(* behind it, and the module scanned is on that page only.                 *)
LEMMA PagesGrow ==
  ASSUME IInv, phase = "index", NEW k, k = i, k <= Len(registry),
         \A m \in 1 .. k - 1 : OnOnePage(m),
         NEW q \in Nat \ {0}, DOMAIN cats' = DOMAIN cats \cup {q},
         \A p \in DOMAIN cats \ {q} : cats'[p] = cats[p],
         cats'[q].category = registry[k],
         cats'[q].first + cats'[q].count = k + 1,
         cats'[q].first \in Nat, cats'[q].count \in Nat,
         \/ q \notin DOMAIN cats /\ cats'[q].first = k
         \/ /\ q \in DOMAIN cats
            /\ cats'[q].first = cats[q].first /\ cats'[q].category = cats[q].category
            /\ cats[q].first + cats[q].count = k,
         registry' = registry
  PROVE  \A m \in 1 .. k : OnOnePage(m)'
<1>1. k \in Nat \ {0} /\ \A p \in DOMAIN cats : cats[p].first \in Nat /\ cats[p].count \in Nat
  <2>1. \A p \in DOMAIN cats : cats[p] \in CategoryInfo
    BY DEF IInv, TypeOK
  <2> QED
    BY <2>1 DEF IInv, TypeOK, CategoryInfo
<1>2. \A p \in DOMAIN cats : cats[p].first >= 1 /\ cats[p].count >= 1 /\ cats[p].first + cats[p].count <= k
  BY DEF IInv, IndexInv
<1>3. ASSUME NEW m \in 1 .. k - 1 PROVE PageOf(m)' = PageOf(m)
  <2>1. \A p \in DOMAIN cats \ {q} : p \in PageOf(m)' <=> p \in PageOf(m)
    BY DEF PageOf
  <2>2. q \in PageOf(m)' <=> q \in PageOf(m)
    BY <1>1, <1>2, <1>3 DEF PageOf
  <2> QED
    BY <2>1, <2>2 DEF PageOf
<1>4. ASSUME NEW m \in 1 .. k - 1 PROVE OnOnePage(m)'
  <2>1. PICK p \in PageOf(m) : PageOf(m) = {p} /\ cats[p].category = registry[m]
    BY DEF OnOnePage
  <2>2. p \in DOMAIN cats
    BY DEF PageOf
  <2>3. cats'[p].category = cats[p].category
    BY <2>2
  <2> QED
    BY <1>3, <2>1, <2>3 DEF OnOnePage
<1>5. PageOf(k)' = {q}
  <2>1. \A p \in DOMAIN cats \ {q} : p \notin PageOf(k)'
    BY <1>1, <1>2 DEF PageOf
  <2>2. q \in PageOf(k)'
    BY <1>1, <1>2 DEF PageOf
  <2> QED
    BY <2>1, <2>2 DEF PageOf
<1>6. OnOnePage(k)'
  BY <1>5 DEF OnOnePage
<1>7. \A m \in 1 .. k : m = k \/ m \in 1 .. k - 1
  BY <1>1
<1> QED
  BY <1>4, <1>6, <1>7

(* Each step keeps the partition: the two that write the index, ...        *)
LEMMA PagesSame == IInv /\ PagesInv /\ IndexSame => PagesInv'
<1> SUFFICES ASSUME IInv, PagesInv, IndexSame, Fits' PROVE PagesInv'
  BY DEF PagesInv
<1>1. /\ phase = "index" /\ phase' = "index" /\ i' = i + 1 /\ registry' = registry
      /\ i <= Len(registry) /\ InLastCategory(registry[i])
      /\ cats' = [cats EXCEPT ![Len(cats)].count = @ + 1]
  BY DEF IndexSame, IndexKeeps
<1>2. Fits
  BY <1>1 DEF Fits, Modules
<1>3. LastPage /\ Counted /\ \A m \in 1 .. i - 1 : OnOnePage(m)
  BY <1>1, <1>2 DEF PagesInv
<1>4. i \in Nat \ {0} /\ cats # <<>> /\ cats \in Seq(CategoryInfo) /\ Len(cats) \in DOMAIN cats
  BY <1>1 DEF InLastCategory, IInv, TypeOK
<1> DEFINE q == Len(cats)
           more == [cats[q] EXCEPT !.count = @ + 1]
<1>5. cats[q] \in CategoryInfo
  BY <1>4
<1>6. /\ more \in CategoryInfo /\ more.first = cats[q].first /\ more.category = cats[q].category
      /\ more.count = cats[q].count + 1
  <2>1. PICK c \in Categories, f \in Nat, n \in Nat :
          cats[q] = [category |-> c, first |-> f, count |-> n]
    BY <1>5 DEF CategoryInfo
  <2>2. more = [category |-> c, first |-> f, count |-> n + 1]
    BY <2>1
  <2> QED
    BY <2>1, <2>2 DEF CategoryInfo
<1>7. /\ cats[q].first \in Nat /\ cats[q].count \in Nat
      /\ more.first \in Nat /\ more.count \in Nat
  BY <1>5, <1>6 DEF CategoryInfo
<1>8. cats' = [cats EXCEPT ![q] = more]
  BY <1>1
<1> HIDE DEF more
<1>9. /\ DOMAIN cats' = DOMAIN cats /\ Len(cats') = Len(cats) /\ cats'[q] = more
      /\ \A p \in DOMAIN cats \ {q} : cats'[p] = cats[p]
  BY <1>4, <1>6, <1>8
<1>10. cats' # <<>>
  BY <1>4, <1>9
<1>11. cats[q].first + cats[q].count = i /\ cats[q].category = registry[i - 1] /\ i > 1
  BY <1>3, <1>4 DEF LastPage
<1>12. cats[q].category = registry[i]
  BY <1>1 DEF InLastCategory
<1>i. (i + 1) - 1 = i /\ i + 1 > 1
  BY <1>4
<1>13. LastPage'
  <2>1. cats'[q].first + cats'[q].count = i + 1
    BY <1>4, <1>6, <1>7, <1>9, <1>11
  <2>2. cats'[q].category = registry[i]
    BY <1>6, <1>9, <1>12
  <2> HIDE DEF q
  <2>3. Len(cats') = q
    BY <1>9 DEF q
  <2> QED
    BY <1>1, <1>10, <1>i, <2>1, <2>2, <2>3 DEF LastPage
<1>14. Counted'
  <2>1. i - 1 \in 1 .. i - 1
    BY <1>4, <1>11
  <2>2. registry[i] \in Seen(i)
    BY <1>11, <1>12, <2>1 DEF Seen
  <2>3. IsFiniteSet(Seen(i + 1)) /\ Cardinality(Seen(i + 1)) = Cardinality(Seen(i))
    BY <1>3, <1>4, <2>2, SeenStep DEF Counted
  <2>4. Seen(i)' = Seen(i + 1)
    BY <1>1 DEF Seen
  <2> QED
    BY <1>3, <1>9, <2>3, <2>4 DEF Counted
<1>15. \A m \in 1 .. i : OnOnePage(m)'
  <2>1. /\ q \in Nat \ {0} /\ q \in DOMAIN cats
        /\ DOMAIN cats' = DOMAIN cats \cup {q}
    BY <1>4, <1>9
  <2>2. /\ cats'[q].category = registry[i]
        /\ cats'[q].first + cats'[q].count = i + 1
        /\ cats'[q].first \in Nat /\ cats'[q].count \in Nat
        /\ cats'[q].first = cats[q].first /\ cats'[q].category = cats[q].category
    <3> HIDE DEF q
    <3>1. cats[q].first + cats[q].count = i
      BY <1>11 DEF q
    <3>2. cats[q].category = registry[i]
      BY <1>12 DEF q
    <3> QED
      BY <1>4, <1>6, <1>7, <1>9, <3>1, <3>2
  <2> HIDE DEF q
  <2> QED
    BY <1>1, <1>3, <1>9, <1>11, <2>1, <2>2, PagesGrow
<1> QED
  BY <1>1, <1>13, <1>14, <1>15, <1>i DEF PagesInv

LEMMA PagesNew == IInv /\ PagesInv /\ IndexNew => PagesInv'
<1> SUFFICES ASSUME IInv, PagesInv, IndexNew, Fits' PROVE PagesInv'
  BY DEF PagesInv
<1> DEFINE new == [category |-> registry[i], first |-> i, count |-> 1]
           q   == Len(cats) + 1
<1>1. /\ phase = "index" /\ phase' = "index" /\ i' = i + 1 /\ registry' = registry
      /\ i <= Len(registry) /\ ~InLastCategory(registry[i])
      /\ cats' = Append(cats, new)
  BY DEF IndexNew, IndexKeeps
<1>2. Fits
  BY <1>1 DEF Fits, Modules
<1>3. LastPage /\ Counted /\ \A m \in 1 .. i - 1 : OnOnePage(m)
  BY <1>1, <1>2 DEF PagesInv
<1>4. i \in Nat \ {0} /\ cats \in Seq(CategoryInfo) /\ Len(cats) \in Nat
  BY DEF IInv, TypeOK
<1>5. new.category = registry[i] /\ new.first = i /\ new.count = 1
  OBVIOUS
<1> HIDE DEF new
<1>6. /\ DOMAIN cats' = DOMAIN cats \cup {q} /\ Len(cats') = q /\ cats'[q] = new
      /\ \A p \in DOMAIN cats \ {q} : cats'[p] = cats[p]
      /\ q \in Nat \ {0} /\ q \notin DOMAIN cats
  BY <1>1, <1>4
<1>7. cats' # <<>>
  BY <1>4, <1>6
<1>8. (i + 1) - 1 = i /\ i + 1 > 1
  BY <1>4
<1>9. LastPage'
  BY <1>1, <1>4, <1>5, <1>6, <1>7, <1>8 DEF LastPage
<1>10. Counted'
  <2>1. registry[i] \notin Seen(i)
    BY <1>1, <1>2, <1>3, NewIsUnseen
  <2>2. IsFiniteSet(Seen(i + 1)) /\ Cardinality(Seen(i + 1)) = Cardinality(Seen(i)) + 1
    BY <1>3, <1>4, <2>1, SeenStep DEF Counted
  <2>3. Seen(i)' = Seen(i + 1)
    BY <1>1 DEF Seen
  <2> QED
    BY <1>3, <1>6, <2>2, <2>3 DEF Counted
<1>11. \A m \in 1 .. i : OnOnePage(m)'
  <2>1. /\ cats'[q].category = registry[i]
        /\ cats'[q].first + cats'[q].count = i + 1
        /\ cats'[q].first \in Nat /\ cats'[q].count \in Nat /\ cats'[q].first = i
    BY <1>4, <1>5, <1>6
  <2> HIDE DEF q
  <2> QED
    BY <1>1, <1>3, <1>6, <2>1, PagesGrow
<1> QED
  BY <1>1, <1>8, <1>9, <1>10, <1>11 DEF PagesInv

(* ... the end of the scan, and those that leave the index alone.          *)
LEMMA PagesKept == IInv /\ PagesInv /\ [Next]_vars => PagesInv'
<1> SUFFICES ASSUME IInv, PagesInv, [Next]_vars, Fits' PROVE PagesInv'
  BY DEF PagesInv
<1>1. i \in Nat \ {0} /\ Modules = 1 .. Len(registry) /\ Len(registry) \in Nat
  BY RegistryIsSeq DEF IInv, TypeOK
<1>2. CASE IndexSame
  BY <1>2, PagesSame
<1>3. CASE IndexNew
  BY <1>3, PagesNew
<1>4. CASE IndexTruncate
  <2>1. Fits
    BY <1>4 DEF IndexTruncate, IndexKeeps, Fits, Modules
  <2> QED
    BY <1>4, <2>1, NeverTruncated
<1>5. CASE IndexSkip
  <2>1. Fits /\ i \in Modules /\ registry[i] = NoCategory
    BY <1>1, <1>5 DEF IndexSkip, IndexKeeps, Fits, Modules
  <2> QED
    BY <2>1 DEF Fits, Grouped, Modules
<1>6. CASE IndexDone
  <2>1. /\ phase = "index" /\ phase' = "init" /\ i > Len(registry)
        /\ registry' = registry /\ cats' = cats
    BY <1>6 DEF IndexDone, IndexKeeps
  <2>2. Fits
    BY <2>1 DEF Fits, Modules
  <2>3. \A m \in Modules : m \in 1 .. i - 1
    BY <1>1, <2>1
  <2>4. \A m \in Modules : OnOnePage(m)
    BY <2>1, <2>2, <2>3 DEF PagesInv
  <2>5. \A m : OnOnePage(m)' <=> OnOnePage(m)
    BY <2>1 DEF OnOnePage, PageOf
  <2> QED
    BY <2>1, <2>4, <2>5 DEF PagesInv, Modules
<1>7. CASE /\ registry' = registry /\ cats' = cats /\ phase # "index" /\ phase' # "index"
  <2>1. Fits
    BY <1>7 DEF Fits, Modules
  <2>2. \A m : OnOnePage(m)' <=> OnOnePage(m)
    BY <1>7 DEF OnOnePage, PageOf
  <2> QED
    BY <1>7, <2>1, <2>2 DEF PagesInv, Modules
<1>8. CASE UNCHANGED vars
  <2>1. registry' = registry /\ cats' = cats /\ phase' = phase /\ i' = i
    BY <1>8 DEF vars
  <2>2. Fits /\ (LastPage' <=> LastPage) /\ (Counted' <=> Counted)
    BY <2>1 DEF Fits, Modules, LastPage, Counted, Seen
  <2>3. \A m : OnOnePage(m)' <=> OnOnePage(m)
    BY <2>1 DEF OnOnePage, PageOf
  <2> QED
    BY <2>1, <2>2, <2>3 DEF PagesInv, Modules
<1>9. \/ IndexSkip \/ IndexSame \/ IndexNew \/ IndexTruncate \/ IndexDone
      \/ UNCHANGED vars
      \/ registry' = registry /\ cats' = cats /\ phase # "index" /\ phase' # "index"
  BY DEF Next, MainThread, Exited, InitModule, StartFirst, Frame, FrameNoPad, Tick, Render,
         StopCurrent, CleanupModule, ShutdownDone, indexVars, vars
<1> QED
  BY <1>2, <1>3, <1>4, <1>5, <1>6, <1>7, <1>8, <1>9

(* build_category_index loses and doubles no module, for every grouped     *)
(* registry whose categories fit the table (cellmark_engine.c:46-72).      *)
THEOREM PagesArePartition == Spec => []PagesPartition
<1>1. Init => PagesInv
  <2> SUFFICES ASSUME Init PROVE PagesInv
    OBVIOUS
  <2>1. phase = "index" /\ i = 1 /\ cats = <<>> /\ Len(cats) = 0 /\ 1 .. i - 1 = {}
    BY DEF Init
  <2>2. Seen(i) = {}
    BY <2>1 DEF Seen
  <2>3. LastPage /\ Counted
    BY <2>1, <2>2, FS_EmptySet DEF LastPage, Counted
  <2> QED
    BY <2>1, <2>3 DEF PagesInv
<1>2. PagesInv => PagesPartition
  BY DEF PagesInv, Fits, OnOnePage, PagesPartition
<1> QED
  BY <1>1, <1>2, Invariance, PagesKept, PTL DEF Spec

-----------------------------------------------------------------------------
(* The lifecycle of a module, read off the position of the main thread.    *)
LifeAt(ph, pos, cur, m) ==
  IF ph = "index" \/ (ph = "init" /\ pos <= m) THEN "new"
  ELSE IF ph \in {"poll", "tick", "render"} /\ m = cur THEN "running"
  ELSE IF ph = "done" \/ (ph = "cleanup" /\ m < pos) THEN "cleaned"
  ELSE "idle"

LivesInv == Lives = [m \in Modules |-> LifeAt(phase, i, CurrentModule, m)]

LEMMA LivesForm == IInv => LivesInv
<1> SUFFICES ASSUME IInv, NEW m \in Modules
             PROVE  Lives[m] = LifeAt(phase, i, CurrentModule, m)
  BY DEF LivesInv, Lives
<1>1. running[m] = IF phase \in {"poll", "tick", "render"} /\ m = CurrentModule THEN 1 ELSE 0
  BY DEF IInv, LifecycleInv, OnlySelectedRuns
<1>2. cleanups[m] = IF phase = "done" \/ (phase = "cleanup" /\ m < i) THEN 1 ELSE 0
  BY DEF IInv, LifecycleInv, CleanupInv
<1> QED
  BY <1>1, <1>2 DEF Lives, LifeAt

(* One of the hooks, or none: what a step of the engine may be.            *)
LEMMA StepImplements ==
  ASSUME IInv, LivesInv, IInv', LivesInv', Next
  PROVE  Lifecycle!Next \/ UNCHANGED <<Lives, served>>
<1>1. /\ Lives = [m \in Modules |-> LifeAt(phase, i, CurrentModule, m)]
      /\ Lives' = [m \in Modules' |-> LifeAt(phase', i', CurrentModule', m)]
  BY DEF LivesInv
<1>2. /\ Modules' = Modules /\ Modules = 1 .. Len(registry) /\ Len(registry) \in Nat
      /\ i \in Nat /\ i >= 1
  <2>1. registry' = registry
    BY DEF Next, MainThread, Exited, vars, indexVars, IndexKeeps, IndexSkip, IndexSame,
           IndexNew, IndexTruncate, IndexDone, InitModule, StartFirst, Frame, FrameNoPad,
           Tick, Render, StopCurrent, CleanupModule, ShutdownDone
  <2> QED
    BY <2>1, RegistryIsSeq DEF IInv, TypeOK, Modules
<1>3. /\ phase \in {"index", "init", "cleanup", "done"} => served = 0
      /\ phase' \in {"index", "init", "cleanup", "done"} => served' = 0
  BY DEF IInv, LifecycleInv, ServedInv
<1>4. /\ CurrentModule \in {0} \cup Modules
      /\ cats # <<>> => CurrentModule \in Modules
  <2>1. curCat \in Nat /\ curInCat \in Nat
    BY DEF IInv, TypeOK
  <2> QED
    BY <2>1, SelectedType DEF IInv, SelectionInv, CurrentModule
<1>5. Lifecycle!Modules = Modules
  BY <1>1 DEF Lifecycle!Modules
<1>a. ASSUME served' = 0, Lives' = Lives PROVE Lifecycle!Next
  BY <1>a DEF Lifecycle!Next, Lifecycle!NoHook
<1>6. CASE IndexSkip \/ IndexSame \/ IndexNew \/ IndexTruncate \/ IndexDone
  <2>1. /\ phase = "index"
        /\ phase' = "index" \/ (phase' = "init" /\ i' = 1)
    BY <1>6 DEF IndexSkip, IndexSame, IndexNew, IndexTruncate, IndexDone
  <2>2. Lives' = Lives
    BY <1>1, <1>2, <2>1 DEF LifeAt
  <2> QED
    BY <1>3, <1>a, <2>1, <2>2
<1>7. ASSUME NEW ok \in BOOLEAN, InitModule(ok) PROVE Lifecycle!Next
  <2>1. /\ phase = "init" /\ phase' = "init" /\ i \in Modules /\ i' = i + 1
    BY <1>2, <1>7 DEF InitModule
  <2>2. Lives[i] = "new" /\ Lives' = [Lives EXCEPT ![i] = "idle"]
    BY <1>1, <1>2, <2>1 DEF LifeAt
  <2> QED
    BY <1>3, <1>5, <2>1, <2>2 DEF Lifecycle!Next, Lifecycle!InitHook
<1>8. CASE StartFirst
  <2>1. phase = "init" /\ phase' = "poll" /\ i > Len(registry) /\ CurrentModule' = CurrentModule
        /\ served' = served
    BY <1>8 DEF StartFirst, CurrentModule, Selected, indexVars
  <2>2. \A m \in Modules : Lives[m] = "idle"
    BY <1>1, <1>2, <2>1 DEF LifeAt
  <2>3. CASE CurrentModule \in Modules
    <3>1. Lives' = [Lives EXCEPT ![CurrentModule] = "running"]
      BY <1>1, <1>2, <2>1, <2>2, <2>3 DEF LifeAt
    <3> QED
      BY <1>3, <1>5, <2>1, <2>2, <2>3, <3>1 DEF Lifecycle!Next, Lifecycle!StartHook
  <2>4. CASE CurrentModule \notin Modules
    <3>1. Lives' = Lives
      BY <1>1, <1>2, <2>1, <2>2, <2>4 DEF LifeAt
    <3> QED
      BY <1>3, <1>a, <2>1, <3>1
  <2> QED
    BY <2>3, <2>4
<1>b. ASSUME phase \in {"poll", "tick", "render"}, phase' \in {"poll", "tick", "render"},
             CurrentModule' = CurrentModule, served' \in {0, CurrentModule}
      PROVE  Lifecycle!Next
  <2>1. Lives' = Lives
    BY <1>1, <1>2, <1>b DEF LifeAt
  <2>2. CASE served' = 0
    BY <1>a, <2>1, <2>2
  <2>3. CASE served' = CurrentModule /\ CurrentModule \in Modules
    <3>1. Lives[CurrentModule] = "running"
      BY <1>1, <1>b, <2>3 DEF LifeAt
    <3> QED
      BY <1>5, <2>1, <2>3, <3>1 DEF Lifecycle!Next, Lifecycle!ServeHook
  <2> QED
    BY <1>4, <1>b, <2>2, <2>3
<1>9. ASSUME NEW quit \in BOOLEAN, NEW held \in PadStates, Frame(quit, held)
      PROVE  Lifecycle!Next
  <2>1. phase = "poll" /\ phase' = "tick" /\ HandleInput(held \ prevBtns)
        /\ UNCHANGED <<registry, cats>>
    BY <1>9 DEF Frame, indexVars
  <2>2. ASSUME NEW c \in Nat, NEW k \in Nat, cats # <<>>,
               c < Len(cats), k < cats[c + 1].count, SwitchTo(c, k)
        PROVE  Lifecycle!Next
    <3>1. CurrentModule' = Selected(c, k) /\ served' = 0
      BY <2>1, <2>2 DEF SwitchTo, CurrentModule, Selected
    <3>2. Selected(c, k) \in Modules /\ CurrentModule \in Modules
      BY <1>4, <2>2, SelectedType DEF IInv
    <3>3. CASE Selected(c, k) = CurrentModule
      BY <1>b, <2>1, <3>1, <3>3
    <3>4. CASE Selected(c, k) # CurrentModule
      <4>1. Lives[CurrentModule] = "running" /\ Lives[Selected(c, k)] = "idle"
        BY <1>1, <2>1, <3>2, <3>4 DEF LifeAt
      <4>2. Lives' = [Lives EXCEPT ![CurrentModule] = "idle", ![Selected(c, k)] = "running"]
        BY <1>1, <1>2, <2>1, <3>1, <3>2, <3>4 DEF LifeAt
      <4>3. Lifecycle!SwitchHooks(CurrentModule, Selected(c, k))
        BY <3>1, <3>4, <4>1, <4>2 DEF Lifecycle!SwitchHooks
      <4> QED
        BY <1>5, <3>2, <4>3 DEF Lifecycle!Next
    <3> QED
      BY <3>3, <3>4
  <2>3. ASSUME UNCHANGED <<curCat, curInCat, running>>, served' \in {0, CurrentModule}
        PROVE  Lifecycle!Next
    <3>1. CurrentModule' = CurrentModule
      BY <2>1, <2>3 DEF CurrentModule, Selected
    <3> QED
      BY <1>b, <2>1, <2>3, <3>1
  <2> QED
    BY <2>1, <2>2, <2>3, HandleInputCases
<1>10. ASSUME NEW quit \in BOOLEAN, FrameNoPad(quit) \/ Tick \/ Render
       PROVE  Lifecycle!Next
  <2>1. /\ phase \in {"poll", "tick", "render"} /\ phase' \in {"poll", "tick", "render"}
        /\ CurrentModule' = CurrentModule /\ served' \in {0, CurrentModule}
    BY <1>10 DEF FrameNoPad, Tick, Render, CurrentModule, Selected, indexVars
  <2> QED
    BY <1>b, <2>1
<1>11. CASE StopCurrent
  <2>1. phase = "poll" /\ phase' = "cleanup" /\ i' = 1 /\ served' = 0
    BY <1>11 DEF StopCurrent
  <2>2. CASE CurrentModule \in Modules
    <3>1. Lives[CurrentModule] = "running" /\ Lives' = [Lives EXCEPT ![CurrentModule] = "idle"]
      BY <1>1, <1>2, <2>1, <2>2 DEF LifeAt
    <3> QED
      BY <1>5, <2>1, <2>2, <3>1 DEF Lifecycle!Next, Lifecycle!StopHook
  <2>3. CASE CurrentModule \notin Modules
    <3>1. Lives' = Lives
      BY <1>1, <1>2, <2>1, <2>3 DEF LifeAt
    <3> QED
      BY <1>a, <2>1, <3>1
  <2> QED
    BY <2>2, <2>3
<1>12. CASE CleanupModule
  <2>1. phase = "cleanup" /\ phase' = "cleanup" /\ i \in Modules /\ i' = i + 1
    BY <1>2, <1>12 DEF CleanupModule
  <2>2. /\ Lives[i] = "idle" /\ Lives' = [Lives EXCEPT ![i] = "cleaned"]
        /\ \A m \in Modules : Lives[m] \in {"idle", "cleaned"}
    BY <1>1, <1>2, <2>1 DEF LifeAt
  <2> QED
    BY <1>3, <1>5, <2>1, <2>2 DEF Lifecycle!Next, Lifecycle!CleanupHook
<1>13. CASE ShutdownDone
  <2>1. phase = "cleanup" /\ phase' = "done" /\ i > Len(registry)
    BY <1>13 DEF ShutdownDone
  <2>2. Lives' = Lives
    BY <1>1, <1>2, <2>1 DEF LifeAt
  <2> QED
    BY <1>3, <1>a, <2>1, <2>2
<1>14. CASE Exited
  BY <1>14 DEF Exited, vars, Lives, Modules
<1>15. TRUE \in BOOLEAN
  OBVIOUS
<1> QED
  BY <1>6, <1>7, <1>8, <1>9, <1>10, <1>11, <1>12, <1>13, <1>14, <1>15 DEF Next, MainThread

(* The engine implements the hook lifecycle of bench.h: whatever the       *)
(* registry and the buttons, every call of a hook is one the lifecycle     *)
(* allows (cellmark_engine.c:80-177, bench.h:53-93).                       *)
THEOREM ImplementsLifecycle == Spec => LifecycleSpec
<1>1. Init => Lifecycle!Init
  <2> SUFFICES ASSUME Init PROVE Lifecycle!Init
    OBVIOUS
  <2>1. Lives = [m \in Modules |-> "new"] /\ served = 0
    BY DEF Init, Lives
  <2> QED
    BY <2>1 DEF Lifecycle!Init, Lifecycle!Modules
<1>2. IInv /\ LivesInv /\ IInv' /\ LivesInv' /\ [Next]_vars
        => [Lifecycle!Next]_(Lifecycle!vars)
  <2> SUFFICES ASSUME IInv, LivesInv, IInv', LivesInv', [Next]_vars
               PROVE  Lifecycle!Next \/ UNCHANGED <<Lives, served>>
    BY DEF Lifecycle!vars
  <2>1. CASE UNCHANGED vars
    BY <2>1 DEF vars, Lives, Modules
  <2> QED
    BY <2>1, StepImplements
<1> QED
  BY <1>1, <1>2, Invariance, LivesForm, PTL DEF Spec, LifecycleSpec, Lifecycle!Spec

-----------------------------------------------------------------------------
(* Buttons.                                                                *)

(* Without a newly pressed button the input goes to the module.            *)
LEMMA NothingPressed ==
  ASSUME HandleInput({})
  PROVE  UNCHANGED <<curCat, curInCat>>
  <1>1. CatDir({}) = 0 /\ InDir({}) = 0
    BY DEF CatDir, InDir
  <1>2. ~TurnsPage({}) /\ ~TurnsModule({})
    BY <1>1 DEF TurnsPage, TurnsModule
  <1> QED
    BY <1>2 DEF HandleInput, ForwardInput

(* cellmark_engine_handle_input decodes the buttons that went down since   *)
(* the last pad read: with the same buttons held, or none read, no step    *)
(* of the engine changes the selection, for every registry and pad.        *)
THEOREM HeldButtonsAct == Spec => HeldButtonsActOnce
  <1>1. [Next]_vars => [prevBtns' = prevBtns => UNCHANGED <<curCat, curInCat>>]_vars
    <2> SUFFICES ASSUME [Next]_vars, prevBtns' = prevBtns
                 PROVE  UNCHANGED <<curCat, curInCat>>
      OBVIOUS
    <2>1. ASSUME NEW quit, NEW held, Frame(quit, held)
          PROVE  UNCHANGED <<curCat, curInCat>>
      <3>1. held \ prevBtns = {}
        BY <2>1 DEF Frame
      <3>2. HandleInput({})
        BY <2>1, <3>1 DEF Frame
      <3> QED
        BY <3>2, NothingPressed
    <2>2. ASSUME \/ IndexSkip \/ IndexSame \/ IndexNew \/ IndexTruncate \/ IndexDone
                 \/ StartFirst \/ Tick \/ Render
                 \/ StopCurrent \/ CleanupModule \/ ShutdownDone \/ Exited \/ UNCHANGED vars
          PROVE  UNCHANGED <<curCat, curInCat>>
      BY <2>2 DEF IndexSkip, IndexSame, IndexNew, IndexTruncate, IndexDone, IndexKeeps,
                  StartFirst, Tick, Render, StopCurrent, CleanupModule, ShutdownDone, Exited, vars
    <2>3. ASSUME NEW ok, InitModule(ok)
          PROVE  UNCHANGED <<curCat, curInCat>>
      BY <2>3 DEF InitModule
    <2>4. ASSUME NEW quit, FrameNoPad(quit)
          PROVE  UNCHANGED <<curCat, curInCat>>
      BY <2>4 DEF FrameNoPad
    <2> QED
      BY <2>1, <2>2, <2>3, <2>4 DEF Next, MainThread
  <1> QED
    BY <1>1, PTL DEF Spec, HeldButtonsActOnce
=============================================================================
