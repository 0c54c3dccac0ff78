--------------------------- MODULE BenchLifecycle ---------------------------
(***************************************************************************)
(* What the engine promises every bench module: the lifecycle of the hooks *)
(* declared in include/bench.h.  A module goes new -> idle (init) ->       *)
(* running (start) -> idle (stop) -> ... -> cleaned (cleanup); at most one *)
(* module runs; tick, render and input are called on the running one only; *)
(* cleanup starts when no module will run again.  The engine's own data    *)
(* (categories, indices, pad state) does not appear here: Engine.tla is    *)
(* shown to implement this module.                                         *)
(***************************************************************************)
EXTENDS Naturals

VARIABLES life,         \* life[m]: how far registered module m is in its
                        \* lifecycle
          served        \* module whose tick, render or input hook ran last
                        \* (0: the last step called none of them)

vars == <<life, served>>

Modules == DOMAIN life

(* No hook has been called. *)
Init ==
  /\ life = [m \in Modules |-> "new"]
  /\ served = 0

(* m->init, called once at app startup.  What bench.h says of its result,  *)
(* that non-zero disables the module for good, is not promised here: only  *)
(* the order of the hooks is (see FailedInitNeverRuns in Engine.tla).      *)
InitHook(m) ==
  /\ life[m] = "new"
  /\ life' = [life EXCEPT ![m] = "idle"]
  /\ served' = 0

(* m->start of the first selected module: every module has been            *)
(* initialised and none runs.                                              *)
StartHook(m) ==
  /\ \A x \in Modules : life[x] = "idle"
  /\ life' = [life EXCEPT ![m] = "running"]
  /\ served' = 0

(* The user navigates from a to b: a->stop, then b->start.                 *)
SwitchHooks(a, b) ==
  /\ a # b
  /\ life[a] = "running" /\ life[b] = "idle"
  /\ life' = [life EXCEPT ![a] = "idle", ![b] = "running"]
  /\ served' = 0

(* One of m->tick, m->render and m->input.                                 *)
ServeHook(m) ==
  /\ life[m] = "running"
  /\ served' = m
  /\ UNCHANGED life

(* App exit: the running module, if any, is stopped.                       *)
StopHook(m) ==
  /\ life[m] = "running"
  /\ life' = [life EXCEPT ![m] = "idle"]
  /\ served' = 0

(* m->cleanup, at app shutdown, when no module runs.                       *)
CleanupHook(m) ==
  /\ life[m] = "idle"
  /\ \A x \in Modules : life[x] \in {"idle", "cleaned"}
  /\ life' = [life EXCEPT ![m] = "cleaned"]
  /\ served' = 0

(* The engine does something of its own between two hook calls.            *)
NoHook ==
  /\ served' = 0
  /\ UNCHANGED life

Next ==
  \/ \E m \in Modules : \/ InitHook(m) \/ StartHook(m) \/ ServeHook(m)
                        \/ StopHook(m) \/ CleanupHook(m)
  \/ \E a, b \in Modules : SwitchHooks(a, b)
  \/ NoHook

Spec == Init /\ [][Next]_vars
=============================================================================
