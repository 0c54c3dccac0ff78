------------------------------- MODULE SmtWorker ------------------------------
(***************************************************************************)
(* The SMT bench of benches/ppe/ppe_benchmarks.c: the main thread hands    *)
(* two jobs per batch to a worker thread through the flags of g_smt, works *)
(* itself on the other hardware thread, and spins until done is set.       *)
(*                                                                         *)
(* The worker stores go = 0 and done = 1 without a barrier in between, and *)
(* the PowerPC architecture lets the main thread see them in either order. *)
(* inOrder says whether this processor keeps the order; both are checked.  *)
(***************************************************************************)
EXTENDS Integers, Sequences

CONSTANTS
  Jobs,      \* the jobs of a batch, in order: SMT_CMD_FP, SMT_CMD_FXU
  NoJob      \* SMT_CMD_NONE

Commands == {Jobs[k] : k \in DOMAIN Jobs}

ASSUME JobAssumption ==
  /\ Len(Jobs) \in Nat \ {0} /\ DOMAIN Jobs = 1 .. Len(Jobs)
  /\ NoJob \notin Commands

VARIABLES
  main,         \* where run_smt_scaling is, "idle" outside of it
  job,          \* position in Jobs
  alive,        \* g_smt_thread_alive
  cmd,          \* g_smt.cmd
  go, done,     \* g_smt.go, g_smt.done, as the main thread sees them
  t_start, t_end,  \* g_smt.t_start, g_smt.t_end: the job they time
  worker,       \* where smt_worker_entry is, "none" before it is created
  running,      \* the job in the worker's registers
  stores,       \* the worker's stores to "go" and "done" still on their way
  inOrder       \* they arrive in the order they were made

flags == <<cmd, go, done, t_start, t_end>>
mainVars == <<main, job, alive>>
workerVars == <<worker, running>>
vars == <<mainVars, flags, workerVars, stores, inOrder>>

Init ==
  /\ main = "idle" /\ job = 1 /\ alive = FALSE
  /\ cmd = NoJob /\ go = FALSE /\ done = FALSE /\ t_start = NoJob /\ t_end = NoJob
  /\ worker = "none" /\ running = NoJob
  /\ stores = {} /\ inOrder \in BOOLEAN

-----------------------------------------------------------------------------
(* The main thread.                                                        *)

(* smt_ensure_worker; a batch without a worker returns at once.            *)
Ensure ==
  /\ main = "idle"
  /\ \/ alive /\ UNCHANGED <<alive, flags, worker>> /\ main' = "solo"
     \/ /\ ~alive
        /\ cmd' = NoJob /\ go' = FALSE /\ done' = FALSE /\ t_start' = NoJob /\ t_end' = NoJob
        /\ \/ alive' = TRUE /\ worker' = "poll" /\ main' = "solo"
           \/ UNCHANGED <<alive, worker, main>>
  /\ job' = 1
  /\ UNCHANGED <<running, stores, inOrder>>

(* Both kernels are timed alone first, with the worker idle.               *)
Solo ==
  /\ main = "solo"
  /\ main' = "command"
  /\ UNCHANGED <<job, alive, flags, workerVars, stores, inOrder>>

(* smt_dispatch_worker: the command ...                                    *)
Dispatch ==
  /\ main = "command"
  /\ cmd' = Jobs[job]
  /\ main' = "clear"
  /\ UNCHANGED <<job, alive, go, done, t_start, t_end, workerVars, stores, inOrder>>

(* Mutant of Clear: done is not cleared.                                   *)
Clear_DoneKept ==
  /\ main = "clear"
  /\ t_start' = NoJob /\ t_end' = NoJob
  /\ main' = "raise"
  /\ UNCHANGED <<job, alive, cmd, go, done, workerVars, stores, inOrder>>

(* ... done and the times are cleared ...                                  *)
Clear ==
  /\ main = "clear"
  /\ done' = FALSE /\ t_start' = NoJob /\ t_end' = NoJob
  /\ main' = "raise"
  /\ UNCHANGED <<job, alive, cmd, go, workerVars, stores, inOrder>>

(* ... and, behind a barrier, go is set.                                   *)
Raise ==
  /\ main = "raise"
  /\ go' = TRUE
  /\ main' = "measure"
  /\ UNCHANGED <<job, alive, cmd, done, t_start, t_end, workerVars, stores, inOrder>>

(* The main thread times its own kernel.                                   *)
Measure ==
  /\ main = "measure"
  /\ main' = "wait"
  /\ UNCHANGED <<job, alive, flags, workerVars, stores, inOrder>>

(* smt_wait_worker spins ...                                               *)
Spin == main = "wait" /\ ~done /\ UNCHANGED vars

(* ... until done is set.                                                  *)
Wait ==
  /\ main = "wait" /\ done
  /\ main' = "read"
  /\ UNCHANGED <<job, alive, flags, workerVars, stores, inOrder>>

(* The times are read; the next job follows.                               *)
Read ==
  /\ main = "read"
  /\ main' = IF job = Len(Jobs) THEN "idle" ELSE "command"
  /\ job' = IF job = Len(Jobs) THEN job ELSE job + 1
  /\ UNCHANGED <<alive, flags, workerVars, stores, inOrder>>

Batch == Solo \/ Dispatch \/ Clear \/ Raise \/ Measure \/ Wait \/ Read

-----------------------------------------------------------------------------
(* The worker.  A thread sees its own stores: a go it has cleared is clear *)
(* to itself while the store is on its way.                                *)

Poll ==
  /\ worker = "poll"
  /\ go /\ "go" \notin stores
  /\ worker' = "seen"
  /\ UNCHANGED <<mainVars, flags, running, stores, inOrder>>

(* Behind a barrier, the command.                                          *)
TakeCommand ==
  /\ worker = "seen"
  /\ running' = cmd
  /\ worker' = "start"
  /\ UNCHANGED <<mainVars, flags, stores, inOrder>>

TakeStart ==
  /\ worker = "start"
  /\ t_start' = running
  /\ worker' = "work"
  /\ UNCHANGED <<mainVars, cmd, go, done, t_end, running, stores, inOrder>>

TakeEnd ==
  /\ worker = "work"
  /\ t_end' = running
  /\ worker' = "answer"
  /\ UNCHANGED <<mainVars, cmd, go, done, t_start, running, stores, inOrder>>

(* Mutant of Finish: go is not cleared.                                    *)
Finish_GoKept ==
  /\ worker = "answer" /\ stores = {}
  /\ running' = NoJob
  /\ stores' = {"done"}
  /\ worker' = "poll"
  /\ UNCHANGED <<mainVars, flags, inOrder>>

(* Behind a barrier, which earlier stores have passed, the flags.          *)
Finish ==
  /\ worker = "answer" /\ stores = {}
  /\ running' = NoJob
  /\ stores' = {"go", "done"}
  /\ worker' = "poll"
  /\ UNCHANGED <<mainVars, flags, inOrder>>

Worker == Poll \/ TakeCommand \/ TakeStart \/ TakeEnd \/ Finish

(* A store of the worker reaches the other hardware thread.                *)
GoArrives ==
  /\ "go" \in stores
  /\ go' = FALSE /\ stores' = stores \ {"go"}
  /\ UNCHANGED <<mainVars, cmd, done, t_start, t_end, workerVars, inOrder>>

(* Mutant of DoneArrives: the stores are the other way round.              *)
DoneArrives_First ==
  /\ "done" \in stores
  /\ done' = TRUE /\ stores' = stores \ {"done"}
  /\ UNCHANGED <<mainVars, cmd, go, t_start, t_end, workerVars, inOrder>>

DoneArrives ==
  /\ "done" \in stores
  /\ inOrder => "go" \notin stores
  /\ done' = TRUE /\ stores' = stores \ {"done"}
  /\ UNCHANGED <<mainVars, cmd, go, t_start, t_end, workerVars, inOrder>>

Arrive == GoArrives \/ DoneArrives

Next == Ensure \/ Batch \/ Spin \/ Worker \/ Arrive

(* Both hardware threads run, and stores arrive; nothing makes the engine  *)
(* start another batch.                                                    *)
Spec ==
  /\ Init /\ [][Next]_vars
  /\ WF_vars(Batch)
  /\ WF_vars(Worker) /\ WF_vars(Arrive)

-----------------------------------------------------------------------------
(* Type invariant.                                                         *)
TypeOK ==
  /\ main \in {"idle", "solo", "command", "clear", "raise", "measure", "wait", "read"}
  /\ job \in DOMAIN Jobs
  /\ alive \in BOOLEAN /\ (alive <=> worker # "none")
  /\ {cmd, t_start, t_end, running} \subseteq Commands \cup {NoJob}
  /\ go \in BOOLEAN /\ done \in BOOLEAN
  /\ worker \in {"none", "poll", "seen", "start", "work", "answer"}
  /\ stores \subseteq {"go", "done"}
  /\ inOrder \in BOOLEAN

(* In whatever order the stores arrive, the times that the main thread     *)
(* reads are those of the job it has dispatched, complete, and the worker  *)
(* is not at a job any more that could change them.                        *)
TimesOfTheJob ==
  main = "read" => t_start = cmd /\ t_end = cmd /\ worker = "poll" /\ cmd = Jobs[job]

(* What is left of the worker's job, its two stores included, and of the   *)
(* batch; seven steps of the worker follow a go.                           *)
WorkLeft ==
  (CASE worker = "seen"   -> 6
     [] worker = "start"  -> 5
     [] worker = "work"   -> 4
     [] worker = "answer" -> 3
     [] OTHER             -> IF go /\ "go" \notin stores THEN 7 ELSE 0)
  + (IF "go" \in stores THEN 1 ELSE 0) + (IF "done" \in stores THEN 1 ELSE 0)

BatchLeft ==
  IF main = "idle" THEN 0
  ELSE 13 * (Len(Jobs) - job)
       + (CASE main = "solo"    -> 14
            [] main = "command" -> 13
            [] main = "clear"   -> 12
            [] main = "raise"   -> 11
            [] main = "measure" -> 3
            [] main = "wait"    -> 2
            [] main = "read"    -> 1)

(* A job is done once for each time it is dispatched: each step of either  *)
(* thread, the main thread's spinning aside, and each arrival of a store   *)
(* brings the end of the batch nearer, in whatever order they come.        *)
JobsRunOut ==
  [][Batch \/ Worker \/ Arrive
       => BatchLeft' + WorkLeft' \in 0 .. BatchLeft + WorkLeft - 1]_vars

(* If the stores arrive in order, every batch ends: no dispatch is wiped   *)
(* out by the go = 0 of the one before.                                    *)
BatchEnds == (inOrder /\ main # "idle") ~> main = "idle"
=============================================================================
