------------------------------- MODULE SmtProofs -------------------------------
(***************************************************************************)
(* The times of the SMT bench, for any list of jobs and any order in which *)
(* the worker's stores arrive; and why a batch ends when they arrive in    *)
(* order: the part of BatchEnds that is safety.                            *)
(*                                                                         *)
(* The invariant says where the one outstanding dispatch is: up for the    *)
(* worker, in its hands, answered but on its way, or seen by the main      *)
(* thread.                                                                 *)
(***************************************************************************)
EXTENDS SmtWorker, TLAPS

Waiting == main \in {"measure", "wait"}
Busy    == worker \in {"seen", "start", "work", "answer"}
Up      == go /\ "go" \notin stores
Timed   == t_start = cmd /\ t_end = cmd

(* Outside of a dispatch the worker rests and nothing is up for it.        *)
Resting == ~Waiting => worker \in {"none", "poll"} /\ "done" \notin stores /\ ~Up

(* The main thread's side of a dispatch.                                   *)
Dispatched ==
  /\ worker = "none" => stores = {} /\ main = "idle"
  /\ main \in {"clear", "raise", "measure", "wait", "read"} => cmd = Jobs[job]
  /\ main = "raise" => ~done
  /\ main = "read" => Timed

(* The worker's.                                                           *)
Serving ==
  /\ Busy => stores = {} /\ ~done
  /\ worker \in {"start", "work", "answer"} => running = cmd
  /\ worker \in {"work", "answer"} => t_start = cmd
  /\ worker = "answer" => t_end = cmd

(* The answer on its way, or arrived.                                      *)
Answered ==
  /\ "done" \in stores => Timed /\ worker = "poll" /\ ~done /\ ~Up
  /\ Waiting /\ done => Timed /\ worker = "poll" /\ ~Up

(* What the order of the stores adds: go = 0 never outlives its dispatch.  *)
Ordered ==
  inOrder => /\ "go" \in stores => "done" \in stores
             /\ Waiting /\ ~done => Up \/ Busy \/ "done" \in stores

IInv == TypeOK /\ Resting /\ Dispatched /\ Serving /\ Answered /\ Ordered

(* With the stores in order, a main thread that spins is spinning for an   *)
(* answer that is still to come.                                           *)
SpinsForAnAnswer ==
  inOrder /\ main = "wait" /\ ~done => Up \/ Busy \/ "done" \in stores

-----------------------------------------------------------------------------
(* The invariant holds at first ...                                        *)
LEMMA Initially == Init => IInv
  <1> SUFFICES ASSUME Init PROVE IInv
    OBVIOUS
  <1>1. TypeOK
    <2>1. job \in DOMAIN Jobs
      BY JobAssumption DEF Init
    <2> QED
      BY <2>1 DEF Init, TypeOK
  <1>2. Resting /\ Dispatched /\ Serving /\ Answered /\ Ordered
    BY DEF Init, Resting, Dispatched, Serving, Answered, Ordered, Waiting, Busy, Up, Timed
  <1> QED
    BY <1>1, <1>2 DEF IInv

(* ... its type under every action ...                                     *)
LEMMA TypingStep == IInv /\ [Next]_vars => TypeOK'
  <1> SUFFICES ASSUME IInv, [Next]_vars PROVE TypeOK'
    OBVIOUS
  <1> USE DEF IInv, TypeOK, mainVars, flags, workerVars
  <1>1. CASE Ensure
    <2>1. job' \in DOMAIN Jobs
      BY <1>1, JobAssumption DEF Ensure
    <2>2. CASE alive
      BY <1>1, <2>1, <2>2 DEF Ensure
    <2>3. CASE ~alive
      <3>1. worker = "none"
        BY <2>3
      <3>2. \/ alive' = TRUE /\ worker' = "poll" /\ main' = "solo"
            \/ alive' = alive /\ worker' = worker /\ main' = main
        BY <1>1, <2>3 DEF Ensure
      <3>3. alive' \in BOOLEAN /\ (alive' <=> worker' # "none")
        <4>1. CASE alive' = TRUE /\ worker' = "poll"
          BY <4>1
        <4>2. CASE alive' = alive /\ worker' = worker
          <5>1. alive \in BOOLEAN /\ (alive <=> worker # "none")
            OBVIOUS
          <5> HIDE DEF TypeOK, IInv
          <5> QED
            BY <4>2, <5>1
        <4> QED
          BY <3>2, <4>1, <4>2
      <3>4. /\ cmd' = NoJob /\ go' = FALSE /\ done' = FALSE
            /\ t_start' = NoJob /\ t_end' = NoJob
            /\ running' = running /\ stores' = stores /\ inOrder' = inOrder
        BY <1>1, <2>3 DEF Ensure
      <3> QED
        BY <2>1, <3>1, <3>2, <3>3, <3>4
    <2> QED
      BY <2>2, <2>3
  <1>2. CASE Solo
    BY <1>2 DEF Solo
  <1>3. CASE Dispatch
    BY <1>3 DEF Dispatch, Commands
  <1>4. CASE Clear
    BY <1>4 DEF Clear
  <1>5. CASE Raise
    BY <1>5 DEF Raise
  <1>6. CASE Measure
    BY <1>6 DEF Measure
  <1>7. CASE Wait
    BY <1>7 DEF Wait
  <1>8. CASE Read
    BY <1>8, JobAssumption DEF Read
  <1>9. CASE Poll
    BY <1>9 DEF Poll
  <1>10. CASE TakeCommand
    BY <1>10 DEF TakeCommand
  <1>11. CASE TakeStart
    BY <1>11 DEF TakeStart
  <1>12. CASE TakeEnd
    BY <1>12 DEF TakeEnd
  <1>13. CASE Finish
    BY <1>13 DEF Finish
  <1>14. CASE GoArrives
    BY <1>14 DEF GoArrives
  <1>15. CASE DoneArrives
    BY <1>15 DEF DoneArrives
  <1>16. CASE UNCHANGED vars
    BY <1>16 DEF vars
  <1> QED
    BY <1>1, <1>2, <1>3, <1>4, <1>5, <1>6, <1>7, <1>8, <1>9, <1>10, <1>11, <1>12, <1>13,
       <1>14, <1>15, <1>16
       DEF Next, Batch, Worker, Arrive, Spin

(* ... and the rest of it.                                                 *)
LEMMA HandshakeStep ==
  IInv /\ [Next]_vars => Resting' /\ Dispatched' /\ Serving' /\ Answered' /\ Ordered'
  <1> SUFFICES ASSUME IInv, [Next]_vars
               PROVE  Resting' /\ Dispatched' /\ Serving' /\ Answered' /\ Ordered'
    OBVIOUS
  <1> USE DEF IInv, TypeOK, Resting, Dispatched, Serving, Answered, Ordered, Waiting, Busy,
              Up, Timed, mainVars, flags, workerVars
  <1>1. CASE Ensure
    BY <1>1 DEF Ensure
  <1>2. CASE Solo
    BY <1>2 DEF Solo
  <1>3. CASE Dispatch
    BY <1>3 DEF Dispatch
  <1>4. CASE Clear
    BY <1>4 DEF Clear
  <1>5. CASE Raise
    BY <1>5 DEF Raise
  <1>6. CASE Measure
    BY <1>6 DEF Measure
  <1>7. CASE Wait
    BY <1>7 DEF Wait
  <1>8. CASE Read
    BY <1>8 DEF Read
  <1>9. CASE Poll
    BY <1>9 DEF Poll
  <1>10. CASE TakeCommand
    BY <1>10 DEF TakeCommand
  <1>11. CASE TakeStart
    BY <1>11 DEF TakeStart
  <1>12. CASE TakeEnd
    BY <1>12 DEF TakeEnd
  <1>13. CASE Finish
    BY <1>13 DEF Finish
  <1>14. CASE GoArrives
    BY <1>14 DEF GoArrives
  <1>15. CASE DoneArrives
    BY <1>15 DEF DoneArrives
  <1>16. CASE UNCHANGED vars
    BY <1>16 DEF vars
  <1> QED
    BY <1>1, <1>2, <1>3, <1>4, <1>5, <1>6, <1>7, <1>8, <1>9, <1>10, <1>11, <1>12, <1>13,
       <1>14, <1>15, <1>16
       DEF Next, Batch, Worker, Arrive, Spin

(* The inductive invariant.                                                *)
LEMMA Inductive == Spec => []IInv
  <1>1. IInv /\ [Next]_vars => IInv'
    BY TypingStep, HandshakeStep DEF IInv
  <1> QED
    BY Initially, <1>1, PTL DEF Spec

(* The types; in particular the batch stays within its list of jobs and a  *)
(* worker that is alive is somewhere in its loop.                          *)
THEOREM TypeCorrect == Spec => []TypeOK
  BY Inductive, PTL DEF IInv

(* run_smt_scaling reads the times of the job it has dispatched, whatever  *)
(* the jobs are and in whatever order go = 0 and done = 1 reach it.        *)
THEOREM TimesAreOfTheJob == Spec => []TimesOfTheJob
  <1>1. IInv => TimesOfTheJob
    BY DEF IInv, TypeOK, Resting, Dispatched, Waiting, Timed, TimesOfTheJob
  <1> QED
    BY <1>1, Inductive, PTL

(* smt_wait_worker never spins for nothing if the stores arrive in order.  *)
THEOREM NeverSpinsForNothing == Spec => []SpinsForAnAnswer
  <1>1. IInv => SpinsForAnAnswer
    BY DEF IInv, Ordered, Waiting, SpinsForAnAnswer
  <1> QED
    BY <1>1, Inductive, PTL

-----------------------------------------------------------------------------
(* The end of a batch comes nearer.                                        *)

LEMMA WorkLeftType == WorkLeft \in Nat
  BY DEF WorkLeft

LEMMA BatchLeftType ==
  ASSUME TypeOK
  PROVE  BatchLeft \in Nat /\ Len(Jobs) - job \in Nat /\ job \in Nat /\ Len(Jobs) \in Nat
  <1>1. Len(Jobs) - job \in Nat /\ job \in Nat /\ Len(Jobs) \in Nat
    BY JobAssumption DEF TypeOK
  <1> DEFINE rest == Len(Jobs) - job
  <1> HIDE DEF rest
  <1>2. 13 * rest \in Nat
    BY <1>1 DEF rest
  <1> QED
    BY <1>1, <1>2 DEF BatchLeft, TypeOK, rest

(* The main thread: a Raise hands the worker its share.                    *)
LEMMA BatchStep ==
  ASSUME IInv, Batch
  PROVE  BatchLeft' + WorkLeft' < BatchLeft + WorkLeft
  <1> USE DEF mainVars, flags, workerVars
  <1>t. BatchLeft \in Nat /\ Len(Jobs) - job \in Nat /\ job \in Nat /\ Len(Jobs) \in Nat
    BY BatchLeftType DEF IInv
  <1>w. WorkLeft \in Nat
    BY WorkLeftType
  <1> DEFINE rest == 13 * (Len(Jobs) - job)
  <1>r. rest \in Nat
    BY <1>t
  <1>1. CASE Solo
    <2>1. BatchLeft = rest + 14 /\ BatchLeft' = rest + 13
      BY <1>1 DEF Solo, BatchLeft
    <2>2. WorkLeft' = WorkLeft
      BY <1>1 DEF Solo, WorkLeft
    <2> HIDE DEF rest
    <2> QED
      BY <1>r, <1>w, <2>1, <2>2
  <1>2. CASE Dispatch
    <2>1. BatchLeft = rest + 13 /\ BatchLeft' = rest + 12
      BY <1>2 DEF Dispatch, BatchLeft
    <2>2. WorkLeft' = WorkLeft
      BY <1>2 DEF Dispatch, WorkLeft
    <2> HIDE DEF rest
    <2> QED
      BY <1>r, <1>w, <2>1, <2>2
  <1>3. CASE Clear
    <2>1. BatchLeft = rest + 12 /\ BatchLeft' = rest + 11
      BY <1>3 DEF Clear, BatchLeft
    <2>2. WorkLeft' = WorkLeft
      BY <1>3 DEF Clear, WorkLeft
    <2> HIDE DEF rest
    <2> QED
      BY <1>r, <1>w, <2>1, <2>2
  <1>4. CASE Raise
    <2>1. BatchLeft = rest + 11 /\ BatchLeft' = rest + 3
      BY <1>4 DEF Raise, BatchLeft
    <2>2. worker = "poll" /\ worker' = "poll" /\ stores' = stores
      BY <1>4 DEF Raise, IInv, TypeOK, Resting, Dispatched, Waiting
    <2>3. WorkLeft' <= WorkLeft + 7
      BY <1>w, <2>2 DEF WorkLeft
    <2>4. WorkLeft' \in Nat
      BY <2>2 DEF WorkLeft
    <2>5. ASSUME NEW r \in Nat, NEW x \in Nat, NEW y \in Nat, y <= x + 7
          PROVE  (r + 3) + y < (r + 11) + x
      BY <2>5
    <2> HIDE DEF rest
    <2> QED
      BY <1>r, <1>w, <2>1, <2>3, <2>4, <2>5
  <1>5. CASE Measure
    <2>1. BatchLeft = rest + 3 /\ BatchLeft' = rest + 2
      BY <1>5 DEF Measure, BatchLeft
    <2>2. WorkLeft' = WorkLeft
      BY <1>5 DEF Measure, WorkLeft
    <2> HIDE DEF rest
    <2> QED
      BY <1>r, <1>w, <2>1, <2>2
  <1>6. CASE Wait
    <2>1. BatchLeft = rest + 2 /\ BatchLeft' = rest + 1
      BY <1>6 DEF Wait, BatchLeft
    <2>2. WorkLeft' = WorkLeft
      BY <1>6 DEF Wait, WorkLeft
    <2> HIDE DEF rest
    <2> QED
      BY <1>r, <1>w, <2>1, <2>2
  <1>7. CASE Read
    <2>1. BatchLeft = rest + 1
      BY <1>7 DEF Read, BatchLeft
    <2>2. WorkLeft' = WorkLeft
      BY <1>7 DEF Read, WorkLeft
    <2>3. BatchLeft' = IF job = Len(Jobs) THEN 0 ELSE 13 * (Len(Jobs) - (job + 1)) + 13
      BY <1>7 DEF Read, BatchLeft
    <2>4. job # Len(Jobs) => 13 * (Len(Jobs) - (job + 1)) + 13 = rest
      BY <1>t
    <2> HIDE DEF rest
    <2> QED
      BY <1>r, <1>w, <2>1, <2>2, <2>3, <2>4
  <1> QED
    BY <1>1, <1>2, <1>3, <1>4, <1>5, <1>6, <1>7 DEF Batch

(* The worker and its stores.                                              *)
LEMMA WorkStep ==
  ASSUME IInv, Worker \/ Arrive
  PROVE  WorkLeft' < WorkLeft /\ BatchLeft' = BatchLeft
  <1> USE DEF mainVars, flags, workerVars, WorkLeft, BatchLeft
  <1>1. CASE Poll
    BY <1>1 DEF Poll
  <1>2. CASE TakeCommand
    BY <1>2 DEF TakeCommand
  <1>3. CASE TakeStart
    BY <1>3 DEF TakeStart
  <1>4. CASE TakeEnd
    BY <1>4 DEF TakeEnd
  <1>5. CASE Finish
    BY <1>5 DEF Finish
  <1>6. CASE GoArrives
    BY <1>6 DEF GoArrives
  <1>7. CASE DoneArrives
    BY <1>7 DEF DoneArrives
  <1> QED
    BY <1>1, <1>2, <1>3, <1>4, <1>5, <1>6, <1>7 DEF Worker, Arrive

(* A batch takes a bounded number of steps, for any list of jobs and any   *)
(* order of arrival: the worker does nothing twice.  With                  *)
(* NeverSpinsForNothing, why smt_wait_worker returns.                      *)
THEOREM JobsEnd == Spec => JobsRunOut
  <1>1. IInv /\ IInv' /\ [Next]_vars =>
          [Batch \/ Worker \/ Arrive
             => BatchLeft' + WorkLeft' \in 0 .. BatchLeft + WorkLeft - 1]_vars
    <2> SUFFICES ASSUME IInv, IInv', Batch \/ Worker \/ Arrive
                 PROVE  BatchLeft' + WorkLeft' \in 0 .. BatchLeft + WorkLeft - 1
      OBVIOUS
    <2>1. BatchLeft \in Nat /\ WorkLeft \in Nat
      BY BatchLeftType, WorkLeftType DEF IInv
    <2>2. BatchLeft' \in Nat
      <3>1. TypeOK'
        BY DEF IInv
      <3>2. Len(Jobs) - job' \in Nat
        BY <3>1, JobAssumption DEF TypeOK
      <3> DEFINE rest == Len(Jobs) - job'
      <3> HIDE DEF rest
      <3>3. 13 * rest \in Nat
        BY <3>2 DEF rest
      <3> QED
        BY <3>1, <3>3 DEF BatchLeft, TypeOK, rest
    <2>3. WorkLeft' \in Nat
      BY DEF WorkLeft
    <2>4. BatchLeft' + WorkLeft' < BatchLeft + WorkLeft
      <3>1. CASE Batch
        BY <3>1, BatchStep
      <3>2. CASE Worker \/ Arrive
        BY <2>1, <2>3, <3>2, WorkStep
      <3> QED
        BY <3>1, <3>2
    <2>5. ASSUME NEW a \in Nat, NEW b \in Nat, NEW c \in Nat, NEW d \in Nat, a + b < c + d
          PROVE  a + b \in 0 .. c + d - 1
      BY <2>5
    <2> QED
      BY <2>1, <2>2, <2>3, <2>4, <2>5
  <1> QED
    BY <1>1, Inductive, PTL DEF Spec, JobsRunOut
=============================================================================
