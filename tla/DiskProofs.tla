------------------------------ MODULE DiskProofs ------------------------------
(***************************************************************************)
(* The disk page for any list of benches and probes: no thread is lost,    *)
(* the flags tell the truth, and no join waits for I/O.                    *)
(*                                                                         *)
(* The main thread knows a worker by two unlocked flags only.  The         *)
(* invariant says, for each worker, where it can be for each value of its  *)
(* flags, and that between the test of the running flag and the creation   *)
(* of the next thread nothing can raise the flag again.                    *)
(***************************************************************************)
EXTENDS Disk, TLAPS

(* The bench thread and its flags.  One that could not be created leaves   *)
(* its running flag up for ever, so that nobody comes to join it.          *)
BenchFlags ==
  /\ ~benchRunning => bench \in {"none", "exit", "exited"}
  /\ benchRunning => bench \notin {"exit", "exited"}
  /\ ~benchStarted => bench \in {"none", "exited"}
  /\ benchStarted /\ bench = "none" => benchRunning
  /\ main = "bench" => ~benchRunning
  /\ threads.bench = IF benchStarted /\ bench # "none" THEN 1 ELSE 0

(* Only the bench that runs has a status that is to change.                *)
OnlyPendingRuns ==
  \A b \in Ids : status[b] \in {"prepare", "running"} =>
                   b = pending /\ bench \in {"prepare", "open", "transfer", "rewrite", "write"}

(* The probe thread and its flags.                                         *)
ProbeFlags ==
  /\ ~probeRunning => probe \in {"none", "exit", "exited"}
  /\ probeRunning => probe \notin {"exit", "exited"}
  /\ ~probeStarted => probe \in {"none", "exited"}
  /\ probeStarted /\ probe = "none" => probeRunning
  /\ main = "probes" => ~probeRunning
  /\ threads.probe = IF probeStarted /\ probe # "none" THEN 1 ELSE 0

Judged(i) == states[i] \in {"done", "error"}

(* How far the suite has come.                                             *)
Progress ==
  /\ probe \in {"none", "begin"} => \A i \in DOMAIN Probes : states[i] = "pending"
  /\ probe \in {"make", "spawn", "measure", "halt", "join", "record", "remake"} =>
       idx \in DOMAIN Probes /\ \A i \in DOMAIN Probes : i < idx => Judged(i)
  /\ probe = "make" => idx = 1
  /\ probe = "remake" => idx < Len(Probes) /\ Judged(idx)
  /\ probe \in {"done", "exit", "exited"} => \A i \in DOMAIN Probes : Judged(i)

(* Contenders exist from their creation to the join of the same probe.     *)
Contenders ==
  /\ \A c \in Slots : contender[c] # "none" =>
       probe \in {"measure", "halt", "join"} /\ c \in Probes[idx].slots
  /\ probe \in {"halt", "join"} => Contends(idx)

IInv == TypeOK /\ BenchFlags /\ OnlyPendingRuns /\ ProbeFlags /\ Progress /\ Contenders

-----------------------------------------------------------------------------
(* What the assumptions say of the constants.                              *)
LEMMA Constants ==
  /\ Len(Benches) \in Nat /\ Len(Benches) >= 1 /\ Ids = 1 .. Len(Benches)
  /\ Len(Probes) \in Nat /\ Len(Probes) >= 1 /\ DOMAIN Probes = 1 .. Len(Probes)
  BY BenchAssumption, ProbeAssumption DEF Ids

(* The cursor stays among the benches.                                     *)
LEMMA CursorWraps ==
  ASSUME NEW c \in Ids, NEW dir \in {-1, 0, 1}
  PROVE  ((c - 1 + dir) % Len(Benches)) + 1 \in Ids
  <1>1. \A n \in Int : n % Len(Benches) \in 0 .. Len(Benches) - 1
    BY Constants
  <1>2. c - 1 + dir \in Int
    BY Constants
  <1>3. (c - 1 + dir) % Len(Benches) \in 0 .. Len(Benches) - 1
    BY <1>1, <1>2
  <1> QED
    BY <1>3, Constants

(* Creating and joining a thread changes one count.                        *)
LEMMA Counts ==
  ASSUME NEW t \in [bench : {0, 1}, probe : {0, 1}]
  PROVE  /\ t.bench = 1 => [t EXCEPT !.bench = @ - 1] = [bench |-> 0, probe |-> t.probe]
         /\ t.bench = 0 => [t EXCEPT !.bench = @ + 1] = [bench |-> 1, probe |-> t.probe]
         /\ t.probe = 1 => [t EXCEPT !.probe = @ - 1] = [bench |-> t.bench, probe |-> 0]
         /\ t.probe = 0 => [t EXCEPT !.probe = @ + 1] = [bench |-> t.bench, probe |-> 1]
         /\ \A n \in {0, 1} : /\ [bench |-> n, probe |-> t.probe] \in [bench : {0, 1}, probe : {0, 1}]
                              /\ [bench |-> t.bench, probe |-> n] \in [bench : {0, 1}, probe : {0, 1}]
  OBVIOUS

(* The invariant holds at first ...                                        *)
LEMMA Initially == Init => IInv
  <1> SUFFICES ASSUME Init PROVE IInv
    OBVIOUS
  <1> USE Constants DEF Init
  <1>1. TypeOK
    <2>1. 1 \in Ids
      BY Constants
    <2>2. threads \in [bench : {0, 1}, probe : {0, 1}]
      OBVIOUS
    <2>3. status \in [Ids -> {"idle"}] /\ states \in [DOMAIN Probes -> {"pending"}]
      OBVIOUS
    <2>4. contender \in [Slots -> {"none"}]
      OBVIOUS
    <2>5. idx \in 0 .. Len(Probes)
      BY Constants
    <2> QED
      BY <2>1, <2>2, <2>3, <2>4, <2>5 DEF TypeOK, Files
  <1>2. BenchFlags /\ OnlyPendingRuns /\ ProbeFlags
    BY DEF BenchFlags, OnlyPendingRuns, ProbeFlags
  <1>3. Progress /\ Contenders
    BY DEF Progress, Contenders
  <1> QED
    BY <1>1, <1>2, <1>3 DEF IInv

-----------------------------------------------------------------------------
(* ... and is kept by the main thread: it creates a thread only where      *)
(* there is none, ...                                                      *)
LEMMA MainStep ==
  ASSUME IInv,
         \/ \E dir \in {-1, 0, 1}, toggle, cross \in BOOLEAN : Input(dir, toggle, cross)
         \/ MainWorks
  PROVE  IInv'
  <1> USE Constants DEF IInv, mainVars, flagVars, benchVars, probeVars
  <1>1. CASE \E dir \in {-1, 0, 1}, toggle, cross \in BOOLEAN : Input(dir, toggle, cross)
    <2> SUFFICES ASSUME NEW dir \in {-1, 0, 1}, NEW toggle \in BOOLEAN, NEW cross \in BOOLEAN,
                        Input(dir, toggle, cross)
                 PROVE  IInv'
      BY <1>1
    <2>1. current' \in Ids
      BY CursorWraps DEF TypeOK, Input
    <2>2. TypeOK'
      BY <2>1 DEF TypeOK, Input
    <2>3. (BenchFlags /\ OnlyPendingRuns /\ ProbeFlags)'
      BY DEF TypeOK, BenchFlags, OnlyPendingRuns, ProbeFlags, Input
    <2>4. (Progress /\ Contenders)'
      BY DEF Progress, Contenders, Judged, Input
    <2> QED
      BY <2>2, <2>3, <2>4
  <1>2. CASE JoinBench
    <2>1. TypeOK'
      <3>1. threads.bench = 1 /\ threads' = [threads EXCEPT !.bench = @ - 1]
        BY <1>2 DEF BenchFlags, JoinBench
      <3>2. threads' \in [bench : {0, 1}, probe : {0, 1}]
        BY <3>1, Counts DEF TypeOK
      <3> QED
        BY <1>2, <3>2 DEF TypeOK, JoinBench
    <2>2. (BenchFlags /\ OnlyPendingRuns /\ ProbeFlags)'
      BY <1>2 DEF TypeOK, BenchFlags, OnlyPendingRuns, ProbeFlags, JoinBench
    <2>3. (Progress /\ Contenders)'
      BY <1>2 DEF Progress, Contenders, Judged, JoinBench
    <2> QED
      BY <2>1, <2>2, <2>3
  <1>3. CASE JoinProbes
    <2>1. TypeOK'
      <3>1. threads.probe = 1 /\ threads' = [threads EXCEPT !.probe = @ - 1]
        BY <1>3 DEF ProbeFlags, JoinProbes
      <3>2. threads' \in [bench : {0, 1}, probe : {0, 1}]
        BY <3>1, Counts DEF TypeOK
      <3> QED
        BY <1>3, <3>2 DEF TypeOK, JoinProbes
    <2>2. (BenchFlags /\ OnlyPendingRuns /\ ProbeFlags)'
      BY <1>3 DEF TypeOK, BenchFlags, OnlyPendingRuns, ProbeFlags, JoinProbes
    <2>3. (Progress /\ Contenders)'
      BY <1>3 DEF Progress, Contenders, Judged, JoinProbes
    <2> QED
      BY <2>1, <2>2, <2>3
  <1>4. CASE \E created \in BOOLEAN : StartBench(created)
    <2> SUFFICES ASSUME NEW created \in BOOLEAN, StartBench(created) PROVE IInv'
      BY <1>4
    <2>1. TypeOK'
      <3>1. /\ threads.bench = 0
            /\ threads' = [threads EXCEPT !.bench = IF created THEN @ + 1 ELSE @]
        BY DEF BenchFlags, StartBench
      <3>2. threads' = [bench |-> IF created THEN 1 ELSE 0, probe |-> threads.probe]
        BY <3>1 DEF TypeOK
      <3>3. threads' \in [bench : {0, 1}, probe : {0, 1}]
        BY <3>2 DEF TypeOK
      <3> QED
        BY <3>3 DEF TypeOK, StartBench
    <2>2. (BenchFlags /\ OnlyPendingRuns /\ ProbeFlags)'
      BY DEF TypeOK, BenchFlags, OnlyPendingRuns, ProbeFlags, StartBench
    <2>3. (Progress /\ Contenders)'
      BY DEF Progress, Contenders, Judged, StartBench
    <2> QED
      BY <2>1, <2>2, <2>3
  <1>5. CASE \E created \in BOOLEAN : StartProbes(created)
    <2> SUFFICES ASSUME NEW created \in BOOLEAN, StartProbes(created) PROVE IInv'
      BY <1>5
    <2>1. TypeOK'
      <3>1. /\ threads.probe = 0
            /\ threads' = [threads EXCEPT !.probe = IF created THEN @ + 1 ELSE @]
        BY DEF ProbeFlags, StartProbes
      <3>2. threads' = [bench |-> threads.bench, probe |-> IF created THEN 1 ELSE 0]
        BY <3>1 DEF TypeOK
      <3>3. threads' \in [bench : {0, 1}, probe : {0, 1}]
        BY <3>2 DEF TypeOK
      <3> QED
        BY <3>3 DEF TypeOK, StartProbes
    <2>2. (BenchFlags /\ OnlyPendingRuns /\ ProbeFlags)'
      BY DEF TypeOK, BenchFlags, OnlyPendingRuns, ProbeFlags, StartProbes
    <2>3. (Progress /\ Contenders)'
      BY DEF TypeOK, Progress, Contenders, ProbeFlags, StartProbes
    <2> QED
      BY <2>1, <2>2, <2>3
  <1> QED
    BY <1>1, <1>2, <1>3, <1>4, <1>5 DEF MainWorks

(* ... by the bench thread, which judges its bench before it lowers its    *)
(* flag, ...                                                               *)
LEMMA BenchStep ==
  ASSUME IInv, BenchThread
  PROVE  IInv'
  <1> USE Constants DEF IInv, mainVars, flagVars, benchVars, probeVars, threadVars, Files,
                        Status, Fail, Done
  <1>1. UNCHANGED <<mainVars, benchStarted, pending, probeRunning, probeStarted, threads, probeVars>>
    BY DEF BenchThread, BenchBegin, Prepare, Open, Transfer, Rewrite, WriteFile, BenchFinish,
           BenchExit
  <1>2. (ProbeFlags /\ Progress /\ Contenders)'
    BY <1>1 DEF ProbeFlags, Progress, Contenders, Judged
  <1>3. CASE BenchBegin
    <2>1. TypeOK'
      BY <1>3 DEF TypeOK, BenchBegin
    <2>2. (BenchFlags /\ OnlyPendingRuns)'
      BY <1>3 DEF TypeOK, BenchFlags, OnlyPendingRuns, BenchBegin
    <2> QED
      BY <2>1, <2>2, <1>2
  <1>4. CASE \E left \in Files : Prepare(left)
    <2>1. TypeOK'
      BY <1>4 DEF TypeOK, Prepare
    <2>2. (BenchFlags /\ OnlyPendingRuns)'
      BY <1>4 DEF TypeOK, BenchFlags, OnlyPendingRuns, Prepare
    <2> QED
      BY <2>1, <2>2, <1>2
  <1>5. CASE \E ok \in BOOLEAN : Open(ok)
    <2>1. TypeOK'
      BY <1>5 DEF TypeOK, Open
    <2>2. (BenchFlags /\ OnlyPendingRuns)'
      BY <1>5 DEF TypeOK, BenchFlags, OnlyPendingRuns, Open
    <2> QED
      BY <2>1, <2>2, <1>2
  <1>6. CASE \E ok \in BOOLEAN : Transfer(ok)
    <2>1. TypeOK'
      BY <1>6 DEF TypeOK, Transfer
    <2>2. (BenchFlags /\ OnlyPendingRuns)'
      BY <1>6 DEF TypeOK, BenchFlags, OnlyPendingRuns, Transfer
    <2> QED
      BY <2>1, <2>2, <1>2
  <1>7. CASE \E a, b \in BOOLEAN : Rewrite(a, b)
    <2>1. TypeOK'
      BY <1>7 DEF TypeOK, Rewrite
    <2>2. (BenchFlags /\ OnlyPendingRuns)'
      BY <1>7 DEF TypeOK, BenchFlags, OnlyPendingRuns, Rewrite
    <2> QED
      BY <2>1, <2>2, <1>2
  <1>8. CASE \E a, b \in BOOLEAN : WriteFile(a, b)
    <2>1. TypeOK'
      BY <1>8 DEF TypeOK, WriteFile
    <2>2. (BenchFlags /\ OnlyPendingRuns)'
      BY <1>8 DEF TypeOK, BenchFlags, OnlyPendingRuns, WriteFile
    <2> QED
      BY <2>1, <2>2, <1>2
  <1>9. CASE BenchFinish
    <2>1. TypeOK'
      BY <1>9 DEF TypeOK, BenchFinish
    <2>2. (BenchFlags /\ OnlyPendingRuns)'
      BY <1>9 DEF TypeOK, BenchFlags, OnlyPendingRuns, BenchFinish
    <2> QED
      BY <2>1, <2>2, <1>2
  <1>10. CASE BenchExit
    <2>1. TypeOK'
      BY <1>10 DEF TypeOK, BenchExit
    <2>2. (BenchFlags /\ OnlyPendingRuns)'
      BY <1>10 DEF TypeOK, BenchFlags, OnlyPendingRuns, BenchExit
    <2> QED
      BY <2>1, <2>2, <1>2
  <1> QED
    BY <1>3, <1>4, <1>5, <1>6, <1>7, <1>8, <1>9, <1>10 DEF BenchThread

-----------------------------------------------------------------------------
(* A probe is entered only while there is no contender and all before it   *)
(* have been judged.                                                       *)
LEMMA EnterStep ==
  ASSUME IInv, NEW i \in DOMAIN Probes,
         NEW st \in [DOMAIN Probes -> {"pending", "running", "done", "error"}],
         Enter(i, st),
         \A j \in DOMAIN Probes : j < i => st[j] \in {"done", "error"},
         probe \in {"make", "record", "remake"},
         probeFile' \in Files, measured' \in BOOLEAN,
         UNCHANGED <<proberVars, probeRunning, stop, contender>>
  PROVE  IInv'
  <1> USE Constants DEF IInv, proberVars, mainVars, benchVars, Enter
  <1>1. TypeOK'
    BY DEF TypeOK
  <1>2. (BenchFlags /\ OnlyPendingRuns /\ ProbeFlags)'
    BY DEF TypeOK, BenchFlags, OnlyPendingRuns, ProbeFlags
  <1>3. Progress'
    BY DEF TypeOK, Progress, Judged
  <1>4. Contenders'
    BY DEF TypeOK, Contenders
  <1> QED
    BY <1>1, <1>2, <1>3, <1>4

(* ... by the probe thread, which judges every probe and ends every        *)
(* contender before it lowers its flag, ...                                *)
LEMMA ProbeStep ==
  ASSUME IInv, ProbeThread
  PROVE  IInv'
  <1> USE Constants DEF IInv, proberVars, mainVars, benchVars
  <1>1. UNCHANGED proberVars
    BY DEF ProbeThread, ProbeBegin, MakeFile, Remake, Spawn, Measure, Halt, JoinContenders,
           Record, ProbeFinish, ProbeExit
  <1>2. (BenchFlags /\ OnlyPendingRuns)'
    BY <1>1, ProbeThread DEF TypeOK, BenchFlags, OnlyPendingRuns
  <1>3. CASE ProbeBegin
    <2>1. TypeOK'
      BY <1>3 DEF TypeOK, ProbeBegin
    <2>2. (ProbeFlags /\ Progress /\ Contenders)'
      BY <1>3 DEF TypeOK, ProbeFlags, Progress, Contenders, Judged, ProbeBegin
    <2> QED
      BY <2>1, <2>2, <1>2
  <1>4. CASE \E left \in Files : MakeFile(left)
    <2> SUFFICES ASSUME NEW left \in Files, MakeFile(left) PROVE IInv'
      BY <1>4
    <2>1. CASE Enter(1, states)
      BY <2>1, EnterStep DEF TypeOK, MakeFile
    <2>2. CASE /\ states' = [i \in DOMAIN Probes |-> "error"]
               /\ probe' = "done" /\ UNCHANGED idx
      <3>1. TypeOK'
        BY <2>2 DEF TypeOK, MakeFile
      <3>2. (ProbeFlags /\ Progress /\ Contenders)'
        BY <2>2 DEF TypeOK, ProbeFlags, Progress, Contenders, Judged, MakeFile
      <3> QED
        BY <3>1, <3>2, <1>2
    <2> QED
      BY <2>1, <2>2 DEF MakeFile
  <1>5. CASE \E left \in Files : Remake(left)
    <2> SUFFICES ASSUME NEW left \in Files, Remake(left) PROVE IInv'
      BY <1>5
    <2>1. idx + 1 \in DOMAIN Probes
      BY DEF Remake, Progress, TypeOK
    <2>2. \A j \in DOMAIN Probes : j < idx + 1 => states[j] \in {"done", "error"}
      BY DEF Remake, Progress, Judged, TypeOK
    <2> QED
      BY <2>1, <2>2, EnterStep DEF TypeOK, Remake
  <1>6. CASE \E created \in SUBSET Slots : Spawn(created)
    <2> SUFFICES ASSUME NEW created \in SUBSET Slots, Spawn(created) PROVE IInv'
      BY <1>6
    <2>1. TypeOK'
      BY DEF TypeOK, Spawn
    <2>2. (ProbeFlags /\ Progress)'
      BY DEF ProbeFlags, Progress, Judged, Spawn
    <2>3. Contenders'
      BY DEF TypeOK, Contenders, Contends, Spawn
    <2> QED
      BY <2>1, <2>2, <2>3, <1>2
  <1>7. CASE \E ok \in BOOLEAN, left \in Files : Measure(ok, left)
    <2> SUFFICES ASSUME NEW ok \in BOOLEAN, NEW left \in Files, Measure(ok, left) PROVE IInv'
      BY <1>7
    <2>1. TypeOK'
      BY DEF TypeOK, Measure
    <2>2. (ProbeFlags /\ Progress)'
      BY DEF ProbeFlags, Progress, Judged, Measure
    <2>3. Contenders'
      BY DEF TypeOK, Contenders, Contends, Measure
    <2> QED
      BY <2>1, <2>2, <2>3, <1>2
  <1>8. CASE Halt
    <2>1. TypeOK'
      BY <1>8 DEF TypeOK, Halt
    <2>2. (ProbeFlags /\ Progress /\ Contenders)'
      BY <1>8 DEF ProbeFlags, Progress, Contenders, Judged, Halt
    <2> QED
      BY <2>1, <2>2, <1>2
  <1>9. CASE JoinContenders
    <2>1. TypeOK'
      BY <1>9 DEF TypeOK, JoinContenders
    <2>2. (ProbeFlags /\ Progress)'
      BY <1>9 DEF ProbeFlags, Progress, Judged, JoinContenders
    <2>3. Contenders'
      BY <1>9 DEF TypeOK, Contenders, JoinContenders
    <2> QED
      BY <2>1, <2>2, <2>3, <1>2
  <1>10. CASE Record
    <2> DEFINE st == State(idx, IF measured THEN "done" ELSE "error")
    <2>1. /\ idx \in DOMAIN Probes
          /\ st \in [DOMAIN Probes -> {"pending", "running", "done", "error"}]
          /\ \A j \in DOMAIN Probes : j <= idx => st[j] \in {"done", "error"}
          /\ \A c \in Slots : contender[c] = "none"
      <3>1. idx \in DOMAIN Probes /\ \A j \in DOMAIN Probes : j < idx => Judged(j)
        BY <1>10 DEF Progress, Record
      <3>2. /\ st \in [DOMAIN Probes -> {"pending", "running", "done", "error"}]
            /\ st[idx] \in {"done", "error"}
            /\ \A j \in DOMAIN Probes : j # idx => st[j] = states[j]
        BY <3>1 DEF TypeOK, State
      <3>3. \A c \in Slots : contender[c] = "none"
        BY <1>10 DEF Contenders, Record
      <3>4. \A j \in DOMAIN Probes : j <= idx => j = idx \/ j < idx
        BY <3>1
      <3> QED
        BY <3>1, <3>2, <3>3, <3>4 DEF Judged
    <2>2. CASE idx = Len(Probes)
      <3>1. TypeOK'
        BY <1>10, <2>1, <2>2 DEF TypeOK, Record
      <3>2. (ProbeFlags /\ Progress /\ Contenders)'
        BY <1>10, <2>1, <2>2 DEF TypeOK, ProbeFlags, Progress, Contenders, Judged, Record
      <3> QED
        BY <3>1, <3>2, <1>2
    <2>3. CASE idx # Len(Probes) /\ Contends(idx + 1) /\ ~Contends(idx)
      <3>1. TypeOK'
        BY <1>10, <2>1, <2>3 DEF TypeOK, Record
      <3>2. (ProbeFlags /\ Progress /\ Contenders)'
        BY <1>10, <2>1, <2>3 DEF TypeOK, ProbeFlags, Progress, Contenders, Judged, Record
      <3> QED
        BY <3>1, <3>2, <1>2
    <2>4. CASE idx # Len(Probes) /\ ~(Contends(idx + 1) /\ ~Contends(idx))
      <3>1. Enter(idx + 1, st)
        BY <1>10, <2>4 DEF Record
      <3>2. idx + 1 \in DOMAIN Probes
        BY <2>1, <2>4
      <3>3. \A j \in DOMAIN Probes : j < idx + 1 => st[j] \in {"done", "error"}
        BY <2>1
      <3>4. /\ probe = "record" /\ measured' = FALSE
            /\ UNCHANGED <<proberVars, probeRunning, probeFile, stop, contender>>
        BY <1>10 DEF Record
      <3>5. probeFile' \in Files /\ measured' \in BOOLEAN
        BY <3>4 DEF TypeOK
      <3> HIDE DEF st
      <3> QED
        BY <3>1, <3>2, <3>3, <3>4, <3>5, <2>1, EnterStep
    <2> QED
      BY <2>2, <2>3, <2>4
  <1>11. CASE ProbeFinish
    <2>1. TypeOK'
      BY <1>11 DEF TypeOK, ProbeFinish
    <2>2. (ProbeFlags /\ Progress /\ Contenders)'
      BY <1>11 DEF ProbeFlags, Progress, Contenders, Judged, ProbeFinish
    <2> QED
      BY <2>1, <2>2, <1>2
  <1>12. CASE ProbeExit
    <2>1. TypeOK'
      BY <1>12 DEF TypeOK, ProbeExit
    <2>2. (ProbeFlags /\ Progress /\ Contenders)'
      BY <1>12 DEF ProbeFlags, Progress, Contenders, Judged, ProbeExit
    <2> QED
      BY <2>1, <2>2, <1>2
  <1> QED
    BY <1>3, <1>4, <1>5, <1>6, <1>7, <1>8, <1>9, <1>10, <1>11, <1>12 DEF ProbeThread

(* ... and by the contenders.                                              *)
LEMMA ContenderStep ==
  ASSUME IInv, NEW c \in Slots, Contender(c)
  PROVE  IInv'
  <1> USE DEF IInv, proberVars, mainVars, benchVars
  <1>1. /\ UNCHANGED <<proberVars, probeRunning, probe, idx, measured, states, probeFile, stop>>
        /\ contender[c] # "none"
        /\ \E to \in {"reading", "exited"} : contender' = [contender EXCEPT ![c] = to]
    BY DEF Contender, ContenderOpens, ContenderStops, ContenderMoves
  <1>2. TypeOK'
    BY <1>1 DEF TypeOK
  <1>3. (BenchFlags /\ OnlyPendingRuns /\ ProbeFlags /\ Progress)'
    BY <1>1 DEF BenchFlags, OnlyPendingRuns, ProbeFlags, Progress, Judged
  <1>4. Contenders'
    BY <1>1 DEF TypeOK, Contenders
  <1> QED
    BY <1>2, <1>3, <1>4

(* The inductive invariant.                                                *)
LEMMA Inductive == Spec => []IInv
  <1>1. IInv /\ [Next]_vars => IInv'
    <2> SUFFICES ASSUME IInv, [Next]_vars PROVE IInv'
      OBVIOUS
    <2>1. CASE Next
      BY <2>1, MainStep, BenchStep, ProbeStep, ContenderStep DEF Next
    <2>2. CASE UNCHANGED vars
      BY <2>2 DEF vars, mainVars, flagVars, benchVars, probeVars, IInv, TypeOK, BenchFlags,
                  OnlyPendingRuns, ProbeFlags, Progress, Judged, Contenders
    <2> QED
      BY <2>1, <2>2
  <1> QED
    BY Initially, <1>1, PTL DEF Spec

-----------------------------------------------------------------------------
(* Type correctness, the counts of threads among it: none is created over  *)
(* one that has not been joined.                                           *)
THEOREM TypeCorrect == Spec => []TypeOK
  BY Inductive, PTL DEF IInv

(* disk_trigger_bench, disk_run_probes and probe_contend lose no thread.   *)
THEOREM NoThreadLost == Spec => []ThreadsAccounted
  <1>1. IInv => ThreadsAccounted
    BY DEF IInv, BenchFlags, ProbeFlags, Contenders, ThreadsAccounted
  <1> QED
    BY <1>1, Inductive, PTL

(* A running flag that is down means results that have been judged.        *)
THEOREM FlagsAreTrue == Spec => []FlagsSettled
  <1>1. IInv => FlagsSettled
    <2> SUFFICES ASSUME IInv PROVE FlagsSettled
      OBVIOUS
    <2>1. ~benchRunning => \A b \in Ids : status[b] \notin {"prepare", "running"}
      BY DEF IInv, BenchFlags, OnlyPendingRuns
    <2>2. ~probeRunning /\ probe = "none" => \A i \in DOMAIN Probes : states[i] \in {"pending"}
      BY DEF IInv, Progress
    <2>3. ~probeRunning /\ probe # "none" =>
            \A i \in DOMAIN Probes : states[i] \in {"done", "error"}
      BY DEF IInv, ProbeFlags, Progress, Judged
    <2> QED
      BY <2>1, <2>2, <2>3 DEF FlagsSettled
  <1> QED
    BY <1>1, Inductive, PTL

(* The comment in disk_trigger_bench is right: the join of a thread whose  *)
(* flag is down finds it done with all I/O.                                *)
THEOREM JoinsReturn == Spec => []JoinNeverWaits
  <1>1. IInv => JoinNeverWaits
    BY DEF IInv, BenchFlags, ProbeFlags, JoinNeverWaits
  <1> QED
    BY <1>1, Inductive, PTL

-----------------------------------------------------------------------------
(* The end of a suite of probes.                                           *)

(* SuiteLeft in the phase p with n probes behind the present one.          *)
Suite(p, n) ==
  CASE p = "begin"   -> 10 * Len(Probes) + 3
    [] p = "make"    -> 10 * n + 12
    [] p = "spawn"   -> 10 * n + 11
    [] p = "measure" -> 10 * n + 6
    [] p = "halt"    -> 10 * n + 5
    [] p = "join"    -> 10 * n + 4
    [] p = "record"  -> 10 * n + 3
    [] p = "remake"  -> 10 * n + 2
    [] p = "done"    -> 2
    [] p = "exit"    -> 1
    [] OTHER         -> 0

LEMMA SuiteOf ==
  /\ SuiteLeft = Suite(probe, Len(Probes) - idx)
  /\ SuiteLeft' = Suite(probe', Len(Probes) - idx')
  BY DEF SuiteLeft, Suite

LEMMA SuiteIs ==
  ASSUME NEW n
  PROVE  /\ Suite("begin", n) = 10 * Len(Probes) + 3
         /\ Suite("make", n) = 10 * n + 12
         /\ Suite("spawn", n) = 10 * n + 11
         /\ Suite("measure", n) = 10 * n + 6
         /\ Suite("halt", n) = 10 * n + 5
         /\ Suite("join", n) = 10 * n + 4
         /\ Suite("record", n) = 10 * n + 3
         /\ Suite("remake", n) = 10 * n + 2
         /\ Suite("done", n) = 2 /\ Suite("exit", n) = 1
         /\ Suite("exited", n) = 0 /\ Suite("none", n) = 0
  BY DEF Suite

LEMMA ReadingType ==
  /\ ContenderLeft("audio") \in 0 .. 2 /\ ContenderLeft("texture") \in 0 .. 2
  /\ Reading \in 0 .. 4
  <1>1. ContenderLeft("audio") \in 0 .. 2 /\ ContenderLeft("texture") \in 0 .. 2
    BY DEF ContenderLeft
  <1> QED
    BY <1>1 DEF Reading

LEMMA ReadingNext ==
  /\ ContenderLeft("audio")' \in 0 .. 2 /\ ContenderLeft("texture")' \in 0 .. 2
  /\ Reading' \in 0 .. 4
  <1>1. ContenderLeft("audio")' \in 0 .. 2 /\ ContenderLeft("texture")' \in 0 .. 2
    BY DEF ContenderLeft
  <1> QED
    BY <1>1 DEF Reading

LEMMA NobodyReads ==
  /\ (\A c \in Slots : contender[c] = "none") => Reading = 0
  /\ (\A c \in Slots : contender'[c] = "none") => Reading' = 0
  /\ contender' = contender => Reading' = Reading
  BY DEF Reading, ContenderLeft, Slots

Left == SuiteLeft \in Nat

(* In every phase of a probe it is one of the list.                        *)
LEMMA SuiteCounts ==
  ASSUME IInv
  PROVE  /\ SuiteLeft \in Nat
         /\ probe \in {"make", "spawn", "measure", "halt", "join", "record", "remake"} =>
              idx \in DOMAIN Probes /\ idx \in Nat /\ Len(Probes) - idx \in Nat
  <1>1. probe \in {"make", "spawn", "measure", "halt", "join", "record", "remake"} =>
          idx \in DOMAIN Probes /\ idx \in Nat /\ Len(Probes) - idx \in Nat
    BY Constants DEF IInv, Progress
  <1>2. probe \in {"none", "begin", "make", "spawn", "measure", "halt", "join", "record",
                   "remake", "done", "exit", "exited"}
    BY DEF IInv, TypeOK
  <1> DEFINE n == Len(Probes) - idx
  <1>3. SuiteLeft = Suite(probe, n)
    BY SuiteOf
  <1>4. CASE probe \in {"make", "spawn", "measure", "halt", "join", "record", "remake"}
    <2>1. n \in Nat
      BY <1>1, <1>4
    <2> HIDE DEF n
    <2>2. Suite(probe, n) \in Nat
      BY <1>4, <2>1, SuiteIs
    <2> QED
      BY <1>1, <1>3, <1>4, <2>2
  <1>5. CASE probe \in {"none", "begin", "done", "exit", "exited"}
    <2> HIDE DEF n
    <2> QED
      BY <1>3, <1>5, SuiteIs, Constants
  <1> QED
    BY <1>2, <1>4, <1>5

(* A probe that begins has at most eleven steps, its contenders' aside.    *)
LEMMA EnterLeft ==
  ASSUME NEW i \in DOMAIN Probes, NEW st, Enter(i, st)
  PROVE  SuiteLeft' \in 10 * (Len(Probes) - i) + 6 .. 10 * (Len(Probes) - i) + 11
  <1>1. idx' = i /\ probe' \in {"spawn", "measure"}
    BY DEF Enter
  <1>2. Len(Probes) - i \in Nat
    BY Constants
  <1>3. SuiteLeft' = Suite(probe', Len(Probes) - i)
    BY <1>1, SuiteOf
  <1> DEFINE n == Len(Probes) - i
  <1>4. Suite("spawn", n) = 10 * n + 11 /\ Suite("measure", n) = 10 * n + 6
    BY SuiteIs
  <1>5. SuiteLeft' = 10 * n + 11 \/ SuiteLeft' = 10 * n + 6
    BY <1>1, <1>3, <1>4
  <1> HIDE DEF n
  <1>6. SuiteLeft' \in 10 * n + 6 .. 10 * n + 11
    <2>1. n \in Nat
      BY <1>2 DEF n
    <2> QED
      BY <1>5, <2>1
  <1> QED
    BY <1>6 DEF n

(* The probe thread.                                                       *)
LEMMA SuiteGoesDown ==
  ASSUME IInv, IInv', ProbeThread
  PROVE  \/ SuiteLeft' < SuiteLeft /\ Reading' <= Reading
         \/ SuiteLeft' + 5 <= SuiteLeft /\ Reading = 0
  <1>c. /\ probe \in {"make", "spawn", "measure", "halt", "join", "record", "remake"} =>
             idx \in DOMAIN Probes /\ idx \in Nat /\ Len(Probes) - idx \in Nat
        /\ SuiteLeft \in Nat /\ Reading \in Nat
    BY SuiteCounts, ReadingType
  <1> DEFINE n == Len(Probes) - idx
  <1>s. Reading' = Reading \/ contender' # contender
    BY NobodyReads
  <1>1. CASE ProbeBegin
    <2>1. probe = "begin" /\ probe' = "make" /\ idx' = 1 /\ contender' = contender
      BY <1>1 DEF ProbeBegin
    <2>2. SuiteLeft = 10 * Len(Probes) + 3 /\ SuiteLeft' = 10 * (Len(Probes) - 1) + 12
      BY <2>1, SuiteOf, SuiteIs
    <2> QED
      BY <1>c, <1>s, <2>1, <2>2, Constants
  <1>2. ASSUME NEW left \in Files, MakeFile(left)
        PROVE  SuiteLeft' < SuiteLeft /\ Reading' <= Reading
    <2>1. probe = "make" /\ contender' = contender
      BY <1>2 DEF MakeFile
    <2>2. SuiteLeft = 10 * n + 12 /\ n \in Nat /\ n = Len(Probes) - 1
      BY <1>c, <2>1, SuiteOf, SuiteIs DEF IInv, Progress
    <2>3. CASE Enter(1, states)
      <3>1. SuiteLeft' <= 10 * (Len(Probes) - 1) + 11 /\ SuiteLeft' \in Nat
        BY <2>3, EnterLeft, Constants
      <3> QED
        BY <1>c, <1>s, <2>1, <2>2, <3>1, Constants
    <2>4. CASE probe' = "done"
      <3>1. SuiteLeft' = 2
        BY <2>4, SuiteOf, SuiteIs
      <3> QED
        BY <1>c, <1>s, <2>1, <2>2, <3>1
    <2> QED
      BY <1>2, <2>3, <2>4 DEF MakeFile
  <1>3. ASSUME NEW created \in SUBSET Slots, Spawn(created)
        PROVE  SuiteLeft' + 5 <= SuiteLeft /\ Reading = 0
    <2>1. probe = "spawn" /\ probe' = "measure" /\ idx' = idx
      BY <1>3 DEF Spawn
    <2>2. \A c \in Slots : contender[c] = "none"
      BY <2>1 DEF IInv, Contenders
    <2>3. SuiteLeft = 10 * n + 11 /\ SuiteLeft' = 10 * n + 6
      BY <2>1, SuiteOf, SuiteIs
    <2> QED
      BY <1>c, <2>1, <2>2, <2>3, NobodyReads
  <1>4. ASSUME NEW ok \in BOOLEAN, NEW left \in Files, Measure(ok, left)
        PROVE  SuiteLeft' < SuiteLeft /\ Reading' <= Reading
    <2>1. probe = "measure" /\ probe' \in {"halt", "record"} /\ UNCHANGED <<idx, contender>>
      BY <1>4 DEF Measure
    <2>2. /\ SuiteLeft = 10 * n + 6 /\ n \in Nat
          /\ SuiteLeft' = 10 * n + 5 \/ SuiteLeft' = 10 * n + 3
      BY <1>c, <2>1, SuiteOf, SuiteIs
    <2> QED
      BY <1>c, <1>s, <2>1, <2>2
  <1>5. CASE Halt
    <2>1. probe = "halt" /\ probe' = "join" /\ UNCHANGED <<idx, contender>>
      BY <1>5 DEF Halt
    <2>2. SuiteLeft = 10 * n + 5 /\ SuiteLeft' = 10 * n + 4
      BY <2>1, SuiteOf, SuiteIs
    <2> QED
      BY <1>c, <1>s, <2>1, <2>2
  <1>6. CASE JoinContenders
    <2>1. probe = "join" /\ probe' = "record" /\ idx' = idx
      BY <1>6 DEF JoinContenders
    <2>2. \A c \in Slots : contender'[c] = "none"
      BY <1>6, <2>1 DEF JoinContenders, IInv, Contenders
    <2>3. SuiteLeft = 10 * n + 4 /\ SuiteLeft' = 10 * n + 3
      BY <2>1, SuiteOf, SuiteIs
    <2> QED
      BY <1>c, <2>1, <2>2, <2>3, NobodyReads
  <1>7. CASE Record
    <2>1. probe = "record" /\ contender' = contender
      BY <1>7 DEF Record
    <2>2. SuiteLeft = 10 * n + 3 /\ n \in Nat /\ idx \in Nat
      BY <1>c, <2>1, SuiteOf, SuiteIs
    <2>3. CASE probe' = "done"
      <3>1. SuiteLeft' = 2
        BY <2>3, SuiteOf, SuiteIs
      <3> QED
        BY <1>c, <1>s, <2>1, <2>2, <3>1
    <2>4. CASE probe' = "remake" /\ idx' = idx
      <3>1. SuiteLeft' = 10 * n + 2
        BY <2>4, SuiteOf, SuiteIs
      <3> QED
        BY <1>c, <1>s, <2>1, <2>2, <3>1
    <2>5. CASE idx # Len(Probes)
               /\ Enter(idx + 1, State(idx, IF measured THEN "done" ELSE "error"))
      <3>1. idx + 1 \in DOMAIN Probes
        BY <1>c, <2>1, <2>5, Constants
      <3>2. SuiteLeft' \in 10 * (Len(Probes) - (idx + 1)) + 6 ..
                            10 * (Len(Probes) - (idx + 1)) + 11
        BY <2>5, <3>1, EnterLeft
      <3> QED
        BY <1>c, <1>s, <2>1, <2>2, <3>2, Constants
    <2> QED
      BY <1>7, <2>3, <2>4, <2>5 DEF Record
  <1>8. ASSUME NEW left \in Files, Remake(left)
        PROVE  SuiteLeft' < SuiteLeft /\ Reading' <= Reading
    <2>1. probe = "remake" /\ contender' = contender /\ Enter(idx + 1, states)
      BY <1>8 DEF Remake
    <2>2. SuiteLeft = 10 * n + 2 /\ n \in Nat /\ idx \in Nat /\ idx + 1 \in DOMAIN Probes
      <3>1. idx < Len(Probes)
        BY <2>1 DEF IInv, Progress
      <3>2. SuiteLeft = 10 * n + 2
        BY <2>1, SuiteOf, SuiteIs
      <3>3. n \in Nat /\ idx \in 1 .. Len(Probes)
        BY <1>c, <2>1, Constants
      <3> QED
        BY <3>1, <3>2, <3>3, Constants
    <2>3. SuiteLeft' \in 10 * (Len(Probes) - (idx + 1)) + 6 ..
                          10 * (Len(Probes) - (idx + 1)) + 11
      BY <2>1, <2>2, EnterLeft
    <2> QED
      BY <1>c, <1>s, <2>1, <2>2, <2>3, Constants
  <1>9. CASE ProbeFinish \/ ProbeExit
    <2>1. /\ (probe = "done" /\ probe' = "exit") \/ (probe = "exit" /\ probe' = "exited")
          /\ contender' = contender
      BY <1>9 DEF ProbeFinish, ProbeExit
    <2>2. SuiteLeft' < SuiteLeft
      BY <2>1, SuiteOf, SuiteIs
    <2> QED
      BY <1>c, <1>s, <2>1, <2>2
  <1> QED
    BY <1>1, <1>2, <1>3, <1>4, <1>5, <1>6, <1>7, <1>8, <1>9 DEF ProbeThread

(* A contender.                                                            *)
LEMMA ReadingGoesDown ==
  ASSUME TypeOK, NEW c \in Slots, Contender(c)
  PROVE  SuiteLeft' = SuiteLeft /\ Reading' < Reading
  <1>1. PICK to \in {"reading", "exited"} :
          /\ contender[c] = "opening" \/ (contender[c] = "reading" /\ to = "exited")
          /\ contender' = [contender EXCEPT ![c] = to] /\ UNCHANGED <<probe, idx>>
    <2>1. CASE ContenderStops(c)
      BY <2>1 DEF ContenderStops, ContenderMoves
    <2>2. ASSUME NEW ok \in BOOLEAN, ContenderOpens(c, ok)
          PROVE  /\ contender[c] = "opening" /\ UNCHANGED <<probe, idx>>
                 /\ \E to \in {"reading", "exited"} : contender' = [contender EXCEPT ![c] = to]
      BY <2>2 DEF ContenderOpens, ContenderMoves
    <2> QED
      BY <2>1, <2>2 DEF Contender, ContenderStops
  <1>2. SuiteLeft' = SuiteLeft
    BY <1>1, SuiteOf
  <1>3. /\ contender'[c] = to
        /\ \A d \in Slots : d # c => contender'[d] = contender[d]
    BY <1>1 DEF TypeOK
  <1>4. ContenderLeft(c)' < ContenderLeft(c)
    BY <1>1, <1>3 DEF ContenderLeft
  <1>5. \A d \in Slots : d # c => ContenderLeft(d)' = ContenderLeft(d)
    BY <1>3 DEF ContenderLeft
  <1>6. Reading' < Reading
    BY <1>4, <1>5, ReadingType, ReadingNext DEF Reading, Slots
  <1> QED
    BY <1>2, <1>6

(* disk_probe_thread_fn makes each probe once and its contenders stop, for *)
(* any list of probes, whichever file, call or thread creation fails.      *)
THEOREM SuitesEnd == Spec => ProbesRunOut
  <1>1. IInv => Left
    BY SuiteCounts DEF Left
  <1>2. ASSUME IInv, IInv', Left, Left', Next, main' = main, probeVars' # probeVars
        PROVE  ProbingLeft' \in 0 .. ProbingLeft - 1
    <2>1. ProbeThread \/ \E c \in Slots : Contender(c)
      BY <1>2 DEF Next, Input, MainWorks, JoinBench, JoinProbes, StartBench, StartProbes,
                  BenchThread, BenchBegin, Prepare, Open, Transfer, Rewrite, WriteFile,
                  BenchFinish, BenchExit
    <2>2. /\ SuiteLeft \in Nat /\ SuiteLeft' \in Nat
          /\ Reading \in 0 .. 4 /\ Reading' \in 0 .. 4
      BY <1>2, ReadingType, ReadingNext DEF Left
    <2>3. \/ SuiteLeft' < SuiteLeft /\ Reading' <= Reading
          \/ SuiteLeft' + 5 <= SuiteLeft /\ Reading = 0
          \/ SuiteLeft' = SuiteLeft /\ Reading' < Reading
      BY <1>2, <2>1, SuiteGoesDown, ReadingGoesDown DEF IInv
    <2>4. ASSUME NEW a \in Nat, NEW b \in Nat, NEW c \in 0 .. 4, NEW d \in 0 .. 4,
                 \/ a < b /\ c <= d
                 \/ a + 5 <= b /\ d = 0
                 \/ a = b /\ c < d
          PROVE  a + c \in 0 .. (b + d) - 1
      BY <2>4
    <2>5. SuiteLeft' + Reading' \in 0 .. (SuiteLeft + Reading) - 1
      BY <2>2, <2>3, <2>4
    <2>6. ProbingLeft = SuiteLeft + Reading
      BY DEF ProbingLeft
    <2>7. ProbingLeft' = SuiteLeft' + Reading'
      BY DEF ProbingLeft
    <2> QED
      BY <2>5, <2>6, <2>7
  <1>3. IInv /\ IInv' /\ Left /\ Left' /\ [Next]_vars
          => [main' = main => ProbingLeft' \in 0 .. ProbingLeft - 1]_probeVars
    BY <1>2 DEF vars
  <1> QED
    BY <1>1, <1>3, Inductive, PTL DEF Spec, ProbesRunOut
=============================================================================
