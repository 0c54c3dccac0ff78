-------------------------------- MODULE Disk --------------------------------
(***************************************************************************)
(* The disk page (benches/disk, disk_* of engine/bench_modules.c): the     *)
(* main thread starts a bench thread or a probe thread and looks at their  *)
(* flags; the probe thread starts up to two contender threads that read    *)
(* the probe file while it measures.                                       *)
(*                                                                         *)
(* A file is missing, too short or complete.  A loop over a file is one    *)
(* action with its outcome; what a call of cellFs or the creation of a     *)
(* thread returns is a choice.  A thread that could not be created has no  *)
(* id: joining it returns at once.  Of a result only its status is kept:   *)
(* DONE is "done" or, when the bytes it is computed from were not all      *)
(* transferred, "doneShort".                                               *)
(***************************************************************************)
EXTENDS Integers, Sequences, FiniteSets

CONSTANTS
  Benches,   \* what the bench of each DISK_BENCH id does
  Probes     \* what each probe does

Reads      == {"seqRead", "rndRead"}
BenchKinds == Reads \cup {"seqWrite", "rndWrite"}
(* contend, m: which contenders run beside a read of the file.             *)
Slots      == {"audio", "texture"}
ProbeKinds == [op : {"read", "write"}, slots : {{}}]
                \cup [op : {"read"}, slots : SUBSET Slots]

ASSUME BenchAssumption == Benches \in Seq(BenchKinds) /\ Benches # <<>>
ASSUME ProbeAssumption == Probes \in Seq(ProbeKinds) /\ Probes # <<>>

VARIABLES
  main,          \* "frame", or what the main thread starts: "bench", "probes"
  current,       \* current_disk_bench (plus one)
  probeMode,     \* disk_probe_mode
  benchRunning,  \* disk_thread_running
  benchStarted,  \* disk_thread_started
  pending,       \* disk_pending_bench
  bench,         \* where the bench thread is
  status,        \* g_state.results[b].status
  file,          \* DISK_TEST_FILE
  fileReady,     \* g_state.file_ready
  probeRunning,  \* g_probe_running
  probeStarted,  \* g_probe_tid_ok
  probe,         \* where the probe thread is
  idx,           \* g_probe_idx (plus one)
  measured,      \* _r of the running probe is not negative
  states,        \* g_probes[i].state
  probeFile,     \* DISK_PROBE_FILE
  stop,          \* g_contend_stop
  contender,     \* where the contenders are
  threads        \* bench and probe threads that exist: created and not joined

mainVars  == <<main, current, probeMode>>
flagVars  == <<benchRunning, benchStarted, pending, probeRunning, probeStarted>>
benchVars == <<bench, status, file, fileReady>>
probeVars == <<probe, idx, measured, states, probeFile, stop, contender>>
vars      == <<mainVars, flagVars, benchVars, probeVars, threads>>

Files == {"missing", "short", "full"}
Ids   == DOMAIN Benches
Kind(b)  == Benches[b]
Contends(i) == Probes[i].slots # {}

(* Files that an earlier run of the program left count as missing: they    *)
(* are unlinked before they are first used.                                *)
Init ==
  /\ main = "frame" /\ current = 1 /\ probeMode = FALSE
  /\ benchRunning = FALSE /\ benchStarted = FALSE /\ pending = 1
  /\ bench = "none" /\ status = [b \in Ids |-> "idle"]
  /\ file = "missing" /\ fileReady = FALSE
  /\ probeRunning = FALSE /\ probeStarted = FALSE
  /\ probe = "none" /\ idx = 0 /\ measured = FALSE
  /\ states = [i \in DOMAIN Probes |-> "pending"]
  /\ probeFile = "missing"
  /\ stop = FALSE /\ contender = [c \in Slots |-> "none"]
  /\ threads = [bench |-> 0, probe |-> 0]

-----------------------------------------------------------------------------
(* The main thread.                                                        *)

(* Mutant of Input: the flags of the threads are not looked at, neither in *)
(* disk_input nor where the two functions it calls look again.             *)
Input_Unguarded(dir, toggle, cross) ==
  /\ main = "frame"
  /\ current' = IF probeMode THEN current ELSE ((current - 1 + dir) % Len(Benches)) + 1
  /\ probeMode' = (probeMode # toggle)
  /\ main' = IF ~cross THEN "frame" ELSE IF probeMode' THEN "probes" ELSE "bench"
  /\ UNCHANGED <<flagVars, benchVars, probeVars, threads>>

(* disk_input: up and down, square, cross.  The flags it looks at are      *)
(* looked at again in disk_trigger_bench and disk_run_probes; a thread may *)
(* only clear one in between, so that one look at both stands for all.     *)
Input(dir, toggle, cross) ==
  /\ main = "frame"
  /\ current' = IF probeMode THEN current ELSE ((current - 1 + dir) % Len(Benches)) + 1
  /\ probeMode' = (probeMode # toggle)
  /\ main' = IF ~cross \/ benchRunning \/ (probeMode' /\ probeRunning) THEN "frame"
             ELSE IF probeMode' THEN "probes" ELSE "bench"
  /\ UNCHANGED <<flagVars, benchVars, probeVars, threads>>

(* disk_trigger_bench joins the thread of the last bench ...               *)
JoinBench ==
  /\ main = "bench" /\ benchStarted
  /\ bench = "exited"
  /\ benchStarted' = FALSE
  /\ threads' = [threads EXCEPT !.bench = @ - 1]
  /\ UNCHANGED <<mainVars, benchRunning, pending, probeRunning, probeStarted,
                 benchVars, probeVars>>

(* ... and creates another; whether it is created is not looked at.        *)
StartBench(created) ==
  /\ main = "bench" /\ ~benchStarted
  /\ pending' = current
  /\ benchRunning' = TRUE /\ benchStarted' = TRUE
  /\ bench' = IF created THEN "begin" ELSE "none"
  /\ threads' = [threads EXCEPT !.bench = IF created THEN @ + 1 ELSE @]
  /\ main' = "frame"
  /\ UNCHANGED <<current, probeMode, probeRunning, probeStarted,
                 status, file, fileReady, probeVars>>

(* disk_run_probes.                                                        *)
JoinProbes ==
  /\ main = "probes" /\ probeStarted
  /\ probe = "exited"
  /\ probeStarted' = FALSE
  /\ threads' = [threads EXCEPT !.probe = @ - 1]
  /\ UNCHANGED <<mainVars, benchRunning, benchStarted, pending, probeRunning,
                 benchVars, probeVars>>

StartProbes(created) ==
  /\ main = "probes" /\ ~probeStarted
  /\ states' = [i \in DOMAIN Probes |-> "pending"]
  /\ probeRunning' = TRUE /\ probeStarted' = TRUE
  /\ probe' = IF created THEN "begin" ELSE "none"
  /\ threads' = [threads EXCEPT !.probe = IF created THEN @ + 1 ELSE @]
  /\ main' = "frame"
  /\ UNCHANGED <<current, probeMode, benchRunning, benchStarted, pending,
                 benchVars, idx, measured, probeFile, stop, contender>>

-----------------------------------------------------------------------------
(* disk_bench_thread: bench b = pending runs.                              *)

threadVars == <<mainVars, benchStarted, pending, probeRunning, probeStarted, threads>>

Status(s) == status' = [status EXCEPT ![pending] = s]
Fail      == Status("error") /\ bench' = "finish" /\ UNCHANGED fileReady

Done(complete) == Status(IF complete THEN "done" ELSE "doneShort") /\ bench' = "finish"

BenchBegin ==
  /\ bench = "begin"
  /\ IF Kind(pending) = "seqWrite"
     THEN Status("running") /\ bench' = "rewrite"
     ELSE IF fileReady
     THEN Status("running") /\ bench' = "open"
     ELSE Status("prepare") /\ bench' = "prepare"
  /\ UNCHANGED <<threadVars, benchRunning, file, fileReady, probeVars>>

(* prepare_test_file: the area is allocated, or the file is written.       *)
Prepare(left) ==
  /\ bench = "prepare"
  /\ file' = left
  /\ \/ left = "full" /\ bench' = "open" /\ fileReady' = TRUE /\ UNCHANGED status
     \/ Fail
  /\ UNCHANGED <<threadVars, benchRunning, probeVars>>

(* Mutant of Open: the error is not recorded.                              *)
Open_Silent(ok) ==
  /\ bench = "open"
  /\ IF ok /\ file # "missing" THEN bench' = "transfer" ELSE bench' = "finish"
  /\ UNCHANGED <<threadVars, benchRunning, status, file, fileReady, probeVars>>

Open(ok) ==
  /\ bench = "open"
  /\ IF ok /\ file # "missing"
     THEN bench' = "transfer" /\ UNCHANGED <<status, fileReady>>
     ELSE Fail
  /\ UNCHANGED <<threadVars, benchRunning, file, probeVars>>

(* The timed loop.  The sequential read compares nread; the random read    *)
(* does not, and a read behind the end of the file succeeds.               *)
Transfer(ok) ==
  /\ bench = "transfer"
  /\ IF ok /\ (Kind(pending) = "seqRead" => file = "full")
     THEN Done(Kind(pending) = "rndRead" => file = "full") /\ UNCHANGED fileReady
     ELSE Fail
  /\ UNCHANGED <<threadVars, benchRunning, file, probeVars>>

(* run_seq_write: the old file goes; the new one may get its area at once. *)
Rewrite(allocated, opened) ==
  /\ bench = "rewrite"
  /\ file' = IF allocated THEN "full" ELSE IF opened THEN "short" ELSE "missing"
  /\ IF opened THEN bench' = "write" /\ UNCHANGED <<status, fileReady>> ELSE Fail
  /\ UNCHANGED <<threadVars, benchRunning, probeVars>>

(* All written and synced, only written, or not even that.                 *)
WriteFile(written, synced) ==
  /\ bench = "write"
  /\ file' = IF written THEN "full" ELSE file
  /\ IF written /\ synced THEN Done(TRUE) /\ fileReady' = TRUE ELSE Fail
  /\ UNCHANGED <<threadVars, benchRunning, probeVars>>

BenchFinish ==
  /\ bench = "finish"
  /\ benchRunning' = FALSE /\ bench' = "exit"
  /\ UNCHANGED <<threadVars, status, file, fileReady, probeVars>>

BenchExit ==
  /\ bench = "exit"
  /\ bench' = "exited"
  /\ UNCHANGED <<threadVars, benchRunning, status, file, fileReady, probeVars>>

BenchThread ==
  \/ BenchBegin
  \/ \E left \in Files : Prepare(left)
  \/ \E ok \in BOOLEAN : Open(ok) \/ Transfer(ok)
  \/ \E a, b \in BOOLEAN : Rewrite(a, b) \/ WriteFile(a, b)
  \/ BenchFinish \/ BenchExit

-----------------------------------------------------------------------------
(* disk_probe_thread_fn.                                                   *)

proberVars == <<mainVars, benchRunning, benchStarted, pending, probeStarted, benchVars, threads>>

State(i, st) == [states EXCEPT ![i] = st]

ProbeBegin ==
  /\ probe = "begin"
  /\ idx' = 1
  /\ states' = [i \in DOMAIN Probes |-> IF i = 1 THEN "running" ELSE "pending"]
  /\ probe' = "make"
  /\ UNCHANGED <<proberVars, probeRunning, measured, probeFile, stop, contender>>

(* RUN_PROBE(i, ...) begins.                                               *)
Enter(i, st) ==
  /\ idx' = i
  /\ states' = [st EXCEPT ![i] = "running"]
  /\ probe' = IF Contends(i) THEN "spawn" ELSE "measure"

(* probe_make_file before the first probe.                                 *)
MakeFile(left) ==
  /\ probe = "make"
  /\ probeFile' = left
  /\ \/ left = "full" /\ Enter(1, states)
     \/ /\ states' = [i \in DOMAIN Probes |-> "error"]
        /\ probe' = "done" /\ UNCHANGED idx
  /\ UNCHANGED <<proberVars, probeRunning, measured, stop, contender>>

(* probe_contend creates its contenders; failures are not looked at.       *)
Spawn(created) ==
  /\ probe = "spawn" /\ created \subseteq Probes[idx].slots
  /\ stop' = FALSE
  /\ contender' = [c \in Slots |-> IF c \in created THEN "opening" ELSE contender[c]]
  /\ probe' = "measure"
  /\ UNCHANGED <<proberVars, probeRunning, idx, measured, states, probeFile>>

(* probe_read and probe_stread report only what was read to the end;       *)
(* probe_write replaces the file and may leave it in any state.            *)
Measure(ok, left) ==
  /\ probe = "measure"
  /\ IF Probes[idx].op = "read"
     THEN left = probeFile /\ measured' = (ok /\ probeFile = "full")
     ELSE (ok => left = "full") /\ measured' = ok
  /\ probeFile' = left
  /\ probe' = IF Contends(idx) THEN "halt" ELSE "record"
  /\ UNCHANGED <<proberVars, probeRunning, idx, states, stop, contender>>

(* Mutant of Halt: the contenders are not told.                            *)
Halt_Silent ==
  /\ probe = "halt"
  /\ probe' = "join"
  /\ UNCHANGED <<proberVars, probeRunning, idx, measured, states, probeFile, stop, contender>>

Halt ==
  /\ probe = "halt"
  /\ stop' = TRUE
  /\ probe' = "join"
  /\ UNCHANGED <<proberVars, probeRunning, idx, measured, states, probeFile, contender>>

(* Mutant of JoinContenders: the first join only.                          *)
JoinContenders_One ==
  /\ probe = "join"
  /\ \E c \in Probes[idx].slots :
       /\ contender[c] \in {"none", "exited"}
       /\ contender' = [contender EXCEPT ![c] = "none"]
  /\ probe' = "record"
  /\ UNCHANGED <<proberVars, probeRunning, idx, measured, states, probeFile, stop>>

JoinContenders ==
  /\ probe = "join"
  /\ \A c \in Probes[idx].slots : contender[c] \in {"none", "exited"}
  /\ contender' = [c \in Slots |-> IF c \in Probes[idx].slots THEN "none" ELSE contender[c]]
  /\ probe' = "record"
  /\ UNCHANGED <<proberVars, probeRunning, idx, measured, states, probeFile, stop>>

(* Mutant of Record: a probe that failed is made again.                    *)
Record_Retry ==
  /\ probe = "record"
  /\ LET st == State(idx, IF measured THEN "done" ELSE "error")
     IN  IF ~measured THEN Enter(idx, st)
         ELSE IF idx = Len(Probes) THEN states' = st /\ probe' = "done" /\ UNCHANGED idx
         ELSE IF Contends(idx + 1) /\ ~Contends(idx)
         THEN states' = st /\ probe' = "remake" /\ UNCHANGED idx
         ELSE Enter(idx + 1, st)
  /\ measured' = FALSE
  /\ UNCHANGED <<proberVars, probeRunning, probeFile, stop, contender>>

(* The end of RUN_PROBE.  The file is made afresh before the contentions.  *)
Record ==
  /\ probe = "record"
  /\ LET st == State(idx, IF measured THEN "done" ELSE "error")
     IN  IF idx = Len(Probes) THEN states' = st /\ probe' = "done" /\ UNCHANGED idx
         ELSE IF Contends(idx + 1) /\ ~Contends(idx)
         THEN states' = st /\ probe' = "remake" /\ UNCHANGED idx
         ELSE Enter(idx + 1, st)
  /\ measured' = FALSE
  /\ UNCHANGED <<proberVars, probeRunning, probeFile, stop, contender>>

Remake(left) ==
  /\ probe = "remake"
  /\ probeFile' = left
  /\ Enter(idx + 1, states)
  /\ UNCHANGED <<proberVars, probeRunning, measured, stop, contender>>

ProbeFinish ==
  /\ probe = "done"
  /\ probeRunning' = FALSE /\ probe' = "exit"
  /\ UNCHANGED <<proberVars, idx, measured, states, probeFile, stop, contender>>

ProbeExit ==
  /\ probe = "exit"
  /\ idx' = 0 /\ probe' = "exited"
  /\ UNCHANGED <<proberVars, probeRunning, measured, states, probeFile, stop, contender>>

ProbeThread ==
  \/ ProbeBegin
  \/ \E left \in Files : MakeFile(left) \/ Remake(left)
  \/ \E created \in SUBSET Slots : Spawn(created)
  \/ \E ok \in BOOLEAN, left \in Files : Measure(ok, left)
  \/ Halt \/ JoinContenders \/ Record \/ ProbeFinish \/ ProbeExit

-----------------------------------------------------------------------------
(* audio_contend_fn, texture_contend_fn.  What they read is not used.      *)

ContenderMoves(c, to) ==
  /\ contender' = [contender EXCEPT ![c] = to]
  /\ UNCHANGED <<proberVars, probeRunning, probe, idx, measured, states, probeFile, stop>>

ContenderOpens(c, ok) ==
  /\ contender[c] = "opening"
  /\ ContenderMoves(c, IF ok /\ probeFile # "missing" THEN "reading" ELSE "exited")

ContenderStops(c) ==
  /\ contender[c] = "reading" /\ stop
  /\ ContenderMoves(c, "exited")

Contender(c) == ContenderStops(c) \/ \E ok \in BOOLEAN : ContenderOpens(c, ok)

-----------------------------------------------------------------------------
MainWorks == \/ JoinBench \/ JoinProbes
             \/ \E created \in BOOLEAN : StartBench(created) \/ StartProbes(created)

Next ==
  \/ \E dir \in {-1, 0, 1}, toggle, cross \in BOOLEAN : Input(dir, toggle, cross)
  \/ MainWorks
  \/ BenchThread \/ ProbeThread
  \/ \E c \in Slots : Contender(c)

Spec == Init /\ [][Next]_vars

(* The threads are scheduled, and every call of cellFs returns.  Nobody    *)
(* has to press a button.                                                  *)
FairSpec ==
  /\ Spec
  /\ WF_vars(MainWorks) /\ WF_vars(BenchThread) /\ WF_vars(ProbeThread)
  /\ \A c \in Slots : WF_vars(Contender(c))

-----------------------------------------------------------------------------
(* Type invariant.                                                         *)
TypeOK ==
  /\ main \in {"frame", "bench", "probes"}
  /\ current \in Ids /\ pending \in Ids
  /\ {probeMode, benchRunning, benchStarted, fileReady, probeRunning, probeStarted,
      measured, stop} \subseteq BOOLEAN
  /\ bench \in {"none", "begin", "prepare", "open", "transfer", "rewrite", "write",
                "finish", "exit", "exited"}
  /\ status \in [Ids -> {"idle", "prepare", "running", "done", "doneShort", "error"}]
  /\ file \in Files /\ probeFile \in Files
  /\ probe \in {"none", "begin", "make", "spawn", "measure", "halt", "join", "record",
                "remake", "done", "exit", "exited"}
  /\ idx \in 0 .. Len(Probes)
  /\ states \in [DOMAIN Probes -> {"pending", "running", "done", "error"}]
  /\ contender \in [Slots -> {"none", "opening", "reading", "exited"}]
  /\ threads \in [bench : {0, 1}, probe : {0, 1}]

(* No thread is lost: one that exists has a handle by which it will be     *)
(* joined, and contenders exist only inside the probe that joins them, so  *)
(* that none reads a file that is being replaced.                          *)
ThreadsAccounted ==
  /\ threads.bench = 1 => benchStarted
  /\ threads.probe = 1 => probeStarted
  /\ \A c \in Slots : contender[c] # "none" => /\ probe \in {"measure", "halt", "join"}
                                               /\ c \in Probes[idx].slots

(* What the page shows has settled when the flags say that nothing runs:   *)
(* no bench is preparing or running, all probes of a started suite have    *)
(* been judged.                                                            *)
FlagsSettled ==
  /\ ~benchRunning => \A b \in Ids : status[b] \notin {"prepare", "running"}
  /\ ~probeRunning => \E settled \in {{"pending"}, {"done", "error"}} :
                         \A i \in DOMAIN Probes : states[i] \in settled

(* The comment in disk_trigger_bench: the join "returns immediately".  The *)
(* main thread never waits for a thread that still has I/O before it, nor  *)
(* joins one that was not created.                                         *)
JoinNeverWaits ==
  /\ main = "bench" /\ benchStarted => bench \in {"exit", "exited"}
  /\ main = "probes" /\ probeStarted => probe \in {"exit", "exited"}

(* Every probe suite that got its thread comes to an end, whichever of its *)
(* contenders were created and however they fare.                          *)
ProbesEnd == probe = "begin" ~> ~probeRunning

(* The steps left of the probe thread, and of a contender.                 *)
SuiteLeft ==
  LET probes == Len(Probes) - idx
  IN  CASE probe = "begin"   -> 10 * Len(Probes) + 3
        [] probe = "make"    -> 10 * probes + 12
        [] probe = "spawn"   -> 10 * probes + 11
        [] probe = "measure" -> 10 * probes + 6
        [] probe = "halt"    -> 10 * probes + 5
        [] probe = "join"    -> 10 * probes + 4
        [] probe = "record"  -> 10 * probes + 3
        [] probe = "remake"  -> 10 * probes + 2
        [] probe = "done"    -> 2
        [] probe = "exit"    -> 1
        [] OTHER             -> 0

ContenderLeft(c) ==
  CASE contender[c] = "opening" -> 2
    [] contender[c] = "reading" -> 1
    [] OTHER                    -> 0

Reading == ContenderLeft("audio") + ContenderLeft("texture")

ProbingLeft == SuiteLeft + Reading

(* A suite of probes and its contenders do not go on for ever: each probe  *)
(* is made once, however it fares, and each step of the probe thread or of *)
(* a contender, all but the start by the main thread, brings the end       *)
(* nearer.                                                                 *)
ProbesRunOut ==
  [][main' = main => ProbingLeft' \in 0 .. ProbingLeft - 1]_probeVars

(* disk_benchmark.h: "1 while the background thread is active, 0 when      *)
(* done".                                                                  *)
(* The code does not keep it (README, Disagreements); no run checks it.    *)
RunningMeansActive == benchRunning => bench \notin {"none", "exited"}

(* disk_benchmark.h: DISK_STATUS_DONE is "result valid".                   *)
(* The code does not keep it (README, Disagreements); no run checks it.    *)
ResultValid == \A b \in Ids : status[b] # "doneShort"
=============================================================================
