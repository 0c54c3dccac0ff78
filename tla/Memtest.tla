------------------------------ MODULE Memtest -------------------------------
(***************************************************************************)
(* The XDR memory test (benches/cell/spu/spu_memtest.c) on the SPEs of the *)
(* stress group of engine/spu.c: every SPE runs its tests over its own     *)
(* slice of the region; the coherency test has SPE 0 fill slice 0 and      *)
(* raise a READY flag in it, the others verify what it wrote, and the last *)
(* one answers DONE.  The group is stopped with a mailbox word, terminated *)
(* 100 ms later wherever its SPEs are, and started again on the memory as  *)
(* they left it.                                                           *)
(*                                                                         *)
(* The memory never fails here: every error an SPE counts is a false one.  *)
(* A test writes its slice in chunks of one DMA, pattern tests with one    *)
(* put outstanding, test_bw_pipelined with two that no fence orders.  The  *)
(* lines of outstanding puts land in any order, those of one put too if    *)
(* LinesInOrder is FALSE.  The coherency data begins a line after the      *)
(* slice does, so that its blocks straddle the chunks: slice 0 is cut into *)
(* pieces, the first line of each chunk (the flag's, of chunk 0) and the   *)
(* rest of it.  A piece changes in one step, when its first line is lost   *)
(* or, for coherency data, when its last is there; what it holds is        *)
(* abstracted to who wrote it.                                             *)
(*                                                                         *)
(* The other slices are seen by one SPE only, and their contents are left  *)
(* out.  The pattern tests differ in their patterns and rounds: each is    *)
(* one round of writing the slice from chunk 0 upwards and verifying it.   *)
(* A get, or a put of a single line, is waited for before the SPE goes on, *)
(* so it is one action, with the poll of the mailbox that precedes it.  Of *)
(* the results only the error count is kept; masks, progress and           *)
(* bandwidths follow from it and from the control.                         *)
(***************************************************************************)
EXTENDS Integers, Sequences, FiniteSets

CONSTANTS
  NumSpes,     \* MAX_SPES
  TestKinds,   \* what test t - 1 does: see Kinds
  Blocks,      \* data blocks of slice 0: its chunks after chunk 0
  PollLimit,   \* COHERENCY_POLL_LIMIT
  LinesInOrder \* the lines of one put land in the order of their addresses

Kinds == {"pattern", "bandwidth", "pipelined", "coherency", "latency"}

ASSUME SpeAssumption == NumSpes \in Nat \ {0, 1}
ASSUME TestAssumption == TestKinds \in Seq(Kinds) /\ TestKinds # <<>>
ASSUME SizeAssumption == Blocks \in Nat \ {0} /\ PollLimit \in Nat \ {0}
ASSUME OrderAssumption == LinesInOrder \in BOOLEAN

VARIABLES
  group,       \* the stress group: "none", "running" or "stopping"
  memtestId,   \* params->memtest_id
  mem,         \* mem[p]: what piece p of slice 0 holds
  puts,        \* the pieces of SPE 0's puts that have not landed
  mail,        \* a stop word waits in the mailbox of s
  pc,          \* where s is
  test,        \* t
  k,           \* the loop index of the test: a chunk, a block or a poll
  buf,         \* lat_buf of SPE 0
  errors,      \* memtest_errors of s is not zero
  overTorn     \* a history variable: the flag was Torn when the group started

vars == <<group, memtestId, mem, puts, mail, pc, test, k, buf, errors, overTorn>>

Spes == 0 .. NumSpes - 1
MEMTEST_COUNT == Len(TestKinds)
Tests == 0 .. MEMTEST_COUNT - 1
MEMTEST_AUTO_CYCLE == 255

Kind(t) == TestKinds[t + 1]

(* Chunk j of a test, and block b of the coherency data.                   *)
Pieces == 0 .. 2 * Blocks + 1
Chunk(j) == {2 * j, 2 * j + 1}
DataBlock(b) == {2 * b - 1, 2 * b}

(* What a piece may hold besides the pattern of test t, which is t.        *)
COHERENCY_DATA == -1
READY == -2       \* COHERENCY_FLAG_READY
DONE  == -3       \* COHERENCY_FLAG_DONE
BLANK == -4
Contents == Tests \cup {COHERENCY_DATA, READY, DONE, BLANK}

All(v) == [s \in Spes |-> v]

Init ==
  /\ group = "none" /\ memtestId = MEMTEST_AUTO_CYCLE
  /\ mem = [p \in Pieces |-> BLANK] /\ puts = {}
  /\ mail = All(FALSE) /\ pc = All("none") /\ test = All(0) /\ k = All(0)
  /\ buf = BLANK /\ errors = All(FALSE) /\ overTorn = FALSE

(* A READY flag over data that is not all there.                           *)
Complete == \A p \in 1 .. 2 * Blocks : mem[p] = COHERENCY_DATA
Torn == mem[0] = READY /\ ~Complete

-----------------------------------------------------------------------------
(* The PPU: engine/spu.c.                                                  *)

(* start_spu_stress(MODE_MEMTEST, id, ...) when no kernel call fails.      *)
StartGroup(id) ==
  /\ group = "none"
  /\ group' = "running" /\ memtestId' = id
  /\ pc' = All("params")
  /\ errors' = All(FALSE)
  /\ overTorn' = Torn
  /\ UNCHANGED <<mem, puts, mail, test, k, buf>>

(* stop_spu_stress writes the stop words and waits 100 ms.                 *)
PostStop ==
  /\ group = "running"
  /\ group' = "stopping"
  /\ mail' = All(TRUE)
  /\ UNCHANGED <<memtestId, mem, puts, pc, test, k, buf, errors, overTorn>>

NewSpes ==
  /\ mail' = All(FALSE) /\ pc' = All("none") /\ test' = All(0) /\ k' = All(0)
  /\ buf' = BLANK

(* The group is terminated, joined and destroyed: what was in the SPEs is  *)
(* gone, and what has not landed of their puts never does.                 *)
Terminate ==
  /\ group = "stopping"
  /\ group' = "none"
  /\ NewSpes
  /\ puts' = {}
  /\ UNCHANGED <<memtestId, mem, errors, overTorn>>

-----------------------------------------------------------------------------
(* memtest_main on SPE s.                                                  *)

ppuVars == <<group, memtestId, overTorn>>
memory == <<mem, puts>>

FirstTest == IF memtestId = MEMTEST_AUTO_CYCLE THEN 0 ELSE memtestId

(* main fetches the parameters; memtest_main clears the results.           *)
GetParams(s) ==
  /\ pc[s] = "params"
  /\ errors' = [errors EXCEPT ![s] = FALSE]
  /\ test' = [test EXCEPT ![s] = FirstTest]
  /\ pc' = [pc EXCEPT ![s] = "next"]
  /\ UNCHANGED <<ppuVars, memory, mail, k, buf>>

(* The stop word is seen between two tests.                                *)
StopBetweenTests(s) ==
  /\ pc[s] = "next" /\ mail[s]
  /\ mail' = [mail EXCEPT ![s] = FALSE]
  /\ pc' = [pc EXCEPT ![s] = "returned"]
  /\ UNCHANGED <<ppuVars, memory, test, k, buf, errors>>

FirstPhase(s, kind) ==
  IF kind = "coherency" THEN IF s = 0 THEN "cwrite" ELSE "cpoll"
  ELSE IF s # 0 THEN "private"
  ELSE IF kind = "latency" THEN "latget" ELSE "write"

(* run_test.                                                               *)
RunTest(s) ==
  /\ pc[s] = "next" /\ ~mail[s]
  /\ pc' = [pc EXCEPT ![s] = FirstPhase(s, Kind(test[s]))]
  /\ UNCHANGED <<ppuVars, memory, mail, test, k, buf, errors>>

(* The test has returned; the loop over the tests goes on, or the next     *)
(* pass begins.                                                            *)
TestReturned(s) ==
  /\ pc[s] = "returning"
  /\ test' = [test EXCEPT ![s] = IF memtestId = MEMTEST_AUTO_CYCLE /\ @ + 1 < MEMTEST_COUNT
                                 THEN @ + 1 ELSE FirstTest]
  /\ pc' = [pc EXCEPT ![s] = "next"]
  /\ UNCHANGED <<ppuVars, memory, mail, k, buf, errors>>

(* should_stop in a loop of a test: the word is consumed and the test      *)
(* returns what it has found so far, to a caller that goes on.  The        *)
(* bandwidth tests do not poll.                                            *)
Bandwidth(s) == Kind(test[s]) \in {"bandwidth", "pipelined"}
Polling(s) ==
  \/ pc[s] \in {"verify", "latget", "cwait", "cpoll", "cverify"}
  \/ pc[s] = "private" /\ ~Bandwidth(s)
  \/ pc[s] = "write" /\ ~Bandwidth(s) /\ puts = {} /\ k[s] <= Blocks
  \/ pc[s] = "cwrite" /\ puts = {} /\ k[s] < Blocks

StopInTest(s) ==
  /\ Polling(s) /\ mail[s]
  /\ mail' = [mail EXCEPT ![s] = FALSE]
  /\ pc' = [pc EXCEPT ![s] = "returning"]
  /\ k' = [k EXCEPT ![s] = 0]
  /\ UNCHANGED <<ppuVars, memory, test, buf, errors>>

GoesOn(s, phase) == pc[s] = phase /\ ~(Polling(s) /\ mail[s])

(* The next value of the loop index, and where the loop ends up.           *)
Loop(s, more, next) ==
  /\ k' = [k EXCEPT ![s] = IF more THEN @ + 1 ELSE 0]
  /\ pc' = [pc EXCEPT ![s] = IF more THEN @ ELSE next]

(* A put of one line that is waited for.                                   *)
WriteLine(p, content) ==
  /\ mem' = [mem EXCEPT ![p] = content]
  /\ UNCHANGED <<ppuVars, puts, mail, test, buf, errors>>

(* SPE 0 issues a put of several lines.                                    *)
Put(pieces) ==
  /\ puts' = puts \cup pieces
  /\ k' = [k EXCEPT ![0] = @ + 1]
  /\ UNCHANGED <<ppuVars, mem, mail, pc, test, buf, errors>>

(* A piece of a put lands.  Piece p - 1 is of another put if p begins a    *)
(* chunk and chunks are written.                                           *)
Land(p) ==
  /\ p \in puts
  /\ LinesInOrder => p - 1 \notin puts \/ (pc[0] = "write" /\ p % 2 = 0)
  /\ puts' = puts \ {p}
  /\ mem' = [mem EXCEPT ![p] = IF pc[0] = "write" THEN test[0] ELSE COHERENCY_DATA]
  /\ UNCHANGED <<ppuVars, mail, pc, test, k, buf, errors>>

(* compare_buffers on what a get has read.                                 *)
Compare(s, pieces, content) ==
  /\ errors' = [errors EXCEPT ![s] = @ \/ \E p \in pieces : mem[p] # content]
  /\ UNCHANGED <<ppuVars, memory, mail, test, buf>>

-----------------------------------------------------------------------------
(* The tests on the own slice: in detail for SPE 0, whose slice is shared. *)

PrivateTest(s) ==
  /\ GoesOn(s, "private")
  /\ Loop(s, FALSE, "returning")
  /\ UNCHANGED <<ppuVars, memory, mail, test, buf, errors>>

(* A put is waited for before the next one is issued, in the pipelined     *)
(* test before the next but one.                                           *)
PutChunk ==
  /\ GoesOn(0, "write")
  /\ k[0] <= Blocks
  /\ puts \subseteq IF Kind(test[0]) = "pipelined" THEN Chunk(k[0] - 1) ELSE {}
  /\ Put(Chunk(k[0]))

(* All is written.  The bandwidth tests read it, but do not verify it.     *)
ChunksWritten ==
  /\ pc[0] = "write" /\ k[0] = Blocks + 1 /\ puts = {}
  /\ Loop(0, FALSE, IF Bandwidth(0) THEN "returning" ELSE "verify")
  /\ UNCHANGED <<ppuVars, memory, mail, test, buf, errors>>

VerifyBlock ==
  /\ GoesOn(0, "verify")
  /\ Compare(0, Chunk(k[0]), test[0])
  /\ Loop(0, k[0] < Blocks, "returning")

(* test_latency reads first lines of chunks and puts back what it reads.   *)
LatencyGet ==
  /\ GoesOn(0, "latget")
  /\ buf' = mem[2 * k[0]]
  /\ pc' = [pc EXCEPT ![0] = "latput"]
  /\ UNCHANGED <<ppuVars, memory, mail, test, k, errors>>

LatencyPut ==
  /\ pc[0] = "latput"
  /\ WriteLine(2 * k[0], buf)
  /\ k' = [k EXCEPT ![0] = IF @ < Blocks THEN @ + 1 ELSE 0]
  /\ pc' = [pc EXCEPT ![0] = IF k[0] < Blocks THEN "latget" ELSE "returning"]

-----------------------------------------------------------------------------
(* test_coherency, on slice 0.                                             *)

CoherencyWrite ==
  /\ GoesOn(0, "cwrite")
  /\ k[0] < Blocks /\ puts = {}
  /\ Put(DataBlock(k[0] + 1))

(* Mutant of Publish: the last block of the data is not waited for.        *)
Publish_NotWaited ==
  /\ pc[0] = "cwrite" /\ k[0] = Blocks
  /\ WriteLine(0, READY)
  /\ Loop(0, FALSE, "cwait")

(* The fenced put of the READY flag.                                       *)
Publish ==
  /\ pc[0] = "cwrite" /\ k[0] = Blocks /\ puts = {}
  /\ WriteLine(0, READY)
  /\ Loop(0, FALSE, "cwait")

(* SPE 0 waits for the answer, PollLimit polls at most.                    *)
AwaitDone ==
  /\ GoesOn(0, "cwait")
  /\ Loop(0, mem[0] # DONE /\ k[0] + 1 < PollLimit, "returning")
  /\ UNCHANGED <<ppuVars, memory, mail, test, buf, errors>>

(* Mutant of AwaitReady: the limit does not end the test.                  *)
AwaitReady_GoesOn(s) ==
  /\ GoesOn(s, "cpoll")
  /\ Loop(s, mem[0] # READY /\ k[s] + 1 < PollLimit, "cverify")
  /\ UNCHANGED <<ppuVars, memory, mail, test, buf, errors>>

(* Mutant of AwaitReady: at the limit the polls begin again.               *)
AwaitReady_Again(s) ==
  /\ GoesOn(s, "cpoll")
  /\ k' = [k EXCEPT ![s] = IF mem[0] # READY /\ @ + 1 < PollLimit THEN @ + 1 ELSE 0]
  /\ pc' = [pc EXCEPT ![s] = IF mem[0] # READY THEN @ ELSE "cverify"]
  /\ UNCHANGED <<ppuVars, memory, mail, test, buf, errors>>

(* The others wait for the flag; without it the test has found no error.   *)
AwaitReady(s) ==
  /\ GoesOn(s, "cpoll")
  /\ Loop(s, mem[0] # READY /\ k[s] + 1 < PollLimit,
          IF mem[0] = READY THEN "cverify" ELSE "returning")
  /\ UNCHANGED <<ppuVars, memory, mail, test, buf, errors>>

CoherencyVerify(s) ==
  /\ GoesOn(s, "cverify")
  /\ Compare(s, DataBlock(k[s] + 1), COHERENCY_DATA)
  /\ Loop(s, k[s] + 1 < Blocks, IF s = NumSpes - 1 THEN "answer" ELSE "returning")

(* The last SPE answers, whether or not the others have verified.          *)
Answer(s) ==
  /\ pc[s] = "answer"
  /\ WriteLine(0, DONE)
  /\ Loop(s, FALSE, "returning")

-----------------------------------------------------------------------------
SpeMain(s) ==
  \/ GetParams(s) \/ StopBetweenTests(s) \/ RunTest(s) \/ TestReturned(s)
  \/ StopInTest(s)
  \/ AwaitReady(s) \/ CoherencyVerify(s) \/ Answer(s)
  \/ PrivateTest(s)
  \/ /\ s = 0
     /\ \/ PutChunk \/ ChunksWritten \/ VerifyBlock \/ LatencyGet \/ LatencyPut
        \/ CoherencyWrite \/ Publish \/ AwaitDone

Next ==
  \/ \E id \in Tests \cup {MEMTEST_AUTO_CYCLE} : StartGroup(id)
  \/ PostStop \/ Terminate
  \/ \E s \in Spes : SpeMain(s)
  \/ \E p \in puts : Land(p)

Spec == Init /\ [][Next]_vars

-----------------------------------------------------------------------------
Phases == {"none", "params", "next", "returning", "returned", "private",
           "write", "verify", "latget", "latput", "cwrite", "cwait",
           "cpoll", "cverify", "answer"}

(* Type invariant.                                                         *)
TypeOK ==
  /\ group \in {"none", "running", "stopping"}
  /\ memtestId \in Tests \cup {MEMTEST_AUTO_CYCLE}
  /\ mem \in [Pieces -> Contents]
  /\ puts \subseteq Pieces
  /\ mail \in [Spes -> BOOLEAN]
  /\ pc \in [Spes -> Phases]
  /\ test \in [Spes -> Tests]
  /\ \A s \in Spes : k[s] \in 0 .. IF pc[s] \in {"cwait", "cpoll"} THEN PollLimit - 1
                                  ELSE IF pc[s] = "write" THEN Blocks + 1 ELSE Blocks
  /\ buf \in Contents
  /\ errors \in [Spes -> BOOLEAN]
  /\ overTorn \in BOOLEAN

(* A READY flag stands for data that is all written, whatever ran on the   *)
(* slice before and however the latency test rewrites the flag's line:     *)
(* except while the put that is to overwrite the flag has not reached it,  *)
(* and in a group that was started on the remains of such a put.           *)
ReadyMeansWritten ==
  group # "none" /\ ~overTorn /\ 0 \notin puts => ~Torn

(* The steps that SPE s can still make in its test, the return included.   *)
TestLeft(s) ==
  LET blocks == Blocks - k[s]
      polls  == PollLimit - k[s]
  IN  CASE pc[s] = "write"     -> blocks + Blocks + 4
        [] pc[s] = "verify"    -> blocks + 2
        [] pc[s] = "latget"    -> 2 * blocks + 3
        [] pc[s] = "latput"    -> 2 * blocks + 2
        [] pc[s] = "cwrite"    -> blocks + PollLimit + 2
        [] pc[s] = "cwait"     -> polls + 1
        [] pc[s] = "cpoll"     -> polls + Blocks + 2
        [] pc[s] = "cverify"   -> blocks + 2
        [] pc[s] \in {"answer", "private"} -> 2
        [] pc[s] \in {"params", "returning"} -> 1
        [] OTHER               -> 0

(* Every test returns, whatever the other SPEs do and whether they run at  *)
(* all: each step that an SPE makes in a test brings its return nearer,    *)
(* when the flag it waits for never comes and when the stop word does.     *)
(* (Waiting for a put is no step of the SPE's: puts land by themselves.)   *)
TestsReturn ==
  [][\A s \in Spes : pc[s] # "next" /\ SpeMain(s)
                       => TestLeft(s)' \in 0 .. TestLeft(s) - 1]_vars

(* A single test, cycled alone, never reports an error on memory that      *)
(* works, over any number of restarts with other tests in between: but for *)
(* the coherency test in a group that was started over a torn flag.        *)
SoloTestIsSilent ==
  memtestId # MEMTEST_AUTO_CYCLE /\ ~(overTorn /\ Kind(memtestId) = "coherency")
    => \A s \in Spes : ~errors[s]

(* stress_common.h: memtest_errors is the "total bit errors found": a test *)
(* that is run alone, on memory that works, has none to find.              *)
NoErrorsAlone == memtestId # MEMTEST_AUTO_CYCLE => \A s \in Spes : ~errors[s]

(* stress_common.h: memtest_errors is the "total bit errors found": on     *)
(* memory that works there is nothing to find.                             *)
NoFalseErrors == \A s \in Spes : ~errors[s]
=============================================================================
