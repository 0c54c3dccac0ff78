--------------------------- MODULE MemtestProofs ----------------------------
(***************************************************************************)
(* Proofs about Memtest: type correctness, where a READY flag stands for   *)
(* complete coherency data, when a test run alone is silent, and that      *)
(* every test returns, for every number of SPEs, size of slice, list of    *)
(* tests and order in which the puts land.                                 *)
(***************************************************************************)
EXTENDS Memtest, TLAPS

(* The part of TypeOK that the argument uses.                              *)
TypeInv ==
  /\ group \in {"none", "running", "stopping"}
  /\ memtestId \in Tests \cup {MEMTEST_AUTO_CYCLE}
  /\ mem \in [Pieces -> Contents]
  /\ puts \subseteq Pieces
  /\ mail \in [Spes -> BOOLEAN]
  /\ pc \in [Spes -> Phases]
  /\ test \in [Spes -> Tests]
  /\ k \in [Spes -> Nat]
  /\ buf \in Contents
  /\ errors \in [Spes -> BOOLEAN]
  /\ overTorn \in BOOLEAN

(* The loop index is within the loop it belongs to.                        *)
Limit(phase) ==
  IF phase \in {"cwait", "cpoll"} THEN PollLimit - 1
  ELSE IF phase = "write" THEN Blocks + 1
  ELSE IF phase \in {"cwrite", "verify", "latget", "latput"} THEN Blocks
  ELSE IF phase = "cverify" THEN Blocks - 1
  ELSE 0
IndexInv == \A s \in Spes : k[s] <= Limit(pc[s])

(* Between two groups no SPE runs.                                         *)
GroupInv == group = "none" => \A s \in Spes : pc[s] = "none"

(* Puts are outstanding only where they are issued, and of what has been.  *)
PutsInv ==
  /\ pc[0] \notin {"write", "cwrite"} => puts = {}
  /\ pc[0] = "write"  => \A p \in puts : p <= 2 * k[0] - 1
  /\ pc[0] = "cwrite" => \A p \in puts : 1 <= p /\ p <= 2 * k[0]

(* What SPE 0 has written so far, and what it carries in lat_buf.          *)
WrittenInv ==
  /\ pc[0] = "cwrite" => \A p \in 1 .. 2 * k[0] : p \in puts \/ mem[p] = COHERENCY_DATA
  /\ pc[0] = "write" /\ k[0] > 0 /\ 0 \notin puts => mem[0] # READY
  /\ pc[0] = "latput" /\ k[0] > 0 => buf = mem[2 * k[0]]
  /\ pc[0] = "latput" /\ k[0] = 0 /\ buf = READY /\ ~overTorn => Complete

IInv ==
  TypeInv /\ GroupInv /\ IndexInv /\ PutsInv /\ WrittenInv /\ ReadyMeansWritten

-----------------------------------------------------------------------------
LEMMA ConstantFacts ==
  /\ 0 \in Spes /\ 0 \in Tests
  /\ MEMTEST_COUNT \in Nat
  /\ Tests \subseteq Nat /\ Tests \subseteq Contents
  /\ {COHERENCY_DATA, READY, DONE, BLANK} \subseteq Contents
  BY SpeAssumption, TestAssumption
  DEF Spes, Tests, MEMTEST_COUNT, Contents, COHERENCY_DATA, READY, DONE, BLANK

LEMMA PieceFacts ==
  /\ 0 \in Pieces /\ \A p \in Pieces : p \in Nat
  /\ \A j \in Nat : j <= Blocks => Chunk(j) \subseteq Pieces /\ 2 * j \in Pieces
  /\ \A j \in Nat : j + 1 <= Blocks =>
       DataBlock(j + 1) = {2 * j + 1, 2 * j + 2} /\ DataBlock(j + 1) \subseteq 1 .. 2 * Blocks
  /\ 1 .. 2 * Blocks \subseteq Pieces
  BY SizeAssumption DEF Pieces, Chunk, DataBlock

LEMMA NextBlock ==
  ASSUME NEW j \in Nat, NEW p \in 1 .. 2 * (j + 1)
  PROVE  p \in 1 .. 2 * j \/ p = 2 * j + 1 \/ p = 2 * j + 2
  OBVIOUS

LEMMA NextChunk ==
  ASSUME NEW j \in Nat, NEW p \in 0 .. 2 * (j + 1) - 1
  PROVE  p \in 0 .. 2 * j - 1 \/ p = 2 * j \/ p = 2 * j + 1
  OBVIOUS

(* A step is one of the PPU, of one SPE or of the puts.                    *)
LEMMA StepCases ==
  ASSUME Next
  PROVE  \/ \E id \in Tests \cup {MEMTEST_AUTO_CYCLE} : StartGroup(id)
         \/ PostStop \/ Terminate
         \/ \E s \in Spes :
              \/ GetParams(s)
              \/ StopBetweenTests(s)
              \/ RunTest(s)
              \/ TestReturned(s)
              \/ StopInTest(s)
              \/ AwaitReady(s)
              \/ CoherencyVerify(s)
              \/ Answer(s)
              \/ PrivateTest(s)
         \/ PutChunk \/ ChunksWritten \/ VerifyBlock \/ LatencyGet \/ LatencyPut
         \/ CoherencyWrite \/ Publish \/ AwaitDone
         \/ \E p \in puts : Land(p)
  BY DEF Next, SpeMain

LEMMA InitIInv == Init => IInv
<1> SUFFICES ASSUME Init PROVE IInv
  OBVIOUS
<1>1. TypeInv
  BY ConstantFacts DEF Init, TypeInv, All, Phases
<1>2. GroupInv /\ IndexInv /\ PutsInv
  BY ConstantFacts DEF Init, All, GroupInv, IndexInv, Limit, PutsInv
<1>3. WrittenInv /\ ReadyMeansWritten
  BY ConstantFacts DEF Init, All, WrittenInv, ReadyMeansWritten
<1> QED
  BY <1>1, <1>2, <1>3 DEF IInv

(* Types.                                                                  *)
LEMMA TypeStep == ASSUME TypeInv, IndexInv, [Next]_vars PROVE TypeInv'
<1> USE ConstantFacts, PieceFacts DEF TypeInv, Phases, memory
<1>1. CASE UNCHANGED vars
  BY <1>1 DEF vars
<1>2. ASSUME NEW id \in Tests \cup {MEMTEST_AUTO_CYCLE}, StartGroup(id) PROVE TypeInv'
  BY <1>2 DEF StartGroup, All, Torn
<1>3. CASE PostStop
  BY <1>3 DEF PostStop, All
<1>4. CASE Terminate
  BY <1>4 DEF Terminate, NewSpes, All
<1>5. ASSUME NEW s \in Spes,
             \/ GetParams(s) \/ StopBetweenTests(s) \/ RunTest(s)
             \/ TestReturned(s) \/ StopInTest(s)
      PROVE  TypeInv'
  <2>1. FirstTest \in Tests
    BY DEF FirstTest
  <2>2. CASE GetParams(s)
    BY <2>1, <2>2 DEF GetParams, ppuVars
  <2>3. CASE StopBetweenTests(s)
    BY <2>3 DEF StopBetweenTests, ppuVars
  <2>4. CASE RunTest(s)
    BY <2>4 DEF RunTest, FirstPhase, ppuVars
  <2>5. CASE TestReturned(s)
    <3>1. test[s] + 1 < MEMTEST_COUNT => test[s] + 1 \in Tests
      BY DEF Tests
    <3> QED
      BY <2>1, <2>5, <3>1 DEF TestReturned, ppuVars
  <2>6. CASE StopInTest(s)
    BY <2>6 DEF StopInTest, ppuVars
  <2> QED
    BY <1>5, <2>2, <2>3, <2>4, <2>5, <2>6
<1>6. ASSUME NEW s \in Spes,
             \/ AwaitReady(s) \/ CoherencyVerify(s) \/ Answer(s) \/ PrivateTest(s)
      PROVE  TypeInv'
  <2>1. CASE AwaitReady(s)
    BY <2>1 DEF AwaitReady, Loop, ppuVars
  <2>2. CASE CoherencyVerify(s)
    BY <2>2 DEF CoherencyVerify, Loop, Compare, ppuVars
  <2>3. CASE Answer(s)
    BY <2>3 DEF Answer, Loop, WriteLine, ppuVars
  <2>4. CASE PrivateTest(s)
    BY <2>4 DEF PrivateTest, Loop, ppuVars
  <2> QED
    BY <1>6, <2>1, <2>2, <2>3, <2>4
<1>7. CASE PutChunk
  <2>1. Chunk(k[0]) \subseteq Pieces
    BY <1>7 DEF PutChunk
  <2> QED
    BY <1>7, <2>1 DEF PutChunk, Put, ppuVars
<1>8. CASE ChunksWritten
  BY <1>8 DEF ChunksWritten, Loop, ppuVars
<1>9. CASE VerifyBlock
  BY <1>9 DEF VerifyBlock, Loop, Compare, ppuVars
<1>10. CASE LatencyGet
  <2>1. 2 * k[0] \in Pieces
    <3>1. pc[0] = "latget" /\ k[0] <= Limit(pc[0]) /\ k[0] \in Nat
      BY <1>10 DEF LatencyGet, GoesOn, IndexInv
    <3> QED
      BY <3>1 DEF Limit
  <2>2. buf' \in Contents
    BY <1>10, <2>1 DEF LatencyGet
  <2> QED
    BY <1>10, <2>2 DEF LatencyGet, ppuVars
<1>11. CASE LatencyPut
  <2>1. mem' \in [Pieces -> Contents]
    BY <1>11 DEF LatencyPut, WriteLine
  <2>2. k' \in [Spes -> Nat] /\ pc' \in [Spes -> Phases]
    BY <1>11 DEF LatencyPut
  <2> QED
    BY <1>11, <2>1, <2>2 DEF LatencyPut, WriteLine, ppuVars
<1>12. CASE CoherencyWrite
  <2>1. k[0] + 1 <= Blocks
    BY <1>12, SizeAssumption DEF CoherencyWrite
  <2>2. DataBlock(k[0] + 1) \subseteq Pieces
    BY <2>1
  <2> QED
    BY <1>12, <2>2 DEF CoherencyWrite, Put, ppuVars
<1>13. CASE Publish
  BY <1>13 DEF Publish, Loop, WriteLine, ppuVars
<1>14. CASE AwaitDone
  BY <1>14 DEF AwaitDone, Loop, ppuVars
<1>15. ASSUME NEW p \in puts, Land(p) PROVE TypeInv'
  <2>1. mem' \in [Pieces -> Contents]
    BY <1>15 DEF Land
  <2> QED
    BY <1>15, <2>1 DEF Land, ppuVars
<1> QED
  BY <1>1, <1>2, <1>3, <1>4, <1>5, <1>6, <1>7, <1>8, <1>9, <1>10, <1>11, <1>12, <1>13,
     <1>14, <1>15, StepCases

LEMMA GroupStep == ASSUME TypeInv, GroupInv, [Next]_vars PROVE GroupInv'
<1> USE DEF TypeInv, GroupInv
<1>1. CASE UNCHANGED vars
  BY <1>1 DEF vars
<1>2. ASSUME NEW id \in Tests \cup {MEMTEST_AUTO_CYCLE}, StartGroup(id) PROVE GroupInv'
  BY <1>2 DEF StartGroup
<1>3. CASE PostStop
  BY <1>3 DEF PostStop
<1>4. CASE Terminate
  BY <1>4 DEF Terminate, NewSpes, All
<1>5. ASSUME NEW s \in Spes, SpeMain(s) PROVE GroupInv'
  <2>1. pc[s] # "none" /\ group' = group
    <3>1. CASE GetParams(s) \/ StopBetweenTests(s) \/ RunTest(s) \/ TestReturned(s)
      BY <3>1 DEF GetParams, StopBetweenTests, RunTest, TestReturned, ppuVars
    <3>2. CASE StopInTest(s) \/ AwaitReady(s) \/ CoherencyVerify(s) \/ Answer(s) \/ PrivateTest(s)
      BY <3>2 DEF StopInTest, Polling, AwaitReady, CoherencyVerify, Answer, PrivateTest,
                  GoesOn, Compare, WriteLine, ppuVars
    <3>3. CASE s = 0 /\ (PutChunk \/ ChunksWritten \/ VerifyBlock)
      BY <3>3 DEF PutChunk, ChunksWritten, VerifyBlock, GoesOn, Compare, Put, ppuVars
    <3>4. CASE s = 0 /\ (LatencyGet \/ LatencyPut)
      BY <3>4 DEF LatencyGet, LatencyPut, GoesOn, WriteLine, ppuVars
    <3>5. CASE s = 0 /\ (CoherencyWrite \/ Publish \/ AwaitDone)
      BY <3>5 DEF CoherencyWrite, Publish, AwaitDone, GoesOn, Put, WriteLine, ppuVars
    <3> QED
      BY <1>5, <3>1, <3>2, <3>3, <3>4, <3>5 DEF SpeMain
  <2> QED
    BY <2>1
<1>6. ASSUME NEW p \in puts, Land(p) PROVE GroupInv'
  BY <1>6 DEF Land, ppuVars
<1> QED
  BY <1>1, <1>2, <1>3, <1>4, <1>5, <1>6 DEF Next

(* A step of SPE s leaves the phase and the index of the others alone; its *)
(* own index stays within the loop.                                        *)
LEMMA OwnStep ==
  ASSUME TypeInv, IndexInv, NEW s \in Spes, SpeMain(s)
  PROVE  /\ \A q \in Spes \ {s} : pc'[q] = pc[q] /\ k'[q] = k[q]
         /\ k'[s] <= Limit(pc'[s])
<1> USE SizeAssumption DEF TypeInv, Phases, Limit
<1>k. k[s] \in Nat /\ k[s] <= Limit(pc[s])
  BY DEF IndexInv
<1>1. CASE GetParams(s)
  BY <1>1, <1>k DEF GetParams
<1>2. CASE StopBetweenTests(s)
  BY <1>2, <1>k DEF StopBetweenTests
<1>3. CASE RunTest(s)
  BY <1>3, <1>k DEF RunTest, FirstPhase
<1>4. CASE TestReturned(s)
  BY <1>4, <1>k DEF TestReturned
<1>5. CASE StopInTest(s)
  BY <1>5, <1>k DEF StopInTest
<1>6. CASE AwaitReady(s)
  BY <1>6, <1>k DEF AwaitReady, GoesOn, Loop
<1>7. CASE CoherencyVerify(s)
  BY <1>7, <1>k DEF CoherencyVerify, GoesOn, Loop
<1>8. CASE Answer(s) \/ PrivateTest(s)
  BY <1>8, <1>k DEF Answer, PrivateTest, GoesOn, Loop
<1>9. CASE s = 0 /\ (PutChunk \/ ChunksWritten \/ VerifyBlock)
  BY <1>9, <1>k DEF PutChunk, ChunksWritten, VerifyBlock, GoesOn, Put, Loop
<1>10. CASE s = 0 /\ (LatencyGet \/ LatencyPut)
  BY <1>10, <1>k DEF LatencyGet, LatencyPut, GoesOn
<1>11. CASE s = 0 /\ (CoherencyWrite \/ Publish)
  BY <1>11, <1>k DEF CoherencyWrite, Publish, GoesOn, Put, Loop
<1>12. CASE s = 0 /\ AwaitDone
  BY <1>12, <1>k DEF AwaitDone, GoesOn, Loop
<1> QED
  BY <1>1, <1>2, <1>3, <1>4, <1>5, <1>6, <1>7, <1>8, <1>9, <1>10, <1>11, <1>12 DEF SpeMain

LEMMA IndexStep ==
  ASSUME TypeInv, GroupInv, IndexInv, [Next]_vars
  PROVE  IndexInv'
<1>1. CASE UNCHANGED vars
  BY <1>1 DEF vars, IndexInv
<1>2. ASSUME NEW id \in Tests \cup {MEMTEST_AUTO_CYCLE}, StartGroup(id) PROVE IndexInv'
  BY <1>2 DEF StartGroup, All, GroupInv, IndexInv, Limit
<1>3. CASE PostStop
  BY <1>3 DEF PostStop, IndexInv
<1>4. CASE Terminate
  BY <1>4 DEF Terminate, NewSpes, All, IndexInv, Limit
<1>5. ASSUME NEW s \in Spes, SpeMain(s) PROVE IndexInv'
  BY <1>5, OwnStep DEF IndexInv
<1>6. ASSUME NEW p \in puts, Land(p) PROVE IndexInv'
  BY <1>6 DEF Land, IndexInv
<1> QED
  BY <1>1, <1>2, <1>3, <1>4, <1>5, <1>6 DEF Next

-----------------------------------------------------------------------------
(* The data and the flag.  Written stands for what is to be preserved.     *)
Written == PutsInv /\ WrittenInv /\ ReadyMeansWritten

LEMMA WrittenKept ==
  ASSUME Written, UNCHANGED <<memory, overTorn>>, group' # "none" => group # "none",
         \/ pc'[0] \notin {"cwrite", "write", "latput"} /\ puts = {}
         \/ pc'[0] = pc[0] /\ k'[0] = k[0] /\ buf' = buf
  PROVE  Written'
  BY DEF Written, PutsInv, WrittenInv, ReadyMeansWritten, Torn, Complete, memory

(* No SPE changes the history variable, and the group goes on.             *)
LEMMA StepKeepsGroup ==
  ASSUME NEW s \in Spes, SpeMain(s)
  PROVE  UNCHANGED <<group, memtestId, overTorn>>
<1>1. CASE GetParams(s) \/ StopBetweenTests(s) \/ RunTest(s) \/ TestReturned(s) \/ StopInTest(s)
  BY <1>1 DEF GetParams, StopBetweenTests, RunTest, TestReturned, StopInTest, ppuVars
<1>2. CASE AwaitReady(s) \/ CoherencyVerify(s) \/ Answer(s) \/ PrivateTest(s)
  BY <1>2 DEF AwaitReady, CoherencyVerify, Answer, PrivateTest, Compare, WriteLine, ppuVars
<1>3. CASE PutChunk \/ ChunksWritten \/ VerifyBlock \/ LatencyGet \/ LatencyPut
  BY <1>3 DEF PutChunk, ChunksWritten, VerifyBlock, LatencyGet, LatencyPut, Put, Compare,
              WriteLine, ppuVars
<1>4. CASE CoherencyWrite \/ Publish \/ AwaitDone
  BY <1>4 DEF CoherencyWrite, Publish, AwaitDone, Put, WriteLine, ppuVars
<1> QED
  BY <1>1, <1>2, <1>3, <1>4 DEF SpeMain

(* A step of another SPE: only its answer changes the memory.              *)
LEMMA OthersKeepWritten ==
  ASSUME TypeInv, IndexInv, Written, NEW s \in Spes, s # 0, SpeMain(s)
  PROVE  Written'
<1>1. pc'[0] = pc[0] /\ k'[0] = k[0]
  BY OwnStep, ConstantFacts
<1>2. UNCHANGED <<group, overTorn>>
  BY StepKeepsGroup
<1>3. CASE Answer(s)
  <2>1. UNCHANGED <<puts, buf>>
    BY <1>3 DEF Answer, WriteLine
  <2>2. mem'[0] = DONE /\ \A p \in Pieces : p # 0 => mem'[p] = mem[p]
    BY <1>3, PieceFacts DEF Answer, WriteLine, TypeInv
  <2>3. k[0] \in Nat /\ k[0] <= Limit(pc[0])
    BY ConstantFacts DEF TypeInv, IndexInv
  <2>4. PutsInv'
    BY <1>1, <2>1 DEF Written, PutsInv
  <2>5. WrittenInv'
    <3>1. Complete => Complete'
      BY <2>2, PieceFacts DEF Complete
    <3>2. pc[0] = "cwrite" => k[0] <= Blocks
      BY <2>3 DEF Limit
    <3>3. pc[0] = "cwrite" => \A p \in 1 .. 2 * k[0] : p \in Pieces /\ p # 0
      BY <2>3, <3>2, SizeAssumption DEF Pieces
    <3>4. pc[0] = "latput" /\ k[0] > 0 => 2 * k[0] \in Pieces /\ 2 * k[0] # 0
      BY <2>3, PieceFacts DEF Limit
    <3> QED
      BY <1>1, <1>2, <2>1, <2>2, <3>1, <3>3, <3>4 DEF Written, WrittenInv, DONE, READY
  <2>6. ReadyMeansWritten'
    BY <2>2 DEF ReadyMeansWritten, Torn, DONE, READY
  <2> QED
    BY <2>4, <2>5, <2>6 DEF Written
<1>4. CASE ~Answer(s)
  <2>1. UNCHANGED <<memory, buf>>
    <3>1. CASE GetParams(s) \/ StopBetweenTests(s) \/ RunTest(s) \/ TestReturned(s) \/ StopInTest(s)
      BY <3>1 DEF GetParams, StopBetweenTests, RunTest, TestReturned, StopInTest
    <3>2. CASE AwaitReady(s) \/ CoherencyVerify(s) \/ PrivateTest(s)
      BY <3>2 DEF AwaitReady, CoherencyVerify, PrivateTest, Compare
    <3> QED
      BY <1>4, <3>1, <3>2 DEF SpeMain
  <2> QED
    BY <1>1, <1>2, <2>1, WrittenKept
<1> QED
  BY <1>3, <1>4

(* A step of SPE 0.                                                        *)
LEMMA WriterKeepsWritten ==
  ASSUME TypeInv, IndexInv, GroupInv, Written, SpeMain(0)
  PROVE  Written'
<1> USE ConstantFacts, PieceFacts, SizeAssumption DEF TypeInv
<1>k. k[0] \in Nat /\ k[0] <= Limit(pc[0])
  BY DEF IndexInv
<1>g. UNCHANGED <<group, overTorn>>
  BY StepKeepsGroup
<1>1. CASE GetParams(0) \/ StopBetweenTests(0) \/ TestReturned(0) \/ StopInTest(0)
  <2>1. UNCHANGED memory /\ pc'[0] \notin {"cwrite", "write", "latput"}
    BY <1>1 DEF GetParams, StopBetweenTests, TestReturned, StopInTest
  <2>2. puts = {}
    BY <1>1 DEF GetParams, StopBetweenTests, TestReturned, StopInTest, Polling, Written,
                PutsInv
  <2> QED
    BY <1>g, <2>1, <2>2, WrittenKept
<1>2. CASE RunTest(0)
  <2>1. UNCHANGED memory /\ k'[0] = 0 /\ pc'[0] # "latput"
    BY <1>2, <1>k DEF RunTest, FirstPhase, Limit
  <2>2. puts = {}
    BY <1>2 DEF RunTest, Written, PutsInv
  <2>3. UNCHANGED <<mem, puts>>
    BY <2>1 DEF memory
  <2> QED
    BY <1>g, <2>1, <2>2, <2>3
    DEF Written, PutsInv, WrittenInv, ReadyMeansWritten, Torn, Complete
<1>3. CASE AwaitReady(0) \/ CoherencyVerify(0) \/ PrivateTest(0) \/ VerifyBlock \/ AwaitDone
             \/ ChunksWritten
  <2>1. UNCHANGED memory /\ pc'[0] \notin {"cwrite", "write", "latput"}
    BY <1>3 DEF AwaitReady, CoherencyVerify, PrivateTest, VerifyBlock, AwaitDone,
                ChunksWritten, GoesOn, Loop, Compare
  <2>2. puts = {}
    BY <1>3 DEF AwaitReady, CoherencyVerify, PrivateTest, VerifyBlock, AwaitDone,
                ChunksWritten, GoesOn, Written, PutsInv
  <2> QED
    BY <1>g, <2>1, <2>2, WrittenKept
<1>4. CASE Answer(0)
  <2>1. pc[0] = "answer" /\ pc'[0] = "returning"
    BY <1>4 DEF Answer, Loop
  <2>2. mem'[0] = DONE /\ UNCHANGED puts
    BY <1>4 DEF Answer, WriteLine
  <2> QED
    BY <2>1, <2>2 DEF Written, PutsInv, WrittenInv, ReadyMeansWritten, Torn, DONE, READY
<1>5. CASE PutChunk
  <2>1. pc[0] = "write" /\ pc'[0] = "write" /\ k'[0] = k[0] + 1 /\ UNCHANGED mem
    BY <1>5 DEF PutChunk, GoesOn, Put
  <2>2. puts' = puts \cup {2 * k[0], 2 * k[0] + 1}
    BY <1>5 DEF PutChunk, Put, Chunk
  <2>3. \A p \in puts : p \in Nat /\ p <= 2 * k[0] - 1
    BY <2>1 DEF Written, PutsInv
  <2>4. PutsInv'
    <3>1. \A p \in puts' : p <= 2 * (k[0] + 1) - 1
      BY <1>k, <2>2, <2>3
    <3> QED
      BY <2>1, <3>1 DEF PutsInv
  <2>5. 0 \notin puts' => mem[0] # READY
    <3>1. 0 \notin puts' => 0 \notin puts /\ k[0] > 0
      BY <1>k, <2>2
    <3> QED
      BY <2>1, <3>1 DEF Written, WrittenInv
  <2> QED
    BY <2>1, <2>4, <2>5 DEF Written, WrittenInv, ReadyMeansWritten, Torn
<1>6. CASE LatencyGet
  <2>1. UNCHANGED <<mem, puts, k>> /\ pc[0] = "latget" /\ pc'[0] = "latput" /\ buf' = mem[2 * k[0]]
    BY <1>6 DEF LatencyGet, GoesOn, memory
  <2>2. puts = {} /\ group # "none"
    BY <2>1 DEF Written, PutsInv, GroupInv
  <2> QED
    BY <1>g, <2>1, <2>2
    DEF Written, PutsInv, WrittenInv, ReadyMeansWritten, Torn, Complete
<1>7. CASE LatencyPut
  <2>1. pc[0] = "latput" /\ pc'[0] \in {"latget", "returning"}
    BY <1>7 DEF LatencyPut
  <2>2. mem' = [mem EXCEPT ![2 * k[0]] = buf] /\ 2 * k[0] \in Pieces /\ UNCHANGED puts
    BY <1>7, <1>k, <2>1 DEF LatencyPut, WriteLine, Limit
  <2>3. ReadyMeansWritten'
    <3>1. CASE k[0] = 0
      <4>1. mem'[0] = buf /\ \A p \in 1 .. 2 * Blocks : mem'[p] = mem[p]
        BY <2>2, <3>1
      <4>2. Complete => Complete'
        BY <4>1 DEF Complete
      <4> QED
        BY <1>g, <2>1, <3>1, <4>1, <4>2 DEF Written, WrittenInv, ReadyMeansWritten, Torn
    <3>2. CASE k[0] > 0
      <4>1. mem' = mem
        BY <2>1, <2>2, <3>2 DEF Written, WrittenInv
      <4> QED
        BY <1>g, <2>2, <4>1 DEF Written, ReadyMeansWritten, Torn, Complete
    <3> QED
      BY <1>k, <3>1, <3>2
  <2> QED
    BY <2>1, <2>2, <2>3 DEF Written, PutsInv, WrittenInv
<1>8. CASE CoherencyWrite
  <2>1. pc[0] = "cwrite" /\ pc'[0] = "cwrite" /\ k'[0] = k[0] + 1 /\ UNCHANGED mem
    BY <1>8 DEF CoherencyWrite, GoesOn, Put
  <2>2. k[0] + 1 <= Blocks /\ puts = {}
    BY <1>8, <1>k DEF CoherencyWrite
  <2>3. puts' = {2 * k[0] + 1, 2 * k[0] + 2}
    BY <1>8, <1>k, <2>2 DEF CoherencyWrite, Put
  <2>4. PutsInv'
    <3>1. \A p \in puts' : 1 <= p /\ p <= 2 * (k[0] + 1)
      BY <1>k, <2>3
    <3> QED
      BY <2>1, <3>1 DEF PutsInv
  <2>5. WrittenInv'
    <3>1. ASSUME NEW p \in 1 .. 2 * (k[0] + 1) PROVE p \in puts' \/ mem[p] = COHERENCY_DATA
      <4>1. p \in 1 .. 2 * k[0] \/ p = 2 * k[0] + 1 \/ p = 2 * k[0] + 2
        BY <1>k, NextBlock
      <4> QED
        BY <2>1, <2>2, <2>3, <4>1 DEF Written, WrittenInv
    <3> QED
      BY <2>1, <3>1 DEF WrittenInv
  <2>6. ReadyMeansWritten'
    BY <1>g, <2>1, <2>2 DEF Written, ReadyMeansWritten, Torn, Complete
  <2> QED
    BY <2>4, <2>5, <2>6 DEF Written
<1>9. CASE Publish
  <2>1. pc[0] = "cwrite" /\ k[0] = Blocks /\ puts = {} /\ pc'[0] = "cwait" /\ UNCHANGED puts
    BY <1>9 DEF Publish, Loop, WriteLine
  <2>2. \A p \in 1 .. 2 * Blocks : mem'[p] = mem[p]
    BY <1>9 DEF Publish, WriteLine
  <2>3. Complete'
    BY <2>1, <2>2 DEF Written, WrittenInv, Complete
  <2> QED
    BY <2>1, <2>3 DEF Written, PutsInv, WrittenInv, ReadyMeansWritten, Torn
<1> QED
  BY <1>1, <1>2, <1>3, <1>4, <1>5, <1>6, <1>7, <1>8, <1>9 DEF SpeMain

(* A piece of a put lands.                                                 *)
LEMMA LandingKeepsWritten ==
  ASSUME TypeInv, IndexInv, Written, NEW p \in puts, Land(p)
  PROVE  Written'
<1> USE ConstantFacts, PieceFacts, SizeAssumption DEF TypeInv
<1>1. /\ puts' = puts \ {p} /\ p \in Pieces /\ p \in Nat
      /\ UNCHANGED <<group, overTorn, pc, k, buf>>
  BY DEF Land, ppuVars
<1>2. pc[0] \in {"write", "cwrite"} /\ k[0] \in Nat
  BY DEF Written, PutsInv
<1>3. PutsInv'
  BY <1>1 DEF Written, PutsInv
<1>4. \A q \in Pieces : q # p => mem'[q] = mem[q]
  BY DEF Land
<1>5. CASE pc[0] = "write"
  <2>1. mem'[p] = test[0] /\ test[0] # READY
    BY <1>1, <1>5 DEF Land, READY
  <2>2. k[0] > 0
    BY <1>1, <1>2, <1>5 DEF Written, PutsInv
  <2>3. 0 \notin puts' => mem'[0] # READY
    <3>1. CASE p = 0
      BY <2>1, <3>1
    <3>2. CASE p # 0
      BY <1>1, <1>4, <1>5, <2>2, <3>2 DEF Written, WrittenInv
    <3> QED
      BY <3>1, <3>2
  <2> QED
    BY <1>1, <1>3, <1>5, <2>3 DEF Written, WrittenInv, ReadyMeansWritten, Torn
<1>6. CASE pc[0] = "cwrite"
  <2>1. mem'[p] = COHERENCY_DATA
    BY <1>1, <1>6 DEF Land
  <2>2. p # 0
    BY <1>6 DEF Written, PutsInv
  <2>3. WrittenInv'
    <3>1. k[0] <= Blocks
      BY <1>6 DEF IndexInv, Limit
    <3>2. ASSUME NEW q \in 1 .. 2 * k[0] PROVE q \in puts' \/ mem'[q] = COHERENCY_DATA
      <4>1. q \in Pieces
        BY <1>2, <3>1
      <4> QED
        BY <1>1, <1>4, <1>6, <2>1, <4>1 DEF Written, WrittenInv
    <3> QED
      BY <1>1, <1>6, <3>2 DEF WrittenInv
  <2>4. Complete => Complete'
    BY <1>4, <2>1 DEF Complete
  <2> QED
    BY <1>1, <1>3, <1>4, <2>2, <2>3, <2>4 DEF Written, ReadyMeansWritten, Torn
<1> QED
  BY <1>2, <1>5, <1>6

LEMMA WrittenStep ==
  ASSUME TypeInv, IndexInv, GroupInv, Written, [Next]_vars
  PROVE  Written'
<1>1. CASE UNCHANGED vars
  BY <1>1, WrittenKept DEF vars, memory
<1>2. ASSUME NEW id \in Tests \cup {MEMTEST_AUTO_CYCLE}, StartGroup(id) PROVE Written'
  <2>1. pc[0] = "none" /\ pc'[0] = "params" /\ UNCHANGED <<mem, puts>> /\ overTorn' = Torn
    BY <1>2, ConstantFacts DEF StartGroup, All, GroupInv
  <2>2. puts = {}
    BY <2>1 DEF Written, PutsInv
  <2> QED
    BY <2>1, <2>2 DEF Written, PutsInv, WrittenInv, ReadyMeansWritten, Torn, Complete
<1>3. CASE PostStop
  BY <1>3, WrittenKept DEF PostStop, memory
<1>4. CASE Terminate
  <2>1. pc'[0] = "none" /\ puts' = {} /\ group' = "none"
    BY <1>4, ConstantFacts DEF Terminate, NewSpes, All
  <2> QED
    BY <2>1 DEF Written, PutsInv, WrittenInv, ReadyMeansWritten
<1>5. ASSUME NEW s \in Spes, SpeMain(s) PROVE Written'
  BY <1>5, OthersKeepWritten, WriterKeepsWritten
<1>6. ASSUME NEW p \in puts, Land(p) PROVE Written'
  BY <1>6, LandingKeepsWritten
<1> QED
  BY <1>1, <1>2, <1>3, <1>4, <1>5, <1>6 DEF Next

-----------------------------------------------------------------------------
THEOREM Inductive == Spec => []IInv
<1>1. IInv /\ [Next]_vars => IInv'
  BY TypeStep, GroupStep, IndexStep, WrittenStep DEF IInv, Written
<1> QED
  BY InitIInv, <1>1, PTL DEF Spec

(* Every phase, test, loop index and piece of the slice stays in its       *)
(* range, for every number of SPEs, list of tests, size of slice and poll  *)
(* limit.                                                                  *)
THEOREM TypeCorrect == Spec => []TypeOK
<1>1. IInv => TypeOK
  BY SizeAssumption DEF IInv, TypeInv, IndexInv, Limit, TypeOK
<1> QED
  BY Inductive, <1>1, PTL

(* Wherever the READY flag of test_coherency can be seen over incomplete   *)
(* data, a put that overwrites the flag is on its way, or one was when the *)
(* last group was terminated: not before the fenced put that raises it,    *)
(* not from an earlier pass, not put back by the latency test.  For any    *)
(* order in which the lines of the puts land.                              *)
THEOREM ReadyFlagHonest == Spec => []ReadyMeansWritten
  BY Inductive, PTL DEF IInv

-----------------------------------------------------------------------------
(* A test run alone.                                                       *)

PhasesOf(kind) ==
  IF kind = "coherency" THEN {"cwrite", "cwait", "cpoll", "cverify", "answer"}
  ELSE IF kind = "latency" THEN {"private", "latget", "latput"}
  ELSE IF kind = "pattern" THEN {"private", "write", "verify"}
  ELSE {"private", "write"}

(* Every SPE runs the selected test.                                       *)
OnTask(s) ==
  \/ pc[s] \in {"none", "params"}
  \/ /\ test[s] = memtestId
     /\ pc[s] \in {"next", "returning", "returned"} \cup PhasesOf(Kind(memtestId))
TaskInv == memtestId # MEMTEST_AUTO_CYCLE => \A s \in Spes : OnTask(s)

(* What is verified has been written, and nothing else has been since.     *)
DataInv ==
  memtestId # MEMTEST_AUTO_CYCLE =>
    /\ pc[0] = "write"  => \A p \in 0 .. 2 * k[0] - 1 : p \in puts \/ mem[p] = test[0]
    /\ pc[0] = "verify" => \A p \in Pieces : mem[p] = test[0]
    /\ ~overTorn => \A s \in Spes : pc[s] = "cverify" => Complete

SoloInv == TaskInv /\ DataInv /\ SoloTestIsSilent

LEMMA OwnTask ==
  ASSUME TypeInv, memtestId # MEMTEST_AUTO_CYCLE, NEW s \in Spes, OnTask(s), SpeMain(s)
  PROVE  /\ memtestId' = memtestId
         /\ \A q \in Spes \ {s} : pc'[q] = pc[q] /\ test'[q] = test[q]
         /\ OnTask(s)'
<1> USE DEF TypeInv, OnTask, PhasesOf
<1>1. CASE GetParams(s)
  BY <1>1 DEF GetParams, FirstTest, ppuVars
<1>2. CASE StopBetweenTests(s)
  BY <1>2 DEF StopBetweenTests, ppuVars
<1>3. CASE RunTest(s)
  <2>1. Kind(test[s]) \in Kinds
    BY TestAssumption DEF Kind, Tests, MEMTEST_COUNT
  <2> QED
    BY <1>3, <2>1 DEF RunTest, FirstPhase, Kinds, ppuVars
<1>4. CASE TestReturned(s)
  BY <1>4 DEF TestReturned, FirstTest, ppuVars
<1>5. CASE StopInTest(s)
  BY <1>5 DEF StopInTest, Polling, ppuVars
<1>6. CASE AwaitReady(s)
  BY <1>6 DEF AwaitReady, GoesOn, Loop, ppuVars
<1>7. CASE CoherencyVerify(s)
  BY <1>7 DEF CoherencyVerify, GoesOn, Loop, Compare, ppuVars
<1>8. CASE Answer(s) \/ PrivateTest(s)
  BY <1>8 DEF Answer, PrivateTest, GoesOn, Loop, WriteLine, ppuVars
<1>9. CASE s = 0 /\ PutChunk
  BY <1>9 DEF PutChunk, GoesOn, Put, ppuVars
<1>10. CASE s = 0 /\ ChunksWritten
  <2>1. Kind(test[0]) \in Kinds
    BY ConstantFacts, TestAssumption DEF Kind, Tests, MEMTEST_COUNT
  <2> QED
    BY <1>10, <2>1 DEF ChunksWritten, Bandwidth, Kinds, Loop, ppuVars
<1>11. CASE s = 0 /\ VerifyBlock
  BY <1>11 DEF VerifyBlock, GoesOn, Loop, Compare, ppuVars
<1>12. CASE s = 0 /\ (LatencyGet \/ LatencyPut)
  BY <1>12 DEF LatencyGet, LatencyPut, GoesOn, WriteLine, ppuVars
<1>13. CASE s = 0 /\ CoherencyWrite
  BY <1>13 DEF CoherencyWrite, GoesOn, Put, ppuVars
<1>14. CASE s = 0 /\ Publish
  BY <1>14 DEF Publish, Loop, WriteLine, ppuVars
<1>15. CASE s = 0 /\ AwaitDone
  BY <1>15 DEF AwaitDone, GoesOn, Loop, ppuVars
<1> QED
  BY <1>1, <1>2, <1>3, <1>4, <1>5, <1>6, <1>7, <1>8, <1>9, <1>10, <1>11, <1>12, <1>13,
     <1>14, <1>15 DEF SpeMain

LEMMA TaskStep ==
  ASSUME TypeInv, GroupInv, TaskInv, [Next]_vars
  PROVE  TaskInv'
<1> USE DEF TypeInv
<1>1. CASE UNCHANGED vars
  BY <1>1 DEF vars, TaskInv, OnTask
<1>2. ASSUME NEW id \in Tests \cup {MEMTEST_AUTO_CYCLE}, StartGroup(id) PROVE TaskInv'
  BY <1>2 DEF StartGroup, All, TaskInv, OnTask
<1>3. CASE PostStop
  BY <1>3 DEF PostStop, TaskInv, OnTask
<1>4. CASE Terminate
  BY <1>4 DEF Terminate, NewSpes, All, TaskInv, OnTask
<1>5. ASSUME NEW s \in Spes, SpeMain(s) PROVE TaskInv'
  <2> SUFFICES ASSUME memtestId' # MEMTEST_AUTO_CYCLE, NEW q \in Spes PROVE OnTask(q)'
    BY DEF TaskInv
  <2>1. memtestId' = memtestId
    BY <1>5, StepKeepsGroup
  <2>2. OnTask(s) /\ OnTask(q)
    BY <2>1 DEF TaskInv
  <2>3. CASE q = s
    BY <1>5, <2>1, <2>2, <2>3, OwnTask
  <2>4. CASE q # s
    <3>1. pc'[q] = pc[q] /\ test'[q] = test[q]
      BY <1>5, <2>1, <2>2, <2>4, OwnTask
    <3> QED
      BY <2>1, <2>2, <3>1 DEF OnTask
  <2> QED
    BY <2>3, <2>4
<1>6. ASSUME NEW p \in puts, Land(p) PROVE TaskInv'
  BY <1>6 DEF Land, ppuVars, TaskInv, OnTask
<1> QED
  BY <1>1, <1>2, <1>3, <1>4, <1>5, <1>6 DEF Next

(* A step of SPE s, while no other test is selected.                       *)
LEMMA DataKept ==
  ASSUME IInv, SoloInv, NEW s \in Spes, SpeMain(s), memtestId # MEMTEST_AUTO_CYCLE
  PROVE  DataInv' /\ SoloTestIsSilent'
<1> USE ConstantFacts, PieceFacts, SizeAssumption DEF IInv, TypeInv
<1>p. UNCHANGED <<group, memtestId, overTorn>>
  BY StepKeepsGroup
<1>t. \A q \in Spes : OnTask(q)
  BY DEF SoloInv, TaskInv
<1>k. k[s] \in Nat /\ k[s] <= Limit(pc[s])
  BY DEF IndexInv
<1>d. /\ pc[0] = "write"  => \A p \in 0 .. 2 * k[0] - 1 : p \in puts \/ mem[p] = test[0]
      /\ pc[0] = "verify" => \A p \in Pieces : mem[p] = test[0]
      /\ ~overTorn => \A q \in Spes : pc[q] = "cverify" => Complete
  BY DEF SoloInv, DataInv
<1>e. ~(overTorn /\ Kind(memtestId) = "coherency") => \A q \in Spes : ~errors[q]
  BY DEF SoloInv, SoloTestIsSilent
<1>0. \A q \in Spes \ {s} : pc'[q] = pc[q] /\ test'[q] = test[q] /\ k'[q] = k[q]
  BY <1>t, OwnTask, OwnStep
\* A step that writes nothing and enters no phase that verifies.
<1>1. ASSUME UNCHANGED memory,
             pc'[s] = "write" => k'[s] = 0,
             pc'[s] \notin {"verify", "cverify"},
             UNCHANGED errors \/ errors' = [errors EXCEPT ![s] = FALSE]
      PROVE  DataInv' /\ SoloTestIsSilent'
  <2>1. DataInv'
    BY <1>p, <1>0, <1>1, <1>d DEF DataInv, Complete, memory
  <2>2. SoloTestIsSilent'
    BY <1>p, <1>1, <1>e DEF SoloTestIsSilent
  <2> QED
    BY <2>1, <2>2
<1>2. CASE GetParams(s) \/ StopBetweenTests(s) \/ TestReturned(s) \/ StopInTest(s)
  BY <1>1, <1>2 DEF GetParams, StopBetweenTests, TestReturned, StopInTest
<1>3. CASE RunTest(s)
  BY <1>1, <1>3, <1>k DEF RunTest, FirstPhase, Limit
<1>4. CASE PrivateTest(s) \/ (s = 0 /\ (LatencyGet \/ AwaitDone))
  BY <1>1, <1>4 DEF PrivateTest, LatencyGet, AwaitDone, GoesOn, Loop
\* The coherency test: SPE 0 neither writes nor verifies a pattern.
<1>5. ASSUME Kind(memtestId) = "coherency",
             pc'[s] \notin {"write", "verify"},
             ~overTorn => /\ Complete => Complete'
                          /\ pc'[s] = "cverify" => Complete
                          /\ \A q \in Spes : ~errors'[q]
      PROVE  DataInv' /\ SoloTestIsSilent'
  <2>1. pc[0] \notin {"write", "verify"}
    BY <1>5, <1>t DEF OnTask, PhasesOf
  <2>2. pc'[0] \notin {"write", "verify"}
    BY <1>0, <1>5, <2>1
  <2>3. ASSUME ~overTorn, NEW q \in Spes, pc'[q] = "cverify" PROVE Complete'
    BY <1>0, <1>5, <1>d, <2>3
  <2> QED
    BY <1>p, <1>5, <2>2, <2>3 DEF DataInv, SoloTestIsSilent
<1>6. CASE AwaitReady(s)
  <2>1. pc[s] = "cpoll" /\ UNCHANGED <<memory, errors>> /\ pc'[s] \notin {"write", "verify"}
    BY <1>6 DEF AwaitReady, GoesOn, Loop
  <2>2. Kind(memtestId) = "coherency"
    BY <1>t, <2>1 DEF OnTask, PhasesOf
  <2>3. pc'[s] = "cverify" => mem[0] = READY
    BY <1>6, <2>1 DEF AwaitReady, Loop
  <2>4. 0 \notin puts
    BY <1>t, <2>2 DEF OnTask, PhasesOf, PutsInv
  <2>5. group # "none"
    BY <2>1 DEF GroupInv
  <2>6. ~overTorn /\ mem[0] = READY => Complete
    BY <2>4, <2>5 DEF ReadyMeansWritten, Torn
  <2>7. Complete => Complete'
    BY <2>1 DEF Complete, memory
  <2> QED
    BY <1>5, <1>e, <2>1, <2>2, <2>3, <2>6, <2>7
<1>7. CASE CoherencyVerify(s)
  <2>1. pc[s] = "cverify" /\ k[s] + 1 <= Blocks
    BY <1>7, <1>k DEF CoherencyVerify, GoesOn, Limit
  <2>2. Kind(memtestId) = "coherency"
    BY <1>t, <2>1 DEF OnTask, PhasesOf
  <2>3. UNCHANGED memory /\ pc'[s] \notin {"write", "verify"}
    BY <1>7, <2>1 DEF CoherencyVerify, Loop, Compare
  <2>4. Complete => Complete'
    BY <2>3 DEF Complete, memory
  <2>5. ASSUME ~overTorn PROVE Complete /\ \A q \in Spes : ~errors'[q]
    <3>1. Complete
      BY <1>d, <2>1, <2>5
    <3>2. \A p \in DataBlock(k[s] + 1) : mem[p] = COHERENCY_DATA
      BY <1>k, <2>1, <3>1 DEF Complete
    <3> QED
      BY <1>7, <1>e, <2>5, <3>1, <3>2 DEF CoherencyVerify, Compare
  <2> QED
    BY <1>5, <2>2, <2>3, <2>4, <2>5
<1>8. CASE Answer(s) \/ (s = 0 /\ (CoherencyWrite \/ Publish))
  <2>1. /\ pc[s] \in {"answer", "cwrite"}
        /\ pc'[s] \in {"returning", "cwrite", "cwait"}
    BY <1>8 DEF Answer, CoherencyWrite, Publish, GoesOn, Loop, Put
  <2>2. Kind(memtestId) = "coherency"
    BY <1>t, <2>1 DEF OnTask, PhasesOf
  <2>3. UNCHANGED errors
    BY <1>8 DEF Answer, CoherencyWrite, Publish, Put, WriteLine
  <2>4. Complete => Complete'
    <3>1. CASE Answer(s) \/ Publish
      <4>1. PICK c : mem' = [mem EXCEPT ![0] = c]
        BY <3>1 DEF Answer, Publish, WriteLine
      <4> QED
        BY <4>1 DEF Complete
    <3>2. CASE CoherencyWrite
      BY <3>2 DEF CoherencyWrite, Put, Complete
    <3> QED
      BY <1>8, <3>1, <3>2
  <2> QED
    BY <1>5, <1>e, <2>1, <2>2, <2>3, <2>4
\* In the others no SPE is in the coherency test.
<1>9. CASE s = 0 /\ (PutChunk \/ ChunksWritten \/ VerifyBlock \/ LatencyPut)
  <2>1. pc[0] \in {"write", "verify", "latput"}
    BY <1>9 DEF PutChunk, ChunksWritten, VerifyBlock, LatencyPut, GoesOn
  <2>2. Kind(memtestId) # "coherency"
    BY <1>t, <2>1 DEF OnTask, PhasesOf
  <2>3. \A q \in Spes : pc[q] # "cverify"
    BY <1>t, <2>2 DEF OnTask, PhasesOf
  <2>s. ASSUME pc'[0] # "cverify" PROVE \A q \in Spes : pc'[q] # "cverify"
    BY <1>0, <1>9, <2>3, <2>s
  <2>4. CASE PutChunk
    <3>1. /\ pc[0] = "write" /\ pc'[0] = "write" /\ k'[0] = k[0] + 1
          /\ UNCHANGED <<mem, test, errors>>
      BY <2>4 DEF PutChunk, GoesOn, Put
    <3>2. puts' = puts \cup {2 * k[0], 2 * k[0] + 1}
      BY <2>4 DEF PutChunk, Put, Chunk
    <3>3. ASSUME NEW p \in 0 .. 2 * (k[0] + 1) - 1 PROVE p \in puts' \/ mem'[p] = test'[0]
      <4>1. p \in 0 .. 2 * k[0] - 1 \/ p = 2 * k[0] \/ p = 2 * k[0] + 1
        BY <1>9, <1>k, NextChunk
      <4> QED
        BY <1>d, <3>1, <3>2, <4>1
    <3>4. \A q \in Spes : pc'[q] # "cverify"
      BY <2>s, <3>1
    <3>5. DataInv'
      BY <3>1, <3>3, <3>4 DEF DataInv
    <3> QED
      BY <1>p, <1>e, <2>2, <3>1, <3>5 DEF SoloTestIsSilent
  <2>5. CASE ChunksWritten
    <3>1. /\ pc[0] = "write" /\ k[0] = Blocks + 1 /\ puts = {} /\ pc'[0] \in {"verify", "returning"}
          /\ UNCHANGED <<mem, test, errors>>
      BY <2>5 DEF ChunksWritten, Loop, memory
    <3>2. \A p \in Pieces : mem'[p] = test'[0]
      BY <1>d, <3>1 DEF Pieces
    <3>3. \A q \in Spes : pc'[q] # "cverify"
      BY <2>s, <3>1
    <3>4. DataInv'
      BY <3>1, <3>2, <3>3 DEF DataInv
    <3> QED
      BY <1>p, <1>e, <2>2, <3>1, <3>4 DEF SoloTestIsSilent
  <2>6. CASE VerifyBlock
    <3>1. pc[0] = "verify" /\ k[0] <= Blocks
      BY <1>9, <1>k, <2>6 DEF VerifyBlock, GoesOn, Limit
    <3>2. \A p \in Chunk(k[0]) : mem[p] = test[0]
      BY <1>9, <1>d, <1>k, <3>1
    <3>3. \A q \in Spes : ~errors'[q]
      BY <1>e, <2>2, <2>6, <3>2 DEF VerifyBlock, Compare
    <3>4. UNCHANGED <<mem, test>> /\ pc'[0] \in {"verify", "returning"}
      BY <2>6, <3>1 DEF VerifyBlock, Loop, Compare, memory
    <3>5. \A q \in Spes : pc'[q] # "cverify"
      BY <2>s, <3>4
    <3>6. DataInv'
      BY <1>d, <3>1, <3>4, <3>5 DEF DataInv
    <3> QED
      BY <3>3, <3>6 DEF SoloTestIsSilent
  <2>7. CASE LatencyPut
    <3>1. pc'[0] \in {"latget", "returning"} /\ UNCHANGED errors
      BY <2>7 DEF LatencyPut, WriteLine
    <3>2. \A q \in Spes : pc'[q] # "cverify"
      BY <2>s, <3>1
    <3> QED
      BY <1>p, <1>e, <2>2, <3>1, <3>2 DEF DataInv, SoloTestIsSilent
  <2> QED
    BY <1>9, <2>4, <2>5, <2>6, <2>7, Zenon
<1> QED
  BY <1>2, <1>3, <1>4, <1>6, <1>7, <1>8, <1>9 DEF SpeMain

(* A piece of a put lands, while no other test is selected.                *)
LEMMA LandingKeepsData ==
  ASSUME IInv, SoloInv, NEW p \in puts, Land(p), memtestId # MEMTEST_AUTO_CYCLE
  PROVE  DataInv' /\ SoloTestIsSilent'
<1> USE ConstantFacts, PieceFacts, SizeAssumption DEF IInv, TypeInv
<1>1. /\ puts' = puts \ {p} /\ p \in Pieces
      /\ UNCHANGED <<memtestId, overTorn, pc, test, k, errors>>
  BY DEF Land, ppuVars
<1>2. pc[0] \in {"write", "cwrite"} /\ k[0] \in Nat /\ k[0] <= Limit(pc[0])
  BY DEF PutsInv, IndexInv
<1>3. \A q \in Pieces : q # p => mem'[q] = mem[q]
  BY DEF Land
<1>4. SoloTestIsSilent'
  BY <1>1 DEF SoloInv, SoloTestIsSilent
<1>5. CASE pc[0] = "write"
  <2>1. mem'[p] = test[0]
    BY <1>1, <1>5 DEF Land
  <2>2. \A q \in Spes : pc[q] # "cverify"
    <3>1. Kind(memtestId) # "coherency"
      BY <1>5 DEF SoloInv, TaskInv, OnTask, PhasesOf
    <3> QED
      BY <3>1 DEF SoloInv, TaskInv, OnTask, PhasesOf
  <2>3. ASSUME NEW q \in 0 .. 2 * k[0] - 1 PROVE q \in puts' \/ mem'[q] = test[0]
    <3>1. k[0] <= Blocks + 1
      BY <1>2, <1>5 DEF Limit
    <3>2. q \in Pieces
      BY <1>2, <3>1 DEF Pieces
    <3> QED
      BY <1>1, <1>3, <1>5, <2>1, <3>2 DEF SoloInv, DataInv
  <2> QED
    BY <1>1, <1>4, <1>5, <2>2, <2>3 DEF DataInv
<1>6. CASE pc[0] = "cwrite"
  <2>1. mem'[p] = COHERENCY_DATA
    BY <1>1, <1>6 DEF Land
  <2>2. Complete => Complete'
    BY <1>3, <2>1 DEF Complete
  <2> QED
    BY <1>1, <1>4, <1>6, <2>2 DEF SoloInv, DataInv
<1> QED
  BY <1>2, <1>5, <1>6

LEMMA SoloStep ==
  ASSUME IInv, SoloInv, [Next]_vars
  PROVE  SoloInv'
<1>1. TaskInv'
  BY TaskStep DEF SoloInv, IInv
<1>2. CASE UNCHANGED vars
  BY <1>1, <1>2 DEF vars, SoloInv, DataInv, Complete, SoloTestIsSilent
<1>3. ASSUME NEW id \in Tests \cup {MEMTEST_AUTO_CYCLE}, StartGroup(id) PROVE SoloInv'
  BY <1>1, <1>3, ConstantFacts DEF StartGroup, All, SoloInv, DataInv, SoloTestIsSilent
<1>4. CASE PostStop
  BY <1>1, <1>4 DEF PostStop, SoloInv, DataInv, Complete, SoloTestIsSilent
<1>5. CASE Terminate
  BY <1>1, <1>5, ConstantFacts DEF Terminate, NewSpes, All, SoloInv, DataInv, SoloTestIsSilent
<1>6. ASSUME NEW s \in Spes, SpeMain(s) PROVE SoloInv'
  <2>1. memtestId' = memtestId
    BY <1>6, StepKeepsGroup
  <2>2. CASE memtestId # MEMTEST_AUTO_CYCLE
    BY <1>1, <1>6, <2>2, DataKept DEF SoloInv
  <2>3. CASE memtestId = MEMTEST_AUTO_CYCLE
    BY <1>1, <2>1, <2>3 DEF SoloInv, DataInv, SoloTestIsSilent
  <2> QED
    BY <2>2, <2>3
<1>7. ASSUME NEW p \in puts, Land(p) PROVE SoloInv'
  <2>1. memtestId' = memtestId
    BY <1>7 DEF Land, ppuVars
  <2>2. CASE memtestId # MEMTEST_AUTO_CYCLE
    BY <1>1, <1>7, <2>2, LandingKeepsData DEF SoloInv
  <2>3. CASE memtestId = MEMTEST_AUTO_CYCLE
    BY <1>1, <2>1, <2>3 DEF SoloInv, DataInv, SoloTestIsSilent
  <2> QED
    BY <2>2, <2>3
<1> QED
  BY <1>2, <1>3, <1>4, <1>5, <1>6, <1>7 DEF Next

(* A single test selected with the cursor, cycled alone by every SPE       *)
(* through any number of stops, terminations and restarts, and whatever    *)
(* ran on the region before, never counts an error on memory that works;   *)
(* the coherency test only when its group was started over a torn flag.    *)
THEOREM SoloSilence == Spec => []SoloTestIsSilent
<1>1. Init => SoloInv
  BY DEF Init, All, SoloInv, TaskInv, DataInv, SoloTestIsSilent
<1>2. SoloInv => SoloTestIsSilent
  BY DEF SoloInv
<1>3. IInv /\ SoloInv /\ [Next]_vars => SoloInv'
  BY SoloStep
<1> QED
  BY Inductive, <1>1, <1>2, <1>3, PTL DEF Spec

-----------------------------------------------------------------------------
(* The end of a test.                                                      *)

(* TestLeft in the phase p with the loop index n.                          *)
Left(p, n) ==
  CASE p = "write"     -> (Blocks - n) + Blocks + 4
    [] p = "verify"    -> (Blocks - n) + 2
    [] p = "latget"    -> 2 * (Blocks - n) + 3
    [] p = "latput"    -> 2 * (Blocks - n) + 2
    [] p = "cwrite"    -> (Blocks - n) + PollLimit + 2
    [] p = "cwait"     -> (PollLimit - n) + 1
    [] p = "cpoll"     -> (PollLimit - n) + Blocks + 2
    [] p = "cverify"   -> (Blocks - n) + 2
    [] p \in {"answer", "private"} -> 2
    [] p \in {"params", "returning"} -> 1
    [] OTHER           -> 0

LEMMA LeftOf ==
  ASSUME NEW s \in Spes
  PROVE  TestLeft(s) = Left(pc[s], k[s]) /\ TestLeft(s)' = Left(pc'[s], k'[s])
  BY DEF TestLeft, Left

LEMMA LeftIs ==
  ASSUME NEW n
  PROVE  /\ Left("write", n) = (Blocks - n) + Blocks + 4
         /\ Left("verify", n) = (Blocks - n) + 2
         /\ Left("latget", n) = 2 * (Blocks - n) + 3
         /\ Left("latput", n) = 2 * (Blocks - n) + 2
         /\ Left("cwrite", n) = (Blocks - n) + PollLimit + 2
         /\ Left("cwait", n) = (PollLimit - n) + 1
         /\ Left("cpoll", n) = (PollLimit - n) + Blocks + 2
         /\ Left("cverify", n) = (Blocks - n) + 2
         /\ Left("answer", n) = 2 /\ Left("private", n) = 2
         /\ Left("params", n) = 1 /\ Left("returning", n) = 1
         /\ Left("next", n) = 0
  BY DEF Left

LEMMA TestGoesDown ==
  ASSUME TypeInv, IndexInv, NEW s \in Spes, pc[s] # "next", SpeMain(s)
  PROVE  TestLeft(s)' \in 0 .. TestLeft(s) - 1
<1>k. /\ k[s] \in Nat /\ k[s] <= Limit(pc[s])
      /\ Blocks \in Nat /\ Blocks > 0 /\ PollLimit \in Nat /\ PollLimit > 0
      /\ pc \in [Spes -> Phases] /\ k \in [Spes -> Nat]
  BY SizeAssumption DEF TypeInv, IndexInv
<1>l. /\ TestLeft(s) = Left(pc[s], k[s]) /\ TestLeft(s)' = Left(pc'[s], k'[s])
  BY LeftOf
<1>1. CASE GetParams(s)
  BY <1>1, <1>k, <1>l, LeftIs DEF GetParams
<1>2. CASE TestReturned(s)
  BY <1>2, <1>k, <1>l, LeftIs DEF TestReturned
<1>3. CASE StopInTest(s)
  <2>1. pc'[s] = "returning"
    BY <1>3, <1>k DEF StopInTest
  <2>2. pc[s] \in {"verify", "latget", "cwrite", "cwait", "cpoll", "cverify", "write", "private"}
    BY <1>3 DEF StopInTest, Polling
  <2> QED
    BY <1>k, <1>l, LeftIs, <2>1, <2>2 DEF Limit
<1>4. CASE AwaitReady(s)
  <2>1. pc[s] = "cpoll"
    BY <1>4 DEF AwaitReady, GoesOn
  <2>2. \/ k'[s] = k[s] + 1 /\ pc'[s] = "cpoll" /\ k[s] + 1 < PollLimit
        \/ k'[s] = 0 /\ pc'[s] \in {"cverify", "returning"}
    BY <1>4, <1>k, <2>1 DEF AwaitReady, Loop
  <2> QED
    BY <1>k, <1>l, LeftIs, <2>1, <2>2 DEF Limit
<1>5. CASE CoherencyVerify(s)
  <2>1. pc[s] = "cverify"
    BY <1>5 DEF CoherencyVerify, GoesOn
  <2>2. \/ k'[s] = k[s] + 1 /\ pc'[s] = "cverify" /\ k[s] + 1 < Blocks
        \/ k'[s] = 0 /\ pc'[s] \in {"answer", "returning"}
    BY <1>5, <1>k, <2>1 DEF CoherencyVerify, Loop
  <2> QED
    BY <1>k, <1>l, LeftIs, <2>1, <2>2 DEF Limit
<1>6. CASE Answer(s) \/ PrivateTest(s)
  <2>1. pc[s] \in {"answer", "private"}
    BY <1>6 DEF Answer, PrivateTest, GoesOn
  <2>2. pc'[s] = "returning"
    BY <1>6, <1>k DEF Answer, PrivateTest, Loop
  <2> QED
    BY <1>k, <1>l, LeftIs, <2>1, <2>2
<1>7. CASE s = 0 /\ PutChunk
  <2>1. pc[s] = "write" /\ pc'[s] = "write" /\ k[s] <= Blocks /\ k'[s] = k[s] + 1
    BY <1>7, <1>k DEF PutChunk, GoesOn, Put
  <2> QED
    BY <1>k, <1>l, LeftIs, <2>1 DEF Limit
<1>14. CASE s = 0 /\ ChunksWritten
  <2>1. /\ pc[s] = "write" /\ k[s] = Blocks + 1
        /\ pc'[s] \in {"verify", "returning"} /\ k'[s] = 0
    BY <1>14, <1>k DEF ChunksWritten, Loop
  <2> QED
    BY <1>k, <1>l, LeftIs, <2>1
<1>8. CASE s = 0 /\ VerifyBlock
  <2>1. pc[s] = "verify"
    BY <1>8 DEF VerifyBlock, GoesOn
  <2>2. \/ k'[s] = k[s] + 1 /\ pc'[s] = "verify" /\ k[s] < Blocks
        \/ k'[s] = 0 /\ pc'[s] = "returning"
    BY <1>8, <1>k, <2>1 DEF VerifyBlock, Loop
  <2> QED
    BY <1>k, <1>l, LeftIs, <2>1, <2>2 DEF Limit
<1>9. CASE s = 0 /\ LatencyGet
  <2>1. pc[s] = "latget" /\ pc'[s] = "latput" /\ k'[s] = k[s]
    BY <1>9, <1>k DEF LatencyGet, GoesOn
  <2> QED
    BY <1>k, <1>l, LeftIs, <2>1 DEF Limit
<1>10. CASE s = 0 /\ LatencyPut
  <2>1. pc[s] = "latput"
    BY <1>10 DEF LatencyPut
  <2>2. \/ k'[s] = k[s] + 1 /\ pc'[s] = "latget" /\ k[s] < Blocks
        \/ k'[s] = 0 /\ pc'[s] = "returning"
    BY <1>10, <1>k DEF LatencyPut
  <2> QED
    BY <1>k, <1>l, LeftIs, <2>1, <2>2 DEF Limit
<1>11. CASE s = 0 /\ CoherencyWrite
  <2>1. pc[s] = "cwrite" /\ pc'[s] = "cwrite" /\ k[s] < Blocks /\ k'[s] = k[s] + 1
    BY <1>11, <1>k DEF CoherencyWrite, GoesOn, Put
  <2> QED
    BY <1>k, <1>l, LeftIs, <2>1 DEF Limit
<1>12. CASE s = 0 /\ Publish
  <2>1. pc[s] = "cwrite" /\ k[s] = Blocks /\ pc'[s] = "cwait" /\ k'[s] = 0
    BY <1>12, <1>k DEF Publish, Loop
  <2>2. TestLeft(s) = (Blocks - Blocks) + PollLimit + 2
    BY <1>l, LeftIs, <2>1
  <2>3. TestLeft(s)' = (PollLimit - 0) + 1
    BY <1>l, LeftIs, <2>1
  <2> QED
    BY <1>k, <2>2, <2>3
<1>13. CASE s = 0 /\ AwaitDone
  <2>1. pc[s] = "cwait"
    BY <1>13 DEF AwaitDone, GoesOn
  <2>2. \/ k'[s] = k[s] + 1 /\ pc'[s] = "cwait" /\ k[s] + 1 < PollLimit
        \/ k'[s] = 0 /\ pc'[s] = "returning"
    BY <1>13, <1>k, <2>1 DEF AwaitDone, Loop
  <2> QED
    BY <1>k, <1>l, LeftIs, <2>1, <2>2 DEF Limit
<1> QED
  BY <1>1, <1>2, <1>3, <1>4, <1>5, <1>6, <1>7, <1>8, <1>9, <1>10, <1>11, <1>12, <1>13,
     <1>14 DEF SpeMain, StopBetweenTests, RunTest

(* No SPE stays in a test: whichever of its partners are missing, late or  *)
(* in another test, and whatever becomes of the stop word, the polls run   *)
(* out and the test returns, for every slice size and poll limit.          *)
THEOREM EveryTestReturns == Spec => TestsReturn
<1>1. ASSUME IInv, NEW s \in Spes, pc[s] # "next" /\ SpeMain(s)
      PROVE  TestLeft(s)' \in 0 .. TestLeft(s) - 1
  BY <1>1, TestGoesDown DEF IInv
<1>2. IInv => \A s \in Spes : pc[s] # "next" /\ SpeMain(s)
                              => TestLeft(s)' \in 0 .. TestLeft(s) - 1
  BY <1>1
<1> QED
  BY <1>2, Inductive, PTL DEF Spec, TestsReturn
=============================================================================
