----------------------------- MODULE FabricProofs ------------------------------
(***************************************************************************)
(* The mailbox benchmark's tokens, what the batches of the dma and the     *)
(* fabric page leave behind, and what their PMU histories hold, for every  *)
(* number of rounds, tokens and SPEs and every depth of a history; and the *)
(* SPE side of those batches, the ring of DmaRing, for every size, every   *)
(* number of transfers and every window that is a multiple of the chunk.   *)
(***************************************************************************)
EXTENDS FabricPages, DmaRing, FiniteSetTheorems, WellFoundedInduction, TLAPS

Rounds  == {"send", "receive"}
Cleanup == {"disconnect", "destroyQueue", "terminate", "destroyGroup"}

Token == completed % Tokens

(* Numbers keep their ranges while rounds are made.                        *)
Counted ==
  mbox \in Rounds => completed \in Nat /\ completed < Iterations

(* Where the token of the round is, and how often the SPE has answered.    *)
Round ==
  /\ mbox = "send" =>
       /\ val = Token /\ inMbox = <<>> /\ events = <<>>
       /\ spe.does = "read" /\ spe.n = completed
  /\ mbox = "receive" =>
       \/ /\ inMbox = <<Token>> /\ events = <<>>
          /\ spe.does = "read" /\ spe.n = completed
       \/ /\ inMbox = <<>> /\ events = <<>>
          /\ spe.does = "answer" /\ spe.v = Token /\ spe.n = completed
       \/ /\ inMbox = <<>> /\ events = <<Answer(Token)>>
          /\ spe.does = IF completed + 1 = Iterations THEN "returned" ELSE "read"
          /\ spe.n = completed + 1

(* The objects that exist are those that the flags say were made, less     *)
(* what the cleanup has gone past.                                         *)
Owned ==
  /\ mbox = "idle" => objects = {} /\ spe = NoThread
  /\ mbox \in Rounds => made = {"group", "queue", "port", "start"}
                        /\ objects = {"group", "queue", "port"}
  /\ mbox = "disconnect" => objects = made \ {"start"}
  /\ mbox = "destroyQueue" => objects = made \ {"start", "port"}
  /\ mbox \in {"terminate", "destroyGroup"} => objects = made \cap {"group"}
  /\ mbox \in {"disconnect", "destroyQueue", "terminate"} =>
       /\ spe # NoThread => "start" \in made
       /\ made \subseteq {"group", "queue", "port", "start"}
  /\ mbox = "destroyGroup" => spe = NoThread
  /\ mbox \in {"idle"} \cup Rounds \cup Cleanup

(* One batch at a time, and what a batch of FabricBatch holds.             *)
Alone ==
  /\ mbox # "idle" => fab = "idle"
  /\ fab \in {"idle", "created", "window", "join"}
  /\ fab # "join" => spes = {}
  /\ fab \in {"idle", "created"} => ~pmu.active
  /\ fab = "idle" => ~group

IInv == Counted /\ Round /\ Owned /\ Alone

-----------------------------------------------------------------------------
(* The quotient is unique.                                                 *)
LEMMA ModUnique ==
  ASSUME NEW n \in Nat \ {0}, NEW q \in Int, NEW r \in 0 .. n - 1
  PROVE  (n * q + r) % n = r
  <1> DEFINE a == n * q + r
             k == (a \div n) - q
  <1>1. a \in Int /\ k \in Int
    OBVIOUS
  <1>2. a = n * (a \div n) + (a % n) /\ a % n \in 0 .. n - 1
    OBVIOUS
  <1>3. n * k = r - (a % n)
    BY <1>1, <1>2
  <1>4. CASE k >= 1
    <2>1. n * k >= n
      BY <1>1, <1>4
    <2> QED
      BY <1>2, <1>3, <2>1
  <1>5. CASE k <= -1
    <2>1. n * k <= -n
      BY <1>1, <1>5
    <2> QED
      BY <1>2, <1>3, <2>1
  <1>6. CASE k = 0
    BY <1>2, <1>3, <1>6
  <1> QED
    BY <1>1, <1>4, <1>5, <1>6

(* The token of the next round: the answer, masked once more.              *)
LEMMA NextToken ==
  ASSUME NEW c \in Nat, NEW n \in Nat \ {0, 1}
  PROVE  (((c % n) + 1) % n) % n = (c + 1) % n
  <1> DEFINE q == c \div n
             r == c % n
  <1>1. c = n * q + r /\ r \in 0 .. n - 1 /\ q \in Int
    OBVIOUS
  <1>2. CASE r + 1 < n
    <2>1. r + 1 \in 0 .. n - 1 /\ c + 1 = n * q + (r + 1)
      BY <1>1, <1>2
    <2>2. (c + 1) % n = r + 1
      BY <1>1, <2>1, ModUnique
    <2>3. (r + 1) % n = r + 1
      BY <2>1
    <2> QED
      BY <2>2, <2>3
  <1>3. CASE r + 1 = n
    <2>1. c + 1 = n * (q + 1) + 0 /\ q + 1 \in Int /\ 0 \in 0 .. n - 1
      BY <1>1, <1>3
    <2>2. (c + 1) % n = 0
      BY <2>1, ModUnique
    <2>3. (r + 1) % n = 0 /\ 0 % n = 0
      BY <1>3
    <2> QED
      BY <2>2, <2>3
  <1> QED
    BY <1>1, <1>2, <1>3

-----------------------------------------------------------------------------
(* The invariant holds at first.                                           *)
LEMMA Initially == Init => IInv
  BY MailboxAssumption
     DEF Init, MailboxInit, FabricInit, IInv, Counted, Round, Owned, Alone, Rounds, NoThread, Closed

(* A step of the batches leaves the mailbox alone.                         *)
LEMMA FabricStep ==
  ASSUME IInv, UNCHANGED mailbox,
         \/ \E b \in Batches : BetweenTicks /\ (NotCreated(b[1], b[2]) \/ Create(b[1], b[2]))
         \/ Batch
         \/ \E i \in SPEs : SpeReturns(i)
         \/ UNCHANGED fabric
  PROVE  IInv'
  <1>1. Counted' /\ Round' /\ Owned'
    BY DEF IInv, Counted, Round, Owned, Token, Rounds, Cleanup, NoThread, Answer, mailbox
  <1>2. mbox' = mbox
    BY DEF mailbox
  <1>3. ASSUME NEW s, Return(s), UNCHANGED spes, spes = {}, ~pmu'.active, mbox = "idle" PROVE Alone'
    BY <1>2, <1>3 DEF Return, Alone
  <1>4. CASE \E b \in Batches : BetweenTicks /\ (NotCreated(b[1], b[2]) \/ Create(b[1], b[2]))
    <2>1. PICK b \in Batches : BetweenTicks /\ (NotCreated(b[1], b[2]) \/ Create(b[1], b[2]))
      BY <1>4
    <2>2. CASE NotCreated(b[1], b[2])
      BY <1>1, <2>1, <2>2, <1>3 DEF NotCreated, BetweenTicks, IInv, Alone
    <2>3. CASE Create(b[1], b[2])
      BY <1>1, <2>1, <2>3, <1>2 DEF Create, BetweenTicks, IInv, Alone
    <2> QED
      BY <2>1, <2>2, <2>3
  <1>5. CASE Batch
    <2>1. CASE ThreadFails
      BY <1>1, <2>1, <1>3 DEF ThreadFails, IInv, Alone
    <2>2. ASSUME NEW opened \in BOOLEAN, BeginWindow(opened) PROVE Alone'
      BY <2>2, <1>2 DEF BeginWindow, IInv, Alone
    <2>3. CASE StartFails
      BY <1>1, <2>3, <1>3 DEF StartFails, Closed, IInv, Alone
    <2>4. CASE Start
      BY <1>1, <2>4, <1>2 DEF Start, IInv, Alone
    <2>5. CASE JoinFails
      BY <1>1, <2>5, <1>3 DEF JoinFails, Closed, IInv, Alone
    <2>6. ASSUME NEW readable \in BOOLEAN, Join(readable) PROVE Alone'
      BY <2>6, <1>3 DEF Join, Closed, IInv, Alone
    <2> QED
      BY <1>5, <1>1, <2>1, <2>2, <2>3, <2>4, <2>5, <2>6 DEF Batch, IInv
  <1>6. ASSUME NEW i \in SPEs, SpeReturns(i) PROVE Alone'
    BY <1>6, <1>2 DEF SpeReturns, IInv, Alone
  <1>7. CASE UNCHANGED fabric
    BY <1>1, <1>7, <1>2 DEF fabric, IInv, Alone
  <1> QED
    BY <1>1, <1>4, <1>5, <1>6, <1>7 DEF IInv

(* A step of the mailbox benchmark or its SPE.                             *)
LEMMA MailboxStep ==
  ASSUME IInv, UNCHANGED fabric,
         \/ /\ BetweenTicks
            /\ \E failed \in {"none"} \cup {SetupCalls[k] : k \in DOMAIN SetupCalls} : Setup(failed)
         \/ Ppu \/ Spe
  PROVE  IInv'
  <1> USE DEF IInv
  <1>0. fab' = fab /\ spes' = spes /\ pmu' = pmu /\ group' = group
    BY DEF fabric
  <1>a. ASSUME fab = "idle" PROVE Alone'
    BY <1>0, <1>a DEF Alone
  <1>b. ASSUME mbox' \notin Rounds PROVE Counted' /\ Round'
    BY <1>b DEF Counted, Round, Rounds
  <1>1. ASSUME BetweenTicks,
               NEW failed \in {"none"} \cup {SetupCalls[k] : k \in DOMAIN SetupCalls},
               Setup(failed)
        PROVE  IInv'
    <2>1. fab = "idle"
      BY <1>1 DEF BetweenTicks
    <2>2. CASE failed = "none"
      <3>1. Before(failed) = {"image", "group", "thread", "queue", "port", "start"}
        BY <2>2 DEF Before, SetupCalls
      <3>2. /\ made' = {"group", "queue", "port", "start"} /\ objects' = {"group", "queue", "port"}
            /\ spe' = [does |-> "read", v |-> 0, n |-> 0] /\ mbox' = "send"
            /\ inMbox' = <<>> /\ events' = <<>> /\ val' = 0 /\ completed' = 0
        BY <1>1, <2>2, <3>1 DEF Setup
      <3>3. 0 % Tokens = 0
        BY MailboxAssumption
      <3> QED
        BY <2>1, <1>a, <3>2, <3>3, MailboxAssumption DEF Counted, Round, Owned, Token, Rounds, Cleanup
    <2>3. CASE failed \in {"image", "group"}
      <3>1. Before(failed) \cap {"group", "queue", "port"} = {}
        BY <2>3 DEF Before, SetupCalls
      <3>2. objects' = {} /\ spe' = NoThread /\ mbox' = "idle"
        BY <1>1, <2>3, <3>1 DEF Setup
      <3> QED
        BY <2>1, <1>a, <1>b, <3>2 DEF Owned, Rounds
    <2>4. CASE failed \notin {"none", "image", "group"}
      <3>1. /\ made' = Before(failed) \cap {"group", "queue", "port", "start"}
            /\ objects' = Before(failed) \cap {"group", "queue", "port"}
            /\ spe' = NoThread /\ mbox' = "disconnect"
        BY <1>1, <2>4 DEF Setup
      <3> QED
        BY <2>1, <1>a, <1>b, <3>1 DEF Owned, Rounds, Cleanup
    <2> QED
      BY <2>2, <2>3, <2>4
  <1>2. CASE Send
    <2>1. fab = "idle"
      BY <1>2 DEF Send, Alone
    <2>2. CASE mbox' = "receive"
      <3>1. inMbox' = <<Token>>
        BY <1>2, <2>2 DEF Send, Round
      <3> QED
        BY <1>2, <2>1, <2>2, <1>a, <3>1 DEF Send, Counted, Round, Owned, Token, Rounds, Cleanup
    <2>3. CASE mbox' = "disconnect"
      BY <1>2, <2>1, <2>3, <1>a, <1>b DEF Send, Owned, Rounds, Cleanup
    <2> QED
      BY <1>2, <2>2, <2>3 DEF Send
  <1>3. CASE Receive
    <2>1. fab = "idle" /\ mbox = "receive" /\ completed \in Nat /\ completed < Iterations
      BY <1>3 DEF Receive, Alone, Counted, Rounds
    <2>2. events = <<Answer(Token)>> /\ inMbox = <<>> /\ spe.n = completed + 1
          /\ spe.does = IF completed + 1 = Iterations THEN "returned" ELSE "read"
      BY <1>3 DEF Receive, Round
    <2>3. /\ val' = Answer(Token) % Tokens /\ events' = <<>> /\ completed' = completed + 1
          /\ mbox' = IF completed + 1 = Iterations THEN "disconnect" ELSE "send"
          /\ UNCHANGED <<made, objects, spe, inMbox>>
      BY <1>3, <2>2 DEF Receive
    <2>4. CASE completed + 1 = Iterations
      BY <2>1, <2>3, <2>4, <1>a, <1>b DEF Owned, Rounds, Cleanup
    <2>5. CASE completed + 1 # Iterations
      <3>1. val' = Token'
        BY <2>1, <2>3, NextToken, MailboxAssumption DEF Token, Answer
      <3>2. completed' \in Nat /\ completed' < Iterations
        BY <2>1, <2>3, <2>5, MailboxAssumption
      <3> QED
        BY <2>1, <2>2, <2>3, <2>5, <3>1, <3>2, <1>a DEF Counted, Round, Owned, Rounds, Cleanup
    <2> QED
      BY <2>4, <2>5
  <1>4. CASE Timeout
    BY <1>4, <1>a, <1>b DEF Timeout, Owned, Rounds, Cleanup, Alone
  <1>5. CASE Disconnect
    BY <1>5, <1>a, <1>b DEF Disconnect, Owned, Rounds, Cleanup, Alone
  <1>6. CASE DestroyQueue
    BY <1>6, <1>a, <1>b DEF DestroyQueue, Owned, Rounds, Cleanup, Alone
  <1>7. CASE Terminate
    BY <1>7, <1>a, <1>b DEF Terminate, Owned, Rounds, Cleanup, Alone
  <1>8. CASE DestroyGroup
    BY <1>8, <1>a, <1>b DEF DestroyGroup, Owned, Rounds, Cleanup, Alone, NoThread
  <1>9. CASE SpeRead
    <2>1. Alone'
      BY <1>0, <1>9 DEF SpeRead, Alone
    <2>2. Counted' /\ Owned'
      BY <1>9 DEF SpeRead, Counted, Owned, Rounds, Cleanup, NoThread
    <2>3. Round'
      <3>1. CASE mbox = "receive"
        <4>1. inMbox = <<Token>> /\ events = <<>> /\ spe.does = "read" /\ spe.n = completed
          BY <1>9, <3>1 DEF SpeRead, Round
        <4>2. spe'.does = "answer" /\ spe'.v = Token /\ spe'.n = completed
          BY <1>9, <4>1 DEF SpeRead
        <4> QED
          BY <1>9, <3>1, <4>1, <4>2 DEF SpeRead, Round, Token
      <3>2. CASE mbox # "receive"
        BY <1>9, <3>2 DEF SpeRead, Round
      <3> QED
        BY <3>1, <3>2
    <2> QED
      BY <2>1, <2>2, <2>3
  <1>10. CASE SpeAnswer
    <2>1. Alone'
      BY <1>0, <1>10 DEF SpeAnswer, Alone
    <2>2. Counted' /\ Owned'
      BY <1>10 DEF SpeAnswer, Counted, Owned, Rounds, Cleanup, NoThread
    <2>3. Round'
      <3>1. CASE mbox = "receive"
        <4>1. inMbox = <<>> /\ events = <<>> /\ spe.v = Token /\ spe.n = completed
          BY <1>10, <3>1 DEF SpeAnswer, Round
        <4>2. objects = {"group", "queue", "port"}
          BY <3>1 DEF Owned, Rounds
        <4>3. events' = <<Answer(Token)>> /\ inMbox' = <<>> /\ mbox' = mbox /\ completed' = completed
          BY <1>10, <4>1, <4>2 DEF SpeAnswer
        <4>4. spe'.n = completed + 1
              /\ spe'.does = IF completed + 1 = Iterations THEN "returned" ELSE "read"
          BY <1>10, <4>1 DEF SpeAnswer
        <4> QED
          BY <3>1, <4>3, <4>4 DEF Round, Token
      <3>2. CASE mbox # "receive"
        BY <1>10, <3>2 DEF SpeAnswer, Round
      <3> QED
        BY <3>1, <3>2
    <2> QED
      BY <2>1, <2>2, <2>3
  <1> QED
    BY <1>1, <1>2, <1>3, <1>4, <1>5, <1>6, <1>7, <1>8, <1>9, <1>10 DEF Ppu, Spe

(* The inductive invariant.                                                *)
LEMMA Inductive == Spec => []IInv
  <1>1. IInv /\ [Next]_allVars => IInv'
    <2> SUFFICES ASSUME IInv, [Next]_allVars PROVE IInv'
      OBVIOUS
    <2>1. CASE FabricTick
      BY <2>1, FabricStep DEF FabricTick
    <2>2. CASE MboxTick
      BY <2>2, MailboxStep DEF MboxTick
    <2>3. CASE OtherTick \/ UNCHANGED allVars
      BY <2>3, FabricStep DEF OtherTick, allVars
    <2>4. CASE MainThread
      BY <2>4, FabricStep, MailboxStep DEF MainThread
    <2>5. CASE FabricSpe
      BY <2>5, FabricStep DEF FabricSpe
    <2>6. CASE MailboxSpe
      BY <2>6, MailboxStep DEF MailboxSpe
    <2> QED
      BY <2>1, <2>2, <2>3, <2>4, <2>5, <2>6 DEF Next
  <1> QED
    BY Initially, <1>1, PTL DEF Spec

(* mbox_benchmark_run never takes an answer of an earlier round or batch   *)
(* for the present one, for every number of rounds and tokens.             *)
THEOREM TokensStayMatched == Spec => []TokensMatch
  <1>1. IInv => TokensMatch
    BY DEF IInv, Round, Token, TokensMatch
  <1> QED
    BY <1>1, Inductive, PTL

(* Whichever calls of the three benchmarks fail, nothing of a batch is     *)
(* left when the main loop takes input again.                              *)
THEOREM BatchesLeaveNothing == Spec => []NothingLeftBehind
  <1>1. IInv => NothingLeftBehind
    BY DEF IInv, Owned, Alone, NothingLeftBehind, MailboxClean, FabricClean
  <1> QED
    BY <1>1, Inductive, PTL
-----------------------------------------------------------------------------
(* The ring of a PMU history against the list of its last samples: the     *)
(* slot of the j-th is counted from head once the ring is full.            *)
Depth == PMU_HISTORY_DEPTH

SlotOf(h, j) ==
  IF h.filled < Depth THEN j - 1
  ELSE IF h.head + j - 1 < Depth THEN h.head + j - 1 ELSE h.head + j - 1 - Depth

SamplesOf(key) == [key : {key}, n : Nat]

Rings(key) ==
  [key : {key}, head : 0 .. Depth - 1, filled : 0 .. Depth,
   samples : [0 .. Depth - 1 -> [key : {key, -1}, n : Nat]]]

Held(h, r) ==
  /\ h \in Rings(h.key)
  /\ r \in Seq(SamplesOf(h.key)) /\ Len(r) = h.filled
  /\ h.filled < Depth => h.head = h.filled
  /\ \A j \in 1 .. Len(r) : r[j] = h.samples[SlotOf(h, j)]

(* A new key starts with an empty ring.                                    *)
LEMMA EmptiedHeld == ASSUME NEW key PROVE Held(Emptied(key), <<>>)
  <1>1. Emptied(key).key = key /\ Emptied(key).filled = 0 /\ Emptied(key).head = 0
    BY DEF Emptied
  <1>2. Emptied(key) \in Rings(key)
    BY FabricAssumption DEF Emptied, Rings, NoSample, Depth
  <1>3. <<>> \in Seq(SamplesOf(key)) /\ Len(<<>>) = 0
    OBVIOUS
  <1> QED
    BY <1>1, <1>2, <1>3 DEF Held

(* The index after c in a ring of n slots.                                 *)
LEMMA SlotAfter ==
  ASSUME NEW n \in Nat \ {0}, NEW c \in 0 .. n - 1
  PROVE  (c + 1) % n = IF c + 1 < n THEN c + 1 ELSE 0
  <1>1. CASE c + 1 < n
    <2>1. c + 1 \in 0 .. n - 1 /\ n * 0 + (c + 1) = c + 1
      BY <1>1
    <2> QED
      BY <1>1, <2>1, ModUnique
  <1>2. CASE c + 1 = n
    <2>1. 0 \in 0 .. n - 1 /\ n * 1 + 0 = c + 1
      BY <1>2
    <2> QED
      BY <1>2, <2>1, ModUnique
  <1> QED
    BY <1>1, <1>2

(* A push keeps the ring and the list together, also when the oldest       *)
(* sample is overwritten.                                                  *)
LEMMA PushHeld ==
  ASSUME NEW h, NEW r, Held(h, r), NEW x \in SamplesOf(h.key)
  PROVE  Held(pmu_history_push(h, x), LastOf(Append(r, x)))
                /\ pmu_history_push(h, x).key = h.key
  <1> DEFINE g == pmu_history_push(h, x)
             a == Append(r, x)
  <1>d. Depth \in Nat /\ Depth >= 1
    BY FabricAssumption DEF Depth
  <1>1. /\ h \in Rings(h.key) /\ h.head \in 0 .. Depth - 1 /\ h.filled \in 0 .. Depth
        /\ h.samples \in [0 .. Depth - 1 -> [key : {h.key, -1}, n : Nat]]
        /\ r \in Seq(SamplesOf(h.key)) /\ Len(r) = h.filled
        /\ h.filled < Depth => h.head = h.filled
    BY DEF Held, Rings
  <1>2. /\ g.key = h.key
        /\ g.head = (h.head + 1) % Depth
        /\ g.filled = IF h.filled < Depth THEN h.filled + 1 ELSE h.filled
        /\ g.samples = [h.samples EXCEPT ![h.head] = x]
    BY <1>1 DEF pmu_history_push, Depth, Rings
  <1>a. h.head \in 0 .. Depth - 1 /\ h.filled \in 0 .. Depth
    BY <1>1
  <1>3. g.head = IF h.head + 1 < Depth THEN h.head + 1 ELSE 0
    BY <1>d, <1>a, <1>2, SlotAfter
  <1>4. x \in [key : {h.key, -1}, n : Nat]
    BY DEF SamplesOf
  <1>5. g \in Rings(g.key)
    <2>1. g.samples \in [0 .. Depth - 1 -> [key : {h.key, -1}, n : Nat]]
      BY <1>1, <1>2, <1>4
    <2>2. g.head \in 0 .. Depth - 1 /\ g.filled \in 0 .. Depth
      BY <1>d, <1>1, <1>2, <1>3
    <2>3. g = [h EXCEPT !.samples = g.samples, !.head = g.head, !.filled = g.filled]
      BY <1>1, <1>2 DEF pmu_history_push, Depth
    <2> HIDE DEF g
    <2>4. g \in Rings(h.key)
      BY <1>1, <2>1, <2>2, <2>3 DEF Rings
    <2> QED
      BY <2>4, <1>2
  <1>6. /\ a \in Seq(SamplesOf(h.key)) /\ Len(a) = Len(r) + 1
        /\ \A j \in 1 .. Len(r) : a[j] = r[j]
        /\ a[Len(r) + 1] = x
    BY <1>1
  <1>7. \A j \in 1 .. Len(r) : r[j] = h.samples[SlotOf(h, j)]
    BY DEF Held
  <1>t. Len(r) > 0 => /\ Tail(a) \in Seq(SamplesOf(h.key)) /\ Len(Tail(a)) = Len(r)
                      /\ \A j \in 1 .. Len(r) : Tail(a)[j] = a[j + 1]
    <2> HIDE DEF a
    <2>1. a \in Seq(SamplesOf(h.key)) /\ Len(a) = Len(r) + 1 /\ Len(r) \in Nat
      BY <1>1, <1>6
    <2>2. a # <<>>
      BY <2>1
    <2> QED
      BY <2>1, <2>2
  <1>8. \A i \in 0 .. Depth - 1 : g.samples[i] = IF i = h.head THEN x ELSE h.samples[i]
    BY <1>1, <1>2
  <1> HIDE DEF g, a
  <1>9. CASE h.filled < Depth
    <2>1. LastOf(a) = a
      BY <1>1, <1>6, <1>9, <1>d DEF LastOf, Depth
    <2>2. ASSUME NEW j \in 1 .. Len(a) PROVE a[j] = g.samples[j - 1]
      <3>1. CASE j = Len(r) + 1
        BY <1>1, <1>6, <1>8, <1>9, <3>1
      <3>2. CASE j \in 1 .. Len(r)
        <4>1. SlotOf(h, j) = j - 1 /\ j - 1 \in 0 .. Depth - 1 /\ j - 1 # h.head
          BY <1>d, <1>1, <1>a, <1>9, <3>2 DEF SlotOf
        <4> QED
          BY <1>6, <1>7, <1>8, <3>2, <4>1
      <3> QED
        BY <1>1, <1>6, <3>1, <3>2
    <2>3. ASSUME NEW j \in 1 .. Len(a) PROVE SlotOf(g, j) = j - 1
      BY <1>d, <1>1, <1>2, <1>3, <1>6, <1>9 DEF SlotOf
    <2>4. Len(a) = g.filled /\ (g.filled < Depth => g.head = g.filled)
      BY <1>d, <1>1, <1>2, <1>3, <1>6, <1>9
    <2>5. a \in Seq(SamplesOf(g.key))
      BY <1>2, <1>6
    <2>6. \A j \in 1 .. Len(a) : a[j] = g.samples[SlotOf(g, j)]
      BY <2>2, <2>3
    <2>7. Held(g, a)
      BY <1>5, <2>4, <2>5, <2>6 DEF Held
    <2> QED
      BY <1>2, <2>1, <2>7 DEF g, a
  <1>10. CASE h.filled = Depth
    <2>1. LastOf(a) = Tail(a)
      BY <1>1, <1>6, <1>10, <1>d DEF LastOf, Depth
    <2>2. /\ Tail(a) \in Seq(SamplesOf(h.key)) /\ Len(Tail(a)) = Depth
          /\ \A j \in 1 .. Depth : Tail(a)[j] = a[j + 1]
      BY <1>1, <1>t, <1>10, <1>d
    <2>3. g.filled = Depth
      BY <1>2, <1>10, <1>d
    <2>4. ASSUME NEW j \in 1 .. Depth PROVE Tail(a)[j] = g.samples[SlotOf(g, j)]
      <3>1. CASE j = Depth
        <4>1. SlotOf(g, j) = h.head
          BY <1>d, <1>a, <1>3, <2>3, <3>1 DEF SlotOf
        <4> QED
          BY <1>1, <1>6, <1>8, <1>10, <2>2, <3>1, <4>1
      <3>2. CASE j < Depth
        <4>1. j + 1 \in 1 .. Len(r)
          BY <1>1, <1>10, <1>d, <3>2
        <4>2. /\ SlotOf(g, j) = SlotOf(h, j + 1)
              /\ SlotOf(g, j) # h.head /\ SlotOf(g, j) \in 0 .. Depth - 1
          BY <1>d, <1>a, <1>3, <1>10, <2>3, <3>2 DEF SlotOf
        <4>3. Tail(a)[j] = a[j + 1] /\ a[j + 1] = r[j + 1]
          BY <1>6, <2>2, <4>1
        <4>4. r[j + 1] = h.samples[SlotOf(h, j + 1)]
          BY <1>7, <4>1
        <4>5. g.samples[SlotOf(g, j)] = h.samples[SlotOf(g, j)]
          BY <1>8, <4>2
        <4> QED
          BY <4>2, <4>3, <4>4, <4>5
      <3>3. j = Depth \/ j < Depth
        BY <1>d
      <3> QED
        BY <3>1, <3>2, <3>3
    <2>5. Tail(a) \in Seq(SamplesOf(g.key)) /\ Len(Tail(a)) = g.filled
      BY <1>2, <2>2, <2>3
    <2>6. \A j \in 1 .. Len(Tail(a)) : Tail(a)[j] = g.samples[SlotOf(g, j)]
      BY <2>2, <2>4
    <2>7. ~(g.filled < Depth)
      BY <1>d, <2>3
    <2>8. Held(g, Tail(a))
      BY <1>5, <2>5, <2>6, <2>7 DEF Held
    <2> QED
      BY <1>2, <2>1, <2>8 DEF g, a
  <1> QED
    BY <1>1, <1>2, <1>9, <1>10, <1>d

(* What the summary sorts are the samples of the list.                     *)
LEMMA HeldSummary ==
  ASSUME NEW h, NEW r, Held(h, r)
  PROVE  /\ Summarised(h) = {r[j] : j \in DOMAIN r}
         /\ \A x \in Summarised(h) : x.key = h.key
  <1>d. Depth \in Nat /\ Depth >= 1
    BY FabricAssumption DEF Depth
  <1>1. /\ h.head \in 0 .. Depth - 1 /\ h.filled \in 0 .. Depth
        /\ r \in Seq(SamplesOf(h.key)) /\ Len(r) = h.filled /\ DOMAIN r = 1 .. h.filled
        /\ \A j \in 1 .. h.filled : r[j] = h.samples[SlotOf(h, j)]
    BY DEF Held, Rings
  <1>a. h.head \in 0 .. Depth - 1 /\ h.filled \in 0 .. Depth
    BY <1>1
  <1>2. ASSUME NEW j \in 1 .. h.filled PROVE SlotOf(h, j) \in 0 .. h.filled - 1
    BY <1>d, <1>a DEF SlotOf
  <1>3. ASSUME NEW i \in 0 .. h.filled - 1
        PROVE  \E j \in 1 .. h.filled : SlotOf(h, j) = i
    <2>1. CASE h.filled < Depth
      <3>1. i + 1 \in 1 .. h.filled /\ SlotOf(h, i + 1) = i
        BY <1>a, <2>1 DEF SlotOf
      <3> QED
        BY <3>1
    <2>2. CASE h.filled = Depth /\ i >= h.head
      <3>1. i - h.head + 1 \in 1 .. h.filled /\ SlotOf(h, i - h.head + 1) = i
        BY <1>d, <1>a, <2>2 DEF SlotOf
      <3> QED
        BY <3>1
    <2>3. CASE h.filled = Depth /\ i < h.head
      <3>1. /\ i - h.head + 1 + Depth \in 1 .. h.filled
            /\ SlotOf(h, i - h.head + 1 + Depth) = i
        BY <1>d, <1>a, <2>3 DEF SlotOf
      <3> QED
        BY <3>1
    <2> QED
      BY <1>d, <1>a, <2>1, <2>2, <2>3
  <1>4. Summarised(h) = {r[j] : j \in DOMAIN r}
    <2>1. ASSUME NEW y \in Summarised(h) PROVE y \in {r[j] : j \in DOMAIN r}
      <3>1. PICK i \in 0 .. h.filled - 1 : y = h.samples[i]
        BY DEF Summarised
      <3>2. PICK j \in 1 .. h.filled : SlotOf(h, j) = i
        BY <1>3
      <3> QED
        BY <1>1, <3>1, <3>2
    <2>2. ASSUME NEW y \in {r[j] : j \in DOMAIN r} PROVE y \in Summarised(h)
      BY <1>1, <1>2 DEF Summarised
    <2> QED
      BY <2>1, <2>2
  <1>5. ASSUME NEW j \in DOMAIN r PROVE r[j].key = h.key
    <2>1. r[j] \in SamplesOf(h.key)
      BY <1>1
    <2> QED
      BY <2>1 DEF SamplesOf
  <1> QED
    BY <1>4, <1>5

-----------------------------------------------------------------------------
(* The window of a batch observes its workload, and the ring of each page  *)
(* is held by the list of its last samples.                                *)
Observed ==
  /\ fab # "idle" => work.page \in Pages
  /\ pmu.active => pmu.observes = work.key

HistoriesHeld ==
  /\ history = [p \in Pages |-> history[p]]
  /\ recent = [p \in Pages |-> recent[p]]
  /\ \A p \in Pages : Held(history[p], recent[p])

HInv == Observed /\ HistoriesHeld

(* The batch that ends with a sample.                                      *)
LEMMA PushKeepsHistories ==
  ASSUME HInv, fab # "idle", pmu.active, Push
  PROVE  HistoriesHeld'
  <1> DEFINE p == work.page
             k == work.key
             new == history[p].key # k
             h == IF new THEN Emptied(k) ELSE history[p]
             old == IF new THEN <<>> ELSE recent[p]
             x == Sample(old)
  <1>1. p \in Pages /\ pmu.observes = k
    BY DEF HInv, Observed
  <1>2. Held(h, old) /\ h.key = k
    BY <1>1, EmptiedHeld DEF HInv, HistoriesHeld, Emptied
  <1>3. x \in SamplesOf(h.key)
    <2>d. PMU_HISTORY_DEPTH + 1 \in Nat \ {0}
      BY FabricAssumption
    <2>1. CASE old = <<>>
      BY <1>1, <1>2, <2>1 DEF Sample, SamplesOf
    <2>2. CASE old # <<>>
      <3>1. old \in Seq(SamplesOf(k))
        BY <1>2 DEF Held
      <3>2. Last(old) \in SamplesOf(k)
        BY <2>2, <3>1 DEF Last
      <3>3. Last(old).n + 1 \in Nat
        BY <3>2 DEF SamplesOf
      <3>4. (Last(old).n + 1) % (PMU_HISTORY_DEPTH + 1) \in Nat
        BY <2>d, <3>3
      <3> QED
        BY <1>1, <1>2, <2>2, <3>4 DEF Sample, SamplesOf
    <2> QED
      BY <2>1, <2>2
  <1>4. Held(pmu_history_push(h, x), LastOf(Append(old, x)))
    BY <1>2, <1>3, PushHeld
  <1>5. /\ history' = [history EXCEPT ![p] = pmu_history_push(h, x)]
        /\ recent' = [recent EXCEPT ![p] = LastOf(Append(old, x))]
    BY DEF Push
  <1> HIDE DEF h, old, x
  <1>6. history = [q \in Pages |-> history[q]] /\ recent = [q \in Pages |-> recent[q]]
    BY DEF HInv, HistoriesHeld
  <1>7. ASSUME NEW q \in Pages PROVE Held(history'[q], recent'[q])
    <2>1. CASE q = p
      <3>1. history'[q] = pmu_history_push(h, x) /\ recent'[q] = LastOf(Append(old, x))
        BY <1>1, <1>5, <1>6, <2>1
      <3> QED
        BY <1>4, <3>1
    <2>2. CASE q # p
      <3>1. history'[q] = history[q] /\ recent'[q] = recent[q]
        BY <1>1, <1>5, <1>6, <2>2
      <3> QED
        BY <3>1 DEF HInv, HistoriesHeld
    <2> QED
      BY <2>1, <2>2
  <1>8. history' = [q \in Pages |-> history'[q]] /\ recent' = [q \in Pages |-> recent'[q]]
    BY <1>5, <1>6
  <1> QED
    BY <1>7, <1>8 DEF HistoriesHeld

(* A batch is about one of the two pages.                                  *)
LEMMA WorkHasPage ==
  ASSUME NEW b \in Batches PROVE b[1].page \in Pages
  <1>1. \A d, c : DmaWork(d, c).page = "dma"
    BY DEF DmaWork
  <1>2. \A m, a : EibWork(m, a).page = "eib"
    BY DEF EibWork
  <1>3. \A q : NxnWork(q).page = "eib"
    BY DEF NxnWork
  <1> QED
    BY <1>1, <1>2, <1>3 DEF Batches, Pages

(* Every step keeps the window and the histories.                          *)
LEMMA HistoryStep ==
  ASSUME IInv, HInv, [Next]_allVars
  PROVE  HInv'
  <1>1. ASSUME UNCHANGED <<history, recent>> PROVE HistoriesHeld'
    BY <1>1 DEF HInv, HistoriesHeld
  <1>2. ASSUME NEW s, Return(s), ~pmu'.active PROVE Observed'
    BY <1>2 DEF Return, Observed
  <1>3. CASE FabricTick
    <2>1. PICK b \in Batches : NotCreated(b[1], b[2]) \/ Create(b[1], b[2])
      BY <1>3 DEF FabricTick
    <2>2. b[1].page \in Pages
      BY WorkHasPage
    <2>3. fab = "idle" /\ ~pmu.active
      BY <1>3 DEF FabricTick, BetweenTicks, IInv, Alone
    <2>4. CASE NotCreated(b[1], b[2])
      BY <1>1, <1>2, <2>3, <2>4 DEF NotCreated, HInv
    <2>5. CASE Create(b[1], b[2])
      BY <1>1, <2>2, <2>3, <2>5 DEF Create, HInv, Observed
    <2> QED
      BY <2>1, <2>4, <2>5
  <1>4. CASE Batch
    <2>1. CASE ThreadFails
      BY <1>1, <1>2, <2>1 DEF ThreadFails, HInv, IInv, Alone
    <2>2. ASSUME NEW opened \in BOOLEAN, BeginWindow(opened) PROVE HInv'
      BY <1>1, <2>2 DEF BeginWindow, HInv, Observed
    <2>3. CASE StartFails
      BY <1>1, <1>2, <2>3 DEF StartFails, HInv, Closed
    <2>4. CASE Start
      BY <1>1, <2>4 DEF Start, HInv, Observed
    <2>5. CASE JoinFails
      BY <1>1, <1>2, <2>5 DEF JoinFails, HInv, Closed
    <2>6. ASSUME NEW readable \in BOOLEAN, Join(readable) PROVE HInv'
      <3>1. Observed'
        BY <1>2, <2>6 DEF Join, Closed
      <3>2. CASE pmu.active /\ readable
        BY <2>6, <3>1, <3>2, PushKeepsHistories DEF Join, HInv
      <3>3. CASE ~(pmu.active /\ readable)
        BY <1>1, <2>6, <3>1, <3>3 DEF Join, HInv
      <3> QED
        BY <3>2, <3>3
    <2> QED
      BY <1>4, <2>1, <2>2, <2>3, <2>4, <2>5, <2>6 DEF Batch
  <1>5. ASSUME NEW i \in SPEs, SpeReturns(i) PROVE HInv'
    BY <1>1, <1>5 DEF SpeReturns, HInv, Observed
  <1>6. CASE UNCHANGED fabric
    BY <1>1, <1>6 DEF fabric, HInv, Observed
  <1> QED
    BY <1>3, <1>4, <1>5, <1>6
       DEF Next, MboxTick, OtherTick, MainThread, FabricSpe, MailboxSpe, allVars

LEMMA HInitially == Init => HInv
  <1>1. \A k : Held(Emptied(k), <<>>)
    BY EmptiedHeld
  <1> QED
    BY <1>1 DEF Init, FabricInit, HInv, Observed, HistoriesHeld, Closed

(* The history of each page holds the last samples of one workload and no  *)
(* other, for every depth of the ring.                                     *)
THEOREM HistoriesAreRecent == Spec => []HistoryIsRecent
  <1>1. HInv => HistoryIsRecent
    <2> SUFFICES ASSUME HInv PROVE HistoryIsRecent
      OBVIOUS
    <2>1. \A p \in Pages : Held(history[p], recent[p])
      BY DEF HInv, HistoriesHeld
    <2> QED
      BY <2>1, HeldSummary DEF HistoryIsRecent
  <1> QED
    BY <1>1, HInitially, Inductive, HistoryStep, PTL DEF Spec

-----------------------------------------------------------------------------
(* The bytes of a batch: the loop over g_results counts the SPEs that      *)
(* moved something.                                                        *)

(* A set of numbers has a least element: what the loop's steps rest on.    *)
LEMMA Least ==
  ASSUME NEW T, T \subseteq Nat, T # {}
  PROVE  \E x \in T : \A y \in T : x <= y
  <1> DEFINE R == OpToRel(<, Nat)
  <1>1. \A x, y \in Nat : y < x => <<y, x>> \in R
    BY DEF OpToRel
  <1>2. IsWellFoundedOn(R, Nat)
    BY NatLessThanWellFounded
  <1> HIDE DEF R
  <1>3. PICK x \in T : \A y \in T : ~ (<<y, x>> \in R)
    BY <1>2, WFMin
  <1>4. \A y \in T : ~(y < x)
    BY <1>1, <1>3
  <1> QED
    BY <1>4

(* The SPEs below n that moved something.                                  *)
Moved(n) == {i \in 0 .. n - 1 : results[i] = 1}

LEMMA MovedNext ==
  ASSUME results \in [SPEs -> {0, 1}], NUM_SPES \in Nat, NEW n \in Nat, n < NUM_SPES
  PROVE  /\ IsFiniteSet(Moved(n)) /\ Cardinality(Moved(n)) \in Nat
         /\ Cardinality(Moved(n + 1)) = Cardinality(Moved(n)) + results[n]
  <1>1. IsFiniteSet(Moved(n))
    <2>1. IsFiniteSet(0 .. n - 1) /\ Moved(n) \in SUBSET (0 .. n - 1)
      BY FS_Interval DEF Moved
    <2> QED
      BY <2>1, FS_Subset
  <1>2. Cardinality(Moved(n)) \in Nat
    BY <1>1, FS_CardinalityType
  <1>3. n \in SPEs /\ results[n] \in {0, 1} /\ n \notin Moved(n)
    BY DEF SPEs, Moved
  <1>i. 0 .. (n + 1) - 1 = (0 .. n - 1) \cup {n}
    OBVIOUS
  <1>4. CASE results[n] = 1
    <2>1. Moved(n + 1) = Moved(n) \cup {n}
      BY <1>i, <1>4 DEF Moved
    <2>2. Cardinality(Moved(n) \cup {n}) = Cardinality(Moved(n)) + 1
      BY <1>1, <1>3, FS_AddElement
    <2> QED
      BY <1>1, <1>2, <1>4, <2>1, <2>2
  <1>5. CASE results[n] = 0
    <2>1. Moved(n + 1) = Moved(n)
      BY <1>i, <1>5 DEF Moved
    <2> QED
      BY <1>1, <1>2, <1>5, <2>1
  <1> QED
    BY <1>3, <1>4, <1>5

(* total_bytes behind the loop.                                            *)
LEMMA SumCounts ==
  ASSUME results \in [SPEs -> {0, 1}]
  PROVE  SumOfResults = Cardinality(Moved(NUM_SPES))
  <1> DEFINE N == NUM_SPES
             Loop(t) == [n \in 0 .. N |-> IF n = 0 THEN 0 ELSE t[n - 1] + results[n - 1]]
             g == [n \in 0 .. N |-> Cardinality(Moved(n))]
             total == CHOOSE t : t = Loop(t)
  <1>1. N \in Nat /\ N > 1
    BY FabricAssumption
  <1>0. Cardinality(Moved(0)) = 0
    <2>1. Moved(0) = {}
      BY DEF Moved
    <2> QED
      BY <2>1, FS_EmptySet
  <1>2. ASSUME NEW n \in 0 .. N, n # 0
        PROVE  /\ n - 1 \in 0 .. N /\ n - 1 \in Nat /\ n - 1 < N
               /\ Cardinality(Moved(n)) = Cardinality(Moved(n - 1)) + results[n - 1]
    <2>1. n - 1 \in 0 .. N /\ n - 1 \in Nat /\ n - 1 < N /\ (n - 1) + 1 = n
      BY <1>1, <1>2
    <2>2. Cardinality(Moved((n - 1) + 1)) = Cardinality(Moved(n - 1)) + results[n - 1]
      BY <1>1, <2>1, MovedNext
    <2> QED
      BY <2>1, <2>2
  (* The count solves the loop's equation, so there is a solution.         *)
  <1>3. g = Loop(g)
    <2>1. ASSUME NEW n \in 0 .. N
          PROVE  g[n] = IF n = 0 THEN 0 ELSE g[n - 1] + results[n - 1]
      <3>1. CASE n = 0
        BY <1>0, <3>1
      <3>2. CASE n # 0
        <4>1. g[n] = Cardinality(Moved(n)) /\ g[n - 1] = Cardinality(Moved(n - 1))
          BY <1>2, <3>2
        <4> QED
          BY <1>2, <3>2, <4>1
      <3> QED
        BY <3>1, <3>2
    <2> QED
      BY <2>1
  <1>4. total = Loop(total)
    BY <1>3
  (* And only one: two solutions have no least index at which they differ. *)
  <1>5. ASSUME NEW n \in 0 .. N
        PROVE  total[n] = Cardinality(Moved(n))
    <2> HIDE DEF total
    <2> DEFINE T == {k \in 0 .. N : total[k] # Cardinality(Moved(k))}
    <2>1. ASSUME T # {}
          PROVE  FALSE
      <3>1. PICK k \in T : \A j \in T : k <= j
        <4>1. T \subseteq Nat
          BY <1>1
        <4> QED
          BY <2>1, <4>1, Least
      <3>2. k \in 0 .. N /\ total[k] # Cardinality(Moved(k))
        OBVIOUS
      <3>3. total[k] = IF k = 0 THEN 0 ELSE total[k - 1] + results[k - 1]
        BY <1>4, <3>2
      <3>4. k # 0
        BY <1>0, <3>2, <3>3
      <3>5. k - 1 \notin T
        BY <3>1, <3>2, <3>4
      <3>6. total[k - 1] = Cardinality(Moved(k - 1))
        BY <1>2, <3>2, <3>4, <3>5
      <3> QED
        BY <1>2, <3>2, <3>3, <3>4, <3>6
    <2> QED
      BY <2>1
  <1>6. SumOfResults = total[N]
    BY DEF SumOfResults
  <1> HIDE DEF total
  <1> QED
    BY <1>1, <1>5, <1>6

(* Where the sweeps are, what the work of a batch is about, and what its   *)
(* SPEs have reported so far.                                              *)
Positions ==
  /\ pos = [s \in Sweeps |-> pos[s]]
  /\ pos["hotspot"] \in 0 .. SweepLength("hotspot") - 1
  /\ pos["nxn"] \in 0 .. SweepLength("nxn") - 1
  /\ sweep \in Sweeps \cup {"none"}

Asks(w) == w.movers \subseteq SPEs /\ Cardinality(w.movers) = w.asked

Reported ==
  /\ results \in [SPEs -> {0, 1}]
  /\ fab = "join" => \A i \in SPEs \ spes : results[i] = 1 <=> i \in work.movers

RInv == Positions /\ Reported /\ (fab # "idle" => Asks(work))

LEMMA SweepLengths ==
  /\ SweepLength("hotspot") = NUM_SPES - 1 /\ SweepLength("nxn") = EIB_NXN_TOTAL_PAIRS
  /\ SweepLength("hotspot") \in Nat \ {0} /\ SweepLength("nxn") \in Nat \ {0}
  <1>1. SweepLength("hotspot") = NUM_SPES - 1 /\ SweepLength("nxn") = EIB_NXN_TOTAL_PAIRS
    BY DEF SweepLength
  <1>2. NUM_SPES - 1 \in Nat \ {0}
    BY FabricAssumption
  <1>3. EIB_NXN_TOTAL_PAIRS \in Nat \ {0}
    <2>1. NUM_SPES * (NUM_SPES - 1) \in Int
      BY FabricAssumption
    <2> QED
      BY <2>1, FabricAssumption
  <1> QED
    BY <1>1, <1>2, <1>3

LEMMA SpesCounted ==
  /\ NUM_SPES \in Nat \ {0, 1}
  /\ IsFiniteSet(SPEs) /\ Cardinality(SPEs) = NUM_SPES
  <1>1. NUM_SPES \in Nat \ {0, 1}
    BY FabricAssumption
  <1> QED
    BY <1>1, FS_Interval DEF SPEs

(* As many SPEs read from the hot spot as the bench is about.              *)
LEMMA ReadersCounted ==
  ASSUME NEW a \in 1 .. NUM_SPES - 1
  PROVE  hotspotReaders(a) \subseteq SPEs /\ Cardinality(hotspotReaders(a)) = a
  <1>1. hotspotReaders(a) = 1 .. a
    BY SpesCounted DEF hotspotReaders, SPEs
  <1>2. Cardinality(1 .. a) = a
    BY SpesCounted, FS_Interval
  <1> QED
    BY <1>1, <1>2 DEF hotspotReaders

(* The source of every ordered pair is an SPE.                             *)
LEMMA PairSource ==
  ASSUME NEW idx \in 0 .. EIB_NXN_TOTAL_PAIRS - 1
  PROVE  nxn_pair_for_idx(idx).src \in SPEs
  <1> DEFINE n == NUM_SPES - 1
             s == idx \div n
  <1>1. n \in Nat \ {0} /\ idx \in Nat /\ idx < (n + 1) * n
    <2>1. (n + 1) * n \in Int /\ (n + 1) * n = NUM_SPES * (NUM_SPES - 1)
      BY FabricAssumption
    <2> QED
      BY <2>1, FabricAssumption
  <1> HIDE DEF n
  <1>2. s \in Int /\ idx = n * s + (idx % n) /\ idx % n \in 0 .. n - 1
    BY <1>1
  <1>3. s >= 0
    <2>1. ASSUME s <= -1
          PROVE  FALSE
      <3>1. n * s <= -n
        BY <1>1, <1>2, <2>1
      <3> QED
        BY <1>1, <1>2, <3>1
    <2> QED
      BY <1>2, <2>1
  <1>4. s <= n
    <2>1. ASSUME s >= n + 1
          PROVE  FALSE
      <3>1. n * s >= n * (n + 1)
        BY <1>1, <1>2, <2>1
      <3>2. n * (n + 1) = (n + 1) * n /\ n * s \in Int /\ (n + 1) * n \in Int
        BY <1>1, <1>2
      <3> QED
        BY <1>1, <1>2, <3>1, <3>2
    <2> QED
      BY <1>1, <1>2, <2>1
  <1>5. nxn_pair_for_idx(idx).src = s
    BY DEF nxn_pair_for_idx, n
  <1>6. s \in 0 .. n
    BY <1>1, <1>2, <1>3, <1>4
  <1> QED
    BY <1>5, <1>6 DEF SPEs, n

(* Every batch moves bytes with as many SPEs as it asks for.               *)
LEMMA BatchAsks ==
  ASSUME Positions, NEW b \in Batches
  PROVE  Asks(b[1]) /\ b[2] \in Sweeps \cup {"none"}
  <1>1. \A d, c : Asks(DmaWork(d, c))
    BY SpesCounted DEF DmaWork, Asks
  <1>2. Asks(EibWork(EIB_BENCH_PAIRS, 0))
    BY SpesCounted DEF EibWork, Asks
  <1>3. ASSUME NEW a \in 1 .. NUM_SPES - 1, NEW m \in {EIB_BENCH_HOTSPOT, EIB_BENCH_HOTSPOT_SWEEP}
        PROVE  Asks(EibWork(m, a))
    <2>1. m # EIB_BENCH_PAIRS
      BY DEF EIB_BENCH_HOTSPOT, EIB_BENCH_HOTSPOT_SWEEP, EIB_BENCH_PAIRS
    <2>2. EibWork(m, a).movers = hotspotReaders(a) /\ EibWork(m, a).asked = a
      BY <2>1 DEF EibWork
    <2> QED
      BY <2>2, ReadersCounted DEF Asks
  <1>4. Asks(EibWork(EIB_BENCH_HOTSPOT, NUM_SPES - 1))
    <2>1. NUM_SPES - 1 \in 1 .. NUM_SPES - 1
      BY SpesCounted
    <2> QED
      BY <1>3, <2>1
  <1>5. Asks(EibWork(EIB_BENCH_HOTSPOT_SWEEP, pos["hotspot"] + 1))
    <2>1. pos["hotspot"] + 1 \in 1 .. NUM_SPES - 1
      BY SpesCounted, SweepLengths DEF Positions
    <2> QED
      BY <1>3, <2>1
  <1>6. Asks(NxnWork(nxn_pair_for_idx(pos["nxn"])))
    <2> DEFINE p == nxn_pair_for_idx(pos["nxn"])
    <2>1. p.src \in SPEs
      BY SweepLengths, PairSource DEF Positions
    <2> HIDE DEF p
    <2>2. NxnWork(p).movers = {p.src} /\ NxnWork(p).asked = 1
      BY <2>1 DEF NxnWork
    <2> QED
      BY <2>1, <2>2, FS_Singleton DEF Asks, p
  <1> QED
    BY <1>1, <1>2, <1>4, <1>5, <1>6 DEF Batches, Sweeps

(* The end of a batch moves its sweep on within its table.                 *)
LEMMA ReturnReports ==
  ASSUME RInv, NEW s \in Sweeps \cup {"none"}, Return(s)
  PROVE  RInv'
  <1>1. /\ fab' = "idle" /\ sweep' = "none" /\ results' = [i \in SPEs |-> 0]
        /\ pos' = pos \/ (s \in Sweeps /\ pos' = [pos EXCEPT ![s] = (@ + 1) % SweepLength(s)])
    BY DEF Return, Advance
  <1>2. ASSUME NEW x \in {"hotspot", "nxn"}
        PROVE  pos'[x] \in 0 .. SweepLength(x) - 1
    <2>1. pos[x] \in 0 .. SweepLength(x) - 1 /\ SweepLength(x) \in Nat \ {0} /\ x \in Sweeps
      BY <1>2, SweepLengths DEF RInv, Positions, Sweeps
    <2>2. (pos[x] + 1) % SweepLength(x) \in 0 .. SweepLength(x) - 1
      BY <2>1
    <2>3. pos'[x] = pos[x] \/ pos'[x] = (pos[x] + 1) % SweepLength(x)
      BY <1>1, <2>1 DEF RInv, Positions
    <2> QED
      BY <2>1, <2>2, <2>3
  <1>3. pos' = [x \in Sweeps |-> pos'[x]]
    BY <1>1 DEF RInv, Positions
  <1>4. Positions'
    BY <1>1, <1>2, <1>3 DEF Positions, SweepLength
  <1>5. Reported'
    BY <1>1 DEF Reported
  <1> QED
    BY <1>1, <1>4, <1>5 DEF RInv

LEMMA ReportStep ==
  ASSUME IInv, RInv, [Next]_allVars
  PROVE  RInv'
  <1>1. sweep \in Sweeps \cup {"none"}
    BY DEF RInv, Positions
  <1>2. CASE FabricTick
    <2>1. PICK b \in Batches : NotCreated(b[1], b[2]) \/ Create(b[1], b[2])
      BY <1>2 DEF FabricTick
    <2>2. Asks(b[1]) /\ b[2] \in Sweeps \cup {"none"}
      BY BatchAsks DEF RInv
    <2>3. CASE NotCreated(b[1], b[2])
      BY <2>2, <2>3, ReturnReports DEF NotCreated
    <2>4. CASE Create(b[1], b[2])
      <3>1. /\ work' = b[1] /\ sweep' = b[2] /\ results' = [i \in SPEs |-> 0]
            /\ fab' = "created" /\ pos' = pos
        BY <2>4 DEF Create
      <3> QED
        BY <2>2, <3>1 DEF RInv, Positions, Reported, Asks
    <2> QED
      BY <2>1, <2>3, <2>4
  <1>3. CASE Batch
    <2>1. CASE ThreadFails \/ StartFails \/ JoinFails \/ \E readable \in BOOLEAN : Join(readable)
      BY <1>1, <2>1, ReturnReports DEF ThreadFails, StartFails, JoinFails, Join
    <2>2. CASE Start
      <3>1. /\ spes' = SPEs /\ fab' = "join" /\ fab = "window"
            /\ UNCHANGED <<work, sweep, pos, results>>
        BY <2>2 DEF Start
      <3> QED
        BY <3>1 DEF RInv, Positions, Reported, Asks
    <2>3. CASE \E opened \in BOOLEAN : BeginWindow(opened)
      <3>1. fab = "created" /\ fab' = "window" /\ UNCHANGED <<work, sweep, pos, results>>
        BY <2>3 DEF BeginWindow
      <3> QED
        BY <3>1 DEF RInv, Positions, Reported, Asks
    <2> QED
      BY <1>3, <2>1, <2>2, <2>3 DEF Batch
  <1>4. ASSUME NEW i \in SPEs, SpeReturns(i)
        PROVE  RInv'
    <2>1. /\ i \in spes /\ spes' = spes \ {i}
          /\ results' = [results EXCEPT ![i] = IF i \in work.movers THEN 1 ELSE 0]
          /\ UNCHANGED <<fab, work, sweep, pos>>
      BY <1>4 DEF SpeReturns
    <2>2. Reported'
      BY <2>1 DEF RInv, Reported
    <2> QED
      BY <2>1, <2>2 DEF RInv, Positions, Asks
  <1>5. CASE UNCHANGED fabric
    BY <1>5 DEF fabric, RInv, Positions, Reported, Asks
  <1> QED
    BY <1>2, <1>3, <1>4, <1>5
       DEF Next, MboxTick, OtherTick, MainThread, FabricSpe, MailboxSpe, allVars

LEMMA RInitially == Init => RInv
  <1> SUFFICES ASSUME Init PROVE RInv
    OBVIOUS
  <1>1. /\ fab = "idle" /\ sweep = "none" /\ pos = [s \in Sweeps |-> 0]
        /\ results = [i \in SPEs |-> 0]
    BY DEF Init, FabricInit
  <1>2. pos["hotspot"] = 0 /\ pos["nxn"] = 0
    BY <1>1 DEF Sweeps
  <1>3. Positions
    BY <1>1, <1>2, SweepLengths DEF Positions
  <1> QED
    BY <1>1, <1>3 DEF RInv, Reported

(* The bytes of every batch are those of the SPEs it is about: all of      *)
(* them, the readers of the hot spot or the source of a pair, for every    *)
(* number of SPEs and wherever the sweeps are.                             *)
THEOREM ReportsAreOfTheBatch == Spec => []ReportIsBatch
  <1>1. IInv /\ RInv => ReportIsBatch
    <2> SUFFICES ASSUME RInv, fab = "join", spes = {}
                 PROVE  SumOfResults = work.asked
      BY DEF ReportIsBatch
    <2>1. Asks(work) /\ results \in [SPEs -> {0, 1}]
      BY DEF RInv, Reported
    <2>2. \A i \in SPEs : results[i] = 1 <=> i \in work.movers
      BY DEF RInv, Reported
    <2>3. Moved(NUM_SPES) = work.movers
      BY <2>1, <2>2 DEF Moved, Asks, SPEs
    <2> QED
      BY <2>1, <2>3, SumCounts DEF Asks
  <1> QED
    BY <1>1, RInitially, Inductive, ReportStep, PTL DEF Spec

-----------------------------------------------------------------------------
(* The end of a batch.                                                     *)

Waited == spes \subseteq SPEs

Left == RoundsLeft \in Nat /\ CallsLeft \in Nat

LEMMA WaitedStep ==
  ASSUME Waited, [Next]_allVars
  PROVE  Waited'
  <1>1. CASE UNCHANGED spes \/ spes' = SPEs
    BY <1>1 DEF Waited, SPEs
  <1>2. ASSUME NEW i \in SPEs, SpeReturns(i)
        PROVE  Waited'
    BY <1>2 DEF SpeReturns, Waited, SPEs
  <1>3. CASE FabricTick
    BY <1>1, <1>3 DEF FabricTick, NotCreated, Create
  <1>4. CASE Batch
    BY <1>1, <1>4
       DEF Batch, ThreadFails, BeginWindow, StartFails, Start, JoinFails, Join
  <1>5. CASE UNCHANGED fabric
    BY <1>1, <1>5 DEF fabric
  <1> QED
    BY <1>2, <1>3, <1>4, <1>5
       DEF Next, MboxTick, OtherTick, MainThread, FabricSpe, MailboxSpe, allVars

LEMMA RoundsLeftType ==
  ASSUME Counted
  PROVE  RoundsLeft \in Nat
  <1>1. Iterations \in Nat
    BY MailboxAssumption
  <1>2. CASE mbox \in Rounds
    <2>1. completed \in Nat /\ completed < Iterations
      BY <1>2 DEF Counted
    <2> QED
      BY <1>1, <1>2, <2>1 DEF RoundsLeft, Rounds
  <1>3. CASE mbox \notin Rounds
    BY <1>3 DEF RoundsLeft, Rounds
  <1> QED
    BY <1>2, <1>3

LEMMA CallsLeftType ==
  ASSUME Waited
  PROVE  CallsLeft \in Nat /\ Cardinality(spes) \in Nat /\ IsFiniteSet(spes)
  <1>1. IsFiniteSet(spes)
    BY SpesCounted, FS_Subset DEF Waited
  <1>2. Cardinality(spes) \in Nat
    BY <1>1, FS_CardinalityType
  <1> QED
    BY <1>1, <1>2, SpesCounted DEF CallsLeft

(* Each call and each round of mbox_benchmark_run.                         *)
LEMMA RoundsGoDown ==
  ASSUME Counted, Ppu
  PROVE  RoundsLeft' < RoundsLeft
  <1>1. Iterations \in Nat
    BY MailboxAssumption
  <1>2. mbox \in Rounds => completed \in Nat /\ completed < Iterations
    BY DEF Counted
  <1>3. CASE Send
    BY <1>1, <1>2, <1>3 DEF Send, RoundsLeft, Rounds
  <1>4. CASE Receive
    BY <1>1, <1>2, <1>4 DEF Receive, RoundsLeft, Rounds
  <1>5. CASE Timeout
    BY <1>1, <1>2, <1>5 DEF Timeout, RoundsLeft, Rounds
  <1>6. CASE Disconnect
    BY <1>6 DEF Disconnect, RoundsLeft
  <1>7. CASE DestroyQueue
    BY <1>7 DEF DestroyQueue, RoundsLeft
  <1>8. CASE Terminate
    BY <1>8 DEF Terminate, RoundsLeft
  <1>9. CASE DestroyGroup
    BY <1>9 DEF DestroyGroup, RoundsLeft
  <1> QED
    BY <1>3, <1>4, <1>5, <1>6, <1>7, <1>8, <1>9 DEF Ppu

(* Each call of dma_benchmark_run and eib_benchmark_run.                   *)
LEMMA CallsGoDown ==
  ASSUME Waited, Batch
  PROVE  CallsLeft' < CallsLeft
  <1>1. /\ NUM_SPES \in Nat /\ Cardinality(SPEs) = NUM_SPES
        /\ Cardinality(spes) \in Nat
    BY SpesCounted, CallsLeftType
  <1>2. CASE ThreadFails
    BY <1>1, <1>2 DEF ThreadFails, Return, CallsLeft
  <1>3. ASSUME NEW opened \in BOOLEAN, BeginWindow(opened)
        PROVE  CallsLeft' < CallsLeft
    BY <1>1, <1>3 DEF BeginWindow, CallsLeft
  <1>4. CASE StartFails
    BY <1>1, <1>4 DEF StartFails, Return, CallsLeft
  <1>5. CASE Start
    <2>1. spes' = SPEs /\ fab = "window" /\ fab' = "join"
      BY <1>5 DEF Start
    <2>2. CallsLeft = NUM_SPES + 2 /\ CallsLeft' = NUM_SPES + 1
      BY <1>1, <2>1 DEF CallsLeft
    <2> QED
      BY <1>1, <2>2
  <1>6. CASE JoinFails
    BY <1>1, <1>6 DEF JoinFails, Return, CallsLeft
  <1>7. ASSUME NEW readable \in BOOLEAN, Join(readable)
        PROVE  CallsLeft' < CallsLeft
    BY <1>1, <1>7 DEF Join, Return, CallsLeft
  <1> QED
    BY <1>2, <1>3, <1>4, <1>5, <1>6, <1>7 DEF Batch

LEMMA ReturnGoesDown ==
  ASSUME Waited, Alone, NEW i \in SPEs, SpeReturns(i)
  PROVE  CallsLeft' < CallsLeft
  <1>1. i \in spes /\ spes' = spes \ {i} /\ fab' = fab
    BY DEF SpeReturns
  <1>2. fab = "join"
    BY <1>1 DEF Alone
  <1>3. Cardinality(spes) \in Nat /\ Cardinality(spes \ {i}) = Cardinality(spes) - 1
    BY <1>1, CallsLeftType, FS_RemoveElement
  <1>4. CallsLeft = Cardinality(spes) + 1 /\ CallsLeft' = Cardinality(spes \ {i}) + 1
    BY <1>1, <1>2 DEF CallsLeft
  <1> QED
    BY <1>3, <1>4

(* A batch of the mailbox benchmark, of the dma page or of the fabric page *)
(* gets nearer its end with every step made for it, for every number of    *)
(* rounds and SPEs and whichever of its calls fails.                       *)
THEOREM BatchesEnd == Spec => BatchesRunDown
  <1>0. IInv /\ Waited => Left
    BY RoundsLeftType, CallsLeftType DEF IInv, Left
  <1>1. ASSUME IInv, Waited, Left, Left', MainThread \/ FabricSpe
        PROVE  RoundsLeft' + CallsLeft' \in 0 .. RoundsLeft + CallsLeft - 1
    <2>1. /\ RoundsLeft \in Nat /\ RoundsLeft' \in Nat
          /\ CallsLeft \in Nat /\ CallsLeft' \in Nat
      BY <1>1 DEF Left
    <2>2. ASSUME NEW a \in Nat, NEW b \in Nat, NEW c \in Nat, b < a
          PROVE  b + c < a + c /\ c + b < c + a
      BY <2>2
    <2>3. ASSUME NEW a \in Nat, NEW b \in Nat, NEW c \in Nat, NEW d \in Nat, a + b < c + d
          PROVE  a + b \in 0 .. c + d - 1
      BY <2>3
    <2>4. RoundsLeft' + CallsLeft' < RoundsLeft + CallsLeft
      <3>1. CASE Ppu /\ UNCHANGED fabric
        <4>1. CallsLeft' = CallsLeft
          BY <3>1 DEF fabric, CallsLeft
        <4>2. RoundsLeft' < RoundsLeft
          BY <1>1, <3>1, RoundsGoDown DEF IInv
        <4> QED
          BY <2>1, <2>2, <4>1, <4>2
      <3>2. CASE (Batch \/ \E i \in SPEs : SpeReturns(i)) /\ UNCHANGED mailbox
        <4>1. RoundsLeft' = RoundsLeft
          BY <3>2 DEF mailbox, RoundsLeft
        <4>2. CallsLeft' < CallsLeft
          BY <1>1, <3>2, CallsGoDown, ReturnGoesDown DEF IInv
        <4> QED
          BY <2>1, <2>2, <4>1, <4>2
      <3> QED
        BY <1>1, <3>1, <3>2 DEF MainThread, FabricSpe
    <2> QED
      BY <2>1, <2>3, <2>4
  <1>2. Init => Waited
    BY DEF Init, FabricInit, Waited
  <1> QED
    BY <1>0, <1>1, <1>2, WaitedStep, Inductive, PTL DEF Spec, BatchesRunDown

-----------------------------------------------------------------------------
(* Type correctness.                                                       *)

TokenSet == 0 .. Tokens - 1

(* The SPE is in one of its rounds.                                        *)
MailboxTyped ==
  /\ MailboxTypeOK
  /\ spe.does \in {"read", "answer"} => spe.n < Iterations

LEMMA Masked ==
  /\ Tokens \in Nat /\ 0 \in TokenSet
  /\ Iterations \in Nat /\ Iterations > 0
  /\ \A v \in TokenSet : v % Tokens \in TokenSet /\ Answer(v) \in TokenSet
  <1>1. Tokens \in Nat \ {0, 1} /\ Iterations \in Nat \ {0}
    BY MailboxAssumption
  <1>2. ASSUME NEW v \in TokenSet
        PROVE  v % Tokens \in TokenSet /\ (v + 1) % Tokens \in TokenSet
    BY <1>1 DEF TokenSet
  <1> QED
    BY <1>1, <1>2 DEF TokenSet, Answer

LEMMA MailboxTyping ==
  ASSUME MailboxTyped, Counted,
         \/ \E failed \in {"none"} \cup {SetupCalls[j] : j \in DOMAIN SetupCalls} : Setup(failed)
         \/ Ppu \/ Spe
  PROVE  MailboxTyped'
  <1> USE Masked DEF MailboxTyped, MailboxTypeOK
  <1>t. /\ spe \in [does : {"none", "read", "answer", "returned"}, v : TokenSet,
                     n : 0 .. Iterations]
        /\ inMbox \in Seq(TokenSet) /\ events \in Seq(TokenSet) /\ val \in TokenSet
        /\ <<>> \in Seq(TokenSet)
        /\ NoThread \in [does : {"none", "read", "answer", "returned"}, v : TokenSet,
                          n : 0 .. Iterations]
    BY DEF TokenSet, NoThread
  <1>g. ASSUME NEW T \in [does : {"none", "read", "answer", "returned"}, v : TokenSet,
                          n : 0 .. Iterations],
               spe' = T, inMbox' \in Seq(TokenSet), events' \in Seq(TokenSet),
               val' \in TokenSet, completed' \in 0 .. Iterations,
               mbox' \in {"idle", "send", "receive", "disconnect", "destroyQueue", "terminate",
                          "destroyGroup"},
               made' \subseteq {"group", "queue", "port", "start"},
               objects' \subseteq {"group", "queue", "port"},
               g_disabled' \in BOOLEAN,
               T.does \in {"read", "answer"} => T.n < Iterations
        PROVE  MailboxTyped'
    BY <1>g DEF TokenSet
  <1>1. ASSUME NEW failed \in {"none"} \cup {SetupCalls[j] : j \in DOMAIN SetupCalls},
               Setup(failed)
        PROVE  MailboxTyped'
    <2> DEFINE T == IF failed = "none" THEN [does |-> "read", v |-> 0, n |-> 0] ELSE NoThread
    <2>1. spe' = T /\ inMbox' = <<>> /\ events' = <<>> /\ val' = 0 /\ completed' = 0
      BY <1>1 DEF Setup
    <2>2. /\ T \in [does : {"none", "read", "answer", "returned"}, v : TokenSet,
                     n : 0 .. Iterations]
          /\ T.does \in {"read", "answer"} => T.n < Iterations
      BY <1>t DEF NoThread
    <2>3. /\ mbox' \in {"send", "idle", "disconnect"} /\ g_disabled' \in BOOLEAN
          /\ made' \subseteq {"group", "queue", "port", "start"}
          /\ objects' \subseteq {"group", "queue", "port"}
      BY <1>1 DEF Setup
    <2> HIDE DEF T
    <2> QED
      BY <1>g, <2>1, <2>2, <2>3
  <1>2. CASE Send
    <2>1. Append(inMbox, val) \in Seq(TokenSet)
      BY <1>t
    <2> QED
      BY <1>2, <1>t, <1>g, <2>1 DEF Send
  <1>3. CASE Receive
    <2>1. Head(events) \in TokenSet /\ Tail(events) \in Seq(TokenSet)
      BY <1>3, <1>t DEF Receive
    <2>2. completed + 1 \in 0 .. Iterations
      BY <1>3 DEF Receive, Counted, Rounds
    <2> QED
      BY <1>3, <1>t, <1>g, <2>1, <2>2 DEF Receive
  <1>4. CASE Timeout \/ Disconnect
    BY <1>4, <1>t, <1>g DEF Timeout, Disconnect
  <1>5. CASE DestroyQueue
    <2>1. /\ objects' \subseteq objects /\ events' = <<>> /\ mbox' = "terminate"
          /\ UNCHANGED <<made, spe, inMbox, val, completed, g_disabled>>
      BY <1>5 DEF DestroyQueue
    <2> QED
      BY <1>t, <1>g, <2>1
  <1>6. CASE Terminate
    <2>1. /\ spe' = spe \/ spe' = NoThread
          /\ inMbox' = inMbox \/ inMbox' = <<>>
          /\ UNCHANGED <<made, objects, events, val, completed, g_disabled>>
          /\ mbox' = "destroyGroup"
      BY <1>6 DEF Terminate
    <2>2. NoThread.does \notin {"read", "answer"}
      BY DEF NoThread
    <2>3. inMbox' \in Seq(TokenSet)
      BY <1>t, <2>1
    <2>4. CASE spe' = spe
      BY <1>t, <1>g, <2>1, <2>3, <2>4
    <2>5. CASE spe' = NoThread
      BY <1>t, <1>g, <2>1, <2>2, <2>3, <2>5
    <2> QED
      BY <2>1, <2>4, <2>5
  <1>7. CASE DestroyGroup
    <2>1. /\ objects' \subseteq objects /\ mbox' = "idle"
          /\ made' = {} /\ val' = 0 /\ completed' = 0
          /\ UNCHANGED <<spe, inMbox, events, g_disabled>>
      BY <1>7 DEF DestroyGroup
    <2>2. completed' \in 0 .. Iterations /\ val' \in TokenSet
      BY <2>1
    <2> QED
      BY <1>t, <1>g, <2>1, <2>2
  <1>8. CASE SpeRead
    <2> DEFINE T == [spe EXCEPT !.does = "answer", !.v = Head(inMbox)]
    <2>1. Head(inMbox) \in TokenSet /\ Tail(inMbox) \in Seq(TokenSet) /\ spe.does = "read"
      BY <1>8, <1>t DEF SpeRead
    <2>2. /\ T \in [does : {"none", "read", "answer", "returned"}, v : TokenSet,
                     n : 0 .. Iterations]
          /\ T.n < Iterations
      BY <1>t, <2>1
    <2>3. /\ spe' = T /\ inMbox' = Tail(inMbox)
          /\ UNCHANGED <<mbox, made, objects, events, val, completed, g_disabled>>
      BY <1>8 DEF SpeRead
    <2> HIDE DEF T
    <2> QED
      BY <1>t, <1>g, <2>1, <2>2, <2>3
  <1>9. CASE SpeAnswer
    <2> DEFINE T == [does |-> IF spe.n + 1 = Iterations THEN "returned" ELSE "read",
                     v |-> 0, n |-> spe.n + 1]
    <2>1. spe.does = "answer" /\ spe.n < Iterations /\ spe.n \in Nat /\ Answer(spe.v) \in TokenSet
      BY <1>9, <1>t DEF SpeAnswer
    <2>2. /\ T \in [does : {"none", "read", "answer", "returned"}, v : TokenSet,
                     n : 0 .. Iterations]
          /\ T.does \in {"read", "answer"} => T.n < Iterations
      <3>1. spe.n + 1 \in 0 .. Iterations
        BY <2>1
      <3>2. CASE spe.n + 1 = Iterations
        BY <1>t, <3>1, <3>2
      <3>3. CASE spe.n + 1 # Iterations
        BY <1>t, <2>1, <3>1, <3>3
      <3> QED
        BY <3>2, <3>3
    <2>3. /\ spe' = T
          /\ events' = Append(events, Answer(spe.v)) \/ events' = events
          /\ UNCHANGED <<mbox, made, objects, inMbox, val, completed, g_disabled>>
      BY <1>9 DEF SpeAnswer
    <2>4. Append(events, Answer(spe.v)) \in Seq(TokenSet)
      BY <1>t, <2>1
    <2> HIDE DEF T
    <2> QED
      BY <1>t, <1>g, <2>2, <2>3, <2>4
  <1> QED
    BY <1>1, <1>2, <1>3, <1>4, <1>5, <1>6, <1>7, <1>8, <1>9 DEF Ppu, Spe

(* What is left of FabricTypeOK when the other invariants have had their   *)
(* part.                                                                   *)
FabricTyped ==
  /\ pos = [s \in Sweeps |-> pos[s]] /\ here = [s \in Sweeps |-> here[s]]
  /\ \A s \in Sweeps : pos[s] \in 0 .. SweepLength(s) - 1 /\ here[s] \in 0 .. BATCHES_PER_VALUE - 1
  /\ group \in BOOLEAN /\ pmu.active \in BOOLEAN

LEMMA EverySweepHasLength == ASSUME NEW s \in Sweeps PROVE SweepLength(s) \in Nat \ {0}
  <1>1. Len(DMA_SWEEP_CHUNKS) \in Nat \ {0}
    BY FabricAssumption
  <1>2. CASE s = "chunk"
    BY <1>1, <1>2 DEF SweepLength
  <1> QED
    BY <1>2, SweepLengths DEF Sweeps

(* Wherever a batch ends, its sweep stays in its table.                    *)
LEMMA ReturnTyped ==
  ASSUME FabricTyped, NEW s \in Sweeps \cup {"none"}, Return(s), pmu'.active \in BOOLEAN
  PROVE  FabricTyped'
  <1>b. BATCHES_PER_VALUE \in Nat \ {0}
    BY FabricAssumption
  <1>1. group' = FALSE /\ Advance(s)
    BY DEF Return
  <1>2. CASE s = "none"
    BY <1>1, <1>2 DEF Advance, FabricTyped, SweepLength
  <1>3. CASE s \in Sweeps
    <2>1. s # "none"
      BY <1>3 DEF Sweeps
    <2>2. /\ pos[s] \in 0 .. SweepLength(s) - 1 /\ here[s] \in 0 .. BATCHES_PER_VALUE - 1
          /\ SweepLength(s) \in Nat \ {0}
      BY <1>3, EverySweepHasLength DEF FabricTyped
    <2>3. (pos[s] + 1) % SweepLength(s) \in 0 .. SweepLength(s) - 1
      BY <2>2
    <2>4. here[s] + 1 >= BATCHES_PER_VALUE \/ here[s] + 1 \in 0 .. BATCHES_PER_VALUE - 1
      BY <1>b, <2>2
    <2>5. /\ pos' = pos \/ pos' = [pos EXCEPT ![s] = (@ + 1) % SweepLength(s)]
          /\ \/ here' = [here EXCEPT ![s] = 0]
             \/ here' = [here EXCEPT ![s] = @ + 1] /\ ~(here[s] + 1 >= BATCHES_PER_VALUE)
      BY <1>1, <2>1 DEF Advance
    <2>6. /\ pos' = [x \in Sweeps |-> pos'[x]] /\ here' = [x \in Sweeps |-> here'[x]]
      BY <2>5 DEF FabricTyped
    <2>7. ASSUME NEW x \in Sweeps
          PROVE  pos'[x] \in 0 .. SweepLength(x) - 1
      <3>1. CASE x = s
        BY <2>2, <2>3, <2>5, <3>1, <1>3 DEF FabricTyped
      <3>2. CASE x # s
        BY <2>5, <2>7, <3>2 DEF FabricTyped
      <3> QED
        BY <3>1, <3>2
    <2>8. ASSUME NEW x \in Sweeps
          PROVE  here'[x] \in 0 .. BATCHES_PER_VALUE - 1
      <3>1. CASE x = s
        BY <1>b, <2>2, <2>4, <2>5, <3>1, <1>3 DEF FabricTyped
      <3>2. CASE x # s
        BY <2>5, <2>8, <3>2 DEF FabricTyped
      <3> QED
        BY <3>1, <3>2
    <2> QED
      BY <1>1, <2>6, <2>7, <2>8 DEF FabricTyped, SweepLength
  <1> QED
    BY <1>2, <1>3

LEMMA FabricTyping ==
  ASSUME FabricTyped, RInv, [Next]_allVars
  PROVE  FabricTyped'
  <1>1. sweep \in Sweeps \cup {"none"}
    BY DEF RInv, Positions
  <1>2. ASSUME UNCHANGED <<pos, here>>, group' \in BOOLEAN, pmu'.active \in BOOLEAN
        PROVE  FabricTyped'
    BY <1>2 DEF FabricTyped, SweepLength
  <1>3. pmu.active \in BOOLEAN /\ group \in BOOLEAN /\ Closed.active \in BOOLEAN
    BY DEF FabricTyped, Closed
  <1>4. CASE FabricTick
    <2>1. PICK b \in Batches : NotCreated(b[1], b[2]) \/ Create(b[1], b[2])
      BY <1>4 DEF FabricTick
    <2>2. b[2] \in Sweeps \cup {"none"}
      BY BatchAsks DEF RInv
    <2>3. CASE NotCreated(b[1], b[2])
      BY <1>3, <2>2, <2>3, ReturnTyped DEF NotCreated
    <2>4. CASE Create(b[1], b[2])
      BY <1>2, <1>3, <2>4 DEF Create
    <2> QED
      BY <2>1, <2>3, <2>4
  <1>5. CASE Batch
    <2>1. CASE ThreadFails \/ StartFails \/ JoinFails \/ \E readable \in BOOLEAN : Join(readable)
      BY <1>1, <1>3, <2>1, ReturnTyped DEF ThreadFails, StartFails, JoinFails, Join
    <2>2. CASE Start
      BY <1>2, <1>3, <2>2 DEF Start
    <2>3. CASE \E opened \in BOOLEAN : BeginWindow(opened)
      <3>1. PICK opened \in BOOLEAN : BeginWindow(opened)
        BY <2>3
      <3>2. CASE pmu.active \/ ~opened
        BY <1>2, <1>3, <3>1, <3>2 DEF BeginWindow
      <3>3. CASE ~(pmu.active \/ ~opened)
        BY <1>2, <1>3, <3>1, <3>3 DEF BeginWindow
      <3> QED
        BY <3>2, <3>3
    <2> QED
      BY <1>5, <2>1, <2>2, <2>3 DEF Batch
  <1>6. ASSUME NEW i \in SPEs, SpeReturns(i)
        PROVE  FabricTyped'
    BY <1>2, <1>3, <1>6 DEF SpeReturns
  <1>7. CASE UNCHANGED fabric
    BY <1>2, <1>3, <1>7 DEF fabric
  <1> QED
    BY <1>4, <1>5, <1>6, <1>7
       DEF Next, MboxTick, OtherTick, MainThread, FabricSpe, MailboxSpe, allVars

LEMMA MailboxTypedStep ==
  ASSUME MailboxTyped, Counted, [Next]_allVars
  PROVE  MailboxTyped'
  <1>1. CASE UNCHANGED mailbox
    BY <1>1 DEF mailbox, MailboxTyped, MailboxTypeOK
  <1>2. CASE MboxTick \/ Ppu \/ Spe
    BY <1>2, MailboxTyping DEF MboxTick
  <1> QED
    BY <1>1, <1>2 DEF Next, FabricTick, OtherTick, MainThread, FabricSpe, MailboxSpe, allVars

(* The sweeps stay in their tables, the rings in their bounds and a token  *)
(* in its 24 bits, for every length of a sweep and depth of a history.     *)
THEOREM TypeCorrect == Spec => []TypeOK
  <1>1. Init => MailboxTyped /\ FabricTyped /\ Waited
    <2> SUFFICES ASSUME Init PROVE MailboxTyped /\ FabricTyped /\ Waited
      OBVIOUS
    <2>1. MailboxTyped
      <3>1. /\ NoThread \in [does : {"none", "read", "answer", "returned"}, v : TokenSet,
                              n : 0 .. Iterations]
            /\ NoThread.does \notin {"read", "answer"}
        BY Masked DEF NoThread
      <3>2. <<>> \in Seq(TokenSet)
        OBVIOUS
      <3> QED
        <4>1. /\ mbox = "idle" /\ made = {} /\ objects = {} /\ spe = NoThread
              /\ inMbox = <<>> /\ events = <<>> /\ val = 0 /\ completed = 0
              /\ g_disabled = FALSE
          BY DEF Init, MailboxInit
        <4>2. val \in TokenSet /\ completed \in 0 .. Iterations
          BY <4>1, Masked
        <4> QED
          BY <3>1, <3>2, <4>1, <4>2 DEF MailboxTyped, MailboxTypeOK, TokenSet
    <2>2. \A s \in Sweeps : 0 \in 0 .. SweepLength(s) - 1 /\ 0 \in 0 .. BATCHES_PER_VALUE - 1
      BY EverySweepHasLength, FabricAssumption
    <2>3. FabricTyped
      BY <2>2 DEF Init, FabricInit, FabricTyped, Closed
    <2> QED
      BY <2>1, <2>3 DEF Init, FabricInit, Waited
  <1>2. MailboxTyped /\ FabricTyped /\ Waited /\ IInv /\ RInv /\ HInv => TypeOK
    <2> SUFFICES ASSUME MailboxTyped, FabricTyped, Waited, IInv, RInv, HInv
                 PROVE  TypeOK
      OBVIOUS
    <2>1. \A p \in Pages : history[p] \in Rings(history[p].key)
      BY DEF HInv, HistoriesHeld, Held
    <2>2. \A p \in Pages : /\ history[p].head \in 0 .. PMU_HISTORY_DEPTH - 1
                          /\ history[p].filled \in 0 .. PMU_HISTORY_DEPTH
      BY <2>1 DEF Rings, Depth
    <2>3. FabricTypeOK
      BY <2>2 DEF FabricTypeOK, FabricTyped, Waited, IInv, Alone, RInv, Positions, Reported
    <2> QED
      BY <2>3 DEF TypeOK, MailboxTyped
  <1>3. IInv => Counted
    BY DEF IInv
  <1> QED
    BY <1>1, <1>2, <1>3, RInitially, HInitially, Inductive, ReportStep, HistoryStep, WaitedStep,
       FabricTyping, MailboxTypedStep, PTL DEF Spec

-----------------------------------------------------------------------------
(* The SPE side: the ring of DmaRing.                                      *)

(* What the shared state of ring and MFC looks like between two commands.  *)
(* The first loop has filled the slots below slot; transfers are numbered  *)
(* in the order of their start; the offset is a chunk boundary inside the  *)
(* window.                                                                 *)
Chunks == IF request.iterations < depth THEN 0 ELSE request.iterations

Numbered ==
  \A c, d \in inflight : c.n = d.n => c = d

Started ==
  \A c \in inflight : c.n < issued

Loops ==
  /\ pc \in {"fill", "ring"} => request.iterations >= depth
  /\ pc = "fill" => issued = slot /\ \A c \in inflight : c.slot < slot
  /\ pc \in {"put", "returned"} => inflight = {} /\ issued = Chunks /\ bytes = Chunks * csize
  /\ pc # "returned" => reported = -1
  /\ pc = "returned" => reported = bytes

Aligned ==
  \E m \in Nat, k \in Nat : request.window = m * csize /\ off = k * csize /\ k < m

RingInv == RingTypeOK /\ SlotsDisjoint /\ InsideWindow /\ Numbered /\ Started /\ Loops /\ Aligned

-----------------------------------------------------------------------------
(* The clamps return what the ring can serve.                              *)
LEMMA DepthType ==
  ASSUME request \in Requests
  PROVE  /\ depth \in Nat /\ depth > 0 /\ csize \in Nat /\ csize > 0
         /\ request.iterations \in Nat /\ request.window \in Nat
BY RingAssumption, RequestAssumption DEF depth, csize, clamp_depth, clamp_chunk

(* Products of numbers in order are in order.                              *)
LEMMA Scale ==
  ASSUME NEW a \in Nat, NEW b \in Nat, NEW c \in Nat, a <= b
  PROVE  a * c <= b * c
<1>1. PICK d \in Nat : b = a + d
  <2>1. b - a \in Nat /\ b = a + (b - a)
    OBVIOUS
  <2>2. QED BY <2>1
<1>2. b * c = a * c + d * c
  BY <1>1
<1>3. a * c \in Nat /\ d * c \in Nat
  OBVIOUS
<1>4. QED BY <1>2, <1>3

(* Advancing a chunk boundary under the window mask gives the next chunk   *)
(* boundary, or the beginning of the window.                               *)
LEMMA NextOffset ==
  ASSUME NEW m \in Nat, NEW k \in Nat, NEW c \in Nat, c > 0, k < m
  PROVE  /\ k * c + c <= m * c
         /\ (k * c + c) % (m * c) = IF k + 1 = m THEN 0 ELSE (k + 1) * c
<1>1. k * c \in Nat /\ m * c \in Nat /\ (k + 1) * c \in Nat
  OBVIOUS
<1>2. k * c + c = (k + 1) * c
  OBVIOUS
<1>3. (k + 1) * c <= m * c
  BY Scale
<1>4. CASE k + 1 = m
  <2>1. k * c + c = m * c
    BY <1>2, <1>4
  <2>2. m * c > 0
    BY <1>1, <2>1
  <2>3. (m * c) % (m * c) = 0
    BY <1>1, <2>2
  <2>4. QED BY <1>4, <2>1, <2>3, <1>1
<1>5. CASE k + 1 # m
  <2>1. (k + 1) + 1 <= m
    BY <1>5
  <2>2. ((k + 1) + 1) * c <= m * c
    BY <2>1, Scale
  <2>3. ((k + 1) + 1) * c = (k + 1) * c + c
    OBVIOUS
  <2>4. (k + 1) * c < m * c
    BY <1>1, <2>2, <2>3
  <2>5. ((k + 1) * c) % (m * c) = (k + 1) * c
    BY <1>1, <2>4
  <2>6. QED BY <1>2, <1>3, <1>5, <2>5
<1>6. QED BY <1>4, <1>5

-----------------------------------------------------------------------------
(* A new command leaves the other slots alone: what Fill and Refill share. *)
LEMMA IssueStep ==
  ASSUME RingInv, Issue, UNCHANGED request, issued < request.iterations, slot \in 0 .. depth - 1,
         TagIdle(slot)
  PROVE  /\ issued' \in 0 .. request.iterations /\ off' \in Nat
         /\ inflight' \in SUBSET [n : 0 .. request.iterations - 1, slot : 0 .. depth - 1, off : Nat]
         /\ SlotsDisjoint' /\ InsideWindow' /\ Numbered' /\ Started' /\ Aligned'
<1> USE DepthType
<1>1. request \in Requests /\ issued \in Nat /\ off \in Nat
  BY DEF RingInv, RingTypeOK
<1>2. depth' = depth /\ csize' = csize
  BY DEF depth, csize
<1>3. PICK m \in Nat, k \in Nat : request.window = m * csize /\ off = k * csize /\ k < m
  BY DEF RingInv, Aligned
<1>4. csize \in Nat /\ csize > 0
  BY <1>1
<1>5. /\ off + csize <= request.window
      /\ off' = IF k + 1 = m THEN 0 ELSE (k + 1) * csize
  BY <1>3, <1>4, NextOffset DEF Issue
<1>6. issued' = issued + 1 /\ inflight' = inflight \cup {Command(issued, slot, off)}
  BY DEF Issue
<1>7. issued' \in 0 .. request.iterations
  BY <1>1, <1>6
<1>8. off' \in Nat /\ Aligned'
  <2>1. CASE k + 1 = m
    BY <1>3, <1>4, <1>5, <1>2, <2>1, 0 * csize = 0, 0 < m DEF Aligned
  <2>2. CASE k + 1 # m
    <3>1. (k + 1) * csize \in Nat /\ k + 1 \in Nat /\ k + 1 < m
      BY <1>3, <1>4, <2>2
    <3>2. request'.window = m * csize' /\ off' = (k + 1) * csize'
      BY <1>2, <1>3, <1>5, <2>2
    <3>3. QED BY <3>1, <3>2, <1>2 DEF Aligned
  <2>3. QED BY <2>1, <2>2
<1>9. inflight' \in SUBSET [n : 0 .. request.iterations - 1, slot : 0 .. depth - 1, off : Nat]
  <2>1. Command(issued, slot, off) \in [n : 0 .. request.iterations - 1, slot : 0 .. depth - 1, off : Nat]
    BY <1>1, issued \in 0 .. request.iterations - 1 DEF Command
  <2>2. QED BY <1>6, <2>1 DEF RingInv, RingTypeOK
<1>10. SlotsDisjoint'
  BY <1>6 DEF SlotsDisjoint, RingInv, TagIdle, Command
<1>11. InsideWindow'
  BY <1>2, <1>5, <1>6 DEF InsideWindow, RingInv, Command
<1>12. \A c \in inflight : c.n \in Nat /\ c.n < issued
  BY <1>1 DEF RingInv, Started, RingTypeOK
<1>13. Numbered'
  BY <1>1, <1>6, <1>12 DEF Numbered, RingInv, Command
<1>14. Started'
  BY <1>1, <1>6, <1>12 DEF Started, Command
<1>15. QED BY <1>7, <1>8, <1>9, <1>10, <1>11, <1>13, <1>14

(* Every step of the kernel and of the MFC keeps the invariant.            *)
LEMMA RingInitially == RingInit => RingInv
<1> SUFFICES ASSUME RingInit PROVE RingInv
  OBVIOUS
<1> USE DepthType
<1>1. request \in Requests
  BY DEF RingInit
<1>2. RingTypeOK
  BY <1>1 DEF RingInit, RingTypeOK
<1>3. SlotsDisjoint /\ InsideWindow /\ Numbered /\ Started
  BY DEF RingInit, SlotsDisjoint, InsideWindow, Numbered, Started
<1>4. Loops
  BY <1>1, 0 * csize = 0 DEF RingInit, Loops, Chunks
<1>5. Aligned
  <2>1. PICK m \in 1 .. request.window : request.window = m * csize
    BY <1>1, RequestAssumption DEF csize
  <2>2. 0 * csize = 0 /\ m \in Nat /\ 0 < m
    BY <1>1
  <2>3. QED BY <2>1, <2>2 DEF Aligned, RingInit
<1>6. QED BY <1>2, <1>3, <1>4, <1>5 DEF RingInv

LEMMA RingInductive == RingInv /\ [RingNext]_ringVars => RingInv'
<1> SUFFICES ASSUME RingInv, [RingNext]_ringVars PROVE RingInv'
  OBVIOUS
<1> USE DepthType
<1>a. /\ request \in Requests /\ RingTypeOK /\ Loops /\ SlotsDisjoint /\ InsideWindow /\ Numbered
      /\ Started /\ Aligned
  BY DEF RingInv, RingTypeOK
<1>b. issued \in Nat /\ slot \in 0 .. depth - 1 /\ depth \in Nat /\ depth > 0 /\ bytes \in Nat
  BY <1>a DEF RingTypeOK
<1>c. UNCHANGED request
  BY DEF RingNext, Fill, Refill, Drain, PutResults, Complete, Returned, ringVars
<1>d. depth' = depth /\ csize' = csize /\ Chunks' = Chunks
  BY <1>c DEF depth, csize, Chunks
<1>1. CASE Fill
  <2>1. issued = slot /\ issued < request.iterations /\ TagIdle(slot) /\ reported = -1
    BY <1>1, <1>a, <1>b DEF Fill, Loops, TagIdle, RingTypeOK
  <2>2. /\ issued' \in 0 .. request.iterations /\ off' \in Nat
        /\ inflight' \in SUBSET [n : 0 .. request.iterations - 1, slot : 0 .. depth - 1, off : Nat]
        /\ SlotsDisjoint' /\ InsideWindow' /\ Numbered' /\ Started' /\ Aligned'
    BY <1>1, <1>b, <1>c, <2>1, IssueStep DEF Fill
  <2>3. RingTypeOK'
    BY <1>1, <1>a, <1>b, <1>c, <1>d, <2>2 DEF Fill, RingTypeOK
  <2>4. Loops'
    <3>1. issued' = issued + 1 /\ inflight' = inflight \cup {Command(issued, slot, off)}
      BY <1>1 DEF Fill, Issue
    <3>2. \A c \in inflight : c.slot < slot
      BY <1>1, <1>a DEF Fill, Loops
    <3>3. \A c \in inflight : c.slot \in Nat
      BY <1>a DEF RingTypeOK
    <3>4. Command(issued, slot, off).slot = slot
      BY DEF Command
    <3>5. \A c \in inflight' : c.slot < slot + 1
      BY <1>b, <3>1, <3>2, <3>3, <3>4
    <3>6. QED BY <1>1, <1>a, <1>b, <1>c, <1>d, <2>1, <3>1, <3>5 DEF Fill, Loops
  <2>5. QED BY <2>2, <2>3, <2>4 DEF RingInv
<1>2. CASE Refill
  <2>1. /\ issued' \in 0 .. request.iterations /\ off' \in Nat
        /\ inflight' \in SUBSET [n : 0 .. request.iterations - 1, slot : 0 .. depth - 1, off : Nat]
        /\ SlotsDisjoint' /\ InsideWindow' /\ Numbered' /\ Started' /\ Aligned'
    BY <1>2, <1>b, <1>c, IssueStep DEF Refill
  <2>2. RingTypeOK'
    BY <1>2, <1>a, <1>b, <1>c, <1>d, <2>1 DEF Refill, RingTypeOK
  <2>3. Loops'
    BY <1>2, <1>a, <1>c, <1>d DEF Refill, Loops
  <2>4. QED BY <2>1, <2>2, <2>3 DEF RingInv
<1>3. CASE Drain
  <2>1. inflight = {}
    BY <1>3, <1>a DEF Drain, drained, TagIdle, RingTypeOK
  <2>2. request.iterations >= depth /\ issued = Chunks /\ Chunks = request.iterations
    BY <1>3, <1>a, <1>b DEF Drain, Loops, Chunks
  <2>3. bytes' = Chunks * csize /\ bytes' \in Nat
    BY <1>3, <1>a, <2>2 DEF Drain
  <2>4. RingTypeOK'
    BY <1>3, <1>a, <1>c, <1>d, <2>3 DEF Drain, RingTypeOK
  <2>5. Loops'
    BY <1>3, <1>a, <1>c, <1>d, <2>1, <2>2, <2>3 DEF Drain, Loops
  <2>6. /\ SlotsDisjoint' /\ InsideWindow' /\ Numbered' /\ Started' /\ Aligned'
    BY <1>3, <1>a, <1>d
    DEF Drain, SlotsDisjoint, InsideWindow, Numbered, Started, Aligned
  <2>7. QED BY <2>4, <2>5, <2>6 DEF RingInv
<1>4. CASE PutResults
  <2>1. RingTypeOK'
    BY <1>4, <1>a, <1>b, <1>c, <1>d DEF PutResults, RingTypeOK
  <2>2. Loops'
    BY <1>4, <1>a, <1>c, <1>d DEF PutResults, Loops
  <2>3. /\ SlotsDisjoint' /\ InsideWindow' /\ Numbered' /\ Started' /\ Aligned'
    BY <1>4, <1>a, <1>d
    DEF PutResults, SlotsDisjoint, InsideWindow, Numbered, Started, Aligned
  <2>4. QED BY <2>1, <2>2, <2>3 DEF RingInv
<1>5. CASE Complete
  <2>1. inflight' \subseteq inflight
    BY <1>5 DEF Complete
  <2>2. RingTypeOK'
    BY <1>5, <1>a, <1>b, <1>c, <1>d, <2>1 DEF Complete, RingTypeOK
  <2>3. Loops'
    BY <1>5, <1>a, <1>c, <1>d, <2>1 DEF Complete, Loops
  <2>4. SlotsDisjoint' /\ Numbered'
    BY <1>a, <2>1 DEF SlotsDisjoint, Numbered
  <2>5. InsideWindow' /\ Started' /\ Aligned'
    BY <1>5, <1>a, <1>d, <2>1 DEF Complete, InsideWindow, Started, Aligned
  <2>6. QED BY <2>2, <2>3, <2>4, <2>5 DEF RingInv
<1>6. CASE UNCHANGED ringVars
  <2>1. RingTypeOK' /\ Loops'
    BY <1>6, <1>a, <1>d DEF ringVars, RingTypeOK, Loops
  <2>2. /\ SlotsDisjoint' /\ InsideWindow' /\ Numbered' /\ Started' /\ Aligned'
    BY <1>6, <1>a, <1>d
    DEF ringVars, SlotsDisjoint, InsideWindow, Numbered, Started, Aligned
  <2>3. QED BY <2>1, <2>2 DEF RingInv
<1>7. QED BY <1>1, <1>2, <1>3, <1>4, <1>5, <1>6 DEF RingNext, Returned

LEMMA RingInvariance == RingSpec => []RingInv
<1>1. QED BY RingInitially, RingInductive, PTL DEF RingSpec

-----------------------------------------------------------------------------
(* Type correctness, for every ring.                                       *)
THEOREM RingTypeCorrect == RingSpec => []RingTypeOK
<1>1. RingInv => RingTypeOK
  BY DEF RingInv
<1>2. QED BY <1>1, RingInvariance, PTL

(* No two outstanding transfers use one slot of spu_dma_kernel.c's ring.   *)
THEOREM SlotSafety == RingSpec => []SlotsDisjoint
<1>1. RingInv => SlotsDisjoint
  BY DEF RingInv
<1>2. QED BY <1>1, RingInvariance, PTL

(* No transfer of spu_dma_kernel.c leaves the window of its SPE.           *)
THEOREM WindowSafety == RingSpec => []InsideWindow
<1>1. RingInv => InsideWindow
  BY DEF RingInv
<1>2. QED BY <1>1, RingInvariance, PTL

-----------------------------------------------------------------------------
(* The ring implements the stream of chunks.                               *)

Pending == {c.n : c \in inflight}

LEMMA StreamInit == RingInit => Stream!Init
<1> SUFFICES ASSUME RingInit PROVE Stream!Init
  OBVIOUS
<1>1. request \in Requests
  BY DEF RingInit
<1>2. Chunks \in Nat /\ csize \in Nat
  BY <1>1, DepthType DEF Chunks
<1>3. [chunks |-> Chunks, size |-> csize] \in [chunks : Nat, size : Nat]
  BY <1>2
<1>4. QED BY <1>3 DEF RingInit, Stream!Init, Chunks

(* A command issued is a chunk started.                                    *)
LEMMA IssueStarts ==
  ASSUME RingInv, Issue, UNCHANGED <<request, reported>>, request.iterations >= depth,
         issued < request.iterations
  PROVE  Stream!Start
<1>1. depth' = depth /\ csize' = csize
  BY DEF depth, csize
<1>2. inflight' = inflight \cup {Command(issued, slot, off)} /\ issued' = issued + 1
  BY DEF Issue
<1>3. Pending' = Pending \cup {issued}
  <2>1. Command(issued, slot, off).n = issued
    BY DEF Command
  <2>2. Pending' = {c.n : c \in inflight \cup {Command(issued, slot, off)}}
    BY <1>2 DEF Pending
  <2>3. QED BY <2>1, <2>2 DEF Pending
<1>4. request.iterations \in Nat /\ depth \in Nat
  BY DepthType DEF RingInv, RingTypeOK
<1>5. QED BY <1>1, <1>2, <1>3, <1>4 DEF Stream!Start, Pending

LEMMA StreamNext == RingInv /\ [RingNext]_ringVars => [Stream!Next]_(Stream!vars)
<1> SUFFICES ASSUME RingInv, [RingNext]_ringVars PROVE [Stream!Next]_(Stream!vars)
  OBVIOUS
<1>a. request \in Requests /\ Loops /\ Numbered
  BY DEF RingInv, RingTypeOK
<1>b. depth \in Nat /\ depth > 0 /\ request.iterations \in Nat /\ csize \in Nat /\ issued \in Nat
  BY <1>a, DepthType DEF RingInv, RingTypeOK
<1>c. UNCHANGED request
  BY DEF RingNext, Fill, Refill, Drain, PutResults, Complete, Returned, ringVars
<1>d. depth' = depth /\ csize' = csize
  BY <1>c DEF depth, csize
<1>1. CASE Fill
  <2>1. slot \in Nat /\ slot < depth /\ issued = slot /\ request.iterations >= depth
    BY <1>1, <1>a, <1>b DEF Fill, Loops, RingInv, RingTypeOK
  <2>2. Stream!Start
    BY <1>1, <1>b, <1>c, <2>1, IssueStarts DEF Fill
  <2>3. QED BY <2>2 DEF Stream!Next
<1>2. CASE Refill
  <2>1. Stream!Start
    BY <1>2, <1>a, <1>c, IssueStarts DEF Refill, Loops
  <2>2. QED BY <2>1 DEF Stream!Next
<1>3. CASE Drain
  BY <1>3, <1>c, <1>d DEF Drain, Stream!vars
<1>4. CASE PutResults
  <2>1. inflight = {} /\ issued = Chunks /\ bytes = Chunks * csize /\ reported = -1
    BY <1>4, <1>a DEF PutResults, Loops
  <2>2. Pending = {} /\ Pending' = {}
    BY <1>4, <2>1 DEF PutResults, Pending
  <2>3. Stream!Report
    BY <1>4, <1>c, <1>d, <2>1, <2>2 DEF PutResults, Stream!Report, Pending, Chunks
  <2>4. QED BY <2>3 DEF Stream!Next
<1>5. CASE Complete
  <2>1. PICK c \in inflight : inflight' = inflight \ {c}
    BY <1>5 DEF Complete
  <2>2. Pending' = Pending \ {c.n} /\ c.n \in Pending
    BY <1>a, <2>1 DEF Pending, Numbered
  <2>3. Stream!Land
    BY <1>5, <1>c, <1>d, <2>2 DEF Complete, Stream!Land, Pending
  <2>4. QED BY <2>3 DEF Stream!Next
<1>6. CASE UNCHANGED ringVars
  BY <1>6, <1>d DEF ringVars, Stream!vars
<1>7. QED BY <1>1, <1>2, <1>3, <1>4, <1>5, <1>6 DEF RingNext, Returned

(* The bytes that an SPE of the dma and eib benches reports have all been  *)
(* moved, each chunk once and none left in flight.                         *)
THEOREM ImplementsStream == RingSpec => StreamSpec
<1>1. QED BY StreamInit, StreamNext, RingInvariance, PTL DEF RingSpec, StreamSpec, Stream!Spec
=============================================================================
