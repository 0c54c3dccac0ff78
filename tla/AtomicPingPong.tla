--------------------------- MODULE AtomicPingPong ---------------------------
(***************************************************************************)
(* The atomic benchmark (benches/atomic): two SPEs bounce one cache line   *)
(* with getllar / putllc.  Each increments the counter in the line when    *)
(* its parity comes up, and returns the number of its increments by DMA in *)
(* the parameter block it was started with; the PPU joins the group and    *)
(* divides the time of the batch by the sum of both numbers.               *)
(*                                                                         *)
(* A getllar and the test of the value it loaded are one action: the value *)
(* tested is the private copy.  The putllc is another one, so that a store *)
(* of the partner or a spurious loss of the reservation fits in between.   *)
(* The put of the result is asynchronous until its tag is waited for.      *)
(***************************************************************************)
EXTENDS Naturals

CONSTANTS
  Target,      \* iterations_per_spe
  GiveUp,      \* fruitless polls in a row before an SPE leaves (1 << 20)
  MaxLosses    \* bound: reservations lost for no reason per batch

ASSUME TargetAssumption == Target \in Nat \ {0}
ASSUME GiveUpAssumption == GiveUp \in Nat \ {0}
ASSUME LossAssumption   == MaxLosses \in Nat

VARIABLES
  ppu,         \* where atomic_benchmark_run is: "idle", "join" or "report"
  counter,     \* the word in g_atomic_line
  iterations,  \* g_params[s].iterations: the target, then the result
  rounds,      \* total_rounds of the last batch that was measured
  launched,    \* SPEs of the group that really execute
  pc,          \* where main of each SPE is
  val,         \* the counter as s loaded it
  reserved,    \* s holds the reservation of the line
  spin,        \* spin_giveup_count
  successful,  \* successful
  putting,     \* the put of the result of s is in flight
  losses       \* reservations lost for no reason so far in this batch

vars    == <<ppu, counter, iterations, rounds, launched, pc, val, reserved,
             spin, successful, putting, losses>>
ppuVars == <<ppu, rounds, launched>>

NUM_SPES == 2
Spes == 0 .. NUM_SPES - 1

All(v) == [s \in Spes |-> v]

Init ==
  /\ ppu = "idle"
  /\ counter = 0 /\ iterations = All(0) /\ rounds = 0
  /\ launched = {}
  /\ pc = All("none")
  /\ val = All(0) /\ reserved = All(FALSE)
  /\ spin = All(0) /\ successful = All(0) /\ putting = All(FALSE)
  /\ losses = 0

-----------------------------------------------------------------------------
(* The PPU: atomic_benchmark_run.                                          *)

(* The line is reset, the parameters are written, the group is started.    *)
StartBatch(running) ==
  /\ ppu = "idle"
  /\ counter' = 0
  /\ iterations' = All(Target)
  /\ launched' = running
  /\ pc' = All("params")
  /\ reserved' = All(FALSE)
  /\ losses' = 0
  /\ ppu' = "join"
  /\ UNCHANGED <<rounds, val, spin, successful, putting>>

(* A kernel call before the start fails: no thread runs, the (partly built) *)
(* group is destroyed and nothing is reported.  The line is reset already, *)
(* the parameters only if the group could be created.                      *)
StartFails(created) ==
  /\ ppu = "idle"
  /\ counter' = 0
  /\ iterations' = IF created THEN All(Target) ELSE iterations
  /\ launched' = {}
  /\ pc' = All("none")
  /\ reserved' = All(FALSE)
  /\ UNCHANGED <<ppu, rounds, val, spin, successful, putting, losses>>

(* The group is joined when both threads have returned.                    *)
Join ==
  /\ ppu = "join"
  /\ \A s \in Spes : pc[s] = "returned"
  /\ ppu' = "report"
  /\ UNCHANGED <<counter, iterations, rounds, launched, pc, val, reserved,
                 spin, successful, putting, losses>>

(* The join fails: the group is destroyed with whatever its SPEs still do, *)
(* and nothing is reported.  pc only says how far they came.               *)
JoinFails ==
  /\ ppu = "join"
  /\ ppu' = "idle"
  /\ launched' = {}
  /\ reserved' = All(FALSE) /\ putting' = All(FALSE)
  /\ UNCHANGED <<counter, iterations, rounds, pc, val, spin, successful, losses>>

(* total_rounds, unless the batch is void.                                 *)
Report ==
  /\ ppu = "report"
  /\ LET total == iterations[0] + iterations[1]
     IN  rounds' = IF total = 0 THEN rounds ELSE total
  /\ ppu' = "idle"
  /\ UNCHANGED <<counter, iterations, launched, pc, val, reserved, spin,
                 successful, putting, losses>>

-----------------------------------------------------------------------------
(* An SPE: main of spu_atomic_main.c.                                      *)

GetParams(s) ==
  /\ pc[s] = "params"
  /\ pc' = [pc EXCEPT ![s] = "loop"]
  /\ successful' = [successful EXCEPT ![s] = 0]
  /\ spin' = [spin EXCEPT ![s] = 0]
  /\ UNCHANGED <<ppuVars, counter, iterations, val, reserved, putting, losses>>

(* Mutant of Getllar: the idle polls are not counted.                      *)
Getllar_NeverGivesUp(s) ==
  /\ pc[s] = "loop" /\ successful[s] < Target
  /\ val' = [val EXCEPT ![s] = counter]
  /\ reserved' = [reserved EXCEPT ![s] = TRUE]
  /\ pc' = [pc EXCEPT ![s] = IF counter % 2 = s THEN "store" ELSE "loop"]
  /\ UNCHANGED <<ppuVars, counter, iterations, spin, successful, putting, losses>>

(* One poll: load the line with a reservation and look at its parity.      *)
Getllar(s) ==
  /\ pc[s] = "loop" /\ successful[s] < Target
  /\ val' = [val EXCEPT ![s] = counter]
  /\ reserved' = [reserved EXCEPT ![s] = TRUE]
  /\ LET spins == IF counter % 2 = s THEN 0 ELSE spin[s] + 1
     IN  /\ spin' = [spin EXCEPT ![s] = spins]
         /\ pc' = [pc EXCEPT ![s] = IF counter % 2 = s THEN "store"
                                    ELSE IF spins >= GiveUp THEN "put" ELSE "loop"]
  /\ UNCHANGED <<ppuVars, counter, iterations, successful, putting, losses>>

(* Mutant of PutllcLost: the status of the putllc is not looked at.        *)
PutllcLost_StatusIgnored(s) ==
  /\ pc[s] = "store" /\ ~reserved[s]
  /\ successful' = [successful EXCEPT ![s] = @ + 1]
  /\ pc' = [pc EXCEPT ![s] = "loop"]
  /\ UNCHANGED <<ppuVars, counter, iterations, val, reserved, spin, putting, losses>>

(* The conditional store: it ends every reservation of the line.           *)
PutllcDone(s) ==
  /\ pc[s] = "store" /\ reserved[s]
  /\ counter' = val[s] + 1
  /\ reserved' = All(FALSE)
  /\ successful' = [successful EXCEPT ![s] = @ + 1]
  /\ pc' = [pc EXCEPT ![s] = "loop"]
  /\ UNCHANGED <<ppuVars, iterations, val, spin, putting, losses>>

(* The reservation was lost: nothing is stored, the round is retried.      *)
PutllcLost(s) ==
  /\ pc[s] = "store" /\ ~reserved[s]
  /\ pc' = [pc EXCEPT ![s] = "loop"]
  /\ UNCHANGED <<ppuVars, counter, iterations, val, reserved, spin, successful,
                 putting, losses>>

(* The rounds are done.                                                    *)
LoopDone(s) ==
  /\ pc[s] = "loop" /\ successful[s] >= Target
  /\ pc' = [pc EXCEPT ![s] = "put"]
  /\ UNCHANGED <<ppuVars, counter, iterations, val, reserved, spin, successful,
                 putting, losses>>

(* The count is put back into the parameter block.                         *)
PutResult(s) ==
  /\ pc[s] = "put"
  /\ putting' = [putting EXCEPT ![s] = TRUE]
  /\ pc' = [pc EXCEPT ![s] = "wait"]
  /\ UNCHANGED <<ppuVars, counter, iterations, val, reserved, spin, successful,
                 losses>>

(* Mutant of Return: the tag of the put is not waited for.                 *)
Return_NoTagWait(s) ==
  /\ pc[s] = "wait"
  /\ pc' = [pc EXCEPT ![s] = "returned"]
  /\ UNCHANGED <<ppuVars, counter, iterations, val, reserved, spin, successful,
                 putting, losses>>

(* dma_wait_tag, then main returns.                                        *)
Return(s) ==
  /\ pc[s] = "wait" /\ ~putting[s]
  /\ pc' = [pc EXCEPT ![s] = "returned"]
  /\ UNCHANGED <<ppuVars, counter, iterations, val, reserved, spin, successful,
                 putting, losses>>

-----------------------------------------------------------------------------
(* The memory flow controller and the cache.                               *)

PutLands(s) ==
  /\ putting[s]
  /\ iterations' = [iterations EXCEPT ![s] = successful[s]]
  /\ putting' = [putting EXCEPT ![s] = FALSE]
  /\ UNCHANGED <<ppuVars, counter, pc, val, reserved, spin, successful, losses>>

(* A reservation may be lost though nobody stored to the line.             *)
LoseReservation(s) ==
  /\ reserved[s] /\ losses < MaxLosses
  /\ reserved' = [reserved EXCEPT ![s] = FALSE]
  /\ losses' = losses + 1
  /\ UNCHANGED <<ppuVars, counter, iterations, pc, val, spin, successful, putting>>

-----------------------------------------------------------------------------
Ppu ==
  \/ \E running \in SUBSET Spes : StartBatch(running)
  \/ \E created \in BOOLEAN : StartFails(created)
  \/ Join \/ JoinFails \/ Report

SpeMain(s) ==
  /\ s \in launched
  /\ \/ GetParams(s) \/ Getllar(s) \/ PutllcDone(s) \/ PutllcLost(s)
     \/ LoopDone(s) \/ PutResult(s) \/ Return(s)

Next == Ppu \/ \E s \in Spes : SpeMain(s) \/ PutLands(s) \/ LoseReservation(s)

Spec == Init /\ [][Next]_vars

(* An SPE that executes has its processor for itself, a DMA completes, and *)
(* the PPU wakes from a join that can return.  Nothing makes a spurious    *)
(* loss happen, nor an SPE that was not launched move.                     *)
FairSpec ==
  /\ Spec
  /\ WF_vars(Join \/ Report)
  /\ \A s \in Spes : WF_vars(SpeMain(s)) /\ WF_vars(PutLands(s))

-----------------------------------------------------------------------------
(* Type invariant.                                                         *)
TypeOK ==
  /\ ppu \in {"idle", "join", "report"}
  /\ counter \in 0 .. 2 * Target
  /\ iterations \in [Spes -> 0 .. Target]
  /\ rounds \in 0 .. 2 * Target
  /\ launched \subseteq Spes
  /\ pc \in [Spes -> {"none", "params", "loop", "store", "put", "wait", "returned"}]
  /\ val \in [Spes -> 0 .. 2 * Target]
  /\ reserved \in [Spes -> BOOLEAN]
  /\ spin \in [Spes -> 0 .. GiveUp]
  /\ successful \in [Spes -> 0 .. Target]
  /\ putting \in [Spes -> BOOLEAN]
  /\ losses \in 0 .. MaxLosses

(* The increments of this batch: before main has read its parameters an    *)
(* SPE has made none.                                                      *)
Wins == [s \in Spes |-> IF pc[s] \in {"none", "params"} THEN 0 ELSE successful[s]]

Alternating == INSTANCE AlternatingCounter WITH rounds <- counter, wins <- Wins

(* The line bounces strictly between the two SPEs, every successful putllc *)
(* is one round, and no round is counted that the line did not make,       *)
(* whatever reservation is lost in between (spu_atomic_main.c:36-69).      *)
AlternationSpec == Alternating!Spec

(* Neither SPE is ever more than one round ahead, and the counter is the   *)
(* sum of both counts: "total transfers = total rounds".                   *)
RoundsBalanced ==
  /\ counter = Wins[0] + Wins[1]
  /\ Wins[0] = Wins[1] + (counter % 2)

(* When the PPU computes total_rounds both results have arrived: the sum   *)
(* it divides by is the counter left in the line.                          *)
ReportIsExact == ppu = "report" => iterations[0] + iterations[1] = counter

(* What an SPE has left to do if the line stays as it is and reservations  *)
(* hold.                                                                   *)
StepsLeft(s) ==
  (CASE pc[s] \in {"none", "returned"}      -> 0
     [] pc[s] = "wait"                      -> 1
     [] pc[s] = "put"                       -> 3
     [] pc[s] = "loop"                      -> 4 + GiveUp - spin[s]
     [] pc[s] = "store" /\ reserved[s]      -> 4
     [] pc[s] = "params"                    -> 5 + GiveUp
     [] pc[s] = "store" /\ ~reserved[s]     -> 5 + GiveUp)
  + (IF putting[s] THEN 1 ELSE 0)

(* A round, or a lost reservation, lets an SPE poll from zero again.       *)
Budget ==
  (GiveUp + 2) * ((2 * Target - counter) + (MaxLosses - losses))
    + (StepsLeft(0) + StepsLeft(1))

(* No livelock: with getllar, putllc and the give-up, whatever the         *)
(* interleaving, each step of either SPE uses up some of a budget that     *)
(* only a new batch renews: the two cannot keep each other busy without    *)
(* the line making rounds.                                                 *)
StepsRunOut ==
  [][\A s \in Spes : SpeMain(s) \/ PutLands(s) \/ LoseReservation(s)
        => Budget' \in 0 .. Budget - 1]_vars

(* An SPE that executes returns, even when its partner was never launched  *)
(* (the give-up of spu_atomic_main.c:48-54), or is destroyed.              *)
LaunchedReturns ==
  \A s \in Spes : (ppu = "join" /\ s \in launched) ~> (pc[s] = "returned" \/ ppu # "join")
=============================================================================
