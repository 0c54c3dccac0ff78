----------------------------- MODULE FabricPages ------------------------------
(***************************************************************************)
(* The dma and the fabric page (engine/bench_modules.c): every tick runs   *)
(* one batch of the selected bench to its end before the main loop takes   *)
(* input again, so that the batches of Mailbox and FabricBatch follow each *)
(* other in any order, and share the SPEs, which each of them needs.       *)
(***************************************************************************)
EXTENDS Mailbox, FabricBatch

allVars == <<mailbox, fabric>>

BetweenTicks == mbox = "idle" /\ fab = "idle"

Init == MailboxInit /\ FabricInit

(* dma_tick, and eib_tick with one of the EIB benches selected.            *)
FabricTick ==
  /\ BetweenTicks
  /\ \E b \in Batches : NotCreated(b[1], b[2]) \/ Create(b[1], b[2])
  /\ UNCHANGED mailbox

(* eib_tick with EIB_BENCH_MBOX.                                           *)
MboxTick ==
  /\ BetweenTicks
  /\ \E failed \in {"none"} \cup {SetupCalls[k] : k \in DOMAIN SetupCalls} : Setup(failed)
  /\ UNCHANGED fabric

(* Another bench or page; a disabled mailbox bench.                        *)
OtherTick == BetweenTicks /\ UNCHANGED allVars

MainThread == (Ppu /\ UNCHANGED fabric) \/ (Batch /\ UNCHANGED mailbox)

FabricSpe == (\E i \in SPEs : SpeReturns(i)) /\ UNCHANGED mailbox

MailboxSpe == Spe /\ UNCHANGED fabric

Next == FabricTick \/ MboxTick \/ OtherTick \/ MainThread \/ FabricSpe \/ MailboxSpe

(* The main thread goes on, and the SPEs of a DMA or EIB batch return; of  *)
(* the mailbox SPE nothing is assumed, the timeout makes up for it.        *)
Spec == Init /\ [][Next]_allVars /\ WF_allVars(MainThread) /\ WF_allVars(FabricSpe)

-----------------------------------------------------------------------------
(* Type invariant.                                                         *)
TypeOK == MailboxTypeOK /\ FabricTypeOK

(* When input is taken, and the page may be turned to one that needs all   *)
(* six SPEs or the performance counters, neither benchmark has left a      *)
(* group, a thread, a queue, a connection or an open window, whichever of  *)
(* its calls has failed.                                                   *)
NothingLeftBehind ==
  /\ MailboxClean /\ FabricClean
  /\ mbox # "idle" => fab = "idle"

(* What a batch has left to do: its rounds and the calls of the cleanup    *)
(* label, or the calls before the join and the SPEs it waits for.          *)
RoundsLeft ==
  CASE mbox = "send"         -> 2 * (Iterations - completed) + 4
    [] mbox = "receive"      -> 2 * (Iterations - completed) + 3
    [] mbox = "disconnect"   -> 4
    [] mbox = "destroyQueue" -> 3
    [] mbox = "terminate"    -> 2
    [] mbox = "destroyGroup" -> 1
    [] OTHER                 -> 0

CallsLeft ==
  CASE fab = "created" -> NUM_SPES + 3
    [] fab = "window"  -> NUM_SPES + 2
    [] fab = "join"    -> Cardinality(spes) + 1
    [] OTHER           -> 0

(* No batch goes round in circles: whichever call fails and however late   *)
(* the mailbox SPE answers, each step of the main thread and of an SPE it  *)
(* joins brings the end of the batch nearer.                               *)
BatchesRunDown ==
  [][MainThread \/ FabricSpe
       => RoundsLeft' + CallsLeft' \in 0 .. RoundsLeft + CallsLeft - 1]_allVars

(* Every batch ends, also when the SPE of the mailbox never answers.       *)
EveryBatchReturns == ~BetweenTicks ~> BetweenTicks
=============================================================================
