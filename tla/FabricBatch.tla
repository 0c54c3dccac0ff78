----------------------------- MODULE FabricBatch ------------------------------
(***************************************************************************)
(* The main-thread side of the DMA and EIB benchmarks (benches/dma,        *)
(* benches/eib): one batch creates a group, opens a window of the          *)
(* performance counters (engine/pmu.c, DECR build), starts and joins the   *)
(* group, pushes the counters into the page's history, sums the bytes the  *)
(* SPEs report and destroys the group.                                     *)
(*                                                                         *)
(* Bytes are counted in transfers of one SPE's whole batch: an SPE with    *)
(* iterations moves one unit, one without moves none (DmaRing).            *)
(***************************************************************************)
EXTENDS Integers, SequencesExt

CONSTANTS
  NUM_SPES,
  DMA_SWEEP_CHUNKS,       \* dma_sweep_chunk_sizes
  DMA_CHUNK_SIZE_DEFAULT,
  EIB_NXN_TOTAL_PAIRS,
  BATCHES_PER_VALUE,      \* batches at one position of a sweep
  PMU_HISTORY_DEPTH

ASSUME FabricAssumption ==
  /\ NUM_SPES \in Nat \ {0, 1}
  /\ DMA_SWEEP_CHUNKS \in Seq(Nat) /\ DMA_SWEEP_CHUNKS # <<>>
  /\ DMA_CHUNK_SIZE_DEFAULT \in Nat
  /\ EIB_NXN_TOTAL_PAIRS \in 1 .. NUM_SPES * (NUM_SPES - 1)
  /\ BATCHES_PER_VALUE \in Nat \ {0} /\ PMU_HISTORY_DEPTH \in Nat \ {0}

SPEs == 0 .. NUM_SPES - 1

Pages == {"dma", "eib"}

DMA_DIR_GET == 0

DMA_DIR_PUT == 1

EIB_BENCH_PAIRS == 0

EIB_BENCH_HOTSPOT == 1

EIB_BENCH_HOTSPOT_SWEEP == 2

EIB_BENCH_NXN == 3

VARIABLES
  fab,        \* where the batch is, "idle" outside of it
  work,       \* its parameters
  sweep,      \* the sweep it belongs to, or "none"
  pos, here,  \* position of each sweep, batches made there
  group,      \* the kernel has a group of this benchmark
  spes,       \* SPEs that have not returned
  results,    \* g_results while a batch is on, zeroed before the next one
  pmu,        \* g_active, and what the open window observes
  history,    \* the PMU history of each page
  recent      \* (ghost) the last samples of the key of each history

fabric == <<fab, work, sweep, pos, here, group, spes, results, pmu, history,
            recent>>

-----------------------------------------------------------------------------
(* What a batch is asked to do: movers are the SPEs with iterations.       *)

DmaWork(direction, chunk) ==
  [page |-> "dma", key |-> direction * 2^24 + chunk, asked |-> NUM_SPES, movers |-> SPEs]

(* The idx-th ordered pair of SPEs.                                        *)
nxn_pair_for_idx(idx) ==
  LET s == idx \div (NUM_SPES - 1)
      d == idx % (NUM_SPES - 1)
  IN  [src |-> s, dst |-> IF d >= s THEN d + 1 ELSE d]

(* Mutant of hotspotReaders: the last reader is idle.                      *)
hotspotReaders_Short(active_readers) == {i \in SPEs : i # 0 /\ i < active_readers}

(* The SPEs that read from SPE 0.                                          *)
hotspotReaders(active_readers) == {i \in SPEs : ~(i = 0 \/ i > active_readers)}

EibWork(mode, active_readers) ==
  [page |-> "eib", key |-> mode * 2^16 + (active_readers % 2^8),
   asked |-> IF mode = EIB_BENCH_PAIRS THEN NUM_SPES ELSE active_readers,
   movers |-> IF mode = EIB_BENCH_PAIRS THEN SPEs ELSE hotspotReaders(active_readers)]

NxnWork(pair) ==
  [page |-> "eib", key |-> EIB_BENCH_NXN * 2^16 + pair.src * 2^8 + pair.dst,
   asked |-> 1, movers |-> {i \in SPEs : i = pair.src}]

NoWork == [page |-> "none", key |-> -1, asked |-> 0, movers |-> {}]

Sweeps == {"chunk", "hotspot", "nxn"}

(* dma_run_batch and eib_run_batch: the work of each bench, and its sweep. *)
Batches ==
  {<<DmaWork(DMA_DIR_GET, DMA_CHUNK_SIZE_DEFAULT), "none">>,
   <<DmaWork(DMA_DIR_PUT, DMA_CHUNK_SIZE_DEFAULT), "none">>,
   <<DmaWork(DMA_DIR_GET, DMA_SWEEP_CHUNKS[pos["chunk"] + 1]), "chunk">>,
   <<EibWork(EIB_BENCH_PAIRS, 0), "none">>,
   <<EibWork(EIB_BENCH_HOTSPOT, NUM_SPES - 1), "none">>,
   <<EibWork(EIB_BENCH_HOTSPOT_SWEEP, pos["hotspot"] + 1), "hotspot">>,
   <<NxnWork(nxn_pair_for_idx(pos["nxn"])), "nxn">>}

SweepLength(s) ==
  CASE s = "chunk"   -> Len(DMA_SWEEP_CHUNKS)
    [] s = "hotspot" -> NUM_SPES - 1
    [] s = "nxn"     -> EIB_NXN_TOTAL_PAIRS

(* A sweep goes on whether or not its batch gave a result.                 *)
Advance(s) ==
  IF s = "none" THEN UNCHANGED <<pos, here>>
  ELSE LET over == here[s] + 1 >= BATCHES_PER_VALUE IN
         /\ here' = [here EXCEPT ![s] = IF over THEN 0 ELSE @ + 1]
         /\ pos' = IF over THEN [pos EXCEPT ![s] = (@ + 1) % SweepLength(s)] ELSE pos

-----------------------------------------------------------------------------
(* engine/pmu.c.                                                           *)

NoSample == [key |-> -1, n |-> 0]

Emptied(key) ==
  [key |-> key, head |-> 0, filled |-> 0,
   samples |-> [i \in 0 .. PMU_HISTORY_DEPTH - 1 |-> NoSample]]

(* Mutant of pmu_history_push: filled does not stop at the depth - 1.      *)
pmu_history_push_Short(h, x) ==
  [h EXCEPT !.samples[h.head] = x,
            !.head = (@ + 1) % PMU_HISTORY_DEPTH,
            !.filled = IF @ < PMU_HISTORY_DEPTH - 1 THEN @ + 1 ELSE @]

pmu_history_push(h, x) ==
  [h EXCEPT !.samples[h.head] = x,
            !.head = (@ + 1) % PMU_HISTORY_DEPTH,
            !.filled = IF @ < PMU_HISTORY_DEPTH THEN @ + 1 ELSE @]

(* What pmu_history_summary sorts.                                         *)
Summarised(h) == {h.samples[i] : i \in 0 .. h.filled - 1}

Closed == [active |-> FALSE, observes |-> -1]

-----------------------------------------------------------------------------
FabricInit ==
  /\ fab = "idle" /\ work = NoWork /\ sweep = "none"
  /\ pos = [s \in Sweeps |-> 0] /\ here = [s \in Sweeps |-> 0]
  /\ group = FALSE /\ spes = {} /\ results = [i \in SPEs |-> 0]
  /\ pmu = Closed
  /\ history = [p \in Pages |-> Emptied(-1)]
  /\ recent = [p \in Pages |-> <<>>]

(* The run function returns, with the group destroyed.                     *)
Return(s) ==
  /\ group' = FALSE /\ results' = [i \in SPEs |-> 0]
  /\ fab' = "idle" /\ work' = NoWork /\ sweep' = "none"
  /\ Advance(s)

(* No region, no image or no group: 0.0 is returned.                       *)
NotCreated(w, s) ==
  /\ fab = "idle"
  /\ Return(s)
  /\ UNCHANGED <<spes, pmu, history, recent>>

Create(w, s) ==
  /\ fab = "idle"
  /\ group' = TRUE
  /\ work' = w /\ sweep' = s
  /\ results' = [i \in SPEs |-> 0]
  /\ fab' = "created"
  /\ UNCHANGED <<pos, here, spes, pmu, history, recent>>

ThreadFails ==
  /\ fab = "created"
  /\ Return(sweep)
  /\ UNCHANGED <<spes, pmu, history, recent>>

(* pmu_begin or pmu_begin_spu, whose result is not looked at.              *)
BeginWindow(opened) ==
  /\ fab = "created"
  /\ pmu' = IF pmu.active \/ ~opened THEN pmu ELSE [active |-> TRUE, observes |-> work.key]
  /\ fab' = "window"
  /\ UNCHANGED <<work, sweep, pos, here, group, spes, results, history, recent>>

(* Mutant of StartFails: the window stays open.                            *)
StartFails_WindowKept ==
  /\ fab = "window"
  /\ Return(sweep)
  /\ UNCHANGED <<spes, pmu, history, recent>>

StartFails ==
  /\ fab = "window"
  /\ pmu' = Closed
  /\ Return(sweep)
  /\ UNCHANGED <<spes, history, recent>>

Start ==
  /\ fab = "window"
  /\ spes' = SPEs
  /\ fab' = "join"
  /\ UNCHANGED <<work, sweep, pos, here, group, results, pmu, history, recent>>

(* An SPE puts its result, waits for the put, and returns.                 *)
SpeReturns(i) ==
  /\ i \in spes
  /\ results' = [results EXCEPT ![i] = IF i \in work.movers THEN 1 ELSE 0]
  /\ spes' = spes \ {i}
  /\ UNCHANGED <<fab, work, sweep, pos, here, group, pmu, history, recent>>

(* The join reports an error.                                              *)
JoinFails ==
  /\ fab = "join" /\ spes = {}
  /\ pmu' = Closed
  /\ Return(sweep)
  /\ UNCHANGED <<spes, history, recent>>

(* The sample that the window gives, numbered within the last few.         *)
Sample(old) ==
  [key |-> pmu.observes,
   n |-> IF old = <<>> THEN 0 ELSE (Last(old).n + 1) % (PMU_HISTORY_DEPTH + 1)]

LastOf(s) == IF Len(s) > PMU_HISTORY_DEPTH THEN Tail(s) ELSE s

(* A key other than that of the history empties it first.                  *)
Push ==
  LET p   == work.page
      new == history[p].key # work.key
      h   == IF new THEN Emptied(work.key) ELSE history[p]
      old == IF new THEN <<>> ELSE recent[p]
  IN  /\ history' = [history EXCEPT ![p] = pmu_history_push(h, Sample(old))]
      /\ recent' = [recent EXCEPT ![p] = LastOf(Append(old, Sample(old)))]

(* The loop over g_results.                                                *)
SumOfResults ==
  LET total_bytes[n \in 0 .. NUM_SPES] ==
        IF n = 0 THEN 0 ELSE total_bytes[n - 1] + results[n - 1]
  IN  total_bytes[NUM_SPES]

(* The counters are read and pushed if the window was open and readable;   *)
(* the results are summed when the group is over.                          *)
Join(readable) ==
  /\ fab = "join" /\ spes = {}
  /\ pmu' = Closed
  /\ IF pmu.active /\ readable THEN Push ELSE UNCHANGED <<history, recent>>
  /\ Return(sweep)
  /\ UNCHANGED spes

Batch ==
  \/ ThreadFails \/ (\E opened \in BOOLEAN : BeginWindow(opened))
  \/ StartFails \/ Start \/ JoinFails
  \/ (\E readable \in BOOLEAN : Join(readable))

-----------------------------------------------------------------------------
(* Type invariant: indices stay in their tables, the ring in its bounds.   *)
FabricTypeOK ==
  /\ fab \in {"idle", "created", "window", "join"}
  /\ sweep \in Sweeps \cup {"none"}
  /\ \A s \in Sweeps : pos[s] \in 0 .. SweepLength(s) - 1 /\ here[s] \in 0 .. BATCHES_PER_VALUE - 1
  /\ group \in BOOLEAN /\ spes \subseteq SPEs
  /\ results \in [SPEs -> {0, 1}]
  /\ pmu.active \in BOOLEAN
  /\ \A p \in Pages : history[p].head \in 0 .. PMU_HISTORY_DEPTH - 1
                       /\ history[p].filled \in 0 .. PMU_HISTORY_DEPTH

(* The bytes that the results add up to when the group has been joined     *)
(* were moved in this batch by as many SPEs as the bench is about: every   *)
(* SPE, the active readers of the hot spot, or one of an ordered pair.     *)
ReportIsBatch == (fab = "join" /\ spes = {}) => SumOfResults = work.asked

(* A history holds the last samples of one workload and no other: those    *)
(* pushed since the key changed, at most as many as it has room for.       *)
HistoryIsRecent ==
  \A p \in Pages :
    /\ Summarised(history[p]) = {recent[p][j] : j \in DOMAIN recent[p]}
    /\ \A x \in Summarised(history[p]) : x.key = history[p].key

(* A batch leaves no group, no SPE and no window behind.                   *)
FabricClean == fab = "idle" => ~group /\ spes = {} /\ ~pmu.active
=============================================================================
