# CellMark in TLA+

CellMark is a benchmark and stress suite for the PlayStation 3: one PPU main
loop draws pages and drives bench modules, which start thread groups on the six
SPEs, DMA engines, PPU threads and performance counters. This directory holds
TLA+ models of it, their TLC configurations and TLAPS proofs. Every definition
is translated from the C source; `PROJECT.json` names the lines of each under
`map`, and the mutants that show each property can be broken by a plausible bug.

To run: `tlc -workers 2 -config MCEngine.cfg MCEngine` (module and cfg of each
run are in `PROJECT.json`), `tlapm EngineProofs.tla`.

## 1. Inventory

| part | state it keeps | operations | what is hard | what makes it correct |
|---|---|---|---|---|
| main loop and engine (`ppu/main.c`, `engine/cellmark_engine.c`, `bench_registry.c`, `include/bench.h`) | category index, current category and module, previous buttons, `app_running` | build index, init all, input, tick, render, shutdown | page turn, module turn and exit in one frame; repeated, NULL and too many categories; failing init | selection in range, one started module, hook lifecycle of `bench.h`, every module on one page, everything cleaned up |
| cell, xdr and ppe pages (`engine/bench_modules.c`) | selected kernel, test and bench; `g_cell_active`, `g_xdr_active` | start, stop, input, tick | the same SPE group and counters used by several pages | the group runs what the page selects and exists exactly while it is active |
| stress group (`engine/spu.c`) and its region (`ppu/main.c`) | group id, threads, parameter and result blocks; region and its size | allocate, start, stop | three kernel calls that may fail; 100 ms from stop word to terminate; odd sizes | no leaked group; disjoint memory slices inside the region |
| performance counters (`engine/pmu.c`, `engine/cell_pmu.c`) | one open window, sampler state, rings of samples | begin, end-and-read, sampler tick, push, summary | windows left open over page changes, refused by libperf, closed by the wrong user | every window has an owner; samples enter the history they belong to; a history is the last samples of one workload |
| memtest on the SPEs (`benches/cell/spu/spu_memtest.c`) | slices of the region, flag line, results | 15 tests, stop word, coherency handshake | six SPEs unsynchronised in the cycle; polls limited; two puts outstanding without a fence; restart on old memory | no false error; a READY flag stands for data |
| compute stress (`benches/cell/spu/spu_stress.c`) | result block | loop, publish, stop | numeric only | - (see section 5) |
| atomic bench (`benches/atomic`) | one cache line, reservations, result words | getllar, putllc, give up, put, join, report | lost reservations, partner that never runs | strict alternation, exact report, termination |
| DMA kernels (`engine/spu_shared`, SPE programs of `benches/dma`, `benches/eib`) | ring of slots, tags, commands in flight | issue, wait for a tag, drain, put the result | reuse of slots in flight, any order of completion, clamped parameters | no reuse before completion, all bytes moved exactly once |
| DMA and EIB batches (PPU side) | sweeps, histories, group, window | batch, advance the sweep | failing calls, batches of different workloads, pairing | nothing left behind, the bytes are of this batch |
| burn (`benches/burn`) | group, stop flag, progress counters | start, stop, tick | start in five failing calls, region of any size | group exists while active; SPEs stay in the region |
| mailbox bench (`benches/mbox`) | event queue, port, group, tokens | write, receive with timeout, cleanup | timeout racing the answer; cleanup order | no token taken for another; every resource released once; every batch ends |
| Mandelbrot viewer (`benches/mandelbrot`) | frame buffer, RSX mapping, cached view | allocate, map, render, blit, release | buffer freed or overwritten under a queued blit; cache against view | every blit reads the whole picture of the current view |
| display (`engine/gcm.c`) | two colour buffers, RSX command queue | clear, blit, text, flip | the RSX lags behind the main thread | only whole frames are shown |
| disk bench (`benches/disk`) | thread flags, one I/O buffer, test file, results | trigger, bench thread, probes, contenders | two worker threads, unlocked flags, failing creates | no thread lost, no join that waits; flags tell the truth |
| ppe benches (`benches/ppe`) | `g_smt` handshake, profiles | batch, dispatch, wait | weakly ordered handshake with unbounded spins | the times read are of the job dispatched; the batch ends |
| pi, fft, nbody, branch, workload kernels | none between batches | one batch | numeric only | - |
| pages, status (`render.c`, `sysmon.c`, `render_*.c`) | a cache of status texts | draw | output only | - |
| tools, packaging, template | - | - | not part of the program | - |

How they interact: `main` calls the engine once per frame (input, tick, render)
and `cell_pmu_tick` after every tick; the engine calls the hooks of the selected
module; hooks call `spu.c`, `pmu.c` and the kernel. SPE programs share main memory
with the PPU through parameter and result blocks, mailboxes and DMA. The disk
bench and the SMT bench start PPU threads of their own. The RSX reads what the
Mandelbrot SPEs write.

The hazards of this code, each at its line with the properties that watch it, are
`hazards` in `PROJECT.json`.

## 2. Modules

| module | models | state and actions |
|---|---|---|
| `BenchLifecycle` | the promise of `include/bench.h` to a module | `life[m]` (new, idle, running, cleaned) and the module served last; one action per hook |
| `Engine` | `cellmark_engine.c` and the frame loop of `main.c` | the index is built entry by entry (`IndexSkip`, `IndexSame`, `IndexNew`, `IndexTruncate` for the branches of `build_category_index`); `InitModule`; `Frame` is one iteration of the loop up to the tick: pad edges, exit chord, `handle_input` with the switch it makes; `Tick`; `Render`; shutdown module by module. `running`, `cleanups` and `served` are observers of the hooks called |
| `AlternatingCounter` | what the ping-pong promises | a counter increased in turn by two |
| `AtomicPingPong` | `benches/atomic`, both sides | PPU: batch started, failed before the start, joined, reported, or the join failed and the group destroyed with its SPEs at work. SPE: parameters, `Getllar` with its test, `PutllcDone`/`PutllcLost`, put of the result, wait, return. External: the put that lands, a reservation lost for no reason |
| `SpeRegion` | the allocation ladder of `main.c`, the slices of `spu.c` | operators only |
| `CellPages` | `bench_modules.c` (cell, xdr, ppe), `spu.c` start/stop, `pmu.c` begin/end, `cell_pmu.c`, start/stop of `benches/burn`, pass logging of `main.c` | one main-loop round is `input`, `enter` (if the page or the selection changed), `pass`, `tick`, `pmu`; the memtest's pass counter advances in between at any point. The stress group is the record `spu`, the burn-in's is `burn`, the open window the record `pmu`; a window remembers what it observed and whether its thread was terminated under it |
| `Memtest` | `spu_memtest.c` on the group of `spu.c` | each SPE has a phase, a test, a loop index. Slice 0 is cut into pieces abstracted to who wrote them: the first line of each chunk (that of chunk 0 has the flag) and the rest of it; coherency data begins a line later, so that its blocks straddle the chunks (`Chunk`, `DataBlock`). `PutChunk` issues a put, waiting for the one before it (all tests but one) or the one before that (`"pipelined"`, `test_bw_pipelined`); the pieces in `puts` are still to land, by `Land`, in any order. A get, or a put of one line, is one action with the mailbox poll before it. The PPU starts, posts the stop words, terminates, and what has not landed never does. `overTorn` is a history variable: the group was started over a READY flag whose data was not all there |
| `Disk` | `disk_benchmark.c`, `disk_*` of `bench_modules.c` | main thread (`Input`, join, start), bench thread, probe thread and the two contenders, each with its place in the code; the flags they share, the two files (missing, short, full), a status per bench and per probe. An action is a step between two accesses to shared state; a loop over a file is one action with its outcome |
| `ChunkStream` | what a DMA kernel promises | chunks are started in order, land in any order, bytes are reported when all have |
| `DmaRing` | `spu_dma_kernel.c` with the two programs that call it | `Fill` is the first loop, `Refill` an iteration of the second (wait for the slot's tag, issue), `Drain` the wait for the mask, then the put of the result; external: the MFC completes any command in flight |
| `Mailbox` | `benches/mbox`, both sides | `Setup` is the six calls before the rounds with the first that fails; `Send`, `Receive`, `Timeout`; the cleanup label call by call; `SpeRead`, `SpeAnswer` |
| `FabricBatch` | PPU side of `benches/dma`, `benches/eib`; `pmu_history_*` | create, failing threads, window, start, join, sum, push, advance the sweep; the SPEs return one by one |
| `FabricPages` | the ticks of the dma and fabric pages | composes `Mailbox` and `FabricBatch`: batches in any order, one at a time |
| `FrameStream` | what the display promises | frames asked for in turn, and the one on the screen; only showing the next one changes it |
| `Display` | `engine/gcm.c`, RSX and video output | queue of commands; `flip_frame`; `RsxStep`, `VBlank` |
| `Mandelbrot` | `benches/mandelbrot` on `Display` | the frame of the main loop: `Input` with the start, stop and input hooks; tick as started, SPE by SPE, joined, or failed; `Render`, `DrawText`, `Flip`; `Shutdown` |
| `SmtWorker` | `run_smt_scaling` and its worker (`benches/ppe`) | main thread: solo, dispatch store by store, wait, read; worker: poll, take, time, answer; the worker's last two stores arrive by actions of their own |
| `EngineProofs`, `AtomicProofs`, `CellPagesProofs`, `MemtestProofs`, `DiskProofs`, `FabricProofs`, `SmtProofs`, `MandelbrotProofs` | | proofs, see section 4 |
| `MCEngine`, `MCMemtest`, `MCDisk`, `MCDmaRing`, `MCFabricPages`, `MCMandelbrot`, `MCSmtWorker` | | instances for TLC |

Abstractions. `Engine`: module hooks have no inside; a tick or render changes
nothing of the engine. `CellPages`: the pages without a long-lived group are one
kind, "other"; times are choices (`due` or not); a history is the sample pushed
last with the key the history had. `Memtest`: the pattern tests write the slice
once from chunk 0 upwards and verify it; a piece changes in one step; slices other than
slice 0 are seen by one SPE only and left out; results are an error flag; the memory itself never fails,
so each error is a false one. `Disk`: a loop over a file is one step, the I/O
buffer's contents and the times are left out; a thread that was not created has
no id. `AtomicPingPong`, `Mailbox`, `FabricBatch`: times and their moving averages
are left out; bytes are counted in an SPE's share of a batch. `DmaRing`: get and
put differ in nothing but their direction and are one model; the mask of the offset is
`%`, the same thing for windows that are powers of two (`MaskAssumption`), as the two
the benches use are. `Mandelbrot`: a view
is an area, a palette and a limit; the resolutions tried are one choice; the hue counts as palette, whoever changes it; the rows
of an SPE are put in one step. `BenchLifecycle`: of what `bench.h` promises, the order of
the hooks; what it says of a failed `init` is `Engine!FailedInitNeverRuns`, which does
not hold (see below). `Disk`: the flags that `disk_input` looks at and its two callees look
at again are looked at once. `SmtWorker`: a time stamp is the job it times; of
the weak memory model only the order of the two stores without a barrier between
them is left open.

Three assumptions about code outside the repository are left open on purpose.
`Memtest!LinesInOrder`: whether the lines of one put land in the order of their
addresses; the properties hold if they do not, the counterexample of
`memtest_torn_flag` needs no more than that they do. `SmtWorker!inOrder`: whether the processor delivers `go =
0` and `done = 1` in order; the times are right either way, but if `done` could be
overtaken, a main thread that dispatches again could lose its command and spin for
ever, so that `BatchEnds` is claimed for `inOrder` only. `Display!sync`: whether
`cellDbgFontDrawGcm`, opened with `CELL_DBGFONT_SYNC_ON`, waits for the RSX before
it queues or after; whole frames are shown either way, but only if it waits after
(or at the end of the frame) is a Mandelbrot blit out of the queue when the next
frame releases or overwrites the frame buffer.

## 3. Runs

| run | bounds | shows |
|---|---|---|
| `engine` | all registries up to 3 modules over 2 categories and NULL, and three of 4 and 5 modules; table of 3 entries; 12 pad states | `SelectionInRange`; `OnlySelectedRuns`; `PagesPartition` (a grouped registry's pages partition its modules); refinement `LifecycleSpec`; `HeldButtonsActOnce`; under fairness `ExitCleansUp` |
| `atomic` | 3 rounds each, give-up 2, 2 spurious losses per batch | `RoundsBalanced`, `ReportIsExact`, refinement `AlternationSpec`, `StepsRunOut` (no livelock), and `LaunchedReturns` under fairness |
| `cell_pages` | 2 kernels, 2 tests, 2 profiles, 2 benches, 1 pass, every size of the ladder | types (the cycle of memtest ids among them); `GroupServesPage`, `SlicesApart`, `WindowHasOwner` under every failing call and every timing |
| `cell_own_history` | as `cell_pages` | violated, see findings |
| `memtest` | 2 SPEs, a pattern, the pipelined, the coherency and the latency test, 3 chunks (2 data blocks), 2 polls, pieces landing in any order | `ReadyMeansWritten`, `SoloTestIsSilent`, `TestsReturn` (a test has a bounded number of steps) over stops, terminations anywhere, puts cut off anywhere, and restarts |
| `memtest_torn_flag` | 2 SPEs, the pipelined and the coherency test, 2 chunks, pieces of a put landing in order | violated, see findings |
| `memtest_false_errors` | 3 SPEs, pattern, bandwidth and coherency test, 30 polls, from one start | violated, see findings |
| `disk` | a write and a random read bench, a write probe and a read probe with both contenders | `ThreadsAccounted`, `FlagsSettled`, `JoinNeverWaits`, `ProbesRunOut` (a suite has a bounded number of steps), and `ProbesEnd` under fairness, with every call of cellFs and every thread creation failing or not |
| `dma_ring` | ring of 3 slots of 2 units, depths 0 to 4, chunks 0 to 3, windows of 1 and 4 chunks, up to 8 transfers | `SlotsDisjoint`, `InsideWindow`, refinement `StreamSpec`, whatever the order of completion |
| `fabric_pages` | 2 SPEs, 2 chunk sizes, both ordered pairs, histories of 2 samples, 3 rounds, 4 tokens | `TokensMatch`, `ReportIsBatch`, `HistoryIsRecent`, `NothingLeftBehind`, `BatchesRunDown` (a batch has a bounded number of steps), and `EveryBatchReturns` under fairness, any call failing and any receive timing out |
| `mandelbrot` | 2 SPEs, 2 areas, 2 palettes, 1 I/O offset | `OnlyWholeFramesShown`, `BufferOwned`, `BlitReadsCurrentPicture`, refinement `FramesSpec`, and `EveryViewIsShown` under fairness |
| `smt_worker` | the two jobs, both orders of the stores, a worker that cannot be created at first | `TimesOfTheJob`, `JobsRunOut` (a batch has a bounded number of steps), and `BatchEnds` under fairness |

Why the bounds are enough. The engine branches on a category being NULL, equal to
the one before, or new, and on the table being full: three modules over two
categories and the longer registries reach every branch and combination of
neighbours. Two rounds of the atomic line return it to the same owner; three
with a give-up of two let an SPE leave at the start, in the middle and at the
end. Two kernels, tests and profiles give a wrong one for each right one. In the
memtest only the first SPE and the last one write to slice 0, so that two
suffice for what is claimed of its contents; an SPE in between only reads, and is
where the coherency test goes wrong in the cycle (`memtest_false_errors` has three). Three
chunks let two puts be outstanding and a third be waited for, and give the coherency
data a block of its own and one that shares a chunk with the flag. The disk page's benches differ in
writing the file afresh and in preparing it, and its probes in having contenders
or not; the file is made again between two of these, and any of the two
contenders may be missing. Eight transfers go round a ring of three twice and
round a window of four chunks twice, and the depths and chunks asked
for include zero and more than there is, the values the clamps are for. Two SPEs
have an idle one and a reader of the hot spot; four tokens in three rounds are as
in the code, where 4096 rounds never come to the end of 24 bits; two samples wrap a history. One I/O offset makes a failed
unmapping felt at the next start. What the runs cannot cover (any registry,
target, number of SPEs, slice size, depth, width) is what the proofs are for.

Deadlock is checked in every run. When a thread of the atomic group never executes, the
PPU may stay in `sys_spu_thread_group_join` for ever; only a failing join ends that, and
nothing is assumed to make it fail.

Fairness. `Engine`: weak fairness of the main thread, the only thread of that
module; it never waits for anything but the frame flip, and the hooks are assumed
to return. `AtomicPingPong`: weak fairness of each SPE that executes (it owns its
processor), of a DMA in flight, and of the PPU's wake-up from a join that can
return; none of starting a batch, of a spurious loss, or of an SPE never launched.
`Disk`: weak fairness of each thread of the page, which the PPU's scheduler gives
them (calls of cellFs return, the main thread sleeps at every flip); none of a
button being pressed. `FabricPages`: weak fairness of the main thread and of SPEs
with a finite number of transfers; none of the mailbox SPE, whose answer may never
come: the timeout is what ends the batch. `Mandelbrot`: weak fairness of the main
loop, the SPEs of its group (a picture is finite), the RSX and the vertical blank.
`SmtWorker`: weak fairness of the two threads, which have a hardware thread each,
and of a store's arrival; none of starting a batch. The other specifications are
safety only.

### Findings

* `NoFalseErrors`: in the cycle of all memory tests SPE 0 waits for the last SPE
  only. It overwrites slice 0 while a slower one still verifies the coherency
  data, which that one counts as memory errors. A test selected alone is proved
  to be silent, with the exception that is the next finding.
* `NoErrorsAlone`: `test_bw_pipelined` issues the put of chunk 1 before it waits for that
  of chunk 0, on another tag. If the group is terminated when chunk 1 has landed and
  chunk 0 has not, a READY flag of an earlier coherency test stays over data that is
  overwritten; the coherency test, selected alone next, believes the flag and counts
  errors on memory that works. The window is a few transfers wide and needs a
  termination 100 ms after the stop word to fall into it; the bandwidth tests are the
  ones that do not poll for that word.
* `OwnRollingHistory`: turning to the ppe page inside the cell page's window: the
  first ppe batch closes that window and keeps its counts as its own.

### Disagreements stated, not run

Five more statements of the documentation are formulas of the modules that the code
does not keep. Each is a direct consequence of one branch of the code, so that no
run is spent on it; TLC refutes it when it is added to the run's cfg.

* `Engine!FailedInitNeverRuns`: `bench.h` says a non-zero `init` disables a bench;
  the engine prints the failure and goes on.
* `CellPages!PerModeHistory`: changing the compute kernel inside an open window
  puts counts of the terminated kernel in the history of the new one.
* `CellPages!EveryPassLogged`: the guard of the pass log tests `current_mode`,
  which the xdr page never sets; no pass is logged.
* `Disk!RunningMeansActive`: `disk_benchmark.h` says the running flag is 1 "while the
  background thread is active"; `disk_trigger_bench` sets it and ignores that its thread
  could not be created, and the page then refuses every bench and probe.
* `Disk!ResultValid`: a write bench that fails halfway leaves a short file and
  `file_ready` set; the random read bench does not compare the bytes read and
  reports DONE for blocks behind the end of the file.

Met while modelling and without consequence for a property: the mask that rounds
the region's size has a hole, since `MAX_SPES * DMA_MAX_SIZE` is no power of two
(`SpeRegion!Masked`), yet every size of the ladder is cut into sound slices; the
comment above the sweep's chunk sizes speaks of "256B .. 16KB" while the sweep
starts with smaller ones.

## 4. Proofs

For every value of the constants, from the named assumptions only:

* `EngineProofs` (any registry over any categories, any pad states, any table
  size): `TypeCorrect`, `SelectionStaysInRange`, `OneModuleRuns`,
  `ImplementsLifecycle`, the refinement of `BenchLifecycle`,
  `PagesArePartition` and `HeldButtonsAct`. The inductive invariant adds to the
  types that index entries lie in the part of the registry scanned so far (`IndexInv`), that an
  empty index means no categories (`EmptyInv`), that the selection is an entry or
  both are empty (`SelectionInv`), and how far shutdown has come (`LifecycleInv`).
  Types alone do not bound `current_module()`. For the partition, `PagesInv` says
  that the last page ends where the scan is and that there are as many pages as
  categories were seen: a grouped registry never reopens one, so the table cannot
  overflow before the categories do.
* `AtomicProofs` (any target, give-up limit, number of spurious losses):
  `TypeCorrect`, `RoundsStayBalanced`, `ReportExact`, `LineAlternates`,
  `NoLivelock`. The core is
  `StoreInv`: an SPE about to store whose reservation survived holds the value
  that is in the line, and that value has its parity. `ResultInv` ties the word
  the PPU reads to the SPE's count once the put has landed, unless the group is destroyed first. For `NoLivelock` a
  round or a lost reservation pays for give-up + 2 steps of an SPE. The two poll
  counts are given back one at a time: the SPE whose store succeeds has the turn, and
  the other one's polls are counted on.
* `MemtestProofs` (any number of SPEs from two, list of tests, slice size, poll
  limit): `TypeCorrect` (with the bounds of every loop), `ReadyFlagHonest`,
  `SoloSilence`, `EveryTestReturns`. `ReadyFlagHonest` says that a READY flag stands for
  complete data unless a put that is to overwrite the flag has not reached it, or the
  group was started over the remains of such a put (`overTorn`): the exception that the code
  makes, no wider. `PutsInv` says which puts SPE 0 may have outstanding in each phase and
  `WrittenInv` what it has written, that the flag is gone once the put over it has
  landed, and that the latency test
  puts a READY flag back only over data that is still there. For the silence of
  a single test, `TaskInv` keeps all SPEs in the phases of the selected test and
  `DataInv` says that what is being verified is complete; no SPE relies on the
  answer of another, which is why the restart on old memory does no harm (but to the
  coherency test over a torn flag, which the theorem excepts) and why
  the argument fails in the cycle. `EveryTestReturns` rests on the bounds of the
  loops alone, whatever the other SPEs do.
* `CellPagesProofs` (any number of kernels, tests, benches, profiles, passes):
  `TypeCorrect`, `GroupsServePages`, `SlicesStayApart`, `WindowsHaveOwners`. `Groups`
  says what the group is while a module is active and that it is none otherwise,
  phase by phase; `Windowed` says who may hold the window in every phase, the ppe
  page's closing of the sampler's window included. That slices lie apart is
  arithmetic over the ladder's sizes, done once for each.
* `DiskProofs` (any list of benches and probes): `TypeCorrect`, `NoThreadLost`,
  `FlagsAreTrue`, `JoinsReturn`, `SuitesEnd`. `BenchFlags` and `ProbeFlags` say
  where a worker can be for each value of its two flags, and that from the main thread's test to the
  creation of the next thread nobody raises the flag; `Progress` counts the probes
  judged; `Contenders` ties the contenders to their probe. `SuitesEnd` counts ten steps
  for each probe still to be judged, out of which the spawning of its contenders pays
  for the two steps of each.
* `FabricProofs`, the pages (any number of rounds, tokens, SPEs, any sweeps, any depth
  of the history): `TypeCorrect`, `TokensStayMatched`, `ReportsAreOfTheBatch`,
  `BatchesLeaveNothing`, `HistoriesAreRecent` and `BatchesEnd`. `Round` says where the
  one token of a round is and how often the SPE has answered, `Owned` which objects
  exist for each place of the cleanup label, `Alone` what a DMA or EIB batch holds.
  `Held` ties a history's ring to the list of its last samples, slot by slot
  (`SlotOf`), also when the ring has wrapped; `Observed` says that an open window is
  the batch's own, so that a failed `pmu_begin` never files the sample of another
  workload. `ReportsAreOfTheBatch` compares the loop that sums up the SPEs' results
  with what the workload at its sweep position asks for, by the least SPE at which the
  two would part (`Least`), so that no induction is needed.
* `FabricProofs`, the DMA kernels (any ring size, depth, chunk, window and number of
  transfers): `RingTypeCorrect`, `SlotSafety`, `WindowSafety`, `ImplementsStream`.
  `Loops` and `Started` number the transfers, `Aligned` keeps the offset on a chunk of
  the window; the refinement maps transfer `n` to chunk `n`.
* `MandelbrotProofs` (any views, any number of SPEs and I/O offsets, a queue of any
  length): `TypeCorrect`, `NoTornFrame`, `BufferOwnership`, `BlitsReadCurrentPicture` and
  `DisplayShowsEveryFrame`, the refinement of `FrameStream`. What lags behind the main
  thread is described command by command: `Window`, `Ahead` and `Ends` say of each place
  of the queue which buffer it draws into, relative to the flips before it, so that the
  proof needs no bound on the queue. `BlitInv` and `PictureInv` say what a queued blit
  will find when the RSX comes to it. For the refinement the flips in the queue are the
  frames asked for and not shown; taking one off or adding one changes their number by
  one.
* `SmtProofs` (any list of jobs, either order of arrival): `TypeCorrect`, `TimesAreOfTheJob`,
  `JobsEnd`, and `NeverSpinsForNothing`: the two safety halves of `BatchEnds`. The
  invariant follows the one dispatch: up for the worker, in its hands, answered but on its way, seen.

Every module that a run checks has a type invariant, `TypeOK` (`RingTypeOK`), and a theorem that it holds
for every value of the constants; the runs leave it out (but for `cell_pages`) and
spend their time on what a type does not say. Each invariant's parts hold on the
instances above; they were checked by TLC before they were proved.

Only model-checked, being liveness, which is out of the prover's reach:
`ExitCleansUp`, `LaunchedReturns`, `ProbesEnd`, `EveryBatchReturns`, `EveryViewIsShown` and
`BatchEnds`. What makes four of them true for every value of the constants, that
nothing is worked on without getting nearer its end, is proved: `NoLivelock`,
`SuitesEnd`, `BatchesEnd`, and `JobsEnd` with `NeverSpinsForNothing`. What remains to TLC
is that a step is possible (`ENABLED`) and, by fairness, taken. Every invariant and
action property of the passing runs, and every refinement, is a theorem.

## 5. Not modelled

* The arithmetic kernels (pi, fft, nbody, branch, workload, the timed loops of
  the ppe page, SPU assembly): no state survives a batch, a wrong result would be
  numeric.
* Drawing, text, log format, status bar: output only. Of the RSX commands those that
  touch the colour and frame buffers and the flip are in `Display`.
* The loop of `spu_stress.c`: its block of results is one line, read from the local
  store when the put is performed, so that a put that is not waited for does no harm,
  and the PPU uses each counter by itself. The
  loops of the burn-in's SPEs: their data is read and never looked at; the last
  transfer is waited for behind the loop.
* The rates the burn page computes from the counters' differences; its tick returns
  early when the time base stood still, which does not happen from frame to frame.
* Of `disk_benchmark.c` the I/O buffer: it is shared by both workers, but its contents
  are never compared with anything.
* `tools/`, `make_pkg.py`, `benches/_template`: not part of the program.
* Start-up of `main.c` before the engine (time base, video, fonts), except the
  allocation ladder of the test region.

## 6. Plan

Done, in this order: `Engine` with `BenchLifecycle`; `AtomicPingPong` with
`AlternatingCounter`; `CellPages`; `Memtest`; `Disk`; `DmaRing` with `ChunkStream`;
`SmtWorker`; `Mailbox` and `FabricBatch` in `FabricPages`; `Mandelbrot` on
`Display`; `SpeRegion`; `FrameStream`; the proofs of section 4.

Left: measures like those of section 4 for the engine's shutdown and for the views of
the Mandelbrot page; the composition of `SmtWorker` with the ppe page's window in
`CellPages`.
