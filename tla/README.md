# SplitInfer in TLA+

Specifications, model-checking configurations and machine-checked proofs for
SplitInfer: a runtime that runs a neural network partly on a Jetson host and
partly on an FPGA board whose DDR2 holds tables and weights. The two sides
talk EdgeCoh, a byte protocol over a UART. All paths below are under
`src/splitinfer/`.

## 1. Inventory

| Component | Code | State it keeps | Operations | What is hard | What makes it correct |
|---|---|---|---|---|---|
| Host load/store window | `cxlwin/src/cxlwin.c` | page states, MMU protections, host copies, fault pipe, semaphore, mutex | load, store, fault service, release, acquire, flush, prefetch, invalidate | faults of many threads, one service thread, transfers with pages accessible, failing transfers | one coherent copy of each page; no lost store; no lost wakeup |
| Window backends | `cxlwin/src/backend_*.c` | transport handle | read, write | timeouts, late answers | an answer belongs to the request it is taken for |
| EdgeCoh host library | `protocol/src/*.c` | ownership, prefetch flags, barrier epoch, receive buffers | serialize, send, recv, open with drain | partial reads, deadlines, stale bytes | framing survives timeouts |
| EdgeCoh controller | `fpga/src/edgecoh_controller.v`, `usb_interface.v` | FSM state, header and payload buffers, DMA counters, watchdog | one byte received, one byte sent, dispatch, watchdog | bytes lost while busy, watchdog against a late engine | one answer per request; recovery after garbage |
| DDR2 arbiter | `fpga/src/ddr2_arbiter.v` | write assembler, read cache, two write queues, one read in flight | accept, issue, fill | read-after-write across ports, back-pressure, full queues | reads see earlier writes; no write dropped |
| Clock crossings | `fpga/src/cdc_*.v`, `top.v` | toggles and gray pointers in two clocks | send, receive, push, pop | two clocks, any interleaving | nothing lost, nothing twice, in order |
| NMC engines | `fpga/src/nmc_dispatch.v`, `mac_*.v`, `elementwise.v`, `eltwise_controller.v`, `embedding_lookup.v` | busy, counters, accumulators | start, step, done | start while busy, accumulator width | done exactly once for each start taken |
| v2 runtime | `runtime/v2/*` | device image, host arena, window's pages, mismatches | load, prepare, run a layer, compare, exit | what earlier runs, failed links and warm pages leave behind | every executor gives the integers the lowering expects |
| Legacy runtime | `runtime/src/*` | two ping-pong buffers, manifest | run layer, transfer, swap | transfers between devices and the swap | the next layer reads the transfer's result |
| Placement solver | `partitioner/graph.py`, `cost_model.py`, `solver.py`, `manifest.py` | shapes, cost table, DP and argmin tables, plan | parse, bucket, solve, backtrack, summarise | rounding of budgets, ties, boundaries | the plan is the best one and fits, and the manifest adds up |
| Lowering | `partitioner/lowering.py` | bump allocator, pinned addresses, scales, slots, image | pin, place, lower a node, reference run, write three files | overlap of buffers, streaming slots, a crash between the files | live buffers are disjoint, the reference is the model |
| Profiler, command line | `partitioner/profiler.py`, `cli.py` | layers measured | build and feed a one-node model | which tensors a node is fed | no node raises out of the profile |
| Model generators | `evaluation/models/gen_*.py` | sidecar file and its offsets | stream a tensor, build the graph | two passes that must agree | a weight is found where it was written |
| Baselines | `evaluation/baselines/*.py` | two sessions, weight files, a power sampler | split, swap, start, read, stop | a cut that forgets an input; three actors at the end of a window | the baseline computes the model; samples lie in the window |
| Sweeps | `evaluation/experiments/e2_run.py`, `e2_v2.py` | summary file, cells, windows | merge, measure, save | a script killed at any step, a file truncated before it is written | no measured cell is lost, none is ok after a failure |

How they interact. The program calls `cxlwin` or an executor; both send EdgeCoh
requests through one transport and block for the answer. The controller on the
FPGA parses bytes, starts an NMC engine across a clock crossing or streams bytes
into the DMA path of the arbiter, which shares the memory with the engines. The
partitioner runs offline and decides what each side executes and where in DDR2
every buffer lives; `splitinfer_v2` loads what the lowering wrote. The sweeps run
partitioner, runtimes and baselines as processes, each under a power sampler.

`PROJECT.json` lists the hazards line by line, each with the properties aimed at
it or the reason none covers it yet.

## 2. Modules

| Module | Models | Role |
|---|---|---|
| `CoherentWindow` | what a window promises (`cxlwin.h`) | abstract specification: one copy of each page, no page states |
| `CxlWin` | `cxlwin/src/cxlwin.c` | the window, its service thread, the program and the engine around it |
| `MCCxlWin` | - | values for TLC; programs whose threads touch disjoint pages, or of which one only flushes |
| `CxlWinProofs` | - | theorems about `CxlWin`; for a sequential program: `SHARED` is clean, `CxlWin` implements `CoherentWindow` |
| `RemoteMemory` | what the link promises its callers | abstract specification: a memory that changes only by the call in progress |
| `EdgeCohController` | `edgecoh_controller.v`, the transmitter of `usb_interface.v`, `nmc_dispatch.v` | the FPGA end: the byte FSM, its watchdog, one engine, the memory |
| `EdgeCohLink` | `transport_usb.c`, `Link` of `executors.cpp`, `backend_edgecoh.c` | the host end over `EdgeCohController`: calls, deadlines, a killed process, a noisy line |
| `MCEdgeCoh` | - | calls for TLC; a program that repeats one call |
| `EdgeCohProofs` | - | theorems about `EdgeCohLink`, with any faults; for a link without faults: nothing is left over, `EdgeCohLink` implements `RemoteMemory` |
| `SerialMemory` | what the arbiter promises its clients | abstract specification: a memory that is stored into and read back |
| `Ddr2Arbiter` | `ddr2_arbiter.v` | the arbiter, the memory controller behind it, the engines and the byte stream in front of it |
| `MCDdr2Arbiter` | - | an instance for TLC |
| `Ddr2ArbiterProofs` | - | theorems about `Ddr2Arbiter`: nothing stored is lost, `Ddr2Arbiter` implements `SerialMemory` |
| `Extents` | - | a memory as the set of what has been stored in it, with where and how long |
| `OnnxModel` | `gen_dlrm.py`, `gen_dense_mlp.py`, `graph.py` | the models, their sidecar files and the parsing with shape inference |
| `Artifacts` | - | the job, its stage, and the files the tools hand to each other |
| `Placement` | `cost_model.py`, `solver.py`, `manifest.py`, `cli.py` | generate, parse, solve, backtrack, write the manifest |
| `Lowering` | `lowering.py`, and the kernels it shares with the executors | lay out, emit, compute the reference, write; die; train again |
| `V2Runtime` | `runtime/v2/*` | a run of `splitinfer_v2` with the host, device or pool executor |
| `Baselines` | `jetson_cpu_offload.py`, `jetson_disk_swap.py`, `profiler.py` | what else is done with a model |
| `PlacementProofs` | - | theorems about `Placement` in `Toolchain`: the plan is the best one, the manifest adds up |
| `BaselinesProofs` | - | what the generators build, for any size; theorems about `Baselines` in `Toolchain` |
| `LoweringProofs` | - | theorems about `Lowering` in `Toolchain`: the layout fits and nothing overlaps |
| `V2RuntimeProofs` | - | theorems about `V2Runtime` in `Toolchain`: a cold iteration pays for what it reads |
| `Toolchain`, `MCToolchain` | - | their composition; the jobs TLC runs through it |
| `PowerWindow` | `tegra_power.py` | one power sampler, its reader thread, and `stop()` |
| `Evaluation` | `e2_run.py`, `e2_v2.py` | the sweeps, each cell under a `PowerWindow` |
| `MCEvaluation` | - | two sweeps for TLC |
| `EvaluationProofs` | - | theorems about `Evaluation` |

### CxlWin

State. `state` is `w->state`; `prot` the protection given by the last
`mprotect` that succeeded; `host` and `dev` the two copies of each page, one
value a page; `pipe` and `done` the fault pipe and the semaphore `g_done`;
`lock` the window's mutex; `pc` and `req` where each thread is and what it is
working on; `cur`, `rc` the loop index and return code of the function that
holds the mutex; `io`, `iok` the pages and the result of its backend call;
`lent` the pages the program has released and not acquired again, which the
engine may write.

Actions. A load or store is `Issue`, then `Access` if the MMU permits it, else
`Trap`, `Enqueue`, `Wake` (`segv_handler`) and `Access` again. The service
thread runs `ServiceRead`, `Acquire`, one of the `Fault...` actions (the cases of
`service_fault`), `Unlock`, `ServicePost`. An API call takes the mutex and
handles its range one page at a time (`Give`, `StartFlush`, `InvalidatePage`,
`PrefetchRun`, `AcquirePages`). A backend call is three steps: it starts, the data
moves (`BackendOk`, or `BackendFail` that moves any part of it), the answer is
handled (`FetchDone`, `FlushDone`). Other threads run between any two of these;
the page is writable in the MMU meanwhile, as it is in the code: a fetched page from
`cxlwin.c:71` on, a flushed one until `:101`. The documents say `PROT_NONE` and
`PROT_READ` (`cxlwin.h:19`, `:22`; `docs/splitinfer-v2-design.md:69`, `:72`).
`DocumentedProtection` is their table, and `AccessesAsDocumented` is about what can be
told apart: whether an access gets through that the table forbids. With one thread
none does, because nothing runs during a transfer; with two both disagreements lose
stores (findings 2 and 3).

Abstractions. A `mprotect` next to an assignment to `w->state` under the mutex is
one step. Loads and stores are of whole pages. Statistics, argument checks of
`range_pages`, and the creation and destruction of windows are left out.

### EdgeCohController and EdgeCohLink

State. The FSM's registers under their own names, with the DMA counters grouped
in `wr` and `rd`; `tx_valid`, `tx_data` from the FSM to the transmitter, whose
`tx_ready` is a register that falls and rises a clock late; `down` and `up` the
symbols on the line in each direction; `dma` the memory read in flight; `engine`
the dispatcher's `busy` and the operation it runs. On the host, `call` and what
it waits for (`phase`), how long it has waited, the payload so far and the
`verdict`; `ran` and `faults` are history.

Actions. One for each branch of the FSM's `case (state)`, split where a branch
does different things (`Dispatch...`). Each is one clock edge and includes what
every edge does: the default `tx_valid <= 0`, the transmitter, `stall_cnt`. A
clock at which only the transmitter moves is `WaitClock`. `Watchdog` has
precedence over the FSM as it has in the code. `UartDone` ends a byte,
`EngineDone` an operation, `Tick` is a unit of real time on both sides. On the
host `Send` is a request handed to `usb_send`, which returns after `tcdrain`,
so nothing is received before `down` is empty; `RecvHeader`, `RecvPayload` and
`Timeout` are the outcomes of `usb_recv`. The callers differ in what they take for the
answer to a write: `Link` an ACK, `ec_write` (`backend_edgecoh.c:65`) all but an ERROR.
`RecvHeader` allows both; only after a fault does another header come. `Restart` kills
the process at any point and flushes what was not sent; the next one drains the port
until nothing has come for 10 ms, which is when the board is `Silent`, or, in the
middle of a long answer, after 20 reads (`Opened`). `Stray` is a byte the UART bridge
makes when the port opens.

Symbols. The eight header bytes are three symbols (type, tensor id, length); an
address, a length and each field of `NMC_EXEC` is one; a byte of tensor data is one.
`BufLen` is the 32 of `payload_buf`, so that `payload_len[4:0]` is
`payload_len % BufLen`. Fields of which nothing depends here (flags, the table's
shape) are left out. A symbol read out of step keeps its number: noise is at the
granularity of symbols.

Time. A byte lasts 10 bit times, thousands of clocks, so a byte ends, in either
direction, only when the FSM has come to rest (`AtRest`); a header lasts eight
bytes, so the last byte of the previous answer has left before it is complete
(guard of `HeaderByte`). A `Tick` is longer than all of these and passes only
when nothing on the board or the line can move but an engine (`Silent`).
`ControllerConstantsOK` states the comment at `edgecoh_controller.v:72`: engines
finish within their watchdog or never.

Left out. Reset, clock crossings between the FSM and the memory, a
second caller on the same transport, the emulated transport. Of `ec_read`, that it takes
no more than the answer's header says and fails if that is less than it asked for: the
controller's header always says what was asked (`edgecoh_controller.v:368-371`), but
for an answer to another request, after a fault. The legacy executor and its 5 s.

### Ddr2Arbiter

State. The registers of `ddr2_arbiter.v`, grouped: `mig` the command presented
(`issuing`, `app_en`, `app_wdf_wren`, address, data and mask), `wq` and `rd_req`
the engines' latched requests, `wa` the write assembler, `rc` the read cache, `dr`
the read miss, `out` the byte handed back. `ddr` is the memory, `ret` the read it
works on, `client` what the active client is doing, `stored` a history of
what clients have stored. A register that is not valid is left out of its record.

Actions. Every step is one clock edge. `Clock` is the whole `always` block: one
conjunct for each group of registers, reading the old values of all of them, as
nonblocking assignments do. An action adds what one client does in that clock:
the byte stream holds a byte until it is taken (`DmaWriting`, `DmaReading`),
an engine pulses a read and waits for it, or a write and goes on. The memory may
make a command, its data and an answer wait, each for any number of clocks.

Clients. One at a time, and an engine starts or is heard to be done only when the
arbiter has come to rest (`AtRest`): in between a message of at least eight
bytes crosses the UART, thousands of clocks. The arbiter depends on
this. It does not look at staged bytes when an engine reads, and a byte written
during a read miss would leave the cache line stale; with a much faster link both
would have to be guarded. An engine reads between its writes and the MAC
controller writes in pairs, which is all that keeps the two-entry queues, which
have no ready, from overflowing. The values written are arbitrary.

Left out: reset during operation, the FIFOs in front of the ports.

### Placement, Lowering, V2Runtime

One behaviour of `Toolchain` is one job: a model, hardware, and the options of
the commands a user gives one after the other. `stage` says where it is; the files
that pass from one tool to the next (`model`, `manifest`, `program`) are all that they
share.

Numbers are not computed with. A weight is the name it was generated under. A
quantised tensor is a tag: the tensor it is, the test vector it was computed for,
the tensor whose range gave the scale, and the training run of the weights. A kernel
(`GatherResult`, `FcAcc`, `WithBias`, `Epilogue`) yields the tag the model
yields for these operands, or `Bad` if they are not the operands of one node, one
vector, one scale and one training. So a wrong address, a stale byte, a missing
piece or a scale taken from the wrong tensor ends in `Bad` or in another tag, and
nothing else is told apart. Shapes, addresses, paddings, byte counts and the
allocator are the code's, in whole numbers; times are whole numbers of link bytes, and
the compute terms are divided in integers where the code divides in floats.

`Placement`. `Parse` is `parse_onnx_graph` with the refusal of unresolved shapes;
`SolveFirst` and `SolveLayer` are the outer loop of `_solve`, one layer a step;
`Backtrack` undoes one layer a step; `WriteManifest` opens the file, which empties it,
and sums and writes, or raises on a zero-byte output. The solver's infinite cost is `Inf`, a number that no sum of costs is,
with `Plus` and `Cheaper` its arithmetic. `JobsAssumption` says what a user may ask for:
rates, sizes and budgets are numbers, at least one placement is allowed, and the model
is a generator's with positive sizes (`BuildOK`), or one of theirs exported with another
activation, and has a layer. What shape inference knows is external: it is `onnx`.

`Lowering`. `LowerStart` measures the ranges, adds the slots and pins the concats;
`LowerStep` is one node of the loop; `WriteDoc`, `WriteImage` and `WriteVectors`
write the three files in the code's order. `LowerDies` kills the script between two
writes or in one of the first two. `Retrain` replaces the model's weights and lowers it into
the same directory. `run_reference` is `TestVectors`.

`V2Runtime`. `Start` loads the program, `Prepare` copies what is resident,
`BeginIteration` invalidates a cold pool and writes the inputs, `RunOneLayer`
downloads a streamed layer and runs the layer, `ReadOutput`, `Compare` and the exit
code end an iteration. `PrepareFails` and `LinkFails` are a message that is not
answered: of the image, of the inputs, of a streamed layer or its engines, of the last
sum. The next run starts on whatever part of them has reached the DDR2. A fault of the pool
whose fetch fails is retried for ever (`CxlWin`) and has no action here. The device's memory keeps its contents from run to run; the host's arena is
new. `pages` are the window's pages in the host: reads only, so that of
`CxlWin`'s states only present and absent are left, and a fault brings in
`prefetch` pages from its own. The pool executor's activations are the host's.

`Baselines`. `Split` cuts at every place the option allows and `RunPart` runs one
session; `DumpWeights` and `RunSwapped` are the files and the rebuilt model;
`ProfileNode` is one node of `profile()`.

### PowerWindow and Evaluation

State. Of `TegraStatsCollector`: how far `start()` and `stop()` have come (`col`), the
sampler's process, its pipe, the reader thread and the line it holds, the event
and the samples. A line is only "inside" or "late", the samples the kinds appended.
Of the sweeps: the script, the cells left, the results in memory, the measured process and
each script's file, absent, torn or whole.

Actions. `Emit` and `SamplerEnds` are the sampler's; `ReaderBegins`, `ReaderTakes`,
`ReaderStops`, `ReaderAppends` the thread's loop; `StartWindow`, `StopSets`,
`StopTimes`, `Terminate`, `Join` the script's. Any of them interleave. A script that is
not root may not signal a sampler that runs under `sudo`: both `terminate()` and
`kill()` raise, are swallowed, and the sampler goes on with a pipe that CPython's
list of unreaped children keeps open (`held`) until the script ends. In `Evaluation`
`BeginRun` merges the summary, `Skip`, `NextCell`, `Measure`, `ProcessEnds`, `Again`,
`Leave`, `BaselineReturns`, `RunSplitinfer`, `WrappedReturns` are a cell,
`SaveBegins` truncates the file and `SaveEnds` writes it. `Dies` ends a script at any step.

Assumed. `subprocess.run` ends by its timeout. The two seconds of `join` are twenty
sampling intervals: the reader comes to its next line or to the end of the file within
them, so `Join` waits for it. A sampler with no reader ends at its next write.

## 3. Runs

| Run | Question | Instance | Result |
|---|---|---|---|
| `cxlwin_one` | does the window implement `CoherentWindow`, do its protections keep out what is documented, is a page dirty only for a store, and does every request complete? | 1 thread, service thread, engine; 2 pages, 2 values; backend may fail; `Disciplined` | holds |
| `cxlwin_two` | do exclusion, wakeups, bias and dirt survive two racing threads? | 2 symmetric threads, 2 pages, 1 value; backend and `mprotect` may fail; strict and not; pages touched while lent | holds |
| `cxlwin_interior` | does a deeper prefetch keep stores? | 1 thread, 3 pages, 3 pages a miss | `DirtyKept` violated |
| `cxlwin_race` | is SHARED clean when threads never share a page? | 2 threads on two pages, 2 values, loads and stores only | `SharedIsClean` violated |
| `cxlwin_flush` | is SHARED clean when one thread flushes what another stores to? | 2 threads, 1 page, 2 values; one thread only flushes, the other loads and stores | `SharedIsClean` violated |
| `edgecoh_link` | does the link implement `RemoteMemory`, and can it lose or leave a byte? | any sequence of ten calls, no faults, engines that finish or hang | holds |
| `edgecoh_faults` | does the controller always come back to a clean `S_IDLE`? | four calls each repeated for ever, one restart or one stray byte of any value at any time | holds |
| `edgecoh_restart` | does success mean the call had its effect? | two downloads, one restart | `SuccessIsReal` violated |
| `arbiter` | do reads return what was stored last, do the queues hold, does every transfer end? | 2 words of 2 lanes; word 0 takes either of 2 values in each lane, word 1 zeroes; any transfers | holds |
| `toolchain` | is the placement the best one, is the layout sound, do the executors agree with the reference whatever came before? | 95 jobs: 4 kinds of model, 3 executors, 2 links, budgets at and off a bucket, crashes, failed links, a second training, two runs of three iterations | holds |
| `toolchain_fits` | does an accepted plan fit? | 4 jobs with budgets off a bucket | `PlanFits` violated |
| `evaluation` | is a measured cell kept, a failed one never ok, and does every sweep and sampler end? | 2 scripts of either kind, killed at any step; 2 cells, 2 processes a window, a pipe of 1 line, root or not | holds |

Bounds. Two pages are enough for a range of more than one page, a neighbour of
the faulting page and a partial failure inside a range; three for a page between
the two ends of a prefetch window. Two values tell a stale copy from a fresh
one; `cxlwin_two`, whose properties do not read contents, has one. The pipe and
the semaphore are not bounded: each thread blocks on at most one fault.
`cxlwin_two` does not check deadlock because a strict window aborts the process.

`cxlwin_one` uses one thread because with two `AccessesAsDocumented`, `SharedIsClean`,
`UpgradeMeansStore` and the refinement are false: that is the findings of `cxlwin_race`
and `cxlwin_flush`, and two readers of one page (section 4), none of which needs a
failing transfer. It fetches one page a miss because with more it is
false again: `cxlwin_interior`.

In the EdgeCoh runs the watchdog is 1 tick, 2 for an engine, which finishes
within 1, and the host waits 3: the order of 100 ms, 8 s, 0.5 s and 20 or 30 s.
`BufLen` 4 holds the longest payload collected and wraps at it; two data
symbols make a write or read with a first, a last and a next byte; two memory
cells tell source from target; `TtyBuffer` 6 holds every answer and overflows only
with noise. One fault is enough to put the two sides out of step, and everything
after it is explored. Nothing is bounded in time: calls go on for ever.

In the arbiter's run `WA_IDLE_LIMIT` is 1: a staged word can still be joined by a
byte, meet another word, a read, and its limit. `Stores` bounds what is stored: two
values in each lane of one word tell a wrong value or lane, and stores of zero to the
other word tell a wrong word.

In `toolchain` the jobs are chosen, not all combinations. Models of one to three
layers have a first, a last and a middle one, and both streaming slots are used, one of
them twice; two tables make a concat with a second part. Small layers share a page
with their neighbours, those of a DLRM span many; 8 columns are what a concat refuses. `Ddr2Bytes` is
just larger than the largest model that fits, and an eight-layer one passes it. Two
runs with two vectors, one warm-up and two iterations use each vector again, after
another run. The seven refused jobs reach every error. Deadlock is not checked because
a job ends.

In `evaluation` a pipe of one line still has a line before the event, one held by
the reader and one after; a second script finds the first one's file absent, torn or
whole, its cells its own or others; two processes are the first and a last of a window.
Deadlock is not checked because after the last script nothing is left to do.

Fairness of the arbiter (`FairSpec`). The clock runs, and the memory takes what is
presented and returns what was read (`Answers`), however long it waits.

Fairness of the sweeps (`Spec` of `Evaluation`). Weak, of the script's own steps, of
the reader thread, of a sampler's next line and of the end of a sampler whose pipe has
no reader. None of starting a script, killing it, or a sampler ending by itself.

Fairness of the link (`Fairness`). Weak, of the controller's clock, of the
transmitter, of the host's receive, of the drain of a port that is opened and of time. An engine need not finish and the
host need not call. `RepeatSpec` adds that the program makes one call over and
over, which keeps the liveness graph small.

Fairness of the window (`RetrySpec`). Weak fairness of each thread's own steps and of backend
calls: threads are scheduled, and each backend call ends by a timeout. Strong
fairness of `BackendOk`: a faulting access is retried for ever, because
`service_fault` ignores the result of `fetch_pages`, so completion needs a
backend that does not fail each time. None is assumed of `Issue` (a program may
stop calling) or of the engine.

## 4. Findings

1. `fetch_pages` trims only the ends of the prefetch window. A dirty page between
   two invalid ones is overwritten with the device's stale copy
   (`cxlwin_interior`). One thread is enough.
2. A page is writable during `FETCHING`, where `cxlwin.h` says `PROT_NONE`; with
   the anonymous semaphore, threads on disjoint pages can lose a store behind
   `SHARED` (`cxlwin_race`).
3. A page stays writable during `FLUSHING`, where `cxlwin.h` and the design document say
   `PROT_READ`: a store that lands while another thread's `cxlwin_flush` is in its
   transfer is not written back, and the page becomes `SHARED` all the same
   (`cxlwin_flush`).
4. A process killed in the middle of a request leaves the controller waiting for
   the rest. The drain in `edgecoh_transport_open` waits for 10 ms of silence, not for
   the controller's 100 ms watchdog: the next process's first request
   completes the old one, and its ACK, which names no message, is taken for
   success (`edgecoh_restart`).
5. The solver rounds a budget up to whole buckets, as it rounds the use of it: a
   plan it accepts may exceed a budget that is not a multiple of the bucket
   (`toolchain_fits`).

Noticed while modelling, without a run of their own:

- `edgecoh_controller.v:109`: a received byte restarts the watchdog also in
  `S_WAIT_NMC`, which ignores it. A host that waits longer than the watchdog sends none
  there, and `Recovers` holds; `fpga_executor.cpp:35` of the legacy runtime waits 5 s,
  less than the 8 s of an engine.
- `cxlwin.c:126` says "Second fault on a readable page == a store". Two threads that
  load from one `INVALID` page both put their fault into the pipe; the service of the
  second finds the page `SHARED` and makes it `MODIFIED`. Nothing is lost; the page is
  written back without need and not protected against later stores. `UpgradeMeansStore`
  is what the comment says; it holds, and is proved, for one thread, and TLC refutes it
  for two.
- `cxlwin.c:85`: when `mprotect` fails after a fetch the pages stay `FETCHING`, which no
  later fault repairs.
- `cxlwin.c:60`: a `DEVICE` page inside the prefetch window is fetched, uncounted and
  also in strict mode. `BiasKept` holds, and is proved, for one page a miss.
- `e2_run.py:477-483`, `518-523`: cells skipped after the last measured one are not
  saved, although the script reports the summary as written; `DoneIsSaved` is about
  measured cells.
- `e2_run.py:433-451`: a summary torn by a crash is dropped with a warning, and the next
  save replaces it: every earlier cell is lost. `KeptAcross` is about what could be read.
- `e2_run.py:224-236` gives the partitioner options that `cli.py` does not have: the
  `splitinfer` entry of every cell is `partition_failed`.
- `e2_run.py:403` says a fresh model is generated; an existing file, also a partial
  one, is used.
- `e2_v2.py`: a mismatch of any but the last process of a window is forgotten;
  `NeverOkAfterFailure` is about failures and timeouts.
- `jetson_disk_swap.py:68`: two weights whose names differ only by `/` and `_` share a
  file. `BaselinesComputeModel` excepts them.
- `tegra_power.py`: a sampler that may not be signalled lives until the script ends;
  the windows of later cells then measure with two samplers running.
- `splitinfer_v2.cpp:85` divides by the number of vectors, also by zero;
  `program.cpp:54` reads `vectors.bin` without a check of its size.

## 5. Theorems

`CxlWinProofs` proves, for every set of threads, every number of pages and all
values, under the assumptions `ConstantsOK` of `CxlWin`:

| Theorem | States | Further assumption |
|---|---|---|
| `TypeCorrect` | `TypeOK` | |
| `MutexTheorem` | `MutexHeld` | |
| `WakeupTheorem` | `PostsMatchWaiters` | |
| `TransientTheorem` | `TransientsAreOutstanding` | `mprotect` succeeds |
| `BiasTheorem` | `BiasKept` | one page a miss |
| `DirtyTheorem` | `DirtyKept` | one page a miss |

The argument. `TypeOK` is not inductive: the loop index must be a page where it
is used as one (`CursorOnPage`), and it is the fault's page only because the
service thread alone works on faults (`ServiceServesFaults`). `Base` is their
conjunction. Exclusion needs that an abort stops every thread (`AbortIsTotal`),
since the mutex is then held for ever. Wakeups follow by counting: four actions
move a term of the equation, all others are `Quiet`. Transience is proved together with
what the protection of a page in each state is (`ProtectionTracksState` in `Tracking`), because a
transfer's end gives both their new value. `ProtectionTracksState` is the code's table,
not the documented one: it gives more in `FETCHING` and `FLUSHING`. For bias and dirt it is enough that the pages of a transfer are transient
(`OutstandingAreTransient`), which needs nothing of `mprotect`; for dirt also
that a page still dirty when `release` gives it away had its flush fail
(`FlushOnCursor`).

It also proves, from `Sequential`, for any number of pages, all values and
any transfers that fail:

| Theorem | States |
|---|---|
| `SharedCleanTheorem` | `SharedIsClean` |
| `AccessTheorem` | `AccessesAsDocumented` |
| `UpgradeTheorem` | `UpgradeMeansStore` |
| `CoherentTheorem` | `ImplementsCoherent` |

`Sequential` is one thread beside the service thread, a program that touches no page
it has released (`Disciplined`), one page a miss, and an `mprotect` that succeeds. The
first is the findings of `cxlwin_race` and `cxlwin_flush` and the two readers, the third
that of `cxlwin_interior`: without them the properties are false. The argument. The equation of `WakeupTheorem` makes
the thread and the service thread take turns: while the thread works on its own the
service thread waits at the pipe, and while a fault is in service the thread waits at
the semaphore (`Turns`, `NobodyElse`). So no store meets a page in transfer, and the
contents of every page can be said exactly (`Coherence`): a page in host bias that is
not dirty is equal in both copies, also between the data of a transfer and its answer
(`Transferred`); a page that is lent is `DEVICE` (`LentIsDevice`); a loop has done what
it was to do up to its index (`LoopDone`). The mapping (`Mem`) takes the host's copy
of a dirty page and the device's of any other, and a call as having its effect page by
page; `NextIsCoherent` has a lemma for each action of `CoherentWindow`.

`EdgeCohProofs` proves, for every size of buffer and memory, every order of the
timeouts that `ControllerConstantsOK` allows, any set of calls and any number of
restarts and stray bytes:

| Theorem | States |
|---|---|
| `TypeCorrect` | `TypeOK` |
| `IdleClean` | `IdleIsClean` |
| `EngineIsAwaited` | `EngineAwaited` |

The argument. `TypeOK` is inductive once an incomplete answer is known to be no
longer than what was asked for. `IdleIsClean` is not inductive: the watchdog does
not clear `dma_rd_have` and cannot recall a read in flight. It holds because the
watchdog never fires there: a byte of a read is pending only in
`S_DMA_READ_RESP` (`ReadInFlight`), and silence is counted only where the host or
an engine is waited for (`StallOnlyWaiting`). `EngineAwaited` needs that the
watchdog has counted no longer than the engine has run (`EngineTimed`) and that
engines take less than the limit. `IInv` is their conjunction.

It also proves, for any calls, sizes and engines under `Undisturbed`:

| Theorem | States |
|---|---|
| `NothingLeftTheorem` | `NothingLeftOver` |
| `FailsOnlyTheorem` | `FailsOnlyByEngine` |
| `RemoteTheorem` | `ImplementsRemote` |

`Undisturbed` is the link of `edgecoh_link`, of any size: no process is killed and no
byte is stray; the host waits longer than the longest watchdog (30 s in
`executors.cpp:60`, 20 s in `backend_edgecoh.c`, against 8 s); an answer fits the tty's
buffer (the model's host takes a payload whole, the code's as it arrives, so that
there is less in the buffer); and a write is no longer than the
memory, or its end would overwrite its beginning (the host sends at most 4096 bytes at
a time). `edgecoh_restart` violates the first, and the property.

The argument. An invariant about the two ends alone is not inductive: that an answer
is the one asked for depends on every symbol between them. `Exchange` says, for each stage
of a call, which part of the request is still on the line and which part of the answer
has left: `Receiving` (the first k symbols are in their registers, the others on the
line), `Writing` (the rest of the data is on the line, what was before it is in
memory), `Working` and `GaveUp` (an engine runs; the watchdog has fired on it),
`Acking` and `Responding` (what has been sent, with the symbol in the transmitter, is
the first n symbols of `Reply`, of which the host has taken the header or nothing).
With them goes the time: while a request arrives nobody has waited, an engine's silence
is counted by both ends alike, and after it the host has waited no longer than the
watchdog's limit. So the host never gives up before the watchdog, and a header of zero
length or the last byte of a payload is the last symbol of all. `Transmitter` says
that a symbol is offered only while the FSM waits for it to be taken. Each action keeps
`XInv`, the conjunction of the two, by a lemma of its own; the refinement then
needs only that a write's next symbol is the next byte of its data, that an engine
works on the addresses of its call, and that the answer of a read is the memory's
contents, which nothing changes while it is sent.

`Ddr2ArbiterProofs` proves, for any words, lanes, values, stores and idle limit
(`ArbiterAssumption`):

| Theorem | States |
|---|---|
| `TypeCorrect` | `TypeOK` |
| `OneReadTheorem` | `OneRead` |
| `QueuesFitTheorem` | `QueuesFit` |

The argument. From the static priority (`IssuedOnce`, `ReadIsLast`): one thing is
issued in a clock, and a port's read only behind all its writes. `OneRead` needs
that no second read is presented while the memory works on one (`RInv`).
`QueuesFit` needs that an engine that may write has an empty queue, because its last
read was answered, the read was issued behind its writes, and no other port has
anything in the arbiter (`QInv`: `OthersRest`, `ReadAlone`, `RoomLeft`). `TypeOK` needs
that the word of a read miss is there as long as an answer to it is to come.

and, under the same assumption:

| Theorem | States |
|---|---|
| `StoresKeptTheorem` | `StoresKept` |
| `SerialTheorem` | `ImplementsSerial` |

The argument. `View` is the memory as it will be: what the memory holds, with the
command under way, the two queues and the staged word laid over it, in the order of
their priority. A clock only moves a store towards the memory and leaves `View` as it
is (`MemoryMoves`, `QuietView`); a client's store is added to it (`PushView`,
`MergeView`). So `View` is what was stored (`SInv`). A read returns `View` because it is
issued last, nothing is on its way to the memory while it is under way
(`ReaderWaits`), what comes back is the word it asked for (`AskedWord`,
`NoStaleReply`), and the cache, where it is valid, holds that word of `View`
(`CacheTrue`).

`EvaluationProofs` proves, for any sweeps and cells, any size of pipe and any
number of scripts and of processes a window:

| Theorem | States |
|---|---|
| `SamplesTheorem` | `SamplesInWindow` |
| `OkTheorem` | `NeverOkAfterFailure` |
| `KeptTheorem` | `KeptAcross` |
| `SavedTheorem` | `DoneIsSaved` |

The argument. No late line is appended because the event is set before the time is
taken (`EventIsFirst`), so that while it is not set every line in the pipe or in the
reader's hand is of before (`UnsetIsInside`), and nothing samples or reads between
windows (`ClosedIsQuiet`). Every step of a sweep is a step of the window or leaves it
alone (`NextIsWindowNext`). A status is right because a process that broke is the
last of its window (`BrokenIsLast`), which is the one the status is taken from. Nothing is
lost because what a script has in hand always contains what it has to keep (`ToKeep`),
and its file holds all it has measured but between the end of a cell and the end of
the write that follows (`FilesKept`). The lists of results are sets in the model, as
their order says nothing here.

`PlacementProofs` proves, for any jobs that `JobsAssumption` allows (rates, sizes and
budgets are numbers, at least one placement is allowed, the model parses to at least one
layer):

| Theorem | States |
|---|---|
| `DpTheorem` | `DpIsBest` |
| `PlanTheorem` | `PlanAttainsTotal` |
| `ManifestTheorem` | `ManifestReproducible` |

The argument. Everything is a sum over layers, so induction is needed: the library's
well-foundedness of the naturals gives it for a set of numbers (`Induction`) and with
it what a sum with one term more is (`TotalStep`). A plan for n + 1 layers is one for n
and a place for the last, whose cost and memory add up (`PlanSplits`, `PlanExtends`).
`Best` says what a cell's cost means, and `NextIsBest` that a layer more keeps it: a
candidate is infinite or what some plan costs (`CandidateAttained`), no plan that ends in
the cell costs less than the candidate of its own last-but-one place
(`CandidateBounds`), and of the candidates there is a first of the cheapest
(`FirstCheapest`). For the way back the invariant is that every finite cell has a
`Trail`: cells that follow each other through the argmin table, whose placements are a
plan that costs what the cell says. The plan under construction is always the end of the
trail of the table's first minimum (`Suffix`). A charge is the sum of its parts in the
breakdown (`ChargeIsParts`), and a sum of sums is the sum of the sums (`TotalPlus`).

`BaselinesProofs`, `LoweringProofs` and `V2RuntimeProofs` prove, for the same jobs, so for
any number of tables, rows, columns, layers and any batch, for any size of the DDR2 and of a
page, and any number of test vectors and iterations:

| Theorem | States |
|---|---|
| `ProfileTheorem` | `ProfileFeedsAll` |
| `BaselinesTheorem` | `BaselinesComputeModel` |
| `LayoutTheorem` | `LayoutFits` |
| `ColdTheorem` | `ColdIsCold` |

The four are about every model a generator can build, so the first thing is to say what
those look like (`Form`): gathers and a concat, a flatten, or nothing, before a chain of
matrix products, additions and activations, with the weights of their shapes. Every
branch of the generators builds one (`BuiltForm`, `ModelForm`), the model never changes
after that, and every node reads only weights, inputs and outputs of nodes before it
(`ModelNodes`).

The argument for the baselines. What a session computes is a set of tensors that grows
node by node (`ComputedGrows`), and takes in a node's output once its inputs are there
(`ComputedAll`). A part of the model that is fed what crosses its beginning has all of them
(`PartComputes`); what `Cut` hands from the first half to the second is what crosses.
The profiler feeds a node its inputs that are not weights.

The argument for the layout. `LayoutFits` speaks of pairs of records, but the lowering knows no
pairs: it goes through the nodes once and allocates upwards. So the invariant says where every
region is. Before the first node the buffer of the concat is allocated and every part of it
has its place, then the two slots (`Earth`, a record of those addresses; `GroundLaid`).
From then on a region a record names is either one of those that were known from the
start (`Known`: a part of the pinned buffer, the weights or the bias of a layer in the slot of its
parity), or above them and apart from every other (`Laid`). A step of the lowering takes what
it needs from the end of the layout or names a known region (`SegmentLaid`, `InputLaid`,
`GatherLaid`), and so keeps `Laid` (`GatherStep`, `ConcatStep`, `MatMulStep`, `OtherStep`). Two known
regions are the same, apart, or of two layers of the same parity (`KnownApart`): parts of the pinned
buffer follow each other at multiples of 16 because the lowering refuses others, the
slots hold the largest layer's weights with its bias (`SlotBytesAre`). That the k-th fc layer
is in slot k modulo 2 is the count of layers (`InOrder`), and that a layer is laid out once is
the correspondence of nodes and layers (`Counted`). `Underway` is their conjunction. The fc layers of the
document are in the order of the chain, so that layers in one slot take turns (`LayoutOf`).
`PinConcats`, `Select`, `Product` and `Computed` are recursive functions; that each
has a value for every length, and what it is, follows by `Induction` (`PinsExist`,
`SelectIs`, `ProductExists`, `RightExists`).

The argument for the cold pool. That a read leaves its pages in the host's memory is an
induction over the pages in the order of the reads (`FaultsBring`), for a prefetch of at least the
page itself (`OptionsAssumption`). But it holds only of pages of the window, and the
window ends with the layout: a read beyond it brings nothing in. So three more things are
invariant. The records of a layout that does not stream read below its end (`Within`;
`Reading` while it is laid out, `GatherReads`, `ConcatReads`, `MatMulReads`, `OtherReads`). Such
a document is what a run loads, with vectors that give every one of its inputs
(`Readable`, `Feeding`, `Kept`), also after a crash between the files or a second
training. And the row a gather reads is named by a number, so that its remainder is a row of
the table: what the pool's arena holds stays so (`Numbered`, `RowBelow`), from the inputs
through every layer. With these, in a cold run between the beginning of an iteration and its
comparison, what has been read is in the host's memory and all of that has been
fetched (`PoolKept`, `Running`).

Only model-checked: of `Toolchain`, `ReferenceIsModel`, `BitExact` and `NoFalsePass`.
They say what the whole of a program computes through the contents
of two memories; they fold an operator that is a parameter (`FoldLeft`) over layers and
segments, of which the prover knows no more than the name. And liveness
(`EveryRequestCompletes`, `Recovers`, `RequestsComplete`, `SweepEnds`, `SamplersGo`), which is
out of its reach.

## 6. Not modelled

- Legacy runtime: superseded by `runtime/v2`. Its kernels are CUDA, and what it adds to
  the link is a pair of buffers. Its host gives up before the controller's watchdog,
  which the models of the link exclude.
- Clock crossings and FIFOs (`cdc_*.v`, `top.v`): over the UART a byte comes thousands of
  clocks after the last, so nothing is ever queued twice there; the models take a
  crossing as a delay.
- State machines inside the NMC engines: an engine finishes in time or hangs; what it
  computes is the operators of `Lowering`.
- Creation and destruction of windows, the signal handler's installation, statistics.
- The tensor registry of `edgecoh.c`, which no runtime uses; the emulated transport.
- `splitinfer_v2 --max-layers` and `--verify-layers`, which are for debugging; the JSON
  readers and argument parsing; a torn `vectors.bin`.
- Measurement and printing: the floating-point, quantised and TensorRT baselines,
  `calibrate_link.py`, the other experiments (e3, e5, e6), `print_report`, arithmetic
  intensity and crossover analysis. They keep no state between steps.
- `gen_mobilebert.py` and the other exporters: what they export comes from other tools and
  is `Exported` here.

## 7. Plan

1. Of `Toolchain`, `ReferenceIsModel`, with the folds of `run_reference` and
   `CopySegments` as recursive functions.
2. Of the windows, creation and destruction against a late fault.
