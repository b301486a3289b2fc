# CppAndroidTest in TLA+

CppAndroidTest measures ARM SoCs: a native library with micro-benchmarks, an Android
screen that runs them, a command-line build of the same code (`cppbench`), and host
scripts that drive a phone over adb. This directory holds TLA+ models of the parts that
have state, order or concurrency, the TLC runs that check them, and TLAPS proofs of their
safety. Paths below are relative to the repository; `cpp/` stands for
`app/src/main/cpp/`, and `KT` for `MainActivity.kt`. `PROJECT.json` maps every definition to the lines it models.

Run from this directory: `tlc -config Dispatch_one.cfg MCDispatch` (and so on for each
row of the table of runs), and `tlapm M.tla` for each proof module `M`: `DispatchProofs`,
`MainActivityProofs`, `CrashDumpProofs`, `LatencyChainProofs`, `PlacementProofs`,
`RowProofs`, `LiveStreamProofs`, `DeviceHarnessProofs`.

## The system

| Component | State it keeps | Operations | Talks to |
|---|---|---|---|
| Registry and dispatch, `cpp/bench/registry.h` | none of its own; the result vector of the call | filter and opt-in gate, fold over the tuple of benchmarks | sets the diagnostic tag; calls the per-cluster loops |
| Diagnostic tag, `cpp/bench/diag.*` | `current_bench`, one process-wide atomic | set, get | written by dispatch, read by the signal handler |
| JNI bridge, `cpp/jni.cpp` | `g_crash_dump_path` | run benchmarks, persist `benchmarks-latest.json`, sensors, cameras, hwcaps, crash dir | called from IO threads of the screen |
| Fatal-signal handler, `cpp/jni.cpp` | the dump file, signal dispositions | write the dump, reset, raise, exit | reads the tag; its file is read by the screen |
| Screen, `KT` and the manifest | last result and kind, buttons, history bar; `upload-log.txt` | jobs, uploads, create, destroy | JNI bridge, the paste service, the dump file |
| Affinity and clusters, `cpp/bench/affinity.*` | none | detect clusters, pin | sysfs, `sched_setaffinity` |
| Per-cluster loops, `cpp/bench/cpu/*.cpp` | rows | pin, measure, append | affinity, kernels |
| PMU groups, `cpp/bench/cpu/perf_counters.*` | leader, fds, events | add, reset, start, stop, read | the kernel's perf events |
| Latency chain, `cpp/bench/cpu/latency.cpp` | a linked buffer | build, chase | - |
| Kernels and gates, `cpp/bench/cpu/*`, `cpp/bench/hwcaps.*` | none | gate, best of n | AT_HWCAP |
| Sustained, `cpp/bench/cpu/sustained.cpp` | chunk size | measure a chunk, sample, rescale | sysfs |
| Thermal and frequency sysfs, `cpp/bench/thermal/sysfs.*` | the list of zones | list, sample temperatures, sample frequencies | sysfs; rows of sustained, frames of the streamer |
| cppbench's `main`, `cpp/bench/bench_main.cpp` | `CliArgs` | parse, choose the task | dispatch, the streamer, listings; called by scripts |
| Live streamer, `cpp/bench/stream/`, sensor sampler, `cpp/bench/sensors/` | stop flag, newest readings, event queue | header, enable, drain, frame, footer | sensor service, signals, a pipe |
| Dashboard, `scripts/dashboard.py`, `live-dashboard.sh` | header, screen | read a line, render | the pipe |
| Device harness, `scripts/device-harness.sh` | none; the device's governors, root, files | ten commands, each a line of steps | adb, the app |
| Aggregation, `scripts/aggregate-runs.py` | pooled samples | collect | result files |
| Inventories (camera, SoC), JSON emitter, `compare.py`, other scripts, build, CI, tests | none | listings, formatting | - |

Shared state and calls that cross components: `current_bench` (dispatch and handler),
`benchmarks-latest.json` (every caller of `nativeRunBenchmarks`; polled by the harness's
ui-test), the crash dump (handler and the next `onCreate`), the affinity mask of a pool
thread (one row to the next), the pipe between `cppbench --stream` and the dashboard,
cpufreq governors (harness commands and reboots).

### What is hard, and what must hold

*Dispatch.* A job is a blocking native call in a coroutine. Destroying the activity
cancels the coroutine but not the call: the orphan goes on, and the new activity may start
a second dispatcher over the same tag and the same file. A wrapper may throw with the tag
set; the process may crash anywhere, also between truncating a file and filling it. Each
caller must get all of its own answer in registry order or an error; a crash report must
not blame a benchmark that was not running; the file must not mix two documents.

*Screen.* Main blocks of orphans, uploads that outlive jobs, two uploads at once, an
unreliable service, relaunch, kill and crash. Buttons must be locked exactly while the
screen's one job runs; nothing of an earlier screen may appear; URLs must be filed under
the kind of what was uploaded; the history bar must agree with the log; a dump must not
be deleted unseen.

*Fatal signals.* Several threads may fault; the kernel's rules (SA_RESETHAND, no
SA_NODEFER, pending while blocked) decide what `raise` does; the start-up check may read
the file while a handler writes it; every handler truncates the file it opens; every call
may fail. A dump must name the benchmark that faulted; until a screen has shown it, it must
stay on disk but for the ways in which the code itself is known to lose it; the process
must end.

*Placement and rows.* Offline cores, interleaved CPU numbering, failing pins, hotplug and
migration during a measurement; refused counters and multiplexing; the order of the
shuffled chain; features that differ between cores; memory that is not there; a clock that
throttles while the chunk size follows it; sensors of the SoC that cannot be read for a
while. A row must tell where it was measured and hold what its labels say.

*Streaming.* A signal at any instant, batches, events that overwrite each other, a reader
that goes away, lines that do not parse, arguments handed from script to program. Frames
must be current, a stop clean, and no streamer may stay behind; what the terminal has no
room for is cut off and may come back later.

*Harness.* Any step may fail under `set -e`, the device may be another one, or reboot by
itself. The wrong device must not be touched, an unrootable one not modified, governors
must come back, and measurements must be taken under the governor they claim.

The full list, each at its line with the properties that cover it, is `hazards` in
`PROJECT.json`.

## Modules

| Module | Models | State and actions against the code |
|---|---|---|
| `BenchRegistry` | the tuple of benchmarks, filters, `try_one`'s two early returns | pure operators; a filter is the set of names it contains |
| `BenchService` | abstract: what a caller of `nativeRunBenchmarks` is promised | `Submit`, `AnswerOk` (all, once, in order), `AnswerError`, `DropAll` |
| `Dispatch` | `nativeRunBenchmarks` and the other native calls, per caller | `pc[c]` is the place in the call; one action per step between shared accesses; `Crash` restarts the process with static initialisation |
| `DispatchProofs` | theorems | see below |
| `ResultScreen` | abstract: what a screen shows | `Open`, `Request`, `Deliver`, `Close` |
| `MainActivity` | the screen, its coroutines, the life cycle, the paste service | one record per job and per upload with the activity that started it; Main blocks run only in a live scope (`FinishJob`/`AbandonJob`) |
| `MainActivityProofs` | theorems | see below |
| `CrashDump` | `on_fatal_signal`, installation, `checkForPreviousCrash` | one action per system call; files are inodes under one name; `onCreate` may begin at any time (`Startup`, `FindDump`, `ReadDump`, `DeleteDump`), also under a handler; `unseen` and `troubled` are histories |
| `CrashDumpProofs` | theorems | see below |
| `Clusters` | `detect_clusters` | one action per loop iteration: read, bucket, scan, sort |
| `PerCluster` | `run_*_per_cluster` and both pin functions | EXTENDS `Clusters`; the kernel's mask, current CPU, hotplug; history of the CPUs a row ran on |
| `PlacementProofs` | theorems about `Clusters` and `PerCluster` | see below |
| `PerfGroup` | `PerfGroup` and the row around it | the kernel's group beside the code's vectors; events occur at any time |
| `LatencyChain` | `build_chain`, `chase`, `run_latency` | slots for addresses; `Shuffle` picks any permutation |
| `LatencyChainProofs` | theorems | see below |
| `KernelGate` | HWCAP gates, `best_of`, the sentinel, `run_stream` and its allocation, `collect()` | one metric on one device, from gate to pooled samples; `Sentinel` and `Absent` are rows without a number |
| `Sustained` | `run_sustained` | `RunChunk` and `Rescale` alternate; the speed of the core is state and changes under the chunk |
| `Sysfs` | `list_thermal_zones`, both sampling loops, the dashboard's `render_thermals` and `render_freqs` | one action per directory entry and per reading; histories of what each zone and CPU was while a frame was sampled |
| `Benchmarks` | a benchmark job: placement of rows and what runs in one | composes `PerCluster`, `PerfGroup`, `LatencyChain`, `KernelGate`, `Sustained`, `Sysfs`; a behaviour follows one `part`, as they share no state |
| `RowProofs` | theorems about `KernelGate`, `Sustained`, `PerfGroup`, `Sysfs` and `Benchmarks` | see below |
| `CommandLine` | the argument loop of `main`, its choice of a task, the arguments of `live-dashboard.sh` | pure operators; `Parse` folds `TakeArgument` over argv |
| `LiveStream` | `main`, streamer, sampler, pipe, dashboard | a program counter for the streamer, from exec on; sensor service and signals interleave; `Draw` is `render_frame` with its cut at the terminal height |
| `LiveStreamProofs` | theorems | see below |
| `DeviceHarness` | every command of the harness against one device | a command is a sequence of steps; each step may fail |
| `DeviceHarnessProofs` | theorems | see below |

`MC*` modules give TLC its values. Composition: `PerCluster` extends `Clusters`,
`Benchmarks` extends it and the row bodies, `LiveStream` extends `CommandLine`; `Dispatch`
refines `BenchService` and `MainActivity` refines `ResultScreen` (INSTANCE with a mapping,
checked as properties).
`MainActivity` uses of `Dispatch` only that native calls return (`CallReturns`) and may
crash; `CrashDump` uses of `Dispatch` only that a benchmark sets and resets the tag.

The order in which the modules were planned follows what a user of the results relies on:
dispatch and its answers, the screen, crashes, placement, rows, streaming, the harness; then
sustained, sysfs and the command line.

## Runs

| Run | Shows | Bounds |
|---|---|---|
| `Dispatch_one` | tag, crash attribution and the file are right for one caller; every call ends | the real registry of eight and six kinds of filter. Calls are unlimited: the state space is finite. One caller is `cppbench`, and the app as long as no relaunch left an orphan |
| `Dispatch_two` | two concurrent callers each get `BenchService` | three benchmarks, one opt-in: leaks between callers need two callers and two selected slots |
| `MainActivity_all` | buttons, results, labels, log, bar and crash banner; `ResultScreen`; jobs end | two jobs of two kinds: an orphan and the present screen's own; three uploads with a history of two, so the bar drops an entry; two activities: every property relates a screen to what came before it, and a third screen meets the same orphans |
| `CrashDump_all` | dumps tell the fault, are kept until shown but for three named dangers, the process ends | two faulting threads, one of them the dispatcher: a second opener; two signals: the same one twice, and two handlers at once; two processes: a dump of the last one; relaunches at any time; one benchmark name, since between two the tag is idle |
| `LiveStream_all` | frames, footer, the end of the streamer | three sensors of the three kinds that matter, batches of two and four events, so that one drain takes two batches and newest readings survive an interval; one event is NaN; the terminal cuts each frame behind any sensor or before the first; four command lines, one with a negative interval and two that stream nothing |
| `DeviceHarness_all` | identity, root, governors, termination | four devices: registered, impostor, unknown without and with root; two policies (the glob's last one is special), one spontaneous reboot |
| `Benchmarks_all` | clusters are islands, rows tell where; counters, chain, gates and pools; chunk size and cadence; frames name their sources | three CPUs of two speeds or unreadable: the smallest machine with a split frequency; two jobs on one pool thread, one hotplug; three counters occurring twice; buffers of two and four slots with five loads; two clusters with every combination of features, two aggregated runs; a core at a quarter of its speed or absent for four intervals, ten intervals long; two zones and two CPUs |
| `CrashDump_tombstone` (violation) | the handler ends the process by `_exit`, so no tombstone | one thread |
| `CrashDump_relaunch` (violation) | a relaunch under a handler deletes the dump unread | one thread, one process |
| `DeviceHarness_restore` (violation) | a failing `full` leaves the governors pinned | as above |
| `DeviceHarness_registry` (violation) | a device the registry does not know is acted on | as above |
| `LiveStream_serial` (violation) | the documented serial makes `cppbench` refuse its arguments | the script without an argument and with a serial |

Deadlock checking is off where the system really stops: a screen whose jobs and uploads
are used up with `Destroy` and `Create` bounded (`MainActivity`), the last process
(`CrashDump`), an ended stream, a benchmark job that is done. It is on for
`Dispatch` and `DeviceHarness`, which take further calls and commands for ever.

Symmetry is not used: jobs and uploads are numbered in the order of their taps instead.

### Fairness

`Dispatch`, `MainActivity`, `LiveStream`, `CrashDump` assume weak fairness of the steps of
threads and coroutines that are ready: the scheduler runs them, and nothing in the code
disables such a step for ever. `PostFails` stands for the 15 s timeouts. In `LiveStream`
a poll ends when its timeout is not negative; a negative one waits for an event, and
`StreamerEnds` excepts it. At most `MaxEvents` events come, so a drain ends. In `DeviceHarness` the device is assumed to boot (`adb wait-for-device` itself
has no limit); polls are bounded loops. Taps, signals, Ctrl-C, throws, crashes, relaunches,
reboots and restarts are never owed.

## Proofs

Every invariant that a passing run checks, the two step properties and both refinements
are theorems: TLC shows them on the instance of the run, the theorem for every value of
the constants that meets the named assumptions of the module (`RegistryAssumption`,
`SizeAssumption`, `ClusterAssumption`, ...), which TLC evaluates on every run. A theorem
that needs more states it as its own hypothesis. Each argument is an inductive invariant;
those that are more than the property itself are named here.

`DispatchProofs`

- `TypeCorrect`. `TypeOK` alone is not inductive: `Finish` appends the slot it stands at, so
  `TypeInv` adds that a running caller stands at a slot its filter selects.
- `DispatchImplementsService`: for any number of callers, the dispatch loop implements
  `BenchService`. The invariant `AnswerInv` says of every caller that its vector enumerates,
  in order, the selected slots below the one it stands at; at the end of the tuple these
  are all of them (`SelectedBelowEnds`), and `Selected` is what the abstract `Requested`
  asks for (`RequestedIsSelected`). Every step maps to a step of the service or a stutter.
- `CrashBlamesRunning`, `TagIdleAfterResult`, `LatestFileIsOneRun`: under `SingleCaller`,
  the documented assumption of `diag.h`, stated as the hypothesis of each theorem. `TagInv`
  relates the tag to the running slot and to what the call has done since; `FileInv` says
  that a file about to be written is still truncated. Both fail for two callers, so the
  hypothesis is needed and not only convenient.

`MainActivityProofs`, for any number of jobs, uploads and activities

- `ButtonsFollowTheJob`, `ResultIsOwn`, `UploadComesBack`, `UrlsTellTheirKind`, `BarIsTheLog`
  are conjuncts of one invariant `Inv`, because they lean on each other: an upload gives the
  button back only because `UploadHasResult` says there was something to upload, and a URL
  is filed under the right kind because `UploadLabelled` says that the label was taken with
  the payload, of a job whose kind no longer changes. `ScreensNumbered` separates the present
  activity from what orphans of earlier ones carry. `BarIsTheLog` rests on lemmas about the
  newest lines of a log to which one is appended.
- `DumpReachesTheScreen`, a property of steps.
- `EveryScreenKeepsItsPromise`: each step of the screen maps to a step of `ResultScreen` or a
  stutter; `BusyIffOneJob` makes the mapped job the one that locks the buttons
  (`WorkingFacts`).

`CrashDumpProofs`, for any threads, signals and restarts

- `TypeCorrect` needs `FilesCounted`: inodes are numbered, and that they suffice is a count of
  the threads that have opened the dump in each process.
- `BlameIsRight` (`TagHeld`): while the benchmark thread is in the handler nobody moves the tag.
- `DumpIsKept`: a whole dump that no screen has shown is on disk under its name. That no dump
  is ever lost is false, so `DumpKept` excepts the processes in which one of three things
  happened: the start-up check ran while a handler had the file open, two handlers opened it,
  or a handler truncated a whole dump that nobody had seen. These are all that `open()` and
  `delete()` can do to one; the theorem says that nothing else loses a dump: no failing call,
  no restart, no relaunch and no other fault outside these windows. `Untroubled` is the
  invariant: as long as the present process is not `troubled`, at most one thread has had the
  file open and no check has overlapped it; so what it writes goes to the inode that has the
  name, and a check deletes only what it has just shown. It is about safety of the file alone:
  that the user reads what the screen shows is not in it.

`PlacementProofs`, for any number of CPUs, frequencies and jobs

- `ClustersAreTheIslands`: `FoundSoFar` says at every step of `detect_clusters` that the vector
  holds each island behind the scan once: those of the buckets below the key, and of the
  bucket of the key those that end before the island being scanned. The final sort is a
  permutation (`ReorderedOut`). `AnswersAreTrue` says that an answer other than 0 is the CPU's
  frequency, so a cluster that names a frequency holds only CPUs of it. Nothing is claimed of
  CPUs that could not be read: see the next section.
- `RowsSayWhereTheyRan`: `RowUnderWay` says of the row being measured what `RowsTellWhere`
  says of those appended, and that its mask is still the one it asked for.
- `PlacementIsTyped`: that there are never more clusters than CPUs is the pigeonhole principle
  on the islands' first CPUs (`FewClusters`).

`LatencyChainProofs`

- `ChainTypeCorrect`: indices, pointers and result lists, for every list of sizes.
- `ChaseVisitsEverySlot`: for every size, every shuffle and any number of loads, a walk
  meets a slot again only after it has met all. The invariant has two parts. `LinkInv`: the
  order is a bijection and the slot at position `i` points to the one at `After(i)`, for
  every position linked so far. `WalkInv`: the walk stands at some position `k`, and either it
  has seen exactly the positions `0..k`, or it has been once around and has seen every slot.

`RowProofs`, for any clusters, runs, events, zones, rates, speeds and delays

- `GatedKernelsRun`, from what AT_HWCAP says of all cores; `MediansAreMeasured`
  (`RowsMeasured`): the same of the row, the document and the files on their way to the pool.
- `ChunksStayInBounds`: `ChunkTakesTime` adds that a chunk of `inner` iterations takes at least
  `inner \div TopSpeed` ticks, so the rescaled one cannot exceed the bound.
- `CadenceComesBack`: a chunk off by more than a factor of four moves by exactly that factor,
  and from in between the next one is on target. `Approaching` counts these turns with a
  function `power` of powers of four. The hypotheses ask that `Settle` be logarithmic in the
  interval and in how often the longest possible chunk (`Limit`) has it (`Settle = 0` would
  claim the property of a chunk that was disturbed), and that the configured size be no less
  than the minimum, as 2^20 and 1024 are (`sustained.h:13`, `sustained.cpp:142`). The instance
  TLC checks meets them.
- `SamplesAreTheirEvents` (`CountsFollow`): nothing counts before the leader is enabled, and
  then a count lags behind only if the group was off the PMU.
- `NumbersHaveTheirNames` (`FrameFollows`): each number of a frame, drawn or on its way, lies in
  what its own zone or CPU was while the frame was sampled, at its own index.
- `EveryPartRuns`, `ReportsAreTrue`, `BenchmarksAreTyped`: a behaviour of `Benchmarks` is one of
  every part's specification, so all of these hold of the composed job.

`LiveStreamProofs`, for any sensors, command lines, batches and pipe sizes

- `FramesAreFresh`: `InOrder` (queue and batch are the newest events without a gap) and
  `UpToDate` (the map holds the newest of the events folded so far); a frame is emitted only
  when all have been.
- `ScreenOnlyAdvances`: `NothingGetsOlder` orders terminal, frames in the pipe, and map, and
  remembers of a sensor whose line was cut off what was last shown; `LinesHoldReadings` says
  that a line on the terminal holds a reading, so that one disappears only by the cut.
- `FooterIsClean`: a footer is about to be written only after a stop.

`DeviceHarnessProofs`, for any device, policies, runs and reboots

- The commands are sequences built with `\o`; `FullShape`, `Guarded` and their lemmas say which
  step stands where for any number of runs.
- `WrongDeviceLeftAlone`: no step but the first is reached on the wrong device.
  `UnrootedLeftAlone`: no command gets past its first `ensure_root`, and `push` comes later.
- `SuccessHasRestored`, `SuccessWasPinned`: `UnpinnedAtEnd` and `PinnedWhileMeasuring` follow the
  governors along the command. They suppose that the kernel accepts `schedutil`, or
  `performance`, for every policy (`Accepts`): the loop that writes the governors has the
  status of its last write, so a success says nothing of an earlier policy that refused.
  `SuccessWasPinned` also supposes that something is measured (`Runs # 0`).

Only model-checked: liveness (`CallReturns`, `BusyEnds`, `FaultEndsProcess`, `StreamerEnds`,
`CommandEnds`), because fairness is about ENABLED, which the prover does not reason about;
and the violation runs. Recursively defined functions are kept out of what is proved: the
prover cannot instantiate the library's induction theorems. Where a proof needs induction
over numbers (the greatest element of a set of event numbers), it takes a least
counterexample, which the library states without such a parameter.

## Where the code and its words differ

Shown by a run: the five violation runs above, with their quotes under `findings`.

Met while reading, not kept as runs:

- `diag.h:3-4` has one writer of the tag; after a relaunch with an orphan there may be two.
  `diag.h:12-15` reads as if the tag named the culprit of any crash; a wrapper that throws leaves
  it set (`registry.h:228-231`), and a later crash in untagged code blames that benchmark.
- `bench_main.cpp:64-65` names only `sustained` as opt-in; `i8mm` and `sve2` are too
  (`registry.h:137`, `registry.h:157`).
- "Local copies of every job" (`KT:193`): names have a resolution of one second (`KT:231`).
- A URL is lost when the activity goes away before the Main block (`KT:288`), although the
  log is meant to leave a trace of every upload (`KT:338`).
- `jni.cpp:10` speaks of a one-shot dump; a second thread with another signal writes it again.
  Its `O_TRUNC` (`jni.cpp:173`) clears the whole dump the first one has written, and the first
  one's `_exit` (`:229`) may end the process before the second has written anything. A fault
  also clears the dump of an earlier process whose start-up check failed to read it
  (`KT:383`) or had not come to it yet. `DumpKept` excepts both by name.
- `device-harness.sh:18` mentions a `restore` command that does not exist; ui-test is
  content with a `benchmarks-latest.json` that was only opened (`:254`).
- `streamer.h:8` promises one frame per interval: an event ends the wait early
  (`sensors.cpp:163`), so there may be more; `streamer.h:13` skips on-change sensors,
  `streamer.cpp:126` does not.
- The dashboard draws the first `rows - 1` lines (`dashboard.py:225-227`), the sensors last: a
  new sensor of a lower type or one more thermal line pushes others off without a sign.
- `json.h:2` promises well-formed JSON and prints NaN as `nan`; the dashboard drops that line.
- A sensor whose `setEventRate` fails after `enableSensor` is reported as not enabled
  (`sensors.cpp:143-144`) and delivers events at a rate of the system's choice.
- `compare.py` assigns a local `label` (`:56`) in the function that calls `label(a)` (`:39`):
  Python takes the name for the local and every comparison ends in UnboundLocalError.
- `perf_counters.h:63-64`: a failed event "will read as 0"; it is left out of the samples.
- `affinity.h:17` coalesces CPUs of equal frequency; `detect_clusters` emits one cluster per
  contiguous island. `affinity.h:18` has the LITTLE cluster at `[0]`: CPUs that could not be
  read count as 0 and sort first, neighbours of two kinds form one island, and the loops that
  pin one CPU of a cluster take its last (`max_id`), so a kind of core may not be measured.
  `affinity.h:33` says online CPUs; the code counts configured ones.
- `neon_fma.cpp:25-28` expects FP16 numbers; no build option enables
  `__ARM_FEATURE_FP16_VECTOR_ARITHMETIC` for that file, so the metric is the sentinel.
- `aggregate-runs.py` pools rows whose `pinned` is false under the cluster they name, and
  rows of different SoCs if index and frequency agree.

## Not modelled, and why

Arithmetic inside the kernels, the statistics and tables (pure, no state); listing of
cameras and SoC properties (read-only I/O whose handles are released by scope); JSON
quoting, view layout and rendering beyond which number stands beside which name
(formatting); `compare.py` and the linear helper scripts; build, CI and unit tests.

Simplifications inside the models. In `MainActivity` one activity is alive at a time; the
manifest (`AndroidManifest.xml:15-18`) would let another application start a second instance,
and the two would append to one `upload-log.txt`, each with a bar of its own. In `CrashDump` a
thread does not fault a second time
inside its own handler. In `Dispatch` filters are the sets of names they contain, so that
a name that is part of another word is not distinguished. File names carry no time stamps.
In `MainActivity` the service answers or fails: it does not trickle; the clipboard is only
written. In `CommandLine` numbers have been through `atoi`. In `Sustained` the scale is an
exact rational and sysfs takes no time; a chunk is disturbed once at most, by a change of
speed and a delay; `sustained.cpp:139-141` truncates a product of doubles, which may be one
iteration less. In `LiveStream` a line wider than the terminal takes one row; frames carry sensor readings only, the sysfs arrays are
those of `Sysfs`; a sensor's rate is not modelled.

## What is left of the plan

1. Models: `Dispatch` with the screen above it, so that an orphan's dispatcher and the tag
   appear in one model; an abstract specification of a row (what it claims, where it was
   measured) that `PerCluster` and the row bodies implement together.
2. Proofs: the refinements that come with these models; the tag with several callers, under
   the weakest condition that replaces `SingleCaller`.
