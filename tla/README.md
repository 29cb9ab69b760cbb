# A TLA+ model of helia-profiler

helia-profiler (`hpx`) builds profiling firmware for a neural-network model, flashes it on an
Ambiq board, reads the counters the firmware prints, and measures the board's power with a
Joulescope. This directory holds a model of it: the concurrency of the power capture, the
firmware and its link, the files several invocations share, and the rules by which results are
configured, planned, judged, published and compared. It is checked with TLC, and nearly all of its
safety is proved with TLAPS.

Paths below are relative to `src/helia_profiler/` of the repository unless they say otherwise.

Contents: 1 the system and its hard parts; 2 the modules; 3 the runs, their bounds and their
fairness; 4 where the code and its own words differ; 5 the proofs; 6 what is only model-checked
or not modelled; 7 the plan.

## 1. The system

### How one invocation runs

`hpx profile` builds a `PipelineContext` and lets `PipelineRunner.run` (`pipeline.py`) execute 18
stages (`profiler.py`): preflight, ensure the board is powered, resolve platform and probe,
prepare the engine, analyse the model, plan memory, generate and build the firmware, verify
placement, flash, capture the PMU records, then plan, build, flash, capture and collect the
dedicated power run, then report. All of it happens under a file lock of the work directory.

The power half is where threads meet. `CapturePowerStage` calls `capture_power`
(`capture/__init__.py`), which asks the driver (`power/joulescope/`) for a *gated* capture: the
host relaunches the target, waits until the firmware says READY on one wire, raises GO on a
second, and the firmware raises GATE on a third around the measured window. The instrument
streams statistics and, on JS220/JS320, the wires themselves; a poller thread samples the wires
too. Afterwards the window is found in what was retained and the statistics inside it are
integrated, arbitrated against what the firmware reports of itself, and published or withheld.

Around the pipeline stand commands that use its pieces: `hpx compare` and `hpx validate` on
published results, `hpx runtimes prepare` and the fixture commands (`fixtures/`, `runs/`) that
freeze a plan, build it into a directory and capture from it, possibly on another host.

### Components, their state, and what makes them hard

| component | state | what is hard | what makes it correct |
|---|---|---|---|
| gated power capture (`power/joulescope/capture_gated.py`, `_gated_resources.py`) | stop event, processing fence, latest GPI sample, retained evidence, attempted vendor calls | three kinds of threads; callbacks that publish to the driver; a vendor read that may never return; calls that raise after taking effect | nobody touches evidence after the drain; teardown ends and undoes its own set-up and nothing else; the right error surfaces |
| gate control plane (`_gated_state.py`, `power/completion.py`) | edge memory, pulse counters, completion time | pulses one tick apart in meaning; GO between two polls; verdicts that are later contradicted | evidence equals the history; early stop only with cause |
| gate evidence and selection (`power/counter_gate.py`, `_gated_selection.py`, `stats.py`) | frames, statistics packets, poll samples | lost and malformed frames, a retention bound, abandoned READY, a second transaction | an accepted trace is the signal; a completion is one whole transaction; the integral is within its published error |
| Joulescope registry (`device.py`) | open counts under one process-wide lock | several users, other processes, closes that fail, retries with the lock held | who holds a device has it open |
| supply relay and statistics (`driver.py`) | relay, subscription, passthrough handle | vendor calls that raise; Ctrl-C between any two steps | the target is supplied again, the instrument is as it was |
| lock-step window (`capture/__init__.py`, `power/sync.py`, `joulescope/sync.py`, firmware templates) | phase and GO; the firmware's program and pins | two programs with their own timeouts, undefined pins, edges between samples | GO only after READY and never through the window; the window opened is the one measured |
| power stages, terminal frame (`stages/*power*`, `capture/power_terminal.py`, `terminal_transport.py`) | the published plan, firmware, deployment, observation, terminal | frames of earlier launches, joins in the middle, lost lines, stopped clocks, one retry of a flash | what is published is of the launch that was measured |
| profile capture and parser (`transport/`, `capture/parser.py`) | collected lines, sentinels, deadlines | lost sentinels, a launch cut by the reset, silent windows, links without flow control | what is accepted is one launch's, whole; a capture ends |
| probe, sessions, boards (`target/`, `transport/`, `stages/resolve_probe.py`, `ensure_powered.py`) | the chosen probe, the session, ports, RTT blocks in retained memory | boards that look alike, a probe that enumerates late, an old image's unread text, a neighbour's relaunch | a capture reads the board and the launch it started |
| firmware (`firmware/`, `wire/`) | cycle counter, debug domain, link, gate, what was printed | the debug domain goes down in a window, three engine templates against one registry | the window measures what it says; lines printed are the lines declared |
| memory plan (`stages/plan_memory.py`, `verify_placement.py`, `hostenv/memory_measurement.py`, `platform/`) | placement, usage, linked image, measurement | per-part memory maps, linker scripts, sections in the wrong memory | the arena is where the plan says; every byte is counted once |
| run workspace (`pipeline.py`, `stages/`, `deps/`, `firmware/build.py`) | lock file, `nsx.lock`, module trees, stamp, build tree, the board's image | several processes, failures, kills, cleans that leave files | each measurement is of the invocation's own image, built from what its provenance names |
| frozen plans and directories (`runs/`, `fixtures/build.py`, `engines/`, `deps/compatibility.py`) | plan file, compiled image, evidence directories | a world that changes between freeze, check and build; builds and runs of one directory at a time | what loads is true; what a replay accepts is what was frozen |
| fixture capture (`fixtures/capture.py`, `runs/guard.py`) | sinks in the board's memory, probe sessions, the rail | every session halts the core; resets nobody asked for | what is accepted is of one launch |
| prepared runtimes (`runtime/`) | the install, its rollback copy | replacement by two renames under readers, several at a time | what a build links is one install; an install survives a failed replacement |
| results, report, readers (`results/`, `report/`, `readers/`, `evaluation/compare.py`) | a bundle of files and the manifest that pins them | replacement in place under readers, stops half way | what is read is one report's |
| configuration and pipeline (`config/`, `session.py`, `pipeline.py`, `profiler.py`, `firmware/project.py`) | layers of intent, the resolved configuration, the products in the context, the generated app | layers that are merged twice, in any grouping; skips decided one stage at a time; refs that come from four places | the last word stands; no stage reads what nobody made; one ref per project |
| evaluation (`evaluation/`, `power/diagnostics.py`, `power/clean_window.py`) | the plan's estimate, gate, terminal, issues | clocks that drift, lost iterations, one fault among many gates | a healthy run is valid, a faulty one is not; a comparison compares like with like |
| validation (`validation/`, `tests/validation/`) | case directories, one manifest over them | interrupted, killed and repeated sweeps | what is compared is what the two sweeps ran |

The remaining command line, consoles, support bundles, identities and the full-rate
and host-side INA228 instruments have no interacting state; `components` of `PROJECT.json` lists
every part with its status and reason. The web site, tools, examples and packaging are not part
of the program.

### Interactions

- `capture_gated` opens its device through the registry while a sync controller may hold the same
  one; `power_cycle` of the reset hook opens it a second time.
- Poller and main share the stop event, the fence and the latest sample. The control plane is
  written by the poller alone and read by main after the drain.
- The poller calls the caller's `phase_getter` and `on_gate_rise` inside the fence; the second
  publishes GO to the same driver whose threads deliver packets into the fence.
- The host's stages and the firmware see each other through three wires, one link and the memory
  a debugger can read.
- Invocations see each other through directories and boards only. So do `hpx runtimes prepare` and
  a fixture build, the writer and the readers of a bundle, and the sweeps of one output directory.

The hazards of this code, one by one and at their lines, with the properties that would catch
them, are `hazards` in `PROJECT.json`.

## 2. The modules

Each module's header says what its actions stand for; `map` in `PROJECT.json` gives the source
lines of every definition. Operators with a name `X_Something` next to `Something` are faulty
variants of it: each property is known to fail when one of them takes its place. They are part of
no next-state relation.

| module | models |
|---|---|
| `CaptureFence` | abstract: admission to evidence processing closes, drains, and the evidence is frozen |
| `GatedCapture` | one capture: main thread (one action per call or wait), poller (one action per block between two points another thread can see), stream deliveries |
| `GatedCapture_proofs` | its inductive invariants, that it implements `CaptureFence`, what it leaves in the instrument and what it raises; `GateEvidence` for any lines and streams |
| `GateControl` | `_GatedCaptureState` and `GatedCompletion`, one action per poll |
| `GateControl_proofs` | its inductive invariant; evidence and early stop |
| `GateEvidence` | `PackedGateRecorder`, `counter_gate_trace`, `resolve_counter_completion`, `select_gate` over arbitrary lines, cut into arbitrary frames |
| `SharedHandle` | abstract: whoever holds a device has it open |
| `DeviceHandle` | `_open_device` and `_close_device` with lock, count, retries, and other processes |
| `DeviceHandle_proofs` | its inductive invariant, and that it implements `SharedHandle` |
| `SupplyRelay` | `capture`, `power_cycle`, passthrough, with a fault or an interrupt at each step |
| `Lockstep` | `capture_power`'s lock-step branch, the poller's share in it, the firmware's half, on a clock of half-second ticks |
| `Lockstep_proofs` | GO and the window, for any times that fit each other |
| `Workspace` | the pipeline of one invocation over a shared work directory and board: run lock, resolution, trees and stamps, build, flash, report |
| `Configuration` | layers of intent, their merge, defaults and board pins, what is refused |
| `AppManifest` | the generated app: its modules, the ref of each, what the two images link |
| `Pipeline` | the 18 stages over a settled configuration: which are skipped, what each reads and makes |
| `Workspace_proofs` | lock, stamps and artifacts, for any processes and mishaps; `Pipeline` for any layers, boards, hosts and engine modules |
| `TerminalFrame` | the record on the wire, what a lossy stream makes of it, the host's scan and parser |
| `PowerRun` | the power stages in their publishing order, with the board beside them |
| `PowerRun_proofs` | the published record, for every configuration and any number of gaps in the stream |
| `ProfileParser` | the parser of `capture/parser.py` as a fold over lines |
| `ProfileStream` | the firmware's stream, the transports, the collector with its deadlines, and the parser at its end |
| `ProbeBench` | which probe, board, port or RTT block a capture ends up with |
| `WireRegistry` | which lines a build may and must print, by engine, link, binary and feature |
| `FirmwareImage` | the rendered program from boot to its last line, against the hardware that may not count or not print |
| `MemoryPlacement` | plan, capacity check, linked image, measurement, reconciliation, verification |
| `RunPlan` | what an engine builds from, what a plan freezes of it, how a replay checks it |
| `RunRecord` | run directories: build, run, save, load, overlapping and edited |
| `FixtureCapture` | a fixture capture against a board that runs whenever no debugger holds it |
| `HostBench_proofs` | `SupplyRelay` for any operations and interrupts, `FixtureCapture` for any number of resets, `ProbeBench` for any number of boards, `FirmwareImage` for every build, `Verdict` for any times, losses and drifts |
| `RuntimeCache` | `hpx runtimes prepare` against itself and a build that reads |
| `ResultBundle` | a bundle replaced in place, with both readers |
| `ValidationMatrix` | the cases a request asks for |
| `ValidationSweep` | sweeps over reused case directories, the manifest, the comparison |
| `HostFiles_proofs` | `RuntimeCache`, `ResultBundle`, `ValidationSweep`, `RunRecord` and `RunPlan` for any number of processes, accidents and changes; `Comparison` for any two runs; `ValidationMatrix` for any request |
| `Verdict` | the window plan, the wait, the gate and terminal arbitration, the published figures |
| `Comparison` | `hpx compare`: comparability, rows, layers, the regression profile |
| `MC*` | the instances TLC explores; `MCHost` composes the parts of the host that share no state, `MCInstrument` the device registry and the lock-step |

Correspondence of the main ones:

**GatedCapture.** `mpc` is main's position in `capture_gated`, `ppc` the poller's in `_poller`.
`stopped`, `count` are the fields of `_GatedCaptureResources`; `admitted` is a history variable
that names who holds the count. `attempted` is the set of vendor calls `start_streams` recorded
before making them; `device` is what is really on in the instrument, so a call that raises after
taking effect is in both. `evidence` is a parity flipped by every mutation of anything the
result is computed from: the fence is about *whether* it changes, `GateControl` and
`GateEvidence` about what it is. READY samples are reduced to "satisfies the test or not", the
verdict of `observe` and of stream validation to any verdict, and timeouts may fire at any moment.

**GateControl.** A poll carries the tick at which it was read (`sample_tick`) and the control's
own clock, up to `Lag` later. `polls` is a history variable; the properties are stated on it.
Where completion is required the two clocks are never subtracted from each other, so the lag is
fixed at zero there (`Jitter`).

**GateEvidence.** Lines are sampled one value at a time; streams hand them over in order, in
frames of any configured size, kept, refused, lost or malformed. The decoding and selection are
operators on that state; edges and windows, lists in the code, are sets of counters and levels,
ordered by their counters. `confirmed` is the poller's first confirmed completion.

**DeviceHandle.** A user's path through `with _device_open_lock` is `open`, `count`, or `close`,
`vendorclose`; the vendor call and the bookkeeping are separate steps.

**SupplyRelay.** Every step has the outcomes Fine, Raises and Interrupted, with or without the
effect of its call, also in the subscribe, in the clean-up calls and in the restoring call: their
handlers are for `Exception`, so an interrupt passes them by. `struck` is a history variable: the
steps of an operation that were hit, and how. The properties say of whatever is left behind which
hit explains it.

**Lockstep.** `Tick` ages every timer and may pass only when nobody is overdue: what takes
milliseconds is done within a tick, in any order. Timers are the code's bounds in ticks of half a
second (`GoWait = 6` is the firmware's 3 s; a configuration may shorten what only costs states).

**Workspace.** A resolution of `nsx.lock` is a number; module trees are the resolution they were
materialized from, or `Torn`; an image is who rendered its source, its role, and the trees it was
linked with. Lock, stamp, trees and build tree are in one entry of the directory, so a clean whose
`rmtree` fails part way leaves any of them, and trees that are half deleted (`Torn`). `Stop` is a
failing stage as well as a kill: in both the operating system releases the lock. `SyncCut` and
`BuildFails` are the failures that leave something else behind. `vouched` is a history variable:
who took the stamp's word for the trees.

**PowerRun.** `pc` is the stage, `cfg` the configuration. A launch is numbered; an image is the
binary just built, an older one or the shared profile binary; the stream is the frames of a launch,
joined anywhere, with lost lines. The properties relate the record that is published to the launch
that opened the measured window.

**ProfileStream.** A line is its kind with the pass, iteration, layer and launch it belongs to, so
that a property can say where an accepted row came from while the parser sees only its kind and
shape. `wire` is the transport, `lines` what the collector has, the clock is silence.

**FirmwareImage.** A build is a record; its program is one action per section of the template.
`hw` and `meter` say whether a step means anything; `printed` is what reaches the link, `muted` is
what the program printed while the link was off.

**RunRecord, ResultBundle, RuntimeCache, ValidationSweep.** A file is its content: who wrote it.
A hash is the content it was taken of. Every read and write of a file is a step of its own, except
where the code renames.

**Verdict, MemoryPlacement, Comparison, RunPlan.** Rules rather than processes: the truth (the
firmware that runs, the linker, how two runs were made, the world that is built from) is chosen
first, what the code sees of it follows, and the properties compare the code's conclusion with the
truth.

**Configuration, AppManifest, Pipeline.** A layer is a table of sections; `given` is a history
variable of every layer a session was handed, `folded` how many of them its base has absorbed.
`Pipeline` walks the list of stages: `made` are the products in the context, `learned` what a
stage measured or decided. A skip is the stage's own condition on the configuration, read when its
turn comes, and a product nobody made is read as a failure ("starved").

**ProbeBench.** The boards on one desk (`OnDesk`; two in the runs, any finite number in the proof):
the intended one, and others that another invocation may relaunch. Every text carries the board,
image and launch it came from.

**MCHost.** Fourteen parts with no shared state, one of which runs in a behaviour. What a part
relies on of another is what that one's property promises.

## 3. The runs

Deadlock is not checked where a capture, a run or an instance ends by design. The users of a
device, who go on for ever, share a run with the lock-step, which ends; `OpenReturns` says of them
what the deadlock check would.

| run | question | distinct states |
|---|---|---|
| `GatedCapture_fence` | fence, drain, error precedence, refinement of `CaptureFence`, shutdown and capture end; one GPI stream, lock-step | 435 k |
| `GatedCapture_teardown` | what a capture leaves in the instrument; two GPI streams, completion required | 3.9 M |
| `GateControl_window` | control plane against the history, both completion modes | 690 k |
| `GateEvidence_trace` | decoding, completion, selection, integration error | 404 k |
| `Instrument_parts` | the counted handle implements the shared one, opens return; the handshake, two captures, two faults | 50 k |
| `Workspace_serial` | two processes, three invocations over one directory and board | 318 k |
| `Workspace_torn` | *violated*, section 4 |  |
| `PowerRun_record` | the power stages against a board that fails and a stream that loses | 599 k |
| `PowerRun_frozen` | *violated*, section 4 |  |
| `ProfileStream_capture` | a profile capture over each link, two lines lost, resets, hangs, silent windows | 1.3 M |
| `Host_parts` | the fourteen parts of `MCHost`, each under what interferes with it | 695 k |
| `Host_suppressed` | *violated*, section 4 |  |

What the properties say is written above each of them. Where a run checks a property that is a
conjunction, its parts are named and commented one by one in the module. Those a reader should
look at first: `FenceSpec` (`GatedCapture`), `EarlyStopIsSound` (`GateControl`),
`CompletionIsSound` (`GateEvidence`), `SharedSpec` (`DeviceHandle`), `GoIsSound` (`Lockstep`),
`BuildsVerifiedModules` (`Workspace`), `PublishedIsSound` (`PowerRun`), `CaptureIsSound`
(`ProfileStream`), `RecordHolds` (`RunRecord`), `VerdictIsSound` (`Verdict`), `ShortfallIsReported`
(in `FirmwareIsSound` of `FirmwareImage`), `ComparisonIsSound` (`Comparison`), `CaptureIsOwn`
(`ProbeBench`), `RunIsAsConfigured` (`Pipeline`).

### Bounds

- `GatedCapture`: nothing is bounded but the number of streams, and the code has no other stream
  sets: none, gate, gate and state. The fence run takes one GPI stream with a READY wait, the
  teardown run both streams without, so that each fits; the proofs cover every combination.
- `GateControl`: 7 ticks with minimum 2, plan 3, guard 2 hold a pulse of each class, followed by a
  planned window and its guard or by a contradiction of it.
- `GateEvidence`: 8 samples in frames of 1 and 3 and packets of 2, one loss, 4 frames: an edge on
  a frame's rim and inside, a gap that hides an edge, a retention bound in the gate, a window that
  cuts a packet. 7 samples on two lines are the shortest in which a transaction follows an
  abandoned READY, or is followed by another movement.
- `DeviceHandle`: three users on two devices: one closing, one opening, one bystander on the other
  device; one retry tells "retries left" from "none left".
- `Lockstep`: two captures, so that one may inherit a wire from the other; two faults; three
  snapshots a tick are what the READY wait needs. The window is longer than the plan's floor,
  which is longer than a boot.
- `Workspace`: three invocations on two processes: one to leave something behind, one inside, one
  waiting, or two behind one another; two resolutions, so that old and new differ. Of the mishaps
  the run has cleans that fail part way and syncs that are cut; the third, a lock that returns to an
  earlier resolution (section 4), breaks the promise.
- `PowerRun`: every configuration but combinations of ways to a count, one gap in a stream, two
  flash attempts (the code's own number). A second gap gives no kind of frame the first does not.
- `ProfileStream`: two lost lines, fewer than it takes to lose an iteration or a pass without trace
  (section 6); two passes of two iterations and layers; an RTT ring of two lines; silence in ticks
  with an inactivity bound of 2, windows of 1 and 3 and a budget of 4, so that a window is shorter
  or longer than the bound and inside or outside the overall deadline.
- `Host_parts`: two of everything that can interfere (prepares, directories, builders, runners,
  reports, sweeps, bundles), one accident or glitch (two accidents hold as well, in 1.8 million
  states of that part), three operations on the relay with more faults than one can meet, requests
  that leave axes open, use aliases, or name what nobody knows, one fault per power run with times
  around the limits of the rules, every engine, link, part and placement, one change of the world
  after a freeze with at most two selectors set, pairs of runs that differ in one field, and
  sessions that start from one of four intents and get two more layers out of some twenty, on four
  boards and seven host computers: a layer that overrides the intent, one that overrides that, and
  each refusal alone. The drifts of a boot are -12, 0 and 12 percent, inside and outside the
  tolerance a clock is given. The
  directories, builders and runners are symmetric; the run has no temporal property.

### Fairness

- `GatedCapture`: weak fairness of main, of the poller's own steps, of the READY deadline, of the
  end of an admitted callback (callbacks return) and of a delivery somebody waits for. None for a
  vendor read: the shutdown half of `BothEnd` holds although it may never return, because the join
  is bounded. That the whole capture ends with its poller needs reads that return, and strong
  fairness of the request lock the READY message waits for; both are an explicit hypothesis
  (`ReadsReturn`).
- `DeviceHandle`: weak fairness inside the lock, and strong fairness of getting it, since others
  take it in between (`threading.Lock` gives no order, but every wait in the process is bounded by
  the retries of a finite number of holders). Nobody has to ask.
- `Lockstep`: the host's threads, the poller, the firmware and time go on. The firmware's own
  failure is not fair.
- `Workspace`: weak fairness of each process's stages: every tool they call runs under a timeout.
  Invocations are finitely many, so weak fairness is enough for the lock too.
- `PowerRun`: the host's stages go on, and its two deadlines (no window seen, no record found) run
  out. Nothing is assumed of the board or of the stream.
- `ProfileStream`: the host, the handshake's deadline, a firmware that is not hung, and time.

## 4. Where the code and its own words differ

Three runs check something the repository says of itself, and TLC finds the code doing otherwise.

1. `PowerRun_frozen`. The parser says "a frozen window clock must reach validity as 0 rather than
   be refused here" (`capture/power_terminal.py:108`), and the collection stage that "raising would
   throw away a good capture" (`stages/collect_power_terminal.py:305`). With the on-target monitor
   as a bystander the firmware also writes a measurement of that window, whose zero duration the
   parser takes for malformed: the whole frame is refused and the external capture is lost.
2. `Host_suppressed`. Per-inference metrics of a run that arbitration suppresses "must not
   publish" (`power/diagnostics.py:774`). The summary withholds energy per inference but
   publishes TOPS and TOPS per watt of the same window (`report/summary.py:435`).
3. `Workspace_torn`. "A half-deleted workspace re-verifies and repairs rather than building from
   whatever is left" (`deps/sync.py:97`). Of each module tree the check only asks whether it exists
   (line 110), so trees that a failing `rmtree` (`pipeline.py:405`) left torn beside lock and stamp
   are built from. So are trees that a repair which stopped half way left beside an older stamp of
   the same lock. `BuildsVerifiedModules` says what remains: nothing else is built from than what the
   lock names, but torn trees on the word of a stamp.

Remarks met while modelling, for which no run is kept:

- *Gate selection.* The warning at `power/joulescope/stats.py:739` says "gate edges fall back to
  snapshot polling". Once a stream was enabled the polls are not looked at.
- *Power cycle.* `driver.py:200` restores the supply "on every exit from the off window"; an
  interrupt between the end of the off wait and the effect of the regular restoring call (line 214)
  is past the handler, and an interrupt in the handler's own call (lines 205-212, for `Exception`)
  leaves the relay open without the warning. `SupplyRestored` says so: a relay that stays open has
  its cause in a hit of line 214, or in two, one in the window and one in the restoring call.
- *Plain capture.* The subscribe (line 123) stands before the `try` that undoes it, and that one's
  `finally` (130-140) goes on after an `Exception` but not after an interrupt, so a subscription or
  the statistics control may outlive the capture; `StatsUndone` names the hits that can do this.
  Enabling the passthrough twice leaks a handle count (`driver.py:242`), and a disable interrupted
  between its two lines (248-249) gives its reference back twice.
- *Late GO.* `release_go` (`power/sync.py:66`) says GO is not held through the window. If the
  firmware's 3 s wait runs out between the last READY sample and `signal_go`
  (`capture/__init__.py:470`), it is. `Instrument_parts` shows that a quicker host has no such
  behaviour (`Slack = 0`). `_wait_gpi_state` may miss samples published while it slept.
- *Resolutions that return.* A lock that returns to the resolution of an older stamp after a killed
  repair is taken for verified (`deps/dependencies.py:513`), and what is built from then are the
  trees of another resolution. The mishap is in `Workspace`, excluded by the run's `Mishaps`.
  `nsx configure` is skipped while `build.ninja` exists (`firmware/build.py:83`).
- *Power stages.* A dedicated `firmware_auto` run without a count skips the build, and the flash
  stage then raises "no power artifact" although `plan_power.py:38` says the plan changes what
  runs. `RunIsAsConfigured` names this as the one stage that can starve. Comments at
  `diagnostics.py:196` require equal times where the code requires gate <= measured <= elapsed.
  A lost CHARGE line (`collect_power_terminal.py:206`) leaves the plausibility gates passing.
- *Links.* RTT's "lossless" writes trim after 2 s (100 ms after a gated window), so the promise of
  lossless delivery holds for a host that drains in time.
- *Probe.* `resolve_probe` picks by core; with an unnamed serial and a flaky or late probe of the
  intended board it takes another board of the same core. UART falls back to the only port present
  even if it carries another serial, and compares serials as substrings. A pinned USB port is not
  checked against the marker. An external J-Link moved between boards makes the old board
  advertise this run's marker. The flash check passes for an address that is another bank's base
  and only warns when no bank is named; a recipe with two images passes if one is this build's.
- *RTT.* A comment says stale control blocks are irrelevant with a known address; the direct-SWD
  fallback rescans after 20 idle polls and may splice a stale block's text, and text of the flash's
  own launch may be read before the firmware initialises the block again (the same image). With a
  failed pre-clean, equal scores pick the lower address.
- *Firmware.* Two lines are printed after the link was switched off, where the template says such
  a write hangs and `wire/_faults.py` that it is lost (`stimer_dead` and `CLEAN_WINDOW_PROBE` over
  SWO); an error inside ExecuTorch's window is lost and parks with the gate up; `CLEAN_ITER` is
  promised for busy-loop builds, which print none; TFLM's profiler stays on in a pass's warm-up,
  which a comment calls "profiler disabled"; a counter that crawls, not stands, between the rate
  probe and the warm-up is not seen (`SlowedInWarmup`), and the template names another residual;
  `_psram_needed` overlooks heliaAOT's arenas, and so does the condition at
  `_peripheral_power_down.j2:24`, which may switch off the PSRAM such an image reads from (custom
  Apollo4 boards only).
- *Configuration.* Refs "must resolve coherently at the project level" (`firmware/project.py:290`),
  but `nsx-npu`, which the engine brings, keeps the qualified ref of an SDK that the user re-pins;
  `OneRefPerProject` excepts it. On `apollo3p_evb` "power sync still conflicts with PSRAM placement"
  (`platform/board.py:62`); a run that asks for both is not refused.
- *Memory.* `plan_memory.py:27` says an arena in MRAM fails validation; only capacity is
  validated. The plan books link-time needs in the region it thinks they are in: on `apollo3p` 4 KB
  of boot stack in SRAM (`plan_memory.py:465`), which GNU's linker puts into a memory of its own
  (`memory_map.py:205`), so an arena of 617 to 620 KB is refused though it would link; under
  armlink a plan may be refused up to 16 KB too early. `RefusedIsTooBig` therefore promises that
  what is refused would not fit together with the stack. Where ExecuTorch chooses
  on a part without SRAM the arena is in TCM, the plan says MRAM, and nothing verifies it.
- *Plans.* A LiteRT plan refuses a host with `CMSIS_NN_PATH` although LiteRT reads none
  (`compatibility.py` says so). A change after acceptance and before the build is not looked at.
- *Runtimes and directories.* A failed rename whose rollback copy another prepare's clean-up
  deleted loses the install, although `_install` promises to restore it. Two resets while the sinks
  of a fixture are read, the second leaving the core halted, go unnoticed (section 5). Closing a
  session may resume a halted run, which `maintainers/fixed-fixture.md` excludes. Two racing builds
  of one directory can leave results that do not load, and pin a file written meanwhile.
- *Sweeps.* A failed case's placement is read from files it did not write
  (`validation/report.py:247`), so it appears as two one-sided cases, against "each case has one
  explicit outcome" (`maintainers/validation-bundle-compare.md`); the same document says older
  schemas load, the code takes version 6 only; a stale summary of an older schema stops the
  session's reports; a killed re-sweep mixes an old manifest with new directories.
- *Verdict.* The evaluation lacks the collection stage's zero-reading gate although
  `validity.py:376` says a refused run "must not evaluate as VALID here". The internal wait of 30 s
  never awaits a healthy window longer than about 22 s. Drift of warm-up is not priced in.
- *Comparison.* Two heliaAOT runs whose sources are both unreadable compare as equal although the
  hint says "differs or is unknown". A dimension an older build does not record is skipped. Two
  runs whose manifests were not extracted align by position. IGNORE and SKIP next to a PASS pass.

## 5. The proofs

Eight modules hold theorems. They follow one argument: an inductive invariant, defined part by
part, in the component's module where TLC evaluates it too (and did before it was proved) or
beside its proof where it names what only the proof needs; the lemmas `Init => IInv` and
`IInv /\ [Next]_vars => IInv'` with one step per action; and the properties as consequences. A
theorem holds for every value of the constants that its module's named assumption allows; where
it needs more, it says so in an `ASSUME` of its own.

**`GatedCapture_proofs`** assumes only that the stream sequence is one of the three that occur and
that the two modes are Booleans (`OptionalStreamsAssumption`).

- `TypeCorrect`: `Spec => []TypeOK`. The count of `processing()` stays within 0 and the number of
  contexts. `TypeOK` alone is not inductive: nothing in it stops `Dismiss` from taking the count
  below zero. `CountIsAdmitted` adds that the count is the cardinality of `admitted` and that a
  poller position is inside a block exactly if its context is admitted, and then a leaving context
  is always one that was counted.
- `DrainIsFinal`: `Spec => []NobodyInsideAfterDrain`. `ShutdownFollowsMain` ties `stopped` to
  main's position: past the drain the flag is up, so nobody can be admitted, and the drain itself
  was passed with a count of zero.
- `ImplementsFence`: `Spec => FenceSpec`. Each step of the capture is a step of `CaptureFence` or a
  stutter: entering, leaving (possibly of two nested blocks at once, when a callback aborts),
  working, closing, draining.
- `TeardownIsExact`: `Spec => []LeavesInstrument`, and `OutcomeHolds`:
  `Spec => []ErrorPrecedence`. They need what is on to be an attempt or somebody else's
  (`OwnsAttempts`), the release calls to have been made in order up to main's position
  (`ReleasedSoFar`), and the outcome to have been ranked past the drain, when nobody can record an
  error any more (`OutcomeIsRanked`).

In the same module, **`GateEvidence`**, for any minimum, floor, frame and packet sizes, retention
and lag (`EvidenceAssumption`: numbers, and the minimum no more than the floor):

- `EvidenceIsAlwaysSound`, `SelectionIsAlwaysSound` and `CompletionIsAlwaysSound`. The invariant
  says that what is kept of a line are pieces of it, in order (`FramesAreOfLines`), and everything
  where nothing was lost (`FramesAreAll`); and that a completion that was confirmed once is on the
  lines and inside what is kept (`ConfirmedIsKept`), so that no longer trace can resolve to another.
  Under it are lemmas about a signal and its edges (between two edges the level stays; the edge
  next to a counter is the first change), that a chain of adjacent frames decodes to the edges of
  the line (`DecodedIsReal`, `RealIsDecoded`), what a transaction is on the lines and that it is
  seen on every trace that holds it (`SeenIsTransaction`, `TransactionIsSeen`), and that packets in
  a row span what lies between their ends (`SpanOfRange`). The sum is the library's, over a set it
  takes apart in an order of its own choosing: that it is the sum in any order is proved by
  well-founded induction on the size of a smallest counterexample (`SmallestSet`, `SumsAnyOrder`).

**`DeviceHandle_proofs`** assumes finitely many users, `MaxRetries` a natural, and a value that is
no user (`HandleAssumption`).

- `TypeCorrect`, `HolderHasItOpen`, `ImplementsShared`. The strengthening says that a device's
  count is the number of users that hold it or are being taken off (`CountIsUsers`), that exactly
  the owner of the lock is inside (`LockIsOwned`), and that vendor calls are made only when nobody
  is counted (`VendorCallsAtTheEnds`). Without the last one `OpenWhileHeld` is not inductive: the
  vendor's close could run beside a holder.

**`GateControl_proofs`**, for every minimum, plan, guard, lag and step of the two clocks
(`GateAssumption`; the horizon is only TLC's bound).

- `EvidenceHolds`: `Spec => []EvidenceIsSound`; `EarlyStopHolds`: `Spec => []EarlyStopIsSound`.
  The control forgets what the history keeps, so the invariant says of each field which polls it
  stands for: the pulses among the polls are those counted (`PulsesAreCounted`), the remembered
  rise is that of the high still open (`RiseIsRemembered`), completion stands since a sample that
  had cause for it (`CompletionHasCause`), and the retained samples are the polls since GO
  (`SamplesArePolls`).

**`Lockstep_proofs`**. `GoHolds` (`GoIsSound`) and `WindowHolds` (`WindowIsSound`) assume
`InTime`, in ticks: the target boots within the host's grace; the READY samples the host needs,
and its slack between the last of them and GO, are shorter than the firmware's wait for GO, also
if that wait began before the host's; and no glitch, which lasts two ticks at most, is as long as
the shortest window the plan accepts. The code has 3 s for GO, 0.5 s of grace and no stop between
READY and GO; the slack is the one assumption about the host's scheduler, and section 4 says what
happens without it. The hard part of the invariant is a race of two clocks that both run: `Race` and
`GoInTime` bound the firmware's remaining wait by the host's progress.

**`HostBench_proofs`**: what the host does to the boards and the instrument on its desk.

- `SupplyTypeCorrect` (the account of the device's handles), `CaptureUndoesItsSetUp` and
  `SupplyHolds` (`SupplyIsSound`), for any number of operations, of calls that raise and of
  interrupts in any step, before or after its effect. Nothing is assumed of where they strike: what
  an operation leaves behind is explained by the steps that were hit (`SetUpAt`, `SuppliedAt`).
- `CaptureTypeCorrect` and `CaptureHolds` (`CaptureIsOneRun`), for any number of resets nobody
  asked for. Sinks say "success" last and after the timing of the same launch
  (`SinksFollowTheLaunch`); a launch after the flash is of this image and one that was over stays
  over (`LaunchIsFresh`); GO and the window belong to one launch (`OneWindow`); and a core that no
  reset has set running leaves the sinks as they were read (`ReadAsTheyAre`).
- `BenchHolds` (`CaptureIsOwn`), for any finite set of boards (`BenchAssumption`). Each way to a
  text has its stages (`StagesOfLink`); the port that is read is the chosen board's or one whose
  application nobody takes for a profile (`PortIsOwn`); what a pre-clean wiped stays wiped and a
  known block is the one that is read (`BlockIsOwn`); no session is left from before a reset, and
  one is there after it where the core needs one (`SessionInPlace`).

- `FirmwareInvariant` and `FirmwareIsAlwaysSound` (`FirmwareIsSound`, of which `WireAsDeclared` is
  a part), for every build a configuration can ask for (`FwBuilds`), every course of a counter and
  every port that dies. `FirmwareSoFar` says what the program's place implies: of the hardware
  (`HardwareSoFar`: who holds the link, when the domain is down, when the profiler is off), of
  what was printed and what was printed into a link that is off (`WireSoFar`), of what the meter can
  have read by then (`MeterSoFar`: a stall that began in the window leaves a whole warm-up), and
  of the lines that are due (`DueSoFar`). The last is the half of `WireAsDeclared` that is not an
  invariant of any one step: that every line the registry calls unconditional was printed is known
  only at the end, so each place states what the places before it owe. The lines of each template
  are compared with the registry per engine, and the rest of a program with that of any other.
- `VerdictInvariant` and `VerdictIsAlwaysSound` (`VerdictIsSound`), for any times, losses, drifts
  and packet rates within `VerdictAssumption`, in microseconds and with the bounds of the code, 10
  and 500000 inferences in a window: an inference takes a multiple of ten microseconds (a lost
  iteration is a tenth of it), a boot is three tenths slower or faster than the profiled one at
  most, and two packets are a tenth of a second apart at most. From ten microseconds on the most
  inferences of a window fill its target of five seconds; a shorter one, which no model that is
  profiled comes near, has a shorter window. An inference of more than half a second has a window
  longer than the target, of the ten inferences that are the fewest, and the wait and the tolerances
  follow it. A boot 40 % faster is beyond the slack its wait was given, and the property is false
  there. The arithmetic is products and quotients of two variables, which
  the solver does not find by itself: each bound is a lemma of its own, `div` eliminated by its
  two inequalities.

**`Workspace_proofs`**, for any processes, invocations, resolutions and mishaps:
`ArtifactsHold` (from build to report the executable is the invocation's own) and
`FailedBuildHolds`. `OwnArtifactsHold` and `BuildsHold` (`BuildsVerifiedModules`) assume
`\A m \in Mishaps : "returning" \notin m`, as the run does: no lock comes back to an earlier
resolution (section 4). Cleans that fail part way and syncs that are cut, with torn trees, locks
and stamps left in any combination, are in. The invariant says that one invocation at
most is inside the lock, that a stamp is of the trees it stands beside, and, per stage, what the
invocation inside has established.

- `RunIsAlwaysAsSoFar` and `RunIsAlwaysAsConfigured` (`RunIsAsConfigured`), for any intents, layers,
  boards, host computers and engine modules. A session's base and its overrides each add up to a
  stretch of the layers it was given, and a merge of two such is the sum of both
  (`SessionAddsUp`: merging is associative where a section stays a table, and a scalar ends what
  was before it); every stage that was passed left the products, the facts and the app that later
  ones take for granted (`JobSoFar`). One assumption is about the data: what an engine brings from
  elsewhere comes from repositories of its own (`EnginesBringTheirOwn`). The refs of such modules
  are set without a look at those of the registry, so with an engine that shared a project with a
  board's modules the app could list two refs of it, and the property would be false. All four
  engines of the code satisfy it.

**`PowerRun_proofs`**, for every configuration and any number of gaps in the stream, with or
without the second attempt at the flash, which is all `PowerRunAssumption` asks:

- `PowerRunInvariance`: `Spec => []PowerIInv`, and `PublishedHolds`: `Spec => []PublishedIsSound`.
  What the host keeps are lines of the launch that reports, none of them an END
  (`KeepsItsLines`), so that each END is scanned against the START before it; a frame followed
  from its START is the tail of what is kept (`FollowsTheFrame`), so that a whole frame that
  parses is found; nobody listens before the board reports and the board then stands still
  (`ListensToTheReport`); and that launch is the one the instrument watched (`AcceptsItsOwn`).
  The lemmas under it are about the wire: what a frame looks like (`FrameShape`), that a scan
  finds nothing where no END came (`ScanGoesOn`) and the frame that ends what is kept otherwise
  (`ScanCloses`), and that what parses was written by that launch (`ParsedIsOfItsLines`).

**`HostFiles_proofs`**: what processes on the host share through files, without a lock.

- `InstallHolds` (`InstallIsWhole`), for any set of preparers and any content of the cache. The
  files a build has opened pin the install it links (`PinnedIsOneInstall`), and while no install is
  there some prepare still has one to place, unless it was killed (`GapIsHeld`).
- `ReadHolds` (`ReadIsOneReport`), for any number of reports into one directory. The marker comes
  before the first file and goes after the manifest; so a manifest without marker is true of every
  file it pins (`ManifestIsTrue`), and a reader that holds one holds documents of its report.
- `ComparedHolds` (`ComparedIsTheSweeps`), for any bundles, cases (repeated ones too) and sweeps.
  A bundle with a sweep at work, or left without a manifest, is not settled; a run that exited well
  published all of its bundle; and a case that passed keeps that publication unless a later attempt
  at it was cut short.
- `RecordIsTrue` (`RecordHolds`), for any directories, builds, runs and accidents. That what loads
  is true rests on two facts no accident can break: the hash over a document was computed over what
  some build really compiled (`SumsAreTrue`), and the identity a result states is that of a capture
  that was made (`IdentitiesAreTrue`); verification ties both to the files. That what was saved
  loads needs that a directory one build was made in keeps what was verified (`LeftAlone`), and
  that a claimed evidence directory is filled by its run alone and in order (`EvidenceIsOwn`).
- `ReplayHolds` (`PlanIsReplayed`), for any settings, any world a plan is frozen in and any number
  of changes. A plan that was not edited says what the run under replay meant where it was frozen
  (`FrozenIsOfOrigin`), and an answer has its reason in the world it was given for
  (`AnswerHasReason`). The weight is on two results about the operators, for any two worlds: an
  intent decides everything the engines read (`IntentPinsFirmware`), through the directory each
  selector names and the content of each file; and a portable plan leaves nothing out
  (`PortableIsExact`). The freeze and the engines are separate code, so this is the agreement of
  two readings of the same selectors.

- `ComparisonInvariant` and `ComparisonIsAlwaysSound` (`ComparisonIsSound`), for any two runs and any
  profile. The rows that are shown are those the assessment leaves, in any order of the metrics, and
  a pass is what the profile says of exactly these.
- `MatrixIsAlwaysSound` (`MatrixOfRequestIsSound`), for any boards, models and request.
  `MatrixAssumption` asks that a board lists nothing twice and that flags are lists of names. A case
  is a spot (board, model, engine) and a place on the axes of that spot, which are finite and, where
  the plan names nothing twice, without doubles; so its name decides its place, the attempt being
  part of the name or the only one. The harness resolves the options it is handed into the same
  plan (`HarnessCollectsTheSame`).

Two invariants had to be made stronger than expected, and one property weaker: with two resets
while the sinks of a fixture are read, the second of which leaves the core halted, the snapshots
agree and are of two launches. `CaptureIsOneRun` therefore counts the resets during the read
(`disturbed`) and promises nothing beyond one; the code compares two snapshots and has no means to
see the second reset.

What stays with TLC, and why:

- liveness, and whatever needs `ENABLED`;
- `CaptureIsSound` of `ProfileStream`: what is concluded is a fold over lines of text with a state
  of its own, so that it needs an induction over data, for which the library's theorems cannot be
  instantiated here;
- `MemoryIsSound`: its capacities bound sums over sets of sections, along a chain of folds;
- `TypeOK` of `MCHost`: the conjunction of its parts' types, which each part's proof has where it
  needs it.

## 6. Limits

**Only model-checked:** the modules without a theorem in section 5 (`ProfileStream` with
`ProfileParser`, `MemoryPlacement`), and all liveness.

**Left out of the modelled components:**

- `capture_gated`: opt-in full-rate streams; assembly of the result beyond its integral and
  uncertainty. `device.py`: choice of a device by serial and the lazily built driver object.
- `GateEvidence`: mapping of poll samples to packet time; a poll is taken at its counter.
- `Lockstep`: captures without lock-step wires.
- `Workspace`: edits by hand; several work directories for one board (nothing in the program
  serializes a board, `pipeline.py:463`); `.hpx-workspace.lock`, taken inside the run lock.
- `PowerRun`: loss of bytes inside a number, which no checksum would notice.
- `ProfileStream`: a capture of one pass and iteration that loses a row is accepted
  (`capture/parser.py:315`); losing ITERATIONS with the first ITER drops an iteration, and four
  particular lines lost mix two passes: all outside the bound of `AcceptedIsWhole`. Byte-level
  trims, heartbeat durations and the PSRAM upload before HPX_START are abstracted.
- `ProbeBench`: more than two boards in the runs, boards without HPX firmware beside ones with it,
  a wipe that fails silently, the auto-scan that finds nothing for 30 s, reset calls whose result
  code the code ignores.
- `FirmwareImage`: one spell of a failing counter, only the first warm sample cold, waits for DTR
  and PSRAM not blocking, the crypto, BLE and SSRAM switches, extreme mode.
- `MemoryPlacement`: sizes in KB; buffers of the links, fixture consumers, plans that heliaAOT
  supplies, NPU tables.
- `RunPlan`: files named inside a heliaAOT configuration or by build variables, dirty trees and
  branches are not identified by content in the code either.
- `RunRecord`, `RuntimeCache`, `ResultBundle`: JSON shapes; durability of a rename; two concurrent
  publishers into one output directory (only the work directory is locked).
- `ValidationSweep`: files an older release left; JUnit output.
- `ProfileStream`: the cap on an announced window's budget (`transport/protocol.py:84`), beyond which
  a window could be cut; the windows of the run are within their budget.
- `Verdict`: host wall-clock ceilings, torn text, model identity; a poll's edge uncertainty is one
  slack. A clock slow by less than a quarter or a window cut by less than a tenth is by design not
  told from a sound one.
- `Comparison`: canonical forms of sources and placements, memory files (their identities are
  fixed, and no property looks at them), build configuration, JSON and CSV
  coercion, hand-edited bundles.

- `Configuration`, `Pipeline`: reading of YAML and wording of errors; options no other part depends
  on; nested tables below a section's own.

**Not modelled at all:** identities, full-rate and host-side INA228
instruments, as `components` of `PROJECT.json` says, and what is left of the partly modelled
parts there: sequential transformations, tables and I/O with no interacting state.

## 7. Plan

The modules of the plan are written, and the components whose safety is within the prover's reach
are proved about. What is open needs induction over data (section 5): the fold of `ProfileParser`
and the sums of `MemoryPlacement`. Should the code of one of them change, its run in section 3 is the check to repeat, with larger bounds for a
change of a rule of retention or decoding.
