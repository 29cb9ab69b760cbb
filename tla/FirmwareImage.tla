--------------------------- MODULE FirmwareImage ---------------------------
(***************************************************************************)
(* The program a build renders, from boot to its last line: bring-up, the  *)
(* model, the clean window and the profiled passes (the window and the     *)
(* terminal record on the dedicated power binary).  The hardware is what   *)
(* decides whether a step means anything: whether the debug domain, and    *)
(* with it the cycle counter and the trace port, has power; whether the    *)
(* link is enabled; whether the gate is up.                                *)
(***************************************************************************)
EXTENDS WireRegistry, Naturals, Sequences

VARIABLES
  binary, fwPc,
  hw,       \* debug domain, link users, gate, profiler armed, operator callback
  meter,    \* the cycle counter as the program reads it
  ina,      \* the on-target power monitor
  printed, muted, deadRead

fwVars == <<binary, fwPc, hw, meter, ina, printed, muted, deadRead>>

FwStopped == {"parked", "hung", "done"}
-----------------------------------------------------------------------------
(* Builds a configuration can ask for. *)

Render(engine, links, power, families, monitors, features) ==
  [engine : {engine}, link : links, power : {power}, family : families, monitor : monitors,
   features : features]
FeatureSets(engine, power) ==
  LET common == {{}, {"busy"}}
      diagnostics == IF power THEN {} ELSE {{"trace"}, {"trace", "busy"}}
      placements == IF engine = "tflm" THEN {{"arena"}, {"arena", "weights"}}
                                       ELSE {{"regions"}, {"psram"}, {"psram", "blob"}}
  IN common \cup diagnostics \cup placements \cup {{"npu"}}
Links == {"rtt", "swo", "uart", "usb"}
Families == {"ap3", "ap4", "ap5"}
ProfileBuilds(engine) ==
  Render(engine, Links, FALSE, Families, {"none"}, FeatureSets(engine, FALSE))
PowerBuilds(engine) ==
  Render(engine, {"rtt"}, TRUE, Families, {"none", "required", "bystander"},
         FeatureSets(engine, TRUE))
ExecutorchBuilds == Render("et", Links, FALSE, {"ap5"}, {"none"}, {{}, {"trace"}})
FwBuilds ==
  {b \in UNION {ProfileBuilds(e) \cup PowerBuilds(e) : e \in {"tflm", "aot"}} :
     "npu" \in b.features => b.family = "ap5"}
  \cup ExecutorchBuilds

\* Nobody holds the domain up under a power binary that cannot hold it itself.
DebugAtBoot(b) == ~(b.power /\ (BroadShutdown(b) \/ NeedsProbe(b)))

FreshMeter == [stall |-> 0, kind |-> "none", rateOk |-> TRUE, warmMin |-> 0, zeros |-> FALSE,
               partials |-> FALSE, lost |-> FALSE, left |-> 0]
FwInit ==
  /\ fwPc = "boot"
  /\ hw = [debug |-> DebugAtBoot(binary), users |-> 0, gate |-> FALSE, armed |-> FALSE,
            hook |-> TRUE]
  /\ meter = FreshMeter
  /\ ina = "none"
  /\ printed = {} /\ muted = {} /\ deadRead = FALSE
-----------------------------------------------------------------------------
(* What the steps are made of. *)

Has(feature) == feature \in binary.features
Given(holds, lines) == IF holds THEN lines ELSE {}
Go(from, to) == fwPc = from /\ fwPc' = to

\* The power binary's printf is compiled away.  A line is muted when the link is
\* off, or when the measured window is open.
LinkOff == binary.link \in {"swo", "uart"} /\ hw.users = 0
Say(lines) ==
  /\ printed' = IF binary.power THEN printed ELSE printed \cup lines
  /\ muted' = IF ~binary.power /\ (LinkOff \/ hw.gate) THEN muted \cup lines ELSE muted
Silent == UNCHANGED <<printed, muted>>

\* A line that stops the run: the profile binary parks; the power binary reports
\* the failure in its terminal record, the gate lowered.
TerminalLines(ok) ==
  {Sentinel("POWER_TERMINAL_START"), Sentinel("POWER_TERMINAL_END")} \cup TerminalFields
  \cup Given(binary.monitor # "none", {Field("INA228_DIAG")})
  \cup Given(ina = "dropped", {Field("INA228_BYSTANDER_FAILED")})
  \cup (IF ok /\ ina = "read" THEN MeasurementFields ELSE {})
TerminalReport(ok) == printed' = printed \cup TerminalLines(ok) /\ UNCHANGED muted
PowerFail ==
  /\ binary.power
  /\ TerminalReport(FALSE)
  /\ hw' = [hw EXCEPT !.gate = FALSE]
  /\ fwPc' = "done"
Fail(lines) ==
  \/ ~binary.power /\ Say(lines) /\ fwPc' = "parked" /\ UNCHANGED hw
  \/ PowerFail

\* A use of the cycle counter, or of the PMU behind it.
ReadsDwt == deadRead' = (deadRead \/ ~hw.debug)
NoRead == UNCHANGED deadRead

\* Running the model: an armed profiler that the runtime calls reads the counter
\* between operators, and may print its heartbeat there.
Profiled == hw.armed /\ hw.hook
Invoke(lines) ==
  \E beat \in (IF Profiled THEN SUBSET {Heartbeat("infer")} ELSE {{}}) : Say(lines \cup beat)
\* ExecuTorch checks the result of every run.
InvokeFails == binary.engine = "et" /\ Say({ErrorLine("executorch")}) /\ fwPc' = "parked"
-----------------------------------------------------------------------------
(* Boot, bring-up and the model. *)

\* nsx_system_init enables the link once; a second count and one disable would not
\* turn it off.
X_LinkUsersAtBoot == IF binary.power THEN 0 ELSE 2
LinkUsersAtBoot == IF binary.power THEN 0 ELSE 1
\* A monitor that is a bystander may be dropped at each of its three steps; one that is
\* the measurement fails the run there.
MonitorSetup ==
  CASE binary.monitor = "none" -> {"none"}
    [] binary.monitor = "required" -> {"active"}
    [] binary.monitor = "bystander" -> {"active", "dropped"}
MonitorArmed == {ina} \cup Given(ina = "active" /\ binary.monitor = "bystander", {"dropped"})
MonitorRead ==
  IF ina = "active" THEN {"read"} \cup Given(binary.monitor = "bystander", {"dropped"}) ELSE {ina}
MonitorFails == ina = "active" /\ binary.monitor = "required" /\ PowerFail /\ UNCHANGED ina
Boot ==
  /\ fwPc = "boot"
  /\ \/ /\ fwPc' = "preamble"
        /\ hw' = [hw EXCEPT !.users = LinkUsersAtBoot]
        /\ ina' \in MonitorSetup
        /\ Silent
     \/ binary.monitor = "required" /\ PowerFail /\ UNCHANGED ina
  /\ UNCHANGED <<binary, meter, deadRead>>

Preamble ==
  /\ Go("preamble", IF binary.engine = "tflm" /\ PsramNeeded(binary) THEN "memory" ELSE "header")
  /\ Say(IF binary.link = "usb" THEN {} ELSE {Key("READY")})
  /\ UNCHANGED <<binary, hw, meter, ina, deadRead>>

\* PSRAM for the one arena and the weights of a TFLM build.
X_PsramFaults == ErrorLines({"psram_init_failed", "psram_config_failed"})
PsramFaults == ErrorLines({"psram_init_failed", "psram_info_failed"})
PsramInit ==
  /\ fwPc = "memory"
  /\ \/ /\ fwPc' = "header"
        /\ Say(Given(Has("arena"), {Key("PSRAM_ARENA")})
               \cup Given(Has("weights"), {Key("PSRAM_READY")}))
        /\ UNCHANGED hw
     \/ \E fault \in PsramFaults : Fail({fault})
  /\ UNCHANGED <<binary, meter, ina, deadRead>>

HeaderLines ==
  {Sentinel("START")}
  \cup Keys({"VERSION", "ENGINE", "EXTREME_MODE", "ITERATIONS", "WARMUP", "NUM_PRESETS", "PRESETS",
             "POWER_SYNC"})
  \cup Given(binary.engine # "aot", Keys({"MODEL_SIZE", "ARENA_SIZE"}))
  \cup Given(binary.engine = "et", Keys({"INPUT_SIZE", "OUTPUT_SIZE"}))
  \cup Given(binary.engine = "tflm" /\ PsramNeeded(binary), PsramKeys)
HeartbeatArm ==
  Keys({"HEARTBEAT_ENABLED", "HEARTBEAT_EVERY_N_OPS", "HEARTBEAT_EVERY_MS"})
  \cup {Heartbeat("init")}
Header ==
  /\ Go("header", "setup")
  /\ \E sync \in SUBSET {Key("SYNC_GPIO")} : Say(HeaderLines \cup sync \cup HeartbeatArm)
  /\ UNCHANGED <<binary, hw, meter, ina, deadRead>>

\* The model's set-up, a step at a time: the lines of a step that works and the
\* lines of each way it can fail.
SetupStep(rendered, ok, faults) == IF rendered THEN <<[ok |-> ok, faults |-> faults]>> ELSE <<>>
NpuInit == SetupStep(Has("npu"), {Key("NPU")}, {ErrorLines({"npu_init_failed"})})
TflmSetup ==
  NpuInit
  \o SetupStep(TRUE, {Heartbeat("allocate")}, {ErrorLines({"schema_mismatch"})})
  \o SetupStep(TRUE, {}, {ErrorLines({"unsupported_op", "missing_ops"})})
  \o SetupStep(TRUE, {Heartbeat("allocated")} \cup
                     Keys({"INPUT_SIZE", "OUTPUT_SIZE", "ALLOCATED_ARENA", "NUM_TENSORS",
                           "NUM_INPUTS", "NUM_OUTPUTS"}),
               {ErrorLines({"alloc_tensors_failed"})})
AotSetup ==
  NpuInit
  \o SetupStep(Has("psram"), PsramKeys \cup {Key("PSRAM_ARENA_REGION")}, {{f} : f \in PsramFaults})
  \o SetupStep(ArenaRegions(binary), {Key("ARENAS_BOUND")}, {ErrorLines({"bind_arena_failed"})})
  \o SetupStep(Has("blob"), {Key("CONST_BLOB_LOADED")},
               Given(Has("psram"), {ErrorLines({"const_blob_psram_write_failed"})}))
  \o SetupStep(TRUE, {Heartbeat("model_init_done")} \cup Keys({"NUM_INPUTS", "NUM_OUTPUTS"}),
               {ErrorLines({"model_init_failed"})})
Setup ==
  CASE binary.engine = "tflm" -> TflmSetup
    [] binary.engine = "aot" -> AotSetup
    [] binary.engine = "et" -> <<>>

\* Stops at the step that fails; the TFLM profiler is live from its allocation on,
\* except on the power binary, where it is never initialised.
ModelSetup ==
  /\ fwPc = "setup"
  /\ LET upTo(n) == UNION {Setup[i].ok : i \in 1..n}
         warned == IF binary.engine = "tflm" THEN SUBSET {<<"WARN", "unusual_dtype">>} ELSE {{}}
     IN \/ /\ fwPc' = "clock"
           /\ \E warn \in warned : Say(upTo(Len(Setup)) \cup warn)
           /\ hw' = [hw EXCEPT !.armed = binary.engine = "tflm" /\ ~binary.power]
        \/ \E n \in DOMAIN Setup : \E fault \in Setup[n].faults : Fail(upTo(n - 1) \cup fault)
  /\ UNCHANGED <<binary, meter, ina, deadRead>>
-----------------------------------------------------------------------------
(* Before the window: the clock, the profiler off, the warm-up. *)

\* STIMER's crystal may be dead or unfit at any of its initialisations.
ClockLines ==
  {Key("SYSTEM_CLOCK_HZ")}
  \cup Given(binary.family = "ap3", Keys({"BURST_AVAIL", "BURST_ENGAGED"}))
  \cup Given(binary.engine = "aot", Keys({"INPUT_%d_SIZE", "OUTPUT_%d_SIZE"}))
ClockReport ==
  /\ Go("clock", "measure")
  /\ \/ /\ StimerWindow(binary) /\ ~binary.power
        /\ ReadsDwt
        /\ Say(ClockLines \cup {Key("MEASURED_CLOCK_HZ")})
     \/ NoRead /\ Say(ClockLines)
  /\ UNCHANGED <<binary, hw, meter, ina>>

\* What an interval reads on the cycle counter.  With no debugger on the part the
\* counter freezes or crawls: stall 0 before, 1 during, 2 after such a spell.
Whole == 256
Cold == 9 * Whole
Stalled == [frozen |-> 0, slow |-> 2]
Reading(from, to, kind) ==
  CASE from = to /\ from = 1 -> Stalled[kind]
    [] from = to /\ from # 1 -> Whole
    [] from # to -> Whole \div 2
Spells(m) ==
  {[stall |-> to, kind |-> kind] : to \in m.stall..2,
     kind \in IF m.kind = "none" THEN {"frozen", "slow"} ELSE {m.kind}}

\* The profiler is off for the window.  An RTT build waits for the host to drain its
\* buffer, or for as long as it may; then the counter is rated against a clock of its own.
X_ProfilerOff == hw.armed
ProfilerOff == FALSE
RateProbe ==
  /\ ~StimerWindow(binary) /\ ~binary.power
  /\ ReadsDwt
  /\ \E begin \in 0..1, s \in Spells([FreshMeter EXCEPT !.stall = 0]) :
       /\ s.stall >= begin
       /\ LET r == Reading(begin, s.stall, s.kind) IN
          meter' = [meter EXCEPT !.stall = s.stall, !.kind = IF s.stall = 0 THEN "none" ELSE s.kind,
                                 !.rateOk = 2 * r >= Whole, !.left = 2]
RateClock ==
  /\ Go("measure", "warm")
  /\ hw' = [hw EXCEPT !.armed = ProfilerOff]
  /\ \/ RateProbe
     \/ StimerWindow(binary) /\ NoRead /\ UNCHANGED meter
     \/ ~StimerWindow(binary) /\ binary.power /\ ReadsDwt /\ UNCHANGED meter
  /\ Silent
  /\ UNCHANGED <<binary, ina>>

\* Warm-up runs the model; a DWT-timed window keeps the lowest reading that is not 0.
\* The first of them may find cold caches.
X_Lowest_Highest(least, r) == IF r > least THEN r ELSE least
Lowest(least, r) == IF r > 0 /\ (least = 0 \/ r < least) THEN r ELSE least
WarmReads == ~binary.power
Warm ==
  /\ fwPc = "warm"
  /\ UNCHANGED <<binary, hw, ina>>
  /\ \/ InvokeFails /\ UNCHANGED <<meter, deadRead>>
     \/ /\ Invoke({})
        /\ \/ /\ meter.left = 0 /\ fwPc' = "announce" /\ UNCHANGED meter
              /\ IF WarmReads THEN ReadsDwt ELSE NoRead
           \/ /\ meter.left > 0
              /\ \E s \in Spells(meter) :
                   LET r == Reading(meter.stall, s.stall, s.kind)
                       seen == IF r = Whole /\ meter.left = 2 THEN {Whole, Cold} ELSE {r}
                   IN \E v \in seen :
                        meter' = [meter EXCEPT !.stall = s.stall, !.left = @ - 1,
                                               !.kind = IF s.stall = 0 THEN "none" ELSE s.kind,
                                               !.warmMin = Lowest(@, v)]
              /\ fwPc' = IF meter.left = 1 THEN "announce" ELSE "warm"
              /\ ReadsDwt

\* The window is announced; a busy-loop build sizes its loop on STIMER.
Announce ==
  /\ fwPc = "announce"
  /\ \/ /\ Say({Heartbeat("clean_window_begin")})
        /\ fwPc' = "quiesce"
        /\ UNCHANGED hw
     \/ BusyLoop(binary) /\ binary.power /\ PowerFail
     \/ /\ BusyLoop(binary) /\ ~binary.power
        /\ Say({Heartbeat("clean_window_begin"), ErrorLine("stimer_dead")})
        /\ fwPc' = "quiesce"
        /\ UNCHANGED hw
  /\ UNCHANGED <<binary, meter, ina, deadRead>>
-----------------------------------------------------------------------------
(* The clean window. *)

\* The link is quiesced.  Disabling a link somebody else still holds spins for ever.
Quiesce ==
  /\ fwPc = "quiesce"
  /\ IF binary.link \in {"swo", "uart"} /\ ~binary.power
     THEN /\ hw' = [hw EXCEPT !.users = @ - 1]
          /\ fwPc' = IF hw.users = 1 THEN "open" ELSE "hung"
     ELSE fwPc' = "open" /\ UNCHANGED hw
  /\ Silent
  /\ UNCHANGED <<binary, meter, ina, deadRead>>

\* ExecuTorch brings its own window, timed by its runtime's counter.
OwnWindow == binary.engine = "et" /\ ~BusyLoop(binary)
GatesDebug == ~OwnWindow /\ HasPmu(binary)
OpenGate == [hw EXCEPT !.debug = @ /\ ~GatesDebug, !.gate = TRUE, !.hook = binary.engine # "aot"]
\* A write to a trace port without power may hang the part.  STIMER may find its crystal
\* dead.
MayHang == binary.link = "swo" /\ hw.users = 0 /\ GatesDebug
StimerDead == StimerWindow(binary) /\ ~OwnWindow
OpenWindow ==
  /\ fwPc = "open"
  /\ \/ /\ ina' \in MonitorArmed
        /\ hw' = OpenGate
        /\ fwPc' = "window"
        /\ Silent
     \/ StimerDead /\ binary.power /\ PowerFail /\ UNCHANGED ina
     \/ MonitorFails
     \/ /\ StimerDead /\ ~binary.power
        /\ Say({ErrorLine("stimer_dead")})
        /\ hw' = OpenGate
        /\ fwPc' \in {"window"} \cup Given(MayHang, {"hung"})
        /\ UNCHANGED ina
  /\ meter' = [meter EXCEPT !.left = IF meter.left = 0 /\ ~StimerWindow(binary) THEN 2 ELSE 0]
  /\ UNCHANGED <<binary, deadRead>>

WindowLines ==
  Given(BusyLoop(binary), {Key("CLEAN_WINDOW_PROBE")})
  \cup Given(Has("trace") /\ ~BusyLoop(binary) /\ binary.link \notin {"swo", "uart"},
            {Key("CLEAN_ITER")})
RunsModel == ~BusyLoop(binary)
WindowReads == ~StimerWindow(binary) \/ OwnWindow \/ (RunsModel /\ Profiled)
\* One iteration on the cycle counter: 0 is a stall; less than an eighth of the
\* lowest warm reading is a partial one.
Count(m, s) ==
  LET r == Reading(m.stall, s.stall, s.kind)
      floor == m.warmMin \div 8
  IN [m EXCEPT !.stall = s.stall, !.left = @ - 1,
               !.kind = IF s.stall = 0 THEN "none" ELSE s.kind,
               !.zeros = @ \/ r = 0,
               !.partials = @ \/ (r > 0 /\ floor > 0 /\ r < floor),
               !.lost = @ \/ (m.stall = 1 /\ s.stall = 1)]
MeasuredWindow ==
  /\ fwPc = "window"
  /\ UNCHANGED <<binary, hw, ina>>
  /\ \/ InvokeFails /\ UNCHANGED <<meter, deadRead>>
     \/ /\ IF RunsModel THEN Invoke(WindowLines) ELSE Say(WindowLines)
        /\ IF WindowReads THEN ReadsDwt ELSE NoRead
        /\ \/ meter.left = 0 /\ UNCHANGED meter
           \/ meter.left > 0 /\ \E s \in Spells(meter) : meter' = Count(meter, s)
        /\ fwPc' \in (IF meter.left > 1 THEN {"window"} ELSE {"close"})
                     \cup Given(MayHang /\ WindowLines # {}, {"hung"})

\* The gate is lowered and the monitor read; the profile binary then restores what
\* it took down.  The power binary leaves it down.
BackUp == [hw EXCEPT !.gate = FALSE, !.hook = TRUE, !.users = 1, !.armed = binary.engine = "tflm"]
X_Restored == BackUp
Restored == [BackUp EXCEPT !.debug = @ \/ GatesDebug]
CloseWindow ==
  /\ fwPc = "close"
  /\ \/ ~binary.power /\ hw' = Restored /\ fwPc' = "report" /\ UNCHANGED ina /\ Silent
     \/ /\ binary.power /\ hw' = [hw EXCEPT !.gate = FALSE] /\ fwPc' = "report" /\ Silent
        /\ ina' \in MonitorRead
     \/ MonitorFails
  /\ UNCHANGED <<binary, meter, deadRead>>

AttachWaited ==
  NeedsAttachWait(binary) /\ binary.link = "rtt" /\ ~StimerWindow(binary) /\ ~binary.power
CleanLines ==
  Keys({"CLEAN_INFER_COUNT", "CLEAN_INFER_TOTAL_CYCLES", "CLEAN_INFER_AVG_CYCLES",
        "CLEAN_INFER_AVG_US"})
  \cup Given(~StimerWindow(binary) /\ ~OwnWindow,
            Keys({"CLEAN_STALLED_ITERS", "CLEAN_PARTIAL_ITERS", "CLEAN_REF_CYCLES",
                  "CLEAN_DWT_RATE_CYC", "CLEAN_DWT_RATE_US"}))
  \cup Given(AttachWaited, {Key("CLEAN_ATTACH_WAIT_US")})
\* The power binary's last act; the profile binary goes on to its passes.
ReportWindow ==
  /\ fwPc = "report"
  /\ \/ binary.power /\ TerminalReport(TRUE) /\ fwPc' = "done"
     \/ ~binary.power /\ Say(CleanLines) /\ fwPc' = "passes"
  /\ meter' = FreshMeter
  /\ UNCHANGED <<binary, hw, ina, deadRead>>
-----------------------------------------------------------------------------
(* The profiled passes, and the end. *)

\* TFLM's profiler stays armed through the warm-up of a pass, the others' is put off.
PassLines == {Sentinel("PRESET"), Heartbeat("warmup_done")}
PmuLines == IF binary.engine = "et" THEN {Key("PMU_INIT_STATUS")} ELSE {}
SelfTests == IF binary.engine = "et" THEN SUBSET {Key("PMU_SELFTEST_CPU_CYCLES")} ELSE {{}}
PassBegin ==
  /\ fwPc = "passes"
  /\ \E test \in SelfTests :
       \/ /\ Invoke(PassLines \cup PmuLines \cup test)
          /\ hw' = [hw EXCEPT !.armed = TRUE]
          /\ fwPc' = "iterate"
       \/ /\ binary.engine = "et"
          /\ Say({Sentinel("PRESET")} \cup PmuLines \cup test
                 \cup ErrorLines({"pmu_init_or_selftest_failed"}))
          /\ fwPc' = "parked"
          /\ UNCHANGED hw
       \/ InvokeFails /\ UNCHANGED hw
  /\ ReadsDwt
  /\ UNCHANGED <<binary, meter, ina>>

Iterate ==
  /\ fwPc = "iterate"
  /\ \/ Invoke({Sentinel("ITER")}) /\ fwPc' \in {"passes", "end"}
     \/ Invoke({Sentinel("ITER"), ErrorLine("operator_count_exceeds_capacity")}) /\ fwPc' = "parked"
     \/ InvokeFails
  /\ ReadsDwt
  /\ UNCHANGED <<binary, hw, meter, ina>>

ProfiledLines ==
  Given(binary.engine # "et",
       Keys({"PROFILED_INFER_COUNT", "PROFILED_INFER_TOTAL_US", "PROFILED_INFER_AVG_US"}))
Finish ==
  /\ Go("end", "done")
  /\ Say(ProfiledLines \cup {Sentinel("END")}
         \cup Given(binary.link = "rtt", {Heartbeat("flushing")}))
  /\ UNCHANGED <<binary, hw, meter, ina, deadRead>>

FwNext ==
  \/ Boot \/ Preamble \/ PsramInit \/ Header \/ ModelSetup \/ ClockReport \/ RateClock \/ Warm
  \/ Announce \/ Quiesce \/ OpenWindow \/ MeasuredWindow \/ CloseWindow \/ ReportWindow
  \/ PassBegin \/ Iterate \/ Finish
-----------------------------------------------------------------------------
FwTypeOK ==
  /\ binary.engine \in {"tflm", "aot", "et"} /\ binary.link \in Links
  /\ fwPc \in FwStopped \cup {"boot", "preamble", "memory", "header", "setup", "clock", "measure",
                            "warm", "announce", "quiesce", "open", "window", "close", "report",
                            "passes", "iterate", "end"}
  /\ hw \in [debug : BOOLEAN, users : 0..2, gate : BOOLEAN, armed : BOOLEAN, hook : BOOLEAN]
  /\ meter.stall \in 0..2 /\ meter.left \in 0..2 /\ meter.kind \in {"none", "frozen", "slow"}
  /\ ina \in {"none", "active", "dropped", "read"}
  /\ muted \subseteq printed
  /\ deadRead \in BOOLEAN

\* The cycle counter is never used while the debug domain it lives in is off: the
\* window's timer, the profiler and the debug switches of a build agree.
ClockIsReadable == ~deadRead

\* Nothing is written to a link that is switched off, or inside the measured window,
\* but the markers the window is built to print and the errors that end a run; and the
\* part hangs on no other write, nor on switching its link off.
Tolerated ==
  WindowLines \cup {ErrorLine("executorch")}
  \cup Given(StimerWindow(binary), {ErrorLine("stimer_dead")})
LinkIsQuiet ==
  /\ muted \subseteq Tolerated
  /\ fwPc = "hung" => muted # {}
  /\ fwPc \in {"parked", "done"} /\ binary.engine # "et" => ~hw.gate

\* An iteration the counter slept through is never passed off as a short one: the
\* record carries a rate, a count or a dead reference that says so, unless the counter
\* slowed down between the rate probe and the warm-up.  A sound window is not accused.
ClockEvidence == ~meter.rateOk \/ meter.zeros \/ meter.partials \/ meter.warmMin = 0
SlowedInWarmup == meter.kind = "slow" /\ meter.warmMin \in 1..7
ShortfallIsReported ==
  fwPc = "close" /\ ~StimerWindow(binary) /\ ~binary.power =>
    /\ meter.lost => ClockEvidence \/ SlowedInWarmup
    /\ ClockEvidence => meter.kind # "none"

RanToEnd == fwPc = "done" /\ (binary.power \/ Sentinel("END") \in printed)

\* A build has printed no line its registry does not allow, and one that reaches the end
\* has printed every line the registry calls unconditional (a busy-loop build traces
\* no iterations, whatever its registry says).
WireAsDeclared ==
  /\ fwPc \in FwStopped => printed \subseteq MayPrint(binary)
  /\ RanToEnd => MustPrint(binary) \ Given(BusyLoop(binary), {Key("CLEAN_ITER")}) \subseteq printed

\* The window measures what it is meant to, and the host reads what the image says: the four.
FirmwareIsSound == ClockIsReadable /\ LinkIsQuiet /\ ShortfallIsReported /\ WireAsDeclared
-----------------------------------------------------------------------------
(* Why they hold: the program's place says what the hardware is set to, what *)
(* the counter can have read by then and what has been printed.              *)

FwSpec == (binary \in FwBuilds /\ FwInit) /\ [][FwNext]_fwVars

BringUp ==
  {"preamble", "memory", "header", "setup", "clock", "measure", "warm", "announce", "quiesce"}
GateUp == {"window", "close"}
Afterwards == {"report", "passes", "iterate", "end"}
WindowAhead == {"warm", "announce", "quiesce", "open"}

\* The link has its one user, or none where it is quiesced; the gate is up in the window
\* alone; the domain is down there where the build takes it down; the profiler is off from
\* the clock's rating to the window's end.
HardwareSoFar ==
  /\ hw \in [debug : BOOLEAN, users : 0..2, gate : BOOLEAN, armed : BOOLEAN, hook : BOOLEAN]
  /\ fwPc \in BringUp \cup Afterwards /\ ~binary.power => hw.users = 1
  /\ fwPc \in {"boot", "open"} \cup BringUp \cup Afterwards => ~hw.gate
  /\ fwPc \in {"parked", "done"} /\ binary.engine # "et" => ~hw.gate
  /\ ~binary.power /\ fwPc \notin FwStopped => hw.debug \/ (fwPc \in GateUp /\ GatesDebug)
  /\ fwPc \in WindowAhead \cup GateUp => ~hw.armed
  /\ fwPc \in {"passes", "iterate", "end"} => ~binary.power
  /\ fwPc = "memory" => binary.engine = "tflm" /\ PsramNeeded(binary)

\* What is printed may be; what is muted is tolerated, and a part that hangs had just tried
\* to print.
WireSoFar ==
  /\ printed \subseteq MayPrint(binary)
  /\ muted \subseteq Tolerated \cap printed
  /\ fwPc = "hung" => muted # {}
  /\ ina \in {"none", "active", "dropped", "read"} /\ (binary.monitor = "none" => ina = "none")

\* A counter that had fallen asleep by the end of the warm-up was rated slow, or its lowest
\* reading is of the spell's edge or of the spell; one that was awake has read well.
DwtWindow == ~StimerWindow(binary) /\ ~binary.power
Telltale ==
  \/ ~meter.rateOk \/ meter.warmMin = Whole \div 2
  \/ meter.kind = "frozen" /\ meter.warmMin = 0
  \/ meter.kind = "slow" /\ meter.warmMin = Stalled.slow
Unused == ~meter.zeros /\ ~meter.partials /\ ~meter.lost
Meters ==
  [stall : 0..2, kind : {"none", "frozen", "slow"}, rateOk : BOOLEAN, warmMin : Nat,
   zeros : BOOLEAN, partials : BOOLEAN, lost : BOOLEAN, left : 0..2]
MeterSoFar ==
  /\ meter \in Meters
  /\ fwPc \notin FwStopped \cup WindowAhead \cup GateUp \cup {"report"} => meter = FreshMeter
  /\ fwPc \in WindowAhead \cup GateUp =>
       /\ meter.left > 0 => DwtWindow
       /\ DwtWindow => (meter.kind = "none" <=> meter.stall = 0)
       /\ DwtWindow /\ meter.stall = 0 => meter.rateOk
  /\ fwPc = "warm" /\ DwtWindow =>
       /\ Unused /\ meter.left \in {1, 2}
       /\ meter.left = 2 => meter.warmMin = 0
       /\ meter.left = 1 /\ meter.stall = 0 => meter.warmMin \in {Whole, Cold}
       /\ meter.left = 1 /\ meter.stall = 1 => Telltale
  /\ fwPc \in {"announce", "quiesce", "open"} /\ DwtWindow =>
       /\ Unused /\ meter.left = 0
       /\ meter.stall = 0 => meter.warmMin = Whole
       /\ meter.stall = 1 => Telltale
  /\ fwPc \in GateUp /\ DwtWindow =>
       /\ meter.stall = 0 => meter.warmMin = Whole /\ Unused
       /\ meter.stall = 1 => Telltale \/ meter.warmMin = Whole
       /\ meter.lost => ClockEvidence \/ SlowedInWarmup

\* A program past a place has printed what the build prints there whatever happens.
Milestone ==
  [boot |-> 0, preamble |-> 1, memory |-> 2, header |-> 3, setup |-> 4, clock |-> 5, measure |-> 6,
   warm |-> 7, announce |-> 8, quiesce |-> 9, open |-> 10, window |-> 11, close |-> 12, report |-> 13,
   passes |-> 14, iterate |-> 15, end |-> 16, done |-> 17, parked |-> 0, hung |-> 0]
Past(place) == Milestone[place] < Milestone[fwPc] /\ ~binary.power
LinesOf(steps) == UNION {steps[i].ok : i \in DOMAIN steps}
DueSoFar ==
  /\ Past("preamble") => Given(binary.link # "usb", {Key("READY")}) \subseteq printed
  /\ Past("memory") /\ binary.engine = "tflm" =>
       /\ Has("arena") => Key("PSRAM_ARENA") \in printed
       /\ Has("weights") => Key("PSRAM_READY") \in printed
  /\ Past("header") => HeaderLines \cup HeartbeatArm \subseteq printed
  /\ Past("setup") => LinesOf(Setup) \subseteq printed
  /\ Past("clock") => ClockLines \subseteq printed
  /\ Past("announce") => Heartbeat("clean_window_begin") \in printed
  /\ Past("window") => WindowLines \subseteq printed
  /\ Past("report") => CleanLines \subseteq printed
  /\ Past("passes") => PassLines \cup PmuLines \subseteq printed
  /\ Past("iterate") => Sentinel("ITER") \in printed
  /\ Past("end") =>
       {Sentinel("END")} \cup Given(binary.link = "rtt", {Heartbeat("flushing")}) \subseteq printed
  /\ fwPc = "done" /\ binary.power =>
       SentinelLines({"POWER_TERMINAL_START", "POWER_TERMINAL_END"}) \cup TerminalFields
         \cup Given(binary.monitor # "none", {Field("INA228_DIAG")}) \subseteq printed

\* The inductive invariant.
FirmwareSoFar ==
  binary \in FwBuilds /\ ClockIsReadable /\ HardwareSoFar /\ WireSoFar /\ MeterSoFar /\ DueSoFar
=============================================================================
