------------------------------- MODULE Pipeline -------------------------------
(***************************************************************************)
(* A profile, from the session that asks for it to the report.  The settled  *)
(* configuration is handed to a list of stages; each may skip itself, reads   *)
(* what earlier stages left in the context, and adds to it.  The list is      *)
(* fixed, the skips are decided one stage at a time from the configuration,   *)
(* and a stage that reads what nobody made fails the run.                     *)
(***************************************************************************)
EXTENDS AppManifest

CONSTANT ComputeHosts   \* the computers a run may be started from, and the model file found there

VARIABLES
  host,       \* the computer of this run
  job,        \* [status, at, why]: "idle", "running", "done" or "failed", at which stage, why
  made,       \* the products in the context
  learned,    \* what the run measured or decided: arena, weights, compiled, timed, counted
  app         \* the app generate_firmware wrote

pipelineVars == <<configVars, host, job, made, learned, app>>

X_PipelineStages_PlanFirst ==
  <<"preflight", "ensure_board_powered", "resolve_platform", "resolve_jlink_probe",
    "prepare_engine", "analyze_model", "plan_memory", "generate_firmware", "build_firmware",
    "verify_placement", "flash_firmware", "plan_power_run", "capture_pmu",
    "build_power_firmware", "flash_power_firmware", "capture_power",
    "collect_power_terminal", "generate_report">>
PipelineStages ==
  <<"preflight", "ensure_board_powered", "resolve_platform", "resolve_jlink_probe",
    "prepare_engine", "analyze_model", "plan_memory", "generate_firmware", "build_firmware",
    "verify_placement", "flash_firmware", "capture_pmu", "plan_power_run",
    "build_power_firmware", "flash_power_firmware", "capture_power",
    "collect_power_terminal", "generate_report">>
-----------------------------------------------------------------------------
(* Preflight. *)

Tflm == {"litert", "helia-rt"}
OnNpu(c) == c.engine.backend = "ethos_u"
Infers(c) == c.profiling.clean_window_probe = "infer"

ModelFileOk(c, f) ==
  LET pte == c.engine.type = "executorch"
  IN /\ f.found = "file"
     /\ f.suffix = (IF pte THEN ".pte" ELSE ".tflite")
     /\ f.marker = (IF pte THEN "ET" ELSE "TFL3")

\* A softmax scale below TFLM's bound but above the one of the heliaAOT compiler is only "faint".
SoftmaxOk(c, f) ==
  \/ c.engine.type = "executorch"
  \/ f.softmax = "fine"
  \/ f.softmax = "faint" /\ c.engine.type \notin Tflm

SplitLocationsOk(c) ==
  /\ "psram" \in {c.model.arena_location, c.model.weights_location} => c.engine.type # "executorch"
  /\ c.model.weights_location = "psram" /\ c.engine.type \in Tflm => c.target.transport = "rtt"
  /\ c.engine.type = "helia-aot" /\ InPsram(c, c.model.arena_location, c.model.weights_location)
       => ~c.engine.allocate_arenas

\* A list of names may put a counter of the NPU under any group's key.
SamplesNpu(g, chosen) ==
  chosen = "npu names" \/ (g = "ethos_npu" /\ chosen \in {"default", "all"})
PmuSelectionOk(c) ==
  LET sel == c.pmu_counters
  IN /\ DOMAIN sel \subseteq Catalogue[c.target.board].groups
     /\ \A g \in DOMAIN sel : sel[g] \in {"default", "all", "cpu names", "npu names"}
     /\ (\E g \in DOMAIN sel : SamplesNpu(g, sel[g])) => OnNpu(c)

NpuBackendOk(c, h) ==
  OnNpu(c) =>
    /\ c.engine.type \in {"helia-rt", "helia-aot"}
    /\ Catalogue[c.target.board].npu # ""
    /\ h.litert
    /\ h.model.vela \in {"none", "unknown", Catalogue[c.target.board].npu}

X_TransportOk_SharedUsb(c) ==
  /\ c.engine.type = "executorch" => ~PowerEnabled(c) /\ Infers(c)
  /\ c.target.transport = "usb_cdc" => Catalogue[c.target.board].usb
TransportOk(c) ==
  /\ c.engine.type = "executorch" => ~PowerEnabled(c) /\ Infers(c)
  /\ c.target.transport = "usb_cdc" =>
       /\ Catalogue[c.target.board].usb
       /\ ~(PowerEnabled(c) /\ c.power.firmware = "shared" /\ Locksteps(c))
PowerBoardOk(c) == PowerEnabled(c) => ~Catalogue[c.target.board].fpga

Compiler(c) ==
  IF c.target.toolchain = "armclang" THEN {"armclang", "fromelf"} ELSE {c.target.toolchain}
ToolsNeeded(c) ==
  {"cmake", "ninja", "jlink", "neuralspotx"} \cup Compiler(c)
    \cup (IF c.target.transport \in {"rtt", "swo"} THEN {"pylink"} ELSE {})
    \cup (IF c.engine.type = "helia-aot" THEN {"helia_aot"} ELSE {})

PreflightOk(c, h) ==
  /\ ModelFileOk(c, h.model) /\ SoftmaxOk(c, h.model) /\ SplitLocationsOk(c)
  /\ PmuSelectionOk(c) /\ NpuBackendOk(c, h) /\ TransportOk(c) /\ PowerBoardOk(c)
  /\ h.writable /\ ToolsNeeded(c) \subseteq h.tools
-----------------------------------------------------------------------------
(* The runner. *)

NothingLearned ==
  [arena |-> "", weights |-> "", compiled |-> FALSE, timed |-> FALSE, counted |-> FALSE]
PipelineInit ==
  /\ ConfigInit /\ host = <<>> /\ job = [status |-> "idle", at |-> 0, why |-> ""]
  /\ made = {} /\ learned = NothingLearned /\ app = <<>>

SkipsItself(s) ==
  LET dedicated == PowerEnabled(conf) /\ conf.power.firmware = "dedicated"
  IN CASE s = "ensure_board_powered" -> ~(conf.target.ensure_board_powered \/ PowerEnabled(conf))
       [] s = "resolve_jlink_probe" -> "soc" \notin made \/ ~Catalogue[conf.target.board].jlink
       [] s = "analyze_model" ->
            conf.engine.type = "executorch" \/ ~(learned.compiled \/ host.litert)
       [] s = "verify_placement" ->
            \/ ~({"profile_firmware", "soc", "regions"} \subseteq made)
            \/ learned.arena = "psram" \/ conf.engine.type = "helia-aot"
       [] s = "plan_power_run" -> ~PowerEnabled(conf)
       [] s = "build_power_firmware" -> ~dedicated \/ "power_plan" \notin made \/ ~learned.counted
       [] s = "flash_power_firmware" -> ~dedicated
       [] s = "capture_power" -> ~PowerEnabled(conf) \/ conf.power.mode = "internal"
       [] s = "collect_power_terminal" -> ~dedicated \/ "power_plan" \notin made
       [] OTHER -> FALSE

\* What a stage reads and does not do without.
ReadsFirst(s) ==
  CASE s = "generate_firmware" -> {"artifacts", "soc"}
    [] s = "build_firmware" -> {"artifacts", "firmware_dir"}
    [] s = "flash_firmware" -> {"soc", "profile_firmware"}
    [] s = "capture_pmu" -> {"soc", "profile_deployment"}
    [] s = "build_power_firmware" -> {"power_plan", "firmware_dir", "profile_firmware"}
    [] s = "flash_power_firmware" -> {"soc", "power_firmware"}
    [] s = "capture_power" ->
         {"power_plan"} \cup (IF conf.power.firmware = "dedicated" THEN {"power_deployment"} ELSE {})
    [] s = "collect_power_terminal" ->
         {"power_deployment"}
           \cup (IF conf.power.mode = "internal" THEN {} ELSE {"observation"})
    [] s = "generate_report" -> {"pmu_result"}
    [] OTHER -> {}

Running == job.status = "running"
Current == PipelineStages[job.at]
Advance ==
  job' = IF job.at = Len(PipelineStages) THEN [job EXCEPT !.status = "done"]
         ELSE [job EXCEPT !.at = job.at + 1]
Fails(why) ==
  /\ job' = [job EXCEPT !.status = "failed", !.why = why]
  /\ UNCHANGED <<made, learned, app>>
Gives(products) == Advance /\ made' = made \cup products
Enters(s) ==
  /\ Running /\ Current = s /\ ~SkipsItself(s)
  /\ UNCHANGED <<configVars, host>>

SkipStage ==
  /\ Running /\ SkipsItself(Current) /\ Advance
  /\ UNCHANGED <<configVars, host, made, learned, app>>
Starves ==
  /\ Running /\ ~SkipsItself(Current) /\ ~(ReadsFirst(Current) \subseteq made) /\ Fails("starved")
  /\ UNCHANGED <<configVars, host>>
Works(s) == Enters(s) /\ ReadsFirst(s) \subseteq made

\* What a tool, the network or the bench may do to any stage: a typed error, or a wrapped one.
Breaks ==
  /\ Running /\ ~SkipsItself(Current) /\ Fails("world") /\ UNCHANGED <<configVars, host>>
-----------------------------------------------------------------------------
(* The stages. *)

\* The run takes the settled configuration; the session stays as it was, for another run.
StartRun ==
  /\ settled = "resolved" /\ job.status = "idle"
  /\ job' = [job EXCEPT !.status = "running", !.at = 1]
  /\ intent' = [base |-> <<>>, over |-> <<>>] /\ given' = <<>> /\ folded' = 0
  /\ settled' = "handed over" /\ UNCHANGED <<conf, host, made, learned, app>>

PreflightStage ==
  /\ Works("preflight")
  /\ IF PreflightOk(conf, host) THEN Gives({}) /\ UNCHANGED <<learned, app>> ELSE Fails("refused")
EnsureBoardPoweredStage ==
  Works("ensure_board_powered") /\ Gives({}) /\ UNCHANGED <<learned, app>>
ResolvePlatformStage ==
  /\ Works("resolve_platform")
  /\ IF conf.target.cpu \in {"null"} \cup Catalogue[conf.target.board].cpus
     THEN Gives({"soc"}) /\ UNCHANGED <<learned, app>> ELSE Fails("refused")
ResolveJLinkProbeStage == Works("resolve_jlink_probe") /\ Gives({}) /\ UNCHANGED <<learned, app>>

\* heliaAOT alone analyses what it compiled, when its report can be read.
PrepareEngineStage ==
  /\ Works("prepare_engine") /\ Gives({"artifacts"})
  /\ \E b \in {FALSE} \cup {conf.engine.type = "helia-aot"} :
       learned' = [learned EXCEPT !.compiled = b]
  /\ UNCHANGED app

\* The analysis of the source model is what the NPU gate asks, whatever the compiled graph says.
SourceAnalysed == host.litert /\ host.model.readable
X_NpuAgrees_Compiled ==
  IF SourceAnalysed THEN OnNpu(conf) <=> host.model.vela # "none"
  ELSE learned.compiled \/ ~OnNpu(conf)
NpuAgrees ==
  IF SourceAnalysed THEN OnNpu(conf) <=> host.model.vela # "none" ELSE ~OnNpu(conf)
AnalyzeModelStage ==
  /\ Works("analyze_model")
  /\ IF NpuAgrees
     THEN /\ Gives(IF SourceAnalysed \/ learned.compiled THEN {"analysis"} ELSE {})
          /\ UNCHANGED <<learned, app>>
     ELSE Fails("refused")

\* An explicit location wins over the fastest that fits; PSRAM is never chosen unasked.
BoardHas(b, region) ==
  /\ region = "tcm" => Catalogue[b].dtcm
  /\ region = "psram" => Catalogue[b].psram
PlanMemoryStage ==
  /\ Works("plan_memory")
  /\ LET asked == {conf.model.arena_location, conf.model.weights_location} \ {"null"}
         Where(wish, auto) == IF wish = "null" THEN auto ELSE {wish}
     IN IF \E r \in asked : ~BoardHas(conf.target.board, r) THEN Fails("refused")
        ELSE /\ Gives({"regions"})
             /\ \E a \in Where(conf.model.arena_location, {"tcm", "sram"}),
                   w \in Where(conf.model.weights_location, {"mram"}) :
                  learned' = [learned EXCEPT !.arena = a, !.weights = w]
             /\ UNCHANGED app

GenerateFirmwareStage ==
  /\ Works("generate_firmware")
  /\ IF RefsAgree(conf, Selected(conf, learned.arena, learned.weights))
     THEN /\ Gives({"firmware_dir"}) /\ UNCHANGED learned
          /\ app' = Generated(conf, learned.arena, learned.weights)
     ELSE Fails("refused")
BuildFirmwareStage == Works("build_firmware") /\ Gives({"profile_firmware"}) /\ UNCHANGED <<learned, app>>
VerifyPlacementStage == Works("verify_placement") /\ Gives({}) /\ UNCHANGED <<learned, app>>
FlashFirmwareStage ==
  Works("flash_firmware") /\ Gives({"profile_deployment"}) /\ UNCHANGED <<learned, app>>

\* The clean window of the profile image may report no average: its cycle counter can stall.
CapturePmuStage ==
  /\ Works("capture_pmu") /\ Gives({"pmu_result"})
  /\ \E timed \in BOOLEAN : learned' = [learned EXCEPT !.timed = timed]
  /\ UNCHANGED app

DriverMode(driver) == IF driver = "ina228" THEN "internal" ELSE "external"
PlanPowerRunStage ==
  /\ Works("plan_power_run")
  /\ IF DriverMode(conf.power.driver) = conf.power.mode
     THEN /\ Gives({"power_plan"}) /\ UNCHANGED app
          /\ learned' = [learned EXCEPT !.counted =
               conf.power.firmware = "dedicated" /\ (~Infers(conf) \/ learned.timed)]
     ELSE Fails("refused")
BuildPowerFirmwareStage ==
  Works("build_power_firmware") /\ Gives({"power_firmware"}) /\ UNCHANGED <<learned, app>>
FlashPowerFirmwareStage ==
  Works("flash_power_firmware") /\ Gives({"power_deployment"}) /\ UNCHANGED <<learned, app>>
CapturePowerStage == Works("capture_power") /\ Gives({"observation"}) /\ UNCHANGED <<learned, app>>
CollectPowerTerminalStage ==
  Works("collect_power_terminal") /\ Gives({"terminal"}) /\ UNCHANGED <<learned, app>>
GenerateReportStage == Works("generate_report") /\ Gives({"report"}) /\ UNCHANGED <<learned, app>>

\* A session is loaded and settled on the computer the run is made from.
SettleConfig ==
  /\ \E h \in ComputeHosts :
       /\ host' = h
       /\ ResolveConfig(h) \/ ResolveWithModel("another", h)
  /\ UNCHANGED <<job, made, learned, app>>
Compose ==
  /\ (\E layer \in IntentLayers : With(layer)) \/ SaveAndLoad
  /\ UNCHANGED <<host, job, made, learned, app>>

PipelineNext ==
  \/ Compose \/ SettleConfig \/ StartRun \/ SkipStage \/ Starves \/ Breaks
  \/ PreflightStage \/ EnsureBoardPoweredStage \/ ResolvePlatformStage \/ ResolveJLinkProbeStage \/ PrepareEngineStage
  \/ AnalyzeModelStage \/ PlanMemoryStage \/ GenerateFirmwareStage \/ BuildFirmwareStage \/ VerifyPlacementStage
  \/ FlashFirmwareStage \/ CapturePmuStage \/ PlanPowerRunStage \/ BuildPowerFirmwareStage \/ FlashPowerFirmwareStage
  \/ CapturePowerStage \/ CollectPowerTerminalStage \/ GenerateReportStage

\* Any session of the user's, on any of the computers.
PipelineSpec ==
  /\ intent \in {NewSession(y) : y \in Intents} /\ PipelineInit
  /\ [][PipelineNext]_pipelineVars
-----------------------------------------------------------------------------
(* Properties. *)

Deployed == {"profile_deployment", "power_deployment"} \cap made # {}

\* No stage is reached without what it reads, whichever stages skipped themselves.  The one
\* exception is a dedicated power image that counts inferences when the profile image timed
\* none: no count, no image, and its flash stage is not skipped.
NoStageStarves ==
  job.why = "starved" =>
    /\ Current = "flash_power_firmware" /\ Infers(conf) /\ ~learned.timed

\* Contents for PSRAM have somebody to write them: the host over RTT for TFLM's weights, the
\* image itself for heliaAOT's when it owns the arenas.
PsramIsFilled ==
  Deployed /\ InPsram(conf, learned.arena, learned.weights) =>
    /\ conf.engine.type # "executorch"
    /\ "psram" \in {learned.arena, learned.weights} => Catalogue[conf.target.board].psram
    /\ conf.engine.type = "helia-aot" => ~conf.engine.allocate_arenas
    /\ learned.weights = "psram" /\ conf.engine.type \in Tflm => conf.target.transport = "rtt"
    /\ {"nsx-psram", "nsx-interrupt"} \subseteq DOMAIN app.rows
    /\ "nsx-psram" \in app.links.profile

\* An image never meets a model compiled for other hardware: where the source model can be
\* analysed, NPU image and NPU model come together, and for the NPU the board has.
NpuMeetsItsModel ==
  Deployed /\ conf.engine.type # "executorch" =>
    /\ OnNpu(conf) => /\ SourceAnalysed /\ host.model.vela \in {"unknown", Catalogue[conf.target.board].npu}
                      /\ NpuModule \in app.links.profile
    /\ SourceAnalysed => (OnNpu(conf) <=> host.model.vela # "none")

\* Nobody waits for a port that the other side opens only once it is answered: a shared image
\* over USB is never captured in lock-step.
SharedUsbIsFree ==
  "observation" \in made =>
    ~(conf.target.transport = "usb_cdc" /\ conf.power.firmware = "shared" /\ Locksteps(conf))

\* What was gated has an instrument of the kind that gates, and what the target measures itself
\* is measured by a build of its own with a monitor it can read.
InstrumentFits ==
  /\ "observation" \in made => conf.power.mode = "external" /\ conf.power.driver # "ina228"
  /\ "terminal" \in made /\ conf.power.mode = "internal" =>
       /\ DedicatedImage(conf) /\ MonitorOnTarget(conf)
       /\ {"nsx-i2c", "nsx-sensors"} \subseteq app.links.power

\* The run that is made is the one that was asked for.
RunIsAsConfigured ==
  /\ LastWordStands /\ PinsAreTheBoards
  /\ NoStageStarves /\ PsramIsFilled /\ NpuMeetsItsModel /\ SharedUsbIsFree /\ InstrumentFits
  /\ "firmware_dir" \in made => OneRefPerProject(app) /\ LinksWhatItLists(app)

\* The context holds what the stages so far can have made.
PipelineTypeOK ==
  /\ job.status \in {"idle", "running", "done", "failed"} /\ job.at \in 0..Len(PipelineStages)
  /\ settled \in {"open", "resolved", "refused", "handed over"}
  /\ made \subseteq {"soc", "artifacts", "analysis", "regions", "firmware_dir", "profile_firmware",
                     "profile_deployment", "pmu_result", "power_plan", "power_firmware",
                     "power_deployment", "observation", "terminal", "report"}
  /\ folded \in 0..MaxLayers /\ Len(given) <= MaxLayers + 1
  /\ learned.arena \in {"", "tcm", "sram", "psram"} /\ learned.weights \in {"", "tcm", "sram", "psram", "mram"}
=============================================================================
