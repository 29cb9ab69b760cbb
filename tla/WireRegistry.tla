---------------------------- MODULE WireRegistry ----------------------------
(***************************************************************************)
(* The wire registry: which lines a firmware build may put on its link, by *)
(* engine and by the condition under which the line is rendered.  Lines    *)
(* are named without their HPX_ prefix.  A build is a record: its engine   *)
(* ("tflm" for LiteRT and heliaRT, one template), link, whether it is the  *)
(* dedicated power binary, part family, power monitor and set of features. *)
(***************************************************************************)
EXTENDS FiniteSets

TFLM == {"tflm"}
AOT == {"aot"}
ET == {"et"}
AllEngines == TFLM \cup AOT \cup ET
Heartbeat(phase) == <<"HEARTBEAT", phase>>
ErrorLine(code) == <<"ERROR", code>>
Key(key) == <<"KEY", key>>
Sentinel(name) == <<"SENTINEL", name>>
Field(key) == <<"POWER", key>>
Keys(keys) == {Key(k) : k \in keys}
ErrorLines(codes) == {ErrorLine(c) : c \in codes}
SentinelLines(names) == {Sentinel(n) : n \in names}
Fields(keys) == {Field(k) : k \in keys}

\* One family of specs: lines, the engines that own them, the gate, and whether a
\* condition of the running program also decides ("sometimes").
Specs(lines, engines, gate) ==
  [line : lines, engines : {engines}, gate : {gate}, always : {TRUE}, binary : {"transport"}]
Sometimes(specs) == {[s EXCEPT !.always = FALSE] : s \in specs}
OfPower(specs) == {[s EXCEPT !.binary = "power"] : s \in specs}
-----------------------------------------------------------------------------
(* What the templates are rendered from. *)

PsramNeeded(b) == b.features \cap {"arena", "weights", "psram"} # {}
ArenaRegions(b) == b.features \cap {"regions", "psram", "blob"} # {}
BusyLoop(b) == "busy" \in b.features
HasPmu(b) == b.family = "ap5"
\* DWT counts only while a debugger holds its power domain up.
NeedsProbe(b) == b.family \in {"ap3", "ap4"}
CleanWindowTimer(b) == IF b.family = "ap5" THEN "stimer" ELSE "dwt"
BroadShutdown(b) == b.family = "ap4"

PowerWindowTimer(b) ==
  IF CleanWindowTimer(b) = "stimer" \/ BroadShutdown(b) \/ NeedsProbe(b) THEN "stimer" ELSE "dwt"

X_WindowTimer_Power(b) == IF BusyLoop(b) THEN "stimer" ELSE CleanWindowTimer(b)
WindowTimer(b) ==
  CASE BusyLoop(b) -> "stimer"
    [] ~BusyLoop(b) /\ b.power -> PowerWindowTimer(b)
    [] OTHER -> CleanWindowTimer(b)
StimerWindow(b) == WindowTimer(b) = "stimer"

NeedsAttachWait(b) == CleanWindowTimer(b) = "dwt" /\ NeedsProbe(b)

Gate(gate, b) ==
  \/ gate = "any"
  \/ gate = "stream" /\ ~b.power
  \/ gate = "ready" /\ ~b.power /\ b.link # "usb"
  \/ gate = "flush" /\ ~b.power /\ b.link = "rtt"
  \/ gate = "burst" /\ b.family = "ap3"
  \/ gate = "psramMetadata" /\ PsramNeeded(b) /\ ~b.power
  \/ gate = "psramNeeded" /\ PsramNeeded(b)
  \/ gate = "arenaInPsram" /\ "arena" \in b.features
  \/ gate = "weightsInPsram" /\ "weights" \in b.features
  \/ gate = "aotArenas" /\ ArenaRegions(b)
  \/ gate = "aotPsramArenas" /\ "psram" \in b.features
  \/ gate = "aotPsramMetadata" /\ "psram" \in b.features /\ ~b.power
  \/ gate = "blobs" /\ "blob" \in b.features
  \/ gate = "blobsInPsram" /\ {"blob", "psram"} \subseteq b.features
  \/ gate = "busyLoop" /\ BusyLoop(b)
  \/ gate = "ethosU" /\ "npu" \in b.features
  \/ gate = "stimerWindow" /\ StimerWindow(b) /\ ~b.power
  \/ gate = "notStimerWindow" /\ ~StimerWindow(b)
  \/ gate = "trace" /\ "trace" \in b.features /\ b.link \notin {"swo", "uart"}
  \/ gate = "attachWait" /\ NeedsAttachWait(b) /\ b.link = "rtt" /\ ~b.power /\ ~StimerWindow(b)
  \/ gate = "power" /\ b.power
  \/ gate = "powerIna228" /\ b.power /\ b.monitor # "none"
-----------------------------------------------------------------------------
(* The catalogues, in the order of the registry. *)

Sentinels ==
  Specs(SentinelLines({"START", "END", "PRESET", "ITER"}), AllEngines, "stream")
  \cup OfPower(Specs(SentinelLines({"POWER_TERMINAL_START", "POWER_TERMINAL_END"}),
                     TFLM \cup AOT, "power"))

Handshake == Specs({Key("READY")}, AllEngines, "ready")

StartHeader ==
  Specs(Keys({"VERSION", "ENGINE", "EXTREME_MODE", "ITERATIONS", "WARMUP", "NUM_PRESETS",
                         "PRESETS", "POWER_SYNC"}), AllEngines, "stream")
  \cup Sometimes(Specs({Key("SYNC_GPIO")}, AllEngines, "stream"))

ClockAndHeartbeats ==
  Specs({Key("SYSTEM_CLOCK_HZ")}, AllEngines, "any")
  \cup Sometimes(Specs({Key("MEASURED_CLOCK_HZ")}, AllEngines, "stimerWindow"))
  \cup Specs(Keys({"BURST_AVAIL", "BURST_ENGAGED"}), AllEngines, "burst")
  \cup Specs({Key("NPU")}, TFLM \cup AOT, "ethosU")
  \cup Specs(Keys({"HEARTBEAT_ENABLED", "HEARTBEAT_EVERY_N_OPS", "HEARTBEAT_EVERY_MS"}),
             AllEngines, "stream")

ModelSizes ==
  Specs(Keys({"MODEL_SIZE", "ARENA_SIZE"}), TFLM \cup ET, "stream")
  \cup Specs(Keys({"ALLOCATED_ARENA", "NUM_TENSORS"}), TFLM, "any")
  \cup Specs(Keys({"INPUT_SIZE", "OUTPUT_SIZE"}), TFLM, "any")
  \cup Specs(Keys({"INPUT_SIZE", "OUTPUT_SIZE"}), ET, "stream")
  \cup Specs(Keys({"NUM_INPUTS", "NUM_OUTPUTS"}), TFLM \cup AOT, "any")

AotMemory ==
  Specs(Keys({"INPUT_%d_SIZE", "OUTPUT_%d_SIZE"}), AOT, "any")
  \cup Specs({Key("ARENAS_BOUND")}, AOT, "aotArenas")
  \cup Specs({Key("CONST_BLOB_LOADED")}, AOT, "blobs")

PsramKeys ==
  Keys({"PSRAM_SIZE_BYTES", "PSRAM_CLOCK_HZ", "PSRAM_CAPABILITIES", "PSRAM_STATE",
        "PSRAM_LAST_INIT_STATUS", "PSRAM_XIP_ENABLED", "PSRAM_TIMING_STATUS",
        "PSRAM_RXDQS_DELAY"})
Psram ==
  Specs(PsramKeys, TFLM, "psramMetadata")
  \cup Specs(PsramKeys, AOT, "aotPsramMetadata")
  \cup Specs({Key("PSRAM_ARENA")}, TFLM, "arenaInPsram")
  \cup Specs({Key("PSRAM_READY")}, TFLM, "weightsInPsram")
  \cup Specs({Key("PSRAM_ARENA_REGION")}, AOT, "aotPsramArenas")

CleanWindow ==
  Specs({Key("CLEAN_WINDOW_PROBE")}, AllEngines, "busyLoop")
  \cup Specs({Key("CLEAN_ITER")}, AllEngines, "trace")
  \cup Sometimes(Specs(Keys({"CLEAN_INFER_COUNT", "CLEAN_INFER_TOTAL_CYCLES",
                             "CLEAN_INFER_AVG_CYCLES", "CLEAN_INFER_AVG_US"}), AllEngines, "any"))

CleanChecks ==
  Specs(Keys({"CLEAN_STALLED_ITERS", "CLEAN_PARTIAL_ITERS", "CLEAN_REF_CYCLES",
              "CLEAN_DWT_RATE_CYC", "CLEAN_DWT_RATE_US"}), TFLM \cup AOT, "notStimerWindow")
  \cup Specs({Key("CLEAN_ATTACH_WAIT_US")}, TFLM \cup AOT, "attachWait")

ProfiledAndPmu ==
  Sometimes(Specs(Keys({"PROFILED_INFER_COUNT", "PROFILED_INFER_TOTAL_US",
                        "PROFILED_INFER_AVG_US"}), TFLM \cup AOT, "stream"))
  \cup Specs({Key("PMU_INIT_STATUS")}, ET, "any")
  \cup Sometimes(Specs({Key("PMU_SELFTEST_CPU_CYCLES")}, ET, "any"))

Heartbeats ==
  Specs({Heartbeat("clean_window_begin")}, AllEngines, "any")
  \cup Specs({Heartbeat("init"), Heartbeat("warmup_done")}, AllEngines, "stream")
  \cup Specs({Heartbeat("allocate")}, TFLM, "stream")
  \cup Specs({Heartbeat("allocated")}, TFLM, "any")
  \cup Specs({Heartbeat("model_init_done")}, AOT, "any")
  \cup Sometimes(Specs({Heartbeat("infer")}, AllEngines, "any"))
  \cup Specs({Heartbeat("flushing")}, AllEngines, "flush")

ModelErrors ==
  Specs(ErrorLines({"schema_mismatch", "unsupported_op", "missing_ops", "alloc_tensors_failed"}),
        TFLM, "any")
  \cup Specs(ErrorLines({"psram_init_failed", "psram_info_failed"}), TFLM, "psramNeeded")
  \cup Specs(ErrorLines({"psram_init_failed", "psram_info_failed"}), AOT, "aotPsramArenas")
  \cup Specs({ErrorLine("bind_arena_failed")}, AOT, "aotArenas")
  \cup Specs({ErrorLine("const_blob_psram_write_failed")}, AOT, "blobsInPsram")

RunErrors ==
  Specs({ErrorLine("model_init_failed")}, AOT, "any")
  \cup Specs({ErrorLine("npu_init_failed")}, TFLM \cup AOT, "ethosU")
  \cup Specs({ErrorLine("executorch")}, ET, "any")
  \cup Specs({ErrorLine("operator_count_exceeds_capacity")}, AllEngines, "stream")
  \cup Specs({ErrorLine("pmu_init_or_selftest_failed")}, ET, "stream")
  \cup Specs({ErrorLine("stimer_dead")}, TFLM \cup AOT, "stimerWindow")
  \cup Specs({ErrorLine("stimer_dead")}, ET, "busyLoop")
Warnings == Specs({<<"WARN", "unusual_dtype">>}, TFLM, "any")

TerminalFields ==
  Fields({"TERMINAL_VERSION", "STATUS", "REQUESTED_COUNT", "COMPLETED_COUNT", "ELAPSED_US",
          "GATE_ELAPSED_US", "FINAL_PHASE", "ERROR_CODE", "GATE_ASSERTED", "GATE_LOWERED"})
MeasurementFields ==
  Fields({"MEASUREMENT_SOURCE", "MEASUREMENT_SCOPE", "ENERGY_NJ", "MEASUREMENT_DURATION_US",
          "MEASUREMENT_COUNT", "MEASUREMENT_OVERFLOW", "CHARGE_NC", "BUS_VOLTAGE_UV",
          "CALIBRATION_ID"})
TerminalRecord ==
  OfPower(Specs(TerminalFields, TFLM \cup AOT, "power")
          \cup Sometimes(Specs(MeasurementFields, TFLM \cup AOT, "powerIna228"))
          \cup Specs({Field("INA228_DIAG")}, TFLM \cup AOT, "powerIna228")
          \cup Sometimes(Specs({Field("INA228_BYSTANDER_FAILED")}, TFLM \cup AOT, "powerIna228")))

FaultLines == Sometimes(ModelErrors \cup RunErrors \cup Warnings)

Registry ==
  Sentinels \cup Handshake \cup StartHeader \cup ClockAndHeartbeats \cup ModelSizes \cup AotMemory
  \cup Psram \cup CleanWindow \cup CleanChecks \cup ProfiledAndPmu \cup Heartbeats \cup FaultLines
  \cup TerminalRecord

\* What the registry says of a build: the lines its binary may print, and the ones
\* a run that completes always prints.
Owned(b) ==
  {s \in Registry : b.engine \in s.engines /\ Gate(s.gate, b) /\ (b.power <=> s.binary = "power")}
MayPrint(b) == {s.line : s \in Owned(b)}
MustPrint(b) == {s.line : s \in {o \in Owned(b) : o.always}}
=============================================================================
