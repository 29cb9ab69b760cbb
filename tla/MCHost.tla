-------------------------------- MODULE MCHost --------------------------------
(***************************************************************************)
(* The parts of the host that keep no state in common, each under the      *)
(* interference it meets: the prepared runtime a fixture build links, the  *)
(* capture of a fixture, the directory that keeps its result; the bundle a *)
(* profile publishes; a validation sweep and the matrix it runs; the       *)
(* verdict on a power run; the supply relay; where the memory goes; the    *)
(* plan of a run; the firmware image; the comparison of two runs; the      *)
(* boards on the desk; the run of a profile, from the session that asks for  *)
(* it to its report.  A part relies on another only by what that one's   *)
(* properties promise, so a behaviour takes one part.                      *)
(***************************************************************************)
EXTENDS RuntimeCache, FixtureCapture, RunRecord, ResultBundle, ValidationSweep,
        ValidationMatrix, Verdict, SupplyRelay, MemoryPlacement, RunPlan,
        FirmwareImage, Comparison, ProbeBench, Pipeline, TLC

VARIABLE part

-----------------------------------------------------------------------------
(* The constants of the parts. *)

MCEvidence == 1..2
CONSTANTS c1, c2
MCOrder == <<c1, c2>>
MCUnits == {10, 300000, 1800000}
MCLosses == {0, 5, 10}
MCDrifts == {-12, 0, 12}
MCRates == {20, 1000}
MCArenas == {32, 220, 618, 3200}
MCWeights == {100, 1600}

MCSymmetry == Permutations(Dirs) \cup Permutations(Builders) \cup Permutations(Runners)

\* Three boards and two models that differ in everything the rules of the matrix ask of them.
MCBoards ==
  [b \in {"apollo510_evb", "apollo330mP_evb", "apollo3p_evb"} |->
     [m55 |-> b # "apollo3p_evb", apollo3 |-> b = "apollo3p_evb",
      declared |-> {"arm-none-eabi-gcc", "armclang"} \cup (IF b = "apollo510_evb" THEN {"atfe"} ELSE {}),
      toolchains |-> <<"arm-none-eabi-gcc", "armclang", "atfe">>,
      transports |-> IF b = "apollo3p_evb" THEN <<"rtt", "uart">> ELSE <<"rtt", "uart", "usb_cdc">>,
      memories |-> IF b = "apollo330mP_evb" THEN <<"auto", "tcm">> ELSE <<"auto", "tcm", "psram">>,
      dtcm |-> IF b = "apollo3p_evb" THEN 2 ELSE 4]]
MCModels ==
  [m \in {"kws", "ad"} |->
     [pte |-> m = "kws", skips |-> IF m = "kws" THEN {} ELSE {"helia-aot"}, fp16 |-> m = "ad",
      perChannel |-> FALSE, arena |-> 1, workspace |-> 2, weights |-> 2]]

\* Requests: axes left open, aliases, names the board or nobody knows, and the suites.
Flags ==
  [models : {<<>>, <<"ad">>}, engines : {<<>>, <<"rt", "helia-rt">>, <<"et", "aot">>},
   backends : {<<"arm", "ns">>}, boards : {<<>>, <<"apollo3p_evb", "apollo510_evb">>, <<"nobody">>},
   toolchains : {<<>>, <<"gcc", "arm-none-eabi-gcc">>, <<"atfe">>},
   transports : {<<"usb", "rtt">>}, memories : {<<>>, <<"psram">>, <<"auto", "tcm">>}]
MCRequests ==
  [flags : Flags, custom : {<<>>, <<"ad">>}, suite : {"none", "smoke", "complete"},
   power : {"off", "both"}, powerBoards : {<<>>, <<"apollo510_evb">>}, repeat : {2}]
\* Two runs of one bench, each changed in at most one thing.
Bench(engine, graph, power, firmware) ==
  [engine |-> engine, graph |-> graph, extracted |-> TRUE, model |-> "m1", board |-> "ap5",
   linker |-> "gnu", regions |-> TRUE, rest |-> "same", power |-> power, firmware |-> firmware,
   monitor |-> power = "internal", asked |-> FALSE, armed |-> FALSE, probe |-> "infer",
   code |-> "v1", readable |-> TRUE, scope |-> "gated", integrity |-> "valid", issues |-> {},
   complete |-> TRUE, older |-> "nothing", cycles |-> 100, energy |-> 100, used |-> 10,
   spot |-> "tcm"]
Benches ==
  {Bench("litert", "plain", "external", "dedicated"),
   Bench("helia-aot", "skips", "external", "shared"),
   Bench("helia-aot", "fused", "internal", "dedicated"), Bench("litert", "plain", "none", "shared")}
Alter ==
  [engine |-> {"litert", "helia-aot", "executorch"}, graph |-> {"plain", "skips", "fused"},
   extracted |-> {FALSE}, model |-> {"m2"}, board |-> {"ap4"}, linker |-> {"armlink"},
   regions |-> {FALSE}, rest |-> {"other"}, power |-> {"none", "internal"}, firmware |-> {"shared"},
   monitor |-> {TRUE}, asked |-> {TRUE}, armed |-> BOOLEAN, probe |-> {"busy_loop"},
   code |-> {"v2"}, readable |-> {FALSE}, scope |-> {"whole"},
   integrity |-> {"diagnostic", "invalid"},
   issues |-> {{"power.window_observer_mismatch"}, {"pmu.counter_overflow"},
               {"power.of_a_newer_build"},
               {"power.window_observer_mismatch", "pmu.counter_overflow"},
               {"power.gate_duration_mismatch"}},
   complete |-> {FALSE},
   older |-> {"power_clean_workload", "power_firmware_fingerprint", "power_clean_window_probe",
              "link_family"},
   cycles |-> {104, 120}, energy |-> {104, 120, NoValue, NonFinite}, used |-> {20},
   spot |-> {"sram"}]
Near(r) == {r} \cup UNION {{[r EXCEPT ![f] = v] : v \in Alter[f]} : f \in DOMAIN Alter}
Challenge(b) == {r \in Near(b) : Possible(r)}
Waiting(r) == IF r.power = "external" THEN [r EXCEPT !.asked = TRUE, !.armed = TRUE] ELSE r
MCDuels ==
  UNION {[baseline : Challenge(b), candidate : Challenge(b)] :
           b \in Benches \cup {Waiting(w) : w \in Benches}}
Policy(direction, pct, most, missing) ==
  [direction |-> direction, pct |-> pct, most |-> most, missing |-> missing, unit |-> TRUE]
MCProfiles ==
  {[metrics |-> ("total_cycles" :> Policy("smaller", 5, 0, ""))
                @@ ("power.energy_j" :> Policy("smaller", 5, 2, "")),
    missing |-> "", required |-> {"toolchain", "link_family"}],
   [metrics |-> ("total_cycles" :> Policy("smaller", 0, 10, "warn"))
                @@ ("power.energy_per_inference_j" :> Policy("either", 0, 4, "")),
    missing |-> "ignore", required |-> {"engine_backend"}],
   [metrics |-> ("memory_regions.ITCM.used" :> Policy("smaller", 0, 0, "ignore"))
                @@ ("memory_regions.SRAM.free" :> Policy("larger", 0, 0, "warn")),
    missing |-> "fail", required |-> {}],
   [metrics |-> ("power.energy_j" :> [Policy("smaller", 50, 0, "") EXCEPT !.unit = FALSE]),
    missing |-> "warn", required |-> {"board"}]}
\* Four boards that differ in everything the checks and the manifest ask of a board.
MCCatalogue ==
  LET Like(tier, pins) ==
        [modules |-> {"nsx-core", "nsx-harness", tier}, armv8m |-> FALSE, usb_providers |-> {},
         moved |-> [n \in {"nsx-core", tier} |-> "nsx-ambiq-sdk"], ble |-> FALSE, pins |-> pins,
         npu |-> "", usb |-> TRUE, fpga |-> FALSE, jlink |-> TRUE, cpus |-> {"lp", "hp"},
         groups |-> {"cpu"}, dtcm |-> TRUE, psram |-> FALSE]
      Wired(atSync, atState, atGo) ==
        ("sync_gpio_pin" :> atSync) @@ ("state_gpio_pin" :> atState) @@ ("go_gpio_pin" :> atGo)
  IN [b \in {"apollo510_evb", "apollo4l_blue_evb", "apollo3p_evb", "atomiq110_fpga_turbo"} |->
        CASE b = "apollo510_evb" ->
               [Like("nsx-ambiqsuite-r5", Wired(29, 36, 14)) EXCEPT
                  !.usb_providers = {"nsx-ambiq-usb-r5"}, !.psram = TRUE, !.armv8m = TRUE,
                  !.groups = {"cpu", "memory", "mve"}]
          [] b = "apollo4l_blue_evb" ->
               [Like("nsx-ambiqsuite-r4", Wired(61, 23, 24)) EXCEPT
                  !.usb_providers = {"nsx-ambiq-usb-r4"}, !.ble = TRUE]
          [] b = "apollo3p_evb" ->
               [Like("nsx-ambiqsuite-r3", Wired(26, 24, 25)) EXCEPT !.usb = FALSE, !.psram = TRUE]
          [] OTHER ->
               [Like("nsx-ambiqsuite-r5", Wired(29, 36, 14)) EXCEPT
                  !.usb = FALSE, !.fpga = TRUE, !.npu = "ethos-u85-256", !.armv8m = TRUE,
                  !.cpus = {"lp"}, !.groups = {"cpu", "memory", "mve", "ethos_npu"}]]
MCRegistered ==
  [n \in {"nsx-gpio", "nsx-interrupt", "nsx-psram", "nsx-i2c", "nsx-usb", "nsx-pmu-armv8m"} |-> "nsx-ambiq-sdk"]
    @@ [n \in {"nsx-sensors"} |-> "nsx-sensors"]
MCQualifiedRef == [p \in {"nsx-ambiq-sdk", "nsx-segger-rtt", "nsx-cmsis-nn"} |-> "qualified"]
MCEngineModules ==
  LET Vendored(project, local) == [project |-> project, local |-> local]
  IN [litert |-> [n \in {"nsx-tflite-micro"} |-> Vendored(n, FALSE)],
      executorch |-> [n \in {"nsx-executorch"} |-> Vendored(n, TRUE)]]
     @@ ("helia-rt" :> [n \in {"nsx-helia-rt", "nsx-cmsis-nn"} |-> Vendored(n, n = "nsx-helia-rt")])
     @@ ("helia-aot" :> [n \in {"nsx-cmsis-nn"} |-> Vendored(n, FALSE)])

\* One call of a session, or the flags of one command line.
Setting(s, k, v) == [x \in {s} |-> Table([y \in {k} |-> v])]
SettingTwo(s, k, v, l, w) == [x \in {s} |-> Table([y \in {k, l} |-> IF y = k THEN v ELSE w])]
MCIntentLayers ==
  {Setting("engine", "type", "litert"), Setting("engine", "type", "executorch"),
   SettingTwo("engine", "type", "helia-aot", "allocate_arenas", FALSE),
   SettingTwo("engine", "type", "helia-aot", "tensors", "psram"),
   SettingTwo("engine", "type", "helia-rt", "backend", "ethos_u"),
   Setting("target", "board", "apollo4l_blue_evb"), Setting("target", "board", "apollo3p_evb"),
   Setting("target", "transport", "usb_cdc"),
   Merge(Setting("target", "transport", "usb_cdc"),
         SettingTwo("power", "firmware", "shared", "lockstep", "on")), SettingTwo("target", "transport", "uart", "cpu", "hp"),
   SettingTwo("power", "enabled", TRUE, "sync_gpio_pin", 7),
   SettingTwo("power", "firmware", "shared", "lockstep", "on"),
   SettingTwo("power", "go_gpio_pin", 0, "lockstep", "null"),
   [x \in {"power"} |-> Scalar("null")],
   [x \in {"power"} |-> Table([driver |-> "ina228", mode |-> "internal", enabled |-> TRUE,
                               ina228_board |-> "adafruit-ina228"])],
   [x \in {"frozen"} |-> Scalar("true")],
   SettingTwo("model", "arena_location", "psram", "weights_location", "psram"),
   Setting("pmu_counters", "mve", "npu names"),
   [x \in {"nsx_modules"} |-> Table(<<"nsx-core", "ref">> :> "mine")],
   [x \in {"nsx_modules"} |-> Table(<<"nsx-psram", "ref">> :> "yours")],
   [x \in {"nsx_modules"} |-> Table(<<"nsx-gpio", "path">> :> "here")],
   Setting("profiling", "clean_window_probe", "busy_loop")}
Nobody == [s \in {} |-> <<>>]
MCIntents ==
  LET WithModel == Setting("model", "path", "kws")
      OnBoard(b) == Merge(WithModel, Setting("target", "board", b))
      Metered(b) == Merge(OnBoard(b), Setting("power", "enabled", TRUE))
  IN {Nobody, Metered("apollo510_evb"), Metered("apollo4l_blue_evb"),
      Merge(OnBoard("atomiq110_fpga_turbo"), SettingTwo("engine", "type", "helia-aot", "backend", "ethos_u"))}

MCComputeHosts ==
  LET All == {"cmake", "ninja", "jlink", "neuralspotx", "arm-none-eabi-gcc", "pylink", "helia_aot"}
      Kws == [found |-> "file", suffix |-> ".tflite", marker |-> "TFL3", softmax |-> "fine",
                vela |-> "none", readable |-> TRUE]
      OwnDesk == [segger_rtt_path |-> FALSE, model |-> Kws, litert |-> TRUE, writable |-> TRUE, tools |-> All]
  IN {OwnDesk, [OwnDesk EXCEPT !.litert = FALSE, !.model.softmax = "faint"],
      [OwnDesk EXCEPT !.model.suffix = ".pte", !.model.marker = "ET"],
      [OwnDesk EXCEPT !.model.vela = "ethos-u85-256"],
      [OwnDesk EXCEPT !.model.vela = "ethos-u55-128"],
      [OwnDesk EXCEPT !.model.vela = "unknown", !.model.readable = FALSE],
      [OwnDesk EXCEPT !.tools = All \ {"pylink"}, !.segger_rtt_path = TRUE]}
-----------------------------------------------------------------------------
vars == <<part, request,
          cacheVars, capVars, recordVars, bundleVars, sweepVars, verdictVars, supplyVars,
          memoryVars, planVars, fwVars, compareVars, benchVars, pipelineVars>>

\* One part moves, the others do not.
firstFour == <<cacheVars, capVars, recordVars, bundleVars>>
secondFour == <<sweepVars, verdictVars, supplyVars, memoryVars>>
thirdFour == <<planVars, fwVars, compareVars, benchVars>>
Only(p, rest) == part = p /\ UNCHANGED <<part, request, rest, pipelineVars>>
Runtime == Only("runtime", <<capVars, recordVars, bundleVars, secondFour, thirdFour>>)
Fixture == Only("capture", <<cacheVars, recordVars, bundleVars, secondFour, thirdFour>>)
Records == Only("record", <<cacheVars, capVars, bundleVars, secondFour, thirdFour>>)
Bundle == Only("bundle", <<cacheVars, capVars, recordVars, secondFour, thirdFour>>)
Sweeping == Only("sweep", <<verdictVars, supplyVars, memoryVars, firstFour, thirdFour>>)
Judging == Only("verdict", <<sweepVars, supplyVars, memoryVars, firstFour, thirdFour>>)
Supply == Only("supply", <<sweepVars, verdictVars, memoryVars, firstFour, thirdFour>>)
Memory == Only("memory", <<sweepVars, verdictVars, supplyVars, firstFour, thirdFour>>)
Planning == Only("plan", <<fwVars, compareVars, benchVars, firstFour, secondFour>>)
OnTarget == Only("firmware", <<planVars, compareVars, benchVars, firstFour, secondFour>>)
Comparing == Only("compare", <<planVars, fwVars, benchVars, firstFour, secondFour>>)
AtBench == Only("bench", <<planVars, fwVars, compareVars, firstFour, secondFour>>)
Profiling == part = "job" /\ UNCHANGED <<part, request, firstFour, secondFour, thirdFour>>

Idle == [internal |-> FALSE, dedicated |-> FALSE, infers |-> FALSE, lockstep |-> FALSE,
         unit |-> 10, loss |-> 0, drift |-> 0, rate |-> 20, error |-> 0, fault |-> "none",
         tardy |-> FALSE]
OneBuild == CHOOSE b \in BuildChoices : b.profile = "default" /\ b.arenaLoc = "auto"
OneWorld == CHOOSE w \in Worlds :
  w.sidecar = "none" /\ w.flags = "" /\ w.rtSource = "" /\ w.rtDist = "" /\ w.trees["d1"] = 1
OneDesk == CHOOSE d \in Desks : d.link = "swo" /\ d.power = "off" /\ d.core["a"] = d.core["b"]
OneImage ==
  [engine |-> "tflm", link |-> "rtt", power |-> FALSE, family |-> "ap5", monitor |-> "none",
   features |-> {}]
Init ==
  /\ part \in {"runtime", "capture", "record", "bundle", "sweep", "matrix", "verdict", "supply",
               "memory", "plan", "firmware", "compare", "bench", "job"}
  /\ request \in IF part = "matrix" THEN Requests ELSE {<<>>}
  /\ rail \in (IF part = "capture" THEN BOOLEAN ELSE {FALSE}) /\ CacheInit /\ CapInit
  /\ oneModel \in (IF part = "record" THEN BOOLEAN ELSE {TRUE}) /\ RecordInit
  /\ into \in (IF part = "sweep" THEN Bundles ELSE {CHOOSE b \in Bundles : TRUE}) /\ SweepInit
  /\ run \in (IF part = "verdict" THEN PowerRuns ELSE {Idle}) /\ VerdictInit
  /\ relay \in (IF part = "supply" THEN {"closed", "open"} ELSE {"closed"}) /\ SupplyInit
  /\ (IF part = "bundle" THEN BundleInit ELSE EmptyDirectory)
  /\ choice \in (IF part = "memory" THEN BuildChoices ELSE {OneBuild}) /\ MemoryInit
  /\ settings \in (IF part = "plan" THEN Settings ELSE {Plain("litert")})
  /\ world \in (IF part = "plan" THEN Worlds ELSE {OneWorld}) /\ PlanInit
  /\ (IF part = "compare" THEN duel \in Duels ELSE duel = <<>>) /\ CompareInit
  /\ desk \in (IF part = "bench" THEN Desks ELSE {OneDesk}) /\ BenchInit
  /\ binary \in (IF part = "firmware" THEN FwBuilds ELSE {OneImage}) /\ FwInit
  /\ intent \in {NewSession(y) : y \in IF part = "job" THEN Intents ELSE {Nobody}} /\ PipelineInit

Next ==
  \/ Runtime /\ CacheNext
  \/ Fixture /\ CapNext
  \/ Records /\ RecordNext
  \/ Bundle /\ BundleNext
  \/ Sweeping /\ SweepNext
  \/ Judging /\ VerdictNext
  \/ Supply /\ SupplyNext
  \/ Memory /\ MemoryNext
  \/ Planning /\ PlanNext
  \/ OnTarget /\ FwNext
  \/ Comparing /\ CompareNext
  \/ AtBench /\ BenchNext
  \/ Profiling /\ PipelineNext

Spec == Init /\ [][Next]_vars
-----------------------------------------------------------------------------
\* The state of every part keeps its shape.
TypeOK ==
  /\ CacheTypeOK /\ CapTypeOK /\ RecordTypeOK /\ BundleTypeOK /\ SweepTypeOK
  /\ VerdictTypeOK /\ SupplyTypeOK /\ MemoryTypeOK /\ PlanTypeOK /\ FwTypeOK
  /\ CompareTypeOK /\ BenchTypeOK /\ PipelineTypeOK
=============================================================================
