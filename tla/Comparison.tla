------------------------------ MODULE Comparison ------------------------------
(***************************************************************************)
(* hpx compare: two published runs, what their bundles say of how they     *)
(* were made, which rows of the comparison that leaves, and the verdict of *)
(* a regression profile on the rows.  A run is what happened on the bench; *)
(* what its bundle says of it is what the writer recorded, an older build  *)
(* recording less.                                                         *)
(***************************************************************************)
EXTENDS Integers, Sequences, FiniteSets, FiniteSetsExt

CONSTANTS
  Duels,    \* the pairs of runs that are compared
  Profiles  \* the regression profiles they are judged by

VARIABLES
  duel,     \* the two runs
  cmpPc,
  shown,    \* the rows of the comparison
  ruling    \* the profile, its verdict and the exit code

compareVars == <<duel, cmpPc, shown, ruling>>
-----------------------------------------------------------------------------
(* The runs. *)

\* An operator of a compiled graph: its kind and the .tflite operators it came from.
Operator(kind, from) == [kind |-> kind, from |-> from]
Graphs ==
  [plain |-> <<Operator("CONV", {0}), Operator("RESHAPE", {1}), Operator("FC", {2})>>,
   skips |-> <<Operator("CONV", {0}), Operator("FC", {2})>>,
   fused |-> <<Operator("CONV", {0}), Operator("FC", {1, 2})>>]

\* Values that a summary holds in place of a number.
NoValue == -1
NonFinite == -2
Measures == Nat \cup {NoValue, NonFinite}

\* What happened on the bench; `asked` for lock step and `armed` with it, the dimension an `older`
\* build did not record, sources that are still `readable` when the report is written.
BenchRuns ==
  [engine : {"litert", "helia-aot", "executorch"}, graph : DOMAIN Graphs, extracted : BOOLEAN,
   model : STRING, board : STRING, linker : STRING, regions : BOOLEAN, rest : STRING,
   power : {"none", "internal", "external"}, firmware : {"shared", "dedicated"},
   monitor : BOOLEAN, asked : BOOLEAN, armed : BOOLEAN, probe : {"infer", "busy_loop"},
   code : STRING, readable : BOOLEAN, scope : {"gated", "whole"},
   integrity : {"valid", "diagnostic", "invalid"}, issues : SUBSET STRING, complete : BOOLEAN,
   older : {"nothing", "power_clean_workload", "power_firmware_fingerprint",
            "power_clean_window_probe", "link_family"},
   cycles : Measures, energy : Measures, used : 0 .. 100, spot : STRING]
Possible(r) ==
  /\ r.engine # "helia-aot" => r.graph = "plain" /\ r.extracted
  /\ r.power = "internal" => r.monitor /\ ~r.asked /\ r.firmware = "dedicated"
  /\ r.power = "none" => ~r.monitor /\ ~r.asked
  /\ r.armed => r.asked
IsDuel(d) ==
  /\ d \in [baseline : BenchRuns, candidate : BenchRuns]
  /\ Possible(d.baseline) /\ Possible(d.candidate)
-----------------------------------------------------------------------------
(* What a bundle says of its run: the dimensions of the registry. *)

Unknown == <<>>
PowerDimensions ==
  {"power_scope", "power_mode", "power_firmware", "power_monitor", "power_lockstep",
   "power_clean_window_probe", "power_clean_workload", "power_firmware_fingerprint"}
MemoryDimensions == {"link_family"}
Informative ==
  {"hpx_version", "engine", "board", "soc", "cpu_clock", "toolchain", "compiler_version",
   "system_clock_hz", "run_summary_schema_version", "run_metadata_schema_version", "transport",
   "arena_location", "weights_location", "engine_version", "architecture_flags", "engine_backend"}
RunDimensions == {"model_sha256"} \cup Informative \cup MemoryDimensions
PowerBlock == PowerDimensions \cup {"power_integrity"}
Dimensions == RunDimensions \cup PowerBlock
ManifestOnly == {"power_mode", "power_clean_window_probe"}

X_Protected_Lockstep == {"power_clean_workload"}
\* Observed while the run was on: what the configuration asked for never stands in for it.
Protected == {"power_lockstep", "power_clean_workload"}
Scope(d) == IF d = "power_firmware_fingerprint" THEN {"soc", "board", "power_firmware"} ELSE {}

RunFact(r, d) ==
  CASE d = "model_sha256" -> <<r.model>>
    [] d = "engine" -> <<r.engine>>
    [] d \in {"board", "soc"} -> <<r.board>>
    [] d \in {"toolchain", "link_family"} -> <<r.linker>>
    [] OTHER -> <<r.rest>>

\* The declaration of the rendered window; none for the other engines, or if the source is gone.
CleanWorkload(r) ==
  IF r.engine = "helia-aot" /\ r.readable /\ r.probe = "infer" /\ r.older # "power_clean_workload"
  THEN <<"refill">> ELSE Unknown
Fingerprint(r) ==
  IF r.readable THEN <<r.code, r.board, r.engine, r.firmware, r.probe>> ELSE Unknown
PowerFact(r, d) ==
  CASE d = "power_scope" -> <<r.scope>>
    [] d = "power_mode" -> <<r.power>>
    [] d = "power_firmware" -> <<r.firmware>>
    [] d = "power_monitor" -> <<r.monitor>>
    [] d = "power_lockstep" -> IF r.power = "external" THEN <<r.armed>> ELSE Unknown
    [] d = "power_clean_window_probe" -> <<r.probe>>
    [] d = "power_clean_workload" -> CleanWorkload(r)
    [] d = "power_firmware_fingerprint" -> Fingerprint(r)
    [] OTHER -> <<r.integrity>>

\* run_metadata.json and summary.json; the power block is there when power was measured.
Artifact(r, d) ==
  IF d = r.older \/ d \in ManifestOnly THEN Unknown
  ELSE IF d \in RunDimensions THEN RunFact(r, d)
  ELSE IF r.power = "none" THEN Unknown ELSE PowerFact(r, d)

\* result_manifest.json speaks from the configuration and from what the stages published.
Manifest(r, d) ==
  IF d = r.older \/ d \in Protected THEN Unknown
  ELSE IF d \in RunDimensions THEN RunFact(r, d)
  ELSE IF r.power = "none" THEN Unknown
  ELSE IF d = "power_lockstep" THEN <<r.asked>> ELSE PowerFact(r, d)

\* The manifest is merged last, where it knows.
ReadDimensions(r) ==
  [d \in Dimensions |->
     LET recorded == Manifest(r, d) IN
     IF recorded # Unknown /\ d \notin Protected THEN recorded ELSE Artifact(r, d)]
-----------------------------------------------------------------------------
(* Which deltas mean something. *)

IssueSpecs ==
  [code \in {"power.window_observer_mismatch", "pmu.counter_overflow", "power.observation_invalid"} |->
     IF code = "power.window_observer_mismatch" THEN "power" ELSE "run"]
WarningCodes == {"power.gate_duration_mismatch", "power.observation_degraded"}
Raised(r) ==
  r.issues
  \cup (IF r.power = "none" \/ r.integrity = "valid" THEN {}
        ELSE IF r.integrity = "invalid" THEN {"power.observation_invalid"}
        ELSE {"power.observation_degraded"})
Errors(r) == Raised(r) \ WarningCodes

\* The family an error is confined to; one this build does not know is confined to none.
X_ErrorGroup_Prefix(code) == IF code = "pmu.counter_overflow" THEN "run" ELSE "power"
ErrorGroup(code) == IF code \in DOMAIN IssueSpecs THEN IssueSpecs[code] ELSE "run"

Effect(severity, group) == [severity |-> severity, group |-> group]
InvalidResult(r) ==
  IF \A e \in Errors(r) : ErrorGroup(e) = "power"
  THEN {Effect("metric_blocking", "power")} ELSE {Effect("blocking", "")}
ResultIssues(r) ==
  (IF r.complete THEN {} ELSE {Effect("blocking", "")})
  \cup (IF Errors(r) # {} THEN InvalidResult(r)
        ELSE IF Raised(r) # {} THEN {Effect("informative", "")} ELSE {})

Differ(x, y, d) == x[d] # y[d] /\ x[d] # Unknown /\ y[d] # Unknown
InScope(x, y, d) == \A s \in Scope(d) : x[s] = y[s] /\ x[s] # Unknown
X_PowerMismatch_KnownOnly(x, y, d) == InScope(x, y, d) /\ Differ(x, y, d)
PowerMismatch(x, y, d) ==
  /\ InScope(x, y, d)
  /\ IF d = "power_clean_workload" THEN x[d] # y[d] ELSE Differ(x, y, d)

\* A label: the operator's kind, and the index behind its colon (none, -1, or a text: -2).
Label(r, p) ==
  LET o == Graphs[r.graph][p] IN
  IF r.engine = "litert" THEN [kind |-> o.kind, colon |-> FALSE, index |-> -1]
  ELSE IF r.engine = "executorch" THEN [kind |-> o.kind, colon |-> TRUE, index |-> -2]
  ELSE IF ~r.extracted THEN [kind |-> "op", colon |-> TRUE, index |-> p - 1]
  ELSE [kind |-> o.kind, colon |-> TRUE,
        index |-> IF Cardinality(o.from) = 1 THEN CHOOSE s \in o.from : TRUE ELSE -1]
Labels(r) == [p \in DOMAIN Graphs[r.graph] |-> Label(r, p)]
Topology(r, s) ==
  IF Labels(r) = Labels(s) THEN {} ELSE {Effect("layer_blocking", "")}

AssessComparability(r, s) ==
  LET x == ReadDimensions(r)
      y == ReadDimensions(s)
      power == \/ \E d \in PowerDimensions : PowerMismatch(x, y, d)
               \/ \E z \in {x, y} : z["power_integrity"] \notin {Unknown, <<"valid">>}
      memory == (r.regions \/ s.regions) /\ \E d \in MemoryDimensions : Differ(x, y, d)
      differs == \E d \in Informative : Differ(x, y, d)
  IN ResultIssues(r) \cup ResultIssues(s) \cup Topology(r, s)
     \cup (IF Differ(x, y, "model_sha256") THEN {Effect("blocking", "")} ELSE {})
     \cup (IF power THEN {Effect("metric_blocking", "power")} ELSE {})
     \cup (IF memory THEN {Effect("metric_blocking", "memory")} ELSE {})
     \cup (IF differs THEN {Effect("informative", "")} ELSE {})
RunComparable(found) == \A i \in found : i.severity # "blocking"
LayersComparable(found) == \A i \in found : i.severity \notin {"blocking", "layer_blocking"}
GroupComparable(found, g) == Effect("metric_blocking", g) \notin found
-----------------------------------------------------------------------------
(* The rows. *)

PowerMetrics == {"power.energy_j", "power.energy_per_inference_j"}
MemoryMetrics == {"memory_regions.ITCM.used", "memory_regions.SRAM.free"}
Metrics == {"total_cycles"} \cup PowerMetrics \cup MemoryMetrics
MetricGroup ==
  [m \in Metrics |->
     IF m \in PowerMetrics THEN "power" ELSE IF m \in MemoryMetrics THEN "memory" ELSE "run"]

\* summary.json: an absent section has no value.
Value(r, m) ==
  CASE m = "total_cycles" -> r.cycles
    [] m = "power.energy_j" -> IF r.power = "none" THEN NoValue ELSE r.energy
    [] m = "power.energy_per_inference_j" ->
         IF r.power = "none" \/ r.probe # "infer" THEN NoValue ELSE r.energy
    [] m = "memory_regions.ITCM.used" ->
         IF r.regions /\ r.board = "ap5" THEN r.used ELSE NoValue
    [] OTHER -> IF r.regions THEN 100 - r.used ELSE NoValue

\* A group's rows need the group, and a value on one side.
Emitted(found, r, s, m) ==
  \/ MetricGroup[m] = "run"
  \/ /\ GroupComparable(found, MetricGroup[m])
     /\ {Value(r, m), Value(s, m)} # {NoValue}
CompareMetrics(found, r, s) ==
  LET rows == {m \in Metrics : Emitted(found, r, s, m)}
  IN [m \in rows |-> [baseline |-> Value(r, m), candidate |-> Value(s, m)]]

\* aot_memory_layers.csv: the buffers of an operator, by its position and its .tflite index.
Buffers(r, p) == <<r.spot, p>>
NoBuffers == <<>>
MemoryFile(r) ==
  IF r.engine = "helia-aot" /\ r.extracted
  THEN {[idx |-> p - 1, id |-> Label(r, p).index, buffers |-> Buffers(r, p)] :
          p \in DOMAIN Graphs[r.graph]}
  ELSE {}

\* The source_index column of profile_results.csv: what the compiler's manifest names, if it does.
RecordedIndex(r, p) == IF r.engine = "helia-aot" /\ r.extracted THEN Label(r, p).index ELSE -1

\* Without a manifest: the recorded index, else the label's, else the position of an engine that
\* keeps the order of the graph; -1 is unresolved.
Attribute(label, recorded, position) ==
  IF recorded >= 0 THEN recorded
  ELSE IF label.index >= 0 THEN label.index
  ELSE IF label.colon THEN -1 ELSE position
SourceIndex(r, p) == Attribute(Label(r, p), RecordedIndex(r, p), p - 1)
X_RowsFor_Position(r, source) == {row \in MemoryFile(r) : row.idx = source}
RowsFor(r, source) == {row \in MemoryFile(r) : row.id = source}
LayerMemory(r, p) ==
  LET rows == IF SourceIndex(r, p) < 0 THEN {} ELSE RowsFor(r, SourceIndex(r, p))
  IN IF rows = {} THEN NoBuffers ELSE (CHOOSE row \in rows : TRUE).buffers
CompareLayers(r, s) ==
  [p \in DOMAIN Graphs[r.graph] |->
     [op |-> Label(r, p), baseline |-> LayerMemory(r, p), candidate |-> LayerMemory(s, p)]]

\* The config table: the labelled dimensions, as the gate read them.
ConfigFields == RunDimensions \ {"architecture_flags", "engine_backend"}
-----------------------------------------------------------------------------
(* The regression profile. *)

Policies ==
  [direction : {"smaller", "larger", "either"}, pct : Nat, most : Nat,
   missing : {"", "fail", "warn", "ignore"}, unit : BOOLEAN]
NoProfile == [metrics |-> <<>>, missing |-> "", required |-> {}]
IsProfile(p) ==
  /\ p = [metrics |-> p.metrics, missing |-> p.missing, required |-> p.required]
  /\ DOMAIN p.metrics \subseteq STRING /\ \A m \in DOMAIN p.metrics : p.metrics[m] \in Policies
  /\ p.missing \in {"", "fail", "warn", "ignore"} /\ p.required \subseteq STRING

ASSUME ComparisonAssumption ==
  (\A d \in Duels : IsDuel(d)) /\ (\A p \in Profiles : IsProfile(p))

MissingPolicy(profile, m) ==
  LET own == profile.metrics[m].missing IN
  IF own # "" THEN own ELSE IF profile.missing # "" THEN profile.missing ELSE "fail"
OnMissing == [fail |-> "fail", warn |-> "warn", ignore |-> "skip"]
Loss(policy, baseline, candidate) ==
  CASE policy.direction = "smaller" -> Max({0, candidate - baseline})
    [] policy.direction = "larger" -> Max({0, baseline - candidate})
    [] OTHER -> Max({candidate - baseline, baseline - candidate})

EvaluateMetric(rows, profile, m) ==
  LET policy == profile.metrics[m]
      row == rows[m]
      allowed == Max({100 * policy.most, row.baseline * policy.pct})
  IN IF m \notin DOMAIN rows THEN OnMissing[MissingPolicy(profile, m)]
     ELSE IF NoValue \in {row.baseline, row.candidate} THEN OnMissing[MissingPolicy(profile, m)]
     ELSE IF ~policy.unit \/ NonFinite \in {row.baseline, row.candidate} THEN "fail"
     ELSE IF 100 * Loss(policy, row.baseline, row.candidate) <= allowed THEN "pass" ELSE "fail"

\* A dimension a profile insists on is known, and the same, on both sides.
Mismatches(profile, r, s) ==
  LET x == ReadDimensions(r)
      y == ReadDimensions(s)
  IN {d \in profile.required : d \notin ConfigFields \/ x[d] = Unknown \/ x[d] # y[d]}
EvaluateProfile(rows, profile, r, s) ==
  LET statuses == {EvaluateMetric(rows, profile, m) : m \in DOMAIN profile.metrics}
  IN IF Mismatches(profile, r, s) # {} \/ "fail" \in statuses THEN "fail"
     ELSE IF "warn" \in statuses THEN "warn"
     ELSE IF statuses = {"skip"} THEN "skip" ELSE "pass"
-----------------------------------------------------------------------------
NothingShown == [metrics |-> <<>>, layers |-> <<>>]
NoRuling == [profile |-> NoProfile, status |-> "none", exit |-> 0]
CompareInit == cmpPc = "asked" /\ shown = NothingShown /\ ruling = NoRuling

\* compare_runs refuses, or shows the rows the assessment leaves.
Compare ==
  /\ cmpPc = "asked"
  /\ LET r == duel.baseline
         s == duel.candidate
         found == AssessComparability(r, s)
     IN IF RunComparable(found)
        THEN /\ cmpPc' = "shown"
             /\ shown' = [metrics |-> CompareMetrics(found, r, s),
                          layers |-> IF LayersComparable(found) THEN CompareLayers(r, s) ELSE <<>>]
             /\ UNCHANGED ruling
        ELSE /\ cmpPc' = "refused"
             /\ ruling' = [ruling EXCEPT !.exit = 1]
             /\ UNCHANGED shown
  /\ UNCHANGED duel

\* A profile that fails the candidate fails the command.
JudgeProfile ==
  /\ cmpPc = "shown"
  /\ \E profile \in Profiles :
       LET status == EvaluateProfile(shown.metrics, profile, duel.baseline, duel.candidate)
       IN ruling' = [profile |-> profile, status |-> status,
                     exit |-> IF status = "fail" THEN 1 ELSE 0]
  /\ cmpPc' = "judged"
  /\ UNCHANGED <<duel, shown>>

CompareNext == Compare \/ JudgeProfile
CompareSpec == duel \in Duels /\ CompareInit /\ [][CompareNext]_compareVars
-----------------------------------------------------------------------------
CompareTypeOK ==
  /\ cmpPc \in {"asked", "refused", "shown", "judged"}
  /\ DOMAIN shown.metrics \subseteq Metrics
  /\ ruling.status \in {"none", "pass", "warn", "fail", "skip"} /\ ruling.exit \in {0, 1}

(* What a row may be shown for: how the runs were made, not what their bundles say of it. *)

\* What a heliaAOT window holds besides the inference: the builds that declare it refill the inputs.
Workload(r) ==
  IF r.engine = "helia-aot" /\ r.probe = "infer" /\ r.older # "power_clean_workload"
  THEN "refill" ELSE "plain"

\* Two windows ran the same thing the same way, wherever a bundle could say otherwise.
SameWindow(r, s) ==
  LET older == {r.older, s.older} IN
  /\ r.scope = s.scope /\ r.power = s.power /\ r.firmware = s.firmware
  /\ r.monitor = s.monitor /\ r.armed = s.armed
  /\ r.probe = s.probe \/ "power_clean_window_probe" \in older
  /\ \/ Workload(r) = Workload(s)
     \/ \E t \in {r, s} : Workload(t) = "refill" /\ ~t.readable
  /\ \/ r.code = s.code \/ r.board # s.board
     \/ ~(r.readable /\ s.readable) \/ "power_firmware_fingerprint" \in older
Flawless(r) == r.complete /\ Errors(r) = {}
PowerAloneBroken(r) == Errors(r) \subseteq {"power.window_observer_mismatch"}

\* A power row with both values is of two sound runs of one model whose windows were alike.
PowerRowsAlike(r, s, rows) ==
  \A m \in DOMAIN rows :
    MetricGroup[m] = "power" /\ NoValue \notin {rows[m].baseline, rows[m].candidate}
      => /\ Flawless(r) /\ Flawless(s) /\ r.model = s.model
         /\ r.integrity = "valid" /\ s.integrity = "valid" /\ SameWindow(r, s)

\* A memory row with both values is of two images one linker family laid out.
MemoryRowsAlike(r, s, rows) ==
  \A m \in DOMAIN rows :
    MetricGroup[m] = "memory" /\ NoValue \notin {rows[m].baseline, rows[m].candidate}
      => r.linker = s.linker \/ "link_family" \in {r.older, s.older}

\* The buffers a layer of a heliaAOT run has: its own, if it is one .tflite operator.
OwnBuffers(r, p) ==
  IF r.engine = "helia-aot" /\ r.extracted /\ Cardinality(Graphs[r.graph][p].from) = 1
  THEN Buffers(r, p) ELSE NoBuffers
\* Layers are set side by side only if the graphs are the same, each with its own buffers.
LayersAligned(r, s, layers) ==
  \A p \in DOMAIN layers :
    /\ r.engine = s.engine /\ r.extracted /\ s.extracted => r.graph = s.graph
    /\ layers[p].baseline = OwnBuffers(r, p) /\ layers[p].candidate = OwnBuffers(s, p)

\* The candidate lost more than the profile lets it, in the numbers the two runs measured.
Regressed(r, s, policy, m) ==
  LET i == Value(r, m)
      j == Value(s, m)
      worse == [smaller |-> j - i, larger |-> i - j, either |-> IF j > i THEN j - i ELSE i - j]
  IN i >= 0 /\ j >= 0 /\ worse[policy.direction] > policy.most
     /\ 100 * worse[policy.direction] > i * policy.pct
\* A pass hides no regression, except in a group the profile lets be missing; it rests on finite
\* numbers, and on dimensions that both runs record and share.
PassIsEarned(r, s, profile, rows) ==
  /\ \A m \in DOMAIN profile.metrics :
       /\ Regressed(r, s, profile.metrics[m], m)
            => m \notin DOMAIN rows /\ MissingPolicy(profile, m) = "ignore"
       /\ MissingPolicy(profile, m) # "ignore" => Value(r, m) >= 0 /\ Value(s, m) >= 0
  /\ "toolchain" \in profile.required => r.linker = s.linker
  /\ "link_family" \in profile.required => "link_family" \notin {r.older, s.older}
  /\ "board" \in profile.required => r.board = s.board
  /\ "engine_backend" \notin profile.required

\* A comparison shows what the two runs measured alike and nothing else, and what it passes has
\* not regressed.
ComparisonIsSound ==
  LET r == duel.baseline
      s == duel.candidate
  IN /\ cmpPc \in {"shown", "judged"} =>
          /\ PowerRowsAlike(r, s, shown.metrics)
          /\ MemoryRowsAlike(r, s, shown.metrics)
          /\ LayersAligned(r, s, shown.layers)
          /\ r.complete /\ s.complete /\ r.model = s.model
          /\ PowerAloneBroken(r) /\ PowerAloneBroken(s)
     /\ ruling.status = "pass" =>
          ruling.exit = 0 /\ PassIsEarned(r, s, ruling.profile, shown.metrics)
=============================================================================
