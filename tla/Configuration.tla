----------------------------- MODULE Configuration -----------------------------
(***************************************************************************)
(* What a profile is asked to do.  Intent arrives in layers: a YAML file or  *)
(* a saved snapshot, then each with_* call of a session or the flags of the  *)
(* command line.  A session keeps the layers unresolved and merges a later   *)
(* one over an earlier one; resolving fills in the defaults, the board's     *)
(* GPIO pins among them, and refuses what no run can honour.                 *)
(*                                                                           *)
(* A layer maps sections to tables of keys, or to a plain value where the    *)
(* user wrote one in place of a table.  A mapping nested in a section        *)
(* (target.clock, power.ina228) is part of the section's table; the two      *)
(* that are keyed freely (profiling.pmu_counters, build.nsx_modules) are     *)
(* sections of their own.                                                    *)
(***************************************************************************)
EXTENDS Naturals, Sequences

CONSTANTS
  Intents,      \* what a session starts from: the layer of a file or a snapshot, or <<>>
  IntentLayers,       \* what one call adds
  MaxLayers,    \* bound: the layers one session is given
  Catalogue     \* the boards of the platform registry, each with what its SoC has

ASSUME ConfigurationAssumption ==
  /\ MaxLayers \in Nat
  /\ "apollo510_evb" \in DOMAIN Catalogue

VARIABLES
  intent,      \* [base, over]: what the session was loaded from, what it was given since
  given,        \* ghost: every layer, in the order it was given
  folded,       \* ghost: how many of them are in the base
  settled,      \* "open", then "resolved" or "refused"
  conf          \* the resolved configuration: section -> key -> value

configVars == <<intent, given, folded, settled, conf>>
-----------------------------------------------------------------------------
(* Layers and their merge. *)

Table(keys) == [table |-> TRUE, of |-> keys]
Scalar(value) == [table |-> FALSE, of |-> [of \in {""} |-> value]]

Overlay(low, high) ==
  [k \in DOMAIN low \cup DOMAIN high |-> IF k \in DOMAIN high THEN high[k] ELSE low[k]]
Stacked(low, high) == IF low.table /\ high.table THEN Table(Overlay(low.of, high.of)) ELSE high
X_Merge_Shallow(low, high) ==
  [s \in DOMAIN low \cup DOMAIN high |-> IF s \in DOMAIN high THEN high[s] ELSE low[s]]
Merge(low, high) ==
  [s \in DOMAIN low \cup DOMAIN high |->
     IF s \notin DOMAIN high THEN low[s]
     ELSE IF s \notin DOMAIN low THEN high[s] ELSE Stacked(low[s], high[s])]

\* The value a merged intent holds for a key, if it holds one.
HasKey(m, s, k) == s \in DOMAIN m /\ m[s].table /\ k \in DOMAIN m[s].of
-----------------------------------------------------------------------------
(* The configuration a merged intent resolves to. *)

Pins == {"sync_gpio_pin", "state_gpio_pin", "go_gpio_pin"}
Defaults ==
  [model |-> [path |-> "", arena_size |-> "null", arena_location |-> "null",
              weights_location |-> "null"],
   engine |-> [type |-> "helia-rt", backend |-> "null", allow_unsupported_version |-> FALSE,
               allocate_arenas |-> TRUE, tensors |-> "null"],
   target |-> [board |-> "apollo510_evb", toolchain |-> "arm-none-eabi-gcc",
               transport |-> "rtt", ensure_board_powered |-> FALSE, cpu |-> "null"],
   profiling |-> [window_mode |-> "auto", window_target_ms |-> 1000, window_min |-> 10,
                  window_max |-> 500000, clean_window_probe |-> "infer",
                  extreme_mode |-> FALSE, force_shared_sram |-> FALSE],
   power |-> [enabled |-> FALSE, driver |-> "joulescope", firmware |-> "dedicated",
              mode |-> "external", lockstep |-> "null", stats_rate_hz |-> 1000,
              sync_gpio_pin |-> 29, state_gpio_pin |-> 36, go_gpio_pin |-> 14,
              ina228_board |-> "null", ina228_shunt_ohms |-> "null"],
   output |-> [format |-> "csv", fail_on_invalid |-> FALSE],
   build |-> [compiler_launcher |-> "auto", update_dependencies |-> FALSE, offline |-> FALSE]]
Free == {"pmu_counters", "nsx_modules"}    \* the tables keyed freely
Switches == {"frozen"}                     \* plain values at the top of the intent

\* The values a field takes, where a validator of its class limits them.
Permitted ==
  [model |-> [arena_size |-> {"null", "bytes"}, arena_location |-> {"null", "tcm", "sram", "psram"},
              weights_location |-> {"null", "tcm", "sram", "psram", "mram"}],
   engine |-> [type |-> {"litert", "helia-rt", "helia-aot", "executorch"}],
   target |-> [toolchain |-> {"arm-none-eabi-gcc", "gcc", "armclang", "atfe"},
               transport |-> {"rtt", "usb_cdc", "uart", "swo"}],
   profiling |-> [window_mode |-> {"auto", "fixed"}, clean_window_probe |-> {"infer", "busy_loop"}],
   power |-> [firmware |-> {"dedicated", "shared"}, mode |-> {"external", "internal"},
              lockstep |-> {"null", "on", "off"}, stats_rate_hz |-> Nat \ {0},
              ina228_board |-> {"null", "mikroe-power-monitor-click", "adafruit-ina228"},
              ina228_shunt_ohms |-> {"null", "ohms"}],
   output |-> [format |-> {"csv", "json"}],
   build |-> [k \in {} |-> {}]]

\* The fields a class does not know are refused, and so is a section that is no table, but
\* that `power: null` is the power section left out.
KnownField(s, k, v) ==
  /\ k \in DOMAIN Defaults[s]
  /\ k \in DOMAIN Permitted[s] => v \in Permitted[s][k]
KnownSection(m, s) ==
  \/ s \in DOMAIN Defaults /\ m[s].table /\ \A k \in DOMAIN m[s].of : KnownField(s, k, m[s].of[k])
  \/ s \in Free /\ m[s].table
  \/ s \in Switches /\ ~m[s].table
  \/ s = "power" /\ m[s] = Scalar("null")

Coerced(s, k, v) ==
  IF <<s, k>> = <<"target", "toolchain">> /\ v = "gcc" THEN "arm-none-eabi-gcc" ELSE v
FieldOf(m, s, k) ==
  IF ~HasKey(m, s, k) THEN Defaults[s][k]
  ELSE Coerced(s, k, m[s].of[k])
BoardNamed(m) == IF HasKey(m, "target", "board") THEN m["target"].of["board"] ELSE "apollo510_evb"

\* The pins the intent leaves out are those of the board it names; frozen is an alias of offline.
FrozenAlias(m) == "frozen" \in DOMAIN m /\ m["frozen"].of[""] = "true"
X_PinOf_OfTheDefault(m, p) ==
  IF HasKey(m, "power", p) THEN m["power"].of[p] ELSE Catalogue["apollo510_evb"].pins[p]
PinOf(m, p) == IF HasKey(m, "power", p) THEN m["power"].of[p] ELSE Catalogue[BoardNamed(m)].pins[p]
Keyed(m, s, unsaid) == IF s \in DOMAIN m THEN m[s].of ELSE unsaid
ConfigOf(m) ==
  [s \in DOMAIN Defaults \cup Free |->
     IF s = "pmu_counters" THEN Keyed(m, s, [g \in {"cpu"} |-> "default"])
     ELSE IF s = "nsx_modules" THEN Keyed(m, s, <<>>)
     ELSE [k \in DOMAIN Defaults[s] |->
             IF s = "power" /\ k \in Pins THEN PinOf(m, k)
             ELSE IF s = "build" /\ k = "offline" THEN FieldOf(m, s, k) \/ FrozenAlias(m)
             ELSE FieldOf(m, s, k)]]
-----------------------------------------------------------------------------
(* What a resolved configuration means. *)

PowerEnabled(c) == c.power.enabled
DedicatedImage(c) == PowerEnabled(c) /\ c.power.firmware = "dedicated"
GatedExternally(c) == PowerEnabled(c) /\ c.power.mode = "external"
WiredForLockstep(c) == c.power.state_gpio_pin > 0 /\ c.power.go_gpio_pin > 0
Locksteps(c) ==
  \/ c.power.lockstep = "on"
  \/ c.power.lockstep = "null" /\ GatedExternally(c) /\ WiredForLockstep(c)
MonitorGiven(m) == \E k \in {"ina228_board", "ina228_shunt_ohms"} : HasKey(m, "power", k)
ShuntKnown(c) == c.power.ina228_shunt_ohms = "ohms" \/ c.power.ina228_board = "adafruit-ina228"
MonitorOnTarget(c) == PowerEnabled(c) /\ ShuntKnown(c)
EffectiveTarget(c) ==
  IF PowerEnabled(c) /\ c.profiling.window_mode = "auto" /\ c.profiling.window_target_ms < 5000
  THEN 5000 ELSE c.profiling.window_target_ms

\* A module of the build is overridden by a path or by a ref, never by both.
OneMode(overrides) ==
  \A x \in DOMAIN overrides : ~\E y \in DOMAIN overrides : y[1] = x[1] /\ y[2] # x[2]

Coherent(c) ==
  /\ c.engine.allow_unsupported_version => c.engine.type = "helia-aot"
  /\ 1 <= c.profiling.window_min /\ c.profiling.window_min <= c.profiling.window_max
  /\ c.profiling.window_target_ms >= 1
  /\ ~(c.profiling.extreme_mode /\ c.profiling.force_shared_sram)
  /\ c.power.lockstep = "on" => WiredForLockstep(c)
  /\ c.power.driver = "ina228" =>
       ShuntKnown(c) /\ c.power.mode = "internal" /\ c.power.firmware = "dedicated"
  /\ ~(c.build.update_dependencies /\ c.build.offline)
  /\ OneMode(c.nsx_modules)
LoadsConfig(m, h) ==
  /\ \A s \in DOMAIN m : KnownSection(m, s)
  /\ HasKey(m, "model", "path") /\ m["model"].of["path"] # ""
  /\ BoardNamed(m) \in DOMAIN Catalogue
  /\ MonitorGiven(m) => ShuntKnown(ConfigOf(m))
  /\ Coherent(ConfigOf(m))
  /\ ConfigOf(m).target.transport = "rtt" => ~h.segger_rtt_path
-----------------------------------------------------------------------------
(* A session. *)

NewSession(loaded) == [base |-> loaded, over |-> <<>>]
ConfigInit ==
  /\ given = <<intent.base>>
  /\ folded = 1 /\ settled = "open" /\ conf = <<>>

\* Every with_* call merges its layer over what the session was given so far.
With(layer) ==
  /\ settled = "open" /\ Len(given) < MaxLayers
  /\ intent' = [intent EXCEPT !.over = Merge(intent.over, layer)]
  /\ given' = Append(given, layer)
  /\ UNCHANGED <<folded, settled, conf>>

\* A snapshot keeps the merged intent; the session loaded from it has no overrides yet.
SaveAndLoad ==
  /\ settled = "open" /\ folded < Len(given)
  /\ intent' = [base |-> Merge(intent.base, intent.over), over |-> <<>>]
  /\ folded' = Len(given)
  /\ UNCHANGED <<given, settled, conf>>

\* load_config: a model named in the call is one more override.
ModelLayer(model) == [s \in {"model"} |-> Table([k \in {"path"} |-> model])]
MergedIntent == Merge(intent.base, intent.over)
Load(m, h) ==
  /\ settled' = IF LoadsConfig(m, h) THEN "resolved" ELSE "refused"
  /\ conf' = IF LoadsConfig(m, h) THEN ConfigOf(m) ELSE conf
ResolveConfig(h) == settled = "open" /\ Load(MergedIntent, h) /\ UNCHANGED <<intent, given, folded>>
ResolveWithModel(model, h) ==
  /\ settled = "open" /\ Load(Merge(MergedIntent, ModelLayer(model)), h)
  /\ given' = Append(given, ModelLayer(model)) /\ UNCHANGED <<intent, folded>>
-----------------------------------------------------------------------------
(* Every layer counts, in the order it was given. *)

\* Layer i says what key k of section s is; or at least replaces what was said of it.
Says(i, s, k) == HasKey(given[i], s, k)
Touches(i, s, k) == s \in DOMAIN given[i] /\ (given[i][s].table => k \in DOMAIN given[i][s].of)
LastToSay(i, s, k) == Says(i, s, k) /\ \A j \in (i + 1)..Len(given) : ~Touches(j, s, k)

\* The last layer that says what a key is has the last word, however many layers come after
\* it and wherever a snapshot was taken in between (deep_merge, Session._merge, save and load).
LastWordStands ==
  settled = "resolved" =>
    \A i \in 1..Len(given) : \A s \in DOMAIN given[i] \cap DOMAIN conf :
      \A k \in DOMAIN given[i][s].of \ (IF s = "build" THEN {"offline"} ELSE {}) :
        LastToSay(i, s, k) => conf[s][k] = Coerced(s, k, given[i][s].of[k])

\* A pin no layer names is that of the board the run ends up with, not of the board that was
\* meant when the power settings were made.
PinsAreTheBoards ==
  settled = "resolved" =>
    \A p \in Pins :
      \/ conf.power[p] = Catalogue[conf.target.board].pins[p]
      \/ \E i \in 1..Len(given) : Says(i, "power", p) /\ given[i]["power"].of[p] = conf.power[p]
=============================================================================
