------------------------------- MODULE RunPlan -------------------------------
(***************************************************************************)
(* A run plan: what a resolved run reads is captured on one host, kept in  *)
(* a file and replayed on another, where files, trees, variables, compiler *)
(* and packages may differ, or change while the replay looks at them.      *)
(* What a build reads is taken from the engines, what the plan holds from  *)
(* the freeze; the two are written apart in the code and here.             *)
(***************************************************************************)
EXTENDS Naturals, Sequences, FiniteSets

CONSTANT Changes    \* bound: how often the world changes after a freeze

\* A plan's file, the settings that are replayed, and the world they meet.
VARIABLES settings, world, frozen, origin, replay, changes
planVars == <<settings, world, frozen, origin, replay, changes>>

Versions == 1..2
Trees == {"d1", "d2"}
EngineTypes == {"litert", "helia-rt", "helia-aot", "executorch"}
-----------------------------------------------------------------------------
(* What is asked for.  A selector that is unset is "". *)

Plain(engine) ==
  [engine |-> engine, backend |-> "", configFile |-> FALSE, source |-> "", dist |-> "", release |-> FALSE,
   cmsisPath |-> "", cmsisRef |-> "", module |-> "", local |-> 1]

\* Selectors an engine takes; LiteRT takes a module's only.
Selectors(engine) ==
  {<<"module", v>> : v \in {"d1", "commit", "tag"}}
  \cup (IF engine = "litert" THEN {}
        ELSE {<<"cmsisPath", "d1">>, <<"cmsisRef", "commit">>, <<"cmsisRef", "branch">>})
  \cup (IF engine = "helia-aot" THEN {<<"configFile", TRUE>>} ELSE {})
  \cup (IF engine = "helia-rt" THEN {<<"source", "d1">>, <<"dist", "d1">>, <<"release", TRUE>>} ELSE {})
  \cup (IF engine = "executorch" THEN {<<"source", "d1">>, <<"backend", "ns">>} ELSE {})

\* Up to two of them at once.
Settings ==
  UNION {{[[Plain(e) EXCEPT ![a[1]] = a[2]] EXCEPT ![b[1]] = b[2]] :
            a \in Selectors(e), b \in Selectors(e)} \cup {Plain(e)} : e \in EngineTypes}

\* The variables the engines read; of the others one that compilers read, as "flags".
Worlds ==
  [model : {1}, sidecar : {"none", "arm", "ns"}, file : {1}, trees : {[d \in Trees |-> n] : n \in 0..1},
   cmsis : {"", "d1"}, rtSource : {"", "d1"}, rtDist : {"", "d1"}, flags : {"", "f1"},
   compiler : {1}, aot : {1}, baseline : {1}, newest : {1}]
\* One thing of a world, changed: a file, a tree, a variable, a package, or what a branch names.
Changed(w) ==
  {[w EXCEPT !.model = 2], [w EXCEPT !.file = 2], [w EXCEPT !.compiler = 2], [w EXCEPT !.aot = 2],
   [w EXCEPT !.baseline = 2], [w EXCEPT !.newest = 2], [w EXCEPT !.flags = "f2"], [w EXCEPT !.flags = ""]}
  \cup {[w EXCEPT !.sidecar = s] : s \in {"none", "arm", "ns"}}
  \cup (UNION {{[w EXCEPT !.trees[d] = n] : n \in {0, 2}} : d \in Trees})
  \cup {[w EXCEPT !.cmsis = d] : d \in {"", "d2"}}
  \cup {[w EXCEPT !.rtSource = d] : d \in {"", "d2"}}
  \cup {[w EXCEPT !.rtDist = d] : d \in {"", "d2"}}
-----------------------------------------------------------------------------
(* What the engines read of a world to build. *)

\* An ExecuTorch program's side file selects the kernels if the configuration does not.
Provider(s, w) ==
  IF s.engine # "executorch" THEN "ns"
  ELSE IF s.backend # "" THEN s.backend ELSE IF w.sidecar # "none" THEN w.sidecar ELSE "arm"

\* Path, then ref, then the variable, which reaches one of the two kernel libraries only.
CmsisOverride(s, w, provider) ==
  IF s.cmsisPath # "" THEN [by |-> "engine.config.cmsis_nn_path", path |-> s.cmsisPath]
  ELSE IF s.cmsisRef # "" THEN [by |-> "engine.config.cmsis_nn_ref", path |-> ""]
  ELSE IF w.cmsis # "" /\ provider = "ns" THEN [by |-> "env.CMSIS_NN_PATH", path |-> w.cmsis]
  ELSE [by |-> "none", path |-> ""]

Tree(w, d) == <<"tree", d, w.trees[d]>>
AtBaseline(w) == <<"pinned", w.baseline>>
Floating(w) == <<"newest", w.newest>>
Rejected == <<"refused", 0>>

Kernels(s, w) ==
  LET chosen == CmsisOverride(s, w, Provider(s, w))
  IN IF chosen.path # "" THEN Tree(w, chosen.path)
     ELSE IF chosen.by = "engine.config.cmsis_nn_ref"
          THEN IF s.cmsisRef = "commit" THEN <<"commit", 1>> ELSE Floating(w)
     ELSE AtBaseline(w)

\* heliaRT's sources: a tree, then a distribution, then a release, then the registry.
RtSource(s, w) == IF s.source # "" THEN s.source ELSE w.rtSource
RtDist(s, w) == IF s.dist # "" THEN s.dist ELSE w.rtDist
\* A distribution has its kernels compiled in, and another choice of them is refused.
RtEngine(s, w) ==
  IF RtSource(s, w) # "" THEN [runtime |-> Tree(w, RtSource(s, w)), kernels |-> Kernels(s, w)]
  ELSE IF RtDist(s, w) # "" \/ s.release
       THEN IF CmsisOverride(s, w, "ns").by # "none" THEN [runtime |-> Rejected, kernels |-> Rejected]
            ELSE [runtime |-> IF RtDist(s, w) # "" THEN Tree(w, RtDist(s, w)) ELSE Floating(w),
                  kernels |-> <<"archive", 0>>]
  ELSE [runtime |-> AtBaseline(w), kernels |-> Kernels(s, w)]

Engine(s, w) ==
  CASE s.engine = "litert" -> [runtime |-> AtBaseline(w), kernels |-> AtBaseline(w)]
    [] s.engine = "helia-rt" -> RtEngine(s, w)
    [] s.engine = "helia-aot" -> [runtime |-> <<"package", w.aot>>, kernels |-> Kernels(s, w)]
    [] s.engine = "executorch" ->
         [runtime |-> IF s.source # "" THEN Tree(w, s.source) ELSE AtBaseline(w), kernels |-> Kernels(s, w)]

Module(s, w) ==
  CASE s.module = "" -> AtBaseline(w) [] s.module = "commit" -> <<"commit", 1>>
    [] s.module = "tag" -> Floating(w) [] OTHER -> Tree(w, s.module)

\* Everything that decides the firmware, by content.
Firmware(s, w) ==
  [asked |-> [s EXCEPT !.local = 0], model |-> w.model,
   sidecar |-> IF s.engine = "executorch" THEN w.sidecar ELSE "none",
   file |-> IF s.configFile THEN w.file ELSE 0, engine |-> Engine(s, w), provider |-> Provider(s, w),
   module |-> Module(s, w), flags |-> w.flags, compiler |-> w.compiler, baseline |-> w.baseline]
-----------------------------------------------------------------------------
(* What a plan holds. *)

\* The heliaRT variable a build reads, by the adapter's precedence.
RtVariable(s, w) ==
  IF s.engine # "helia-rt" \/ s.source # "" THEN {}
  ELSE IF w.rtSource # "" THEN {<<"env.HELIART_SOURCE_PATH", w.rtSource>>}
  ELSE IF w.rtDist # "" /\ s.dist = "" THEN {<<"env.HELIART_DIST_PATH", w.rtDist>>} ELSE {}

\* Mutant: a distribution's variable counts only where no release is asked for.
X_SourceVariables_Release(s, w) ==
  (IF s.engine # "litert" /\ CmsisOverride(s, w, Provider(s, w)).by = "env.CMSIS_NN_PATH"
   THEN {<<"env.CMSIS_NN_PATH", w.cmsis>>} ELSE {}) \cup (IF s.release THEN {} ELSE RtVariable(s, w))
\* The variables that are read, with their values.
SourceVariables(s, w) ==
  (IF s.engine # "litert" /\ CmsisOverride(s, w, Provider(s, w)).by = "env.CMSIS_NN_PATH"
   THEN {<<"env.CMSIS_NN_PATH", w.cmsis>>} ELSE {}) \cup RtVariable(s, w)

FromSource(s, w) == s.engine = "helia-rt" /\ RtSource(s, w) # ""

\* Directories by path.
LocalTrees(s, w) ==
  {<<"engine.config.source_path", d>> : d \in {s.source} \ {""}}
  \cup {<<"engine.config.dist_path", d>> : d \in IF FromSource(s, w) THEN {} ELSE {s.dist} \ {""}}
  \cup {<<"engine.config.cmsis_nn_path", d>> : d \in {s.cmsisPath} \ {""}}
  \cup {<<"build.nsx_modules", d>> : d \in {s.module} \cap Trees}
  \cup SourceVariables(s, w)
\* Files by content.
LocalFiles(s, w) ==
  (IF s.engine = "executorch" /\ w.sidecar # "none" THEN {<<"model.sidecar", w.sidecar>>} ELSE {})
  \cup (IF s.configFile THEN {<<"engine.config_path", w.file>>} ELSE {})
Missing(w, trees) == \E t \in trees : w.trees[t[2]] = 0

\* The overrides, by what they replace: one that LiteRT is given counts though LiteRT reads none.
Overrides(s, w) ==
  (IF s.module # "" THEN {"module"} ELSE {})
  \cup (IF CmsisOverride(s, w, Provider(s, w)).by # "none" THEN {"kernels"} ELSE {})
EngineOverrides(s, w) ==
  (IF s.configFile THEN {"engine.config_path"} ELSE {})
  \cup (IF s.source # "" THEN {"engine.config.source_path"} ELSE {})
  \cup (IF s.dist # "" THEN {"engine.config.dist_path"} ELSE {})
  \cup (IF s.release THEN {"engine.config.source"} ELSE {})
  \cup {v[1] : v \in RtVariable(s, w)}
Qualification(s, w) ==
  IF Overrides(s, w) # {} THEN "development-overrides"
  ELSE IF EngineOverrides(s, w) # {} THEN "qualified-with-engine-override" ELSE "qualified"

\* What selects heliaRT's sources or, if none are, its archive.
RtSelected(s, w) ==
  EngineOverrides(s, w) \cap
    IF FromSource(s, w) THEN {"engine.config.source_path", "env.HELIART_SOURCE_PATH"}
    ELSE {"engine.config.dist_path", "engine.config.source", "env.HELIART_DIST_PATH"}
\* Engine and kernels by release or commit; what a selector names has none, and an archive its own.
FrozenRuntime(s, w) ==
  LET kernels == IF "kernels" \in Overrides(s, w) THEN <<"overridden", 0>> ELSE AtBaseline(w)
      selected == RtSelected(s, w)
  IN CASE s.engine = "litert" -> <<AtBaseline(w), AtBaseline(w), {}>>
       [] s.engine = "helia-rt" ->
            <<IF selected = {} THEN AtBaseline(w) ELSE <<"selected", 0>>,
              IF selected # {} /\ ~FromSource(s, w) THEN <<"none", 0>> ELSE kernels, selected>>
       [] s.engine = "helia-aot" -> <<<<"package", w.aot>>, kernels, {}>>
       [] s.engine = "executorch" -> <<AtBaseline(w), <<Provider(s, w), kernels>>, {}>>

FloatingSelectors(s) == s.cmsisRef = "branch" \/ s.release \/ s.module = "tag"

\* Mutant: the compiler is left out.
X_Intent_Compiler(s, w) ==
  [settings |-> [s EXCEPT !.local = 0], model |-> w.model, baseline |-> w.baseline,
   qualification |-> Qualification(s, w), overrides |-> Overrides(s, w) \cup EngineOverrides(s, w),
   trees |-> LocalTrees(s, w), files |-> LocalFiles(s, w), compiler |-> 0,
   environment |-> w.flags, runtime |-> FrozenRuntime(s, w)]
\* What the intent hash is taken of: everything but what names the host.
Intent(s, w) ==
  [settings |-> [s EXCEPT !.local = 0], model |-> w.model, baseline |-> w.baseline,
   qualification |-> Qualification(s, w), overrides |-> Overrides(s, w) \cup EngineOverrides(s, w),
   trees |-> LocalTrees(s, w), files |-> LocalFiles(s, w), compiler |-> w.compiler,
   environment |-> w.flags, runtime |-> FrozenRuntime(s, w)]

\* Whether another host can rebuild it.
Portable(plan) == plan.trees = {} /\ plan.environment = "" /\ ~FloatingSelectors(plan.settings)
-----------------------------------------------------------------------------
Unfrozen == [intent |-> <<>>, hash |-> <<>>]
PlanInit ==
  /\ \A v \in {"rtSource", "rtDist"} : world[v] # "" => settings.engine = "helia-rt"
  /\ world.sidecar # "none" => settings.engine = "executorch"
  /\ world.flags # "" => settings = Plain(settings.engine)
  /\ world.trees["d1"] = 0 => LocalTrees(settings, world) # {}
  /\ frozen = Unfrozen /\ origin = world /\ replay = "none" /\ changes = 0

\* A plan and its file, which holds the hash of what it says.
Freeze ==
  /\ replay = "none"
  /\ IF Missing(world, LocalTrees(settings, world)) THEN frozen' = frozen /\ replay' = "refused"
     ELSE /\ frozen' = [intent |-> Intent(settings, world), hash |-> Intent(settings, world)]
          /\ replay' = "frozen"
  /\ UNCHANGED <<settings, world, origin, changes>>

\* The file is edited: a hash that is not computed again gives it away.
Edit ==
  /\ replay = "frozen" /\ frozen.intent = frozen.hash /\ changes = 0
  /\ \E intent \in {[frozen.intent EXCEPT !.model = 2], [frozen.intent EXCEPT !.files = {}],
                    [frozen.intent EXCEPT !.settings.module = "commit"]} :
       intent # frozen.intent /\ frozen' = [frozen EXCEPT !.intent = intent]
  /\ UNCHANGED <<settings, world, origin, replay, changes>>

\* Another host, or a change of this one while the replay looks.
Change ==
  /\ replay \in {"frozen", "checked"} /\ changes < Changes /\ frozen.intent = frozen.hash
  /\ world' \in Changed(world) \ {world}
  /\ changes' = changes + 1
  /\ UNCHANGED <<settings, frozen, origin, replay>>

\* The file and what it names, looked at before anything is resolved.
SameFiles(plan) ==
  /\ plan.baseline = world.baseline /\ plan.model = world.model
  /\ plan.settings.configFile => <<"engine.config_path", world.file>> \in plan.files
  /\ ~Missing(world, plan.trees)
  /\ plan.settings.engine = "executorch" =>
       {f \in plan.files : f[1] = "model.sidecar"} =
         (IF world.sidecar = "none" THEN {} ELSE {<<"model.sidecar", world.sidecar>>})
\* Only what names the host can be given with a replay.
CheckFiles ==
  /\ replay = "frozen"
  /\ \E overlay \in {"local", "other"} :
       /\ replay' = IF frozen.intent = frozen.hash /\ SameFiles(frozen.intent) /\ overlay = "local"
                    THEN "checked" ELSE "refused"
       /\ settings' = [frozen.intent.settings EXCEPT !.local = IF overlay = "local" THEN 2 ELSE 0]
  /\ UNCHANGED <<world, frozen, origin, changes>>

\* Resolved and frozen again on this host, and compared.
CheckReplay ==
  /\ replay = "checked"
  /\ replay' = IF ~Missing(world, LocalTrees(settings, world)) /\ Intent(settings, world) = frozen.hash
               THEN "accepted" ELSE "refused"
  /\ UNCHANGED <<settings, world, frozen, origin, changes>>

PlanNext == Freeze \/ Edit \/ Change \/ CheckFiles \/ CheckReplay
-----------------------------------------------------------------------------
PlanTypeOK ==
  /\ settings.engine \in EngineTypes /\ settings.local \in {0, 1, 2}
  /\ replay \in {"none", "frozen", "checked", "accepted", "refused"}
  /\ changes \in 0..Changes

\* Trees and what a floating name gives are not identified by content.
Alike(w) == [w EXCEPT !.trees = [d \in Trees |-> 1], !.newest = 1]

\* What is accepted builds what was frozen, up to what trees and floating names hold; a portable
\* plan builds it to the byte.
AcceptedIsTheRun ==
  replay = "accepted" =>
    /\ Firmware(settings, Alike(world)) = Firmware(settings, Alike(origin))
    /\ Portable(frozen.intent) => Firmware(settings, world) = Firmware(settings, origin)

\* A replay of an untouched file for a world that reads the same to the build is not refused for
\* a variable the engine does not read.
AsRead(w) == [w EXCEPT !.rtSource = "", !.rtDist = "", !.newest = 1]
UnreadNeverRefuses ==
  replay = "refused" /\ frozen # Unfrozen /\ frozen.intent = frozen.hash
  /\ settings.local = 2 /\ RtVariable(settings, world) = RtVariable(settings, origin) =>
    AsRead(world) # AsRead(origin) \/ Missing(world, LocalTrees(settings, world))

\* What a replay accepts (FrozenRun.load, config) is the run that was frozen, and what it
\* refuses it has a reason for.
PlanIsReplayed == AcceptedIsTheRun /\ UnreadNeverRefuses
-----------------------------------------------------------------------------
\* The run that is frozen may be any, in any world.
SettingTypes ==
  LET tree == {""} \cup Trees
  IN [engine : EngineTypes, backend : {"", "ns"}, configFile : BOOLEAN, source : tree, dist : tree,
      release : BOOLEAN, cmsisPath : tree, cmsisRef : {"", "commit", "branch"},
      module : {"", "commit", "tag"} \cup Trees, local : 0..2]
WorldTypes ==
  LET tree == {""} \cup Trees
  IN [model : Nat, sidecar : {"none", "arm", "ns"}, file : Nat, trees : [Trees -> Nat], cmsis : tree,
      rtSource : tree, rtDist : tree, flags : {"", "f1", "f2"}, compiler : Nat, aot : Nat,
      baseline : Nat, newest : Nat]
PlanSpec ==
  settings \in SettingTypes /\ world \in WorldTypes /\ PlanInit /\ [][PlanNext]_planVars

\* The parts of the inductive invariant.
Intact == frozen # Unfrozen /\ frozen.intent = frozen.hash
PlanTypes ==
  /\ origin \in WorldTypes /\ world \in WorldTypes
  /\ replay = "none" \/ Intact => settings \in SettingTypes
  /\ replay \in {"none", "frozen", "checked", "accepted", "refused"}

\* Until it is frozen nothing has changed, and what was refused then was not frozen.
NothingFrozen ==
  /\ replay = "none" => frozen = Unfrozen /\ origin = world
  /\ replay = "frozen" => frozen # Unfrozen
  /\ replay \in {"checked", "accepted"} => Intact

\* A plan that was not edited says what the run under replay meant where it was frozen.
FrozenIsOfOrigin ==
  Intact => frozen = [intent |-> Intent(settings, origin), hash |-> Intent(settings, origin)]

\* An answer has its reason in the world it was given for.
AnswerHasReason ==
  /\ replay = "accepted" => Intent(settings, world) = frozen.hash
  /\ replay = "refused" /\ Intact /\ settings.local = 2 =>
       ~SameFiles(frozen.intent) \/ Missing(world, LocalTrees(settings, world))
         \/ Intent(settings, world) # frozen.hash

PlanIInv == PlanTypes /\ NothingFrozen /\ FrozenIsOfOrigin /\ AnswerHasReason
=============================================================================
