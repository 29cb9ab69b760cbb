----------------------------- MODULE AppManifest -----------------------------
(***************************************************************************)
(* The app that is generated for a run: the NSX modules it lists, the ref     *)
(* each is pinned to in nsx.yml, the registry block beside them, and what     *)
(* the two images link.  A module belongs to a project, and a project is one  *)
(* repository: its modules are the same commit or none of them can be built.  *)
(***************************************************************************)
EXTENDS Configuration

CONSTANTS
  Registered,   \* the packaged NSX registry: module -> project
  QualifiedRef, \* the compatibility baseline: project -> ref
  EngineModules \* engine -> the modules its adapter brings: module -> [project, local]

NpuModule == "nsx-npu"

\* A region where the run keeps the arena or the weights; AOT tensors may have their own.
InPsram(c, arena, weights) ==
  "psram" \in {arena, weights, IF c.engine.type = "helia-aot" THEN c.engine.tensors ELSE ""}
-----------------------------------------------------------------------------
(* The modules. *)

Starter(b) ==
  (Catalogue[b].modules \ {"nsx-harness", "nsx-utils"})
    \cup (IF Catalogue[b].armv8m THEN {"nsx-pmu-armv8m"} ELSE {})
X_Selected_BleWhenGated(c, arena, weights) ==
  LET When(condition, names) == IF condition THEN names ELSE {}
  IN Starter(c.target.board)
       \cup When(c.target.transport = "rtt", {"nsx-segger-rtt"})
       \cup When(c.target.transport = "usb_cdc", {"nsx-usb"} \cup Catalogue[c.target.board].usb_providers)
       \cup When(InPsram(c, arena, weights), {"nsx-interrupt", "nsx-psram"})
       \cup When(GatedExternally(c), {"nsx-interrupt", "nsx-gpio"})
       \cup When(DedicatedImage(c) /\ MonitorOnTarget(c), {"nsx-i2c", "nsx-sensors"})
Selected(c, arena, weights) ==
  LET b == c.target.board
      When(condition, names) == IF condition THEN names ELSE {}
  IN Starter(b)
       \cup When(c.target.transport = "rtt", {"nsx-segger-rtt"})
       \cup When(c.target.transport = "usb_cdc", {"nsx-usb"} \cup Catalogue[b].usb_providers)
       \cup When(InPsram(c, arena, weights), {"nsx-interrupt", "nsx-psram"})
       \cup When(GatedExternally(c), {"nsx-interrupt", "nsx-gpio"})
       \cup When(DedicatedImage(c) /\ MonitorOnTarget(c), {"nsx-i2c", "nsx-sensors"})
       \cup When(DedicatedImage(c) /\ Catalogue[b].ble, {"nsx-gpio"})
Brought(c) ==
  DOMAIN EngineModules[c.engine.type] \cup (IF c.engine.backend = "ethos_u" THEN {NpuModule} ELSE {})

\* The project that vendors a module: the board's starter profile may move one onto the SDK.
ProjectOf(b, n) ==
  IF n \in DOMAIN Catalogue[b].moved THEN Catalogue[b].moved[n]
  ELSE IF n \in DOMAIN Registered THEN Registered[n] ELSE n
EngineModule(c, n) ==
  IF n = NpuModule THEN [project |-> "nsx-ambiq-sdk", local |-> FALSE]
  ELSE EngineModules[c.engine.type][n]

\* What may be selected for a board, whatever the run; what an engine brings beside it lives in
\* repositories of its own.
Selectable(b) ==
  Starter(b) \cup Catalogue[b].usb_providers
    \cup {"nsx-segger-rtt", "nsx-usb", "nsx-interrupt", "nsx-psram", "nsx-gpio", "nsx-i2c", "nsx-sensors"}
ASSUME EnginesBringTheirOwn ==
  /\ {"litert", "helia-rt", "helia-aot", "executorch"} \subseteq DOMAIN EngineModules
  /\ \A e \in DOMAIN EngineModules : \A n \in DOMAIN EngineModules[e] :
       ~EngineModules[e][n].local =>
         \A b \in DOMAIN Catalogue : \A k \in Selectable(b) : ProjectOf(b, k) # EngineModules[e][n].project
-----------------------------------------------------------------------------
(* The refs. *)

\* What the user pins: a ref given for any module of a project is the ref of the project.
AskedRefs(c, names, p) ==
  {c.nsx_modules[x] : x \in {x \in DOMAIN c.nsx_modules :
     x[2] = "ref" /\ x[1] \in names /\ ProjectOf(c.target.board, x[1]) = p}}
ProjectsOf(b, names) == {ProjectOf(b, n) : n \in names}
RefsAgree(c, names) ==
  \A p \in ProjectsOf(c.target.board, names) : \A r, q \in AskedRefs(c, names, p) : r = q
ProjectRefs(c, names) ==
  [p \in {p \in ProjectsOf(c.target.board, names) :
            AskedRefs(c, names, p) # {} \/ p \in DOMAIN QualifiedRef} |->
     IF AskedRefs(c, names, p) # {} THEN CHOOSE r \in AskedRefs(c, names, p) : TRUE
     ELSE QualifiedRef[p]]

\* One row of the manifest: a module checked out at a ref, a local directory, or whatever the
\* channel of the board has.
Row(project, local, ref) == [project |-> project, local |-> local, ref |-> ref]
X_SelectedRow_ItsOwn(c, names, n) ==
  LET p == ProjectOf(c.target.board, n)
  IN IF <<n, "path">> \in DOMAIN c.nsx_modules THEN Row(p, TRUE, "")
     ELSE IF <<n, "ref">> \in DOMAIN c.nsx_modules THEN Row(p, FALSE, c.nsx_modules[<<n, "ref">>])
     ELSE Row(p, FALSE, IF p \in DOMAIN QualifiedRef THEN QualifiedRef[p] ELSE "")
SelectedRow(c, names, n) ==
  LET p == ProjectOf(c.target.board, n)
  IN IF <<n, "path">> \in DOMAIN c.nsx_modules THEN Row(p, TRUE, "")
     ELSE IF p \in DOMAIN ProjectRefs(c, names) THEN Row(p, FALSE, ProjectRefs(c, names)[p])
     ELSE Row(p, FALSE, "")
BroughtRow(c, n) ==
  LET m == EngineModule(c, n)
  IN Row(m.project, m.local,
         IF m.local \/ m.project \notin DOMAIN QualifiedRef THEN "" ELSE QualifiedRef[m.project])
Rows(c, names) ==
  [n \in names \cup Brought(c) |->
     IF n \in names THEN SelectedRow(c, names, n) ELSE BroughtRow(c, n)]

\* The registry block pins every module of a pinned project; a starter profile pins the modules
\* it moves to main.
RegistryRef(c, names, n) ==
  LET p == ProjectOf(c.target.board, n)
  IN IF p \in DOMAIN ProjectRefs(c, names) THEN ProjectRefs(c, names)[p]
     ELSE IF n \in DOMAIN Catalogue[c.target.board].moved THEN "main" ELSE ""

\* What the link lines of the two images ask for.
LinkLines(c, arena, weights) ==
  LET When(condition, names) == IF condition THEN names ELSE {}
      b == c.target.board
      both == When(c.target.transport = "rtt", {"nsx-segger-rtt"})
                \cup When(c.target.transport = "usb_cdc", {"nsx-usb"})
                \cup When(Catalogue[b].armv8m, {"nsx-pmu-armv8m"})
                \cup When(InPsram(c, arena, weights), {"nsx-psram"})
                \cup When(c.engine.backend = "ethos_u", {NpuModule})
  IN [profile |-> both \cup When(GatedExternally(c), {"nsx-gpio"}),
      power |-> IF ~DedicatedImage(c) THEN {}
                ELSE both \cup When(GatedExternally(c) \/ Catalogue[b].ble, {"nsx-gpio"})
                          \cup When(MonitorOnTarget(c), {"nsx-i2c", "nsx-sensors"})]
Generated(c, arena, weights) ==
  LET names == Selected(c, arena, weights)
  IN [rows |-> Rows(c, names), registry |-> [n \in names |-> RegistryRef(c, names, n)],
      links |-> LinkLines(c, arena, weights)]
-----------------------------------------------------------------------------
(* What an app must be for NSX to lock it and CMake to link it. *)

\* The modules of one project are pinned to one ref, in the manifest and in its registry block
\* alike, whichever of them the user or the baseline pinned.  The exception is what an engine
\* brings of a project the user re-pins: nsx-npu keeps the qualified ref of the SDK.
OneRefPerProject(app) ==
  \A m, n \in DOMAIN app.rows :
    /\ app.rows[m].project = app.rows[n].project /\ ~app.rows[m].local /\ ~app.rows[n].local =>
         app.rows[m].ref = app.rows[n].ref \/ NpuModule \in {m, n}
    /\ m \in DOMAIN app.registry /\ app.rows[m].ref # "" => app.registry[m] = app.rows[m].ref

\* An image links what the app lists: the gate that selects a module and the gates of the two
\* link lines are written in three places.
LinksWhatItLists(app) ==
  app.links.profile \cup app.links.power \subseteq DOMAIN app.rows
=============================================================================
