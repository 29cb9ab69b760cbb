--------------------------- MODULE MemoryPlacement ---------------------------
(***************************************************************************)
(* Where a profile's memory goes: the placement that is planned, the plan  *)
(* held against the part, the image the linker makes of it, what is        *)
(* measured of the image, and the check that the arena is where the plan   *)
(* says.  Sizes and addresses are in KB; an object smaller than that is    *)
(* left out, but for the pointer to an object in PSRAM.                    *)
(***************************************************************************)
EXTENDS Integers, Sequences, FiniteSets, FiniteSetsExt

CONSTANTS
  Arenas, Weights     \* bound: their sizes

Regions == {"DTCM", "ITCM", "SRAM", "MRAM", "PSRAM"}
RegionOf == [tcm |-> "DTCM", sram |-> "SRAM", mram |-> "MRAM", psram |-> "PSRAM"]
Placements == DOMAIN RegionOf

VARIABLES building, choice, placed, usage, elf, measured, reconciled
memoryVars == <<building, choice, placed, usage, elf, measured, reconciled>>
-----------------------------------------------------------------------------
(* The parts. *)

Layout(mram, sram, dtcm, itcm, psram) ==
  [MRAM |-> mram, SRAM |-> sram, DTCM |-> dtcm, ITCM |-> itcm, PSRAM |-> psram]
apollo3p == [family |-> "ap3", layout |-> Layout(2000, 700, 64, 0, 0), ops |-> 2048]
apollo4p == [family |-> "ap4", layout |-> Layout(2000, 1024, 384, 0, 0), ops |-> 2048]
apollo510 == [family |-> "ap5", layout |-> Layout(4096, 3072, 512, 256, 65536), ops |-> 4096]
apollo330P == [family |-> "ap5", layout |-> Layout(1552, 1792, 240, 0, 32768), ops |-> 512]
\* A part the configuration declares: not one the linker scripts were read for.
custom == [family |-> "ap5", layout |-> Layout(2048, 0, 256, 0, 0), ops |-> 512]

Socs == [apollo3p |-> apollo3p, apollo4p |-> apollo4p, apollo510 |-> apollo510,
         apollo330P |-> apollo330P, custom |-> custom]

Extent(from, length) == [from |-> from, to |-> from + length]
Within(address, extent) == extent.from <= address /\ address < extent.to

\* The window of a region, and the part of it an application may use under each linker.
RegionWindow(from, length, app, gnu, armlink) ==
  [window |-> Extent(from, length), gnu |-> Extent(app, gnu), armlink |-> Extent(app, armlink)]
DtcmAt == [ap3 |-> 262144, ap4 |-> 262144, ap5 |-> 524288]
PsramAt == 1572864

Map3p == [MRAM |-> RegionWindow(48, 2000, 48, 2000, 2000),
          DTCM |-> RegionWindow(262144, 64, 262144, 64, 64),
          SRAM |-> RegionWindow(262208, 704, 262212, 700, 700)]
Map4 == [MRAM |-> RegionWindow(96, 1952, 96, 1952, 1952),
         DTCM |-> RegionWindow(262144, 384, 262144, 384, 364),
         SRAM |-> RegionWindow(262528, 1024, 262528, 1024, 1024)]
Map5 == [ITCM |-> RegionWindow(0, 256, 0, 256, 256),
         MRAM |-> RegionWindow(4160, 4032, 4160, 4032, 4032),
         DTCM |-> RegionWindow(524288, 512, 524288, 496, 492),
         SRAM |-> RegionWindow(524800, 3072, 524800, 3072, 3072)]
Map330P == [MRAM |-> RegionWindow(4160, 1984, 4160, 1552, 1552),
            DTCM |-> RegionWindow(524288, 256, 524288, 240, 236),
            SRAM |-> RegionWindow(524800, 1792, 524800, 1792, 1792)]

\* Every region whose sections the scripts place; only for the default linker profile.
Linked(soc, profile) ==
  IF profile # "default" \/ soc = "custom" THEN <<>>
  ELSE CASE soc = "apollo3p" -> Map3p [] soc = "apollo4p" -> Map4
         [] soc = "apollo510" -> Map5 [] soc = "apollo330P" -> Map330P
\* The same with the PSRAM of the board.
LinkedMap(soc, profile) ==
  LET map == Linked(soc, profile)  size == Socs[soc].layout["PSRAM"]
  IN IF map = <<>> \/ size = 0 THEN map
     ELSE [r \in (DOMAIN map) \cup {"PSRAM"} |->
             IF r = "PSRAM" THEN RegionWindow(PsramAt, size, PsramAt, size, size) ELSE map[r]]

\* The region an address is in, "none" if it is in no window.
Classify(address, map) ==
  IF \E r \in DOMAIN map : Within(address, map[r].window)
  THEN CHOOSE r \in DOMAIN map : Within(address, map[r].window) ELSE "none"

\* What a part without a map declares.
Declared(soc) ==
  LET part == Socs[soc]
      base == [DTCM |-> DtcmAt[part.family], SRAM |-> DtcmAt[part.family] + 512, MRAM |-> 0, PSRAM |-> PsramAt]
  IN [r \in {x \in DOMAIN base : part.layout[x] > 0} |-> Extent(base[r], part.layout[r])]
-----------------------------------------------------------------------------
(* The placement. *)

BuildChoices ==
  [soc : DOMAIN Socs, linker : {"gnu", "armlink"}, engine : {"litert", "helia-aot", "executorch"},
   arena : Arenas, weights : Weights, arenaLoc : {"auto", "tcm", "sram", "psram"},
   weightsLoc : {"auto", "tcm", "mram", "psram"}, profile : {"default", "itcm"}]

TcmSlack == 128
SramSlack == 32
Positive(n) == IF n > 0 THEN n ELSE 0

\* The fastest memory the arena fits, and then the fastest the weights do.
FastestFit(arena, weights, tcm, sram) ==
  LET tcmBudget == Positive(tcm - TcmSlack)
      sramBudget == Positive(sram - SramSlack)
  IN IF arena <= tcmBudget
     THEN <<"tcm", IF weights <= Positive(tcmBudget - arena - TcmSlack) THEN "tcm"
                   ELSE IF weights <= sramBudget THEN "sram" ELSE "mram">>
     ELSE <<IF arena <= sram THEN "sram" ELSE "mram", "mram">>

\* What is asked for outright stands; only TCM and PSRAM are looked for on the part.
Placement(c) ==
  LET layout == Socs[c.soc].layout
      fit == FastestFit(c.arena, c.weights, layout["DTCM"], layout["SRAM"])
      or(asked, auto) == IF asked = "auto" THEN auto ELSE asked
  IN [arena |-> or(c.arenaLoc, fit[1]), weights |-> or(c.weightsLoc, fit[2])]
Absent(c) ==
  \E p \in {"tcm", "psram"} \cap {c.arenaLoc, c.weightsLoc} : Socs[c.soc].layout[RegionOf[p]] = 0
-----------------------------------------------------------------------------
(* The plan: what goes where, and whether it fits the part. *)

Item(name, region, size) == [name |-> name, region |-> region, size |-> size]

\* Where the firmware's own objects go, by family.
BssRegion(family) == IF family = "ap3" THEN "SRAM" ELSE "DTCM"
RttRegion(family) == IF family = "ap5" THEN "DTCM" ELSE "SRAM"
StackRegion(family) == BssRegion(family)
StackSize(family) == IF family = "ap3" THEN 4 ELSE 16
RecordSize(engine) == CASE engine = "litert" -> 24 [] engine = "helia-aot" -> 20 [] OTHER -> 40
RttSize == 32

\* What the engine allocates; a heliaAOT build whose extraction failed books nothing.
EngineItems(c, p) ==
  LET arena == RegionOf[p.arena]
      weights == Item("weights", RegionOf[p.weights], c.weights)
  IN CASE c.engine = "helia-aot" -> {}
       [] c.engine = "litert" -> {weights, Item("arena", arena, c.arena)}
       [] c.engine = "executorch" ->
            {weights, Item("planned_arena", arena, c.arena), Item("method_arena", arena, 64),
             Item("temporary_arena", "SRAM", 32)}

\* What hpx itself puts into a firmware that reports through RTT.
OwnItems(c) ==
  LET part == Socs[c.soc]
  IN {Item("records", "SRAM", (part.ops * RecordSize(c.engine)) \div 1024),
      Item("stack", StackRegion(part.family), StackSize(part.family)),
      Item("rtt", RttRegion(part.family), RttSize)}

Items(c, p) == EngineItems(c, p) \cup OwnItems(c)
Total(items) == MapThenSumSet(LAMBDA i : i.size, items)

\* The application's window bounds MRAM where the linker's map is known.
Capacity(c, region) ==
  LET map == Linked(c.soc, c.profile)
  IN IF region = "MRAM" /\ map # <<>> THEN map["MRAM"][c.linker].to - map["MRAM"][c.linker].from
     ELSE Socs[c.soc].layout[region]

\* A region nothing is declared of is not checked.
Overflows(c, items) ==
  \E r \in Regions : Capacity(c, r) > 0 /\ Total({i \in items : i.region = r}) > Capacity(c, r)

NoPlacement == [arena |-> "auto", weights |-> "auto"]
NoImage == [sections |-> {}, segments |-> {}, symbols |-> {}, complete |-> TRUE, named |-> TRUE]
Unmeasured == [known |-> FALSE, used |-> <<>>, reserved |-> <<>>, load |-> <<>>,
               stray |-> {}, strayLoad |-> 0]

\* The linker profile is an option of heliaAOT, and ExecuTorch's arenas are in RAM.
MemoryInit ==
  /\ choice.profile = "itcm" => choice.engine = "helia-aot"
  /\ choice.arenaLoc = "psram" => choice.engine # "executorch"
  /\ building = "plan" /\ placed = NoPlacement /\ usage = {} /\ elf = NoImage
  /\ measured = Unmeasured /\ reconciled = {}

PlanMemory ==
  /\ building = "plan"
  /\ IF Absent(choice) THEN building' = "unplaced" /\ UNCHANGED <<placed, usage>>
     ELSE /\ placed' = Placement(choice)
          /\ usage' = Items(choice, Placement(choice))
          /\ building' = IF Overflows(choice, usage') THEN "overflows" ELSE "build"
  /\ UNCHANGED <<choice, elf, measured, reconciled>>
-----------------------------------------------------------------------------
(* The linker. *)

AppExtent(c, region) ==
  IF Linked(c.soc, c.profile) # <<>> THEN Linked(c.soc, c.profile)[region][c.linker] ELSE Declared(c.soc)[region]
Mapped(c) == IF c.soc = "custom" THEN DOMAIN Declared(c.soc)
             ELSE (DOMAIN Linked(c.soc, "default")) \ {"ITCM"}

CodeSize == 300
BankSize == 8
HeapSize == 4
\* What goes wrong with a link, or with what its tools print; an object's name is one the script
\* does not collect.
Movable == {"arena", "weights", "records", "rtt"}
Mishaps == {"none", "bank", "partial", "unnamed", "alias"} \cup Movable

\* Where the linker puts an item: an arena the plan has in MRAM is an ordinary static, or in TCM.
LandsIn(c, i, mishap) ==
  IF mishap = i.name \/ (i.name = "arena" /\ i.region = "MRAM") THEN BssRegion(Socs[c.soc].family)
  ELSE IF i.name \in {"planned_arena", "method_arena"} /\ i.region = "MRAM" THEN "DTCM" ELSE i.region

\* armlink keeps its stack above the application's memory, and an apollo3p below it.
Floats(c) == c.linker = "gnu" /\ Socs[c.soc].family # "ap3"
Objects(c, items, mishap) ==
  {Item(i.name, LandsIn(c, i, mishap), i.size) :
     i \in {j \in items : j.region # "PSRAM" /\ (j.name = "stack" => Floats(c))}}
  \cup {Item("code", "MRAM", CodeSize)}
In(objects, region) == {o \in objects : o.region = region}
Fits(c, objects) ==
  /\ \A o \in objects : o.region \in Mapped(c)
  /\ \A r \in Mapped(c) : Total(In(objects, r)) <= AppExtent(c, r).to - AppExtent(c, r).from

Section(name, at, size, heap) == [name |-> name, at |-> at, size |-> size, heap |-> heap]
\* One after the other.
LinkOrder == <<"code", "weights", "stack", "arena", "planned_arena", "method_arena", "temporary_arena", "rtt", "records">>
Rank == [n \in {LinkOrder[k] : k \in DOMAIN LinkOrder} |-> CHOOSE k \in DOMAIN LinkOrder : LinkOrder[k] = n]
Laid(c, objects) ==
  LET before(o) == {x \in objects : x.region = o.region /\ Rank[x.name] < Rank[o.name]}
  IN {Section(o.name, AppExtent(c, o.region).from + Total(before(o)), o.size, FALSE) : o \in objects}
\* What the script reserves: GNU's heap fills what is left, the others are fixed.
Reservations(c, objects) ==
  LET family == Socs[c.soc].family
      data == BssRegion(family)
      extent == AppExtent(c, data)
      filled == extent.from + Total(In(objects, data))
  IN IF c.soc = "custom" THEN {}
     ELSE (IF c.linker = "gnu" /\ filled < extent.to
           THEN {Section("heap", filled, extent.to - filled, TRUE)} ELSE {})
          \cup (IF c.linker = "armlink" /\ family # "ap3"
                THEN {Section("heap", extent.to, HeapSize, TRUE),
                      Section("stack", extent.to + HeapSize, StackSize(family), FALSE)} ELSE {})
          \cup (IF family = "ap3" THEN {Section("stack", extent.from - StackSize(family), StackSize(family), FALSE)} ELSE {})

\* Memory of the part that no script maps.
BankAt(c) ==
  IF Socs[c.soc].layout["PSRAM"] > 0 THEN PsramAt
  ELSE IF c.soc = "custom" THEN PsramAt ELSE LinkedMap(c.soc, "default")["SRAM"].window.to
Bank(c, mishap) == IF mishap = "bank" THEN {Section("bank", BankAt(c), BankSize, FALSE)} ELSE {}

Symbol(name, spelling, at, size) == [name |-> name, spelling |-> spelling, at |-> at, size |-> size]
\* The sized symbols: RTT is two objects, what is in PSRAM a pointer, and armlink's stack none.
SymbolsOf(c, items, sections, mishap) ==
  LET objects == {s \in sections : s.name \notin {"heap", "code", "bank", "rtt"} /\ (s.name = "stack" => c.linker = "gnu")}
  IN {Symbol(s.name, "plain", s.at, s.size) : s \in objects}
     \cup (IF mishap = "alias" THEN {Symbol(s.name, "mangled", s.at, s.size) : s \in objects} ELSE {})
     \cup UNION {{Symbol("rtt_up", "plain", s.at, s.size - 1), Symbol("rtt_control", "plain", s.at + s.size - 1, 1)} :
                   s \in {x \in sections : x.name = "rtt"}}
     \cup {Symbol(i.name, "mangled", AppExtent(c, "DTCM").from, 1) : i \in {j \in items : j.region = "PSRAM"}}

\* Initialised data is stored in MRAM wherever it runs.
Image(c, items, mishap) ==
  LET objects == Objects(c, items, mishap)
      sections == Laid(c, objects) \cup Reservations(c, objects) \cup Bank(c, mishap)
  IN [sections |-> sections,
      segments |-> {[at |-> AppExtent(c, "MRAM").from,
                     file |-> Total({o \in objects : o.name \in {"code", "weights"}})]}
                   \cup {[at |-> b.at, file |-> b.size] : b \in Bank(c, mishap)},
      symbols |-> IF mishap = "unnamed" THEN {} ELSE SymbolsOf(c, items, sections, mishap),
      complete |-> mishap # "partial", named |-> mishap # "unnamed"]

LinkImage ==
  /\ building = "build"
  /\ \E mishap \in Mishaps :
       IF Fits(choice, Objects(choice, usage, mishap))
       THEN elf' = Image(choice, usage, mishap) /\ building' = "measure"
       ELSE elf' = elf /\ building' = "unlinked"
  /\ UNCHANGED <<choice, placed, usage, measured, reconciled>>
-----------------------------------------------------------------------------
(* The measurement. *)

Allocated(region, map, inside) ==
  {s \in elf.sections : Within(s.at, map[region].window) /\ inside = Within(s.at, map[region][choice.linker])}

\* Mutant: what is in the PSRAM window is taken for PSRAM.
X_Occupancy_Psram(map) ==
  [known |-> TRUE,
   used |-> [r \in DOMAIN map |-> Total({s \in Allocated(r, map, TRUE) : ~s.heap})],
   reserved |-> [r \in DOMAIN map |-> Total({s \in Allocated(r, map, TRUE) : s.heap} \cup Allocated(r, map, FALSE))],
   load |-> [r \in DOMAIN map |-> MapThenSumSet(LAMBDA g : g.file, {g \in elf.segments : Classify(g.at, map) = r})],
   stray |-> {s \in elf.sections : Classify(s.at, LinkedMap(choice.soc, choice.profile)) = "none"},
   strayLoad |-> MapThenSumSet(LAMBDA g : g.file, {g \in elf.segments : Classify(g.at, map) = "none"})]
\* Occupied memory, the linker's reservations, and what no window has.
Occupancy(map) ==
  [known |-> TRUE,
   used |-> [r \in DOMAIN map |-> Total({s \in Allocated(r, map, TRUE) : ~s.heap})],
   reserved |-> [r \in DOMAIN map |-> Total({s \in Allocated(r, map, TRUE) : s.heap} \cup Allocated(r, map, FALSE))],
   load |-> [r \in DOMAIN map |-> MapThenSumSet(LAMBDA g : g.file, {g \in elf.segments : Classify(g.at, map) = r})],
   stray |-> {s \in elf.sections : Classify(s.at, map) = "none"},
   strayLoad |-> MapThenSumSet(LAMBDA g : g.file, {g \in elf.segments : Classify(g.at, map) = "none"})]

Candidates(name) == IF name = "rtt" THEN {"rtt_up", "rtt_control"} ELSE {name}
\* An object with two names counts once.
Matched(name) == {[at |-> y.at, size |-> y.size] : y \in {x \in elf.symbols : x.name \in Candidates(name)}}

\* Mutant: what is in PSRAM is looked for too.
X_Held_Pointer(i, map) ==
  LET found == Matched(i.name)
      largest == CHOOSE y \in found : \A x \in found : x.size <= y.size
  IN IF found = {} THEN [item |-> i, status |-> "missing", size |-> 0, region |-> "none"]
     ELSE [item |-> i, status |-> "matched", size |-> Total(found), region |-> Classify(largest.at, map)]
\* A planned item held against the symbols; what is in PSRAM has only a pointer.
Held(i, map) ==
  LET found == Matched(i.name)
      largest == CHOOSE y \in found : \A x \in found : x.size <= y.size
  IN IF i.region = "PSRAM" THEN [item |-> i, status |-> "unmatchable", size |-> 0, region |-> "none"]
     ELSE IF found = {} THEN [item |-> i, status |-> "missing", size |-> 0, region |-> "none"]
     ELSE [item |-> i, status |-> "matched", size |-> Total(found), region |-> Classify(largest.at, map)]

\* No map or not every section: nothing is measured.
MeasureImage ==
  /\ building = "measure"
  /\ LET map == Linked(choice.soc, choice.profile)
         known == map # <<>> /\ elf.complete
     IN /\ measured' = IF known THEN Occupancy(map) ELSE Unmeasured
        /\ IF known /\ measured'.load["MRAM"] > map["MRAM"][choice.linker].to - map["MRAM"][choice.linker].from
           THEN building' = "too_large" /\ reconciled' = {}
           ELSE /\ building' = "verify"
                /\ reconciled' = IF known /\ elf.named THEN {Held(i, map) : i \in usage} ELSE {}
  /\ UNCHANGED <<choice, placed, usage, elf>>
-----------------------------------------------------------------------------
(* The arena. *)

ArenaSymbols == {y \in elf.symbols : y.name = "arena"}
\* The memory an application may use of a region, none if that is not known.
Usable(region) ==
  LET map == LinkedMap(choice.soc, "default")
  IN IF map # <<>> THEN IF region \in DOMAIN map THEN {map[region][choice.linker]} ELSE {}
     ELSE IF region \in DOMAIN Declared(choice.soc) THEN {Declared(choice.soc)[region]} ELSE {}

VerifyPlacement ==
  /\ building = "verify"
  /\ building' = IF /\ choice.engine # "helia-aot" /\ placed.arena # "psram"
                    /\ \E extent \in Usable(RegionOf[placed.arena]) :
                         \E y \in ArenaSymbols : ~Within(y.at, extent)
                 THEN "misplaced" ELSE "accepted"
  /\ UNCHANGED <<choice, placed, usage, elf, measured, reconciled>>

MemoryNext == PlanMemory \/ LinkImage \/ MeasureImage \/ VerifyPlacement
-----------------------------------------------------------------------------
MemoryTypeOK ==
  /\ building \in {"plan", "unplaced", "overflows", "build", "unlinked", "measure", "too_large", "verify",
                   "misplaced", "accepted"}
  /\ placed.arena \in Placements \cup {"auto"} /\ placed.weights \in Placements \cup {"auto"}
  /\ \A i \in usage : i.region \in Regions /\ i.size \in Nat

Named(name) == {s \in elf.sections : s.name = name}

\* A build that is accepted has its arena, to the last byte, in memory of the planned region the
\* application may use, unless the symbol cannot be read or the region is not known.
ArenaIsPlaced ==
  building = "accepted" /\ elf.named =>
    \A s \in Named("arena") : \A extent \in Usable(RegionOf[placed.arena]) :
      extent.from <= s.at /\ s.at + s.size <= extent.to

\* Every byte of an image is counted once, or reported as in no region.
EveryByteOnce ==
  measured.known =>
    LET over(f) == MapThenSumSet(LAMBDA r : f[r], DOMAIN f)
    IN /\ Total(elf.sections) = over(measured.used) + over(measured.reserved) + Total(measured.stray)
       /\ MapThenSumSet(LAMBDA g : g.file, elf.segments) = over(measured.load) + measured.strayLoad
       /\ \A r \in DOMAIN measured.used :
            measured.used[r] <= AppExtent(choice, r).to - AppExtent(choice, r).from
       /\ building \in {"verify", "accepted"} =>
            measured.load["MRAM"] <= Capacity(choice, "MRAM")

\* What the plan is held against is the object itself: an item the linker put elsewhere is shown there.
HeldIsTheObject ==
  \A h \in reconciled :
    h.status = "matched" =>
      \E s \in Named(h.item.name) :
        h.size = s.size /\ h.region = Classify(s.at, Linked(choice.soc, choice.profile))

\* A plan is refused only for what GNU's linker could not have linked either, but for the boot
\* stack: the plan books an apollo3p's in the SRAM of the application, the script has it below that.
RefusedIsTooBig ==
  building = "overflows" /\ choice.linker = "gnu" /\ choice.profile = "default" =>
    ~Fits(choice, Objects(choice, usage, "none") \cup {i \in usage : i.name = "stack"})

\* PSRAM is used only where it is asked for.
PsramIsAsked ==
  building # "plan" => /\ placed.arena = "psram" => choice.arenaLoc = "psram"
                       /\ placed.weights = "psram" => choice.weightsLoc = "psram"

\* The arena is where the plan has it, the measurement adds up, and the plan is held against the image.
MemoryIsSound == ArenaIsPlaced /\ EveryByteOnce /\ HeldIsTheObject /\ RefusedIsTooBig /\ PsramIsAsked
=============================================================================
