--------------------------- MODULE ValidationMatrix ---------------------------
(***************************************************************************)
(* Which cases hpx validate runs: the flags of a request are resolved into *)
(* a plan (aliases, suite presets, defaults), which is listed, or handed   *)
(* to pytest as options out of which the harness builds the matrix again.  *)
(* A flag is a sequence of tokens, empty when it is not given; a board and *)
(* a model are what the rules ask of them.                                 *)
(***************************************************************************)
EXTENDS Integers, Sequences, FiniteSets, SequencesExt

CONSTANTS
  Boards,   \* [board -> [m55, apollo3, declared, toolchains, transports, memories, dtcm]]
  Models,   \* [model -> [pte, skips, fp16, perChannel, arena, workspace, weights]]
  Requests  \* what is asked for: [flags, custom, suite, power, powerBoards, repeat]

VARIABLE request

Engines == <<"helia-rt", "helia-aot", "litert", "executorch">>
Axes == {"models", "engines", "backends", "boards", "toolchains", "transports", "memories"}

\* A board supports nothing twice, and a flag is a list of names.
ASSUME MatrixAssumption ==
  /\ IsFiniteSet(DOMAIN Boards) /\ IsFiniteSet(DOMAIN Models)
  /\ \A b \in DOMAIN Boards : \A list \in {Boards[b].toolchains, Boards[b].transports, Boards[b].memories} :
       list \in Seq(STRING) /\ IsInjective(list)
  /\ Requests \subseteq [flags : [Axes -> Seq(STRING)], custom : Seq(STRING), suite : STRING,
                         power : {"off", "on", "both"}, powerBoards : Seq(STRING), repeat : Nat]
-----------------------------------------------------------------------------
(* The plan. *)

Alias == [rt |-> "helia-rt", aot |-> "helia-aot", et |-> "executorch",
          gcc |-> "arm-none-eabi-gcc", acfe |-> "armclang", usb |-> "usb_cdc"]
Normalised(tokens) ==
  [i \in DOMAIN tokens |-> IF tokens[i] \in DOMAIN Alias THEN Alias[tokens[i]] ELSE tokens[i]]

\* A suite fills the axes the request leaves open.
Preset(suite, axis) ==
  CASE suite = "smoke" /\ axis = "models" -> <<"kws">>
    [] suite = "smoke" /\ axis = "engines" -> <<"helia-rt">>
    [] suite = "smoke" /\ axis = "toolchains" -> <<"arm-none-eabi-gcc">>
    [] suite = "complete" /\ axis = "models" -> <<"kws", "ad">>
    [] suite = "complete" /\ axis = "engines" -> Engines
    [] suite = "complete" /\ axis = "boards" -> <<"apollo510_evb", "apollo330mP_evb">>
    [] suite = "complete" /\ axis = "toolchains" -> <<"arm-none-eabi-gcc", "atfe">>
    [] suite # "none" /\ axis = "transports" -> <<"rtt">>
    [] suite # "none" /\ axis = "memories" -> <<"auto">>
    [] OTHER -> <<>>

Or(given, default) == IF given = <<>> THEN default ELSE given

\* Custom models run alone unless the request names models; the first board is the default.
Resolved(asked) ==
  LET flags == [asked.flags EXCEPT !["models"] = Or(@, asked.custom)]
      filled == [a \in Axes |-> Or(flags[a], Preset(asked.suite, a))]
  IN [asked EXCEPT !.flags =
        [a \in Axes |-> IF a = "models" THEN filled[a]
                        ELSE IF a = "boards" THEN Or(filled[a], <<"apollo510_evb">>)
                        ELSE Normalised(filled[a])]]
-----------------------------------------------------------------------------
(* The matrix. *)

\* Those of a list that are in a set, each at its place.
Those(list, set) == [i \in {j \in DOMAIN list : list[j] \in set} |-> list[i]]
InThem(requested, supported) ==
  IF requested = <<>> THEN supported ELSE Those(requested, ToSet(supported))

Toolchains(plan, board) ==
  IF plan.flags["toolchains"] = <<>> THEN Those(Boards[board].toolchains, Boards[board].declared)
  ELSE InThem(plan.flags["toolchains"], Boards[board].toolchains)

PowerFlags(plan, board) ==
  IF plan.power = "off" \/ (plan.powerBoards # <<>> /\ board \notin ToSet(plan.powerBoards))
  THEN <<FALSE>> ELSE IF plan.power = "both" THEN <<FALSE, TRUE>> ELSE <<TRUE>>

\* The axes of one engine on one board; ExecuTorch takes fewer of them.
AxesOf(plan, board, engine) ==
  LET et == engine = "executorch"
      tools == Toolchains(plan, board)
      mems == InThem(plan.flags["memories"], Boards[board].memories)
  IN [provider |-> IF et THEN Or(plan.flags["backends"], <<"arm", "ns">>)
                   ELSE IF engine = "litert" THEN <<"arm">> ELSE <<"ns">>,
      toolchain |-> IF et /\ plan.flags["toolchains"] = <<>>
                    THEN Those(tools, ToSet(tools) \ {"armclang"}) ELSE tools,
      transport |-> InThem(plan.flags["transports"], Boards[board].transports),
      memory |-> IF et THEN Those(mems, ToSet(mems) \ {"psram"}) ELSE mems,
      power |-> IF et THEN <<FALSE>> ELSE PowerFlags(plan, board),
      attempt |-> [i \in 1..plan.repeat |-> i]]

Axis == {"provider", "toolchain", "transport", "memory", "power", "attempt"}

\* A name nobody knows, or a board that supports nothing of what an axis asks for.
Rejects(plan) ==
  LET boards == ToSet(plan.flags["boards"])
      none(axis, board, supported) ==
        plan.flags[axis] # <<>> /\ ToSet(plan.flags[axis]) \cap ToSet(supported) = {}
  IN \/ ~(boards \cup ToSet(plan.powerBoards) \subseteq DOMAIN Boards)
     \/ ~(ToSet(plan.flags["models"]) \subseteq DOMAIN Models)
     \/ ~(ToSet(plan.flags["engines"]) \subseteq ToSet(Engines))
     \/ \E b \in boards \cap DOMAIN Boards :
           \/ none("toolchains", b, Boards[b].toolchains)
           \/ none("transports", b, Boards[b].transports)
           \/ none("memories", b, Boards[b].memories)

\* A case by its place on every axis, so that a value named twice gives two cases.
CasesAt(plan, boards, models, engines, t) ==
  LET x == AxesOf(plan, boards[t[1]], engines[t[3]])
      places == [provider : DOMAIN x.provider, toolchain : DOMAIN x.toolchain,
                 transport : DOMAIN x.transport, memory : DOMAIN x.memory,
                 power : DOMAIN x.power, attempt : DOMAIN x.attempt]
  IN {[place |-> <<t, p>>, board |-> boards[t[1]], model |-> models[t[2]],
       engine |-> engines[t[3]], value |-> [a \in Axis |-> x[a][p[a]]]] : p \in places}
Build(plan) ==
  LET boards == Or(plan.flags["boards"], SetToSeq(DOMAIN Boards))
      models == Or(plan.flags["models"], SetToSeq(DOMAIN Models))
      engines == Or(plan.flags["engines"], Engines)
      takes(b, m, e) == engines[e] = "executorch" => Boards[boards[b]].m55 /\ Models[models[m]].pte
  IN IF Rejects(plan) THEN {} ELSE
     UNION {CasesAt(plan, boards, models, engines, t) :
              t \in {s \in (DOMAIN boards) \X (DOMAIN models) \X (DOMAIN engines) : takes(s[1], s[2], s[3])}}

\* Mutant: the attempt is left out of the name.
X_CaseId_Once(c, plan) == <<c.board, c.model, c.engine, [c.value EXCEPT !["attempt"] = 1]>>
\* A directory per case: the attempt is part of its name when there are several.
CaseId(c, plan) == <<c.board, c.model, c.engine,
                     IF plan.repeat > 1 THEN c.value ELSE [c.value EXCEPT !["attempt"] = 1]>>
\* What a comparison matches by.
IdentityOf(c) == <<c.model, c.engine, c.board, c.value>>

RefusedToolchain(c) == c.value["toolchain"] \notin Boards[c.board].declared
\* What case_validity refuses.
RefusedCase(c) ==
  LET board == Boards[c.board]  model == Models[c.model]  v == c.value
      et == c.engine = "executorch"
      needs == (IF et THEN model.workspace ELSE model.arena) + model.weights
  IN \/ c.engine \in model.skips
     \/ RefusedToolchain(c)
     \/ et /\ (~model.pte \/ ~board.m55 \/ v["toolchain"] = "armclang")
     \/ v["memory"] = "psram" /\ v["transport"] # "rtt"
     \/ v["transport"] = "usb_cdc" /\ "usb_cdc" \notin ToSet(board.transports)
     \/ c.engine = "litert" /\ (model.fp16 \/ model.perChannel)
     \/ c.engine \in {"helia-rt", "helia-aot"} /\ model.fp16 /\ ~board.m55
     \/ v["memory"] = "tcm" /\ model.weights > 0 /\ needs > board.dtcm
     \/ v["power"] /\ v["memory"] = "psram" /\ board.apollo3
-----------------------------------------------------------------------------
(* The harness: the options it is given, and the matrix it collects from them. *)

\* A flag that is empty is not passed on.
\* Mutant: neither are the memories, which a suite presets.
X_Options_Suite(plan) ==
  [a \in {x \in Axes \ {"memories"} : plan.flags[x] # <<>>} |-> plan.flags[a]]
Options(plan) == [a \in {x \in Axes : plan.flags[x] # <<>>} |-> plan.flags[a]]

\* The harness has its own defaults.
Collected(plan) ==
  LET given == Options(plan)
      default(a) == IF a = "boards" THEN <<"apollo510_evb">> ELSE <<>>
  IN Build([plan EXCEPT !.flags = [a \in Axes |-> IF a \in DOMAIN given THEN given[a] ELSE default(a)]])
-----------------------------------------------------------------------------
NothingTwice(plan) ==
  \A a \in Axes : Cardinality(ToSet(plan.flags[a])) = Len(plan.flags[a])

\* Cases that differ never share a directory, and a directory has one identity; the cases listed
\* are the cases run; no case of the default toolchain axis is refused for its toolchain; power is
\* captured only where it was asked for and never with ExecuTorch.
MatrixIsSound(asked) ==
  LET plan == Resolved(asked)
      cases == Build(plan)
      many(f(_)) == Cardinality({f(c) : c \in cases}) = Cardinality(cases)
  IN /\ NothingTwice(plan) => many(LAMBDA c : CaseId(c, plan)) /\ many(IdentityOf)
     /\ Collected(plan) = cases
     /\ asked.flags["toolchains"] = <<>> /\ asked.suite = "none" =>
          \A c \in cases : ~RefusedToolchain(c) /\ ~(c.engine = "executorch" /\ c.value["toolchain"] = "armclang")
     /\ \A c \in cases : c.value["power"] =>
          /\ c.engine # "executorch" /\ asked.power # "off"
          /\ asked.powerBoards # <<>> => c.board \in ToSet(asked.powerBoards)

\* Whatever is asked for (hpx validate, the harness it starts, and the comparison of what it left).
MatrixOfRequestIsSound == request \in Requests => MatrixIsSound(request)
=============================================================================
