------------------------------ MODULE RunRecord ------------------------------
(***************************************************************************)
(* Run directories: build_into makes one from a frozen plan, run_from      *)
(* captures from it into a new evidence directory, and load_run reads a    *)
(* saved result back, on any host and at any time.  Nothing is locked but  *)
(* the work tree while it is compiled, so builds and runs of one directory *)
(* may overlap, may be killed, and find files that have been edited or     *)
(* mixed up since.                                                         *)
(*                                                                         *)
(* A file is its content: the hash a document pins it by.  An image says   *)
(* what it was compiled from, an output which capture made it.  Each       *)
(* builder has a plan, and each runner makes one capture; both are named   *)
(* by it.                                                                  *)
(***************************************************************************)
EXTENDS Integers, FiniteSets

CONSTANTS
  Dirs,
  Builders,
  Runners,
  Evidence,   \* the numbers of the evidence directories, from 1
  Accidents,  \* bound: files edited, copied over or deleted
  Nothing,    \* no file
  Junk        \* a content that is nobody's

ASSUME RunRecordAssumption ==
  /\ Evidence = 1..Cardinality(Evidence) /\ Accidents \in Nat
  /\ {Nothing, Junk} \cap (Builders \cup Runners) = {} /\ Nothing # Junk
  /\ Nothing \notin Dirs

VARIABLES
  oneModel,   \* the plans differ in their settings only
  inputs, image, owner, doc,      \* of a directory: pinned inputs, work tree, build.json
  started, output, reference, result,   \* of an evidence directory
  builder, bdir, pinned,          \* a builder: its place, its directory, the image it pinned
  runner, rdir, rev, held,        \* a runner: its place, its directories, the build it loaded
  captured,   \* what the captures really were
  accidents

tree == <<inputs, image, owner, doc>>
evidence == <<started, output, reference, result>>
builds == <<builder, bdir, pinned>>
runs == <<runner, rdir, rev, held, captured>>
recordVars == <<oneModel, tree, evidence, builds, runs, accidents>>

ModelOf(b) == IF oneModel THEN "model" ELSE b
Compiled(b, m) == [settings |-> b, model |-> m]
At(f, d, e) == f[d][e]
Sets(f, d, e, to) == [f EXCEPT ![d][e] = to]

RecordInit ==
  /\ oneModel \in BOOLEAN
  /\ inputs = [d \in Dirs |-> Nothing] /\ image = inputs /\ owner = inputs /\ doc = inputs
  /\ started = [d \in Dirs |-> [e \in Evidence |-> Nothing]]
  /\ output = started /\ reference = started /\ result = started
  /\ builder = [b \in Builders |-> "look"] /\ bdir = [b \in Builders |-> Nothing]
  /\ pinned = bdir
  /\ runner = [r \in Runners |-> "pick"] /\ rdir = [r \in Runners |-> Nothing]
  /\ rev = [r \in Runners |-> 0] /\ held = rdir
  /\ captured = {} /\ accidents = 0
-----------------------------------------------------------------------------
\* build_into, by b.
Builds(b, from, to) == builder[b] = from /\ builder' = [builder EXCEPT ![b] = to]

Empty(d) == inputs[d] = Nothing /\ doc[d] = Nothing

\* The directory must be new or empty; nothing is put there yet.
FindEmpty(b) ==
  \E d \in Dirs : /\ Empty(d) /\ Builds(b, "look", "pin")
                  /\ bdir' = [bdir EXCEPT ![b] = d]
                  /\ UNCHANGED <<tree, evidence, pinned>>

\* pin_fixture copies the model and the inputs; their hashes are those of what it copied.
PinInputs(b) ==
  /\ Builds(b, "pin", "bind")
  /\ inputs' = [inputs EXCEPT ![bdir[b]] = ModelOf(b)]
  /\ UNCHANGED <<image, owner, doc, evidence, bdir, pinned>>

\* Mutant: the tree of another build is taken over.
Bind_Any(b) ==
  LET d == bdir[b] IN
    /\ builder[b] = "bind" /\ \A c \in Builders : builder[c] = "compile" => bdir[c] # d
    /\ inputs[d] = ModelOf(b) /\ Builds(b, "bind", "compile")
    /\ owner' = [owner EXCEPT ![d] = b]
    /\ UNCHANGED <<inputs, image, doc, evidence, bdir, pinned>>

\* IdentityStage, under the lock of the work tree: a tree bound to other settings or another
\* fixture is refused, and the fixture's files must still be what was pinned.
Bind(b) ==
  LET d == bdir[b] IN
    /\ builder[b] = "bind" /\ \A c \in Builders : builder[c] = "compile" => bdir[c] # d
    /\ owner[d] \in {Nothing, b} /\ inputs[d] = ModelOf(b)
    /\ Builds(b, "bind", "compile")
    /\ owner' = [owner EXCEPT ![d] = b]
    /\ UNCHANGED <<inputs, image, doc, evidence, bdir, pinned>>

\* The stages of the build; the model is read again from its file.
Compile(b) ==
  LET d == bdir[b] IN
    /\ Builds(b, "compile", "hash")
    /\ image' = [image EXCEPT ![d] = Compiled(b, inputs[d])]
    /\ UNCHANGED <<inputs, owner, doc, evidence, bdir, pinned>>

\* After the lock is released the files of the build are pinned as they are then.
PinImage(b) ==
  /\ Builds(b, "hash", "save") /\ image[bdir[b]] # Nothing
  /\ pinned' = [pinned EXCEPT ![b] = image[bdir[b]]]
  /\ UNCHANGED <<tree, evidence, bdir>>

\* A compiled build: the plan, the hash that binds it to its plan, the settings and the files
\* it records, and the hash over these.
Document(b, im) == [plan |-> b, binding |-> b, settings |-> b, image |-> im, model |-> ModelOf(b),
                    sum |-> <<b, im, ModelOf(b)>>]

\* CompiledBuild.verify: every file is what was pinned, and the plan, its binding, the
\* recorded facts and the hash over them agree.
Verifies(c, d) ==
  /\ c.image = image[d] /\ c.model = inputs[d]
  /\ c.binding = c.plan /\ c.settings = c.plan /\ c.model = ModelOf(c.plan)
  /\ c.sum = <<c.settings, c.image, c.model>>

\* Verified, and written in one piece.
SaveBuild(b) ==
  LET c == Document(b, pinned[b]) IN
    /\ Builds(b, "save", "done") /\ Verifies(c, bdir[b])
    /\ doc' = [doc EXCEPT ![bdir[b]] = c]
    /\ pinned' = [pinned EXCEPT ![b] = Nothing]
    /\ UNCHANGED <<inputs, image, owner, evidence, bdir>>

\* Whatever raises, or a kill.
BuildStops(b) ==
  /\ builder[b] \in {"pin", "bind", "compile", "hash", "save"}
  /\ builder' = [builder EXCEPT ![b] = "failed"] /\ pinned' = [pinned EXCEPT ![b] = Nothing]
  /\ UNCHANGED <<tree, evidence, bdir>>

BuildInto(b) == FindEmpty(b) \/ PinInputs(b) \/ Bind(b) \/ Compile(b) \/ PinImage(b) \/ SaveBuild(b) \/ BuildStops(b)
-----------------------------------------------------------------------------
\* run_from, by r.
Run(r, from, to) == runner[r] = from /\ runner' = [runner EXCEPT ![r] = to]

\* fresh_evidence_dir: the first that does not exist.
Pick(r) ==
  \E d \in Dirs, e \in Evidence :
    /\ started[d][e] = Nothing /\ \A f \in 1..(e - 1) : started[d][f] # Nothing
    /\ Run(r, "pick", "load")
    /\ rdir' = [rdir EXCEPT ![r] = d] /\ rev' = [rev EXCEPT ![r] = e]
    /\ UNCHANGED <<evidence, held, captured>>

\* load_from, and the guard sees the target.
LoadBuild(r) ==
  LET d == rdir[r] IN
    /\ Run(r, "load", "claim") /\ doc[d] # Nothing /\ Verifies(doc[d], d)
    /\ held' = [held EXCEPT ![r] = doc[d]]
    /\ UNCHANGED <<evidence, rdir, rev, captured>>

\* Mutant: an evidence directory that is there is used again.
Claim_Shared(r) ==
  /\ Run(r, "claim", "capture") /\ Verifies(held[r], rdir[r])
  /\ started' = Sets(started, rdir[r], rev[r], r)
  /\ UNCHANGED <<output, reference, result, rdir, rev, held, captured>>

\* The build is verified again; the directory must be new, and making it is what decides
\* between two runs.
Claim(r) ==
  /\ Run(r, "claim", "capture") /\ Verifies(held[r], rdir[r])
  /\ At(started, rdir[r], rev[r]) = Nothing
  /\ started' = Sets(started, rdir[r], rev[r], r)
  /\ UNCHANGED <<output, reference, result, rdir, rev, held, captured>>

\* capture_fixture flashes the pinned image; a failed capture is data like any other.
Capture(r) ==
  LET d == rdir[r] IN
    /\ Run(r, "capture", "compare") /\ image[d] = held[r].image
    /\ \E ok \in BOOLEAN :
         /\ captured' = captured \cup {[by |-> r, ok |-> ok, image |-> image[d]]}
         /\ output' = IF ok THEN Sets(output, d, rev[r], r) ELSE output
    /\ UNCHANGED <<started, reference, result, rdir, rev, held>>

CaptureOf(r) == CHOOSE c \in captured : c.by = r

\* save_run: the build on disk is loaded and must be the one the run was made from; reference
\* outputs, when outputs were compared, are written beside the result ...
SaveReference(r) ==
  LET d == rdir[r] IN
    /\ Run(r, "compare", "save")
    /\ doc[d] # Nothing /\ Verifies(doc[d], d) /\ doc[d] = held[r]
    /\ \/ UNCHANGED reference
       \/ CaptureOf(r).ok /\ reference' = Sets(reference, d, rev[r], r)
    /\ UNCHANGED <<started, output, result, rdir, rev, held, captured>>

\* ... and then the result itself, in one piece.  It says where it is, pins build.json, the
\* outputs and the references, and states the run's identity and the comparison.
Facts(r, d, e) == [by |-> r, ok |-> CaptureOf(r).ok, in |-> e, out |-> At(output, d, e)]
Recorded(r, d, e) ==
  LET f == Facts(r, d, e) IN
    [at |-> e, build |-> doc[d], capture |-> f, identity |-> <<held[r].image, held[r].plan, f.by, f.ok, f.out>>,
     compared |-> IF At(reference, d, e) = Nothing THEN Nothing
                  ELSE [in |-> e, with |-> At(reference, d, e), says |-> <<f.out, At(reference, d, e)>>]]

\* What the process knew is gone with it.
Ends(r) == /\ rdir' = [rdir EXCEPT ![r] = Nothing] /\ rev' = [rev EXCEPT ![r] = 0]
           /\ held' = [held EXCEPT ![r] = Nothing]

SaveResult(r) ==
  /\ Run(r, "save", "done")
  /\ CaptureOf(r).ok => At(output, rdir[r], rev[r]) = r
  /\ result' = Sets(result, rdir[r], rev[r], Recorded(r, rdir[r], rev[r]))
  /\ Ends(r) /\ UNCHANGED <<started, output, reference, captured>>

\* A refusal, a lost probe, or a kill; what the capture left stays.
RunStops(r) == /\ runner[r] \notin {"done", "stopped"} /\ runner' = [runner EXCEPT ![r] = "stopped"]
               /\ Ends(r) /\ UNCHANGED <<evidence, captured>>

RunFrom(r) == Pick(r) \/ LoadBuild(r) \/ Claim(r) \/ Capture(r) \/ SaveReference(r) \/ SaveResult(r) \/ RunStops(r)
-----------------------------------------------------------------------------
\* What happens to files that are kept: one is edited, or one takes the place of another.  What
\* is written while a build runs there is pinned as if it were the build's, and left out.
Kept(d) == \A b \in Builders : bdir[b] = d => builder[b] \in {"done", "failed"}
Damages(f, d, to) == f[d] # Nothing /\ Kept(d) /\ f' = [f EXCEPT ![d] = to]
DamagesIn(f, d, e, to) == At(f, d, e) # Nothing /\ f' = Sets(f, d, e, to)

EditTree ==
  \E d \in Dirs :
    \/ Damages(inputs, d, Junk) /\ UNCHANGED <<image, owner, doc>>
    \/ (\E from \in Dirs : Damages(image, d, IF from = d THEN Junk ELSE image[from])) /\ UNCHANGED <<inputs, owner, doc>>
    \/ (\E from \in Dirs \ {d} : Damages(doc, d, doc[from])) /\ UNCHANGED <<inputs, image, owner>>
    \/ /\ doc[d] # Nothing /\ UNCHANGED <<inputs, image, owner>>
       /\ \E b \in Builders, k \in {"plan", "binding", "settings", "model"} : doc' = [doc EXCEPT ![d][k] = b]
    \/ /\ doc[d] # Nothing /\ UNCHANGED <<inputs, image, owner>>
       /\ \E from \in Dirs : doc' = [doc EXCEPT ![d].image = image[from]]

EditEvidence ==
  \E d, from \in Dirs, e, other \in Evidence :
    \/ /\ At(result, from, other) # Nothing     \* the whole directory of another capture
       /\ started' = Sets(started, d, e, At(started, from, other))
       /\ output' = Sets(output, d, e, At(output, from, other))
       /\ reference' = Sets(reference, d, e, At(reference, from, other))
       /\ result' = Sets(result, d, e, At(result, from, other))
    \/ DamagesIn(output, d, e, At(output, from, other)) /\ UNCHANGED <<started, reference, result>>
    \/ DamagesIn(reference, d, e, Junk) /\ UNCHANGED <<started, output, result>>
    \/ /\ At(result, from, other) # Nothing /\ At(started, d, e) # Nothing
       /\ result' = Sets(result, d, e, At(result, from, other)) /\ UNCHANGED <<started, output, reference>>
    \/ /\ At(result, d, e) # Nothing /\ UNCHANGED <<started, output, reference>>
       /\ \/ result' = [result EXCEPT ![d][e].at = other]
          \/ result' = [result EXCEPT ![d][e].build = doc[from]]
          \/ result' = [result EXCEPT ![d][e].capture.ok = ~@]
          \/ result' = [result EXCEPT ![d][e].compared = Nothing]
          \/ /\ At(result, from, other) # Nothing
             /\ \E k \in {"capture", "identity", "compared"} :
                  result' = [result EXCEPT ![d][e][k] = At(result, from, other)[k]]

Accident ==
  /\ accidents < Accidents /\ accidents' = accidents + 1
  /\ \/ EditTree /\ UNCHANGED evidence
     \/ EditEvidence /\ UNCHANGED tree

\* The operator removes a directory, perhaps to build there again.
Wipe ==
  /\ accidents < Accidents /\ accidents' = accidents + 1
  /\ \E d \in Dirs : LET none == [e \in Evidence |-> Nothing] IN
       /\ inputs[d] # Nothing /\ Kept(d)
       /\ inputs' = [inputs EXCEPT ![d] = Nothing] /\ image' = [image EXCEPT ![d] = Nothing]
       /\ owner' = [owner EXCEPT ![d] = Nothing] /\ doc' = [doc EXCEPT ![d] = Nothing]
       /\ started' = [started EXCEPT ![d] = none] /\ output' = [output EXCEPT ![d] = none]
       /\ reference' = [reference EXCEPT ![d] = none] /\ result' = [result EXCEPT ![d] = none]

RecordNext ==
  /\ UNCHANGED oneModel
  /\ \/ (\E b \in Builders : BuildInto(b)) /\ UNCHANGED <<runs, accidents>>
     \/ (\E r \in Runners : RunFrom(r)) /\ UNCHANGED <<tree, builds, accidents>>
     \/ (Accident \/ Wipe) /\ UNCHANGED <<builds, runs>>
-----------------------------------------------------------------------------
\* load_run: the result is where it says, every file it names is what it pinned, the build
\* loads, and the identity and the comparison follow from them.
Pinned(f, d) == f.ok => At(output, d, f.in) = f.out
Compares(r, d) ==
  r.compared # Nothing =>
    /\ r.capture.ok /\ At(reference, d, r.compared.in) = r.compared.with
    /\ r.compared.says = <<r.capture.out, r.compared.with>>

\* Mutant: the build it was captured from is not looked up.
Loads_AnyBuild(d, e) ==
  LET r == At(result, d, e) IN
    /\ r # Nothing /\ r.at = e
    /\ Pinned(r.capture, d) /\ Compares(r, d)

Loads(d, e) ==
  LET r == At(result, d, e) IN
    /\ r # Nothing /\ r.at = e
    /\ doc[d] # Nothing /\ doc[d] = r.build /\ Verifies(doc[d], d)
    /\ Pinned(r.capture, d)
    /\ r.identity = <<doc[d].image, doc[d].plan, r.capture.by, r.capture.ok, r.capture.out>>
    /\ Compares(r, d)

RecordTypeOK ==
  /\ \A b \in Builders : bdir[b] = Nothing <=> builder[b] = "look"
  /\ Cardinality(captured) <= Cardinality(Runners)
  /\ \A d \in Dirs, e \in Evidence : At(started, d, e) \in Runners \cup {Nothing}

\* A result that loads tells the truth: its outputs and its outcome are those of one capture,
\* made from the image that is there, which was compiled from the plan and the model it
\* names; overlapping builds and runs, kills and mixed-up files notwithstanding.
LoadedIsTrue ==
  \A d \in Dirs, e \in Evidence : Loads(d, e) =>
    LET r == At(result, d, e) IN
      /\ image[d] = Compiled(doc[d].plan, ModelOf(doc[d].plan))
      /\ \E c \in captured :
           /\ c.by = r.capture.by /\ c.ok = r.capture.ok /\ c.image = image[d]
           /\ c.ok => At(output, d, r.capture.in) = c.by

\* What was saved can be loaded, as long as nobody touches the directory and one build alone
\* was made there.
BuiltOnce(d) == \A b1, b2 \in Builders : bdir[b1] = d /\ bdir[b2] = d => b1 = b2
SavedLoads ==
  \A d \in Dirs : accidents = 0 /\ BuiltOnce(d)
    => \A e \in Evidence : At(result, d, e) # Nothing => Loads(d, e)

\* What loads is true, and what was saved and left alone loads.
RecordHolds == LoadedIsTrue /\ SavedLoads
-----------------------------------------------------------------------------
(* Why: the invariant the proof rests on. *)

PerEvidence(f) == DOMAIN f = Dirs /\ \A d \in Dirs : DOMAIN f[d] = Evidence
TreeTypes == /\ DOMAIN inputs = Dirs /\ DOMAIN image = Dirs /\ DOMAIN owner = Dirs
             /\ DOMAIN doc = Dirs /\ accidents \in Nat
EvidenceTypes ==
  PerEvidence(started) /\ PerEvidence(output) /\ PerEvidence(reference) /\ PerEvidence(result)
BuilderTypes ==
  /\ builder \in [Builders -> {"look", "pin", "bind", "compile", "hash", "save", "done", "failed"}]
  /\ DOMAIN bdir = Builders /\ DOMAIN pinned = Builders
  /\ \A b \in Builders : IF builder[b] = "look" THEN bdir[b] = Nothing ELSE bdir[b] \in Dirs
RunnerTypes ==
  /\ runner \in [Runners -> {"pick", "load", "claim", "capture", "compare", "save", "done", "stopped"}]
  /\ DOMAIN rdir = Runners /\ DOMAIN rev = Runners /\ DOMAIN held = Runners
  /\ \A r \in Runners : runner[r] \in {"load", "claim", "capture", "compare", "save"} =>
       rdir[r] \in Dirs /\ rev[r] \in Evidence
RecordTypes == TreeTypes /\ EvidenceTypes /\ BuilderTypes /\ RunnerTypes

\* One plan at a time owns a tree, and what is compiled there is its image, as long as nobody
\* pins another model underneath; that model is never pinned again.
Pinnable == {ModelOf(b) : b \in Builders}
BuildIsOwn ==
  \A b \in Builders :
    /\ builder[b] \in {"bind", "compile", "hash", "save"} => inputs[bdir[b]] \in Pinnable
    /\ builder[b] \in {"compile", "hash", "save"} => owner[bdir[b]] = b
    /\ builder[b] = "hash" /\ inputs[bdir[b]] = ModelOf(b) => image[bdir[b]] = Compiled(b, ModelOf(b))
    /\ builder[b] = "save" /\ inputs[bdir[b]] = ModelOf(b) => pinned[b] = Compiled(b, ModelOf(b))

\* The hash over a document was computed over what some build really compiled.
Sums == {<<b, Compiled(b, ModelOf(b)), ModelOf(b)>> : b \in Builders}
SumsAreTrue == \A d \in Dirs : doc[d] # Nothing => "sum" \in DOMAIN doc[d] /\ doc[d].sum \in Sums

\* A run captures once, and from the image it loaded.
CapturesAreOwn ==
  /\ \A r \in Runners : runner[r] \in {"pick", "load", "claim", "capture"} => \A c \in captured : c.by # r
  /\ \A r \in Runners : runner[r] \in {"compare", "save"} =>
       /\ \E c \in captured : c.by = r
       /\ \A c \in captured : c.by = r => c.image = held[r].image
  /\ \A c, o \in captured : c.by = o.by => c = o

\* The identity a result states is that of a capture that was made.
TrueIdentity(i) ==
  \E c \in captured : i[1] = c.image /\ i[3] = c.by /\ i[4] = c.ok /\ (c.ok => i[5] = c.by)
IdentitiesAreTrue ==
  \A d \in Dirs, e \in Evidence : At(result, d, e) # Nothing =>
    "identity" \in DOMAIN At(result, d, e) /\ TrueIdentity(At(result, d, e).identity)

\* While no file is touched, a directory one build was made in keeps what was verified there,
LeftAlone ==
  accidents = 0 => \A d \in Dirs : BuiltOnce(d) /\ doc[d] # Nothing =>
    Verifies(doc[d], d) /\ \E b \in Builders : bdir[b] = d /\ builder[b] = "done"

\* and the evidence directory a run has claimed is filled by that run alone, in this order.
Holder(r) == runner[r] \in {"capture", "compare", "save"}
Unwritten(f, r) == At(f, rdir[r], rev[r]) = Nothing
ClaimedFirst ==
  \A d \in Dirs, e \in Evidence : At(started, d, e) = Nothing =>
    At(output, d, e) = Nothing /\ At(reference, d, e) = Nothing /\ At(result, d, e) = Nothing
FilledByItsRun(r) ==
  /\ At(started, rdir[r], rev[r]) = r /\ Unwritten(result, r)
  /\ runner[r] = "capture" => Unwritten(output, r)
  /\ runner[r] # "save" => Unwritten(reference, r)
  /\ runner[r] = "save" /\ ~Unwritten(reference, r) => \A c \in captured : c.by = r => c.ok
BuildIsTheSame(r) ==
  runner[r] = "save" /\ BuiltOnce(rdir[r]) => doc[rdir[r]] = held[r] /\ held[r] # Nothing
SaysWhereItIs ==
  \A d \in Dirs, e \in Evidence : At(result, d, e) # Nothing =>
    /\ At(result, d, e).capture.in = e
    /\ At(result, d, e).compared # Nothing => At(result, d, e).compared.in = e
EvidenceIsOwn ==
  accidents = 0 =>
    /\ ClaimedFirst /\ SaysWhereItIs
    /\ \A r \in Runners : Holder(r) => FilledByItsRun(r) /\ BuildIsTheSame(r)

RecordIInv == RecordTypes /\ BuildIsOwn /\ SumsAreTrue /\ CapturesAreOwn /\ IdentitiesAreTrue
              /\ LeftAlone /\ EvidenceIsOwn /\ SavedLoads

RecordSpec == RecordInit /\ [][RecordNext]_recordVars
=============================================================================
