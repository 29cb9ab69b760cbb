----------------------------- MODULE Workspace -----------------------------
(***************************************************************************)
(* hpx invocations over one work directory and one board.  An invocation   *)
(* takes the run lock of the directory, renders its application there,     *)
(* makes the dependency workspace match nsx.lock, builds, deploys and      *)
(* captures the profile image, then rebuilds, deploys and captures the     *)
(* dedicated power image.  Whatever it leaves behind is what the next one  *)
(* starts from: an invocation may fail at any stage, and may be killed     *)
(* between any two steps, when only the operating system cleans up.        *)
(*                                                                         *)
(* The directory holds nsx.lock (a resolution, numbered in the order they  *)
(* are made), the module trees, the stamp that says against which lock the *)
(* trees were last verified, the configured build tree, the sources and    *)
(* the two executables.  An image is named by the invocation whose sources *)
(* it was compiled from and by the module trees it was linked with.        *)
(***************************************************************************)
EXTENDS Naturals, FiniteSets

CONSTANTS
  Runs,         \* processes that run hpx, one invocation after another
  None,         \* no such file, no image; of the module trees, one at least is missing
  Torn,         \* module trees that are all there, with a part of their files missing
  Mishaps,      \* what a behaviour may suffer: a set of subsets of MishapKinds
  MaxLock,      \* bound: resolutions of nsx.lock
  MaxStarts     \* bound: invocations

\* leftovers: removing the directory's one entry fails part way; torn:
\* materializing the module trees stops half-way; returning: a refreshed
\* resolution may be one that was current before.
MishapKinds == {"leftovers", "torn", "returning"}

ASSUME WorkspaceAssumption ==
  /\ Mishaps \subseteq SUBSET MishapKinds
  /\ MaxLock \in Nat /\ MaxStarts \in Nat
  /\ None \notin Nat /\ Torn \notin Nat /\ None # Torn

VARIABLES
  mishaps,      \* what this behaviour may suffer
  pc,           \* the next stage of each invocation
  policy,       \* its config.build: update_dependencies, offline, or neither
  serial,       \* which invocation it is
  starts,       \* how many have been started
  fd,           \* the lock file each invocation has open
  lockFile,     \* the lock file the directory names
  nsxLock,      \* nsx.lock
  newest,       \* the last resolution made
  modules,      \* the module trees
  stamp,        \* hpx-frozen-sync.json
  configured,   \* the resolution the build tree was configured under
  mode,         \* dependency_state.lock.mode of each invocation
  provenance,   \* the lock snapshot each invocation has recorded
  vouched,      \* the invocations that took the stamp's word for the module trees
  source,       \* the invocation that rendered the profile source
  profileBin,   \* hpx_profiler
  powerBin,     \* hpx_profiler_power
  board,        \* the image on the board
  suspect       \* a build has failed and the trees have not been verified since

dirVars == <<nsxLock, newest, modules, stamp, configured, suspect>>
binVars == <<source, profileBin, powerBin, board>>
runVars == <<policy, serial, starts, fd, lockFile>>
words == <<provenance, vouched>>
vars == <<mishaps, pc, runVars, dirVars, mode, words, binVars>>

Policies == {"update", "offline", "neither"}
Image == [role : {"profile", "power"}, src : Nat, mods : Nat \cup {None, Torn}]
Stages == {"idle", "waiting", "clean", "generate", "lock", "sync", "repair", "stamp", "configure",
           "build", "flash", "capture", "render", "link", "flashPower", "capturePower", "report"}
Inside(r) == pc[r] \notin {"idle", "waiting"}

Init ==
  /\ mishaps \in Mishaps
  /\ pc = [r \in Runs |-> "idle"]
  /\ policy = [r \in Runs |-> "neither"]
  /\ serial = [r \in Runs |-> 0] /\ starts = 0
  /\ fd = [r \in Runs |-> None] /\ lockFile = None
  /\ nsxLock = None /\ newest = 0 /\ modules = None /\ stamp = None /\ configured = None
  /\ mode = [r \in Runs |-> None] /\ provenance = [r \in Runs |-> None]
  /\ vouched = {}
  /\ source = None /\ profileBin = None /\ powerBin = None /\ board = None
  /\ suspect = FALSE

Goto(r, from, to) == pc[r] = from /\ pc' = [pc EXCEPT ![r] = to]

\* file_mutex: the lock file is created if the directory has none, opened, and waited for.
Start(r) ==
  /\ starts < MaxStarts /\ Goto(r, "idle", "waiting")
  /\ starts' = starts + 1 /\ serial' = [serial EXCEPT ![r] = starts']
  /\ lockFile' = IF lockFile = None THEN starts' ELSE lockFile
  /\ fd' = [fd EXCEPT ![r] = lockFile']
  /\ UNCHANGED <<mishaps, policy, dirVars, mode, words, binVars>>

\* The operating system locks the open file, not its name.  What the invocation
\* was configured to do is chosen where it is first read: to clean and how to
\* treat the lock here, to measure power after the profile.
Acquire(r) ==
  /\ \A s \in Runs : ~(Inside(s) /\ fd[s] = fd[r])
  /\ \E first \in {"clean", "generate"} : Goto(r, "waiting", first)
  /\ \E p \in Policies : policy' = [policy EXCEPT ![r] = p]
  /\ UNCHANGED <<mishaps, serial, starts, fd, lockFile, dirVars, mode, words, binVars>>

\* Mutant: the lock file is an entry like the others.
Clean_RemovesLockFile(r) ==
  /\ Goto(r, "clean", "generate")
  /\ nsxLock' = None /\ modules' = None /\ stamp' = None /\ configured' = None
  /\ profileBin' = None /\ powerBin' = None /\ lockFile' = None
  /\ UNCHANGED <<mishaps, policy, serial, starts, fd, newest, mode, words, source, board, suspect>>

\* What rmtree may leave of a file that is there, and of the trees: it stops at the first
\* entry it cannot remove, which may be inside a tree.
Left(x) == {None} \cup (IF "leftovers" \in mishaps THEN {x} ELSE {})
TreesLeft == Left(modules) \cup (IF "leftovers" \in mishaps /\ modules # None THEN {Torn} ELSE {})

\* PipelineRunner.run removes every entry but the lock file.  Lock, stamp, module trees and
\* build tree are in one of them (dependency-workspaces), which goes through one rmtree: its
\* error is logged, and the run goes on with whatever is left.
Clean(r) ==
  /\ Goto(r, "clean", "generate")
  /\ nsxLock' \in Left(nsxLock) /\ stamp' \in Left(stamp) /\ modules' \in TreesLeft
  /\ configured' \in Left(configured)
  /\ profileBin' \in Left(profileBin) /\ powerBin' \in Left(powerBin)
  /\ UNCHANGED <<mishaps, runVars, newest, mode, words, source, board, suspect>>

\* PrepareEngine to GenerateFirmware: engine files and application, rendered anew.
Generate(r) ==
  /\ Goto(r, "generate", "lock")
  /\ source' = serial[r]
  /\ UNCHANGED <<mishaps, runVars, dirVars, mode, words, profileBin, powerBin, board>>

\* A stage raised or the process was killed: the lock goes with the process, the
\* directory and the board stay as they are.
Ended(r) ==
  /\ pc' = [pc EXCEPT ![r] = "idle"] /\ fd' = [fd EXCEPT ![r] = None]
  /\ policy' = [policy EXCEPT ![r] = "neither"] /\ serial' = [serial EXCEPT ![r] = 0]
  /\ mode' = [mode EXCEPT ![r] = None] /\ provenance' = [provenance EXCEPT ![r] = None]
  /\ vouched' = vouched \ {r}
  /\ UNCHANGED <<mishaps, starts, lockFile>>

Stop(r) ==
  /\ pc[r] # "idle" /\ Ended(r)
  /\ UNCHANGED <<dirVars, binVars>>

\* What nsx lock may resolve to.
Resolutions ==
  {d \in 1 .. MaxLock : IF "returning" \in mishaps THEN d <= newest + 1
                                                    ELSE d \in {newest, newest + 1}}

\* Mutant: an offline invocation without a lock goes on.
ResolveLock_WithoutLock(r) ==
  LET refreshed == policy[r] = "update" \/ (nsxLock = None /\ policy[r] # "offline") IN
  /\ Goto(r, "lock", "sync")
  /\ IF refreshed THEN \E d \in Resolutions : nsxLock' = d /\ newest' = (IF d > newest THEN d ELSE newest)
                  ELSE UNCHANGED <<nsxLock, newest>>
  /\ mode' = [mode EXCEPT ![r] = IF refreshed THEN "resolved" ELSE "reused"]
  /\ UNCHANGED <<mishaps, runVars, modules, stamp, configured, suspect, words, binVars>>

\* The first half of prepare_locked_dependencies.  An offline invocation that
\* finds no lock, or no module trees, raises: it Stops here.
ResolveLock(r) ==
  LET refreshed == policy[r] = "update" \/ nsxLock = None IN
  /\ Goto(r, "lock", "sync")
  /\ policy[r] = "offline" => ~refreshed /\ modules # None
  /\ IF refreshed THEN \E d \in Resolutions : nsxLock' = d /\ newest' = (IF d > newest THEN d ELSE newest)
                  ELSE UNCHANGED <<nsxLock, newest>>
  /\ mode' = [mode EXCEPT ![r] = CASE policy[r] = "update" -> "updated"
                                   [] ~refreshed -> "reused"
                                   [] OTHER -> "resolved"]
  /\ UNCHANGED <<mishaps, runVars, modules, stamp, configured, suspect, words, binVars>>

\* Mutant: whether the trees are there is not looked at.
StampMatches_NoTrees(r) == mode[r] = "reused" /\ stamp = nsxLock

\* _sync_stamp_matches: that the trees are there is all it looks at.
StampMatches(r) == mode[r] = "reused" /\ stamp = nsxLock /\ modules # None

\* The second half ends by recording the lock it has prepared.
Record(r) == provenance' = [provenance EXCEPT ![r] = nsxLock]

SkipSync(r) ==
  /\ StampMatches(r) /\ Goto(r, "sync", "configure") /\ Record(r)
  /\ vouched' = vouched \cup {r}
  /\ UNCHANGED <<mishaps, runVars, dirVars, mode, binVars>>

\* nsx sync --frozen accepts trees that are what the lock says, and fetches absent ones.
VerifyFrozen(r) ==
  /\ ~StampMatches(r) /\ Goto(r, "sync", "stamp")
  /\ modules \in {nsxLock, None} /\ modules' = nsxLock
  /\ suspect' = FALSE
  /\ UNCHANGED <<mishaps, runVars, nsxLock, newest, stamp, configured, mode, words, binVars>>

\* It failed, for these trees or for a reason of its own; offline this raises.
RejectFrozen(r) ==
  /\ ~StampMatches(r) /\ policy[r] # "offline" /\ Goto(r, "sync", "repair")
  /\ UNCHANGED <<mishaps, runVars, dirVars, mode, words, binVars>>

\* Mutant: after a repair the verification starts over, as often as it fails.
Repair_StartsOver(r) ==
  /\ Goto(r, "repair", "sync")
  /\ modules' = nsxLock /\ suspect' = FALSE
  /\ UNCHANGED <<mishaps, runVars, nsxLock, newest, stamp, configured, mode, words, binVars>>

\* Forced synchronization from the same lock, then frozen verification again.
Repair(r) ==
  /\ Goto(r, "repair", "stamp")
  /\ modules' = nsxLock /\ suspect' = FALSE
  /\ UNCHANGED <<mishaps, runVars, nsxLock, newest, stamp, configured, mode, words, binVars>>

\* The materialization fails, or the process is killed in the middle of it.
SyncCut(r) ==
  /\ pc[r] = "repair" \/ (pc[r] = "sync" /\ ~StampMatches(r) /\ modules = None)
  /\ modules' \in {nsxLock} \cup (IF "torn" \in mishaps THEN {Torn, None} ELSE {})
  /\ Ended(r)
  /\ UNCHANGED <<nsxLock, newest, stamp, configured, suspect, binVars>>

WriteStamp(r) ==
  /\ Goto(r, "stamp", "configure")
  /\ stamp' = nsxLock /\ Record(r)
  /\ UNCHANGED <<mishaps, runVars, nsxLock, newest, modules, configured, suspect, mode, vouched, binVars>>

Configure(r) ==
  /\ Goto(r, "configure", "build")
  /\ configured' = IF configured = None \/ mode[r] # "reused" THEN nsxLock ELSE configured
  /\ UNCHANGED <<mishaps, runVars, nsxLock, newest, modules, stamp, suspect, mode, words, binVars>>

\* Mutant: the stamp outlives a failed build.
BuildFails_KeepsStamp(r) ==
  /\ pc[r] \in {"configure", "build"} /\ Ended(r)
  /\ suspect' = TRUE
  /\ UNCHANGED <<nsxLock, newest, modules, stamp, configured, binVars>>

\* build_app forgets the stamp on a BuildError of configure, of the compiler or of
\* the search for the executable; the executable of an earlier build may still be there.
BuildFails(r) ==
  /\ pc[r] \in {"configure", "build"} /\ Ended(r)
  /\ stamp' = None /\ suspect' = TRUE
  /\ UNCHANGED <<nsxLock, newest, modules, configured, binVars>>

Build(r) ==
  /\ Goto(r, "build", "flash")
  /\ profileBin' = [role |-> "profile", src |-> source, mods |-> modules]
  /\ UNCHANGED <<mishaps, runVars, dirVars, mode, words, source, powerBin, board>>

Flash(r) ==
  /\ Goto(r, "flash", "capture") /\ board' = profileBin
  /\ UNCHANGED <<mishaps, runVars, dirVars, mode, words, source, profileBin, powerBin>>

\* deploy_firmware gave up, before the flash was erased (Stop) or after.
FlashFails(r) ==
  /\ pc[r] \in {"flash", "flashPower"} /\ Ended(r)
  /\ board' = None
  /\ UNCHANGED <<dirVars, source, profileBin, powerBin>>

Capture(r) ==
  /\ \E next \in {"render", "report"} : Goto(r, "capture", next)
  /\ UNCHANGED <<mishaps, runVars, dirVars, mode, words, binVars>>

\* Mutant: the old outputs are left to the build to replace.
RenderPower_KeepsOld(r) ==
  /\ Goto(r, "render", "link")
  /\ UNCHANGED <<mishaps, runVars, dirVars, mode, words, binVars>>

\* BuildPowerFirmwareStage: the old outputs are gone before the target is built.
RenderPower(r) ==
  /\ Goto(r, "render", "link") /\ powerBin' = None
  /\ UNCHANGED <<mishaps, runVars, dirVars, mode, words, source, profileBin, board>>

\* The build returns with an executable or, under another name or not at all,
\* without: the search then finds what is on disk, and raises (Stop) on nothing.
LinkPower(r) ==
  /\ Goto(r, "link", "flashPower")
  /\ powerBin' \in {powerBin, [role |-> "power", src |-> serial[r], mods |-> modules]} \ {None}
  /\ UNCHANGED <<mishaps, runVars, dirVars, mode, words, source, profileBin, board>>

FlashPower(r) ==
  /\ Goto(r, "flashPower", "capturePower") /\ board' = powerBin
  /\ UNCHANGED <<mishaps, runVars, dirVars, mode, words, source, profileBin, powerBin>>

CapturePower(r) ==
  /\ Goto(r, "capturePower", "report")
  /\ UNCHANGED <<mishaps, runVars, dirVars, mode, words, binVars>>

\* GenerateReportStage, and the end of the file_mutex block.
Report(r) == pc[r] = "report" /\ Ended(r) /\ UNCHANGED <<dirVars, binVars>>

Prepare(r) ==
  Clean(r) \/ Generate(r) \/ ResolveLock(r) \/ SkipSync(r) \/ VerifyFrozen(r) \/ RejectFrozen(r)
  \/ Repair(r) \/ SyncCut(r) \/ WriteStamp(r) \/ Configure(r) \/ BuildFails(r) \/ Build(r)
Measure(r) ==
  Flash(r) \/ FlashFails(r) \/ Capture(r) \/ RenderPower(r) \/ LinkPower(r) \/ FlashPower(r)
  \/ CapturePower(r) \/ Report(r)
Run(r) == Acquire(r) \/ Prepare(r) \/ Measure(r) \/ (Inside(r) /\ Stop(r))

Next == \E r \in Runs : Start(r) \/ Run(r) \/ Stop(r)
Spec == Init /\ [][Next]_vars

\* Every stage returns or raises: the tools it calls run under a timeout.
FairSpec == Spec /\ \A r \in Runs : WF_vars(Run(r))
-----------------------------------------------------------------------------
Locked == {"sync", "repair", "stamp", "configure", "build", "flash", "capture", "render", "link",
           "flashPower", "capturePower", "report"}

\* Every variable has its type, and an invocation past the lock step has a lock file
\* no later than the newest resolution (prepare_locked_dependencies).
TypeOK ==
  /\ mishaps \in Mishaps
  /\ pc \in [Runs -> Stages] /\ policy \in [Runs -> Policies]
  /\ serial \in [Runs -> Nat] /\ starts \in Nat
  /\ fd \in [Runs -> Nat \cup {None}] /\ lockFile \in Nat \cup {None}
  /\ newest \in Nat /\ nsxLock \in 1 .. newest \cup {None} /\ stamp \in 1 .. newest \cup {None}
  /\ modules \in 1 .. newest \cup {None, Torn} /\ configured \in 1 .. newest \cup {None}
  /\ mode \in [Runs -> {"updated", "reused", "resolved", None}]
  /\ provenance \in [Runs -> 1 .. newest \cup {None}] /\ vouched \subseteq Runs
  /\ source \in Nat \cup {None}
  /\ {profileBin, powerBin, board} \subseteq Image \cup {None}
  /\ suspect \in BOOLEAN
  /\ \A r \in Runs : pc[r] \in Locked => nsxLock # None

\* The run lock covers the whole invocation (CHANGELOG: serialize shared
\* workspaces across complete runs): from its build to its report, the profile
\* executable in the directory, and the source before that, are the invocation's
\* own, whoever else waits, is killed, or cleans.
ArtifactsAreOwn ==
  \A r \in Runs :
    /\ pc[r] \in Locked \cup {"lock"} => source = serial[r]
    /\ pc[r] \in {"flash", "capture", "render", "link", "flashPower", "capturePower", "report"} =>
         profileBin.src = serial[r]

\* The trees are not what the lock says, and this invocation does not know it: it took the
\* stamp's word for them, and of each of them something is there.
OnTornTrees(r) == r \in vouched /\ modules = Torn

\* What compiles is what the lock names: when prepare_locked_dependencies lets
\* the build start, by verification or on the word of the stamp, the module trees
\* are the resolution in nsx.lock, whichever earlier invocation left them.  Trees of another
\* resolution, or with one of them missing, are never built from; torn ones only on the word
\* of the stamp, which looks no deeper.
BuildsLockedModules ==
  \A r \in Runs : pc[r] \in {"configure", "build", "link"} => modules = nsxLock \/ OnTornTrees(r)

\* A half-deleted workspace re-verifies and repairs rather than building from whatever is
\* left (_sync_stamp_matches says so of itself).
HalfDeletedIsRepaired ==
  \A r \in Runs : pc[r] \in {"configure", "build", "link"} => modules # Torn

\* A build that failed is not retried on the word of the stamp: before the next
\* one compiles, frozen verification has run (build_app, invalidate_sync_stamp).
FailedBuildReverified == \A r \in Runs : pc[r] \in {"configure", "build"} => ~suspect

OwnImages(role, r) ==
  {[role |-> role, src |-> serial[r], mods |-> m] :
     m \in {provenance[r]} \cup (IF r \in vouched THEN {Torn} ELSE {})}

\* A capture measures the image this invocation built, of the role it is for, and
\* from the modules its recorded provenance names, not one left by a failed or
\* killed predecessor.  Only where the stamp's word was taken can it be of torn trees instead.
MeasuresOwnImage ==
  \A r \in Runs :
    /\ pc[r] = "capture" => board \in OwnImages("profile", r)
    /\ pc[r] = "capturePower" => board \in OwnImages("power", r)

\* Whatever fails or is killed, a waiting invocation gets the directory and ends.
EveryRunEnds == \A r \in Runs : pc[r] = "waiting" ~> pc[r] = "idle"

\* What an invocation finds in the directory and measures on the board is its own.
OwnArtifacts == TypeOK /\ ArtifactsAreOwn /\ MeasuresOwnImage

\* What compiles was verified against the lock, again after a failed build.
BuildsVerifiedModules == BuildsLockedModules /\ FailedBuildReverified
-----------------------------------------------------------------------------
(* Why: the invariant the proofs rest on. *)

Built == {"flash", "capture", "render", "link", "flashPower", "capturePower", "report"}
Verified == {"stamp", "configure", "build"} \cup Built

\* No resolution comes back.
Sound == "returning" \notin mishaps

\* The lock file is never replaced, so whoever waits has the same file open, and one is inside.
RunLockIsHeld ==
  /\ \A r \in Runs : pc[r] # "idle" => lockFile # None /\ fd[r] = lockFile
  /\ \A r, s \in Runs : Inside(r) /\ Inside(s) => r = s

\* The stamp of an earlier lock is never taken for one of the current lock: the current lock is
\* the newest resolution, and trees that are there are no older than the stamp.
StampIsOfItsLock ==
  /\ suspect => stamp = None
  /\ Sound => nsxLock \in {None, newest}
  /\ Sound /\ stamp # None /\ modules \notin {None, Torn} => stamp <= modules

\* What the invocation inside has established, stage by stage.
Established(r) ==
  /\ pc[r] \in Locked \cup {"lock"} => source = serial[r]
  /\ pc[r] \in {"stamp", "configure", "build"} => ~suspect
  /\ pc[r] \in Verified \ {"stamp"} => provenance[r] = nsxLock
  /\ Sound /\ pc[r] \in Verified => modules = nsxLock \/ (pc[r] # "stamp" /\ OnTornTrees(r))
  /\ pc[r] \in Built => profileBin = [role |-> "profile", src |-> serial[r], mods |-> modules]
  /\ pc[r] = "capture" => board = profileBin
  /\ pc[r] = "link" => powerBin = None
  /\ pc[r] \in {"flashPower", "capturePower"} =>
       powerBin = [role |-> "power", src |-> serial[r], mods |-> modules]
  /\ pc[r] = "capturePower" => board = powerBin

WorkspaceIInv == TypeOK /\ RunLockIsHeld /\ StampIsOfItsLock /\ \A r \in Runs : Established(r)
=============================================================================
