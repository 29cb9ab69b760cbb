--------------------------- MODULE HostFiles_proofs ---------------------------
(***************************************************************************)
(* Proofs about the files host processes share without a lock: the         *)
(* prepared runtime a build links, the bundle a report publishes, the      *)
(* directories of a validation sweep, the run directories a fixture is     *)
(* built in and captured from, and the plan of a run that another host     *)
(* replays.  For any number of processes, reports, sweeps, cases,          *)
(* accidents and changes of the world: who reads gets what one writer      *)
(* wrote.  Last the comparison of two published runs: for any two runs and *)
(* any profile, a row is of what both measured alike.  And the matrix of a *)
(* sweep: for any request, each case once.                                 *)
(***************************************************************************)
EXTENDS RuntimeCache, ResultBundle, ValidationSweep, RunRecord, RunPlan, Comparison, ValidationMatrix,
        FiniteSetTheorems, SequenceTheorems, TLAPS

-----------------------------------------------------------------------------
(* The prepared runtime: what a build links is one install. *)

\* A step as the prepares see it: one of theirs, or a damaged file, or the build's.
CacheStep == (\E p \in Preparers : Prepare(p)) \/ Rot \/ UNCHANGED cache

LEMMA CacheOrBuild ==
  ASSUME [CacheNext]_cacheVars
  PROVE  /\ CacheStep
         /\ UNCHANGED buildReader \/ (BuildReads /\ UNCHANGED cache)
BY DEF CacheNext, cacheVars, CacheStep

\* An install and a rollback copy carry the name of a prepare, or of what was there.
LEMMA PrepTypesStep ==
  ASSUME PrepTypes, CacheStep
  PROVE  PrepTypes'
<1> USE DEF PrepTypes, Moves, PrepPCs, Stopped, Installs
<1>1. ASSUME NEW p \in Preparers, Clean(p) PROVE PrepTypes'
  BY <1>1 DEF Clean
<1>2. ASSUME NEW p \in Preparers, Stage(p) PROVE PrepTypes'
  BY <1>2 DEF Stage
<1>3. ASSUME NEW p \in Preparers, StageFails(p) PROVE PrepTypes'
  BY <1>3 DEF StageFails
<1>4. ASSUME NEW p \in Preparers, Finds(p) PROVE PrepTypes'
  BY <1>4 DEF Finds
<1>5. ASSUME NEW p \in Preparers, Retire(p) PROVE PrepTypes'
  BY <1>5 DEF Retire
<1>6. ASSUME NEW p \in Preparers, Place(p) PROVE PrepTypes'
  BY <1>6 DEF Place
<1>7. ASSUME NEW p \in Preparers, Restore(p) PROVE PrepTypes'
  BY <1>7 DEF Restore
<1>8. ASSUME NEW p \in Preparers, Drop(p) PROVE PrepTypes'
  BY <1>8 DEF Drop
<1>9. ASSUME NEW p \in Preparers, Kill(p) PROVE PrepTypes'
  BY <1>9 DEF Kill
<1>10. CASE Rot
  BY <1>10 DEF Rot
<1>11. CASE UNCHANGED cache
  BY <1>11 DEF cache
<1> QED
  BY <1>1, <1>2, <1>3, <1>4, <1>5, <1>6, <1>7, <1>8, <1>9, <1>10, <1>11 DEF CacheStep, Prepare

\* Nobody finds an install under its own name before it has placed one.
LEMMA NamedStep ==
  ASSUME PrepTypes, NamedByPlacing, CacheStep
  PROVE  NamedByPlacing'
<1> USE RuntimeCacheAssumption DEF PrepTypes, NamedByPlacing, Moves, PrepPCs, Stopped, Installs
<1>1. ASSUME NEW p \in Preparers, Clean(p) PROVE NamedByPlacing'
  BY <1>1 DEF Clean
<1>2. ASSUME NEW p \in Preparers, Stage(p) PROVE NamedByPlacing'
  BY <1>2 DEF Stage
<1>3. ASSUME NEW p \in Preparers, StageFails(p) PROVE NamedByPlacing'
  BY <1>3 DEF StageFails
<1>4. ASSUME NEW p \in Preparers, Finds(p) PROVE NamedByPlacing'
  BY <1>4 DEF Finds
<1>5. ASSUME NEW p \in Preparers, Retire(p) PROVE NamedByPlacing'
  BY <1>5 DEF Retire
<1>6. ASSUME NEW p \in Preparers, Place(p) PROVE NamedByPlacing'
  BY <1>6 DEF Place
<1>7. ASSUME NEW p \in Preparers, Restore(p) PROVE NamedByPlacing'
  BY <1>7 DEF Restore
<1>8. ASSUME NEW p \in Preparers, Drop(p) PROVE NamedByPlacing'
  BY <1>8 DEF Drop
<1>9. ASSUME NEW p \in Preparers, Kill(p) PROVE NamedByPlacing'
  BY <1>9 DEF Kill
<1>10. CASE Rot
  BY <1>10 DEF Rot
<1>11. CASE UNCHANGED cache
  BY <1>11 DEF cache
<1> QED
  BY <1>1, <1>2, <1>3, <1>4, <1>5, <1>6, <1>7, <1>8, <1>9, <1>10, <1>11 DEF CacheStep, Prepare

\* While the install is gone, somebody holds it.
LEMMA GapStep ==
  ASSUME PrepTypes, GapIsHeld, CacheStep
  PROVE  GapIsHeld'
<1> USE RuntimeCacheAssumption
        DEF PrepTypes, GapIsHeld, WillPlace, Moves, PrepPCs, Stopped, Installs
<1>1. ASSUME NEW p \in Preparers, Clean(p) PROVE GapIsHeld'
  BY <1>1 DEF Clean
<1>2. ASSUME NEW p \in Preparers, Stage(p) PROVE GapIsHeld'
  BY <1>2 DEF Stage
<1>3. ASSUME NEW p \in Preparers, StageFails(p) PROVE GapIsHeld'
  BY <1>3 DEF StageFails
<1>4. ASSUME NEW p \in Preparers, Finds(p) PROVE GapIsHeld'
  BY <1>4 DEF Finds
<1>5. ASSUME NEW p \in Preparers, Retire(p) PROVE GapIsHeld'
  BY <1>5 DEF Retire
<1>6. ASSUME NEW p \in Preparers, Place(p) PROVE GapIsHeld'
  BY <1>6 DEF Place
<1>7. ASSUME NEW p \in Preparers, Restore(p) PROVE GapIsHeld'
  BY <1>7 DEF Restore
<1>8. ASSUME NEW p \in Preparers, Drop(p) PROVE GapIsHeld'
  BY <1>8 DEF Drop
<1>9. ASSUME NEW p \in Preparers, Kill(p) PROVE GapIsHeld'
  BY <1>9 DEF Kill
<1>10. CASE Rot
  BY <1>10 DEF Rot
<1>11. CASE UNCHANGED cache
  BY <1>11 DEF cache
<1> QED
  BY <1>1, <1>2, <1>3, <1>4, <1>5, <1>6, <1>7, <1>8, <1>9, <1>10, <1>11 DEF CacheStep, Prepare

\* A rollback copy is somebody else's install.
LEMMA RetiredStep ==
  ASSUME PrepTypes, CacheTypeOK, NamedByPlacing, CacheStep
  PROVE  \A q \in Preparers : retired'[q] # None => retired'[q] # q
<1> USE DEF PrepTypes, CacheTypeOK
<1>1. ASSUME NEW p \in Preparers, Clean(p) \/ Drop(p)
      PROVE  \A q \in Preparers : retired'[q] # None => retired'[q] # q
  BY <1>1 DEF Clean, Drop, Moves
<1>2. ASSUME NEW p \in Preparers, Retire(p)
      PROVE  \A q \in Preparers : retired'[q] # None => retired'[q] # q
  <2>1. install # p
    BY <1>2 DEF Retire, Moves, NamedByPlacing
  <2> QED
    BY <1>2, <2>1 DEF Retire, Moves
<1>3. ASSUME NEW p \in Preparers, Restore(p)
      PROVE  \A q \in Preparers : retired'[q] # None => retired'[q] # q
  BY <1>3 DEF Restore
<1>4. ASSUME NEW p \in Preparers,
             Stage(p) \/ StageFails(p) \/ Finds(p) \/ Place(p) \/ Kill(p) \/ Rot \/ UNCHANGED cache
      PROVE  \A q \in Preparers : retired'[q] # None => retired'[q] # q
  BY <1>4 DEF Stage, StageFails, Finds, Place, Kill, Rot, cache
<1> QED
  BY <1>1, <1>2, <1>3, <1>4 DEF CacheStep, Prepare

\* The build reads one file after another: what it has pinned is compared before it copies.
LEMMA BuildStep ==
  ASSUME PrepTypes, BuildTypes, PinnedIsOneInstall, BuildReads, UNCHANGED cache
  PROVE  BuildTypes' /\ PinnedIsOneInstall'
<1> USE DEF BuildTypes, PinnedIsOneInstall, Built, Refused
<1>0. /\ Len(Opened) = 11
      /\ Opened[1] = "claim" /\ Opened[2] = "hash" /\ Opened[3] = "archive"
      /\ Opened[4] = "manifest" /\ Opened[5] = "headers" /\ Opened[6] = "archive"
      /\ Opened[7] = "manifest" /\ Opened[8] = "headers" /\ Opened[9] = "archive"
      /\ Opened[10] = "headers" /\ Opened[11] = "manifest"
  BY DEF Opened
<1>c. UNCHANGED <<install, rotten>>
  BY DEF cache
<1>i. Installs' = Installs
  BY DEF Installs
<1>1. CASE Looks
  BY <1>0, <1>1, <1>i DEF Looks
<1>2. CASE Refuses
  BY <1>0, <1>2, <1>i DEF Refuses
<1>3. CASE Reads
  <2> DEFINE f == Opened[build]
  <2>0. /\ build \in 1 .. 11 /\ build' = build + 1 /\ Sound(f)
        /\ want' = CASE f = "claim" -> [want EXCEPT !.archive = install]
                     [] f = "hash" -> [want EXCEPT !.manifest = install]
                     [] OTHER -> want
        /\ staged' = IF build >= Copies THEN [staged EXCEPT ![f] = install] ELSE staged
    BY <1>0, <1>3 DEF Reads
  <2>1. install \in Installs
    BY DEF PrepTypes
  <2>2. f \in {"claim", "hash"} \cup Files /\ (build >= 3 => f \in Files)
    BY <1>0, <2>0 DEF Files
  <2>3. BuildTypes'
    <3>1. want' \in [archive : Installs, manifest : Installs]
      BY <2>0, <2>1, <2>2 DEF Files
    <3>2. DOMAIN staged' = Files
      BY <2>0
    <3> QED
      BY <1>0, <2>0, <3>1, <3>2, <1>i
  <2>4. CASE build < 4
    <3>1. ~(build' >= 5)
      BY <2>0, <2>4
    <3> QED
      BY <2>3, <3>1, <1>0
  <2>5. CASE build >= 4
    <3>1. want' = want /\ Matches(f)
      BY <1>0, <2>0, <2>2, <2>5 DEF Sound, Files
    <3>2. install # None /\ install = (IF f = "archive" THEN want.archive ELSE want.manifest)
          /\ (f = "manifest" => want.archive = want.manifest)
      BY <3>1 DEF Matches
    <3>3. want.archive = want.manifest /\ install = want.manifest
      BY <1>0, <2>0, <2>5, <3>2
    <3>4. build >= 9 => staged' = [staged EXCEPT ![f] = install]
      BY <2>0 DEF Copies
    <3>5. build = 9 => f = "archive"
      BY <1>0
    <3>6. build = 10 => f = "headers"
      BY <1>0
    <3>7. build = 11 => f = "manifest"
      BY <1>0
    <3>8. want'.archive = want'.manifest /\ want'.manifest \in Installs \ {None}
      BY <2>1, <3>1, <3>2, <3>3
    <3> HIDE DEF f
    <3>9. /\ build' >= 10 => staged'["archive"] = want'.manifest
          /\ build' >= 11 => staged'["headers"] = want'.manifest
          /\ build' = 12 => staged'["manifest"] = want'.manifest
      <4>1. CASE build < 9
        BY <2>0, <4>1
      <4>2. CASE build = 9
        BY <2>0, <3>1, <3>3, <3>4, <3>5, <4>2 DEF Files
      <4>3. CASE build = 10
        BY <1>0, <2>0, <3>1, <3>3, <3>4, <3>6, <4>3 DEF Files
      <4>4. CASE build = 11
        BY <1>0, <2>0, <3>1, <3>3, <3>4, <3>7, <4>4 DEF Files
      <4> QED
        BY <2>0, <4>1, <4>2, <4>3, <4>4
    <3> QED
      BY <1>i, <2>3, <3>8, <3>9
  <2> QED
    BY <2>0, <2>3, <2>4, <2>5
<1> QED
  BY <1>1, <1>2, <1>3 DEF BuildReads

LEMMA InitCache == CacheInit => CacheIInv
BY RuntimeCacheAssumption
   DEF CacheInit, CacheIInv, PrepTypes, CacheTypeOK, NamedByPlacing, GapIsHeld, BuildTypes,
       PinnedIsOneInstall, PrepPCs, Stopped, Installs, Unread, Refused, Built, Opened

LEMMA NextCache == CacheIInv /\ [CacheNext]_cacheVars => CacheIInv'
<1> SUFFICES ASSUME CacheIInv, [CacheNext]_cacheVars PROVE CacheIInv'
  OBVIOUS
<1>1. CacheStep /\ (UNCHANGED buildReader \/ (BuildReads /\ UNCHANGED cache))
  BY CacheOrBuild
<1>2. PrepTypes' /\ NamedByPlacing' /\ GapIsHeld'
  BY <1>1, PrepTypesStep, NamedStep, GapStep DEF CacheIInv
<1>3. BuildTypes' /\ PinnedIsOneInstall'
  <2>1. CASE UNCHANGED buildReader
    BY <2>1 DEF CacheIInv, BuildTypes, PinnedIsOneInstall, buildReader, Installs
  <2>2. CASE BuildReads /\ UNCHANGED cache
    BY <2>2, BuildStep DEF CacheIInv
  <2> QED
    BY <1>1, <2>1, <2>2
<1>4. CacheTypeOK'
  BY <1>1, <1>2, <1>3, RetiredStep DEF CacheIInv, CacheTypeOK, PrepTypes, BuildTypes, Installs
<1> QED
  BY <1>2, <1>3, <1>4 DEF CacheIInv

\* The inductive invariant holds throughout, for any number of prepares at once.
THEOREM CacheInvariance == CacheSpec => []CacheIInv
BY InitCache, NextCache, PTL DEF CacheSpec

\* What a build links is one install, whatever prepares replace while it reads; and prepares
\* that fail leave an install where there was one, unless one of them was killed, or lost both
\* its rename and the copy it kept.
THEOREM InstallHolds == CacheSpec => []InstallIsWhole
<1>1. CacheIInv => LinkedIsOneInstall
  BY DEF CacheIInv, PinnedIsOneInstall, LinkedIsOneInstall, Built, Opened, Installs, Files
<1>2. CacheIInv => InstallSurvives
  <2> SUFFICES ASSUME CacheIInv, Installed # None,
                      \A p \in Preparers : prep[p] \in Stopped \ {"killed"},
                      ~(fault /\ swept), install = None
               PROVE  FALSE
    BY DEF InstallSurvives
  <2>1. PICK p \in Preparers : WillPlace(p) \/ prep[p] = "killed"
    BY DEF CacheIInv, GapIsHeld
  <2> QED
    BY <2>1 DEF WillPlace, Stopped
<1> QED
  BY <1>1, <1>2, CacheInvariance, PTL DEF InstallIsWhole

-----------------------------------------------------------------------------
(* The published bundle: what a reader returns is one report's. *)

\* A report writes the layers of one format, the summary and the metadata, among others.
LEMMA PathsAreArtifacts ==
  ASSUME NEW format \in Layers, NEW detailed \in BOOLEAN
  PROVE  /\ Paths(format, detailed) \in Seq(Artifacts)
         /\ {format, "summary", "metadata"} \subseteq ToSet(Paths(format, detailed))
         /\ ToSet(Paths(format, detailed)) \subseteq Artifacts
<1> DEFINE first == <<format, "summary", "metadata", "lock">>
           rest == IF detailed THEN <<"detail">> ELSE <<>>
<1>1. first \in Seq(Artifacts) /\ Len(first) = 4
  BY DEF Artifacts, Layers
<1>2. rest \in Seq(Artifacts) /\ Len(rest) \in {0, 1}
  BY DEF Artifacts
<1>3. first[1] = format /\ first[2] = "summary" /\ first[3] = "metadata"
  OBVIOUS
<1> HIDE DEF first, rest
<1>4. /\ first \o rest \in Seq(Artifacts) /\ Len(first \o rest) = 4 + Len(rest)
      /\ \A i \in 1 .. 4 : (first \o rest)[i] = first[i]
  <2>1. /\ first \o rest \in Seq(Artifacts) /\ Len(first \o rest) = Len(first) + Len(rest)
        /\ \A i \in 1 .. Len(first) + Len(rest) :
             (first \o rest)[i] = IF i <= Len(first) THEN first[i] ELSE rest[i - Len(first)]
    BY <1>1, <1>2, ConcatProperties, Zenon
  <2> QED
    BY <1>1, <1>2, <2>1
<1>5. Paths(format, detailed) = first \o rest
  BY DEF Paths, first, rest
<1>6. 1 \in DOMAIN (first \o rest) /\ 2 \in DOMAIN (first \o rest) /\ 3 \in DOMAIN (first \o rest)
  BY <1>1, <1>2, <1>4
<1>7. {format, "summary", "metadata"} \subseteq ToSet(first \o rest)
  BY <1>3, <1>4, <1>6 DEF ToSet
<1>8. ToSet(first \o rest) \subseteq Artifacts
  BY <1>4 DEF ToSet
<1> QED
  BY <1>4, <1>5, <1>7, <1>8

\* What is left to write: the file at the head, and the rest.
LEMMA HeadAndTail ==
  ASSUME NEW s \in Seq(Artifacts), s # <<>>
  PROVE  /\ Head(s) \in Artifacts /\ Tail(s) \in Seq(Artifacts)
         /\ ToSet(s) = {Head(s)} \cup ToSet(Tail(s))
<1>1. Len(s) \in Nat \ {0} /\ Head(s) = s[1] /\ Tail(s) \in Seq(Artifacts)
      /\ Len(Tail(s)) = Len(s) - 1 /\ \A i \in 1 .. Len(s) - 1 : Tail(s)[i] = s[i + 1]
  OBVIOUS
<1>2. ASSUME NEW a \in ToSet(s) PROVE a \in {Head(s)} \cup ToSet(Tail(s))
  <2>1. PICK i \in 1 .. Len(s) : a = s[i]
    BY <1>2 DEF ToSet
  <2>2. CASE i = 1
    BY <1>1, <2>1, <2>2
  <2>3. CASE i # 1
    <3>1. PICK k \in 1 .. Len(Tail(s)) : k + 1 = i
      <4>1. i - 1 \in 1 .. Len(Tail(s)) /\ (i - 1) + 1 = i
        BY <1>1, <2>1, <2>3
      <4> QED
        BY <4>1
    <3>2. Tail(s)[k] = a
      BY <1>1, <2>1, <3>1
    <3>3. k \in DOMAIN Tail(s)
      BY <1>1, <3>1
    <3>4. a \in ToSet(Tail(s))
      BY <3>2, <3>3 DEF ToSet
    <3> QED
      BY <3>4
  <2> QED
    BY <2>2, <2>3
<1>3. ASSUME NEW a \in {Head(s)} \cup ToSet(Tail(s)) PROVE a \in ToSet(s)
  <2>1. CASE a = Head(s)
    BY <1>1, <2>1 DEF ToSet
  <2>2. CASE a \in ToSet(Tail(s))
    <3>1. PICK i \in 1 .. Len(Tail(s)) : a = Tail(s)[i]
      BY <1>1, <2>2 DEF ToSet
    <3>2. i + 1 \in 1 .. Len(s) /\ s[i + 1] = a
      BY <1>1, <3>1
    <3> QED
      BY <3>2 DEF ToSet
  <2> QED
    BY <1>3, <2>1, <2>2
<1> QED
  BY <1>1, <1>2, <1>3

LEMMA NothingLeft == ToSet(<<>>) = {}
BY DEF ToSet

\* No report, no manifest.
LEMMA NoPins == [a \in {} |-> 0] = <<>>
OBVIOUS

LEMMA NoManifest == NoBundle \in Manifests
<1>1. 0 \in 0 .. Reports
  BY ResultBundleAssumption
<1>2. <<>> \in [{} -> Contents] /\ {} \in SUBSET Artifacts
  OBVIOUS
<1> QED
  BY <1>1, <1>2 DEF NoBundle, Manifests

LEMMA InitBundle == BundleInit => BundleIInv
<1> SUFFICES ASSUME BundleInit PROVE BundleIInv
  OBVIOUS
<1>1. PICK n \in {0, 1}, paths \in Seq(Artifacts) :
        /\ Directory(n, paths)
        /\ \/ n = 0 /\ paths = <<>>
           \/ n = 1 /\ \E format \in Layers, detailed \in BOOLEAN : paths = Paths(format, detailed)
  <2>1. CASE EmptyDirectory
    <3>1. <<>> \in Seq(Artifacts)
      OBVIOUS
    <3> QED
      BY <2>1, <3>1 DEF EmptyDirectory
  <2>2. ASSUME NEW format \in Layers, NEW detailed \in BOOLEAN,
               Directory(1, Paths(format, detailed))
        PROVE  \E paths \in Seq(Artifacts) :
                 /\ Directory(1, paths)
                 /\ \E f \in Layers, d \in BOOLEAN : paths = Paths(f, d)
    BY <2>2, PathsAreArtifacts
  <2> QED
    BY <2>1, <2>2 DEF BundleInit
<1>2. ToSet(paths) \subseteq Artifacts /\ n \in 0 .. Reports
  BY ResultBundleAssumption DEF ToSet
<1>3. NoBundle \in Manifests
  BY NoManifest
<1>4. ReaderIdle \in [at : {"idle"}, kind : {"native"}, raw : Manifests, todo : {{}}, got : {<<>>},
                     quiet : BOOLEAN, intact : BOOLEAN]
  BY <1>3 DEF ReaderIdle
<1>5. BundleTypes
  <2>1. marker \in BOOLEAN
    BY <1>1, Zenon DEF Directory
  <2>2. file \in [Artifacts -> Contents]
    BY <1>1, <1>2, ResultBundleAssumption DEF Directory, Contents
  <2>3. bundleManifest \in Manifests
    <3>1. [a \in ToSet(paths) |-> n] \in [ToSet(paths) -> Contents]
      BY <1>2 DEF Contents
    <3> QED
      BY <1>1, <1>2, <3>1 DEF Directory, Manifests
  <2>4. <<>> \in Seq(Artifacts) /\ <<>> \in Seq(Contents)
    OBVIOUS
  <2> QED
    BY <1>1, <1>2, <1>4, <2>1, <2>2, <2>3, <2>4 DEF Directory, BundleTypes, Readers, Writers
<1>6. ManifestIsTrue
  <2>1. CASE n = 0 /\ paths = <<>>
    BY <1>1, <2>1, NothingLeft, NoPins DEF Directory, ManifestIsTrue, NoBundle
  <2>2. CASE \E format \in Layers, detailed \in BOOLEAN : paths = Paths(format, detailed)
    <3>1. PICK format \in Layers : {format, "summary", "metadata"} \subseteq ToSet(paths)
      BY <2>2, PathsAreArtifacts
    <3> QED
      BY <1>1, <1>2, <3>1 DEF Directory, ManifestIsTrue, PinsOneReport
  <2> QED
    BY <1>1, <2>1, <2>2
<1>7. WrittenSoFar
  BY <1>1 DEF Directory, WrittenSoFar
<1>8. ReaderKnows
  BY <1>1 DEF Directory, ReaderIdle, ReaderKnows, HoldsManifest
<1> QED
  BY <1>5, <1>6, <1>7, <1>8 DEF BundleIInv

\* A writer's step: the reader notices, and keeps what it holds.
LEMMA WriterNoticed ==
  ASSUME BundleTypes, ReaderKnows, reader' = [reader EXCEPT !.quiet = FALSE]
  PROVE  ReaderKnows'
BY DEF BundleTypes, Readers, ReaderKnows, HoldsManifest, PinsOneReport

\* A writer's step keeps the manifest true of the files.
LEMMA WriterStep ==
  ASSUME BundleTypes, ManifestIsTrue, WrittenSoFar,
         Mark \/ Withdraw \/ Open \/ Fill \/ Publish \/ Unmark \/ WriterStops
  PROVE  /\ BundleTypes' /\ ManifestIsTrue' /\ WrittenSoFar'
         /\ reader' = [reader EXCEPT !.quiet = FALSE]
<1> USE ResultBundleAssumption DEF BundleTypes, Writers, Writes
<1>r. reader' = [reader EXCEPT !.quiet = FALSE]
  BY DEF Mark, Withdraw, Open, Fill, Publish, Unmark, WriterStops
<1>t. reader' \in Readers
  BY <1>r DEF Readers
<1>1. CASE Mark
  <2>1. PICK format \in Layers, detailed \in BOOLEAN :
          writer' = [at |-> "withdraw", report |-> writer.report + 1,
                     paths |-> Paths(format, detailed), todo |-> Paths(format, detailed)]
    BY <1>1 DEF Mark
  <2>2. marker' \in BOOLEAN
    BY <1>1, Zenon DEF Mark
  <2>3. writer' \in Writers /\ writer'.at = "withdraw"
    BY <1>1, <2>1, PathsAreArtifacts DEF Mark
  <2>4. writer'.paths = Paths(format, detailed) /\ writer'.todo = Paths(format, detailed)
    BY <2>1
  <2> QED
    BY <1>1, <1>t, <2>2, <2>3, <2>4 DEF Mark, ManifestIsTrue, WrittenSoFar
<1>2. CASE Withdraw
  <2>1. NoBundle \in Manifests
    BY NoManifest
  <2> QED
    BY <1>2, <1>t, <2>1 DEF Withdraw, ManifestIsTrue, WrittenSoFar
<1>3. CASE Open
  <2>1. Head(writer.todo) \in Artifacts /\ Head(writer.todo) \in ToSet(writer.todo)
    BY <1>3, HeadAndTail DEF Open
  <2>2. file' \in [Artifacts -> Contents]
    BY <1>3, <2>1 DEF Open, Contents
  <2>3. \A a \in ToSet(writer.paths) \ ToSet(writer.todo) : file'[a] = file[a]
    BY <1>3, <2>1 DEF Open
  <2> QED
    BY <1>3, <1>t, <2>2, <2>3 DEF Open, ManifestIsTrue, WrittenSoFar
<1>4. CASE Fill
  <2>1. /\ Head(writer.todo) \in Artifacts /\ Tail(writer.todo) \in Seq(Artifacts)
        /\ ToSet(writer.todo) = {Head(writer.todo)} \cup ToSet(Tail(writer.todo))
    BY <1>4, HeadAndTail DEF Fill, WrittenSoFar
  <2>2. file' \in [Artifacts -> Contents]
    BY <1>4, <2>1 DEF Fill, Contents
  <2>3. /\ writer' \in Writers /\ writer'.at = "open" /\ writer'.todo = Tail(writer.todo)
        /\ writer'.paths = writer.paths /\ writer'.report = writer.report
    BY <1>4, <2>1 DEF Fill
  <2>4. \A a \in ToSet(writer.paths) \ ToSet(writer'.todo) : file'[a] = writer.report
    BY <1>4, <2>1, <2>3 DEF Fill, WrittenSoFar
  <2> QED
    BY <1>4, <1>t, <2>2, <2>3, <2>4 DEF Fill, ManifestIsTrue, WrittenSoFar
<1>5. CASE Publish
  <2>1. PICK format \in Layers, detailed \in BOOLEAN : writer.paths = Paths(format, detailed)
    BY <1>5 DEF Publish, WrittenSoFar
  <2>2. {format, "summary", "metadata"} \subseteq ToSet(writer.paths) /\ ToSet(writer.paths) \subseteq Artifacts
    BY <2>1, PathsAreArtifacts
  <2>3. \A a \in ToSet(writer.paths) : file[a] = writer.report
    BY <1>5, NothingLeft DEF Publish, WrittenSoFar
  <2>4. bundleManifest' \in Manifests
    <3>1. [a \in ToSet(writer.paths) |-> file[a]] \in [ToSet(writer.paths) -> Contents]
      BY <2>2
    <3> QED
      BY <1>5, <2>2, <3>1 DEF Publish, Manifests
  <2>5. PinsOneReport(bundleManifest') /\ \A a \in DOMAIN bundleManifest'.pins : file[a] = bundleManifest'.report
    BY <1>5, <2>2, <2>3 DEF Publish, PinsOneReport
  <2> QED
    BY <1>5, <1>t, <2>4, <2>5 DEF Publish, ManifestIsTrue, WrittenSoFar, PinsOneReport
<1>6. CASE Unmark
  <2>1. marker' \in BOOLEAN
    BY <1>6, Zenon DEF Unmark
  <2> QED
    BY <1>6, <1>t, <2>1 DEF Unmark, ManifestIsTrue, WrittenSoFar
<1>7. CASE WriterStops
  BY <1>7, <1>t DEF WriterStops, ManifestIsTrue, WrittenSoFar
<1> QED
  BY <1>r, <1>1, <1>2, <1>3, <1>4, <1>5, <1>6, <1>7

\* A document the reader accepts is of the report it holds the manifest of: it hashed it against
\* the manifest, or no writer moved since it read that.
LEMMA DocumentIsTheReports ==
  ASSUME BundleTypes, ManifestIsTrue, ReaderKnows, HoldsManifest,
         NEW a \in DOMAIN reader.raw.pins,
         reader.kind = "native" => file[a] = reader.raw.pins[a],
         reader.kind = "native" \/ reader.quiet
  PROVE  file[a] = reader.raw.report
BY DEF ReaderKnows, ManifestIsTrue, PinsOneReport

\* What the reader got stays of one report when it appends a document that is.
LEMMA AppendedIsTheReports ==
  ASSUME NEW s \in Seq(Contents), NEW c \in Contents, NEW n,
         \A i \in DOMAIN s : s[i] = n, c = n
  PROVE  /\ Append(s, c) \in Seq(Contents)
         /\ \A i \in DOMAIN Append(s, c) : Append(s, c)[i] = n
OBVIOUS

\* The layers are read from a file the manifest pins.
LEMMA ChosenIsPinned ==
  ASSUME PinsOneReport(reader.raw)
  PROVE  Chosen \in DOMAIN reader.raw.pins /\ Chosen \in Artifacts
BY DEF PinsOneReport, Chosen, Layers

\* A refused reader starts again.
LEMMA ReadRefused ==
  ASSUME Refuse
  PROVE  reader' \in Readers /\ ReaderKnows'
<1>1. NoBundle \in Manifests /\ <<>> \in Seq(Contents)
  BY NoManifest
<1> QED
  BY <1>1 DEF Refuse, ReaderIdle, Readers, ReaderKnows, HoldsManifest

\* Reading the document at a leads to the after place with what was read, or back to the start.
LEMMA DocumentStep ==
  ASSUME BundleTypes, ManifestIsTrue, ReaderKnows,
         NEW a \in {"summary", "metadata"}, NEW after \in {"metadata", "again", "layers"},
         after = "again" => reader.kind = "native", after = "layers" => reader.kind = "compare",
         ReadDocument(a, after), UNCHANGED <<bundleManifest, file>>
  PROVE  reader' \in Readers /\ ReaderKnows'
<1>1. CASE Refuse
  BY <1>1, ReadRefused
<1>2. CASE /\ Accepts(a) /\ reader' = [reader EXCEPT !.at = after, !.got = Append(@, file[a])]
  <2>1. HoldsManifest /\ PinsOneReport(reader.raw) /\ a \in DOMAIN reader.raw.pins /\ a \in Artifacts
    BY DEF ReadDocument, HoldsManifest, ReaderKnows, PinsOneReport
  <2>2. file[a] \in Contents
    BY <2>1 DEF BundleTypes
  <2>3. reader.kind = "native" \/ reader.quiet => file[a] = reader.raw.report
    BY <1>2, <2>1, DocumentIsTheReports DEF Accepts
  <2>4. Append(reader.got, file[a]) \in Seq(Contents)
    BY <2>2 DEF BundleTypes, Readers
  <2>5. reader' \in Readers
    BY <1>2, <2>4 DEF BundleTypes, Readers
  <2>6. /\ reader'.at = after /\ reader'.got = Append(reader.got, file[a])
        /\ reader'.kind = reader.kind /\ reader'.quiet = reader.quiet /\ reader'.raw = reader.raw
    BY <1>2 DEF BundleTypes, Readers
  <2>7. reader'.kind = "native" \/ reader'.quiet =>
          \A i \in DOMAIN reader'.got : reader'.got[i] = reader'.raw.report
    <3> SUFFICES ASSUME reader.kind = "native" \/ reader.quiet
                 PROVE  \A i \in DOMAIN reader'.got : reader'.got[i] = reader'.raw.report
      BY <2>6
    <3>1. \A i \in DOMAIN reader.got : reader.got[i] = reader.raw.report
      BY DEF ReaderKnows
    <3>2. reader.got \in Seq(Contents)
      BY DEF BundleTypes, Readers
    <3> QED
      BY <2>2, <2>3, <2>6, <3>1, <3>2, AppendedIsTheReports
  <2>8. /\ HoldsManifest' => PinsOneReport(reader.raw)
        /\ reader.quiet => bundleManifest = reader.raw /\ reader.raw # NoBundle
    BY <2>1 DEF ReaderKnows
  <2> QED
    BY <2>5, <2>6, <2>7, <2>8 DEF ReaderKnows, PinsOneReport, HoldsManifest
<1> QED
  BY <1>1, <1>2 DEF ReadDocument

\* A step of a reader changes nothing of the writer's.
LEMMA ReaderStep ==
  ASSUME BundleTypes, ManifestIsTrue, ReaderKnows, BundleReads
  PROVE  reader' \in Readers /\ ReaderKnows'
<1>u. UNCHANGED <<marker, bundleManifest, file, writer>>
  BY DEF BundleReads
<1>1. CASE Look
  <2>1. PICK k \in {"native", "compare"} : reader' = [ReaderIdle EXCEPT !.at = "open", !.kind = k]
    BY <1>1 DEF Look
  <2>2. NoBundle \in Manifests /\ <<>> \in Seq(Contents)
    BY NoManifest
  <2>3. reader' = [at |-> "open", kind |-> k, raw |-> NoBundle, todo |-> {}, got |-> <<>>,
                   quiet |-> TRUE, intact |-> FALSE]
    BY <2>1 DEF ReaderIdle
  <2>4. reader' \in Readers
    BY <2>2, <2>3 DEF Readers
  <2>5. ReaderKnows'
    BY <2>3 DEF ReaderKnows, HoldsManifest
  <2> QED
    BY <2>4, <2>5
<1>2. CASE ReadManifest
  <2>1. CASE Refuse
    BY <2>1, ReadRefused
  <2>2. CASE bundleManifest # NoBundle
    <3>1. reader' = [reader EXCEPT !.at = "verify", !.raw = bundleManifest, !.todo = DOMAIN bundleManifest.pins]
      BY <1>2, <2>2 DEF ReadManifest
    <3>2. PinsOneReport(bundleManifest)
      BY <2>2 DEF ManifestIsTrue
    <3>3. reader' \in Readers
      BY <3>1, <3>2 DEF BundleTypes, Readers, PinsOneReport
    <3>4. /\ reader'.at = "verify" /\ reader'.raw = bundleManifest /\ reader'.got = <<>>
      BY <1>2, <3>1 DEF BundleTypes, Readers, ReadManifest, ReaderKnows
    <3> QED
      BY <1>u, <2>2, <3>2, <3>3, <3>4 DEF ReaderKnows, HoldsManifest, PinsOneReport
  <2> QED
    BY <1>2, <2>1, <2>2 DEF ReadManifest
<1>3. CASE Verify
  <2>1. CASE Refuse
    BY <2>1, ReadRefused
  <2>2. ASSUME NEW a, reader' = [reader EXCEPT !.todo = @ \ {a}]
        PROVE  reader' \in Readers /\ ReaderKnows'
    BY <1>u, <2>2 DEF BundleTypes, Readers, ReaderKnows, HoldsManifest, PinsOneReport
  <2> QED
    BY <1>3, <2>1, <2>2 DEF Verify
<1>4. CASE Verified
  BY <1>u, <1>4 DEF Verified, To, BundleTypes, Readers, ReaderKnows, HoldsManifest, PinsOneReport
<1>5. CASE ReadDocument("summary", "metadata")
  BY <1>u, <1>5, DocumentStep
<1>6. CASE ReadMetadata
  <2>1. reader.kind \in {"native", "compare"}
    BY DEF BundleTypes, Readers
  <2>2. CASE reader.kind = "native"
    BY <1>u, <1>6, <2>2, DocumentStep DEF ReadMetadata
  <2>3. CASE reader.kind = "compare"
    BY <1>u, <1>6, <2>3, DocumentStep DEF ReadMetadata
  <2> QED
    BY <2>1, <2>2, <2>3
<1>7. CASE ReadLayers
  <2>1. CASE Refuse
    BY <2>1, ReadRefused
  <2>2. CASE reader' = [reader EXCEPT !.at = "done", !.got = Append(@, file[Chosen])]
    <3>1. /\ HoldsManifest /\ PinsOneReport(reader.raw) /\ reader.kind = "compare"
      BY <1>7 DEF ReadLayers, HoldsManifest, ReaderKnows
    <3>2. Chosen \in DOMAIN reader.raw.pins /\ Chosen \in Artifacts
      BY <3>1, ChosenIsPinned
    <3>3. file[Chosen] \in Contents
      BY <3>2 DEF BundleTypes
    <3>4. reader.quiet => file[Chosen] = reader.raw.report
      BY <3>1, <3>2, DocumentIsTheReports
    <3>5. Append(reader.got, file[Chosen]) \in Seq(Contents)
      BY <3>3 DEF BundleTypes, Readers
    <3>6. reader' \in Readers
      BY <2>2, <3>5 DEF BundleTypes, Readers
    <3>7. /\ reader'.at = "done" /\ reader'.got = Append(reader.got, file[Chosen])
          /\ reader'.kind = "compare" /\ reader'.quiet = reader.quiet /\ reader'.raw = reader.raw
      BY <2>2, <3>1 DEF BundleTypes, Readers
    <3>8. reader'.quiet => \A i \in DOMAIN reader'.got : reader'.got[i] = reader'.raw.report
      <4> SUFFICES ASSUME reader.quiet
                   PROVE  \A i \in DOMAIN reader'.got : reader'.got[i] = reader'.raw.report
        BY <3>7
      <4>1. \A i \in DOMAIN reader.got : reader.got[i] = reader.raw.report
        BY DEF ReaderKnows
      <4>2. reader.got \in Seq(Contents)
        BY DEF BundleTypes, Readers
      <4> QED
        BY <3>3, <3>4, <3>7, <4>1, <4>2, AppendedIsTheReports
    <3>9. reader.quiet => bundleManifest = reader.raw /\ reader.raw # NoBundle
      BY <3>1 DEF ReaderKnows
    <3> QED
      BY <1>u, <3>1, <3>6, <3>7, <3>8, <3>9 DEF ReaderKnows, HoldsManifest, PinsOneReport
  <2> QED
    BY <1>7, <2>1, <2>2 DEF ReadLayers
<1>8. CASE LookAgain
  <2>1. CASE Refuse
    BY <2>1, ReadRefused
  <2>2. CASE To("return")
    BY <1>u, <1>8, <2>2
       DEF LookAgain, To, BundleTypes, Readers, ReaderKnows, HoldsManifest, PinsOneReport
  <2> QED
    BY <1>8, <2>1, <2>2 DEF LookAgain
<1>9. CASE Return
  <2>1. CASE Refuse
    BY <2>1, ReadRefused
  <2>2. CASE bundleManifest = reader.raw
    <3>1. PinsOneReport(reader.raw) /\ reader.kind = "native"
      BY <1>9 DEF Return, ReaderKnows, HoldsManifest
    <3>2. bundleManifest # NoBundle
      BY <2>2, <3>1 DEF PinsOneReport, NoBundle
    <3>3. \A a \in DOMAIN reader.raw.pins : file[a] = reader.raw.pins[a]
      BY <2>2, <3>1, <3>2 DEF ManifestIsTrue, PinsOneReport
    <3>4. reader' = [reader EXCEPT !.at = "done", !.intact = TRUE]
      BY <1>9, <2>2, <3>3 DEF Return
    <3> QED
      BY <1>u, <1>9, <3>4
         DEF Return, BundleTypes, Readers, ReaderKnows, HoldsManifest, PinsOneReport
  <2> QED
    BY <1>9, <2>1, <2>2 DEF Return
<1>10. CASE Again
  BY <1>10, ReadRefused DEF Again
<1> QED
  BY <1>1, <1>2, <1>3, <1>4, <1>5, <1>6, <1>7, <1>8, <1>9, <1>10 DEF BundleReads

LEMMA NextBundle == BundleIInv /\ [BundleNext]_bundleVars => BundleIInv'
<1> SUFFICES ASSUME BundleIInv, [BundleNext]_bundleVars PROVE BundleIInv'
  OBVIOUS
<1>i. BundleTypes /\ ManifestIsTrue /\ WrittenSoFar /\ ReaderKnows
  BY DEF BundleIInv
<1>1. CASE Mark \/ Withdraw \/ Open \/ Fill \/ Publish \/ Unmark \/ WriterStops
  <2>1. BundleTypes' /\ ManifestIsTrue' /\ WrittenSoFar' /\ reader' = [reader EXCEPT !.quiet = FALSE]
    BY <1>i, <1>1, WriterStep
  <2> QED
    BY <1>i, <2>1, WriterNoticed DEF BundleIInv
<1>2. CASE BundleReads
  <2>1. UNCHANGED <<marker, bundleManifest, file, writer>>
    BY <1>2 DEF BundleReads
  <2>2. reader' \in Readers /\ ReaderKnows'
    BY <1>i, <1>2, ReaderStep
  <2>3. marker' \in BOOLEAN
    BY <1>i, <2>1, Zenon DEF BundleTypes
  <2> QED
    BY <1>i, <2>1, <2>2, <2>3
       DEF BundleIInv, BundleTypes, ManifestIsTrue, PinsOneReport, WrittenSoFar
<1>3. CASE UNCHANGED bundleVars
  <2>1. marker' \in BOOLEAN
    BY <1>i, <1>3, Zenon DEF BundleTypes, bundleVars
  <2> QED
    BY <1>i, <1>3, <2>1
       DEF bundleVars, BundleIInv, BundleTypes, ManifestIsTrue, PinsOneReport, WrittenSoFar,
                            ReaderKnows, HoldsManifest
<1> QED
  BY <1>1, <1>2, <1>3 DEF BundleNext

\* Whatever the writer and the reader do, and wherever a report stops: a manifest that is there
\* is true of the files it pins, and a reader that holds one holds documents of its report.
THEOREM BundleInvariance == BundleSpec => []BundleIInv
BY InitBundle, NextBundle, PTL DEF BundleSpec

\* What a reader returns is one report's: load_result's always, with the whole bundle still that
\* report's when it returns; the comparison's whenever no writer was at work meanwhile.
THEOREM ReadHolds == BundleSpec => []ReadIsOneReport
<1>1. BundleIInv => ReadIsOneReport
  BY DEF BundleIInv, ReaderKnows, ReadIsOneReport
<1> QED
  BY <1>1, BundleInvariance, PTL

-----------------------------------------------------------------------------
(* The validation sweep: what is compared was run and passed by the sweep compared. *)

\* There is a case, and the one a sweep is at.
LEMMA SomeCase == Len(Order) \in Nat /\ Len(Order) >= 1
BY SweepAssumption

LEMMA CaseIsOne ==
  ASSUME ProgressTypes, next # 0
  PROVE  Case \in Cases
BY SweepAssumption DEF ProgressTypes, Case

LEMMA HereIsPublished ==
  ASSUME ProgressTypes, DirTypes, next # 0
  PROVE  Here \in Publications
BY CaseIsOne DEF ProgressTypes, DirTypes, Here

LEMMA LeftIsPublished ==
  ASSUME SweepTypes, next # 0, NEW how \in {"nothing", "cut", "whole"}
  PROVE  /\ Left(how) \subseteq Publications
         /\ \A l \in Left(how) : l.whole \in {0, sweep, Here.whole}
         /\ how = "whole" => Left(how) = {[meta |-> sweep, summary |-> sweep, whole |-> sweep]}
<1> DEFINE here == Here
<1>1. here \in Publications
  BY HereIsPublished DEF SweepTypes
<1>2. 0 \in 0..Sweeps /\ sweep \in 0..Sweeps
  BY SweepAssumption DEF SweepTypes, ProgressTypes
<1>3. \A x, y, z \in 0..Sweeps : [meta |-> x, summary |-> y, whole |-> z] \in Publications
  BY DEF Publications
<1>4. here.meta \in 0..Sweeps /\ here.summary \in 0..Sweeps
  BY <1>1 DEF Publications
<1> HIDE DEF here
<1>5. CASE how = "nothing"
  BY <1>1, <1>5 DEF Left, here
<1>6. CASE how = "cut"
  <2>1. Left(how) = {[meta |-> here.meta, summary |-> s, whole |-> 0] : s \in {here.summary, 0, sweep}}
                    \cup {[meta |-> m, summary |-> sweep, whole |-> 0] : m \in {0, sweep}}
    BY <1>6 DEF Left, here
  <2> QED
    BY <1>2, <1>3, <1>4, <1>6, <2>1
<1>7. CASE how = "whole"
  BY <1>2, <1>3, <1>7 DEF Left
<1> QED
  BY <1>5, <1>6, <1>7

\* A directory changes by what a profile run leaves in it.
Leaves(now) == stage = "profile" /\ dir' = [dir EXCEPT ![into][Case] = now]
LEMMA DirChanges ==
  ASSUME SweepTypes, [SweepNext]_sweepVars
  PROVE  \/ UNCHANGED dir /\ ~(stage = "profile" /\ stage' = "judge")
         \/ \E now \in Publications :
              /\ Leaves(now) /\ now.whole \in {0, sweep, Here.whole}
              /\ stage' = "judge" /\ exit' = "ok" =>
                   now = [meta |-> sweep, summary |-> sweep, whole |-> sweep]
<1>1. CASE Profile
  <2>0. PICK end \in ProfileEnds : \E now \in Left(end[2]) :
          dir' = [dir EXCEPT ![into][Case] = now] /\ exit' = end[1]
    BY <1>1 DEF Profile
  <2>1. PICK now \in Left(end[2]) : dir' = [dir EXCEPT ![into][Case] = now] /\ exit' = end[1]
    BY <2>0
  <2>2. end[2] \in {"nothing", "cut", "whole"} /\ (end[1] = "ok" => end[2] = "whole")
    BY DEF ProfileEnds
  <2>3. stage = "profile" /\ stage' = "judge" /\ next # 0
    BY <1>1 DEF Profile, SweepTypes, ProgressTypes
  <2>4. /\ now \in Publications /\ now.whole \in {0, sweep, Here.whole}
        /\ end[2] = "whole" => now = [meta |-> sweep, summary |-> sweep, whole |-> sweep]
    BY <2>2, <2>3, LeftIsPublished
  <2> QED
    BY <2>1, <2>2, <2>3, <2>4 DEF Leaves
<1>2. CASE Interrupt \/ Killed
  <2>0. stage' \in {"idle", "report"}
    BY <1>2 DEF Interrupt, Killed, Quit
  <2>1. CASE UNCHANGED dir
    BY <2>0, <2>1
  <2>2. CASE stage = "profile" /\ \E now \in Left("cut") : dir' = [dir EXCEPT ![into][Case] = now]
    <3>1. PICK now \in Left("cut") : dir' = [dir EXCEPT ![into][Case] = now]
      BY <2>2
    <3>2. next # 0
      BY <2>2 DEF SweepTypes, ProgressTypes
    <3>3. now \in Publications /\ now.whole \in {0, sweep, Here.whole}
      BY <3>2, LeftIsPublished
    <3> QED
      BY <2>0, <2>2, <3>1, <3>3 DEF Leaves
  <2> QED
    BY <1>2, <2>1, <2>2, Zenon DEF Interrupt, Killed
<1>3. ASSUME NEW b \in Bundles, BeginSweep(b) PROVE UNCHANGED dir /\ stage' = "case"
  BY <1>3 DEF BeginSweep
<1>4. CASE Skip \/ LaunchCase \/ JudgeCase \/ Truncate \/ Write
  BY <1>4 DEF Skip, LaunchCase, JudgeCase, Summary, Result, Truncate, Write, Quit
<1>5. CASE UNCHANGED sweepVars
  BY <1>5 DEF sweepVars
<1> QED
  BY <1>1, <1>2, <1>3, <1>4, <1>5 DEF SweepNext

LEMMA DirTypesStep ==
  ASSUME SweepTypes, [SweepNext]_sweepVars
  PROVE  DirTypes'
<1> USE DEF SweepTypes
<1>1. dir' \in [Bundles -> [Cases -> Publications]]
  <2>1. CASE UNCHANGED dir
    BY <2>1 DEF DirTypes
  <2>2. ASSUME NEW now \in Publications, Leaves(now)
        PROVE  dir' \in [Bundles -> [Cases -> Publications]]
    <3>1. Case \in Cases /\ into \in Bundles
      BY <2>2, CaseIsOne DEF Leaves, ProgressTypes
    <3> QED
      BY <2>2, <3>1 DEF Leaves, DirTypes
  <2> QED
    BY <2>1, <2>2, DirChanges
<1>2. latest' \in [Bundles -> 0..Sweeps]
  <2>1. ASSUME NEW b \in Bundles, BeginSweep(b) PROVE latest' \in [Bundles -> 0..Sweeps]
    <3>1. sweep + 1 \in 0..Sweeps
      BY <2>1, SweepAssumption DEF BeginSweep, ProgressTypes
    <3> QED
      BY <2>1, <3>1 DEF BeginSweep, DirTypes
  <2>2. CASE UNCHANGED latest
    BY <2>2 DEF DirTypes
  <2> QED
    BY <2>1, <2>2
       DEF SweepNext, Skip, LaunchCase, Profile, JudgeCase, Summary, Result, Interrupt, Killed,
                      Truncate, Write, sweepVars
<1> QED
  BY <1>1, <1>2 DEF DirTypes

LEMMA LogTypesStep ==
  ASSUME SweepTypes, [SweepNext]_sweepVars
  PROVE  LogTypes'
<1> USE DEF SweepTypes, LogTypes
<1>1. ASSUME NEW b \in Bundles, BeginSweep(b) PROVE LogTypes'
  BY <1>1 DEF BeginSweep, NoResults
<1>2. ASSUME NEW status \in Statuses3, NEW r, stage \in {"case", "judge"}, Result(status, r)
      PROVE  LogTypes'
  <2>1. Case \in Cases
    BY <1>2, CaseIsOne DEF ProgressTypes
  <2> QED
    BY <1>2, <2>1 DEF Result
<1>3. CASE Skip \/ JudgeCase
  BY <1>2, <1>3 DEF Skip, JudgeCase, Summary, Statuses3
<1>4. CASE LaunchCase \/ Profile \/ Interrupt
  BY <1>4 DEF LaunchCase, Profile, Interrupt
<1>5. CASE Killed
  BY <1>5 DEF Killed, Quit, NoResults
<1>6. CASE Truncate
  BY <1>6 DEF Truncate, Quit, NoResults, TornManifest, ProgressTypes
<1>7. CASE Write
  BY <1>7 DEF Write, Quit, NoResults, ProgressTypes
<1>8. CASE UNCHANGED sweepVars
  BY <1>8 DEF sweepVars
<1> QED
  BY <1>1, <1>3, <1>4, <1>5, <1>6, <1>7, <1>8, Zenon DEF SweepNext

LEMMA ProgressStep ==
  ASSUME ProgressTypes, [SweepNext]_sweepVars
  PROVE  ProgressTypes'
<1> USE SweepAssumption, SomeCase DEF ProgressTypes, NoSweep, progress
<1>1. ASSUME NEW b \in Bundles, BeginSweep(b) PROVE ProgressTypes'
  BY <1>1 DEF BeginSweep
<1>2. CASE Skip
  BY <1>2 DEF Skip, Result
<1>3. CASE LaunchCase
  BY <1>3 DEF LaunchCase
<1>4. CASE Profile
  BY <1>4 DEF Profile
<1>5. CASE JudgeCase
  BY <1>5 DEF JudgeCase, Summary, Result
<1>6. CASE Interrupt
  BY <1>6 DEF Interrupt
<1>7. CASE Killed
  BY <1>7 DEF Killed, Quit
<1>8. CASE Truncate
  BY <1>8 DEF Truncate, Quit, TornManifest
<1>9. CASE Write
  BY <1>9 DEF Write, Quit, Entry
<1>10. CASE UNCHANGED sweepVars
  BY <1>10 DEF sweepVars
<1> QED
  BY <1>1, <1>2, <1>3, <1>4, <1>5, <1>6, <1>7, <1>8, <1>9, <1>10 DEF SweepNext

LEMMA SettledStep ==
  ASSUME SweepTypes, SettledAfterItsSweep, [SweepNext]_sweepVars
  PROVE  SettledAfterItsSweep'
<1> USE SweepAssumption, SomeCase
        DEF SweepTypes, ProgressTypes, DirTypes, LogTypes, SettledAfterItsSweep, progress
<1>1. ASSUME NEW b \in Bundles, BeginSweep(b) PROVE SettledAfterItsSweep'
  BY <1>1 DEF BeginSweep
<1>2. CASE Skip
  BY <1>2 DEF Skip, Result
<1>3. CASE LaunchCase
  BY <1>3 DEF LaunchCase
<1>4. CASE Profile
  BY <1>4 DEF Profile
<1>5. CASE JudgeCase
  BY <1>5 DEF JudgeCase, Summary, Result
<1>6. CASE Interrupt
  BY <1>6 DEF Interrupt
<1>7. CASE Killed
  BY <1>7 DEF Killed, Quit
<1>8. CASE Truncate
  BY <1>8 DEF Truncate, Quit, TornManifest
<1>9. CASE Write
  BY <1>9 DEF Write, Quit, Entry
<1>10. CASE UNCHANGED sweepVars
  BY <1>10 DEF sweepVars
<1> QED
  BY <1>1, <1>2, <1>3, <1>4, <1>5, <1>6, <1>7, <1>8, <1>9, <1>10 DEF SweepNext

LEMMA ResultsStep ==
  ASSUME SweepTypes, SettledAfterItsSweep, ResultsAreTheSweeps, [SweepNext]_sweepVars
  PROVE  ResultsAreTheSweeps'
<1> DEFINE Good(c) == PassedHere(c, results[c].status, results[c].run, into, sweep)
           Whole == [meta |-> sweep, summary |-> sweep, whole |-> sweep]
<1>1. ASSUME stage' = "judge", exit' = "ok" PROVE Here' = Whole'
  <2>1. CASE UNCHANGED <<stage, exit, dir, into, next, sweep>>
    BY <1>1, <2>1 DEF ResultsAreTheSweeps, Here, Case
  <2>2. CASE Profile
    <3>1. PICK now \in Publications : Leaves(now) /\ now = Whole
      BY <1>1, <2>2, DirChanges DEF Profile
    <3>2. Case \in Cases /\ into \in Bundles
      BY <3>1, CaseIsOne DEF Leaves, SweepTypes, ProgressTypes
    <3>3. dir'[into][Case] = Whole
      BY <3>1, <3>2 DEF Leaves, SweepTypes, DirTypes
    <3> QED
      BY <2>2, <3>3 DEF Profile, progress, Here, Case
  <2> QED
    BY <1>1, <2>1, <2>2 DEF SweepNext, BeginSweep, Skip, LaunchCase, JudgeCase, Summary, Result,
                            Interrupt, Killed, Quit, Truncate, Write, sweepVars
<1>2. ASSUME stage' # "idle", NEW c \in DOMAIN results' PROVE Good(c)'
  <2>1. CASE UNCHANGED <<results, into, sweep>> /\ stage # "idle"
    <3>1. c \in DOMAIN results /\ Good(c)
      BY <1>2, <2>1 DEF ResultsAreTheSweeps
    <3>2. CASE UNCHANGED dir
      BY <2>1, <3>1, <3>2 DEF PassedHere
    <3>3. ASSUME NEW now \in Publications, Leaves(now), now.whole \in {0, sweep, Here.whole}
          PROVE  Good(c)'
      <4>1. Case \in Cases /\ c \in Cases /\ into \in Bundles
        BY <3>1, <3>3, CaseIsOne DEF Leaves, SweepTypes, ProgressTypes, LogTypes
      <4>2. dir'[into][c].whole \in {dir[into][c].whole, 0, sweep}
        BY <3>3, <4>1 DEF Leaves, SweepTypes, DirTypes, Here
      <4> QED
        BY <2>1, <3>1, <4>2 DEF PassedHere
    <3> QED
      BY <3>2, <3>3, DirChanges
  <2>2. ASSUME NEW status \in Statuses3, NEW r, Result(status, r), stage \in {"case", "judge"},
               status = "pass" => stage = "judge" /\ exit = "ok" /\ r = Here.summary
        PROVE  Good(c)'
    <3>1. UNCHANGED <<dir, into, sweep>> /\ stage # "idle"
      BY <2>2 DEF Result, progress
    <3>2. CASE c # Case
      <4>1. c \in DOMAIN results /\ results'[c] = results[c]
        BY <2>2, <3>2 DEF Result
      <4> QED
        BY <3>1, <4>1 DEF ResultsAreTheSweeps, PassedHere
    <3>3. CASE c = Case
      <4>1. results'[c] = [status |-> status, run |-> r]
        BY <2>2, <3>3 DEF Result
      <4>2. status = "pass" => r = sweep /\ dir[into][c].whole = sweep
        BY <2>2, <3>3 DEF ResultsAreTheSweeps, Here
      <4> QED
        BY <3>1, <4>1, <4>2 DEF PassedHere
    <3> QED
      BY <3>2, <3>3
  <2>3. CASE Skip \/ JudgeCase
    <3>1. CASE UNCHANGED results
      BY <2>1, <2>3, <3>1 DEF Skip, JudgeCase, Summary, Result, progress
    <3>2. CASE ~UNCHANGED results
      BY <2>2, <2>3, <3>2 DEF Skip, JudgeCase, Summary, Statuses3
    <3> QED
      BY <3>1, <3>2
  <2>4. CASE LaunchCase \/ Profile \/ Interrupt \/ UNCHANGED sweepVars
    BY <1>2, <2>1, <2>4 DEF LaunchCase, Profile, Interrupt, sweepVars, progress
  <2>5. CASE Truncate
    BY <1>2, <2>1, <2>5 DEF Truncate, Quit, progress
  <2>6. CASE Killed \/ Write
    BY <1>2, <2>6 DEF Killed, Write, Quit
  <2>7. ASSUME NEW b \in Bundles, BeginSweep(b) PROVE FALSE
    BY <1>2, <2>7 DEF BeginSweep, NoResults
  <2> QED
    BY <2>3, <2>4, <2>5, <2>6, <2>7, Zenon DEF SweepNext
<1> QED
  BY <1>1, <1>2 DEF ResultsAreTheSweeps


LEMMA ManifestStep ==
  ASSUME SweepTypes, SettledAfterItsSweep, ResultsAreTheSweeps, ManifestIsTheSweeps,
         [SweepNext]_sweepVars
  PROVE  ManifestIsTheSweeps'
<1> SUFFICES ASSUME NEW b \in Bundles, Settled(b)', NEW c \in Listed(b)'
             PROVE  /\ c \in Cases /\ manifest'[b].entries[c].identity.case = c
                    /\ manifest'[b].entries[c].status \in Statuses3
                    /\ manifest'[b].entries[c].status = "pass" =>
                         /\ manifest'[b].entries[c].run = manifest'[b].sweep
                         /\ dir'[b][c].whole \in {0, manifest'[b].sweep}
  BY DEF ManifestIsTheSweeps, PassedHere
<1> USE DEF SweepTypes
<1>1. CASE UNCHANGED <<manifest[b], latest[b]>>
  <2>1. Settled(b) /\ c \in Listed(b)
    BY <1>1 DEF Settled, Listed, ManifestLoads
  <2>2. /\ c \in Cases /\ manifest[b].entries[c].identity.case = c
        /\ manifest[b].entries[c].status \in Statuses3
        /\ PassedHere(c, manifest[b].entries[c].status, manifest[b].entries[c].run, b,
                      manifest[b].sweep)
    BY <2>1 DEF ManifestIsTheSweeps
  <2>3. ASSUME NEW now, Leaves(now) PROVE dir'[b] = dir[b]
    <3>1. stage # "idle"
      BY <2>3 DEF Leaves
    <3>2. b # into
      BY <2>1, <3>1 DEF Settled, SettledAfterItsSweep, ProgressTypes, DirTypes, LogTypes
    <3> QED
      BY <2>3, <3>2 DEF Leaves, DirTypes
  <2>4. dir'[b] = dir[b]
    BY <2>3, DirChanges
  <2> QED
    BY <1>1, <2>2, <2>4 DEF PassedHere
<1>2. ASSUME NEW b0 \in Bundles, BeginSweep(b0), b = b0 PROVE FALSE
  <2>1. manifest'[b] = manifest[b] /\ latest'[b] = sweep + 1
    BY <1>2 DEF BeginSweep, DirTypes
  <2>2. manifest[b].sweep <= sweep /\ manifest[b].sweep \in Int /\ sweep \in Int
    BY DEF SettledAfterItsSweep, ProgressTypes, LogTypes, DirTypes
  <2> QED
    BY <2>1, <2>2 DEF Settled
<1>3. ASSUME NEW b0 \in Bundles, BeginSweep(b0), b # b0 PROVE UNCHANGED <<manifest[b], latest[b]>>
  BY <1>3 DEF BeginSweep, DirTypes
<1>4. CASE Truncate
  <2>1. b # into \/ UNCHANGED manifest
    BY <1>4 DEF Truncate, TornManifest, Settled, ManifestLoads, LogTypes
  <2> QED
    BY <1>1, <1>4, <2>1 DEF Truncate, LogTypes
<1>5. CASE Write /\ b = into
  <2>1. manifest'[b] = [sweep |-> sweep, entries |-> [x \in DOMAIN results |-> Entry(into, x)]]
    BY <1>5 DEF Write, LogTypes
  <2>2. c \in DOMAIN results /\ manifest'[b].entries[c] = Entry(into, c)
    BY <2>1 DEF Listed
  <2>3. /\ Entry(into, c).identity.case = c /\ Entry(into, c).status = results[c].status
        /\ Entry(into, c).run = results[c].run
    BY DEF Entry, Identity
  <2>4. c \in Cases /\ results[c].status \in Statuses3
    BY <2>2 DEF LogTypes
  <2>5. PassedHere(c, results[c].status, results[c].run, into, sweep)
    BY <1>5, <2>2 DEF ResultsAreTheSweeps, Write
  <2>6. UNCHANGED dir /\ manifest'[b].sweep = sweep
    BY <1>5, <2>1 DEF Write
  <2> QED
    BY <1>5, <2>2, <2>3, <2>4, <2>5, <2>6 DEF PassedHere
<1>6. CASE Write /\ b # into
  BY <1>1, <1>6 DEF Write, LogTypes
<1>7. CASE Skip \/ LaunchCase \/ Profile \/ JudgeCase \/ Interrupt \/ Killed \/ UNCHANGED sweepVars
  <2>1. UNCHANGED <<manifest, latest>>
    BY <1>7
       DEF Skip, LaunchCase, Profile, JudgeCase, Summary, Result, Interrupt, Killed, sweepVars
  <2> QED
    BY <1>1, <2>1
<1> QED
  BY <1>1, <1>2, <1>3, <1>4, <1>5, <1>6, <1>7, Zenon DEF SweepNext

LEMMA InitSweep == SweepInit => SweepIInv
<1> SUFFICES ASSUME SweepInit PROVE SweepIInv
  OBVIOUS
<1>1. ProgressTypes /\ LogTypes
  BY SweepAssumption, SomeCase DEF SweepInit, ProgressTypes, LogTypes, NoSweep, NoResults
<1>2. DirTypes
  BY SweepAssumption DEF SweepInit, DirTypes, Publications
<1>3. SettledAfterItsSweep /\ ResultsAreTheSweeps /\ ManifestIsTheSweeps
  BY SweepAssumption
  DEF SweepInit, SettledAfterItsSweep, ResultsAreTheSweeps, ManifestIsTheSweeps, Settled, ManifestLoads,
      NoSweep
<1> QED
  BY <1>1, <1>2, <1>3 DEF SweepIInv, SweepTypes

\* The inductive invariant holds throughout, for any bundles, any order of cases (repeated ones
\* too) and any number of sweeps.
THEOREM SweepInvariance == SweepSpec => []SweepIInv
<1>1. SweepIInv /\ [SweepNext]_sweepVars => SweepIInv'
  BY ProgressStep, DirTypesStep, LogTypesStep, SettledStep, ResultsStep, ManifestStep
  DEF SweepIInv, SweepTypes
<1> QED
  BY <1>1, InitSweep, PTL DEF SweepSpec

\* Two settled bundles are compared on runs their own sweeps made and passed.
THEOREM ComparedHolds == SweepSpec => []ComparedIsTheSweeps
<1>1. SweepIInv => ComparedIsTheSweeps
  <2> SUFFICES ASSUME SweepIInv,
                      NEW b1 \in Bundles, NEW b2 \in Bundles, Settled(b1), Settled(b2),
                      NEW i \in Identities(b1), Outcome(b1, b2, i) = "compared",
                      NEW b \in {b1, b2}
               PROVE  /\ dir[b][i.case].whole = manifest[b].sweep
                      /\ \A e \in EntryOf(b, i) : e.run = manifest[b].sweep
    BY DEF ComparedIsTheSweeps
  <2>1. /\ i \in Identities(b) /\ Comparable(b, i)
        /\ \A e \in EntryOf(b, i) : e.status \notin {"fail", "skip"}
    BY DEF Outcome, Statuses
  <2>2. Settled(b) /\ b \in Bundles
    OBVIOUS
  <2>3. ASSUME NEW e \in EntryOf(b, i)
        PROVE  e.run = manifest[b].sweep /\ dir[b][i.case].whole \in {0, manifest[b].sweep}
    <3>1. PICK c \in Listed(b) : e = manifest[b].entries[c] /\ e.identity = i
      BY DEF EntryOf
    <3>2. /\ e.identity.case = c /\ e.status \in Statuses3
          /\ PassedHere(c, e.status, e.run, b, manifest[b].sweep)
      BY <2>2, <3>1 DEF SweepIInv, ManifestIsTheSweeps
    <3>3. e.status = "pass"
      BY <2>1, <3>2 DEF Statuses3
    <3> QED
      BY <3>1, <3>2, <3>3 DEF PassedHere
  <2>4. \E e : e \in EntryOf(b, i)
    BY <2>1 DEF Identities, EntryOf
  <2> QED
    BY <2>1, <2>3, <2>4 DEF Comparable
<1> QED
  BY <1>1, SweepInvariance, PTL

-----------------------------------------------------------------------------
(* The run record: what loads is true, and what was saved and left alone loads. *)

\* The parts of the assumption.
LEMMA RecordAssumptions ==
  /\ Accidents \in Nat /\ Nothing \notin Builders /\ Nothing \notin Runners
  /\ Junk \notin Builders /\ Junk \notin Runners /\ Nothing # Junk /\ Nothing \notin Dirs
BY RunRecordAssumption

\* Every step keeps the types.
LEMMA TreeTypesStep ==
  ASSUME TreeTypes, [RecordNext]_recordVars
  PROVE  TreeTypes'
<1> USE RecordAssumptions DEF TreeTypes, tree, evidence, builds, runs
<1>1. ASSUME EditTree, UNCHANGED <<oneModel, evidence, builds, runs>>, accidents' = accidents + 1
      PROVE  TreeTypes'
  BY <1>1 DEF EditTree, Damages
<1>2. ASSUME EditEvidence, UNCHANGED <<oneModel, tree, builds, runs>>, accidents' = accidents + 1
      PROVE  TreeTypes'
  BY <1>2 DEF EditEvidence, DamagesIn
<1>3. ASSUME Wipe, UNCHANGED <<oneModel, builds, runs>> PROVE TreeTypes'
  BY <1>3 DEF Wipe
<1>4. CASE UNCHANGED recordVars
  BY <1>4 DEF recordVars
<1>5. ASSUME NEW b \in Builders, BuildInto(b), UNCHANGED <<oneModel, runs, accidents>>
      PROVE  TreeTypes'
  BY <1>5
     DEF BuildInto, FindEmpty, Builds, Empty, PinInputs, Bind, Compile, PinImage, SaveBuild,
         BuildStops
<1>6. ASSUME NEW r \in Runners, RunFrom(r), UNCHANGED <<oneModel, tree, builds, accidents>>
      PROVE  TreeTypes'
  BY <1>6
     DEF RunFrom, Pick, Run, LoadBuild, Claim, Capture, SaveReference, SaveResult, Ends, RunStops
<1> QED
  BY <1>1, <1>2, <1>3, <1>4, <1>5, <1>6, Zenon DEF RecordNext, BuildInto, RunFrom, Accident

LEMMA BuilderTypesStep ==
  ASSUME BuilderTypes, [RecordNext]_recordVars
  PROVE  BuilderTypes'
<1> USE RecordAssumptions DEF BuilderTypes, tree, evidence, builds, runs
<1>1. ASSUME NEW b \in Builders, FindEmpty(b), UNCHANGED <<oneModel, runs, accidents>>
      PROVE  BuilderTypes'
  BY <1>1 DEF FindEmpty, Builds, Empty
<1>2. ASSUME NEW b \in Builders, PinInputs(b), UNCHANGED <<oneModel, runs, accidents>>
      PROVE  BuilderTypes'
  BY <1>2 DEF PinInputs, Builds
<1>3. ASSUME NEW b \in Builders, Bind(b), UNCHANGED <<oneModel, runs, accidents>>
      PROVE  BuilderTypes'
  BY <1>3 DEF Bind, Builds
<1>4. ASSUME NEW b \in Builders, Compile(b), UNCHANGED <<oneModel, runs, accidents>>
      PROVE  BuilderTypes'
  BY <1>4 DEF Compile, Builds
<1>5. ASSUME NEW b \in Builders, PinImage(b), UNCHANGED <<oneModel, runs, accidents>>
      PROVE  BuilderTypes'
  BY <1>5 DEF PinImage, Builds
<1>6. ASSUME NEW b \in Builders, SaveBuild(b), UNCHANGED <<oneModel, runs, accidents>>
      PROVE  BuilderTypes'
  BY <1>6 DEF SaveBuild, Builds
<1>7. ASSUME NEW b \in Builders, BuildStops(b), UNCHANGED <<oneModel, runs, accidents>>
      PROVE  BuilderTypes'
  BY <1>7 DEF BuildStops
<1>8. CASE UNCHANGED recordVars
  BY <1>8 DEF recordVars
<1>9. ASSUME NEW r \in Runners, RunFrom(r), UNCHANGED <<oneModel, tree, builds, accidents>>
      PROVE  BuilderTypes'
  BY <1>9
     DEF RunFrom, Pick, Run, LoadBuild, Claim, Capture, SaveReference, SaveResult, Ends, RunStops
<1>10. ASSUME Accident \/ Wipe, UNCHANGED <<oneModel, builds, runs>> PROVE BuilderTypes'
  BY <1>10 DEF Accident, Wipe
<1> QED
  BY <1>1, <1>2, <1>3, <1>4, <1>5, <1>6, <1>7, <1>8, <1>9, <1>10, Zenon
     DEF RecordNext, BuildInto, RunFrom, Accident

LEMMA RunnerTypesStep ==
  ASSUME RunnerTypes, [RecordNext]_recordVars
  PROVE  RunnerTypes'
<1> USE RecordAssumptions DEF RunnerTypes, tree, evidence, builds, runs
<1>1. ASSUME NEW r \in Runners, Pick(r), UNCHANGED <<oneModel, tree, builds, accidents>>
      PROVE  RunnerTypes'
  BY <1>1 DEF Pick, Run
<1>2. ASSUME NEW r \in Runners, LoadBuild(r), UNCHANGED <<oneModel, tree, builds, accidents>>
      PROVE  RunnerTypes'
  BY <1>2 DEF LoadBuild, Run
<1>3. ASSUME NEW r \in Runners, Claim(r), UNCHANGED <<oneModel, tree, builds, accidents>>
      PROVE  RunnerTypes'
  BY <1>3 DEF Claim, Run
<1>4. ASSUME NEW r \in Runners, Capture(r), UNCHANGED <<oneModel, tree, builds, accidents>>
      PROVE  RunnerTypes'
  BY <1>4 DEF Capture, Run
<1>5. ASSUME NEW r \in Runners, SaveReference(r), UNCHANGED <<oneModel, tree, builds, accidents>>
      PROVE  RunnerTypes'
  BY <1>5 DEF SaveReference, Run
<1>6. ASSUME NEW r \in Runners, SaveResult(r), UNCHANGED <<oneModel, tree, builds, accidents>>
      PROVE  RunnerTypes'
  BY <1>6 DEF SaveResult, Run, Ends
<1>7. ASSUME NEW r \in Runners, RunStops(r), UNCHANGED <<oneModel, tree, builds, accidents>>
      PROVE  RunnerTypes'
  BY <1>7 DEF RunStops, Ends
<1>8. CASE UNCHANGED recordVars
  BY <1>8 DEF recordVars
<1>9. ASSUME NEW b \in Builders, BuildInto(b), UNCHANGED <<oneModel, runs, accidents>>
      PROVE  RunnerTypes'
  BY <1>9
     DEF BuildInto, FindEmpty, Builds, Empty, PinInputs, Bind, Compile, PinImage, SaveBuild,
         BuildStops
<1>10. ASSUME Accident \/ Wipe, UNCHANGED <<oneModel, builds, runs>> PROVE RunnerTypes'
  BY <1>10 DEF Accident, Wipe
<1> QED
  BY <1>1, <1>2, <1>3, <1>4, <1>5, <1>6, <1>7, <1>8, <1>9, <1>10, Zenon
     DEF RecordNext, BuildInto, RunFrom, Accident

LEMMA EvidenceTypesStep ==
  ASSUME EvidenceTypes, RunnerTypes, [RecordNext]_recordVars
  PROVE  EvidenceTypes'
<1> USE RecordAssumptions DEF EvidenceTypes, PerEvidence, Sets, tree, evidence, builds, runs
<1>1. ASSUME EditTree, UNCHANGED <<oneModel, evidence, builds, runs>>, accidents' = accidents + 1
      PROVE  EvidenceTypes'
  BY <1>1 DEF EditTree, Damages
<1>2. ASSUME EditEvidence, UNCHANGED <<oneModel, tree, builds, runs>>, accidents' = accidents + 1
      PROVE  EvidenceTypes'
  BY <1>2 DEF EditEvidence, DamagesIn
<1>3. ASSUME Wipe, UNCHANGED <<oneModel, builds, runs>> PROVE EvidenceTypes'
  BY <1>3 DEF Wipe
<1>4. CASE UNCHANGED recordVars
  BY <1>4 DEF recordVars
<1>5. ASSUME NEW b \in Builders, BuildInto(b), UNCHANGED <<oneModel, runs, accidents>>
      PROVE  EvidenceTypes'
  BY <1>5
     DEF BuildInto, FindEmpty, Builds, Empty, PinInputs, Bind, Compile, PinImage, SaveBuild,
         BuildStops
<1>6. ASSUME NEW r \in Runners, RunFrom(r), UNCHANGED <<oneModel, tree, builds, accidents>>
      PROVE  EvidenceTypes'
  BY <1>6
     DEF RunFrom, Pick, Run, LoadBuild, Claim, Capture, SaveReference, SaveResult, Ends, RunStops
<1> QED
  BY <1>1, <1>2, <1>3, <1>4, <1>5, <1>6, Zenon DEF RecordNext, BuildInto, RunFrom, Accident

\* What a build owns of its tree.
LEMMA BuildIsOwnStep ==
  ASSUME TreeTypes, BuilderTypes, BuildIsOwn, [RecordNext]_recordVars
  PROVE  BuildIsOwn'
<1> USE RecordAssumptions
        DEF TreeTypes, BuilderTypes, BuildIsOwn, Pinnable, ModelOf, tree, evidence, builds, runs
<1>1. ASSUME NEW b \in Builders, FindEmpty(b), UNCHANGED <<oneModel, runs, accidents>>
      PROVE  BuildIsOwn'
  BY <1>1 DEF FindEmpty, Builds, Empty
<1>2. ASSUME NEW b \in Builders, PinInputs(b), UNCHANGED <<oneModel, runs, accidents>>
      PROVE  BuildIsOwn'
  BY <1>2 DEF PinInputs, Builds
<1>3. ASSUME NEW b \in Builders, Bind(b), UNCHANGED <<oneModel, runs, accidents>>
      PROVE  BuildIsOwn'
  BY <1>3 DEF Bind, Builds
<1>4. ASSUME NEW b \in Builders, Compile(b), UNCHANGED <<oneModel, runs, accidents>>
      PROVE  BuildIsOwn'
  BY <1>4 DEF Compile, Builds
<1>5. ASSUME NEW b \in Builders, PinImage(b), UNCHANGED <<oneModel, runs, accidents>>
      PROVE  BuildIsOwn'
  BY <1>5 DEF PinImage, Builds
<1>6. ASSUME NEW b \in Builders, SaveBuild(b), UNCHANGED <<oneModel, runs, accidents>>
      PROVE  BuildIsOwn'
  BY <1>6 DEF SaveBuild, Builds
<1>7. ASSUME NEW b \in Builders, BuildStops(b), UNCHANGED <<oneModel, runs, accidents>>
      PROVE  BuildIsOwn'
  BY <1>7 DEF BuildStops
<1>8. ASSUME EditTree, UNCHANGED <<oneModel, evidence, builds, runs>>, accidents' = accidents + 1
      PROVE  BuildIsOwn'
  <2>1. \A b \in Builders : builder[b] \notin {"look", "done", "failed"} =>
          /\ inputs'[bdir[b]] = inputs[bdir[b]] /\ image'[bdir[b]] = image[bdir[b]]
          /\ owner'[bdir[b]] = owner[bdir[b]]
    BY <1>8 DEF Kept, EditTree, Damages
  <2> QED
    BY <1>8, <2>1
<1>9. ASSUME EditEvidence, UNCHANGED <<oneModel, tree, builds, runs>>, accidents' = accidents + 1
      PROVE  BuildIsOwn'
  BY <1>9 DEF EditEvidence, DamagesIn
<1>10. ASSUME Wipe, UNCHANGED <<oneModel, builds, runs>> PROVE BuildIsOwn'
  <2>1. \A b \in Builders : builder[b] \notin {"look", "done", "failed"} =>
          /\ inputs'[bdir[b]] = inputs[bdir[b]] /\ image'[bdir[b]] = image[bdir[b]]
          /\ owner'[bdir[b]] = owner[bdir[b]]
    BY <1>10 DEF Kept, Wipe
  <2> QED
    BY <1>10, <2>1
<1>11. CASE UNCHANGED recordVars
  BY <1>11 DEF recordVars
<1>12. ASSUME NEW r \in Runners, RunFrom(r), UNCHANGED <<oneModel, tree, builds, accidents>>
       PROVE  BuildIsOwn'
  BY <1>12
     DEF RunFrom, Pick, Run, LoadBuild, Claim, Capture, SaveReference, SaveResult, Ends, RunStops
<1> QED
  BY <1>1, <1>2, <1>3, <1>4, <1>5, <1>6, <1>7, <1>8, <1>9, <1>10, <1>11, <1>12, Zenon
     DEF RecordNext, BuildInto, RunFrom, Accident

\* That hashes over documents are of what was compiled.
LEMMA SumsStep ==
  ASSUME TreeTypes, BuilderTypes, BuildIsOwn, SumsAreTrue, [RecordNext]_recordVars
  PROVE  SumsAreTrue'
<1> USE RecordAssumptions DEF TreeTypes, BuilderTypes, SumsAreTrue, tree, evidence, builds, runs
<1>s. Sums' = Sums
  BY DEF RecordNext, recordVars, Sums, ModelOf
<1>1. ASSUME NEW b \in Builders, FindEmpty(b), UNCHANGED <<oneModel, runs, accidents>>
      PROVE  SumsAreTrue'
  BY <1>s, <1>1 DEF FindEmpty, Builds, Empty
<1>2. ASSUME NEW b \in Builders, PinInputs(b), UNCHANGED <<oneModel, runs, accidents>>
      PROVE  SumsAreTrue'
  BY <1>s, <1>2 DEF PinInputs, Builds
<1>3. ASSUME NEW b \in Builders, Bind(b), UNCHANGED <<oneModel, runs, accidents>>
      PROVE  SumsAreTrue'
  BY <1>s, <1>3 DEF Bind, Builds
<1>4. ASSUME NEW b \in Builders, Compile(b), UNCHANGED <<oneModel, runs, accidents>>
      PROVE  SumsAreTrue'
  BY <1>s, <1>4 DEF Compile, Builds
<1>5. ASSUME NEW b \in Builders, PinImage(b), UNCHANGED <<oneModel, runs, accidents>>
      PROVE  SumsAreTrue'
  BY <1>s, <1>5 DEF PinImage, Builds
<1>6. ASSUME NEW b \in Builders, SaveBuild(b), UNCHANGED <<oneModel, runs, accidents>>
      PROVE  SumsAreTrue'
  <2>1. pinned[b] = Compiled(b, ModelOf(b))
    BY <1>6 DEF SaveBuild, Builds, Verifies, Document, BuildIsOwn
  <2>2. Document(b, pinned[b]).sum \in Sums /\ "sum" \in DOMAIN Document(b, pinned[b])
    BY <2>1 DEF Document, Sums
  <2>3. doc' = [doc EXCEPT ![bdir[b]] = Document(b, pinned[b])]
    BY <1>6 DEF SaveBuild
  <2> HIDE DEF Sums
  <2> QED
    BY <1>s, <2>2, <2>3
<1>7. ASSUME NEW b \in Builders, BuildStops(b), UNCHANGED <<oneModel, runs, accidents>>
      PROVE  SumsAreTrue'
  BY <1>s, <1>7 DEF BuildStops
<1>8. ASSUME EditTree, UNCHANGED <<oneModel, evidence, builds, runs>>, accidents' = accidents + 1
      PROVE  SumsAreTrue'
  <2>1. ASSUME NEW d \in Dirs, doc'[d] # Nothing
        PROVE  "sum" \in DOMAIN doc'[d] /\ doc'[d].sum \in Sums
    <3>1. CASE UNCHANGED doc
      BY <2>1, <3>1
    <3>2. ASSUME NEW x \in Dirs, NEW from \in Dirs, doc[x] # Nothing,
                 doc' = [doc EXCEPT ![x] = doc[from]]
          PROVE  "sum" \in DOMAIN doc'[d] /\ doc'[d].sum \in Sums
      BY <2>1, <3>2
    <3>3. ASSUME NEW x \in Dirs, doc[x] # Nothing,
                 NEW k \in {"plan", "binding", "settings", "model", "image"}, NEW v,
                 doc' = [doc EXCEPT ![x][k] = v]
          PROVE "sum" \in DOMAIN doc'[d] /\ doc'[d].sum \in Sums
      BY <2>1, <3>3
    <3>4. ASSUME NEW x \in Dirs, doc[x] # Nothing, NEW v, doc' = [doc EXCEPT ![x].image = v]
          PROVE "sum" \in DOMAIN doc'[d] /\ doc'[d].sum \in Sums
      BY <3>3, <3>4
    <3> QED
      BY <1>8, <3>1, <3>2, <3>3, <3>4 DEF EditTree, Damages
  <2> QED
    BY <1>s, <2>1
<1>9. ASSUME EditEvidence, UNCHANGED <<oneModel, tree, builds, runs>>, accidents' = accidents + 1
      PROVE  SumsAreTrue'
  BY <1>s, <1>9 DEF EditEvidence, DamagesIn
<1>10. ASSUME Wipe, UNCHANGED <<oneModel, builds, runs>> PROVE SumsAreTrue'
  BY <1>s, <1>10 DEF Wipe
<1>11. CASE UNCHANGED recordVars
  BY <1>s, <1>11 DEF recordVars
<1>12. ASSUME NEW r \in Runners, RunFrom(r), UNCHANGED <<oneModel, tree, builds, accidents>>
       PROVE  SumsAreTrue'
  BY <1>s, <1>12
     DEF RunFrom, Pick, Run, LoadBuild, Claim, Capture, SaveReference, SaveResult, Ends, RunStops
<1> QED
  BY <1>1, <1>2, <1>3, <1>4, <1>5, <1>6, <1>7, <1>8, <1>9, <1>10, <1>11, <1>12, Zenon
     DEF RecordNext, BuildInto, RunFrom, Accident

\* That captures are the runs' own.
LEMMA CapturesStep ==
  ASSUME RunnerTypes, CapturesAreOwn, [RecordNext]_recordVars
  PROVE  CapturesAreOwn'
<1> USE RecordAssumptions DEF RunnerTypes, CapturesAreOwn, tree, evidence, builds, runs
<1>1. ASSUME NEW r \in Runners, Pick(r), UNCHANGED <<oneModel, tree, builds, accidents>>
      PROVE  CapturesAreOwn'
  BY <1>1 DEF Pick, Run
<1>2. ASSUME NEW r \in Runners, LoadBuild(r), UNCHANGED <<oneModel, tree, builds, accidents>>
      PROVE  CapturesAreOwn'
  BY <1>2 DEF LoadBuild, Run
<1>3. ASSUME NEW r \in Runners, Claim(r), UNCHANGED <<oneModel, tree, builds, accidents>>
      PROVE  CapturesAreOwn'
  BY <1>3 DEF Claim, Run
<1>4. ASSUME NEW r \in Runners, Capture(r), UNCHANGED <<oneModel, tree, builds, accidents>>
      PROVE  CapturesAreOwn'
  <2>1. PICK ok \in BOOLEAN : captured' = captured \cup {[by |-> r, ok |-> ok, image |-> held[r].image]}
    BY <1>4 DEF Capture
  <2> DEFINE new == [by |-> r, ok |-> ok, image |-> held[r].image]
  <2>2. new.by = r /\ new.image = held[r].image
    OBVIOUS
  <2>3. /\ runner' = [runner EXCEPT ![r] = "compare"] /\ runner[r] = "capture"
        /\ UNCHANGED <<rdir, rev, held>>
    BY <1>4 DEF Capture, Run
  <2>4. captured' = captured \cup {new}
    BY <2>1
  <2> HIDE DEF new
  <2>5. \A c \in captured : c.by # r
    BY <2>3
  <2> QED
    BY <2>2, <2>3, <2>4, <2>5
<1>5. ASSUME NEW r \in Runners, SaveReference(r), UNCHANGED <<oneModel, tree, builds, accidents>>
      PROVE  CapturesAreOwn'
  BY <1>5 DEF SaveReference, Run
<1>6. ASSUME NEW r \in Runners, SaveResult(r), UNCHANGED <<oneModel, tree, builds, accidents>>
      PROVE  CapturesAreOwn'
  BY <1>6 DEF SaveResult, Run, Ends
<1>7. ASSUME NEW r \in Runners, RunStops(r), UNCHANGED <<oneModel, tree, builds, accidents>>
      PROVE  CapturesAreOwn'
  BY <1>7 DEF RunStops, Ends
<1>8. CASE UNCHANGED recordVars
  BY <1>8 DEF recordVars
<1>9. ASSUME NEW b \in Builders, BuildInto(b), UNCHANGED <<oneModel, runs, accidents>>
      PROVE  CapturesAreOwn'
  BY <1>9
     DEF BuildInto, FindEmpty, Builds, Empty, PinInputs, Bind, Compile, PinImage, SaveBuild,
         BuildStops
<1>10. ASSUME Accident \/ Wipe, UNCHANGED <<oneModel, builds, runs>> PROVE CapturesAreOwn'
  BY <1>10 DEF Accident, Wipe
<1> QED
  BY <1>1, <1>2, <1>3, <1>4, <1>5, <1>6, <1>7, <1>8, <1>9, <1>10, Zenon
     DEF RecordNext, BuildInto, RunFrom, Accident

\* One file of one evidence directory is replaced.
LEMMA SetsAt ==
  ASSUME NEW f, PerEvidence(f), NEW d \in Dirs, NEW e \in Evidence, NEW to
  PROVE  /\ PerEvidence(Sets(f, d, e, to))
         /\ At(Sets(f, d, e, to), d, e) = to
         /\ \A x \in Dirs, y \in Evidence :
              x # d \/ y # e => At(Sets(f, d, e, to), x, y) = At(f, x, y)
BY DEF PerEvidence, Sets, At

\* The capture a run has made.
LEMMA TheCapture ==
  ASSUME CapturesAreOwn, NEW r \in Runners, runner[r] \in {"compare", "save"}
  PROVE  /\ CaptureOf(r) \in captured /\ CaptureOf(r).by = r /\ CaptureOf(r).image = held[r].image
         /\ \A c \in captured : c.by = r => c = CaptureOf(r)
<1>1. \E c \in captured : c.by = r
  BY DEF CapturesAreOwn
<1>2. CaptureOf(r) \in captured /\ CaptureOf(r).by = r
  BY <1>1 DEF CaptureOf
<1> QED
  BY <1>2 DEF CapturesAreOwn

\* A result in which a field is replaced.
LEMMA FieldReplaced ==
  ASSUME NEW x, NEW k, NEW v
  PROVE  LET y == [x EXCEPT ![k] = v] IN
           /\ DOMAIN y = DOMAIN x
           /\ k \in DOMAIN x => y[k] = v
           /\ \A o \in DOMAIN x : o # k => y[o] = x[o]
OBVIOUS

\* What is stated of one result, as it is and after a step.
States(x) == x # Nothing => "identity" \in DOMAIN x /\ TrueIdentity(x["identity"])
NowStates(d, e) == \A x : x = At(result', d, e) => States(x)'
LEMMA IdentitiesStep ==
  ASSUME EvidenceTypes, RunnerTypes, CapturesAreOwn, IdentitiesAreTrue, [RecordNext]_recordVars
  PROVE  IdentitiesAreTrue'
<1> USE DEF EvidenceTypes
<1>1. ASSUME captured \subseteq captured', NEW x, States(x) PROVE States(x)'
  BY <1>1 DEF States, TrueIdentity
<1>2. \A d \in Dirs, e \in Evidence : States(At(result, d, e))
  BY DEF IdentitiesAreTrue, States
<1>3. SUFFICES \A d \in Dirs, e \in Evidence : NowStates(d, e)
  BY DEF IdentitiesAreTrue, States, NowStates, At
<1>4. ASSUME captured \subseteq captured', UNCHANGED result
      PROVE  \A d \in Dirs, e \in Evidence : NowStates(d, e)
  BY <1>1, <1>2, <1>4 DEF NowStates
<1>5. ASSUME captured \subseteq captured', NEW d \in Dirs, NEW e \in Evidence, NEW x, States(x),
             result' = Sets(result, d, e, x)
      PROVE  \A c \in Dirs, o \in Evidence : NowStates(c, o)
  <2> SUFFICES ASSUME NEW c \in Dirs, NEW o \in Evidence, NEW y, y = At(result', c, o)
               PROVE  States(y)'
    BY DEF NowStates
  <2>1. y \in {x, At(result, c, o)}
    BY <1>5, SetsAt
  <2>2. States(y)
    BY <1>2, <1>5, <2>1
  <2> QED
    BY <1>1, <1>5, <2>2
<1>6. ASSUME NEW r \in Runners, SaveResult(r)
      PROVE  \A d \in Dirs, e \in Evidence : NowStates(d, e)
  <2> DEFINE d == rdir[r]
             e == rev[r]
             x == Recorded(r, d, e)
  <2>1. d \in Dirs /\ e \in Evidence /\ runner[r] = "save"
    BY <1>6 DEF SaveResult, Run, RunnerTypes
  <2>2. result' = Sets(result, d, e, x) /\ UNCHANGED captured
    BY <1>6 DEF SaveResult
  <2>3. /\ "identity" \in DOMAIN x
        /\ x["identity"] = <<held[r].image, held[r].plan, r, CaptureOf(r).ok, At(output, d, e)>>
    BY DEF Recorded, Facts
  <2>4. CaptureOf(r).ok => At(output, d, e) = r
    BY <1>6 DEF SaveResult
  <2>5. CaptureOf(r) \in captured /\ CaptureOf(r).by = r /\ CaptureOf(r).image = held[r].image
    BY <2>1, TheCapture
  <2> HIDE DEF x, d, e
  <2>6. States(x)
    BY <2>3, <2>4, <2>5 DEF States, TrueIdentity
  <2> QED
    BY <1>5, <2>1, <2>2, <2>6
<1>7. ASSUME NEW r \in Runners, RunFrom(r)
      PROVE  \A d \in Dirs, e \in Evidence : NowStates(d, e)
  <2>1. CASE SaveResult(r)
    BY <1>6, <2>1
  <2>2. CASE ~SaveResult(r)
    <3>1. UNCHANGED result /\ captured \subseteq captured'
      BY <1>7, <2>2
         DEF RunFrom, Pick, LoadBuild, Claim, Capture, SaveReference, RunStops, evidence
    <3> QED
      BY <1>4, <3>1
  <2> QED
    BY <2>1, <2>2
<1>8. ASSUME EditEvidence, UNCHANGED runs
      PROVE  \A d \in Dirs, e \in Evidence : NowStates(d, e)
  <2>0. captured \subseteq captured'
    BY <1>8 DEF runs
  <2>1. CASE UNCHANGED result
    BY <1>4, <2>0, <2>1
  <2>2. ASSUME NEW d \in Dirs, NEW e \in Evidence, NEW from \in Dirs, NEW other \in Evidence,
               result' = Sets(result, d, e, At(result, from, other))
        PROVE  \A c \in Dirs, o \in Evidence : NowStates(c, o)
    BY <1>2, <1>5, <2>0, <2>2
  <2>3. ASSUME NEW d \in Dirs, NEW e \in Evidence, At(result, d, e) # Nothing,
               NEW k \in {"at", "build", "capture", "identity", "compared"}, NEW v,
               k = "identity" => TrueIdentity(v),
               result' = [result EXCEPT ![d][e][k] = v]
        PROVE  \A c \in Dirs, o \in Evidence : NowStates(c, o)
    <3>1. result' = Sets(result, d, e, [At(result, d, e) EXCEPT ![k] = v])
      BY <2>3 DEF Sets, At
    <3>2. States([At(result, d, e) EXCEPT ![k] = v])
      <4>1. States(At(result, d, e))
        BY <1>2
      <4>2. "identity" \in DOMAIN At(result, d, e) /\ TrueIdentity(At(result, d, e)["identity"])
        BY <2>3, <4>1 DEF States
      <4>3. /\ "identity" \in DOMAIN [At(result, d, e) EXCEPT ![k] = v]
            /\ [At(result, d, e) EXCEPT ![k] = v]["identity"] \in {v, At(result, d, e)["identity"]}
            /\ k # "identity" =>
                 [At(result, d, e) EXCEPT ![k] = v]["identity"] = At(result, d, e)["identity"]
        BY <4>2, FieldReplaced
      <4> QED
        BY <2>3, <4>2, <4>3 DEF States
    <3> QED
      BY <1>5, <2>0, <3>1, <3>2
  <2>4. ASSUME NEW d \in Dirs, NEW e \in Evidence, NEW from \in Dirs, NEW other \in Evidence,
               At(result, d, e) # Nothing,
               \/ result' = [result EXCEPT ![d][e].at = other]
               \/ result' = [result EXCEPT ![d][e].build = doc[from]]
               \/ result' = [result EXCEPT ![d][e].capture.ok = ~@]
               \/ result' = [result EXCEPT ![d][e].compared = Nothing]
               \/ /\ At(result, from, other) # Nothing
                  /\ \E k \in {"capture", "identity", "compared"} :
                       result' = [result EXCEPT ![d][e][k] = At(result, from, other)[k]]
        PROVE  \A c \in Dirs, o \in Evidence : NowStates(c, o)
    <3>1. ASSUME result' = [result EXCEPT ![d][e].capture.ok = ~@]
          PROVE  \E v : result' = [result EXCEPT ![d][e]["capture"] = v]
      BY <3>1
    <3>2. ASSUME NEW k \in {"capture", "identity", "compared"}, At(result, from, other) # Nothing,
                 result' = [result EXCEPT ![d][e][k] = At(result, from, other)[k]]
          PROVE  \A c \in Dirs, o \in Evidence : NowStates(c, o)
      <4>1. k = "identity" => TrueIdentity(At(result, from, other)[k])
        BY <1>2, <3>2 DEF States
      <4> QED
        BY <2>3, <2>4, <3>2, <4>1
    <3> QED
      BY <2>3, <2>4, <3>1, <3>2
  <2> QED
    <3>1. PICK d \in Dirs, from \in Dirs, e \in Evidence, other \in Evidence :
            \/ UNCHANGED result
            \/ result' = Sets(result, d, e, At(result, from, other))
            \/ /\ At(result, d, e) # Nothing
               /\ \/ result' = [result EXCEPT ![d][e].at = other]
                  \/ result' = [result EXCEPT ![d][e].build = doc[from]]
                  \/ result' = [result EXCEPT ![d][e].capture.ok = ~@]
                  \/ result' = [result EXCEPT ![d][e].compared = Nothing]
                  \/ /\ At(result, from, other) # Nothing
                     /\ \E k \in {"capture", "identity", "compared"} :
                          result' = [result EXCEPT ![d][e][k] = At(result, from, other)[k]]
      BY <1>8 DEF EditEvidence, DamagesIn
    <3> QED
      BY <2>1, <2>2, <2>4, <3>1
<1>9. ASSUME Wipe, UNCHANGED runs
      PROVE  \A d \in Dirs, e \in Evidence : NowStates(d, e)
  <2>1. PICK x \in Dirs : result' = [result EXCEPT ![x] = [e \in Evidence |-> Nothing]]
    BY <1>9 DEF Wipe
  <2>2. \A d \in Dirs, e \in Evidence : At(result', d, e) \in {Nothing, At(result, d, e)}
    BY <2>1 DEF At, PerEvidence
  <2>3. States(Nothing)
    BY DEF States
  <2>4. captured \subseteq captured'
    BY <1>9 DEF runs
  <2> QED
    BY <1>1, <1>2, <2>2, <2>3, <2>4 DEF NowStates
<1>10. ASSUME NEW b \in Builders, BuildInto(b), UNCHANGED runs
       PROVE  UNCHANGED <<result, captured>>
  BY <1>10
     DEF BuildInto, FindEmpty, PinInputs, Bind, Compile, PinImage, SaveBuild, BuildStops, evidence,
         runs
<1>11. ASSUME EditTree, UNCHANGED evidence, UNCHANGED runs PROVE UNCHANGED <<result, captured>>
  BY <1>11 DEF evidence, runs
<1>12. CASE UNCHANGED recordVars
  BY <1>4, <1>12 DEF recordVars, evidence, runs
<1> QED
  BY <1>4, <1>7, <1>8, <1>9, <1>10, <1>11, <1>12 DEF RecordNext, Accident

-----------------------------------------------------------------------------
\* While no file is touched, the steps are the builds' and the runs'.
LEMMA NoAccident ==
  ASSUME TreeTypes, [RecordNext]_recordVars, accidents' = 0
  PROVE  /\ accidents = 0 /\ UNCHANGED oneModel
         /\ \/ \E b \in Builders : BuildInto(b) /\ UNCHANGED runs
            \/ \E r \in Runners : RunFrom(r) /\ UNCHANGED <<tree, builds>>
            \/ UNCHANGED recordVars
<1>1. ASSUME Accident \/ Wipe PROVE FALSE
  BY <1>1 DEF Accident, Wipe, TreeTypes
<1> QED
  BY <1>1, Zenon DEF RecordNext, recordVars

\* A build that is under way has no directory a build has been saved in, unless it shares it.
LEMMA SavedElsewhere ==
  ASSUME BuilderTypes, LeftAlone, accidents = 0,
         NEW b \in Builders, builder[b] # "done", NEW d \in Dirs, BuiltOnce(d), doc[d] # Nothing
  PROVE  bdir[b] # d
BY DEF LeftAlone, BuiltOnce

\* A build alone in its directory stays alone backwards.
LEMMA BuiltOnceBefore ==
  ASSUME BuilderTypes, NEW b \in Builders, BuildInto(b), NEW d \in Dirs, BuiltOnce(d)'
  PROVE  BuiltOnce(d)
<1>1. CASE FindEmpty(b)
  <2>1. PICK x \in Dirs : bdir' = [bdir EXCEPT ![b] = x] /\ builder[b] = "look"
    BY <1>1 DEF FindEmpty, Builds
  <2>2. bdir[b] = Nothing
    BY <2>1 DEF BuilderTypes
  <2> QED
    BY <2>1, <2>2, RecordAssumptions DEF BuiltOnce, BuilderTypes
<1>2. CASE ~FindEmpty(b)
  BY <1>2 DEF BuildInto, PinInputs, Bind, Compile, PinImage, SaveBuild, BuildStops, BuiltOnce
<1> QED
  BY <1>1, <1>2

\* What a build has saved is left alone by the others, while it is alone in its directory.
LEMMA TreeStays ==
  ASSUME TreeTypes, BuilderTypes, LeftAlone, accidents = 0, NEW b \in Builders, BuildInto(b),
         NEW d \in Dirs, BuiltOnce(d)', doc[d] # Nothing
  PROVE  BuiltOnce(d) /\ doc'[d] = doc[d] /\ image'[d] = image[d] /\ inputs'[d] = inputs[d]
<1>1. BuiltOnce(d)
  BY BuiltOnceBefore
<1>2. builder[b] # "done"
  BY DEF BuildInto, FindEmpty, PinInputs, Bind, Compile, PinImage, SaveBuild, BuildStops, Builds
<1>3. bdir[b] # d
  BY <1>1, <1>2, SavedElsewhere
<1> QED
  BY <1>1, <1>3
     DEF BuildInto, FindEmpty, PinInputs, Bind, Compile, PinImage, SaveBuild, BuildStops,
         TreeTypes, tree

\* What one build saved stays verified while no file is touched.
LEMMA LeftAloneStep ==
  ASSUME TreeTypes, BuilderTypes, LeftAlone, [RecordNext]_recordVars
  PROVE  LeftAlone'
<1> SUFFICES ASSUME accidents' = 0, NEW d \in Dirs, BuiltOnce(d)', doc'[d] # Nothing
             PROVE  Verifies(doc[d], d)' /\ \E b \in Builders : bdir'[b] = d /\ builder'[b] = "done"
  BY DEF LeftAlone
<1>0. accidents = 0 /\ UNCHANGED oneModel
  BY NoAccident
<1>1. ASSUME NEW b \in Builders, BuildInto(b), doc[d] # Nothing
      PROVE  Verifies(doc[d], d)' /\ \E c \in Builders : bdir'[c] = d /\ builder'[c] = "done"
  <2>1. BuiltOnce(d) /\ doc'[d] = doc[d] /\ image'[d] = image[d] /\ inputs'[d] = inputs[d]
    BY <1>0, <1>1, TreeStays
  <2>2. Verifies(doc[d], d)
    BY <1>0, <1>1, <2>1 DEF LeftAlone
  <2>3. Verifies(doc[d], d)'
    BY <1>0, <2>1, <2>2 DEF Verifies, ModelOf
  <2>4. PICK c \in Builders : bdir[c] = d /\ builder[c] = "done"
    BY <1>0, <1>1, <2>1 DEF LeftAlone
  <2>5. b # c
    BY <1>1, <2>4
       DEF BuildInto, FindEmpty, PinInputs, Bind, Compile, PinImage, SaveBuild, BuildStops, Builds
  <2>6. bdir'[c] = d /\ builder'[c] = "done"
    BY <1>1, <2>4, <2>5
       DEF BuildInto, FindEmpty, PinInputs, Bind, Compile, PinImage, SaveBuild, BuildStops, Builds,
           BuilderTypes
  <2> QED
    BY <2>3, <2>6
<1>2. ASSUME NEW b \in Builders, BuildInto(b), doc[d] = Nothing
      PROVE  Verifies(doc[d], d)' /\ \E c \in Builders : bdir'[c] = d /\ builder'[c] = "done"
  <2>1. SaveBuild(b) /\ bdir[b] = d
    BY <1>2
       DEF BuildInto, FindEmpty, PinInputs, Bind, Compile, PinImage, SaveBuild, BuildStops,
           TreeTypes, tree
  <2>2. /\ doc'[d] = Document(b, pinned[b]) /\ Verifies(Document(b, pinned[b]), d)
        /\ UNCHANGED <<image, inputs>>
    BY <2>1 DEF SaveBuild, TreeTypes
  <2>3. Verifies(doc[d], d)'
    BY <1>0, <2>2 DEF Verifies, ModelOf
  <2>4. bdir'[b] = d /\ builder'[b] = "done"
    BY <2>1 DEF SaveBuild, Builds, BuilderTypes
  <2> QED
    BY <2>3, <2>4
<1>3. ASSUME UNCHANGED <<tree, builds>>
      PROVE  Verifies(doc[d], d)' /\ \E c \in Builders : bdir'[c] = d /\ builder'[c] = "done"
  BY <1>0, <1>3 DEF LeftAlone, Verifies, ModelOf, BuiltOnce, tree, builds
<1> QED
  BY <1>1, <1>2, <1>3, NoAccident DEF recordVars

\* What a run does to the evidence, seen from another run: its place stays as it was.
LEMMA RunOfOne ==
  ASSUME NEW r \in Runners, RunFrom(r)
  PROVE  \/ UNCHANGED evidence
         \/ Claim(r) \/ Capture(r) \/ SaveReference(r) \/ SaveResult(r)
BY DEF RunFrom, Pick, LoadBuild, RunStops

LEMMA OtherPlacesStay ==
  ASSUME EvidenceTypes, RunnerTypes, NEW r \in Runners, RunFrom(r),
         NEW d \in Dirs, NEW e \in Evidence, d # rdir[r] \/ e # rev[r]
  PROVE  /\ At(started', d, e) = At(started, d, e) /\ At(output', d, e) = At(output, d, e)
         /\ At(reference', d, e) = At(reference, d, e) /\ At(result', d, e) = At(result, d, e)
<1>1. CASE UNCHANGED evidence
  BY <1>1 DEF evidence
<1>2. CASE Claim(r)
  <2>1. rdir[r] \in Dirs /\ rev[r] \in Evidence
    BY <1>2 DEF Claim, Run, RunnerTypes
  <2> QED
    BY <1>2, <2>1, SetsAt DEF Claim, EvidenceTypes
<1>3. CASE Capture(r)
  <2>1. rdir[r] \in Dirs /\ rev[r] \in Evidence
    BY <1>3 DEF Capture, Run, RunnerTypes
  <2> QED
    BY <1>3, <2>1, SetsAt DEF Capture, EvidenceTypes
<1>4. CASE SaveReference(r)
  <2>1. rdir[r] \in Dirs /\ rev[r] \in Evidence
    BY <1>4 DEF SaveReference, Run, RunnerTypes
  <2> QED
    BY <1>4, <2>1, SetsAt DEF SaveReference, EvidenceTypes
<1>5. CASE SaveResult(r)
  <2>1. rdir[r] \in Dirs /\ rev[r] \in Evidence
    BY <1>5 DEF SaveResult, Run, RunnerTypes
  <2> QED
    BY <1>5, <2>1, SetsAt DEF SaveResult, EvidenceTypes
<1> QED
  BY <1>1, <1>2, <1>3, <1>4, <1>5, RunOfOne

\* What a run does to the evidence at its own place.
LEMMA OwnPlace ==
  ASSUME EvidenceTypes, RunnerTypes, EvidenceIsOwn, accidents = 0, NEW r \in Runners, RunFrom(r),
         Holder(r)'
  PROVE  /\ rdir[r] \in Dirs /\ rev[r] \in Evidence
         /\ rdir'[r] = rdir[r] /\ rev'[r] = rev[r] /\ held'[r] = held[r]
         /\ At(started', rdir[r], rev[r]) = r
         /\ At(result', rdir[r], rev[r]) = Nothing
         /\ runner'[r] = "capture" => At(output', rdir[r], rev[r]) = Nothing
         /\ runner'[r] # "save" => At(reference', rdir[r], rev[r]) = Nothing
<1> USE DEF EvidenceTypes
<1>0. Claim(r) \/ Capture(r) \/ SaveReference(r)
  BY DEF RunFrom, Pick, LoadBuild, SaveResult, RunStops, Run, Holder, RunnerTypes
<1>1. rdir[r] \in Dirs /\ rev[r] \in Evidence
  BY <1>0 DEF Claim, Capture, SaveReference, Run, RunnerTypes
<1>2. UNCHANGED <<rdir, rev, held>>
  BY <1>0 DEF Claim, Capture, SaveReference
<1>3. CASE Claim(r)
  <2>1. /\ At(started, rdir[r], rev[r]) = Nothing /\ started' = Sets(started, rdir[r], rev[r], r)
        /\ UNCHANGED <<output, reference, result>>
    BY <1>3 DEF Claim
  <2>2. /\ At(output, rdir[r], rev[r]) = Nothing /\ At(reference, rdir[r], rev[r]) = Nothing
        /\ At(result, rdir[r], rev[r]) = Nothing
    BY <1>1, <2>1 DEF EvidenceIsOwn, ClaimedFirst
  <2> QED
    BY <1>1, <1>2, <2>1, <2>2, SetsAt
<1>4. CASE Capture(r) \/ SaveReference(r)
  <2>1. FilledByItsRun(r) /\ UNCHANGED <<started, result>>
    BY <1>4 DEF EvidenceIsOwn, Holder, Capture, SaveReference, Run
  <2>2. runner'[r] # "capture" /\ (runner'[r] # "save" => UNCHANGED reference /\ runner[r] # "save")
    BY <1>4 DEF Capture, SaveReference, Run, RunnerTypes
  <2> QED
    BY <1>1, <1>2, <2>1, <2>2 DEF FilledByItsRun, Unwritten
<1> QED
  BY <1>0, <1>3, <1>4

LEMMA EvidenceOfBuild ==
  ASSUME TreeTypes, BuilderTypes, RunnerTypes, LeftAlone, EvidenceIsOwn, accidents = 0,
         accidents' = 0,
         NEW b \in Builders, BuildInto(b), UNCHANGED runs
  PROVE  EvidenceIsOwn'
<1>1. UNCHANGED evidence
  BY DEF BuildInto, FindEmpty, PinInputs, Bind, Compile, PinImage, SaveBuild, BuildStops
<1>2. ClaimedFirst' /\ SaysWhereItIs'
  BY <1>1 DEF EvidenceIsOwn, ClaimedFirst, SaysWhereItIs, evidence
<1>3. ASSUME NEW r \in Runners, Holder(r)' PROVE FilledByItsRun(r)' /\ BuildIsTheSame(r)'
  <2>1. Holder(r) /\ rdir[r] \in Dirs
    BY <1>3 DEF Holder, runs, RunnerTypes
  <2>2. FilledByItsRun(r)'
    BY <1>1, <2>1 DEF EvidenceIsOwn, FilledByItsRun, Unwritten, evidence, runs
  <2>3. ASSUME runner'[r] = "save", BuiltOnce(rdir[r])'
        PROVE  doc'[rdir'[r]] = held'[r] /\ held'[r] # Nothing
    <3>1. BuiltOnce(rdir[r])
      <4> DEFINE d == rdir[r]
      <4>1. d' = d
        BY DEF runs
      <4> HIDE DEF d
      <4>2. BuiltOnce(d)' => BuiltOnce(d)
        BY <2>1, <4>1, BuiltOnceBefore DEF BuiltOnce, d
      <4> QED
        BY <2>3, <4>2 DEF d
    <3>2. doc[rdir[r]] = held[r] /\ held[r] # Nothing
      BY <2>1, <2>3, <3>1 DEF EvidenceIsOwn, BuildIsTheSame, runs
    <3>3. bdir[b] # rdir[r]
      <4>1. builder[b] # "done"
        BY DEF BuildInto, FindEmpty, PinInputs, Bind, Compile, PinImage, SaveBuild, BuildStops,
               Builds
      <4> QED
        BY <2>1, <3>1, <3>2, <4>1, SavedElsewhere
    <3>4. doc'[rdir[r]] = doc[rdir[r]]
      BY <2>1, <3>3
         DEF BuildInto, FindEmpty, PinInputs, Bind, Compile, PinImage, SaveBuild, BuildStops,
             TreeTypes, tree
    <3> QED
      BY <3>2, <3>4 DEF runs
  <2> QED
    BY <2>2, <2>3 DEF BuildIsTheSame
<1> QED
  BY <1>2, <1>3 DEF EvidenceIsOwn

LEMMA EvidenceOfRun ==
  ASSUME EvidenceTypes, RunnerTypes, CapturesAreOwn, EvidenceIsOwn, accidents = 0,
         NEW r \in Runners, RunFrom(r), UNCHANGED <<tree, builds>>
  PROVE  EvidenceIsOwn'
<1>0. /\ ClaimedFirst /\ SaysWhereItIs
      /\ \A q \in Runners : Holder(q) => FilledByItsRun(q) /\ BuildIsTheSame(q)
  BY DEF EvidenceIsOwn
<1>1. ClaimedFirst'
  <2> SUFFICES ASSUME NEW d \in Dirs, NEW e \in Evidence, At(started', d, e) = Nothing
               PROVE  /\ At(output', d, e) = Nothing /\ At(reference', d, e) = Nothing
                      /\ At(result', d, e) = Nothing
    BY DEF ClaimedFirst, At
  <2>1. CASE d # rdir[r] \/ e # rev[r]
    BY <1>0, <2>1, OtherPlacesStay DEF ClaimedFirst
  <2>2. CASE d = rdir[r] /\ e = rev[r]
    <3>1. CASE UNCHANGED evidence
      BY <1>0, <3>1 DEF ClaimedFirst, evidence
    <3>2. CASE Claim(r)
      BY <2>2, <3>2, SetsAt, RecordAssumptions DEF Claim, EvidenceTypes
    <3>3. CASE Capture(r) \/ SaveReference(r) \/ SaveResult(r)
      <4>1. Holder(r) /\ UNCHANGED started
        BY <3>3 DEF Capture, SaveReference, SaveResult, Run, Holder
      <4> QED
        BY <1>0, <2>2, <4>1, RecordAssumptions DEF FilledByItsRun
    <3> QED
      BY <3>1, <3>2, <3>3, RunOfOne
  <2> QED
    BY <2>1, <2>2
<1>2. SaysWhereItIs'
  <2> SUFFICES ASSUME NEW d \in Dirs, NEW e \in Evidence, NEW x, x = At(result', d, e),
                      x # Nothing
               PROVE  x.capture.in = e /\ (x.compared # Nothing => x.compared.in = e)
    BY DEF SaysWhereItIs, At
  <2>1. CASE At(result', d, e) = At(result, d, e)
    BY <1>0, <2>1 DEF SaysWhereItIs
  <2>2. CASE At(result', d, e) # At(result, d, e)
    <3>1. d = rdir[r] /\ e = rev[r]
      BY <2>2, OtherPlacesStay
    <3>2. SaveResult(r)
      BY <2>2, RunOfOne DEF evidence, Claim, Capture, SaveReference
    <3>3. x = Recorded(r, d, e)
      BY <3>1, <3>2, SetsAt DEF SaveResult, EvidenceTypes
    <3> QED
      BY <3>3 DEF Recorded, Facts
  <2> QED
    BY <2>1, <2>2
<1>3. ASSUME NEW q \in Runners, q # r, Holder(q)' PROVE FilledByItsRun(q)' /\ BuildIsTheSame(q)'
  <2>1. /\ runner'[q] = runner[q] /\ rdir'[q] = rdir[q] /\ rev'[q] = rev[q] /\ held'[q] = held[q]
        /\ \A c \in captured' : c \in captured \/ c.by = r
    BY <1>3
       DEF RunFrom, Pick, LoadBuild, Claim, Capture, SaveReference, SaveResult, RunStops, Run,
           Ends, RunnerTypes
  <2>2. Holder(q) /\ rdir[q] \in Dirs /\ rev[q] \in Evidence
    BY <1>3, <2>1 DEF Holder, RunnerTypes
  <2>3. FilledByItsRun(q) /\ BuildIsTheSame(q)
    BY <1>0, <2>2
  <2>4. CASE rdir[q] # rdir[r] \/ rev[q] # rev[r]
    <3>1. /\ At(started', rdir[q], rev[q]) = At(started, rdir[q], rev[q])
          /\ At(output', rdir[q], rev[q]) = At(output, rdir[q], rev[q])
          /\ At(reference', rdir[q], rev[q]) = At(reference, rdir[q], rev[q])
          /\ At(result', rdir[q], rev[q]) = At(result, rdir[q], rev[q])
      BY <2>2, <2>4, OtherPlacesStay
    <3>2. FilledByItsRun(q)'
      BY <1>3, <2>1, <2>3, <3>1 DEF FilledByItsRun, Unwritten, At
    <3>3. BuildIsTheSame(q)'
      BY <2>1, <2>3 DEF BuildIsTheSame, BuiltOnce, tree, builds
    <3> QED
      BY <3>2, <3>3
  <2>5. CASE rdir[q] = rdir[r] /\ rev[q] = rev[r]
    <3>1. ~Holder(r)
      BY <1>0, <1>3, <2>3, <2>5 DEF FilledByItsRun
    <3>2. ~Claim(r)
      BY <2>3, <2>5, RecordAssumptions DEF Claim, FilledByItsRun
    <3>3. UNCHANGED evidence
      BY <3>1, <3>2, RunOfOne DEF Capture, SaveReference, SaveResult, Run, Holder
    <3>4. FilledByItsRun(q)'
      BY <1>3, <2>1, <2>3, <3>3 DEF FilledByItsRun, Unwritten, At, evidence
    <3>5. BuildIsTheSame(q)'
      BY <2>1, <2>3 DEF BuildIsTheSame, BuiltOnce, tree, builds
    <3> QED
      BY <3>4, <3>5
  <2> QED
    BY <2>4, <2>5
<1>4. ASSUME Holder(r)' PROVE FilledByItsRun(r)' /\ BuildIsTheSame(r)'
  <2>0. /\ rdir[r] \in Dirs /\ rev[r] \in Evidence
        /\ rdir'[r] = rdir[r] /\ rev'[r] = rev[r] /\ held'[r] = held[r]
        /\ At(started', rdir[r], rev[r]) = r
        /\ At(result', rdir[r], rev[r]) = Nothing
        /\ runner'[r] = "capture" => At(output', rdir[r], rev[r]) = Nothing
        /\ runner'[r] # "save" => At(reference', rdir[r], rev[r]) = Nothing
    BY <1>4, OwnPlace
  <2>1. ASSUME runner'[r] = "save"
        PROVE  SaveReference(r)
    BY <2>1
       DEF RunFrom, Pick, LoadBuild, Claim, Capture, SaveReference, SaveResult, RunStops, Run,
           RunnerTypes
  <2>2. ASSUME runner'[r] = "save", At(reference', rdir[r], rev[r]) # Nothing
        PROVE  \A c \in captured' : c.by = r => c.ok
    <3>1. SaveReference(r) /\ runner[r] = "compare" /\ UNCHANGED captured
      BY <2>1, <2>2 DEF SaveReference, Run
    <3>2. At(reference, rdir[r], rev[r]) = Nothing
      BY <1>0, <3>1 DEF Holder, FilledByItsRun, Unwritten
    <3>3. CaptureOf(r).ok
      BY <2>2, <3>1, <3>2 DEF SaveReference
    <3> QED
      BY <3>1, <3>3, TheCapture
  <2>3. FilledByItsRun(r)'
    BY <2>0, <2>2 DEF FilledByItsRun, Unwritten, At
  <2>4. ASSUME runner'[r] = "save" PROVE doc'[rdir'[r]] = held'[r] /\ held'[r] # Nothing
    BY <2>0, <2>1, <2>4 DEF SaveReference, tree
  <2> QED
    BY <2>3, <2>4 DEF BuildIsTheSame
<1> QED
  BY <1>1, <1>2, <1>3, <1>4 DEF EvidenceIsOwn

\* A claimed evidence directory is filled by its run alone, whoever moves.
LEMMA EvidenceIsOwnStep ==
  ASSUME RecordTypes, CapturesAreOwn, LeftAlone, EvidenceIsOwn, [RecordNext]_recordVars
  PROVE  EvidenceIsOwn'
<1> USE DEF RecordTypes
<1>1. CASE UNCHANGED recordVars
  BY <1>1
     DEF recordVars, tree, evidence, runs, builds, EvidenceIsOwn, ClaimedFirst, SaysWhereItIs,
         Holder,
              FilledByItsRun, BuildIsTheSame, Unwritten, BuiltOnce, At
<1>2. CASE accidents' # 0
  BY <1>2 DEF EvidenceIsOwn
<1>3. CASE accidents' = 0
  BY <1>1, <1>3, NoAccident, EvidenceOfBuild, EvidenceOfRun
<1> QED
  BY <1>2, <1>3

\* Whether a result loads depends on its own files and on those of the tree it is kept with.
LEMMA LoadsStay ==
  ASSUME NEW d \in Dirs, NEW e \in Evidence, At(result, d, e) # Nothing, Loads(d, e),
         SaysWhereItIs,
         At(result', d, e) = At(result, d, e), At(output', d, e) = At(output, d, e),
         At(reference', d, e) = At(reference, d, e),
         doc'[d] = doc[d], image'[d] = image[d], inputs'[d] = inputs[d], UNCHANGED oneModel
  PROVE  Loads(d, e)'
<1>1. PICK x : x = At(result, d, e) /\ x # Nothing
  OBVIOUS
<1>2. x.capture.in = e /\ (x.compared # Nothing => x.compared.in = e)
  BY <1>1 DEF SaysWhereItIs
<1>3. /\ x.at = e /\ doc[d] # Nothing /\ doc[d] = x.build /\ Verifies(doc[d], d)
      /\ Pinned(x.capture, d)
      /\ x.identity = <<doc[d].image, doc[d].plan, x.capture.by, x.capture.ok, x.capture.out>>
      /\ Compares(x, d)
  BY <1>1 DEF Loads
<1>4. Verifies(doc[d], d)'
  BY <1>3 DEF Verifies, ModelOf
<1>5. Pinned(x.capture, d)'
  BY <1>2, <1>3 DEF Pinned, At
<1>6. Compares(x, d)'
  BY <1>2, <1>3 DEF Compares, At
<1>7. At(result, d, e)' = x
  BY <1>1 DEF At
<1> HIDE <1>1
<1> QED
  BY <1>1, <1>3, <1>4, <1>5, <1>6, <1>7 DEF Loads

\* A result loads when it has just been saved.
LEMMA SavedAndLoads ==
  ASSUME EvidenceTypes, RunnerTypes, CapturesAreOwn, LeftAlone, EvidenceIsOwn, accidents = 0,
         NEW r \in Runners, SaveResult(r), UNCHANGED <<tree, oneModel>>,
         NEW d \in Dirs, NEW e \in Evidence, d = rdir[r], e = rev[r], BuiltOnce(d),
         At(result', d, e) # Nothing
  PROVE  Loads(d, e)'
<1>1. runner[r] = "save"
  BY DEF SaveResult, Run
<1>2. FilledByItsRun(r) /\ doc[d] = held[r] /\ doc[d] # Nothing
  BY <1>1 DEF EvidenceIsOwn, Holder, BuildIsTheSame
<1>3. Verifies(doc[d], d)
  BY <1>2 DEF LeftAlone
<1>4. result' = Sets(result, d, e, Recorded(r, d, e)) /\ UNCHANGED <<output, reference>>
  BY DEF SaveResult
<1>5. At(result', d, e) = Recorded(r, d, e)
  BY <1>4, SetsAt DEF EvidenceTypes
<1>6. CaptureOf(r) \in captured /\ CaptureOf(r).by = r
  BY <1>1, TheCapture
<1>7. At(reference, d, e) # Nothing => CaptureOf(r).ok
  BY <1>1, <1>2, <1>6 DEF FilledByItsRun, Unwritten
<1>8. PICK y : y = Recorded(r, d, e)
  OBVIOUS
<1>9. /\ y.at = e /\ y.build = doc[d] /\ y.capture = Facts(r, d, e)
      /\ y.identity = <<doc[d].image, doc[d].plan, y.capture.by, y.capture.ok, y.capture.out>>
      /\ y.compared # Nothing =>
           /\ At(reference, d, e) # Nothing
           /\ y.compared = [in |-> e, with |-> At(reference, d, e),
                            says |-> <<y.capture.out, At(reference, d, e)>>]
  BY <1>2, <1>8 DEF Recorded, Facts
<1>10. y.capture.ok = CaptureOf(r).ok /\ y.capture.in = e /\ y.capture.out = At(output, d, e)
  BY <1>9 DEF Facts
<1>11. At(result, d, e)' = y /\ y # Nothing
  BY <1>5, <1>8 DEF At
<1>12. Verifies(doc[d], d)'
  BY <1>3 DEF Verifies, ModelOf, tree
<1>13. Pinned(y.capture, d)'
  BY <1>4, <1>10 DEF Pinned, At
<1>14. Compares(y, d)'
  <2> SUFFICES ASSUME y.compared # Nothing
               PROVE  /\ y.capture.ok /\ At(reference', d, y.compared.in) = y.compared.with
                      /\ y.compared.says = <<y.capture.out, y.compared.with>>
    BY DEF Compares, At
  <2> QED
    BY <1>4, <1>7, <1>9, <1>10
<1>15. doc'[d] = doc[d]
  BY DEF tree
<1> HIDE <1>8
<1> QED
  BY <1>2, <1>9, <1>11, <1>12, <1>13, <1>14, <1>15 DEF Loads

\* What was saved and left alone loads after a step.
LEMMA SavedLoadsStep ==
  ASSUME RecordTypes, CapturesAreOwn, LeftAlone, EvidenceIsOwn, SavedLoads,
         [RecordNext]_recordVars
  PROVE  SavedLoads'
<1> USE DEF RecordTypes
<1> SUFFICES ASSUME accidents' = 0, NEW d \in Dirs, BuiltOnce(d)', NEW e \in Evidence,
                    At(result', d, e) # Nothing
             PROVE  Loads(d, e)'
  BY DEF SavedLoads, At
<1>0. accidents = 0 /\ UNCHANGED oneModel /\ SaysWhereItIs
  BY NoAccident DEF EvidenceIsOwn
<1>1. ASSUME NEW b \in Builders, BuildInto(b), UNCHANGED runs PROVE Loads(d, e)'
  <2>1. UNCHANGED evidence
    BY <1>1 DEF BuildInto, FindEmpty, PinInputs, Bind, Compile, PinImage, SaveBuild, BuildStops
  <2>2. At(result, d, e) # Nothing
    BY <2>1 DEF evidence
  <2>3. BuiltOnce(d)
    BY <1>1, BuiltOnceBefore
  <2>4. Loads(d, e)
    BY <1>0, <2>2, <2>3 DEF SavedLoads
  <2>5. doc[d] # Nothing
    BY <2>4 DEF Loads
  <2>6. doc'[d] = doc[d] /\ image'[d] = image[d] /\ inputs'[d] = inputs[d]
    BY <1>0, <1>1, <2>5, TreeStays
  <2> QED
    BY <1>0, <2>1, <2>2, <2>4, <2>6, LoadsStay DEF evidence
<1>2. ASSUME NEW r \in Runners, RunFrom(r), UNCHANGED <<tree, builds>> PROVE Loads(d, e)'
  <2>0. BuiltOnce(d) /\ doc'[d] = doc[d] /\ image'[d] = image[d] /\ inputs'[d] = inputs[d]
    BY <1>2 DEF BuiltOnce, tree, builds
  <2>1. CASE At(result, d, e) # Nothing
    <3>1. Loads(d, e)
      BY <1>0, <2>0, <2>1 DEF SavedLoads
    <3>2. /\ At(result', d, e) = At(result, d, e) /\ At(output', d, e) = At(output, d, e)
          /\ At(reference', d, e) = At(reference, d, e)
      <4>1. CASE d # rdir[r] \/ e # rev[r]
        BY <1>2, <4>1, OtherPlacesStay
      <4>2. CASE d = rdir[r] /\ e = rev[r]
        <5>1. ~Holder(r)
          BY <1>0, <2>1, <4>2 DEF EvidenceIsOwn, FilledByItsRun, Unwritten
        <5>2. UNCHANGED <<output, reference, result>>
          BY <1>2, <5>1, RunOfOne
             DEF Claim, Capture, SaveReference, SaveResult, Run, Holder, evidence
        <5> QED
          BY <5>2
      <4> QED
        BY <4>1, <4>2
    <3> QED
      BY <1>0, <2>0, <2>1, <3>1, <3>2, LoadsStay
  <2>2. CASE At(result, d, e) = Nothing
    <3>1. SaveResult(r)
      BY <1>2, <2>2, RunOfOne DEF Claim, Capture, SaveReference, evidence
    <3>2. d = rdir[r] /\ e = rev[r]
      BY <1>2, <2>2, OtherPlacesStay
    <3>3. Loads(d, e)'
      BY <1>0, <1>2, <2>0, <3>1, <3>2, SavedAndLoads
    <3> QED
      BY <3>3
  <2> QED
    BY <2>1, <2>2
<1>3. CASE UNCHANGED recordVars
  <2>1. At(result, d, e) # Nothing /\ BuiltOnce(d)
    BY <1>3 DEF recordVars, evidence, builds, BuiltOnce
  <2>2. Loads(d, e)
    BY <1>0, <2>1 DEF SavedLoads
  <2> QED
    BY <1>0, <1>3, <2>1, <2>2, LoadsStay DEF recordVars, tree, evidence
<1> QED
  BY <1>1, <1>2, <1>3, NoAccident

-----------------------------------------------------------------------------
LEMMA InitRecord ==
  ASSUME RecordInit
  PROVE  RecordIInv
<1>1. RecordTypes
  BY RecordAssumptions
     DEF RecordInit, RecordTypes, TreeTypes, EvidenceTypes, PerEvidence, BuilderTypes, RunnerTypes
<1>2. BuildIsOwn /\ SumsAreTrue
  BY DEF RecordInit, BuildIsOwn, SumsAreTrue
<1>3. CapturesAreOwn
  BY DEF RecordInit, CapturesAreOwn
<1>4. \A d \in Dirs, e \in Evidence :
        /\ At(started, d, e) = Nothing /\ At(output, d, e) = Nothing
        /\ At(reference, d, e) = Nothing /\ At(result, d, e) = Nothing
  BY DEF RecordInit, At
<1>5. IdentitiesAreTrue /\ SavedLoads
  BY <1>4 DEF IdentitiesAreTrue, SavedLoads
<1>6. LeftAlone
  BY DEF RecordInit, LeftAlone
<1>7. EvidenceIsOwn
  BY <1>4 DEF RecordInit, EvidenceIsOwn, ClaimedFirst, SaysWhereItIs, Holder
<1> QED
  BY <1>1, <1>2, <1>3, <1>5, <1>6, <1>7 DEF RecordIInv

\* The inductive invariant holds throughout: for any directories, builds and runs, overlapping and
\* stopping anywhere, and any number of files edited, mixed up or wiped.
THEOREM RecordInvariance == RecordSpec => []RecordIInv
<1>1. RecordIInv /\ [RecordNext]_recordVars => RecordIInv'
  BY TreeTypesStep, BuilderTypesStep, RunnerTypesStep, EvidenceTypesStep, BuildIsOwnStep, SumsStep,
     CapturesStep, IdentitiesStep, LeftAloneStep, EvidenceIsOwnStep, SavedLoadsStep
  DEF RecordIInv, RecordTypes
<1> QED
  BY <1>1, InitRecord, PTL DEF RecordSpec

\* A result that loads is that of one capture, made from the image that is there, which was
\* compiled from the plan and the model its build names, whatever was edited or mixed up; and
\* what was saved and left alone, one build in its directory, loads.
THEOREM RecordIsTrue == RecordSpec => []RecordHolds
<1>1. ASSUME SumsAreTrue, IdentitiesAreTrue, NEW d \in Dirs, NEW e \in Evidence, Loads(d, e)
      PROVE  LET r == At(result, d, e) IN
               /\ image[d] = Compiled(doc[d].plan, ModelOf(doc[d].plan))
               /\ \E c \in captured :
                    /\ c.by = r.capture.by /\ c.ok = r.capture.ok /\ c.image = image[d]
                    /\ c.ok => At(output, d, r.capture.in) = c.by
  <2>1. PICK x : x = At(result, d, e)
    OBVIOUS
  <2>2. /\ x # Nothing /\ doc[d] # Nothing /\ Verifies(doc[d], d) /\ Pinned(x.capture, d)
        /\ x.identity = <<doc[d].image, doc[d].plan, x.capture.by, x.capture.ok, x.capture.out>>
    BY <1>1, <2>1 DEF Loads
  <2>3. PICK b \in Builders : doc[d].sum = <<b, Compiled(b, ModelOf(b)), ModelOf(b)>>
    BY <1>1, <2>2 DEF SumsAreTrue, Sums
  <2>4. doc[d].plan = b /\ image[d] = Compiled(b, ModelOf(b)) /\ doc[d].image = image[d]
    BY <2>2, <2>3 DEF Verifies
  <2>5. TrueIdentity(x.identity)
    BY <1>1, <2>1, <2>2 DEF IdentitiesAreTrue
  <2>6. PICK c \in captured :
          /\ doc[d].image = c.image /\ x.capture.by = c.by /\ x.capture.ok = c.ok
          /\ c.ok => x.capture.out = c.by
    BY <2>2, <2>5 DEF TrueIdentity
  <2>7. c.ok => At(output, d, x.capture.in) = c.by
    BY <2>2, <2>6 DEF Pinned
  <2> QED
    BY <2>1, <2>4, <2>6, <2>7
<1>2. RecordIInv => RecordHolds
  BY <1>1, Zenon DEF RecordIInv, RecordHolds, LoadedIsTrue
<1> QED
  BY <1>2, RecordInvariance, PTL

-----------------------------------------------------------------------------
(* The run plan: what the intent pins of what a build reads. *)

LEMMA WorldFields ==
  ASSUME NEW w \in WorldTypes
  PROVE  /\ w.trees \in [Trees -> Nat]
         /\ w.cmsis \in {""} \cup Trees /\ w.rtSource \in {""} \cup Trees
         /\ w.rtDist \in {""} \cup Trees
         /\ w.sidecar \in {"none", "arm", "ns"}
BY DEF WorldTypes

\* A world with its trees and floating names levelled differs in nothing else.
LEMMA AlikeFields ==
  ASSUME NEW w \in WorldTypes
  PROVE  /\ Alike(w).trees = [d \in Trees |-> 1] /\ Alike(w).newest = 1
         /\ Alike(w).model = w.model /\ Alike(w).sidecar = w.sidecar /\ Alike(w).file = w.file
         /\ Alike(w).cmsis = w.cmsis /\ Alike(w).rtSource = w.rtSource
         /\ Alike(w).rtDist = w.rtDist /\ Alike(w).flags = w.flags
         /\ Alike(w).compiler = w.compiler /\ Alike(w).aot = w.aot
         /\ Alike(w).baseline = w.baseline
BY DEF WorldTypes, Alike

SettingFields(s) ==
  /\ s.engine \in EngineTypes /\ s.backend \in {"", "ns"} /\ s.configFile \in BOOLEAN
  /\ s.source \in {""} \cup Trees /\ s.dist \in {""} \cup Trees /\ s.release \in BOOLEAN
  /\ s.cmsisPath \in {""} \cup Trees /\ s.cmsisRef \in {"", "commit", "branch"}
  /\ s.module \in {"", "commit", "tag"} \cup Trees

LEMMA SettingIsTyped ==
  ASSUME NEW s \in SettingTypes
  PROVE  SettingFields(s)
BY DEF SettingTypes, SettingFields

\* Two intents are the same if they say the same of everything.
LEMMA IntentFields ==
  ASSUME NEW s, NEW v, NEW w, Intent(s, v) = Intent(s, w)
  PROVE  /\ v.model = w.model /\ v.baseline = w.baseline /\ v.compiler = w.compiler
         /\ v.flags = w.flags
         /\ LocalTrees(s, v) = LocalTrees(s, w) /\ LocalFiles(s, v) = LocalFiles(s, w)
         /\ FrozenRuntime(s, v) = FrozenRuntime(s, w)
<1> DEFINE i(x) == Intent(s, x)
<1>1. \A x : /\ i(x).model = x.model /\ i(x).baseline = x.baseline
             /\ i(x).compiler = x.compiler /\ i(x).environment = x.flags
             /\ i(x).trees = LocalTrees(s, x) /\ i(x).files = LocalFiles(s, x)
             /\ i(x).runtime = FrozenRuntime(s, x)
  BY DEF Intent
<1>2. i(v) = i(w)
  OBVIOUS
<1> HIDE DEF i
<1> QED
  BY <1>1, <1>2, Zenon

\* The files are held by what they are for.
LEMMA FilesPin ==
  ASSUME NEW s, NEW v, NEW w, LocalFiles(s, v) = LocalFiles(s, w)
  PROVE  /\ s.configFile => v.file = w.file
         /\ s.engine = "executorch" => v.sidecar = w.sidecar
<1>1. ASSUME NEW x, NEW f
      PROVE  /\ <<"engine.config_path", f>> \in LocalFiles(s, x) <=> s.configFile /\ f = x.file
             /\ <<"model.sidecar", f>> \in LocalFiles(s, x)
                  <=> s.engine = "executorch" /\ x.sidecar # "none" /\ f = x.sidecar
  BY DEF LocalFiles
<1>3. s.engine = "executorch" => v.sidecar = w.sidecar
  BY <1>1
<1>4. s.configFile => v.file = w.file
  BY <1>1
<1> QED
  BY <1>3, <1>4

\* The directories are held by who named them.
LEMMA NamedTrees ==
  ASSUME NEW s, NEW x, NEW d
  PROVE  /\ <<"env.CMSIS_NN_PATH", d>> \in LocalTrees(s, x) <=>
              /\ s.engine # "litert" /\ d = x.cmsis
              /\ CmsisOverride(s, x, Provider(s, x)).by = "env.CMSIS_NN_PATH"
         /\ <<"env.HELIART_SOURCE_PATH", d>> \in LocalTrees(s, x) <=>
              s.engine = "helia-rt" /\ s.source = "" /\ x.rtSource # "" /\ d = x.rtSource
         /\ <<"env.HELIART_DIST_PATH", d>> \in LocalTrees(s, x) <=>
              /\ s.engine = "helia-rt" /\ s.source = "" /\ x.rtSource = "" /\ x.rtDist # ""
              /\ s.dist = "" /\ d = x.rtDist
BY DEF LocalTrees, SourceVariables, RtVariable

\* What a build reads of a world apart from trees and floating names.
ReadsAlike(s, v, w) ==
  /\ v.baseline = w.baseline /\ Provider(s, v) = Provider(s, w)
  /\ s.engine # "litert" =>
       CmsisOverride(s, v, Provider(s, v)) = CmsisOverride(s, w, Provider(s, w))
  /\ s.engine = "helia-rt" => /\ RtSource(s, v) = RtSource(s, w)
                              /\ RtSource(s, v) = "" => RtDist(s, v) = RtDist(s, w)
  /\ s.engine = "helia-aot" => v.aot = w.aot

LEMMA IntentPinsReads ==
  ASSUME NEW s, NEW v, NEW w, Intent(s, v) = Intent(s, w)
  PROVE  ReadsAlike(s, v, w)
<1>1. /\ v.baseline = w.baseline /\ LocalTrees(s, v) = LocalTrees(s, w)
      /\ LocalFiles(s, v) = LocalFiles(s, w) /\ FrozenRuntime(s, v) = FrozenRuntime(s, w)
  BY IntentFields
<1>2. Provider(s, v) = Provider(s, w)
  BY <1>1, FilesPin DEF Provider
<1>3. ASSUME s.engine # "litert"
      PROVE  CmsisOverride(s, v, Provider(s, v)) = CmsisOverride(s, w, Provider(s, w))
  <2>1. \A d : <<"env.CMSIS_NN_PATH", d>> \in LocalTrees(s, v)
                 <=> <<"env.CMSIS_NN_PATH", d>> \in LocalTrees(s, w)
    BY <1>1
  <2>2. CmsisOverride(s, v, Provider(s, v)).by = "env.CMSIS_NN_PATH"
          => v.cmsis = w.cmsis /\ CmsisOverride(s, w, Provider(s, w)).by = "env.CMSIS_NN_PATH"
    BY <1>3, <2>1, NamedTrees
  <2>3. CmsisOverride(s, w, Provider(s, w)).by = "env.CMSIS_NN_PATH"
          => v.cmsis = w.cmsis /\ CmsisOverride(s, v, Provider(s, v)).by = "env.CMSIS_NN_PATH"
    BY <1>3, <2>1, NamedTrees
  <2> QED
    BY <1>2, <2>2, <2>3 DEF CmsisOverride
<1>4. ASSUME s.engine = "helia-rt"
      PROVE  /\ RtSource(s, v) = RtSource(s, w)
             /\ RtSource(s, v) = "" => RtDist(s, v) = RtDist(s, w)
  <2>1. \A d : /\ <<"env.HELIART_SOURCE_PATH", d>> \in LocalTrees(s, v)
                    <=> <<"env.HELIART_SOURCE_PATH", d>> \in LocalTrees(s, w)
               /\ <<"env.HELIART_DIST_PATH", d>> \in LocalTrees(s, v)
                    <=> <<"env.HELIART_DIST_PATH", d>> \in LocalTrees(s, w)
    BY <1>1
  <2>2. s.source = "" => v.rtSource = w.rtSource
    BY <1>4, <2>1, NamedTrees
  <2>3. s.source = "" /\ v.rtSource = "" /\ s.dist = "" => v.rtDist = w.rtDist
    BY <1>4, <2>1, <2>2, NamedTrees
  <2> QED
    BY <2>2, <2>3 DEF RtSource, RtDist
<1>5. s.engine = "helia-aot" => v.aot = w.aot
  BY <1>1 DEF FrozenRuntime
<1> QED
  BY <1>1, <1>2, <1>3, <1>4, <1>5 DEF ReadsAlike

\* A build reads no more: where the trees hold the same and the names mean the same, so does it.
LEMMA ReadsDecideEngine ==
  ASSUME NEW s, s.engine \in EngineTypes, NEW v, NEW w,
         ReadsAlike(s, v, w), v.trees = w.trees, v.newest = w.newest
  PROVE  Engine(s, v) = Engine(s, w) /\ Module(s, v) = Module(s, w)
<1>1. /\ \A d : Tree(v, d) = Tree(w, d)
      /\ Floating(v) = Floating(w) /\ AtBaseline(v) = AtBaseline(w)
  BY DEF Tree, Floating, AtBaseline, ReadsAlike
<1>2. s.engine # "litert" => Kernels(s, v) = Kernels(s, w)
  BY <1>1 DEF Kernels, ReadsAlike
<1>3. s.engine = "helia-rt" => RtEngine(s, v) = RtEngine(s, w)
  <2>1. s.engine = "helia-rt" => Provider(s, v) = "ns" /\ Provider(s, w) = "ns"
    BY DEF Provider
  <2> QED
    BY <1>1, <1>2, <2>1 DEF RtEngine, ReadsAlike
<1>4. Engine(s, v) = Engine(s, w)
  <2>1. CASE s.engine = "helia-rt"
    BY <1>3, <2>1 DEF Engine
  <2>2. CASE s.engine = "litert"
    BY <1>1, <2>2 DEF Engine
  <2>3. CASE s.engine = "helia-aot"
    BY <1>2, <2>3 DEF Engine, ReadsAlike
  <2>4. CASE s.engine = "executorch"
    BY <1>1, <1>2, <2>4 DEF Engine
  <2> QED
    BY <2>1, <2>2, <2>3, <2>4 DEF EngineTypes
<1>5. Module(s, v) = Module(s, w)
  BY <1>1 DEF Module
<1> QED
  BY <1>4, <1>5

LEMMA AlikeReads ==
  ASSUME NEW s, NEW v \in WorldTypes, NEW w \in WorldTypes, ReadsAlike(s, v, w)
  PROVE  ReadsAlike(s, Alike(v), Alike(w))
<1>1. \A x \in WorldTypes :
        /\ Provider(s, Alike(x)) = Provider(s, x)
        /\ RtSource(s, Alike(x)) = RtSource(s, x) /\ RtDist(s, Alike(x)) = RtDist(s, x)
        /\ \A p : CmsisOverride(s, Alike(x), p) = CmsisOverride(s, x, p)
        /\ Alike(x).baseline = x.baseline /\ Alike(x).aot = x.aot
  <2> SUFFICES ASSUME NEW x \in WorldTypes
               PROVE  /\ Provider(s, Alike(x)) = Provider(s, x)
                      /\ RtSource(s, Alike(x)) = RtSource(s, x)
                      /\ RtDist(s, Alike(x)) = RtDist(s, x)
                      /\ \A p : CmsisOverride(s, Alike(x), p) = CmsisOverride(s, x, p)
                      /\ Alike(x).baseline = x.baseline /\ Alike(x).aot = x.aot
    OBVIOUS
  <2> QED
    BY AlikeFields DEF Provider, RtSource, RtDist, CmsisOverride
<1> QED
  BY <1>1 DEF ReadsAlike

\* What a plan says of a run decides the firmware, up to what trees and floating names hold.
THEOREM IntentPinsFirmware ==
  ASSUME NEW s \in SettingTypes, NEW v \in WorldTypes, NEW w \in WorldTypes,
         Intent(s, v) = Intent(s, w)
  PROVE  Firmware(s, Alike(v)) = Firmware(s, Alike(w))
<1>1. ReadsAlike(s, Alike(v), Alike(w))
  BY IntentPinsReads, AlikeReads
<1>2. Engine(s, Alike(v)) = Engine(s, Alike(w)) /\ Module(s, Alike(v)) = Module(s, Alike(w))
  <2>1. s.engine \in EngineTypes
    BY SettingIsTyped DEF SettingFields
  <2>2. Alike(v).trees = Alike(w).trees /\ Alike(v).newest = Alike(w).newest
    BY AlikeFields
  <2> QED
    BY <1>1, <2>1, <2>2, ReadsDecideEngine, Zenon
<1>3. Provider(s, Alike(v)) = Provider(s, Alike(w))
  BY <1>1 DEF ReadsAlike
<1>4. /\ v.model = w.model /\ v.baseline = w.baseline /\ v.compiler = w.compiler /\ v.flags = w.flags
      /\ s.configFile => v.file = w.file
      /\ s.engine = "executorch" => v.sidecar = w.sidecar
  BY IntentFields, FilesPin
<1> QED
  BY <1>2, <1>3, <1>4, AlikeFields DEF Firmware

\* A portable plan names no tree and nothing that floats, and pins it to the byte.
THEOREM PortableIsExact ==
  ASSUME NEW s \in SettingTypes, NEW v \in WorldTypes, NEW w \in WorldTypes,
         Intent(s, v) = Intent(s, w), Portable(Intent(s, w))
  PROVE  Firmware(s, v) = Firmware(s, w)
<1>1. /\ LocalTrees(s, v) = {} /\ LocalTrees(s, w) = {}
      /\ s.cmsisRef # "branch" /\ ~s.release /\ s.module # "tag"
  <2>1. Intent(s, w).trees = LocalTrees(s, w) /\ Intent(s, w).settings = [s EXCEPT !.local = 0]
    BY DEF Intent
  <2> DEFINE t == [s EXCEPT !.local = 0]
  <2>2. t.cmsisRef = s.cmsisRef /\ t.release = s.release /\ t.module = s.module
    BY DEF SettingTypes
  <2>3. Intent(s, w).trees = {} /\ ~FloatingSelectors(Intent(s, w).settings)
    BY Zenon DEF Portable
  <2>4. LocalTrees(s, v) = LocalTrees(s, w)
    BY IntentFields, Zenon
  <2>5. ~FloatingSelectors(t)
    BY <2>1, <2>3, Zenon
  <2> HIDE DEF t
  <2>6. s.cmsisRef # "branch" /\ ~s.release /\ s.module # "tag"
    BY <2>2, <2>5, Zenon DEF FloatingSelectors
  <2> QED
    BY <2>1, <2>3, <2>4, <2>6, Zenon
<1>2. SettingFields(s)
  BY SettingIsTyped
<1>3. ReadsAlike(s, v, w)
  BY IntentPinsReads
<1>4. /\ s.source = "" /\ s.cmsisPath = "" /\ s.module \notin Trees
      /\ SourceVariables(s, v) = {} /\ SourceVariables(s, w) = {}
  <2>1. s.source = ""
    BY <1>1 DEF LocalTrees
  <2>2. s.cmsisPath = ""
    BY <1>1 DEF LocalTrees
  <2>3. s.module \notin Trees
    BY <1>1 DEF LocalTrees
  <2>4. SourceVariables(s, v) = {} /\ SourceVariables(s, w) = {}
    BY <1>1 DEF LocalTrees
  <2> QED
    BY <2>1, <2>2, <2>3, <2>4
<1>7. ASSUME s.engine # "litert"
      PROVE  /\ CmsisOverride(s, w, Provider(s, w)).by # "env.CMSIS_NN_PATH"
             /\ CmsisOverride(s, v, Provider(s, v)).by # "env.CMSIS_NN_PATH"
  BY <1>1, <1>7, NamedTrees
<1>8. ASSUME s.engine = "helia-rt"
      PROVE  /\ RtSource(s, w) = "" /\ RtSource(s, v) = ""
             /\ RtDist(s, w) = "" /\ RtDist(s, v) = ""
  <2>1. v.rtSource = "" /\ w.rtSource = ""
    BY <1>1, <1>4, <1>8, NamedTrees
  <2>2. ~FromSource(s, v) /\ ~FromSource(s, w)
    BY <1>4, <2>1 DEF FromSource, RtSource
  <2>3. s.dist = ""
    BY <1>1, <2>2 DEF LocalTrees
  <2>4. v.rtDist = "" /\ w.rtDist = ""
    BY <1>1, <1>4, <1>8, <2>1, <2>3, NamedTrees
  <2> QED
    BY <1>4, <2>1, <2>3, <2>4 DEF RtSource, RtDist
<1>9. AtBaseline(v) = AtBaseline(w)
  BY <1>3 DEF AtBaseline, ReadsAlike
<1>10. ASSUME s.engine # "litert" PROVE Kernels(s, v) = Kernels(s, w)
  <2>1. CmsisOverride(s, v, Provider(s, v)) = CmsisOverride(s, w, Provider(s, w))
    BY <1>3, <1>10 DEF ReadsAlike
  <2>2. CmsisOverride(s, w, Provider(s, w)).path = ""
    BY <1>4, <1>7, <1>10 DEF CmsisOverride
  <2>3. s.cmsisRef \in {"", "commit"}
    BY <1>1, <1>2 DEF SettingFields
  <2>4. CmsisOverride(s, w, Provider(s, w)).by = "engine.config.cmsis_nn_ref"
          => s.cmsisRef = "commit"
    BY <2>3 DEF CmsisOverride
  <2> QED
    BY <1>9, <2>1, <2>2, <2>4 DEF Kernels
<1>11. Engine(s, v) = Engine(s, w)
  <2>1. CASE s.engine = "helia-rt"
    <3>1. Kernels(s, v) = Kernels(s, w)
      BY <1>10, <2>1
    <3> QED
      BY <1>1, <1>8, <1>9, <2>1, <3>1 DEF Engine, RtEngine
  <2>2. CASE s.engine = "litert"
    BY <1>9, <2>2 DEF Engine
  <2>3. CASE s.engine = "helia-aot"
    BY <1>3, <1>10, <2>3 DEF Engine, ReadsAlike
  <2>4. CASE s.engine = "executorch"
    BY <1>4, <1>9, <1>10, <2>4 DEF Engine
  <2> QED
    BY <1>2, <2>1, <2>2, <2>3, <2>4 DEF EngineTypes, SettingFields
<1>12. Module(s, v) = Module(s, w)
  BY <1>1, <1>2, <1>4, <1>9 DEF Module, SettingFields
<1>5. Engine(s, v) = Engine(s, w) /\ Module(s, v) = Module(s, w)
  BY <1>11, <1>12
<1>6. /\ v.model = w.model /\ v.baseline = w.baseline /\ v.compiler = w.compiler /\ v.flags = w.flags
      /\ s.configFile => v.file = w.file
      /\ s.engine = "executorch" => v.sidecar = w.sidecar
  BY IntentFields, FilesPin
<1> QED
  BY <1>3, <1>5, <1>6 DEF Firmware, ReadsAlike

\* The parts of an intent look at no name of a host.
LEMMA LocalIsLeftOut ==
  ASSUME NEW s \in SettingTypes, NEW n \in {0, 2},
         NEW t, t = [[s EXCEPT !.local = 0] EXCEPT !.local = n]
  PROVE  t \in SettingTypes /\ t.local = n /\ \A w : Intent(t, w) = Intent(s, w)
<1>1. t \in SettingTypes /\ t.local = n
  <2>1. \A m \in 0 .. 2 : \A x \in SettingTypes :
          [x EXCEPT !.local = m] \in SettingTypes /\ [x EXCEPT !.local = m].local = m
    BY DEF SettingTypes
  <2>2. 0 \in 0 .. 2 /\ n \in 0 .. 2
    OBVIOUS
  <2> QED
    BY <2>1, <2>2, Zenon
<1>2. [t EXCEPT !.local = 0] = [s EXCEPT !.local = 0]
  BY DEF SettingTypes
<1>3. /\ t.engine = s.engine /\ t.backend = s.backend /\ t.configFile = s.configFile
      /\ t.source = s.source /\ t.dist = s.dist /\ t.release = s.release
      /\ t.cmsisPath = s.cmsisPath /\ t.cmsisRef = s.cmsisRef /\ t.module = s.module
  BY DEF SettingTypes
<1>4. ASSUME NEW w
      PROVE  /\ Provider(t, w) = Provider(s, w) /\ RtVariable(t, w) = RtVariable(s, w)
             /\ \A p : CmsisOverride(t, w, p) = CmsisOverride(s, w, p)
             /\ FromSource(t, w) = FromSource(s, w) /\ LocalFiles(t, w) = LocalFiles(s, w)
  BY <1>3 DEF Provider, RtVariable, CmsisOverride, FromSource, RtSource, LocalFiles
<1>5. ASSUME NEW w
      PROVE  /\ SourceVariables(t, w) = SourceVariables(s, w)
             /\ Overrides(t, w) = Overrides(s, w) /\ EngineOverrides(t, w) = EngineOverrides(s, w)
  <2>1. CmsisOverride(t, w, Provider(t, w)) = CmsisOverride(s, w, Provider(s, w))
    BY <1>4, Zenon
  <2>2. SourceVariables(t, w) = SourceVariables(s, w)
    BY <1>3, <1>4, <2>1, Zenon DEF SourceVariables
  <2>3. Overrides(t, w) = Overrides(s, w)
    BY <1>3, <2>1, Zenon DEF Overrides
  <2>4. EngineOverrides(t, w) = EngineOverrides(s, w)
    BY <1>3, <1>4, Zenon DEF EngineOverrides
  <2> QED
    BY <2>2, <2>3, <2>4
<1>6. ASSUME NEW w
      PROVE  /\ LocalTrees(t, w) = LocalTrees(s, w) /\ Qualification(t, w) = Qualification(s, w)
             /\ RtSelected(t, w) = RtSelected(s, w)
  BY <1>3, <1>4, <1>5 DEF LocalTrees, Qualification, RtSelected
<1>7. ASSUME NEW w PROVE FrozenRuntime(t, w) = FrozenRuntime(s, w)
  BY <1>3, <1>4, <1>5, <1>6 DEF FrozenRuntime
<1>8. ASSUME NEW w PROVE Intent(t, w) = Intent(s, w)
  BY <1>2, <1>4, <1>5, <1>6, <1>7, Zenon DEF Intent
<1> QED
  BY <1>1, <1>8

\* What differs in no variable a build reads says the same.
LEMMA UnreadIsLeftOut ==
  ASSUME NEW s, NEW v \in WorldTypes, NEW w \in WorldTypes,
         AsRead(v) = AsRead(w), RtVariable(s, v) = RtVariable(s, w)
  PROVE  /\ Intent(s, v) = Intent(s, w)
         /\ v.model = w.model /\ v.sidecar = w.sidecar /\ v.file = w.file
         /\ v.baseline = w.baseline
<1>1. \A x \in WorldTypes :
        /\ AsRead(x).model = x.model /\ AsRead(x).sidecar = x.sidecar /\ AsRead(x).file = x.file
        /\ AsRead(x).cmsis = x.cmsis /\ AsRead(x).flags = x.flags
        /\ AsRead(x).compiler = x.compiler /\ AsRead(x).aot = x.aot
        /\ AsRead(x).baseline = x.baseline
  BY DEF AsRead, WorldTypes
<1>2. /\ v.model = w.model /\ v.sidecar = w.sidecar /\ v.file = w.file /\ v.cmsis = w.cmsis
      /\ v.flags = w.flags /\ v.compiler = w.compiler /\ v.aot = w.aot /\ v.baseline = w.baseline
  BY <1>1
<1>3. /\ Provider(s, v) = Provider(s, w) /\ LocalFiles(s, v) = LocalFiles(s, w)
      /\ \A p : CmsisOverride(s, v, p) = CmsisOverride(s, w, p) /\ AtBaseline(v) = AtBaseline(w)
  BY <1>2 DEF Provider, LocalFiles, CmsisOverride, AtBaseline
<1>4. FromSource(s, v) = FromSource(s, w)
  <2>1. \A d : /\ <<"env.HELIART_SOURCE_PATH", d>> \in RtVariable(s, v) <=>
                    s.engine = "helia-rt" /\ s.source = "" /\ v.rtSource # "" /\ d = v.rtSource
               /\ <<"env.HELIART_SOURCE_PATH", d>> \in RtVariable(s, w) <=>
                    s.engine = "helia-rt" /\ s.source = "" /\ w.rtSource # "" /\ d = w.rtSource
    BY DEF RtVariable
  <2>2. s.engine = "helia-rt" /\ s.source = "" => v.rtSource = w.rtSource
    BY <2>1
  <2> QED
    BY <2>2 DEF FromSource, RtSource
<1>5. /\ SourceVariables(s, v) = SourceVariables(s, w) /\ Overrides(s, v) = Overrides(s, w)
      /\ EngineOverrides(s, v) = EngineOverrides(s, w)
  BY <1>2, <1>3 DEF SourceVariables, Overrides, EngineOverrides
<1>6. /\ LocalTrees(s, v) = LocalTrees(s, w) /\ Qualification(s, v) = Qualification(s, w)
      /\ RtSelected(s, v) = RtSelected(s, w)
  BY <1>4, <1>5 DEF LocalTrees, Qualification, RtSelected
<1>7. FrozenRuntime(s, v) = FrozenRuntime(s, w)
  BY <1>2, <1>3, <1>4, <1>5, <1>6 DEF FrozenRuntime
<1>8. Intent(s, v) = Intent(s, w)
  BY <1>2, <1>3, <1>5, <1>6, <1>7, Zenon DEF Intent
<1> QED
  BY <1>2, <1>8

\* A world in which nothing that is read has changed passes the look at the files.
LEMMA UnreadPassesFiles ==
  ASSUME world \in WorldTypes, origin \in WorldTypes, AsRead(world) = AsRead(origin),
         RtVariable(settings, world) = RtVariable(settings, origin),
         ~Missing(world, LocalTrees(settings, world)), settings \in SettingTypes
  PROVE  SameFiles(Intent(settings, origin))
<1> DEFINE plan == Intent(settings, origin)
<1>1. /\ plan = Intent(settings, world) /\ origin.model = world.model
      /\ origin.sidecar = world.sidecar /\ origin.file = world.file
      /\ origin.baseline = world.baseline
  BY UnreadIsLeftOut
<1>2. /\ plan.baseline = world.baseline /\ plan.model = world.model
      /\ plan.trees = LocalTrees(settings, world) /\ plan.files = LocalFiles(settings, world)
      /\ plan.settings = [settings EXCEPT !.local = 0]
  BY <1>1 DEF Intent
<1>3. plan.settings.configFile = settings.configFile /\ plan.settings.engine = settings.engine
  BY <1>2 DEF SettingTypes
<1> HIDE DEF plan
<1>4. settings.configFile => <<"engine.config_path", world.file>> \in LocalFiles(settings, world)
  BY DEF LocalFiles
<1>5. settings.engine = "executorch" =>
        {f \in LocalFiles(settings, world) : f[1] = "model.sidecar"} =
          (IF world.sidecar = "none" THEN {} ELSE {<<"model.sidecar", world.sidecar>>})
  <2>1. <<"engine.config_path", world.file>>[1] = "engine.config_path"
        /\ <<"model.sidecar", world.sidecar>>[1] = "model.sidecar"
    OBVIOUS
  <2> QED
    BY <2>1 DEF LocalFiles
<1> QED
  BY <1>2, <1>3, <1>4, <1>5 DEF SameFiles, plan

\* Before a freeze there is no answer and nothing has changed.
LEMMA InitPlan ==
  ASSUME settings \in SettingTypes, world \in WorldTypes, PlanInit
  PROVE  PlanIInv
BY DEF PlanInit, PlanIInv, PlanTypes, NothingFrozen, FrozenIsOfOrigin, AnswerHasReason, Intact

\* A plan that was written is no blank.
LEMMA IntentIsNoBlank == \A s, w : Intent(s, w) # <<>>
<1> SUFFICES ASSUME NEW s, NEW w PROVE Intent(s, w) # <<>>
  OBVIOUS
<1>1. "model" \in DOMAIN Intent(s, w)
  BY DEF Intent
<1>2. DOMAIN <<>> = {}
  OBVIOUS
<1> QED
  BY <1>1, <1>2

LEMMA ChangedIsTyped ==
  ASSUME NEW w \in WorldTypes, NEW x \in Changed(w)
  PROVE  x \in WorldTypes
<1>1. [w EXCEPT !.model = 2] \in WorldTypes /\ [w EXCEPT !.file = 2] \in WorldTypes
  BY DEF WorldTypes
<1>6. [w EXCEPT !.compiler = 2] \in WorldTypes /\ [w EXCEPT !.aot = 2] \in WorldTypes
  BY DEF WorldTypes
<1>7. [w EXCEPT !.baseline = 2] \in WorldTypes /\ [w EXCEPT !.newest = 2] \in WorldTypes
  BY DEF WorldTypes
<1>2. [w EXCEPT !.flags = "f2"] \in WorldTypes /\ [w EXCEPT !.flags = ""] \in WorldTypes
  BY DEF WorldTypes
<1>3. \A k \in {"none", "arm", "ns"} : [w EXCEPT !.sidecar = k] \in WorldTypes
  BY DEF WorldTypes
<1>4. ASSUME NEW d \in Trees, NEW n \in {0, 2} PROVE [w EXCEPT !.trees[d] = n] \in WorldTypes
  <2>1. \A u \in [Trees -> Nat] : [w EXCEPT !.trees = u] \in WorldTypes
    BY DEF WorldTypes
  <2>2. [w.trees EXCEPT ![d] = n] \in [Trees -> Nat]
    <3>1. w.trees \in [Trees -> Nat]
      BY WorldFields, Zenon
    <3>2. n \in Nat
      OBVIOUS
    <3> QED
      BY <3>1, <3>2, Zenon
  <2> QED
    BY <2>1, <2>2
<1>5. \A d \in {"", "d2"} : /\ [w EXCEPT !.cmsis = d] \in WorldTypes
                            /\ [w EXCEPT !.rtSource = d] \in WorldTypes
                            /\ [w EXCEPT !.rtDist = d] \in WorldTypes
  BY DEF WorldTypes, Trees
<1> DEFINE numbers == {[w EXCEPT !.model = 2], [w EXCEPT !.file = 2], [w EXCEPT !.compiler = 2],
                       [w EXCEPT !.aot = 2], [w EXCEPT !.baseline = 2], [w EXCEPT !.newest = 2],
                       [w EXCEPT !.flags = "f2"], [w EXCEPT !.flags = ""]}
           sidecars == {[w EXCEPT !.sidecar = s] : s \in {"none", "arm", "ns"}}
           contents == UNION {{[w EXCEPT !.trees[d] = n] : n \in {0, 2}} : d \in Trees}
           kernels == {[w EXCEPT !.cmsis = d] : d \in {"", "d2"}}
           sources == {[w EXCEPT !.rtSource = d] : d \in {"", "d2"}}
           dists == {[w EXCEPT !.rtDist = d] : d \in {"", "d2"}}
<1>8. \A y \in numbers : y \in WorldTypes
  BY <1>1, <1>2, <1>6, <1>7, Zenon
<1>9. \A y \in sidecars : y \in WorldTypes
  BY <1>3, Zenon
<1>10. \A y \in contents : y \in WorldTypes
  <2> DEFINE of(d) == {[w EXCEPT !.trees[d] = n] : n \in {0, 2}}
  <2>1. \A d \in Trees : \A y \in of(d) : y \in WorldTypes
    BY <1>4, Zenon
  <2>2. contents = UNION {of(d) : d \in Trees}
    BY Zenon
  <2> HIDE DEF of, contents
  <2> QED
    BY <2>1, <2>2
<1>11. \A y \in kernels \cup sources \cup dists : y \in WorldTypes
  BY <1>5, Zenon
<1>12. Changed(w) = numbers \cup sidecars \cup contents \cup kernels \cup sources \cup dists
  BY Zenon DEF Changed
<1> HIDE DEF numbers, sidecars, contents, kernels, sources, dists
<1> QED
  BY <1>8, <1>9, <1>10, <1>11, <1>12

\* Every step keeps the parts of the invariant.
LEMMA NextPlan == PlanIInv /\ [PlanNext]_planVars => PlanIInv'
<1> SUFFICES ASSUME PlanIInv, [PlanNext]_planVars PROVE PlanIInv'
  OBVIOUS
<1> USE DEF PlanIInv, PlanTypes, NothingFrozen, FrozenIsOfOrigin, AnswerHasReason, Intact
<1>1. ASSUME Freeze PROVE PlanIInv'
  <2>1. [intent |-> Intent(settings, world), hash |-> Intent(settings, world)].hash # Unfrozen.hash
    BY IntentIsNoBlank DEF Unfrozen
  <2> QED
    BY <1>1, <2>1 DEF Freeze
<1>2. ASSUME Edit PROVE PlanIInv'
  <2>1. PICK intent : intent # frozen.intent /\ frozen' = [frozen EXCEPT !.intent = intent]
    BY <1>2, Zenon DEF Edit
  <2>2. UNCHANGED <<settings, world, origin, replay, changes>> /\ frozen.intent = frozen.hash
        /\ replay = "frozen"
    BY <1>2, Zenon DEF Edit
  <2>3. frozen = [intent |-> Intent(settings, origin), hash |-> Intent(settings, origin)]
    BY <2>2
  <2>4. frozen'.hash = Intent(settings, origin) /\ frozen'.intent = intent
    BY <2>1, <2>3
  <2>5. frozen' # Unfrozen /\ ~Intact'
    BY <2>1, <2>2, <2>3, <2>4, IntentIsNoBlank DEF Unfrozen
  <2> QED
    BY <2>2, <2>5
<1>3. ASSUME Change PROVE PlanIInv'
  <2>1. world' \in WorldTypes
    BY <1>3, ChangedIsTyped DEF Change
  <2> QED
    BY <1>3, <2>1 DEF Change
<1>4. ASSUME CheckFiles PROVE PlanIInv'
  <2>1. UNCHANGED <<world, frozen, origin>> /\ replay' \in {"checked", "refused"}
    BY <1>4 DEF CheckFiles
  <2>2. replay' = "checked" => Intact
    BY <1>4 DEF CheckFiles
  <2>3. ASSUME Intact
        PROVE  /\ settings' \in SettingTypes
               /\ frozen = [intent |-> Intent(settings', origin), hash |-> Intent(settings', origin)]
    <3>1. settings \in SettingTypes /\ frozen.intent = Intent(settings, origin)
      BY <1>4, <2>3 DEF CheckFiles
    <3>2. frozen.intent.settings = [settings EXCEPT !.local = 0]
      BY <3>1 DEF Intent
    <3>3. PICK n \in {0, 2} : settings' = [[settings EXCEPT !.local = 0] EXCEPT !.local = n]
      <4>1. PICK overlay \in {"local", "other"} :
              settings' = [frozen.intent.settings EXCEPT !.local = IF overlay = "local" THEN 2 ELSE 0]
        BY <1>4, Zenon DEF CheckFiles
      <4>2. (IF overlay = "local" THEN 2 ELSE 0) \in {0, 2}
        OBVIOUS
      <4> QED
        BY <3>2, <4>1, <4>2, Zenon
    <3>4. settings' \in SettingTypes /\ Intent(settings', origin) = Intent(settings, origin)
      BY <3>1, <3>3, LocalIsLeftOut
    <3> QED
      BY <2>3, <3>4
  <2>4. ASSUME Intact, replay' = "refused", settings'.local = 2
        PROVE  ~SameFiles(frozen.intent)
    <3>1. settings \in SettingTypes /\ frozen.intent = Intent(settings, origin)
      BY <1>4, <2>4 DEF CheckFiles
    <3>2. frozen.intent.settings = [settings EXCEPT !.local = 0]
      BY <3>1 DEF Intent
    <3>3. PICK overlay \in {"local", "other"} :
            /\ replay' = IF frozen.intent = frozen.hash /\ SameFiles(frozen.intent) /\ overlay = "local"
                         THEN "checked" ELSE "refused"
            /\ settings' = [frozen.intent.settings EXCEPT !.local = IF overlay = "local" THEN 2 ELSE 0]
      BY <1>4 DEF CheckFiles
    <3>4. overlay = "local"
      <4> SUFFICES ASSUME overlay # "local" PROVE FALSE
        OBVIOUS
      <4>1. settings' = [[settings EXCEPT !.local = 0] EXCEPT !.local = 0]
        BY <3>2, <3>3
      <4>2. settings'.local = 0
        BY <3>1, <4>1, LocalIsLeftOut
      <4> QED
        BY <2>4, <4>2
    <3> QED
      BY <2>4, <3>3, <3>4
  <2> QED
    BY <2>1, <2>2, <2>3, <2>4 DEF SameFiles
<1>5. ASSUME CheckReplay PROVE PlanIInv'
  BY <1>5 DEF CheckReplay
<1>6. ASSUME UNCHANGED planVars PROVE PlanIInv'
  BY <1>6 DEF planVars, SameFiles
<1> QED
  BY <1>1, <1>2, <1>3, <1>4, <1>5, <1>6 DEF PlanNext

THEOREM PlanInvariance == PlanSpec => []PlanIInv
BY InitPlan, NextPlan, PTL DEF PlanSpec

\* A plan that was not edited is accepted for the run it was frozen of, and refused for a reason
\* (FrozenRun.load, config), however often the world changes meanwhile.
THEOREM ReplayHolds == PlanSpec => []PlanIsReplayed
<1> SUFFICES PlanIInv => PlanIsReplayed
  BY PlanInvariance, PTL
<1> SUFFICES ASSUME PlanIInv PROVE AcceptedIsTheRun /\ UnreadNeverRefuses
  BY DEF PlanIsReplayed
<1>1. /\ world \in WorldTypes /\ origin \in WorldTypes
      /\ Intact => /\ settings \in SettingTypes /\ frozen.intent = Intent(settings, origin)
                   /\ frozen.hash = Intent(settings, origin)
  BY DEF PlanIInv, PlanTypes, FrozenIsOfOrigin
<1>2. ASSUME replay = "accepted"
      PROVE  /\ Firmware(settings, Alike(world)) = Firmware(settings, Alike(origin))
             /\ Portable(frozen.intent) => Firmware(settings, world) = Firmware(settings, origin)
  <2>1. Intact /\ Intent(settings, world) = Intent(settings, origin)
    BY <1>1, <1>2 DEF PlanIInv, NothingFrozen, AnswerHasReason
  <2>2. Firmware(settings, Alike(world)) = Firmware(settings, Alike(origin))
    BY <1>1, <2>1, IntentPinsFirmware
  <2>3. Portable(frozen.intent) => Firmware(settings, world) = Firmware(settings, origin)
    BY <1>1, <2>1, PortableIsExact
  <2> QED
    BY <2>2, <2>3
<1>3. ASSUME replay = "refused", Intact, settings.local = 2,
             RtVariable(settings, world) = RtVariable(settings, origin),
             AsRead(world) = AsRead(origin), ~Missing(world, LocalTrees(settings, world))
      PROVE  FALSE
  <2>1. SameFiles(frozen.intent)
    BY <1>1, <1>3, UnreadPassesFiles
  <2>2. Intent(settings, world) = frozen.hash
    BY <1>1, <1>3, UnreadIsLeftOut
  <2> QED
    BY <1>3, <2>1, <2>2 DEF PlanIInv, AnswerHasReason
<1> QED
  BY <1>2, <1>3 DEF AcceptedIsTheRun, UnreadNeverRefuses, Intact
-----------------------------------------------------------------------------
(* The comparison: what is read of a bundle, and which rows that leaves. *)

\* What is read of a run in a dimension that artifacts and manifest both record.
LEMMA ReadRun ==
  ASSUME NEW r \in BenchRuns
  PROVE  /\ ReadDimensions(r)["model_sha256"] = <<r.model>>
         /\ ReadDimensions(r)["board"] = <<r.board>> /\ ReadDimensions(r)["soc"] = <<r.board>>
         /\ ReadDimensions(r)["toolchain"] = <<r.linker>>
         /\ ReadDimensions(r)["link_family"] =
              IF r.older = "link_family" THEN Unknown ELSE <<r.linker>>
<1> DEFINE named == {"model_sha256", "board", "soc", "toolchain", "link_family"}
<1>1. named \subseteq Dimensions /\ named \subseteq RunDimensions /\ named \cap Protected = {}
      /\ named \cap ManifestOnly = {}
  BY DEF Dimensions, RunDimensions, Informative, MemoryDimensions, Protected, ManifestOnly
<1>0. "model_sha256" \in named /\ "board" \in named /\ "soc" \in named /\ "toolchain" \in named
      /\ "link_family" \in named
  OBVIOUS
<1> HIDE DEF named
<1>2. \A d \in named : Manifest(r, d) = IF d = r.older THEN Unknown ELSE RunFact(r, d)
  BY <1>1 DEF Manifest
<1>3. \A d \in named : Artifact(r, d) = IF d = r.older THEN Unknown ELSE RunFact(r, d)
  BY <1>1 DEF Artifact
<1>4. \A d \in named : ReadDimensions(r)[d] = IF d = r.older THEN Unknown ELSE RunFact(r, d)
  BY <1>1, <1>2, <1>3 DEF ReadDimensions
<1>5. r.older \notin {"model_sha256", "board", "soc", "toolchain"}
  BY DEF BenchRuns
<1>7. /\ RunFact(r, "model_sha256") = <<r.model>> /\ RunFact(r, "board") = <<r.board>>
      /\ RunFact(r, "soc") = <<r.board>> /\ RunFact(r, "toolchain") = <<r.linker>>
      /\ RunFact(r, "link_family") = <<r.linker>>
  BY DEF RunFact
<1> QED
  BY <1>0, <1>4, <1>5, <1>7

\* What is read of the power block of a run that measured power.
LEMMA ReadPower ==
  ASSUME NEW r \in BenchRuns, r.power # "none"
  PROVE  /\ ReadDimensions(r)["power_scope"] = <<r.scope>>
         /\ ReadDimensions(r)["power_mode"] = <<r.power>>
         /\ ReadDimensions(r)["power_firmware"] = <<r.firmware>>
         /\ ReadDimensions(r)["power_monitor"] = <<r.monitor>>
         /\ ReadDimensions(r)["power_lockstep"] =
              IF r.power = "external" THEN <<r.armed>> ELSE Unknown
         /\ ReadDimensions(r)["power_clean_window_probe"] =
              IF r.older = "power_clean_window_probe" THEN Unknown ELSE <<r.probe>>
         /\ ReadDimensions(r)["power_clean_workload"] = CleanWorkload(r)
         /\ ReadDimensions(r)["power_firmware_fingerprint"] =
              IF r.older = "power_firmware_fingerprint" THEN Unknown ELSE Fingerprint(r)
         /\ ReadDimensions(r)["power_integrity"] = <<r.integrity>>
<1>1. PowerBlock \subseteq Dimensions /\ PowerBlock \cap RunDimensions = {}
  BY DEF Dimensions, RunDimensions, Informative, MemoryDimensions, PowerBlock, PowerDimensions
<1>2. \A d \in PowerBlock \ (Protected \cup ManifestOnly) :
        Manifest(r, d) = (IF d = r.older THEN Unknown ELSE PowerFact(r, d)) /\
        Artifact(r, d) = (IF d = r.older THEN Unknown ELSE PowerFact(r, d))
  BY <1>1 DEF Manifest, Artifact, Protected
<1>3. \A d \in ManifestOnly :
        Manifest(r, d) = (IF d = r.older THEN Unknown ELSE PowerFact(r, d)) /\
        Artifact(r, d) = Unknown
  BY <1>1 DEF Manifest, Artifact, Protected, ManifestOnly, PowerBlock, PowerDimensions
<1>4. \A d \in Protected : Artifact(r, d) = (IF d = r.older THEN Unknown ELSE PowerFact(r, d))
  BY <1>1 DEF Manifest, Artifact, Protected, ManifestOnly, PowerBlock, PowerDimensions
<1>5. /\ Protected \subseteq Dimensions /\ ManifestOnly \subseteq Dimensions
      /\ ManifestOnly \cap Protected = {}
  BY <1>1 DEF Protected, ManifestOnly, PowerBlock, PowerDimensions
<1>6. \A d \in PowerBlock : ReadDimensions(r)[d] = IF d = r.older THEN Unknown ELSE PowerFact(r, d)
  BY <1>1, <1>2, <1>3, <1>4, <1>5 DEF ReadDimensions
<1>7. {"power_scope", "power_mode", "power_firmware", "power_monitor", "power_lockstep",
       "power_clean_window_probe", "power_clean_workload", "power_firmware_fingerprint",
       "power_integrity"} \subseteq PowerBlock
  BY DEF PowerBlock, PowerDimensions
<1>8. r.older \notin {"power_scope", "power_mode", "power_firmware", "power_monitor",
                      "power_lockstep", "power_integrity"}
  BY DEF BenchRuns
<1>9. r.older = "power_clean_workload" => CleanWorkload(r) = Unknown
  BY DEF CleanWorkload
<1>10. /\ PowerFact(r, "power_scope") = <<r.scope>> /\ PowerFact(r, "power_mode") = <<r.power>>
       /\ PowerFact(r, "power_firmware") = <<r.firmware>>
       /\ PowerFact(r, "power_monitor") = <<r.monitor>>
       /\ PowerFact(r, "power_lockstep") = IF r.power = "external" THEN <<r.armed>> ELSE Unknown
       /\ PowerFact(r, "power_clean_window_probe") = <<r.probe>>
       /\ PowerFact(r, "power_clean_workload") = CleanWorkload(r)
       /\ PowerFact(r, "power_firmware_fingerprint") = Fingerprint(r)
       /\ PowerFact(r, "power_integrity") = <<r.integrity>>
  BY DEF PowerFact
<1> QED
  BY <1>6, <1>7, <1>8, <1>9, <1>10

-----------------------------------------------------------------------------
\* What the assessment finds, a group of findings at a time.
LEMMA Findings ==
  ASSUME NEW r, NEW s
  PROVE  LET x == ReadDimensions(r)
             y == ReadDimensions(s)
             found == AssessComparability(r, s)
         IN /\ ResultIssues(r) \subseteq found /\ ResultIssues(s) \subseteq found
            /\ Topology(r, s) \subseteq found
            /\ Differ(x, y, "model_sha256") => Effect("blocking", "") \in found
            /\ (r.regions \/ s.regions) /\ Differ(x, y, "link_family")
                 => Effect("metric_blocking", "memory") \in found
BY DEF AssessComparability, MemoryDimensions

LEMMA PowerFindings ==
  ASSUME NEW r, NEW s, Effect("metric_blocking", "power") \notin AssessComparability(r, s)
  PROVE  /\ \A d \in PowerDimensions : ~PowerMismatch(ReadDimensions(r), ReadDimensions(s), d)
         /\ ReadDimensions(r)["power_integrity"] \in {Unknown, <<"valid">>}
         /\ ReadDimensions(s)["power_integrity"] \in {Unknown, <<"valid">>}
BY DEF AssessComparability

\* Runs that are compared at all are complete, of one model, and broken in their power at most.
LEMMA ComparedAtAll ==
  ASSUME NEW r \in BenchRuns, NEW s \in BenchRuns, RunComparable(AssessComparability(r, s))
  PROVE  /\ r.complete /\ s.complete /\ r.model = s.model
         /\ PowerAloneBroken(r) /\ PowerAloneBroken(s)
         /\ Errors(r) # {} \/ Errors(s) # {}
              => ~GroupComparable(AssessComparability(r, s), "power")
<1> DEFINE found == AssessComparability(r, s)
<1>1. \A i \in found : i.severity # "blocking"
  BY DEF RunComparable
<1>2. ResultIssues(r) \subseteq found /\ ResultIssues(s) \subseteq found
  BY Findings
<1>3. Effect("blocking", "") \notin found
  BY <1>1 DEF Effect
<1>4. r.model = s.model
  <2>1. /\ ReadDimensions(r)["model_sha256"] = <<r.model>>
        /\ ReadDimensions(s)["model_sha256"] = <<s.model>>
    BY ReadRun
  <2>2. ~Differ(ReadDimensions(r), ReadDimensions(s), "model_sha256")
    BY <1>3, Findings
  <2> QED
    BY <2>1, <2>2 DEF Differ, Unknown
<1>5. ASSUME NEW t \in {r, s}
      PROVE  /\ t.complete /\ PowerAloneBroken(t)
             /\ Errors(t) # {} => Effect("metric_blocking", "power") \in found
  <2>1. ResultIssues(t) \subseteq found
    BY <1>2
  <2>2. t.complete
    BY <2>1, <1>3 DEF ResultIssues, BenchRuns
  <2>3. ASSUME Errors(t) # {}
        PROVE  /\ \A e \in Errors(t) : ErrorGroup(e) = "power"
               /\ Effect("metric_blocking", "power") \in found
    <3>1. InvalidResult(t) \subseteq found
      BY <2>1, <2>3 DEF ResultIssues
    <3> QED
      BY <3>1, <1>3 DEF InvalidResult
  <2>4. \A e : ErrorGroup(e) = "power" => e = "power.window_observer_mismatch"
    BY DEF ErrorGroup, IssueSpecs
  <2> QED
    BY <2>2, <2>3, <2>4 DEF PowerAloneBroken
<1> QED
  BY <1>4, <1>5 DEF GroupComparable

\* Runs whose power compares were measured in windows that were alike.
LEMMA PowerAlike ==
  ASSUME NEW r \in BenchRuns, NEW s \in BenchRuns, Possible(r), Possible(s),
         r.power # "none", s.power # "none",
         GroupComparable(AssessComparability(r, s), "power")
  PROVE  r.integrity = "valid" /\ s.integrity = "valid" /\ SameWindow(r, s)
<1> DEFINE x == ReadDimensions(r)
           y == ReadDimensions(s)
<1>0. Effect("metric_blocking", "power") \notin AssessComparability(r, s)
  BY DEF GroupComparable
<1>1. /\ \A d \in PowerDimensions : ~PowerMismatch(x, y, d)
      /\ x["power_integrity"] \in {Unknown, <<"valid">>}
      /\ y["power_integrity"] \in {Unknown, <<"valid">>}
  BY <1>0, PowerFindings
<1> HIDE DEF x, y
<1>2. r.integrity = "valid" /\ s.integrity = "valid"
  <2>1. x["power_integrity"] = <<r.integrity>> /\ y["power_integrity"] = <<s.integrity>>
    BY ReadPower DEF x, y
  <2> QED
    BY <1>1, <2>1 DEF Unknown
<1>3. /\ x["power_scope"] = <<r.scope>> /\ y["power_scope"] = <<s.scope>>
      /\ x["power_mode"] = <<r.power>> /\ y["power_mode"] = <<s.power>>
      /\ x["power_firmware"] = <<r.firmware>> /\ y["power_firmware"] = <<s.firmware>>
      /\ x["power_monitor"] = <<r.monitor>> /\ y["power_monitor"] = <<s.monitor>>
  BY ReadPower DEF x, y
<1>4. \A d \in PowerDimensions \ {"power_clean_workload", "power_firmware_fingerprint"} :
        ~Differ(x, y, d)
  BY <1>1 DEF PowerMismatch, InScope, Scope
<1>5. /\ r.scope = s.scope /\ r.power = s.power /\ r.firmware = s.firmware
      /\ r.monitor = s.monitor
  BY <1>3, <1>4 DEF Differ, Unknown, PowerDimensions
<1>6. r.armed = s.armed
  <2>1. CASE r.power = "external"
    <3>1. x["power_lockstep"] = <<r.armed>> /\ y["power_lockstep"] = <<s.armed>>
      BY <2>1, <1>5, ReadPower DEF x, y
    <3> QED
      BY <3>1, <1>4 DEF Differ, Unknown, PowerDimensions
  <2>2. CASE r.power # "external"
    BY <2>2, <1>5 DEF Possible, BenchRuns
  <2> QED
    BY <2>1, <2>2
<1>7. r.probe = s.probe \/ "power_clean_window_probe" \in {r.older, s.older}
  <2>1. SUFFICES ASSUME "power_clean_window_probe" \notin {r.older, s.older} PROVE r.probe = s.probe
    OBVIOUS
  <2>2. x["power_clean_window_probe"] = <<r.probe>> /\ y["power_clean_window_probe"] = <<s.probe>>
    BY <2>1, ReadPower DEF x, y
  <2> QED
    BY <2>2, <1>4 DEF Differ, Unknown, PowerDimensions
<1>8. \/ Workload(r) = Workload(s)
      \/ \E t \in {r, s} : Workload(t) = "refill" /\ ~t.readable
  <2>1. x["power_clean_workload"] = CleanWorkload(r) /\ y["power_clean_workload"] = CleanWorkload(s)
    BY ReadPower DEF x, y
  <2>2. CleanWorkload(r) = CleanWorkload(s)
    BY <2>1, <1>1 DEF PowerMismatch, InScope, Scope, PowerDimensions
  <2>3. <<"refill">> # Unknown
    BY DEF Unknown
  <2> QED
    BY <2>2, <2>3 DEF CleanWorkload, Workload
<1>9. \/ r.code = s.code \/ r.board # s.board
      \/ ~(r.readable /\ s.readable) \/ "power_firmware_fingerprint" \in {r.older, s.older}
  <2>1. SUFFICES ASSUME r.board = s.board, r.readable, s.readable,
                        "power_firmware_fingerprint" \notin {r.older, s.older}
                 PROVE  r.code = s.code
    BY DEF BenchRuns
  <2>2. /\ x["power_firmware_fingerprint"] = <<r.code, r.board, r.engine, r.firmware, r.probe>>
        /\ y["power_firmware_fingerprint"] = <<s.code, s.board, s.engine, s.firmware, s.probe>>
    BY <2>1, ReadPower DEF x, y, Fingerprint
  <2>3. x["soc"] = y["soc"] /\ x["board"] = y["board"] /\ x["soc"] # Unknown /\ x["board"] # Unknown
    <3>1. /\ x["soc"] = <<r.board>> /\ x["board"] = <<r.board>>
          /\ y["soc"] = <<s.board>> /\ y["board"] = <<s.board>>
      BY ReadRun DEF x, y
    <3> QED
      BY <2>1, <3>1 DEF Unknown
  <2>4. InScope(x, y, "power_firmware_fingerprint")
    BY <2>3, <1>3, <1>5 DEF InScope, Scope, Unknown
  <2>5. ~Differ(x, y, "power_firmware_fingerprint")
    BY <2>4, <1>1 DEF PowerMismatch, PowerDimensions
  <2> QED
    BY <2>2, <2>5 DEF Differ, Unknown
<1> QED
  BY <1>2, <1>5, <1>6, <1>7, <1>8, <1>9 DEF SameWindow

\* The rows of a comparison, and the values they set side by side.
LEMMA RowsShown ==
  ASSUME NEW r, NEW s, NEW found, NEW m \in DOMAIN CompareMetrics(found, r, s)
  PROVE  /\ m \in Metrics /\ Emitted(found, r, s, m)
         /\ CompareMetrics(found, r, s)[m].baseline = Value(r, m)
         /\ CompareMetrics(found, r, s)[m].candidate = Value(s, m)
BY DEF CompareMetrics

LEMMA PowerRows ==
  ASSUME NEW r \in BenchRuns, NEW s \in BenchRuns, Possible(r), Possible(s),
         RunComparable(AssessComparability(r, s))
  PROVE  PowerRowsAlike(r, s, CompareMetrics(AssessComparability(r, s), r, s))
<1> DEFINE found == AssessComparability(r, s)
           rows == CompareMetrics(found, r, s)
<1> SUFFICES ASSUME NEW m \in DOMAIN rows, MetricGroup[m] = "power",
                    NoValue \notin {rows[m].baseline, rows[m].candidate}
             PROVE  /\ Flawless(r) /\ Flawless(s) /\ r.model = s.model
                    /\ r.integrity = "valid" /\ s.integrity = "valid" /\ SameWindow(r, s)
  BY DEF PowerRowsAlike
<1> HIDE DEF found, rows
<1>1. /\ m \in Metrics /\ Emitted(found, r, s, m)
      /\ rows[m].baseline = Value(r, m) /\ rows[m].candidate = Value(s, m)
  BY RowsShown DEF rows
<1>2. m \in PowerMetrics
  BY <1>1 DEF MetricGroup, PowerMetrics, MemoryMetrics
<1>3. r.power # "none" /\ s.power # "none"
  BY <1>1, <1>2 DEF Value, PowerMetrics
<1>4. GroupComparable(found, "power")
  BY <1>1 DEF Emitted
<1> QED
  BY <1>3, <1>4, PowerAlike, ComparedAtAll DEF found, Flawless

LEMMA MemoryRows ==
  ASSUME NEW r \in BenchRuns, NEW s \in BenchRuns
  PROVE  MemoryRowsAlike(r, s, CompareMetrics(AssessComparability(r, s), r, s))
<1> DEFINE found == AssessComparability(r, s)
           rows == CompareMetrics(found, r, s)
<1> SUFFICES ASSUME NEW m \in DOMAIN rows, MetricGroup[m] = "memory",
                    NoValue \notin {rows[m].baseline, rows[m].candidate},
                    "link_family" \notin {r.older, s.older}
             PROVE  r.linker = s.linker
  BY DEF MemoryRowsAlike
<1>1. /\ m \in Metrics /\ Emitted(found, r, s, m)
      /\ rows[m].baseline = Value(r, m) /\ rows[m].candidate = Value(s, m)
  BY RowsShown
<1> HIDE DEF found, rows
<1>2. m \in MemoryMetrics
  BY <1>1 DEF MetricGroup, PowerMetrics, MemoryMetrics
<1>3. r.regions
  BY <1>1, <1>2 DEF Value, MemoryMetrics, BenchRuns
<1>4. GroupComparable(found, "memory")
  BY <1>1 DEF Emitted
<1>5. ~Differ(ReadDimensions(r), ReadDimensions(s), "link_family")
  BY <1>3, <1>4, Findings DEF found, GroupComparable
<1>6. /\ ReadDimensions(r)["link_family"] = <<r.linker>>
      /\ ReadDimensions(s)["link_family"] = <<s.linker>>
  BY ReadRun
<1> QED
  BY <1>5, <1>6 DEF Differ, Unknown

-----------------------------------------------------------------------------
(* The layers: one .tflite operator each, or several fused into one. *)

LEMMA OneSource ==
  /\ \A n : Cardinality({n}) = 1 /\ (CHOOSE s \in {n} : TRUE) = n
  /\ Cardinality({1, 2}) = 2
<1>1. \A n : Cardinality({n}) = 1
  BY FS_Singleton
<1>2. Cardinality({1} \cup {2}) = 2
  <2>1. IsFiniteSet({1})
    BY FS_Singleton
  <2>2. 2 \notin {1}
    OBVIOUS
  <2>3. Cardinality({1} \cup {2}) = Cardinality({1}) + 1
    BY <2>1, <2>2, FS_AddElement
  <2>4. Cardinality({1}) = 1
    BY <1>1
  <2> QED
    BY <2>3, <2>4
<1>3. {1} \cup {2} = {1, 2}
  OBVIOUS
<1> QED
  BY <1>1, <1>2, <1>3

LEMMA AotLabel ==
  ASSUME NEW r, r.engine = "helia-aot", r.extracted = TRUE, NEW p, NEW n,
         Graphs[r.graph][p].from = {n}
  PROVE  Label(r, p) = [kind |-> Graphs[r.graph][p].kind, colon |-> TRUE, index |-> n]
<1>1. Cardinality({n}) = 1 /\ (CHOOSE x \in {n} : TRUE) = n
  BY OneSource
<1> QED
  BY <1>1 DEF Label

LEMMA AotFusedLabel ==
  ASSUME NEW r, r.engine = "helia-aot", r.extracted = TRUE, NEW p, NEW kind,
         Graphs[r.graph][p] = Operator(kind, {1, 2})
  PROVE  Label(r, p) = [kind |-> kind, colon |-> TRUE, index |-> -1]
<1>1. Graphs[r.graph][p].kind = kind /\ Graphs[r.graph][p].from = {1, 2}
  BY DEF Operator
<1>2. Cardinality(Graphs[r.graph][p].from) # 1
  <2>1. Cardinality({1, 2}) = 2
    BY OneSource
  <2> QED
    BY <1>1, <2>1
<1> QED
  BY <1>1, <1>2 DEF Label

\* What the label of a layer of a heliaAOT run names.
LEMMA AotIndex ==
  ASSUME NEW r \in BenchRuns, r.engine = "helia-aot", r.extracted
  PROVE  /\ DOMAIN Graphs[r.graph] = IF r.graph = "plain" THEN 1 .. 3 ELSE 1 .. 2
         /\ Label(r, 1) = [kind |-> "CONV", colon |-> TRUE, index |-> 0]
         /\ r.graph = "plain" =>
              /\ Label(r, 2) = [kind |-> "RESHAPE", colon |-> TRUE, index |-> 1]
              /\ Label(r, 3) = [kind |-> "FC", colon |-> TRUE, index |-> 2]
         /\ r.graph = "skips" => Label(r, 2) = [kind |-> "FC", colon |-> TRUE, index |-> 2]
         /\ r.graph = "fused" => Label(r, 2) = [kind |-> "FC", colon |-> TRUE, index |-> -1]
<1>1. r.graph \in {"plain", "skips", "fused"}
  BY DEF BenchRuns, Graphs
<1>2. CASE r.graph = "plain"
  <2>1. Graphs[r.graph] = <<Operator("CONV", {0}), Operator("RESHAPE", {1}), Operator("FC", {2})>>
    BY <1>2 DEF Graphs
  <2>2. DOMAIN Graphs[r.graph] = 1 .. 3
    BY <2>1
  <2>3. /\ Graphs[r.graph][1] = Operator("CONV", {0})
        /\ Graphs[r.graph][2] = Operator("RESHAPE", {1})
        /\ Graphs[r.graph][3] = Operator("FC", {2})
    BY <2>1
  <2>4. r.extracted = TRUE
    BY DEF BenchRuns
  <2>5. Label(r, 1) = [kind |-> "CONV", colon |-> TRUE, index |-> 0]
    <3>1. Graphs[r.graph][1].kind = "CONV" /\ Graphs[r.graph][1].from = {0}
      BY <2>3 DEF Operator
    <3>2. Label(r, 1) = [kind |-> Graphs[r.graph][1].kind, colon |-> TRUE, index |-> 0]
      BY <2>4, <3>1, AotLabel
    <3> QED
      BY <3>1, <3>2
  <2>6. Label(r, 2) = [kind |-> "RESHAPE", colon |-> TRUE, index |-> 1]
    <3>1. Graphs[r.graph][2].kind = "RESHAPE" /\ Graphs[r.graph][2].from = {1}
      BY <2>3 DEF Operator
    <3>2. Label(r, 2) = [kind |-> Graphs[r.graph][2].kind, colon |-> TRUE, index |-> 1]
      BY <2>4, <3>1, AotLabel
    <3> QED
      BY <3>1, <3>2
  <2>7. Label(r, 3) = [kind |-> "FC", colon |-> TRUE, index |-> 2]
    <3>1. Graphs[r.graph][3].kind = "FC" /\ Graphs[r.graph][3].from = {2}
      BY <2>3 DEF Operator
    <3>2. Label(r, 3) = [kind |-> Graphs[r.graph][3].kind, colon |-> TRUE, index |-> 2]
      BY <2>4, <3>1, AotLabel
    <3> QED
      BY <3>1, <3>2
  <2> QED
    BY <2>2, <2>5, <2>6, <2>7, <1>2
<1>3. CASE r.graph = "skips"
  <2>1. Graphs[r.graph] = <<Operator("CONV", {0}), Operator("FC", {2})>>
    BY <1>3 DEF Graphs
  <2>2. DOMAIN Graphs[r.graph] = 1 .. 2
    BY <2>1
  <2>3. /\ Graphs[r.graph][1] = Operator("CONV", {0})
        /\ Graphs[r.graph][2] = Operator("FC", {2})
    BY <2>1
  <2>4. r.extracted = TRUE
    BY DEF BenchRuns
  <2>5. Label(r, 1) = [kind |-> "CONV", colon |-> TRUE, index |-> 0]
    <3>1. Graphs[r.graph][1].kind = "CONV" /\ Graphs[r.graph][1].from = {0}
      BY <2>3 DEF Operator
    <3>2. Label(r, 1) = [kind |-> Graphs[r.graph][1].kind, colon |-> TRUE, index |-> 0]
      BY <2>4, <3>1, AotLabel
    <3> QED
      BY <3>1, <3>2
  <2>6. Label(r, 2) = [kind |-> "FC", colon |-> TRUE, index |-> 2]
    <3>1. Graphs[r.graph][2].kind = "FC" /\ Graphs[r.graph][2].from = {2}
      BY <2>3 DEF Operator
    <3>2. Label(r, 2) = [kind |-> Graphs[r.graph][2].kind, colon |-> TRUE, index |-> 2]
      BY <2>4, <3>1, AotLabel
    <3> QED
      BY <3>1, <3>2
  <2> QED
    BY <2>2, <2>5, <2>6, <1>3
<1>4. CASE r.graph = "fused"
  <2>1. Graphs[r.graph] = <<Operator("CONV", {0}), Operator("FC", {1, 2})>>
    BY <1>4 DEF Graphs
  <2>2. DOMAIN Graphs[r.graph] = 1 .. 2
    BY <2>1
  <2>3. /\ Graphs[r.graph][1] = Operator("CONV", {0})
        /\ Graphs[r.graph][2] = Operator("FC", {1, 2})
    BY <2>1
  <2>4. r.extracted = TRUE
    BY DEF BenchRuns
  <2>5. Label(r, 1) = [kind |-> "CONV", colon |-> TRUE, index |-> 0]
    <3>1. Graphs[r.graph][1].kind = "CONV" /\ Graphs[r.graph][1].from = {0}
      BY <2>3 DEF Operator
    <3>2. Label(r, 1) = [kind |-> Graphs[r.graph][1].kind, colon |-> TRUE, index |-> 0]
      BY <2>4, <3>1, AotLabel
    <3> QED
      BY <3>1, <3>2
  <2>6. Label(r, 2) = [kind |-> "FC", colon |-> TRUE, index |-> -1]
    BY <2>3, <2>4, AotFusedLabel
  <2> QED
    BY <2>2, <2>5, <2>6, <1>4
<1> QED
  BY <1>1, <1>2, <1>3, <1>4

\* A layer is shown with its own buffers.
LEMMA LayerIsOwn ==
  ASSUME NEW r \in BenchRuns, NEW p \in DOMAIN Graphs[r.graph]
  PROVE  LayerMemory(r, p) = OwnBuffers(r, p)
<1>1. CASE ~(r.engine = "helia-aot" /\ r.extracted)
  BY <1>1 DEF LayerMemory, OwnBuffers, RowsFor, MemoryFile
<1>2. CASE r.engine = "helia-aot" /\ r.extracted
  <2> DEFINE i == Label(r, p).index
             own == Cardinality(Graphs[r.graph][p].from) = 1
  <2>1. /\ DOMAIN Graphs[r.graph] \subseteq 1 .. 3 /\ i \in -1 .. 2 /\ Label(r, p).colon
        /\ \A q \in DOMAIN Graphs[r.graph] : i >= 0 /\ Label(r, q).index = i => q = p
    BY <1>2, AotIndex DEF BenchRuns, Graphs
  <2>2. SourceIndex(r, p) = i
    BY <1>2, <2>1 DEF SourceIndex, Attribute, RecordedIndex
  <2>3. i >= 0 <=> own
    <3>1. r.graph \in {"plain", "skips", "fused"}
      BY DEF BenchRuns, Graphs
    <3>2. Cardinality({0}) = 1 /\ Cardinality({1}) = 1 /\ Cardinality({2}) = 1
          /\ Cardinality({1, 2}) = 2
      BY OneSource
    <3>3. CASE r.graph = "plain"
      <4>1. Cardinality(Graphs[r.graph][p].from) = 1
        BY <3>2, <3>3 DEF Graphs, Operator
      <4> QED
        BY <1>2, <3>3, <4>1, AotIndex
    <3>4. CASE r.graph = "skips"
      <4>1. Cardinality(Graphs[r.graph][p].from) = 1
        BY <3>2, <3>4 DEF Graphs, Operator
      <4> QED
        BY <1>2, <3>4, <4>1, AotIndex
    <3>5. CASE r.graph = "fused"
      <4>1. Cardinality(Graphs[r.graph][p].from) = IF p = 1 THEN 1 ELSE 2
        BY <3>2, <3>5 DEF Graphs, Operator
      <4> QED
        BY <1>2, <3>5, <4>1, AotIndex
    <3> QED
      BY <3>1, <3>3, <3>4, <3>5
  <2>4. CASE i < 0
    BY <1>2, <2>1, <2>2, <2>3, <2>4 DEF LayerMemory, OwnBuffers
  <2>5. CASE i >= 0
    <3> DEFINE rows == RowsFor(r, i)
    <3>1. rows = {[idx |-> p - 1, id |-> i, buffers |-> Buffers(r, p)]}
      BY <1>2, <2>1, <2>5 DEF RowsFor, MemoryFile
    <3> HIDE DEF rows
    <3>2. (CHOOSE row \in rows : TRUE) \in rows
      BY <3>1
    <3>3. LayerMemory(r, p) = Buffers(r, p)
      <4>1. SourceIndex(r, p) = i /\ ~(i < 0) /\ rows # {}
        BY <2>1, <2>2, <2>5, <3>1
      <4>2. LayerMemory(r, p) = (CHOOSE row \in rows : TRUE).buffers
        BY <4>1 DEF LayerMemory, rows
      <4> QED
        BY <4>2, <3>1, <3>2
    <3> QED
      BY <1>2, <2>3, <2>5, <3>3 DEF OwnBuffers
  <2> QED
    BY <2>1, <2>4, <2>5
<1> QED
  BY <1>1, <1>2

LEMMA LayerRows ==
  ASSUME NEW r \in BenchRuns, NEW s \in BenchRuns, Possible(r), Possible(s),
         LayersComparable(AssessComparability(r, s))
  PROVE  LayersAligned(r, s, CompareLayers(r, s))
<1>1. Labels(r) = Labels(s)
  <2>1. Effect("layer_blocking", "") \notin AssessComparability(r, s)
    BY DEF LayersComparable, Effect
  <2> QED
    BY <2>1, Findings DEF Topology
<1>2. DOMAIN Graphs[r.graph] = DOMAIN Graphs[s.graph]
  BY <1>1 DEF Labels
<1>3. \A p \in DOMAIN Graphs[r.graph] : Label(r, p) = Label(s, p)
  BY <1>1, <1>2 DEF Labels
<1>4. ASSUME r.engine = s.engine, r.extracted, s.extracted
      PROVE  r.graph = s.graph
  <2>1. CASE r.engine # "helia-aot"
    BY <2>1, <1>4 DEF Possible
  <2>2. CASE r.engine = "helia-aot"
    <3>1. r.graph \in {"plain", "skips", "fused"} /\ s.graph \in {"plain", "skips", "fused"}
      BY DEF BenchRuns, Graphs
    <3> QED
      BY <2>2, <1>4, <1>2, <1>3, <3>1, AotIndex
  <2> QED
    BY <2>1, <2>2
<1>5. \A p \in DOMAIN Graphs[r.graph] :
        LayerMemory(r, p) = OwnBuffers(r, p) /\ LayerMemory(s, p) = OwnBuffers(s, p)
  BY <1>2, LayerIsOwn
<1> QED
  BY <1>4, <1>5 DEF LayersAligned, CompareLayers

-----------------------------------------------------------------------------
(* The regression profile. *)

LEMMA MaxOfTwo ==
  ASSUME NEW a \in Int, NEW b \in Int
  PROVE  Max({a, b}) = IF a >= b THEN a ELSE b
<1>1. \E x \in {a, b} : \A y \in {a, b} : x >= y
  OBVIOUS
<1> QED
  BY <1>1 DEF Max

\* A run's measurements are numbers, absent, or not finite.
LEMMA ValueType ==
  ASSUME NEW r \in BenchRuns, NEW m
  PROVE  Value(r, m) \in Measures
BY DEF Value, BenchRuns, Measures, NoValue, NonFinite

LEMMA LossOfTwo ==
  ASSUME NEW i \in Nat, NEW j \in Nat, NEW policy \in Policies
  PROVE  Loss(policy, i, j) =
           LET worse == IF policy.direction = "smaller" THEN j - i
                        ELSE IF policy.direction = "larger" THEN i - j
                        ELSE IF j > i THEN j - i ELSE i - j
           IN IF worse >= 0 THEN worse ELSE 0
<1>1. Max({0, j - i}) = IF 0 >= j - i THEN 0 ELSE j - i
  BY MaxOfTwo
<1>2. Max({0, i - j}) = IF 0 >= i - j THEN 0 ELSE i - j
  BY MaxOfTwo
<1>3. Max({j - i, i - j}) = IF j - i >= i - j THEN j - i ELSE i - j
  BY MaxOfTwo
<1>4. policy.direction \in {"smaller", "larger", "either"}
  BY DEF Policies
<1> QED
  BY <1>1, <1>2, <1>3, <1>4 DEF Loss

\* A metric that does not count against a profile has not regressed, or may be missing and is.
LEMMA MetricIsEarned ==
  ASSUME NEW r \in BenchRuns, NEW s \in BenchRuns, NEW found,
         NEW profile, IsProfile(profile), NEW m \in DOMAIN profile.metrics,
         EvaluateMetric(CompareMetrics(found, r, s), profile, m) \notin {"fail", "warn"}
  PROVE  /\ Regressed(r, s, profile.metrics[m], m)
              => /\ m \notin DOMAIN CompareMetrics(found, r, s)
                 /\ MissingPolicy(profile, m) = "ignore"
         /\ MissingPolicy(profile, m) # "ignore" => Value(r, m) >= 0 /\ Value(s, m) >= 0
<1> DEFINE rows == CompareMetrics(found, r, s)
           policy == profile.metrics[m]
           i == Value(r, m)
           j == Value(s, m)
<1>1. policy \in Policies /\ MissingPolicy(profile, m) \in {"fail", "warn", "ignore"}
  BY DEF IsProfile, Policies, MissingPolicy
<1>2. OnMissing[MissingPolicy(profile, m)] \notin {"fail", "warn"}
        => MissingPolicy(profile, m) = "ignore"
  BY <1>1 DEF OnMissing
<1>3. CASE m \notin DOMAIN rows
  BY <1>2, <1>3 DEF EvaluateMetric
<1>4. CASE m \in DOMAIN rows
  <2>1. rows[m].baseline = i /\ rows[m].candidate = j
    BY <1>4, RowsShown
  <2>2. i \in Measures /\ j \in Measures
    BY ValueType
  <2> HIDE DEF rows, i, j
  <2>3. CASE NoValue \in {i, j}
    <3>1. MissingPolicy(profile, m) = "ignore"
      BY <1>2, <1>4, <2>1, <2>3 DEF EvaluateMetric, rows
    <3> QED
      BY <2>3, <3>1 DEF Regressed, NoValue, i, j
  <2>4. CASE NoValue \notin {i, j}
    <3> DEFINE allowed == Max({100 * policy.most, i * policy.pct})
    <3>1. NonFinite \notin {i, j} /\ 100 * Loss(policy, i, j) <= allowed
      BY <1>4, <2>1, <2>4 DEF EvaluateMetric, rows
    <3>2. i \in Nat /\ j \in Nat
      BY <2>2, <2>4, <3>1 DEF Measures
    <3>3. policy.most \in Nat /\ policy.pct \in Nat
      BY <1>1 DEF Policies
    <3>4. ~Regressed(r, s, policy, m)
      <4>1. SUFFICES ASSUME Regressed(r, s, policy, m) PROVE FALSE
        OBVIOUS
      <4> DEFINE worse == IF policy.direction = "smaller" THEN j - i
                          ELSE IF policy.direction = "larger" THEN i - j
                          ELSE IF j > i THEN j - i ELSE i - j
                 share == i * policy.pct
      <4>2. worse > policy.most /\ 100 * worse > share
        <5>1. policy.direction \in {"smaller", "larger", "either"}
          BY <1>1 DEF Policies
        <5>2. [smaller |-> j - i, larger |-> i - j,
               either |-> IF j > i THEN j - i ELSE i - j][policy.direction] = worse
          BY <5>1
        <5> HIDE DEF worse
        <5> QED
          BY <4>1, <5>2 DEF Regressed, i, j
      <4>3. worse \in Int /\ share \in Int
        BY <3>2, <3>3
      <4>4. Loss(policy, i, j) = worse
        <5>1. worse >= 0
          <6> HIDE DEF worse
          <6> QED
            BY <3>3, <4>2, <4>3
        <5>2. Loss(policy, i, j) = IF worse >= 0 THEN worse ELSE 0
          BY <1>1, <3>2, LossOfTwo
        <5> QED
          BY <5>1, <5>2
      <4>5. allowed = IF 100 * policy.most >= share THEN 100 * policy.most ELSE share
        <5>1. 100 * policy.most \in Int
          BY <3>3
        <5> HIDE DEF worse
        <5> QED
          BY <4>3, <5>1, MaxOfTwo
      <4> HIDE DEF worse, share, allowed
      <4> QED
        BY <3>1, <3>3, <4>2, <4>3, <4>4, <4>5
    <3> QED
      BY <3>2, <3>4 DEF i, j
  <2> QED
    BY <2>3, <2>4
<1> QED
  BY <1>3, <1>4

\* A pass of a profile on the rows of a comparison is earned.
LEMMA ProfileIsEarned ==
  ASSUME NEW r \in BenchRuns, NEW s \in BenchRuns, NEW found,
         NEW profile, IsProfile(profile),
         EvaluateProfile(CompareMetrics(found, r, s), profile, r, s) = "pass"
  PROVE  PassIsEarned(r, s, profile, CompareMetrics(found, r, s))
<1> DEFINE rows == CompareMetrics(found, r, s)
<1>1. /\ Mismatches(profile, r, s) = {}
      /\ \A m \in DOMAIN profile.metrics : EvaluateMetric(rows, profile, m) \notin {"fail", "warn"}
  BY DEF EvaluateProfile
<1>2. \A d \in profile.required :
        /\ d \in ConfigFields /\ ReadDimensions(r)[d] # Unknown
        /\ ReadDimensions(r)[d] = ReadDimensions(s)[d]
  BY <1>1 DEF Mismatches
<1>3. /\ "toolchain" \in profile.required => r.linker = s.linker
      /\ "board" \in profile.required => r.board = s.board
  <2>1. /\ ReadDimensions(r)["toolchain"] = <<r.linker>>
        /\ ReadDimensions(s)["toolchain"] = <<s.linker>>
        /\ ReadDimensions(r)["board"] = <<r.board>> /\ ReadDimensions(s)["board"] = <<s.board>>
    BY ReadRun
  <2> QED
    BY <1>2, <2>1
<1>4. "link_family" \in profile.required => "link_family" \notin {r.older, s.older}
  BY <1>2, ReadRun
<1>5. "engine_backend" \notin profile.required
  BY <1>2 DEF ConfigFields
<1>6. \A m \in DOMAIN profile.metrics :
        /\ Regressed(r, s, profile.metrics[m], m)
             => m \notin DOMAIN rows /\ MissingPolicy(profile, m) = "ignore"
        /\ MissingPolicy(profile, m) # "ignore" => Value(r, m) >= 0 /\ Value(s, m) >= 0
  BY <1>1, MetricIsEarned
<1> QED
  BY <1>3, <1>4, <1>5, <1>6 DEF PassIsEarned

LEMMA ProfileStatus ==
  ASSUME NEW rows, NEW profile, NEW r, NEW s
  PROVE  EvaluateProfile(rows, profile, r, s) \in {"pass", "warn", "fail", "skip"}
BY DEF EvaluateProfile

-----------------------------------------------------------------------------
\* What is shown is what the assessment of the two runs leaves, and a pass is what the profile says
\* of it.
CompareInv ==
  LET r == duel.baseline
      s == duel.candidate
      found == AssessComparability(r, s)
  IN /\ CompareTypeOK
     /\ duel \in Duels
     /\ cmpPc \in {"shown", "judged"} =>
          /\ RunComparable(found)
          /\ shown = [metrics |-> CompareMetrics(found, r, s),
                      layers |-> IF LayersComparable(found) THEN CompareLayers(r, s) ELSE <<>>]
     /\ cmpPc # "judged" => ruling.status = "none"
     /\ ruling.status = "pass" =>
          /\ ruling.exit = 0 /\ ruling.profile \in Profiles
          /\ EvaluateProfile(shown.metrics, ruling.profile, r, s) = "pass"

THEOREM ComparisonInvariant == CompareSpec => []CompareInv
<1>1. duel \in Duels /\ CompareInit => CompareInv
  <2> SUFFICES ASSUME duel \in Duels, CompareInit PROVE CompareInv
    OBVIOUS
  <2>1. DOMAIN shown.metrics = {}
    BY DEF CompareInit, NothingShown
  <2> QED
    BY <2>1 DEF CompareInit, NoRuling, CompareInv, CompareTypeOK
<1>2. CompareInv /\ [CompareNext]_compareVars => CompareInv'
  <2> SUFFICES ASSUME CompareInv, [CompareNext]_compareVars PROVE CompareInv'
    OBVIOUS
  <2> DEFINE r == duel.baseline
             s == duel.candidate
             found == AssessComparability(r, s)
             rows == CompareMetrics(found, r, s)
  <2>1. CASE Compare
    <3>1. CASE RunComparable(found)
      <4> DEFINE layers == IF LayersComparable(found) THEN CompareLayers(r, s) ELSE <<>>
      <4>1. /\ cmpPc' = "shown" /\ shown' = [metrics |-> rows, layers |-> layers]
            /\ ruling' = ruling /\ duel' = duel /\ cmpPc = "asked"
        BY <2>1, <3>1 DEF Compare
      <4>2. DOMAIN rows \subseteq Metrics
        BY DEF CompareMetrics
      <4>3. ruling.status = "none" /\ CompareTypeOK'
        BY <4>1, <4>2 DEF CompareInv, CompareTypeOK
      <4> QED
        BY <3>1, <4>1, <4>3 DEF CompareInv
    <3>2. CASE ~RunComparable(found)
      <4>1. /\ cmpPc' = "refused" /\ cmpPc = "asked" /\ shown' = shown /\ duel' = duel
            /\ ruling' = [ruling EXCEPT !.exit = 1]
        BY <2>1, <3>2 DEF Compare
      <4> QED
        BY <4>1 DEF CompareInv, CompareTypeOK
    <3> QED
      BY <3>1, <3>2
  <2>2. CASE JudgeProfile
    <3>1. PICK profile \in Profiles :
            ruling' = [profile |-> profile,
                       status |-> EvaluateProfile(shown.metrics, profile, r, s),
                       exit |-> IF EvaluateProfile(shown.metrics, profile, r, s) = "fail"
                                THEN 1 ELSE 0]
      BY <2>2 DEF JudgeProfile
    <3>2. cmpPc = "shown" /\ cmpPc' = "judged" /\ shown' = shown /\ duel' = duel
      BY <2>2 DEF JudgeProfile
    <3>3. CompareTypeOK'
      BY <3>1, <3>2, ProfileStatus DEF CompareInv, CompareTypeOK
    <3> QED
      BY <3>1, <3>2, <3>3 DEF CompareInv
  <2>3. CASE UNCHANGED compareVars
    BY <2>3 DEF CompareInv, CompareTypeOK, compareVars
  <2> QED
    BY <2>1, <2>2, <2>3 DEF CompareNext
<1> QED
  BY <1>1, <1>2, PTL DEF CompareSpec

\* Whatever two runs are compared, whatever profile judges them: the rows are of what the two runs
\* measured alike, and what the profile passes has not regressed.
THEOREM ComparisonIsAlwaysSound == CompareSpec => []ComparisonIsSound
<1>1. CompareInv => ComparisonIsSound
  <2> SUFFICES ASSUME CompareInv PROVE ComparisonIsSound
    OBVIOUS
  <2> DEFINE r == duel.baseline
             s == duel.candidate
             found == AssessComparability(r, s)
  <2>1. r \in BenchRuns /\ s \in BenchRuns /\ Possible(r) /\ Possible(s)
    BY ComparisonAssumption DEF CompareInv, IsDuel
  <2>2. ASSUME cmpPc \in {"shown", "judged"}
        PROVE  /\ PowerRowsAlike(r, s, shown.metrics)
               /\ MemoryRowsAlike(r, s, shown.metrics)
               /\ LayersAligned(r, s, shown.layers)
               /\ r.complete /\ s.complete /\ r.model = s.model
               /\ PowerAloneBroken(r) /\ PowerAloneBroken(s)
    <3>1. RunComparable(found) /\ shown.metrics = CompareMetrics(found, r, s)
      BY <2>2 DEF CompareInv
    <3>2. shown.layers = IF LayersComparable(found) THEN CompareLayers(r, s) ELSE <<>>
      BY <2>2 DEF CompareInv
    <3>3. LayersAligned(r, s, shown.layers)
      <4>1. CASE LayersComparable(found)
        BY <2>1, <3>2, <4>1, LayerRows
      <4>2. CASE ~LayersComparable(found)
        <5>1. DOMAIN shown.layers = {}
          BY <3>2, <4>2
        <5> QED
          BY <5>1 DEF LayersAligned
      <4> QED
        BY <4>1, <4>2
    <3> QED
      BY <2>1, <3>1, <3>3, PowerRows, MemoryRows, ComparedAtAll
  <2>3. ASSUME ruling.status = "pass"
        PROVE  ruling.exit = 0 /\ PassIsEarned(r, s, ruling.profile, shown.metrics)
    <3>1. cmpPc = "judged"
      BY <2>3 DEF CompareInv
    <3>2. shown.metrics = CompareMetrics(found, r, s)
      BY <3>1 DEF CompareInv
    <3>3. /\ ruling.exit = 0 /\ IsProfile(ruling.profile)
          /\ EvaluateProfile(shown.metrics, ruling.profile, r, s) = "pass"
      BY <2>3, ComparisonAssumption DEF CompareInv
    <3> QED
      BY <2>1, <3>2, <3>3, ProfileIsEarned
  <2> QED
    BY <2>2, <2>3 DEF ComparisonIsSound
<1> QED
  BY <1>1, ComparisonInvariant, PTL

-----------------------------------------------------------------------------
(* The matrix of a validation: which cases a request asks for. *)

\* A list of anything, and a plan as the rules of the matrix take it.
IsAList(s) == s \in Seq(ToSet(s))
IsAPlan(plan) ==
  /\ plan = [flags |-> plan.flags, custom |-> plan.custom, suite |-> plan.suite,
             power |-> plan.power, powerBoards |-> plan.powerBoards, repeat |-> plan.repeat]
  /\ plan.flags = [a \in Axes |-> plan.flags[a]] /\ \A a \in Axes : IsAList(plan.flags[a])
  /\ IsAList(plan.custom) /\ plan.repeat \in Nat

\* A sequence is a list of what is in it.
LEMMA ListOfSome == ASSUME NEW S, NEW s \in Seq(S) PROVE IsAList(s)
<1>1. \A i \in 1 .. Len(s) : s[i] \in ToSet(s)
  BY DEF ToSet
<1>2. s \in [1 .. Len(s) -> ToSet(s)] /\ Len(s) \in Nat
  BY <1>1
<1> QED
  BY <1>2 DEF IsAList

\* Sequences written out are lists.
LEMMA ShortLists ==
  /\ IsAList(<<>>)
  /\ \A a : IsAList(<<a>>)
  /\ \A a, b : IsAList(<<a, b>>)
  /\ \A a, b, c, d : IsAList(<<a, b, c, d>>)
<1>1. <<>> \in Seq({}) /\ \A a : <<a>> \in Seq({a})
  OBVIOUS
<1>2. \A a, b : <<a, b>> \in Seq({a, b})
  OBVIOUS
<1>3. \A a, b, c, d : <<a, b, c, d>> \in Seq({a, b, c, d})
  OBVIOUS
<1> QED
  BY <1>1, <1>2, <1>3, ListOfSome

\* A default is taken where nothing is given: either way it is a list.
LEMMA OneOrTheOther ==
  ASSUME NEW s, IsAList(s), NEW r, IsAList(r) PROVE IsAList(Or(s, r))
BY DEF Or

\* What a suite fills in is a list.
LEMMA PresetIsAList == ASSUME NEW suite, NEW axis PROVE IsAList(Preset(suite, axis))
BY ShortLists DEF Preset, Engines

\* Aliases resolved, a list stays a list.
LEMMA NormalisedIsAList == ASSUME NEW tokens, IsAList(tokens) PROVE IsAList(Normalised(tokens))
<1> DEFINE S == {Normalised(tokens)[i] : i \in 1 .. Len(tokens)}
<1>1. DOMAIN tokens = 1 .. Len(tokens) /\ Len(tokens) \in Nat
  BY DEF IsAList
<1>2. Normalised(tokens) \in [1 .. Len(tokens) -> S]
  BY <1>1 DEF Normalised
<1> HIDE DEF S
<1>3. Normalised(tokens) \in Seq(S)
  BY <1>1, <1>2
<1> QED
  BY <1>3, ListOfSome

\* A resolved plan is a plan, with a board, and leaves alone what is not a flag.
LEMMA PlanIsResolved ==
  ASSUME NEW asked, IsAPlan(asked)
  PROVE  /\ IsAPlan(Resolved(asked))
         /\ Resolved(asked).power = asked.power /\ Resolved(asked).powerBoards = asked.powerBoards
         /\ Resolved(asked).flags["boards"] # <<>>
         /\ asked.flags["toolchains"] = <<>> /\ asked.suite = "none" =>
              Resolved(asked).flags["toolchains"] = <<>>
<1> DEFINE flags == [asked.flags EXCEPT !["models"] = Or(@, asked.custom)]
           filled == [a \in Axes |-> Or(flags[a], Preset(asked.suite, a))]
           said == [a \in Axes |-> IF a = "models" THEN filled[a]
                                   ELSE IF a = "boards" THEN Or(filled[a], <<"apollo510_evb">>)
                                   ELSE Normalised(filled[a])]
<1>1. /\ asked.flags = [a \in Axes |-> asked.flags[a]]
      /\ \A a \in Axes : IsAList(asked.flags[a])
      /\ IsAList(asked.custom)
  BY DEF IsAPlan
<1>2. \A a \in Axes : flags[a] = IF a = "models" THEN Or(asked.flags[a], asked.custom) ELSE asked.flags[a]
  BY <1>1
<1>3. \A a \in Axes : IsAList(flags[a])
  BY <1>1, <1>2, OneOrTheOther
<1>4. \A a \in Axes : IsAList(filled[a]) /\ filled[a] = Or(flags[a], Preset(asked.suite, a))
  <2> HIDE DEF flags
  <2> QED
    BY <1>3, OneOrTheOther, PresetIsAList
<1>5. \A a \in Axes : IsAList(said[a])
  <2> SUFFICES ASSUME NEW a \in Axes PROVE IsAList(said[a])
    OBVIOUS
  <2> HIDE DEF filled
  <2>1. IsAList(filled[a])
    BY <1>4
  <2>2. IsAList(Or(filled[a], <<"apollo510_evb">>))
    BY <2>1, ShortLists, OneOrTheOther
  <2>3. IsAList(Normalised(filled[a]))
    BY <2>1, NormalisedIsAList
  <2> QED
    BY <2>1, <2>2, <2>3
<1>6. Resolved(asked) = [asked EXCEPT !.flags = said]
  BY DEF Resolved
<1>7. "boards" \in Axes /\ "toolchains" \in Axes /\ "models" \in Axes
  BY DEF Axes
<1>8. said = [a \in Axes |-> said[a]]
  OBVIOUS
<1>9. said["boards"] # <<>>
  <2>1. said["boards"] = Or(filled["boards"], <<"apollo510_evb">>)
    BY <1>7
  <2> QED
    BY <2>1 DEF Or
<1>10. ASSUME asked.flags["toolchains"] = <<>>, asked.suite = "none" PROVE said["toolchains"] = <<>>
  <2>1. flags["toolchains"] = <<>>
    BY <1>2, <1>7, <1>10
  <2>2. Preset(asked.suite, "toolchains") = <<>>
    BY <1>10 DEF Preset
  <2>3. filled["toolchains"] = <<>>
    BY <1>4, <1>7, <2>1, <2>2 DEF Or
  <2>4. said["toolchains"] = Normalised(<<>>)
    BY <1>7, <2>3
  <2>5. IsAList(Normalised(<<>>)) /\ DOMAIN Normalised(<<>>) = {}
    BY NormalisedIsAList, ShortLists DEF Normalised
  <2> QED
    BY <2>4, <2>5 DEF IsAList
<1> HIDE DEF said
<1>11. /\ asked = [flags |-> asked.flags, custom |-> asked.custom, suite |-> asked.suite,
                   power |-> asked.power, powerBoards |-> asked.powerBoards, repeat |-> asked.repeat]
       /\ asked.repeat \in Nat
  BY DEF IsAPlan
<1>12. Resolved(asked) = [flags |-> said, custom |-> asked.custom, suite |-> asked.suite,
                   power |-> asked.power, powerBoards |-> asked.powerBoards, repeat |-> asked.repeat]
  BY <1>6, <1>11, Zenon
<1>13. IsAPlan(Resolved(asked))
  BY <1>1, <1>5, <1>8, <1>11, <1>12 DEF IsAPlan
<1> QED
  BY <1>9, <1>10, <1>12, <1>13

\* A list that names nothing twice has as many places as names.
LEMMA CountedOnce ==
  ASSUME NEW s, IsAList(s), Cardinality(ToSet(s)) = Len(s) PROVE IsInjective(s)
<1>1. IsFiniteSet(1 .. Len(s)) /\ Cardinality(1 .. Len(s)) = Len(s)
  <2> DEFINE n == Len(s)
  <2>1. n \in Nat
    BY DEF IsAList
  <2> HIDE DEF n
  <2>2. IsFiniteSet(1 .. n) /\ Cardinality(1 .. n) = IF 1 > n THEN 0 ELSE n - 1 + 1
    BY <2>1, FS_Interval
  <2>3. IsFiniteSet(1 .. n) /\ Cardinality(1 .. n) = n
    BY <2>1, <2>2
  <2> QED
    BY <2>3 DEF n
<1>2. s \in Surjection(1 .. Len(s), ToSet(s))
  BY DEF Surjection, ToSet, IsAList
<1>3. s \in Injection(1 .. Len(s), ToSet(s))
  BY <1>1, <1>2, FS_Surjection
<1> QED
  BY <1>3 DEF Injection, IsInjective, IsAList

\* Some of a list without doubles have no doubles.
LEMMA ThoseAreInjective ==
  ASSUME NEW list, IsInjective(list), NEW set PROVE IsInjective(Those(list, set))
BY DEF Those, IsInjective

-----------------------------------------------------------------------------
\* The axes of an engine on a board are finite lists, without doubles where the plan has none.
AxesFinite(x) == \A a \in Axis : IsFiniteSet(DOMAIN x[a])
AxesInjective(x) == \A a \in Axis : IsInjective(x[a])

\* A list has finitely many places.
LEMMA ListsAreFinite == ASSUME NEW s, IsAList(s) PROVE IsFiniteSet(DOMAIN s)
<1> DEFINE n == Len(s)
<1>1. n \in Nat /\ DOMAIN s = 1 .. n
  BY DEF IsAList
<1> HIDE DEF n
<1> QED
  BY <1>1, FS_Interval

LEMMA ThoseAreFinite ==
  ASSUME NEW list, IsFiniteSet(DOMAIN list), NEW set PROVE IsFiniteSet(DOMAIN Those(list, set))
<1>1. DOMAIN Those(list, set) \in SUBSET (DOMAIN list)
  BY DEF Those
<1> QED
  BY <1>1, FS_Subset

\* What a board supports is finite and without doubles.
LEMMA BoardLists ==
  ASSUME NEW b \in DOMAIN Boards
  PROVE  /\ IsFiniteSet(DOMAIN Boards[b].toolchains) /\ IsInjective(Boards[b].toolchains)
         /\ IsFiniteSet(DOMAIN Boards[b].transports) /\ IsInjective(Boards[b].transports)
         /\ IsFiniteSet(DOMAIN Boards[b].memories) /\ IsInjective(Boards[b].memories)
<1>1. \A list \in {Boards[b].toolchains, Boards[b].transports, Boards[b].memories} :
        list \in Seq(STRING) /\ IsInjective(list)
  BY MatrixAssumption
<1>2. \A list \in {Boards[b].toolchains, Boards[b].transports, Boards[b].memories} :
        IsFiniteSet(DOMAIN list)
  BY <1>1, ListOfSome, ListsAreFinite
<1> QED
  BY <1>1, <1>2

LEMMA InThemIsFinite ==
  ASSUME NEW list, IsAList(list), NEW supported, IsFiniteSet(DOMAIN supported)
  PROVE  IsFiniteSet(DOMAIN InThem(list, supported))
BY ListsAreFinite, ThoseAreFinite DEF InThem

LEMMA InThemIsInjective ==
  ASSUME NEW list, IsInjective(list), NEW supported, IsInjective(supported)
  PROVE  IsInjective(InThem(list, supported))
BY ThoseAreInjective DEF InThem

\* Every axis of an engine on a board by itself.
AxesAre(x, plan, b, e) ==
  /\ x["provider"] = IF e = "executorch" THEN Or(plan.flags["backends"], <<"arm", "ns">>)
                     ELSE IF e = "litert" THEN <<"arm">> ELSE <<"ns">>
  /\ x["toolchain"] =
       IF e = "executorch" /\ plan.flags["toolchains"] = <<>>
       THEN Those(Toolchains(plan, b), ToSet(Toolchains(plan, b)) \ {"armclang"})
       ELSE Toolchains(plan, b)
  /\ x["transport"] = InThem(plan.flags["transports"], Boards[b].transports)
  /\ x["memory"] =
       IF e = "executorch"
       THEN Those(InThem(plan.flags["memories"], Boards[b].memories),
                  ToSet(InThem(plan.flags["memories"], Boards[b].memories)) \ {"psram"})
       ELSE InThem(plan.flags["memories"], Boards[b].memories)
  /\ x["power"] = IF e = "executorch" THEN <<FALSE>> ELSE PowerFlags(plan, b)
  /\ x["attempt"] = [i \in 1 .. plan.repeat |-> i]
LEMMA EveryAxis == ASSUME NEW plan, NEW b, NEW e PROVE AxesAre(AxesOf(plan, b, e), plan, b, e)
BY Zenon DEF AxesOf, AxesAre

LEMMA AxesAreFinite ==
  ASSUME NEW plan, IsAPlan(plan), NEW b \in DOMAIN Boards, NEW e
  PROVE  AxesFinite(AxesOf(plan, b, e))
<1> DEFINE x == AxesOf(plan, b, e)
<1>c. AxesAre(x, plan, b, e)
  BY EveryAxis
<1> HIDE DEF x
<1>0. \A a \in Axes : IsAList(plan.flags[a])
  BY DEF IsAPlan
<1>1. {"backends", "toolchains", "transports", "memories"} \subseteq Axes
  BY DEF Axes
<1>2. IsFiniteSet(DOMAIN x["provider"])
  BY <1>0, <1>1, <1>c, ShortLists, OneOrTheOther, ListsAreFinite DEF AxesAre
<1>3. IsFiniteSet(DOMAIN Toolchains(plan, b))
  BY <1>0, <1>1, BoardLists, InThemIsFinite, ThoseAreFinite DEF Toolchains
<1>4. IsFiniteSet(DOMAIN x["toolchain"])
  BY <1>3, <1>c, ThoseAreFinite DEF AxesAre
<1>5. IsFiniteSet(DOMAIN x["transport"])
  BY <1>0, <1>1, <1>c, BoardLists, InThemIsFinite DEF AxesAre
<1>6. IsFiniteSet(DOMAIN InThem(plan.flags["memories"], Boards[b].memories))
  BY <1>0, <1>1, BoardLists, InThemIsFinite
<1>7. IsFiniteSet(DOMAIN x["memory"])
  BY <1>6, <1>c, ThoseAreFinite DEF AxesAre
<1>8. IsFiniteSet(DOMAIN x["power"])
  <2>1. IsAList(x["power"])
    BY <1>c, ShortLists DEF PowerFlags, AxesAre
  <2> QED
    BY <2>1, ListsAreFinite
<1>9. IsFiniteSet(DOMAIN x["attempt"])
  <2>1. plan.repeat \in Nat
    BY DEF IsAPlan
  <2>2. DOMAIN x["attempt"] = 1 .. plan.repeat
    <3>1. x["attempt"] = [i \in 1 .. plan.repeat |-> i]
      BY <1>c DEF AxesAre
    <3> QED
      BY <3>1
  <2> HIDE DEF x
  <2>3. IsFiniteSet(1 .. plan.repeat)
    BY <2>1, FS_Interval
  <2> QED
    BY <2>2, <2>3
<1> QED
  BY <1>2, <1>4, <1>5, <1>7, <1>8, <1>9 DEF AxesFinite, Axis, x

LEMMA AxesAreInjective ==
  ASSUME NEW plan, IsAPlan(plan), NothingTwice(plan), NEW b \in DOMAIN Boards, NEW e
  PROVE  AxesInjective(AxesOf(plan, b, e))
<1> DEFINE x == AxesOf(plan, b, e)
<1>c. AxesAre(x, plan, b, e)
  BY EveryAxis
<1> HIDE DEF x
<1>0. \A a \in Axes : IsInjective(plan.flags[a])
  BY CountedOnce DEF IsAPlan, NothingTwice
<1>1. {"backends", "toolchains", "transports", "memories"} \subseteq Axes
  BY DEF Axes
<1>a. /\ IsInjective(<<"arm", "ns">>) /\ IsInjective(<<"arm">>) /\ IsInjective(<<"ns">>)
      /\ IsInjective(<<FALSE>>) /\ IsInjective(<<TRUE>>) /\ IsInjective(<<FALSE, TRUE>>)
  <2>1. \A y : IsInjective(<<y>>)
    BY DEF IsInjective
  <2>2. \A y, z : y # z => IsInjective(<<y, z>>)
    <3> SUFFICES ASSUME NEW y, NEW z, y # z PROVE IsInjective(<<y, z>>)
      OBVIOUS
    <3>1. DOMAIN <<y, z>> = {1, 2} /\ <<y, z>>[1] = y /\ <<y, z>>[2] = z
      OBVIOUS
    <3> QED
      BY <3>1, Zenon DEF IsInjective
  <2> QED
    BY <2>1, <2>2
<1>2. IsInjective(x["provider"])
  <2>1. IsInjective(Or(plan.flags["backends"], <<"arm", "ns">>))
    BY <1>0, <1>1, <1>a DEF Or
  <2> QED
    BY <1>a, <1>c, <2>1 DEF AxesAre
<1>3. IsInjective(Toolchains(plan, b))
  BY <1>0, <1>1, BoardLists, InThemIsInjective, ThoseAreInjective DEF Toolchains
<1>4. IsInjective(x["toolchain"])
  BY <1>3, <1>c, ThoseAreInjective DEF AxesAre
<1>5. IsInjective(x["transport"])
  BY <1>0, <1>1, <1>c, BoardLists, InThemIsInjective DEF AxesAre
<1>6. IsInjective(InThem(plan.flags["memories"], Boards[b].memories))
  BY <1>0, <1>1, BoardLists, InThemIsInjective
<1>7. IsInjective(x["memory"])
  BY <1>6, <1>c, ThoseAreInjective DEF AxesAre
<1>8. IsInjective(x["power"])
  BY <1>a, <1>c DEF PowerFlags, AxesAre
<1>9. IsInjective(x["attempt"])
  BY <1>c DEF IsInjective, AxesAre
<1> QED
  BY <1>2, <1>4, <1>5, <1>7, <1>8, <1>9 DEF AxesInjective, Axis, x

-----------------------------------------------------------------------------
(* The cases of a plan. *)

PlaceOn(x) ==
  [provider : DOMAIN x.provider, toolchain : DOMAIN x.toolchain, transport : DOMAIN x.transport,
   memory : DOMAIN x.memory, power : DOMAIN x.power, attempt : DOMAIN x.attempt]
NamedBoards(plan) == Or(plan.flags["boards"], SetToSeq(DOMAIN Boards))
NamedModels(plan) == Or(plan.flags["models"], SetToSeq(DOMAIN Models))
NamedEngines(plan) == Or(plan.flags["engines"], Engines)
CaseAt(plan, t, p) ==
  LET x == AxesOf(plan, NamedBoards(plan)[t[1]], NamedEngines(plan)[t[3]])
  IN [place |-> <<t, p>>, board |-> NamedBoards(plan)[t[1]], model |-> NamedModels(plan)[t[2]],
      engine |-> NamedEngines(plan)[t[3]], value |-> [a \in Axis |-> x[a][p[a]]]]
Spots(plan) == (DOMAIN NamedBoards(plan)) \X (DOMAIN NamedModels(plan)) \X (DOMAIN NamedEngines(plan))
AxesAt(plan, t) == AxesOf(plan, NamedBoards(plan)[t[1]], NamedEngines(plan)[t[3]])

\* A case is of a spot (board, model, engine) and a place on its axes.
LEMMA CasesAreAt ==
  ASSUME NEW plan, NEW c \in Build(plan)
  PROVE  /\ ~Rejects(plan)
         /\ \E t \in Spots(plan) : \E p \in PlaceOn(AxesAt(plan, t)) : c = CaseAt(plan, t, p)
<1>1. ~Rejects(plan)
  BY DEF Build
<1>2. PICK t \in Spots(plan) : c \in CasesAt(plan, NamedBoards(plan), NamedModels(plan), NamedEngines(plan), t)
  BY <1>1, Zenon DEF Build, Spots, NamedBoards, NamedModels, NamedEngines
<1>3. \E p \in PlaceOn(AxesAt(plan, t)) : c = CaseAt(plan, t, p)
  BY <1>2, Zenon DEF CasesAt, PlaceOn, AxesAt, CaseAt
<1> QED
  BY <1>1, <1>3

\* A finite set has a list.
LEMMA SetInOrder ==
  ASSUME NEW S, IsFiniteSet(S)
  PROVE  IsAList(SetToSeq(S)) /\ IsInjective(SetToSeq(S)) /\ \A i \in DOMAIN SetToSeq(S) : SetToSeq(S)[i] \in S
<1> DEFINE n == Cardinality(S)
<1>1. n \in Nat /\ ExistsBijection(1 .. n, S)
  BY FS_CardinalityType
<1>2. \E f \in [1 .. n -> S] : IsInjective(f)
  BY <1>1 DEF ExistsBijection, Bijection, Injection, IsInjective
<1>3. SetToSeq(S) \in [1 .. n -> S] /\ IsInjective(SetToSeq(S))
  BY <1>2 DEF SetToSeq
<1> HIDE DEF n
<1>4. SetToSeq(S) \in Seq(S)
  BY <1>1, <1>3
<1> QED
  BY <1>3, <1>4, ListOfSome

\* The names of boards, models and engines are lists, without doubles where the plan has none.
LEMMA NamesAreLists ==
  ASSUME NEW plan, IsAPlan(plan), ~Rejects(plan)
  PROVE  /\ IsAList(NamedBoards(plan)) /\ IsAList(NamedModels(plan)) /\ IsAList(NamedEngines(plan))
         /\ \A i \in DOMAIN NamedBoards(plan) : NamedBoards(plan)[i] \in DOMAIN Boards
         /\ NothingTwice(plan) => /\ IsInjective(NamedBoards(plan)) /\ IsInjective(NamedModels(plan))
                                  /\ IsInjective(NamedEngines(plan))
<1>1. {"boards", "models", "engines"} \subseteq Axes
  BY DEF Axes
<1>2. /\ IsAList(plan.flags["boards"]) /\ IsAList(plan.flags["models"]) /\ IsAList(plan.flags["engines"])
  BY <1>1 DEF IsAPlan
<1>3. IsAList(Engines) /\ IsInjective(Engines)
  <2>1. DOMAIN Engines = 1 .. 4 /\ Engines[1] = "helia-rt" /\ Engines[2] = "helia-aot"
        /\ Engines[3] = "litert" /\ Engines[4] = "executorch"
    BY DEF Engines
  <2>2. \A i \in 1 .. 4 : i = 1 \/ i = 2 \/ i = 3 \/ i = 4
    OBVIOUS
  <2>3. IsInjective(Engines)
    BY <2>1, <2>2 DEF IsInjective
  <2> QED
    BY <2>3, ShortLists DEF Engines
<1>4. IsFiniteSet(DOMAIN Boards) /\ IsFiniteSet(DOMAIN Models)
  BY MatrixAssumption
<1>5. \A i \in DOMAIN plan.flags["boards"] : plan.flags["boards"][i] \in DOMAIN Boards
  <2>1. ToSet(plan.flags["boards"]) \subseteq DOMAIN Boards
    BY DEF Rejects
  <2> QED
    BY <2>1 DEF ToSet
<1>6. ASSUME NothingTwice(plan) PROVE \A a \in Axes : IsInjective(plan.flags[a])
  BY <1>6, CountedOnce DEF IsAPlan, NothingTwice
<1> QED
  BY <1>1, <1>2, <1>3, <1>4, <1>5, <1>6, SetInOrder, OneOrTheOther
     DEF NamedBoards, NamedModels, NamedEngines, Or

\* The attempt tells cases apart where there are several.
LEMMA SameCase ==
  ASSUME NEW plan, IsAPlan(plan), NothingTwice(plan), NEW c \in Build(plan), NEW d \in Build(plan),
         c.board = d.board, c.model = d.model, c.engine = d.engine,
         \A a \in Axis \ {"attempt"} : c.value[a] = d.value[a],
         plan.repeat > 1 => c.value["attempt"] = d.value["attempt"]
  PROVE  c = d
<1>1. ~Rejects(plan)
  BY CasesAreAt
<1>2. PICK t \in Spots(plan) : \E p \in PlaceOn(AxesAt(plan, t)) : c = CaseAt(plan, t, p)
  BY CasesAreAt
<1>3. PICK p \in PlaceOn(AxesAt(plan, t)) : c = CaseAt(plan, t, p)
  BY <1>2
<1>4. PICK u \in Spots(plan) : \E q \in PlaceOn(AxesAt(plan, u)) : d = CaseAt(plan, u, q)
  BY CasesAreAt
<1>5. PICK q \in PlaceOn(AxesAt(plan, u)) : d = CaseAt(plan, u, q)
  BY <1>4
<1>6. /\ t = <<t[1], t[2], t[3]>> /\ u = <<u[1], u[2], u[3]>>
      /\ t[1] \in DOMAIN NamedBoards(plan) /\ u[1] \in DOMAIN NamedBoards(plan)
      /\ t[2] \in DOMAIN NamedModels(plan) /\ u[2] \in DOMAIN NamedModels(plan)
      /\ t[3] \in DOMAIN NamedEngines(plan) /\ u[3] \in DOMAIN NamedEngines(plan)
  BY DEF Spots
<1>7. /\ c.board = NamedBoards(plan)[t[1]] /\ d.board = NamedBoards(plan)[u[1]]
      /\ c.model = NamedModels(plan)[t[2]] /\ d.model = NamedModels(plan)[u[2]]
      /\ c.engine = NamedEngines(plan)[t[3]] /\ d.engine = NamedEngines(plan)[u[3]]
      /\ \A a \in Axis : c.value[a] = AxesAt(plan, t)[a][p[a]] /\ d.value[a] = AxesAt(plan, u)[a][q[a]]
  BY <1>3, <1>5, Zenon DEF CaseAt, AxesAt
<1>8. t = u
  <2>0. IsInjective(NamedBoards(plan)) /\ IsInjective(NamedModels(plan)) /\ IsInjective(NamedEngines(plan))
    BY <1>1, NamesAreLists
  <2>1. t[1] = u[1]
    <3>1. \A i, j \in DOMAIN NamedBoards(plan) : NamedBoards(plan)[i] = NamedBoards(plan)[j] => i = j
      BY <2>0, Zenon DEF IsInjective
    <3>2. NamedBoards(plan)[t[1]] = NamedBoards(plan)[u[1]]
      BY <1>7, Zenon
    <3> QED
      BY <1>6, <3>1, <3>2, Zenon
  <2>2. t[2] = u[2]
    <3>1. \A i, j \in DOMAIN NamedModels(plan) : NamedModels(plan)[i] = NamedModels(plan)[j] => i = j
      BY <2>0, Zenon DEF IsInjective
    <3>2. NamedModels(plan)[t[2]] = NamedModels(plan)[u[2]]
      BY <1>7, Zenon
    <3> QED
      BY <1>6, <3>1, <3>2, Zenon
  <2>3. t[3] = u[3]
    <3>1. \A i, j \in DOMAIN NamedEngines(plan) : NamedEngines(plan)[i] = NamedEngines(plan)[j] => i = j
      BY <2>0, Zenon DEF IsInjective
    <3>2. NamedEngines(plan)[t[3]] = NamedEngines(plan)[u[3]]
      BY <1>7, Zenon
    <3> QED
      BY <1>6, <3>1, <3>2, Zenon
  <2> QED
    BY <1>6, <2>1, <2>2, <2>3, Zenon
<1> DEFINE x == AxesAt(plan, t)
<1>9. AxesInjective(x)
  BY <1>1, <1>6, NamesAreLists, AxesAreInjective DEF AxesAt
<1>10. /\ p = [provider |-> p.provider, toolchain |-> p.toolchain, transport |-> p.transport,
               memory |-> p.memory, power |-> p.power, attempt |-> p.attempt]
       /\ q = [provider |-> q.provider, toolchain |-> q.toolchain, transport |-> q.transport,
               memory |-> q.memory, power |-> q.power, attempt |-> q.attempt]
  BY <1>8 DEF PlaceOn
<1>11. \A a \in Axis : p[a] \in DOMAIN x[a] /\ q[a] \in DOMAIN x[a]
  <2>1. p \in PlaceOn(x) /\ q \in PlaceOn(x)
    BY <1>8
  <2> HIDE DEF x
  <2> QED
    BY <2>1 DEF PlaceOn, Axis
<1>12. \A a \in Axis \ {"attempt"} : p[a] = q[a]
  <2> SUFFICES ASSUME NEW a \in Axis \ {"attempt"} PROVE p[a] = q[a]
    OBVIOUS
  <2>1. x[a][p[a]] = x[a][q[a]]
    BY <1>7, <1>8
  <2> HIDE DEF x
  <2> QED
    BY <1>9, <1>11, <2>1 DEF AxesInjective, IsInjective
<1>13. p["attempt"] = q["attempt"]
  <2>1. x["attempt"] = [i \in 1 .. plan.repeat |-> i]
    BY Zenon DEF AxesAt, AxesOf
  <2>2. "attempt" \in Axis
    BY DEF Axis
  <2>3. p["attempt"] \in 1 .. plan.repeat /\ q["attempt"] \in 1 .. plan.repeat
    BY <1>11, <2>1, <2>2
  <2>4. plan.repeat > 1 => x["attempt"][p["attempt"]] = x["attempt"][q["attempt"]]
    BY <1>7, <1>8, <2>2
  <2>5. plan.repeat \in Nat
    BY DEF IsAPlan
  <2> HIDE DEF x
  <2>6. CASE plan.repeat > 1
    BY <2>1, <2>3, <2>4, <2>6
  <2>7. CASE ~(plan.repeat > 1)
    BY <2>3, <2>5, <2>7
  <2> QED
    BY <2>6, <2>7
<1>14. p = q
  <2>1. /\ p.provider = q.provider /\ p.toolchain = q.toolchain /\ p.transport = q.transport
        /\ p.memory = q.memory /\ p.power = q.power /\ p.attempt = q.attempt
    BY <1>12, <1>13 DEF Axis
  <2> QED
    BY <1>10, <2>1, Zenon
<1> QED
  BY <1>3, <1>5, <1>8, <1>14

-----------------------------------------------------------------------------
\* The cases of a plan are finitely many.
LEMMA PlacesAreFinite == ASSUME NEW x, AxesFinite(x) PROVE IsFiniteSet(PlaceOn(x))
<1> DEFINE T == (DOMAIN x.provider) \X ((DOMAIN x.toolchain) \X ((DOMAIN x.transport) \X
                  ((DOMAIN x.memory) \X ((DOMAIN x.power) \X (DOMAIN x.attempt)))))
           f == [p \in PlaceOn(x) |->
                   <<p.provider, <<p.toolchain, <<p.transport, <<p.memory, <<p.power, p.attempt>> >> >> >> >>]
<1>1. /\ IsFiniteSet(DOMAIN x.provider) /\ IsFiniteSet(DOMAIN x.toolchain)
      /\ IsFiniteSet(DOMAIN x.transport) /\ IsFiniteSet(DOMAIN x.memory)
      /\ IsFiniteSet(DOMAIN x.power) /\ IsFiniteSet(DOMAIN x.attempt)
  BY DEF AxesFinite, Axis
<1>2. IsFiniteSet(T)
  BY <1>1, FS_Product
<1>3. f \in [PlaceOn(x) -> T]
  BY DEF PlaceOn
<1>4. \A p, q \in PlaceOn(x) : f[p] = f[q] => p = q
  BY DEF PlaceOn
<1>5. f \in Injection(PlaceOn(x), T)
  BY <1>3, <1>4 DEF Injection, IsInjective
<1> QED
  BY <1>2, <1>5, FS_Injection

LEMMA CasesAreFinite ==
  ASSUME NEW plan, IsAPlan(plan) PROVE IsFiniteSet(Build(plan))
<1>1. CASE Rejects(plan)
  BY <1>1, FS_EmptySet DEF Build
<1>2. CASE ~Rejects(plan)
  <2> DEFINE Of(t) == {CaseAt(plan, t, p) : p \in PlaceOn(AxesAt(plan, t))}
             all == {Of(t) : t \in Spots(plan)}
  <2>1. IsFiniteSet(Spots(plan))
    <3>1. /\ IsFiniteSet(DOMAIN NamedBoards(plan)) /\ IsFiniteSet(DOMAIN NamedModels(plan))
          /\ IsFiniteSet(DOMAIN NamedEngines(plan))
      BY <1>2, NamesAreLists, ListsAreFinite
    <3> DEFINE A == DOMAIN NamedBoards(plan)
               B == DOMAIN NamedModels(plan)
               C == DOMAIN NamedEngines(plan)
               g == [t \in A \X B \X C |-> <<t[1], <<t[2], t[3]>> >>]
    <3>2. IsFiniteSet(A \X (B \X C))
      BY <3>1, FS_Product
    <3> HIDE DEF A, B, C
    <3>3. g \in Injection(A \X B \X C, A \X (B \X C))
      BY DEF Injection, IsInjective
    <3>4. IsFiniteSet(A \X B \X C)
      BY <3>2, <3>3, FS_Injection
    <3> QED
      BY <3>4 DEF Spots, A, B, C
  <2>2. \A t \in Spots(plan) : IsFiniteSet(Of(t))
    <3> SUFFICES ASSUME NEW t \in Spots(plan) PROVE IsFiniteSet(Of(t))
      OBVIOUS
    <3>1. NamedBoards(plan)[t[1]] \in DOMAIN Boards
      <4>1. t[1] \in DOMAIN NamedBoards(plan)
        BY DEF Spots
      <4> QED
        BY <1>2, <4>1, NamesAreLists
    <3> DEFINE P == PlaceOn(AxesAt(plan, t))
               g == [p \in P |-> CaseAt(plan, t, p)]
    <3>2. IsFiniteSet(P)
      BY <3>1, AxesAreFinite, PlacesAreFinite DEF AxesAt
    <3>3. g \in Surjection(P, Of(t))
      BY DEF Surjection
    <3> QED
      BY <3>2, <3>3, FS_Surjection
  <2>3. IsFiniteSet(all)
    <3> DEFINE g == [t \in Spots(plan) |-> Of(t)]
    <3>1. g \in Surjection(Spots(plan), all)
      BY DEF Surjection
    <3> QED
      BY <2>1, <3>1, FS_Surjection
  <2>4. IsFiniteSet(UNION all)
    <3>1. \A T \in all : IsFiniteSet(T)
      BY <2>2
    <3> HIDE DEF all
    <3> QED
      BY <2>3, <3>1, FS_UNION
  <2>5. Build(plan) \in SUBSET (UNION all)
    <3> SUFFICES ASSUME NEW c \in Build(plan) PROVE c \in UNION all
      OBVIOUS
    <3>1. PICK t \in Spots(plan) : \E p \in PlaceOn(AxesAt(plan, t)) : c = CaseAt(plan, t, p)
      BY CasesAreAt
    <3> QED
      BY <3>1
  <2> QED
    BY <2>4, <2>5, FS_Subset
<1> QED
  BY <1>1, <1>2

\* A set has as many names as members if no two members share a name.
LEMMA AsManyNames ==
  ASSUME NEW S, IsFiniteSet(S), NEW f, DOMAIN f = S, IsInjective(f)
  PROVE  Cardinality({f[c] : c \in S}) = Cardinality(S)
<1> DEFINE T == {f[c] : c \in S}
           g == [c \in S |-> f[c]]
<1>1. g \in Surjection(S, T)
  BY DEF Surjection
<1>2. g \in Injection(S, T)
  BY DEF Injection, IsInjective
<1> HIDE DEF T, g
<1>3. Cardinality(T) = Cardinality(S)
  BY <1>1, <1>2, FS_Surjection
<1> QED
  BY <1>3 DEF T

-----------------------------------------------------------------------------
\* What a case carries comes from the axes of its board and engine.
LEMMA ValueOfCase ==
  ASSUME NEW plan, IsAPlan(plan), NEW c \in Build(plan)
  PROVE  /\ c.board \in DOMAIN Boards
         /\ \A a \in Axis : \E i \in DOMAIN AxesOf(plan, c.board, c.engine)[a] :
              c.value[a] = AxesOf(plan, c.board, c.engine)[a][i]
<1>1. ~Rejects(plan)
  BY CasesAreAt
<1>2. PICK t \in Spots(plan) : \E p \in PlaceOn(AxesAt(plan, t)) : c = CaseAt(plan, t, p)
  BY CasesAreAt
<1>3. PICK p \in PlaceOn(AxesAt(plan, t)) : c = CaseAt(plan, t, p)
  BY <1>2
<1>4. /\ c.board = NamedBoards(plan)[t[1]] /\ c.engine = NamedEngines(plan)[t[3]]
      /\ \A a \in Axis : c.value[a] = AxesAt(plan, t)[a][p[a]]
  BY <1>3, Zenon DEF CaseAt, AxesAt
<1>5. t[1] \in DOMAIN NamedBoards(plan)
  BY DEF Spots
<1>6. c.board \in DOMAIN Boards
  BY <1>1, <1>4, <1>5, NamesAreLists
<1> DEFINE x == AxesAt(plan, t)
<1>7. x = AxesOf(plan, c.board, c.engine)
  BY <1>4 DEF AxesAt
<1> HIDE DEF x
<1>8. \A a \in Axis : p[a] \in DOMAIN x[a]
  <2>1. p \in PlaceOn(x)
    BY <1>3 DEF x
  <2> QED
    BY <2>1 DEF PlaceOn, Axis
<1> QED
  BY <1>4, <1>6, <1>7, <1>8 DEF x

\* The harness is given every flag there is, and has the default for the one that never is empty.
LEMMA HarnessCollectsTheSame ==
  ASSUME NEW plan, IsAPlan(plan), plan.flags["boards"] # <<>>
  PROVE  Collected(plan) = Build(plan)
<1> DEFINE given == Options(plan)
           default(a) == IF a = "boards" THEN <<"apollo510_evb">> ELSE <<>>
           told == [a \in Axes |-> IF a \in DOMAIN given THEN given[a] ELSE default(a)]
<1>1. \A a \in Axes : told[a] = plan.flags[a]
  BY DEF Options
<1>2. told = plan.flags
  BY <1>1 DEF IsAPlan
<1>3. [plan EXCEPT !.flags = told] = plan
  BY <1>2 DEF IsAPlan
<1>4. Collected(plan) = Build([plan EXCEPT !.flags = told])
  BY DEF Collected
<1> QED
  BY <1>3, <1>4, Zenon

-----------------------------------------------------------------------------
\* What a request asks for is a plan.
LEMMA RequestIsAPlan == ASSUME NEW asked \in Requests PROVE IsAPlan(asked)
<1>1. asked \in [flags : [Axes -> Seq(STRING)], custom : Seq(STRING), suite : STRING,
                 power : {"off", "on", "both"}, powerBoards : Seq(STRING), repeat : Nat]
  BY MatrixAssumption
<1>2. \A a \in Axes : IsAList(asked.flags[a])
  BY <1>1, ListOfSome
<1> QED
  BY <1>1, <1>2, ListOfSome DEF IsAPlan

\* Where no toolchain was asked for, a case has one its board declares and its engine can use.
LEMMA DefaultToolchains ==
  ASSUME NEW plan, IsAPlan(plan), plan.flags["toolchains"] = <<>>, NEW c \in Build(plan)
  PROVE  ~RefusedToolchain(c) /\ ~(c.engine = "executorch" /\ c.value["toolchain"] = "armclang")
<1> DEFINE tools == Those(Boards[c.board].toolchains, Boards[c.board].declared)
           x == AxesOf(plan, c.board, c.engine)
<1>1. x["toolchain"] = IF c.engine = "executorch" THEN Those(tools, ToSet(tools) \ {"armclang"}) ELSE tools
  BY DEF AxesOf, Toolchains
<1>2. "toolchain" \in Axis
  BY DEF Axis
<1> HIDE DEF x
<1>3. PICK i \in DOMAIN x["toolchain"] : c.value["toolchain"] = x["toolchain"][i]
  BY <1>2, ValueOfCase DEF x
<1>4. \A j \in DOMAIN tools : tools[j] \in Boards[c.board].declared
  BY DEF Those
<1> HIDE DEF tools
<1>5. /\ c.value["toolchain"] \in Boards[c.board].declared
      /\ c.engine = "executorch" => c.value["toolchain"] # "armclang"
  BY <1>1, <1>3, <1>4 DEF Those
<1> QED
  BY <1>5 DEF RefusedToolchain

\* Power is captured of whom it was asked for.
LEMMA PowerAsAsked ==
  ASSUME NEW plan, IsAPlan(plan), NEW c \in Build(plan), c.value["power"]
  PROVE  /\ c.engine # "executorch" /\ plan.power # "off"
         /\ plan.powerBoards # <<>> => c.board \in ToSet(plan.powerBoards)
<1> DEFINE x == AxesOf(plan, c.board, c.engine)
<1>1. x["power"] = IF c.engine = "executorch" THEN <<FALSE>> ELSE PowerFlags(plan, c.board)
  BY DEF AxesOf
<1>2. "power" \in Axis
  BY DEF Axis
<1> HIDE DEF x
<1>3. PICK i \in DOMAIN x["power"] : c.value["power"] = x["power"][i]
  BY <1>2, ValueOfCase DEF x
<1>4. x["power"] # <<FALSE>>
  <2> DEFINE only == <<FALSE>>
  <2>1. DOMAIN only = {1} /\ only[1] = FALSE
    OBVIOUS
  <2>2. SUFFICES ASSUME x["power"] = only PROVE FALSE
    OBVIOUS
  <2> HIDE DEF only
  <2>3. i \in DOMAIN only /\ c.value["power"] = only[i]
    BY <1>3, <2>2, Zenon
  <2> QED
    BY <2>1, <2>3
<1>5. PowerFlags(plan, c.board) # <<FALSE>> /\ c.engine # "executorch"
  BY <1>1, <1>4
<1> QED
  BY <1>5 DEF PowerFlags

\* hpx validate (validation/matrix, the harness and its case names): whatever a request asks for,
\* of any boards and models, each case has a directory and an identity of its own, the harness runs
\* the cases that were listed, none of them is refused for a default toolchain, and power is captured
\* of whom it was asked for.
THEOREM MatrixIsAlwaysSound == MatrixOfRequestIsSound
<1> SUFFICES ASSUME request \in Requests PROVE MatrixIsSound(request)
  BY DEF MatrixOfRequestIsSound
<1> DEFINE plan == Resolved(request)
           cases == Build(plan)
<1>1. /\ IsAPlan(plan) /\ plan.power = request.power /\ plan.powerBoards = request.powerBoards
      /\ plan.flags["boards"] # <<>>
      /\ request.flags["toolchains"] = <<>> /\ request.suite = "none" => plan.flags["toolchains"] = <<>>
  BY RequestIsAPlan, PlanIsResolved
<1> HIDE DEF plan
<1>2. IsFiniteSet(cases)
  BY <1>1, CasesAreFinite
<1>3. ASSUME NothingTwice(plan)
      PROVE  /\ Cardinality({CaseId(c, plan) : c \in cases}) = Cardinality(cases)
             /\ Cardinality({IdentityOf(c) : c \in cases}) = Cardinality(cases)
  <2> DEFINE id == [c \in cases |-> CaseId(c, plan)]
             of == [c \in cases |-> IdentityOf(c)]
  <2>1. IsInjective(id)
    <3> SUFFICES ASSUME NEW c \in cases, NEW d \in cases, CaseId(c, plan) = CaseId(d, plan) PROVE c = d
      BY DEF IsInjective
    <3>1. c.board = d.board /\ c.model = d.model /\ c.engine = d.engine
      BY DEF CaseId
    <3> DEFINE v == IF plan.repeat > 1 THEN c.value ELSE [c.value EXCEPT !["attempt"] = 1]
               w == IF plan.repeat > 1 THEN d.value ELSE [d.value EXCEPT !["attempt"] = 1]
    <3>2. v = w
      BY Zenon DEF CaseId
    <3>3. \A a \in Axis \ {"attempt"} : c.value[a] = v[a] /\ d.value[a] = w[a]
      OBVIOUS
    <3>4. plan.repeat > 1 => c.value = v /\ d.value = w
      OBVIOUS
    <3> HIDE DEF v, w
    <3> QED
      BY <1>1, <1>3, <3>1, <3>2, <3>3, <3>4, SameCase
  <2>2. IsInjective(of)
    <3> SUFFICES ASSUME NEW c \in cases, NEW d \in cases, IdentityOf(c) = IdentityOf(d) PROVE c = d
      BY DEF IsInjective
    <3>1. c.board = d.board /\ c.model = d.model /\ c.engine = d.engine /\ c.value = d.value
      BY DEF IdentityOf
    <3> QED
      BY <1>1, <1>3, <3>1, SameCase
  <2>3. {id[c] : c \in cases} = {CaseId(c, plan) : c \in cases}
        /\ {of[c] : c \in cases} = {IdentityOf(c) : c \in cases}
    OBVIOUS
  <2>4. DOMAIN id = cases /\ DOMAIN of = cases
    OBVIOUS
  <2> HIDE DEF id, of, cases
  <2> QED
    BY <1>2, <2>1, <2>2, <2>3, <2>4, AsManyNames
<1>4. Collected(plan) = cases
  BY <1>1, HarnessCollectsTheSame
<1>5. ASSUME request.flags["toolchains"] = <<>>, request.suite = "none", NEW c \in cases
      PROVE  ~RefusedToolchain(c) /\ ~(c.engine = "executorch" /\ c.value["toolchain"] = "armclang")
  BY <1>1, <1>5, DefaultToolchains
<1>6. ASSUME NEW c \in cases, c.value["power"]
      PROVE  /\ c.engine # "executorch" /\ request.power # "off"
             /\ request.powerBoards # <<>> => c.board \in ToSet(request.powerBoards)
  BY <1>1, <1>6, PowerAsAsked
<1> HIDE DEF cases
<1> QED
  BY <1>3, <1>4, <1>5, <1>6 DEF MatrixIsSound, plan, cases
=============================================================================
