---------------------------- MODULE RuntimeCache ----------------------------
(***************************************************************************)
(* The cache of prepared runtimes: `hpx runtimes prepare` replaces the     *)
(* installed runtime of a release by two renames, with a rollback copy     *)
(* beside it, and a fixture build reads the install file by file.  No lock *)
(* is taken.                                                               *)
(*                                                                         *)
(* A prepare's archive, headers and manifest belong together: an install   *)
(* is named by the prepare that staged it, and two prepares of one release *)
(* need not give the same bytes.  None is no directory, or nothing read.   *)
(***************************************************************************)
EXTENDS Integers, Sequences, FiniteSets

CONSTANTS
  Preparers,  \* the processes that run a prepare
  Installed,  \* what the cache holds at the start: None, or an earlier prepare
  None

ASSUME RuntimeCacheAssumption == None \notin Preparers /\ Installed \notin Preparers

VARIABLES
  install,    \* the directory a build reads
  prep,       \* prep[p]: where the prepare of p is
  retired,    \* retired[p]: the copy p keeps to restore, None when it is gone
  fault,      \* a rename of a staged directory has failed, of itself
  swept,      \* the clean-up of one prepare has deleted the copy of another
  rotten,     \* the install whose files were damaged on disk
  build,      \* how far the fixture build has read; 0 before the first look
  want,       \* the prepares whose archive and manifest the build has pinned
  staged      \* staged[f]: the prepare whose file f the build has copied

cache == <<install, prep, retired, fault, swept, rotten>>
buildReader == <<build, want, staged>>
cacheVars == <<cache, buildReader>>

Files == {"archive", "manifest", "headers"}
Stopped == {"prepared", "failed", "killed"}
Unread == [archive |-> None, manifest |-> None]

CacheInit ==
  /\ install = Installed
  /\ prep = [p \in Preparers |-> "fetch"] /\ retired = [p \in Preparers |-> None]
  /\ fault = FALSE /\ swept = FALSE /\ rotten = None
  /\ build = 0 /\ want = Unread /\ staged = [f \in Files |-> None]
-----------------------------------------------------------------------------
Moves(p, from, to) == prep[p] = from /\ prep' = [prep EXCEPT ![p] = to]

\* prepare_runtime: once the release is fetched or built, the rollback copies of earlier
\* prepares are deleted, the live copy of another process among them.
Clean(p) ==
  /\ Moves(p, "fetch", "stage")
  /\ \E left \in SUBSET {q \in Preparers \ {p} : retired[q] # None} :
       /\ retired' = [q \in Preparers |-> IF q \in left THEN None ELSE retired[q]]
       /\ swept' = (swept \/ \E q \in left : prep[q] \in {"place", "restore"})
  /\ UNCHANGED <<install, fault, rotten>>

\* Staged beside the install, and verified there as a build would verify it.
Stage(p) == Moves(p, "stage", "retire") /\ UNCHANGED <<install, retired, fault, swept, rotten>>

\* The download, the build, the staging or its verification raises; the staging is removed.
StageFails(p) ==
  /\ Moves(p, "fetch", "failed") \/ Moves(p, "stage", "failed")
  /\ UNCHANGED <<install, retired, fault, swept, rotten>>

\* _install looks whether there is something to retire ...
Finds(p) ==
  /\ Moves(p, "retire", IF install = None THEN "place" ELSE "rename")
  /\ UNCHANGED <<install, retired, fault, swept, rotten>>

\* ... and renames it away; another prepare may have done so since, and the rename fails.
Retire(p) ==
  /\ IF install = None
     THEN Moves(p, "rename", "failed") /\ UNCHANGED <<install, retired>>
     ELSE /\ Moves(p, "rename", "place")
          /\ retired' = [retired EXCEPT ![p] = install] /\ install' = None
  /\ UNCHANGED <<fault, swept, rotten>>

\* The second rename, which a directory in the way or the file system makes fail.
Place(p) ==
  /\ \/ /\ install = None /\ Moves(p, "place", "drop")
        /\ install' = p /\ UNCHANGED fault
     \/ /\ Moves(p, "place", "restore")
        /\ fault' = (fault \/ install = None) /\ UNCHANGED install
  /\ UNCHANGED <<retired, swept, rotten>>

\* Mutant: what was retired is dropped, not put back.
Restore_Drops(p) ==
  /\ Moves(p, "restore", "failed")
  /\ retired' = [retired EXCEPT ![p] = None] /\ UNCHANGED <<install, fault, swept, rotten>>

\* What was retired is renamed back, if it is still there and nothing is in its place; the
\* prepare fails either way.
Restore(p) ==
  /\ Moves(p, "restore", "failed")
  /\ IF install = None /\ retired[p] # None
     THEN install' = retired[p] /\ retired' = [retired EXCEPT ![p] = None]
     ELSE UNCHANGED <<install, retired>>
  /\ UNCHANGED <<fault, swept, rotten>>

Drop(p) ==
  /\ Moves(p, "drop", "prepared") /\ retired' = [retired EXCEPT ![p] = None]
  /\ UNCHANGED <<install, fault, swept, rotten>>

Kill(p) ==
  /\ prep[p] \notin Stopped /\ prep' = [prep EXCEPT ![p] = "killed"]
  /\ UNCHANGED <<install, retired, fault, swept, rotten>>

\* A file of the install is damaged on disk.
Rot == install # None /\ rotten = None /\ rotten' = install /\ UNCHANGED <<install, prep, retired, fault, swept>>

Prepare(p) == \/ Clean(p) \/ Stage(p) \/ StageFails(p) \/ Finds(p) \/ Retire(p) \/ Place(p)
              \/ Restore(p) \/ Drop(p) \/ Kill(p)
-----------------------------------------------------------------------------
\* The order in which a build opens the files of the runtime: to pin them, to verify them, in
\* build_fixed_fixture to verify them again, and to stage its own copy.
Opened == <<"claim", "hash", "archive", "manifest", "headers", "archive", "manifest", "headers",
            "archive", "headers", "manifest">>
Copies == 9     \* from here on what is read is also copied
Built == Len(Opened) + 1
Refused == Built + 1

\* FixtureFile.read and the hashes a manifest lists: what is there is what was pinned.
Matches(f) ==
  /\ install # None /\ install # rotten
  /\ install = IF f = "archive" THEN want.archive ELSE want.manifest
  /\ f = "manifest" => want.archive = want.manifest

Sound(f) == IF f \in Files THEN Matches(f) ELSE install # None

\* Mutant: the manifest is copied without its hash.
Reads_Manifest ==
  /\ build \in 1..Len(Opened)
  /\ LET f == Opened[build] IN
       /\ Sound(f) \/ (build >= Copies /\ f = "manifest" /\ install # None)
       /\ want' = CASE f = "claim" -> [want EXCEPT !.archive = install]
                    [] f = "hash" -> [want EXCEPT !.manifest = install]
                    [] OTHER -> want
       /\ staged' = IF build >= Copies THEN [staged EXCEPT ![f] = install] ELSE staged
  /\ build' = build + 1

\* _load reads the manifest for the archive's hash and again for its own; verify and
\* prepare_runtime_module compare each file with what was pinned.
Reads ==
  /\ build \in 1..Len(Opened)
  /\ LET f == Opened[build] IN
       /\ Sound(f)
       /\ want' = CASE f = "claim" -> [want EXCEPT !.archive = install]
                    [] f = "hash" -> [want EXCEPT !.manifest = install]
                    [] OTHER -> want
       /\ staged' = IF build >= Copies THEN [staged EXCEPT ![f] = install] ELSE staged
  /\ build' = build + 1

\* A file that is missing or does not match: the runtime is damaged, or to be prepared again.
Refuses ==
  /\ build \in 1..Len(Opened) /\ ~Sound(Opened[build])
  /\ build' = Refused /\ UNCHANGED <<want, staged>>

\* prepared_runtime: without a manifest there is no runtime.
Looks == build = 0 /\ build' = (IF install = None THEN Refused ELSE 1) /\ UNCHANGED <<want, staged>>

BuildReads == Looks \/ Reads \/ Refuses

CacheNext ==
  \/ (\E p \in Preparers : Prepare(p)) /\ UNCHANGED buildReader
  \/ Rot /\ UNCHANGED buildReader
  \/ BuildReads /\ UNCHANGED cache

CacheSpec == CacheInit /\ [][CacheNext]_cacheVars
-----------------------------------------------------------------------------
CacheTypeOK ==
  /\ install \in Preparers \cup {Installed, None}
  /\ \A p \in Preparers : retired[p] # None => retired[p] # p
  /\ build \in 0..Refused

\* A build that read a runtime to the end has copied the archive, the headers and the
\* manifest of one prepare, whatever was replaced or damaged while it read.
LinkedIsOneInstall ==
  build = Built =>
    /\ \A f \in Files : staged[f] = want.manifest
    /\ want.manifest \in (Preparers \cup {Installed}) \ {None}

\* Prepares that fail leave a runtime where there was one: only a killed prepare, or a
\* failing rename whose rollback copy another prepare has deleted, loses it.
InstallSurvives ==
  /\ Installed # None
  /\ \A p \in Preparers : prep[p] \in Stopped \ {"killed"}
  /\ ~(fault /\ swept)
  => install # None

\* What a build links is one install, and an install is never lost to a failed replacement.
InstallIsWhole == LinkedIsOneInstall /\ InstallSurvives

\* Why.  An install carries the name of a prepare that has got as far as placing it.
Installs == Preparers \cup {Installed, None}
PrepPCs == Stopped \cup {"fetch", "stage", "retire", "rename", "place", "restore", "drop"}
PrepTypes ==
  /\ install \in Installs /\ prep \in [Preparers -> PrepPCs] /\ retired \in [Preparers -> Installs]
NamedByPlacing ==
  \A p \in Preparers :
    install = p \/ (\E q \in Preparers : retired[q] = p) => prep[p] \in {"drop", "prepared", "killed"}

\* While there is no install, somebody is about to place one, or can put back what it retired;
\* or it was killed there, or its copy was deleted and its rename then failed.
WillPlace(p) ==
  \/ prep[p] = "place" /\ (retired[p] # None \/ swept)
  \/ prep[p] = "restore" /\ retired[p] # None /\ fault
GapIsHeld ==
  Installed # None /\ install = None =>
    (fault /\ swept) \/ \E p \in Preparers : WillPlace(p) \/ prep[p] = "killed"

\* What the build has pinned is one install once the manifest was compared with the archive, and
\* each file it has copied since is of that install.
PinnedIsOneInstall ==
  build \in 5 .. Built =>
    /\ want.archive = want.manifest /\ want.manifest \in Installs \ {None}
    /\ build >= 10 => staged["archive"] = want.manifest
    /\ build >= 11 => staged["headers"] = want.manifest
    /\ build = 12 => staged["manifest"] = want.manifest
BuildTypes ==
  /\ build \in 0 .. Refused /\ DOMAIN staged = Files
  /\ want \in [archive : Installs, manifest : Installs]

CacheIInv ==
  PrepTypes /\ CacheTypeOK /\ NamedByPlacing /\ GapIsHeld /\ BuildTypes /\ PinnedIsOneInstall
=============================================================================
