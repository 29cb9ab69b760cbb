--------------------------- MODULE ValidationSweep ---------------------------
(***************************************************************************)
(* hpx validate: a sweep runs its cases one after the other, each as an    *)
(* hpx profile that publishes into the case's own directory, and writes    *)
(* one manifest over all of them at the end.  The directories are reused   *)
(* from sweep to sweep and never cleaned, so a case that fails leaves what *)
(* an earlier sweep published there.  Two bundles are compared by matching *)
(* the identities of their cases.                                          *)
(*                                                                         *)
(* What a profile run publishes is named by the sweep that ran it.  Files  *)
(* an older release left in a directory are not modelled.                  *)
(***************************************************************************)
EXTENDS Integers, Sequences, SequencesExt, FiniteSetsExt

CONSTANTS
  Bundles,    \* output directories
  Order,      \* the cases of a sweep, in order
  Placed,     \* the cases whose placement is configured (a preset other than auto)
  Powered,    \* the cases with a power capture
  Sweeps      \* bound: the sweeps run

Cases == ToSet(Order)
ASSUME SweepAssumption ==
  /\ Order \in Seq(Cases) /\ Order # <<>>
  /\ Placed \subseteq Cases /\ Powered \subseteq Cases /\ Sweeps \in Nat

VARIABLES
  dir,        \* per case directory: the sweep of its metadata, its summary, its whole publication
  manifest,   \* [sweep, entries], per bundle
  latest,     \* the last sweep that was started in a bundle
  sweep, into, stage, next,   \* the sweep that runs: where, what it does, the case it is at
  tries, exit, results

sweepVars == <<dir, manifest, latest, sweep, into, stage, next, tries, exit, results>>
progress == <<sweep, into>>

NoSweep == [sweep |-> 0, entries |-> <<>>]
TornManifest == [sweep |-> -1, entries |-> <<>>]
NoResults == [c \in {} |-> 0]

SweepInit ==
  /\ dir = [b \in Bundles |-> [c \in Cases |-> [meta |-> 0, summary |-> 0, whole |-> 0]]]
  /\ manifest = [b \in Bundles |-> NoSweep] /\ latest = [b \in Bundles |-> 0]
  /\ sweep = 0 /\ into \in Bundles /\ stage = "idle"
  /\ next = 0 /\ tries = 0 /\ exit = "none" /\ results = NoResults
-----------------------------------------------------------------------------
(* The harness. *)

Case == Order[next]
Here == dir[into][Case]

BeginSweep(b) ==
  /\ stage = "idle" /\ sweep < Sweeps
  /\ sweep' = sweep + 1 /\ into' = b /\ latest' = [latest EXCEPT ![b] = sweep + 1]
  /\ stage' = "case" /\ next' = 1 /\ results' = NoResults /\ tries' = 0 /\ exit' = "none"
  /\ UNCHANGED <<dir, manifest>>

\* A case ends with its result; after the last one the session reports.
Result(status, run) ==
  /\ results' = [c \in DOMAIN results \cup {Case} |->
                   IF c = Case THEN [status |-> status, run |-> run] ELSE results[c]]
  /\ tries' = 0 /\ exit' = "none"
  /\ IF next = Len(Order) THEN stage' = "report" /\ next' = 0 ELSE stage' = "case" /\ next' = next + 1
  /\ UNCHANGED <<dir, manifest, latest, progress>>

\* The fixture is missing, or case_validity refuses the combination.
Skip == stage = "case" /\ tries = 0 /\ Result("skip", 0)

LaunchCase ==
  /\ stage = "case"
  /\ stage' = "profile" /\ tries' = tries + 1
  /\ UNCHANGED <<dir, manifest, latest, progress, next, exit, results>>

\* What a profile run leaves in its directory: nothing, a report cut short, or a whole one.
Left(how) ==
  CASE how = "nothing" -> {Here}
    [] how = "cut" ->      \* the summary is written before the metadata; 0: unreadable
         {[meta |-> Here.meta, summary |-> s, whole |-> 0] : s \in {Here.summary, 0, sweep}}
         \cup {[meta |-> m, summary |-> sweep, whole |-> 0] : m \in {0, sweep}}
    [] how = "whole" -> {[meta |-> sweep, summary |-> sweep, whole |-> sweep]}

\* How it ends: killed at the timeout, or with an exit status; an image that does not fit and an
\* instrument somebody else holds are told from the other failures.
ProfileEnds == {<<"timeout", "nothing">>, <<"timeout", "cut">>, <<"failed", "nothing">>, <<"failed", "cut">>,
         <<"failed", "whole">>, <<"large", "nothing">>, <<"locked", "nothing">>, <<"ok", "whole">>}
Profile ==
  /\ stage = "profile"
  /\ \E end \in ProfileEnds : \E now \in Left(end[2]) :
        /\ end[1] = "locked" => Case \in Powered
        /\ dir' = [dir EXCEPT ![into][Case] = now] /\ exit' = end[1]
  /\ stage' = "judge"
  /\ UNCHANGED <<manifest, latest, progress, next, tries, results>>

\* The summary decides what passed.
Summary == IF Here.summary = 0 THEN Result("fail", 0) ELSE Result("pass", Here.summary)

\* Mutant: whoever finds a summary passes, whatever the exit status was.
X_JudgeCase_Summary ==
  /\ stage = "judge"
  /\ Summary

JudgeCase ==
  /\ stage = "judge"
  /\ \/ exit = "ok" /\ Summary
     \/ exit \in {"timeout", "failed"} /\ Result("fail", 0)
     \/ exit = "large" /\ Result("skip", 0)
     \/ exit = "locked" /\ tries = 2 /\ Result("fail", 0)
     \/ /\ exit = "locked" /\ tries < 2
        /\ stage' = "case" /\ exit' = "none"
        /\ UNCHANGED <<dir, manifest, latest, progress, next, tries, results>>


\* The session ends, early when the operator interrupts it; it reports what it has.
Interrupt ==
  /\ stage \in {"case", "profile"}
  /\ stage' = "report" /\ next' = 0 /\ tries' = 0 /\ exit' = "none"
  /\ \/ stage = "profile" /\ \E now \in Left("cut") : dir' = [dir EXCEPT ![into][Case] = now]
     \/ UNCHANGED dir
  /\ UNCHANGED <<manifest, latest, progress, results>>

Quit == stage' = "idle" /\ next' = 0 /\ tries' = 0 /\ exit' = "none" /\ results' = NoResults

Killed ==
  /\ stage # "idle"
  /\ Quit
  /\ \/ stage = "profile" /\ \E now \in Left("cut") : dir' = [dir EXCEPT ![into][Case] = now]
     \/ UNCHANGED dir
  /\ UNCHANGED <<manifest, latest, progress>>
-----------------------------------------------------------------------------
(* The manifest: status and metrics from the results, the rest from the directories. *)

Identity(b, c) == [case |-> c, placement |-> c \in Placed /\ dir[b][c].meta # 0]
Entry(b, c) == [identity |-> Identity(b, c), status |-> results[c].status, run |-> results[c].run]

Truncate ==
  /\ stage = "report"
  /\ IF results = NoResults THEN Quit /\ UNCHANGED manifest
     ELSE /\ manifest' = [manifest EXCEPT ![into] = TornManifest]
          /\ stage' = "write" /\ UNCHANGED <<next, tries, exit, results>>
  /\ UNCHANGED <<dir, latest, progress>>
Write ==
  /\ stage = "write"
  /\ manifest' = [manifest EXCEPT ![into] =
                    [sweep |-> sweep, entries |-> [c \in DOMAIN results |-> Entry(into, c)]]]
  /\ Quit
  /\ UNCHANGED <<dir, latest, progress>>

SweepNext ==
  \/ \E b \in Bundles : BeginSweep(b)
  \/ Skip \/ LaunchCase \/ Profile \/ JudgeCase \/ Interrupt \/ Killed \/ Truncate \/ Write
-----------------------------------------------------------------------------
(* The comparison of two bundles. *)

ManifestLoads(b) == manifest[b].sweep > 0
Listed(b) == DOMAIN manifest[b].entries
EntryOf(b, i) == {manifest[b].entries[c] : c \in {x \in Listed(b) : manifest[b].entries[x].identity = i}}
Identities(b) == {manifest[b].entries[c].identity : c \in Listed(b)}
Statuses(b1, b2, i) == {e.status : e \in EntryOf(b1, i) \cup EntryOf(b2, i)}

\* Both runs are loaded again from their directories, which must hold a whole publication; what
\* cannot be is ineligible or a comparison error, told apart by how much is missing.
Comparable(b, i) == dir[b][i.case].whole # 0

\* Mutant: a status other than pass is left to the loader.
X_Outcome_Loads(b1, b2, i) ==
  CASE i \notin Identities(b1) -> "candidate_only"
    [] i \notin Identities(b2) -> "baseline_only"
    [] i \in Identities(b1) \cap Identities(b2) /\ Comparable(b1, i) /\ Comparable(b2, i) -> "compared"
    [] OTHER -> "incomparable"
Outcome(b1, b2, i) ==
  CASE i \notin Identities(b1) -> "candidate_only"
    [] i \notin Identities(b2) -> "baseline_only"
    [] i \in Identities(b1) \cap Identities(b2) ->
         LET s == Statuses(b1, b2, i)
         IN IF "fail" \in s THEN "failed" ELSE IF "skip" \in s THEN "skipped"
            ELSE IF Comparable(b1, i) /\ Comparable(b2, i) THEN "compared" ELSE "incomparable"

\* A bundle nobody has begun to overwrite since its manifest was written.
Settled(b) == ManifestLoads(b) /\ manifest[b].sweep = latest[b]
-----------------------------------------------------------------------------
SweepTypeOK ==
  /\ sweep \in 0..Sweeps /\ latest \in [Bundles -> 0..Sweeps]
  /\ dir \in [Bundles -> [Cases -> [meta : 0..Sweeps, summary : 0..Sweeps, whole : 0..Sweeps]]]
  /\ stage \in {"idle", "case", "profile", "judge", "report", "write"} /\ next \in 0..Len(Order)
  /\ tries \in 0..2 /\ DOMAIN results \subseteq Cases

\* Two settled bundles are compared on runs their own sweeps made and passed: never on what an
\* earlier sweep left in a directory, and the manifest's metrics are of the same run.
ComparedIsTheSweeps ==
  \A b1, b2 \in {b \in Bundles : Settled(b)} : \A i \in Identities(b1) :
     Outcome(b1, b2, i) = "compared" =>
       \A b \in {b1, b2} : /\ dir[b][i.case].whole = manifest[b].sweep
                           /\ \A e \in EntryOf(b, i) : e.run = manifest[b].sweep
-----------------------------------------------------------------------------
(* Why: the invariant the proof rests on. *)

Publications == [meta : 0..Sweeps, summary : 0..Sweeps, whole : 0..Sweeps]
Statuses3 == {"pass", "fail", "skip"}
ProgressTypes ==
  /\ sweep \in 0..Sweeps /\ into \in Bundles
  /\ stage \in {"idle", "case", "profile", "judge", "report", "write"}
  /\ next \in 0..Len(Order) /\ tries \in 0..2
  /\ stage \in {"case", "profile", "judge"} => next # 0
  /\ stage = "case" => tries # 2
DirTypes == latest \in [Bundles -> 0..Sweeps] /\ dir \in [Bundles -> [Cases -> Publications]]
LogTypes ==
  /\ DOMAIN manifest = Bundles /\ \A b \in Bundles : manifest[b].sweep \in Int
  /\ DOMAIN results \subseteq Cases /\ \A c \in DOMAIN results : results[c].status \in Statuses3
SweepTypes == ProgressTypes /\ DirTypes /\ LogTypes

\* A bundle a sweep is at work in, or has left without a manifest, is not settled.
SettledAfterItsSweep ==
  /\ \A b \in Bundles : latest[b] <= sweep /\ manifest[b].sweep <= latest[b]
  /\ stage # "idle" => latest[into] = sweep /\ manifest[into].sweep < sweep /\ sweep > 0

\* A run that exited well published its whole bundle; a case that passed, passed on that of this
\* sweep, which is there unless a later attempt at it was cut short.
PassedHere(c, status, run, b, s) ==
  status = "pass" => run = s /\ dir[b][c].whole \in {0, s}
ResultsAreTheSweeps ==
  /\ stage = "judge" /\ exit = "ok" =>
       Here = [meta |-> sweep, summary |-> sweep, whole |-> sweep]
  /\ stage # "idle" => \A c \in DOMAIN results :
       PassedHere(c, results[c].status, results[c].run, into, sweep)

\* What the manifest of a settled bundle says of a case is of the case's directory.
ManifestIsTheSweeps ==
  \A b \in Bundles : Settled(b) =>
    /\ Listed(b) \subseteq Cases
    /\ \A c \in Listed(b) : LET e == manifest[b].entries[c] IN
         /\ e.identity.case = c /\ e.status \in Statuses3
         /\ PassedHere(c, e.status, e.run, b, manifest[b].sweep)

SweepIInv == SweepTypes /\ SettledAfterItsSweep /\ ResultsAreTheSweeps /\ ManifestIsTheSweeps

SweepSpec == SweepInit /\ [][SweepNext]_sweepVars
=============================================================================
