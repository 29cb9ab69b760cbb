----------------------------- MODULE ResultBundle -----------------------------
(***************************************************************************)
(* The published result of a profile run: a directory of files with a      *)
(* manifest that pins each of them by its hash.  write_report replaces a   *)
(* bundle in place, one file after another, and may stop at any point; two *)
(* readers may look at any time: load_result, which checks again before it *)
(* returns, and the comparison's loader, which does not.                   *)
(*                                                                         *)
(* A file is its content: the number of the report that wrote it, which    *)
(* the hash of the manifest stands for.                                    *)
(***************************************************************************)
EXTENDS Integers, Sequences, SequencesExt

CONSTANTS
  Reports     \* bound: the reports written into the directory

ASSUME ResultBundleAssumption == Reports \in Nat \ {0}

Torn == -1    \* opened and truncated, not yet whole
Layers == {"csv", "json"}
Artifacts == Layers \cup {"summary", "metadata", "lock", "detail"}
NoBundle == [report |-> 0, pins |-> <<>>]

VARIABLES
  marker,     \* the marker of an incomplete publication
  bundleManifest, file,
  writer,     \* [at, report, paths: what it writes, todo: what is left]
  reader      \* [at, kind, raw: the manifest it read, todo, got, quiet]

bundleVars == <<marker, bundleManifest, file, writer, reader>>

ReaderIdle == [at |-> "idle", kind |-> "native", raw |-> NoBundle, todo |-> {},
               got |-> <<>>, quiet |-> TRUE, intact |-> FALSE]
-----------------------------------------------------------------------------
(* The writer. *)

\* A step of the writer is one a reader in the middle may notice.
Writes(to) == writer' = to /\ reader' = [reader EXCEPT !.quiet = FALSE]

\* What a report writes, in order: the format is configured, the details are optional.
Paths(format, detailed) ==
  <<format, "summary", "metadata", "lock">> \o (IF detailed THEN <<"detail">> ELSE <<>>)

\* The directory of the first report, or one an earlier invocation has published into.
Directory(n, paths) ==
  /\ marker = FALSE /\ reader = ReaderIdle
  /\ writer = [at |-> "idle", report |-> n, paths |-> paths, todo |-> <<>>]
  /\ file = [a \in Artifacts |-> IF a \in ToSet(paths) THEN n ELSE 0]
  /\ bundleManifest = [report |-> n, pins |-> [a \in ToSet(paths) |-> n]]
EmptyDirectory == Directory(0, <<>>)
BundleInit ==
  \/ EmptyDirectory
  \/ \E format \in Layers, detailed \in BOOLEAN : Directory(1, Paths(format, detailed))

\* Mutant: a report overwrites the bundle in place, with no marker, and replaces the manifest last.
X_Mark_None ==
  /\ writer.at = "idle" /\ writer.report < Reports
  /\ \E format \in Layers, detailed \in BOOLEAN :
        Writes([at |-> "open", report |-> writer.report + 1,
                paths |-> Paths(format, detailed), todo |-> Paths(format, detailed)])
  /\ UNCHANGED <<marker, bundleManifest, file>>

Mark ==
  /\ writer.at = "idle" /\ writer.report < Reports
  /\ marker' = TRUE
  /\ \E format \in Layers, detailed \in BOOLEAN :
        Writes([at |-> "withdraw", report |-> writer.report + 1,
                paths |-> Paths(format, detailed), todo |-> Paths(format, detailed)])
  /\ UNCHANGED <<bundleManifest, file>>

Withdraw ==
  /\ writer.at = "withdraw"
  /\ bundleManifest' = NoBundle
  /\ Writes([writer EXCEPT !.at = "open"])
  /\ UNCHANGED <<marker, file>>

Open ==
  /\ writer.at = "open" /\ writer.todo # <<>>
  /\ file' = [file EXCEPT ![Head(writer.todo)] = Torn]
  /\ Writes([writer EXCEPT !.at = "fill"])
  /\ UNCHANGED <<marker, bundleManifest>>

Fill ==
  /\ writer.at = "fill"
  /\ file' = [file EXCEPT ![Head(writer.todo)] = writer.report]
  /\ Writes([writer EXCEPT !.at = "open", !.todo = Tail(@)])
  /\ UNCHANGED <<marker, bundleManifest>>

\* The manifest pins the files as they are now, and appears by a rename.
Publish ==
  /\ writer.at = "open" /\ writer.todo = <<>>
  /\ bundleManifest' = [report |-> writer.report, pins |-> [a \in ToSet(writer.paths) |-> file[a]]]
  /\ Writes([writer EXCEPT !.at = "unmark"])
  /\ UNCHANGED <<marker, file>>

Unmark ==
  /\ writer.at = "unmark"
  /\ marker' = FALSE
  /\ Writes([writer EXCEPT !.at = "idle"])
  /\ UNCHANGED <<bundleManifest, file>>

\* The report raises (no lock file, an overlay that fails), or its process is killed.
WriterStops ==
  /\ writer.at # "idle"
  /\ Writes([writer EXCEPT !.at = "idle"])
  /\ UNCHANGED <<marker, bundleManifest, file>>
-----------------------------------------------------------------------------
(* The readers. *)

To(at) == reader' = [reader EXCEPT !.at = at]
Refuse == reader' = ReaderIdle

Look ==
  /\ reader.at = "idle" /\ ~marker
  /\ \E k \in {"native", "compare"} : reader' = [ReaderIdle EXCEPT !.at = "open", !.kind = k]

ReadManifest ==
  /\ reader.at = "open"
  /\ IF bundleManifest = NoBundle THEN Refuse
     ELSE reader' = [reader EXCEPT !.at = "verify", !.raw = bundleManifest, !.todo = DOMAIN bundleManifest.pins]

\* Every declared file is hashed, one after the other.
Verify ==
  /\ reader.at = "verify" /\ reader.todo # {}
  /\ LET a == CHOOSE x \in reader.todo : TRUE
     IN IF file[a] # reader.raw.pins[a] THEN Refuse
        ELSE reader' = [reader EXCEPT !.todo = @ \ {a}]
Verified ==
  /\ reader.at = "verify" /\ reader.todo = {}
  /\ To("summary")

\* load_result hashes the very bytes it parses; the comparison reads the file again.
\* The metadata must name the manifest's run, too.
Accepts(a) ==
  reader.kind = "native" =>
    file[a] = reader.raw.pins[a] /\ (a = "metadata" => file[a] = reader.raw.report)
ReadDocument(a, next) ==
  /\ reader.at = a
  /\ IF ~Accepts(a) \/ file[a] = Torn THEN Refuse
     ELSE reader' = [reader EXCEPT !.at = next, !.got = Append(@, file[a])]

ReadMetadata == ReadDocument("metadata", IF reader.kind = "native" THEN "again" ELSE "layers")

\* The layers are read from the format the manifest declares.
Chosen == IF "csv" \in DOMAIN reader.raw.pins THEN "csv" ELSE "json"
ReadLayers ==
  /\ reader.at = "layers"
  /\ IF file[Chosen] = Torn THEN Refuse
     ELSE reader' = [reader EXCEPT !.at = "done", !.got = Append(@, file[Chosen])]

LookAgain ==
  /\ reader.at = "again"
  /\ IF marker THEN Refuse ELSE To("return")
\* Mutant: the publication is not looked at again.
X_Return_Once ==
  /\ reader.at = "return"
  /\ reader' = [reader EXCEPT !.at = "done",
                  !.intact = \A a \in DOMAIN reader.raw.pins : file[a] = reader.raw.pins[a]]
Return ==
  /\ reader.at = "return"
  /\ IF bundleManifest # reader.raw THEN Refuse
     ELSE reader' = [reader EXCEPT !.at = "done",
                       !.intact = \A a \in DOMAIN reader.raw.pins : file[a] = reader.raw.pins[a]]

Again == reader.at = "done" /\ Refuse

BundleReads ==
  /\ Look \/ ReadManifest \/ Verify \/ Verified \/ ReadDocument("summary", "metadata")
     \/ ReadMetadata \/ ReadLayers \/ LookAgain \/ Return \/ Again
  /\ UNCHANGED <<marker, bundleManifest, file, writer>>

BundleNext ==
  Mark \/ Withdraw \/ Open \/ Fill \/ Publish \/ Unmark \/ WriterStops \/ BundleReads

BundleSpec == BundleInit /\ [][BundleNext]_bundleVars
-----------------------------------------------------------------------------
BundleTypeOK ==
  /\ marker \in BOOLEAN /\ bundleManifest.report \in 0..Reports
  /\ file \in [Artifacts -> {Torn} \cup (0..Reports)]
  /\ writer.at \in {"idle", "withdraw", "open", "fill", "unmark"} /\ writer.report \in 0..Reports
  /\ reader.at \in {"idle", "open", "verify", "summary", "metadata", "layers", "again", "return", "done"}
  /\ reader.todo \subseteq Artifacts

\* What load_result returns is one report's, and when it returns the whole bundle still is that
\* report's, whatever a writer did meanwhile; what the comparison loads is one report's unless a
\* writer was at work while it read.  A report that stopped half way is never part of either.
ReadIsOneReport ==
  reader.at = "done" /\ (reader.kind = "native" \/ reader.quiet) =>
    /\ \A i \in DOMAIN reader.got : reader.got[i] = reader.raw.report
    /\ reader.kind = "native" => reader.intact

\* Why.  A manifest pins files of one report, whatever can be read among them.
PinsOneReport(m) ==
  /\ {"summary", "metadata"} \subseteq DOMAIN m.pins /\ DOMAIN m.pins \subseteq Artifacts
  /\ DOMAIN m.pins \cap Layers # {}
  /\ \A a \in DOMAIN m.pins : m.pins[a] = m.report

\* While a manifest is there, so are the files it pins: it is withdrawn before the first of them
\* is touched, and appears after the last of them is whole.
ManifestIsTrue ==
  bundleManifest # NoBundle =>
    /\ PinsOneReport(bundleManifest) /\ writer.at \notin {"open", "fill"}
    /\ \A a \in DOMAIN bundleManifest.pins : file[a] = bundleManifest.report
WrittenSoFar ==
  writer.at \in {"withdraw", "open", "fill"} =>
    /\ \E format \in Layers, detailed \in BOOLEAN : writer.paths = Paths(format, detailed)
    /\ writer.at = "fill" => writer.todo # <<>>
    /\ \A a \in ToSet(writer.paths) \ ToSet(writer.todo) : file[a] = writer.report

\* What the reader holds: a whole manifest, the one that is there still if no writer moved, and
\* documents of its report.
HoldsManifest == reader.at \notin {"idle", "open"}
ReaderKnows ==
  /\ HoldsManifest => PinsOneReport(reader.raw) /\ (reader.quiet => bundleManifest = reader.raw /\ reader.raw # NoBundle)
  /\ reader.kind = "native" \/ reader.quiet =>
       \A i \in DOMAIN reader.got : reader.got[i] = reader.raw.report
  /\ reader.at \in {"idle", "open", "verify", "summary"} => reader.got = <<>>
  /\ reader.at = "layers" => reader.kind = "compare"
  /\ reader.at \in {"again", "return"} => reader.kind = "native"
  /\ reader.at = "done" /\ reader.kind = "native" => reader.intact

Contents == {Torn} \cup (0 .. Reports)
Manifests == [report : 0 .. Reports, pins : UNION {[D -> Contents] : D \in SUBSET Artifacts}]
Writers == [at : {"idle", "withdraw", "open", "fill", "unmark"}, report : 0 .. Reports,
            paths : Seq(Artifacts), todo : Seq(Artifacts)]
Readers == [at : {"idle", "open", "verify", "summary", "metadata", "layers", "again", "return", "done"},
            kind : {"native", "compare"}, raw : Manifests, todo : SUBSET Artifacts,
            got : Seq(Contents), quiet : BOOLEAN, intact : BOOLEAN]
BundleTypes ==
  /\ marker \in BOOLEAN /\ bundleManifest \in Manifests /\ file \in [Artifacts -> Contents]
  /\ writer \in Writers /\ reader \in Readers

BundleIInv == BundleTypes /\ ManifestIsTrue /\ WrittenSoFar /\ ReaderKnows
=============================================================================
