------------------------------ MODULE PowerRun ------------------------------
(***************************************************************************)
(* The power stages of a run: plan, build the fixed-count binary, flash    *)
(* it, capture with the instrument, collect the record the firmware leaves *)
(* behind, check it and publish.  Beside them runs the board, which opens  *)
(* its window once per launch and then reports, once over RTT and again    *)
(* and again over a serial line.                                           *)
(*                                                                         *)
(* A count is 0 for None.  An image is "power" for the binary just built,  *)
(* "older" for one an earlier run left on the board or in a recipe,        *)
(* "profile" for the shared binary.                                        *)
(***************************************************************************)
EXTENDS TerminalFrame

CONSTANTS
  Cases,      \* the configurations a run may start from
  Gaps,       \* bound: gaps in one stream
  Attempts    \* flash attempts: one, and one more after a power cycle

Configurations ==
  [internal : BOOLEAN, dedicated : BOOLEAN, busy : BOOLEAN, want : Nat, ref : BOOLEAN,
   repeats : BOOLEAN, reset : {"none", "debug", "swpoi", "power_cycle"},
   monitor : {"none", "bystander", "required"}]

ASSUME PowerRunAssumption == Cases \subseteq Configurations /\ Gaps \in Nat /\ Attempts \in {1, 2}

VARIABLES
  cfg,        \* [internal, dedicated, busy, want, ref, repeats, reset, monitor]
  pc,         \* the stage, or how the run ended
  run,        \* ctx.power_run
  images,     \* the image that ran in each launch of the board
  phase,      \* what the last launch is doing
  record,     \* and the record it writes
  recipe,     \* what the build directory holds for the flash
  attempt,
  at,         \* the next line of the stream; 0: the host has not attached
  gaps, buffer,
  whole,      \* a frame has been received without a gap since its START
  heard,      \* a whole frame has been received
  got         \* the accepted envelope

board == <<images, phase, record>>
wire == <<at, gaps, buffer, whole, heard, got>>
flash == <<recipe, attempt>>
vars == <<cfg, pc, run, board, flash, wire>>

PowerRuns == [count : Nat, built : BOOLEAN, deployed : BOOLEAN, observed : Nat]
NoRun == [count |-> 0, built |-> FALSE, deployed |-> FALSE, observed |-> 0]
Guided == 2     \* the count derived from the profile; PowerPlan has the arithmetic
Failed == {"refused", "unflashable", "unseen", "norecord", "rejected"}
Over == Failed \cup {"published", "observed"}
Launch == Len(images)
Running == images[Launch]
Unreported == [ok |-> FALSE, completed |-> 0, moved |-> FALSE, reading |-> "none"]

Init ==
  /\ cfg \in Cases
  /\ pc = "plan" /\ run = NoRun
  /\ images = <<"profile">> /\ phase = "parked" /\ record = Unreported
  /\ recipe = "unread" /\ attempt = 1
  /\ at = 0 /\ gaps = 0 /\ buffer = <<>> /\ whole = FALSE /\ heard = FALSE /\ got = Refused
-----------------------------------------------------------------------------
\* An explicit count is refused for a probe that runs no inferences.
Countless == cfg.dedicated /\ cfg.busy /\ cfg.want > 0

PlannedCount ==
  CASE ~cfg.dedicated -> 0
    [] cfg.dedicated /\ cfg.busy -> 1
    [] cfg.dedicated /\ ~cfg.busy -> IF cfg.want > 0 THEN cfg.want ELSE IF cfg.ref THEN Guided ELSE 0

\* PlanPowerRunStage.  An internal run whose window holds too few updates of the monitor
\* is refused.
Plan ==
  /\ pc = "plan"
  /\ \/ /\ ~Countless
        /\ run' = [NoRun EXCEPT !.count = PlannedCount]
        /\ pc' = CASE ~cfg.dedicated -> "capture"
                   [] cfg.dedicated -> IF PlannedCount = 0 THEN "flash" ELSE "build"
     \/ (Countless \/ cfg.internal) /\ pc' = "refused" /\ UNCHANGED run
  /\ UNCHANGED <<cfg, board, flash, wire>>

\* BuildPowerFirmwareStage: the plan is published anew, so that a failed build leaves
\* nothing to deploy.
Build ==
  /\ pc = "build"
  /\ \E built \in BOOLEAN :
       /\ run' = [NoRun EXCEPT !.count = run.count, !.built = built]
       /\ pc' = IF built THEN "flash" ELSE "refused"
       /\ recipe' \in IF built THEN {"good", "stale", "unarmed", "absent"} ELSE {"unread"}
  /\ UNCHANGED <<cfg, board, attempt, wire>>

Starts(img) == images' = Append(images, img) /\ phase' = "boot" /\ record' = Unreported

\* Mutant: any addressed LoadFile will do.
Vetted_AnyImage == recipe # "unarmed"

\* _recipe_load_address: fail-fast armed before the first load, and this build's image.
\* Without a recipe hpx writes its own script.
Vetted == recipe \in {"good", "absent"}

\* J-Link has confirmed a flash and the last Reset and Go of the script started it.  It went
\* where it was asked to; or to another bank while J-Link named none, which is let pass with
\* a warning, and the board starts what it held before.
Programs ==
  /\ Starts(IF recipe = "stale" THEN "older" ELSE "power") \/ Starts(Running)
  /\ run' = [run EXCEPT !.deployed = TRUE]
  /\ pc' = IF cfg.internal THEN "collect" ELSE "capture"
  /\ recipe' = "unread" /\ attempt' = 1

\* A CaptureError, from the vetting, J-Link or the checks of its output: one retry if the
\* instrument can cycle the rail, which starts whatever the board holds.
FlashFails ==
  \/ /\ attempt < Attempts /\ attempt' = attempt + 1 /\ Starts(Running)
     /\ UNCHANGED <<pc, run, recipe>>
  \/ pc' = "unflashable" /\ UNCHANGED <<run, board, flash>>

\* FlashPowerFirmwareStage: without an artifact, and for a missing image or address, at once.
Flash ==
  /\ pc = "flash"
  /\ \/ run.built /\ Vetted /\ Programs
     \/ run.built /\ FlashFails
     \/ /\ ~run.built \/ recipe = "absent"
        /\ pc' = "unflashable" /\ UNCHANGED <<run, board, flash>>
  /\ UNCHANGED <<cfg, wire>>
-----------------------------------------------------------------------------
\* prepare_target_for_phase, from the start hook of the capture.  A rail cycle is strict and
\* a debug reset raises when it fails; the exit status of SWPOI is not looked at, and "none"
\* leaves the launch of the flash alone.
Reset ==
  /\ pc = "capture"
  /\ \/ cfg.reset # "none" /\ Starts(Running) /\ pc' = "watch"
     \/ cfg.reset \in {"none", "swpoi"} /\ pc' = "watch" /\ UNCHANGED board
     \/ cfg.reset \in {"debug", "power_cycle"} /\ pc' = "refused" /\ UNCHANGED board
  /\ UNCHANGED <<cfg, run, flash, wire>>

\* Mutant: the record is asked of a shared binary too.
Observe_Collects ==
  /\ pc = "watch" /\ phase = "watched"
  /\ run' = [run EXCEPT !.observed = Launch]
  /\ phase' = "closing" /\ pc' = "collect"
  /\ UNCHANGED <<cfg, images, record, flash, wire>>

\* The gate falls while the instrument watches: the capture is of that launch.  A shared
\* binary leaves no record behind.
Observe ==
  /\ pc = "watch" /\ phase = "watched"
  /\ run' = [run EXCEPT !.observed = Launch]
  /\ phase' = "closing"
  /\ pc' = IF cfg.dedicated THEN "collect" ELSE "observed"
  /\ UNCHANGED <<cfg, images, record, flash, wire>>

\* No window within the bound: the capture raises.
Unseen ==
  /\ pc = "watch"
  /\ pc' = "unseen" /\ UNCHANGED <<cfg, run, board, flash, wire>>
-----------------------------------------------------------------------------
Reports(r) == record' = r /\ phase' = "reporting" /\ UNCHANGED images

\* hpx_power_terminal_fail: the monitor of record does not answer, or the crystal is dead;
\* the window never opens.
BootFails ==
  /\ phase = "boot" /\ Running # "profile"
  /\ Reports(Unreported)
  /\ UNCHANGED <<cfg, pc, run, flash, wire>>

\* hpx_sync_window_begin.
OpenWindow ==
  /\ phase = "boot"
  /\ phase' = IF pc = "watch" THEN "watched" ELSE "closing"
  /\ UNCHANGED <<cfg, pc, run, images, record, flash, wire>>

Completed == IF cfg.busy THEN {1} ELSE IF Running = "power" THEN {run.count} ELSE {1, Guided}

\* hpx_sync_window_end; the monitor is read and the record built.  Without its monitor of
\* record the launch reports an error, a bystander is dropped.  A crystal that stopped after
\* it was probed has not moved the clock.
CloseWindow ==
  /\ phase = "closing" \/ (phase = "watched" /\ pc # "watch")
  /\ \/ Running = "profile" /\ phase' = "parked" /\ UNCHANGED <<images, record>>
     \/ /\ Running # "profile"
        /\ \E n \in Completed, moved \in BOOLEAN :
           \E reading \in IF cfg.monitor = "none" THEN {"none"}
                          ELSE {"none", "good", "zero", "reversed", "overflow"} :
             Reports(IF cfg.monitor = "required" /\ reading = "none" THEN Unreported
                     ELSE [ok |-> TRUE, completed |-> n, moved |-> moved, reading |-> reading])
  /\ UNCHANGED <<cfg, pc, run, flash, wire>>
-----------------------------------------------------------------------------
Stream == FrameOf(Launch, record.reading # "none")

\* Mutant: attaching resets the target.
Attach_Resets ==
  /\ pc = "collect" /\ at = 0
  /\ Starts(Running) /\ at' = 1
  /\ UNCHANGED <<cfg, pc, run, flash, gaps, buffer, whole, heard, got>>

\* The collector attaches, without a reset.  The record lies in the RTT buffer, once; a
\* serial stream is joined at any line.
Attach ==
  /\ pc = "collect" /\ at = 0 /\ phase = "reporting"
  /\ at' \in IF cfg.repeats THEN DOMAIN Stream ELSE {1}
  /\ UNCHANGED <<cfg, pc, run, board, flash, gaps, buffer, whole, heard, got>>

\* The next lines are lost: only a serial stream loses any.
Gap ==
  /\ pc = "collect" /\ at > 0 /\ cfg.repeats /\ gaps < Gaps
  /\ gaps' = gaps + 1 /\ at' \in DOMAIN Stream \ {at} /\ whole' = FALSE
  /\ UNCHANGED <<cfg, pc, run, board, flash, buffer, heard, got>>

\* read_chunk and the inner loop.  A malformed frame is dropped and the scan goes on.
Receive ==
  /\ pc = "collect" /\ at \in DOMAIN Stream
  /\ LET line == Stream[at]
         scan == Scan(Append(buffer, line), record)
         ends == line.key = "END"
     IN /\ at' = IF ~ends THEN at + 1 ELSE IF cfg.repeats THEN 1 ELSE Len(Stream) + 1
        /\ whole' = (line.key = "START" \/ (whole /\ ~ends))
        /\ heard' = (heard \/ (ends /\ whole))
        /\ buffer' = scan.rest
        /\ IF scan.got.ok THEN got' = scan.got /\ pc' = "check" ELSE UNCHANGED <<got, pc>>
  /\ UNCHANGED <<cfg, run, board, flash, gaps>>

\* Mutant: a stream that keeps coming holds the deadline off.
TimeUp_OnlyIdle ==
  /\ pc = "collect" /\ at \notin DOMAIN Stream
  /\ pc' = "norecord" /\ UNCHANGED <<cfg, run, board, flash, wire>>

\* The deadline: what is left of the buffer holds no END, so it cannot parse.
TimeUp ==
  /\ pc = "collect"
  /\ pc' = "norecord" /\ UNCHANGED <<cfg, run, board, flash, wire>>

Expected == IF cfg.busy THEN 1 ELSE run.count

\* _check_terminal.
TerminalAgrees(r) == r.ok /\ r.completed = Expected /\ (cfg.internal => r.moved)

\* Mutant: exactly zero is a reading like any other.
MeasurementPlausible_ZeroPasses(r) ==
  cfg.internal => got.measured /\ r.reading # "overflow" /\ (got.charge => r.reading # "reversed")

\* _check_measurement: a bystander's health is not looked at.  Both plausibility gates
\* compare the charge with 0, which a charge that was not received is not.
MeasurementPlausible(r) ==
  cfg.internal => /\ got.measured /\ r.reading # "overflow"
                  /\ got.charge => r.reading \notin {"zero", "reversed"}

\* The checks, the publication of the envelope and, in internal mode, of the result.
Check ==
  /\ pc = "check"
  /\ IF TerminalAgrees(record) /\ MeasurementPlausible(record)
     THEN pc' = "published" /\ run' = [run EXCEPT !.observed = IF cfg.internal THEN got.launch ELSE @]
     ELSE pc' = "rejected" /\ UNCHANGED run
  /\ UNCHANGED <<cfg, board, flash, wire>>

Host == Plan \/ Build \/ Flash \/ Reset \/ Observe \/ Unseen \/ Receive \/ TimeUp \/ Check
Board == BootFails \/ OpenWindow \/ CloseWindow
Next == Host \/ Attach \/ Gap \/ Board

Spec == Init /\ [][Next]_vars
FairSpec == Spec /\ WF_vars(Plan \/ Build \/ Flash \/ Reset \/ Check) /\ WF_vars(Unseen) /\ WF_vars(TimeUp)
-----------------------------------------------------------------------------
\* The state keeps its shape; only a dedicated run builds, deploys and collects.
TypeOK ==
  /\ pc \in {"plan", "build", "flash", "capture", "watch", "collect", "check"} \cup Over
  /\ phase \in {"parked", "boot", "watched", "closing", "reporting"}
  /\ run.observed \in 0 .. Launch /\ run.count \in Nat
  /\ attempt \in 1 .. Attempts /\ gaps \in 0 .. Gaps /\ at \in Nat
  /\ pc \in {"collect", "check", "published"} => cfg.dedicated /\ run.deployed

\* The record that is published with a capture was written by the launch whose window the
\* instrument measured, and by the binary this run built (publish_power_terminal_envelope,
\* _recipe_load_address, attached_session).
RecordIsOfTheCapture ==
  pc = "published" =>
    got.launch = run.observed /\ images[got.launch] = "power"

\* An on-device result is published only for a window that did the planned work while its
\* clock moved, with a reading that is none of the known signatures of a bad one, as far as
\* its charge was received (_check_terminal and _check_measurement).
PublishedIsPlausible ==
  pc = "published" /\ cfg.internal =>
    /\ record.ok /\ record.moved /\ record.completed = Expected
    /\ got.charge => record.reading = "good"

\* A whole record that parses is found in the stream, wherever it was joined and whatever
\* came before: no run ends for want of a record it has received
\* (collect_power_terminal_envelope_from_chunks).
IntactIsFound ==
  heard /\ Parse(SubSeq(Stream, 2, Len(Stream) - 1), record).ok => pc \notin {"collect", "norecord"}

\* Every power run ends, whatever the board and the stream do.
PowerRunEnds == <>(pc \in Over)

\* The parser's comment: a frozen window clock must reach validity as 0 rather than be
\* refused; and the stage's: raising would throw away a good external capture.
FrozenClockIsKept == heard /\ record.ok /\ ~cfg.internal => pc # "norecord"

\* The published record is the measured launch's, as plausible as its mode asks, and not missed.
PublishedIsSound == TypeOK /\ RecordIsOfTheCapture /\ PublishedIsPlausible /\ IntactIsFound
-----------------------------------------------------------------------------
\* The parts of the inductive invariant.
PowerTypes ==
  /\ cfg \in Cases
  /\ run \in PowerRuns
  /\ images \in Seq({"profile", "power"}) /\ Launch > 0
  /\ record \in [ok : BOOLEAN, completed : Nat, moved : BOOLEAN,
                 reading : {"none", "good", "zero", "reversed", "overflow"}]
  /\ recipe \in {"unread", "good", "stale", "unarmed", "absent"}
  /\ whole \in BOOLEAN /\ heard \in BOOLEAN
  /\ buffer \in Seq(Line)

\* Only a dedicated run is built and flashed, and what it resets and watches was deployed.
StageFollows ==
  /\ pc \in {"build", "flash"} => cfg.dedicated
  /\ pc \in {"capture", "watch"} /\ cfg.dedicated => run.deployed

\* A shared binary never reports, and nobody listens before the board does.
ListensToTheReport ==
  /\ phase = "reporting" => Running = "power"
  /\ at = 0 => buffer = <<>> /\ ~whole /\ ~heard
  /\ at > 0 => /\ phase = "reporting" /\ at <= Len(Stream) + 1
               /\ pc \in {"collect", "check", "norecord", "published", "rejected"}
  /\ pc \in {"check", "published", "rejected"} => at > 0

\* What is kept of the stream is of the launch at work, and its last END has been scanned.
KeepsItsLines ==
  \A i \in DOMAIN buffer :
    buffer[i].key # "END" /\ \E j \in DOMAIN Stream : buffer[i] = Stream[j]

\* A frame followed from its START is the end of what is kept.
FollowsTheFrame ==
  whole => /\ at \in 2 .. Len(Stream) /\ at - 1 <= Len(buffer)
           /\ \A i \in 1 .. at - 1 : buffer[Len(buffer) - (at - 1) + i] = Stream[i]

\* The launch that is listened to is the one the instrument watched, if one did; and an
\* envelope that is checked is of that launch.
AcceptsItsOwn ==
  /\ pc \in {"collect", "check"} => cfg.internal \/ run.observed = Launch
  /\ pc \in {"check", "published"} =>
       got.launch = Launch /\ (got.charge => record.reading # "none")

PowerIInv ==
  /\ PublishedIsSound /\ PowerTypes /\ StageFollows /\ ListensToTheReport /\ KeepsItsLines
  /\ FollowsTheFrame /\ AcceptsItsOwn
=============================================================================
