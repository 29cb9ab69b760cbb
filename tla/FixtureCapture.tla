--------------------------- MODULE FixtureCapture ---------------------------
(***************************************************************************)
(* One capture of a compiled fixture, capture_fixture: the image is        *)
(* flashed, read back, the sinks the firmware reports in are poisoned, the *)
(* board is reset and left alone, and the sinks are read once its status   *)
(* says it is done; or the run is measured on the rail meanwhile, under a  *)
(* READY, GO and DONE hand-shake.  The board runs beside it, whenever no   *)
(* debugger holds its core: after the flash, after a session that let go,  *)
(* and after a reset nobody asked for.                                     *)
(*                                                                         *)
(* A launch is named by its number.  A sink holds what wrote it and, for   *)
(* the checksum, what it was computed over.                                *)
(***************************************************************************)
EXTENDS Integers, Sequences

CONSTANT Glitches   \* bound: resets of the board nobody asked for

ASSUME FixtureCaptureAssumption == Glitches \in Nat

VARIABLES
  rail,       \* the request measures the rail
  step,       \* where the capture is, or how it ended
  mram,       \* the image in the board's memory
  core,       \* "running" or "halted"
  at,         \* what the firmware does next
  launch,     \* launches so far, the last of them the current one
  fresh,      \* the launches that started the image of this capture
  sinks,
  glitches,   \* resets nobody asked for, so far
  disturbed,  \* and how many of them came while the sinks were read
  past,       \* launches that had ended when the sinks were poisoned
  phase,      \* the phase observe_fixture_power reports to the guard
  busy,       \* the probe is held by the reset it runs
  go,         \* the GO line
  window,     \* the launch in which the gate rose; 0: it has not
  first, second, reads    \* the two snapshots, and how many sinks have been read

board == <<mram, core, at, launch, fresh, sinks>>
line == <<phase, busy, go, window>>
snaps == <<first, second, reads>>
resets == <<glitches, disturbed>>
capVars == <<rail, step, board, resets, past, line, snaps>>

Sinks == <<"checksum", "output", "status", "timing">>   \* in the order they are read
Holds(what, who, of) == [is |-> what, by |-> who, of |-> of]
Blank(what) == [s \in {Sinks[i] : i \in 1..4} |-> Holds(what, 0, "-")]
Ended == {"success", "failure", "killed"}

CapInit ==
  /\ rail \in BOOLEAN /\ step = "request"
  /\ mram = "other" /\ core = "running" /\ at = "idle"
  /\ launch = 1 /\ fresh = {} /\ glitches = 0 /\ disturbed = 0 /\ past = {}
  /\ sinks = [Blank("junk") EXCEPT !["status"] = Holds("ok", 1, "-")]
  /\ phase = "arming" /\ busy = FALSE /\ go = FALSE /\ window = 0
  /\ first = Blank("unread") /\ second = Blank("unread") /\ reads = 0
-----------------------------------------------------------------------------
\* The board.  A launch begins in the boot ROM, where the sinks still hold what they held.
Launch(how) == /\ launch' = launch + 1 /\ at' = "rom" /\ core' \in how
               /\ fresh' = IF mram' = "image" THEN fresh \cup {launch + 1} ELSE fresh

Puts(s, what, of) == sinks' = [sinks EXCEPT ![s] = Holds(what, launch, of)]

\* The C startup clears the sinks and sets the status to -1.
Startup ==
  /\ at = "rom" /\ at' = "infer"
  /\ sinks' = [Blank("cleared") EXCEPT !["status"] = Holds("running", launch, "-")]

\* infer_fixture up to its timed loop.  With the power wiring it waits for GO, three seconds
\* at most.
Infer ==
  \/ at = "infer" /\ at' = (IF rail /\ mram = "image" THEN "ready" ELSE "window")
  \/ at = "ready" /\ go /\ at' = "window"
  \/ at = "window" /\ at' = "timing"
  \/ at \in {"infer", "ready", "window"} /\ at' = "badsum"

\* The terminal: timing, outputs, checksum, and the status after all of them.  A failing run
\* leaves timing and outputs alone and still sums what they hold.
Report ==
  \/ at = "timing" /\ at' = "output" /\ Puts("timing", "made", "-")
  \/ at = "output" /\ at' = "sum" /\ Puts("output", "made", "-")
  \/ at = "sum" /\ at' = "status" /\ Puts("checksum", "sum", sinks["output"].is)
  \/ at = "badsum" /\ at' = "badstatus" /\ Puts("checksum", "sum", sinks["output"].is)
  \/ at = "status" /\ at' = "idle" /\ Puts("status", "ok", "-")
  \/ at = "badstatus" /\ at' = "idle" /\ Puts("status", "failed", "-")

Runs == /\ core = "running" /\ at # "idle"
        /\ Startup \/ (Infer /\ UNCHANGED sinks) \/ Report
        /\ UNCHANGED <<mram, core, launch, fresh>>

\* The state line is high for READY, and again for DONE once a status of zero is out.
StateHigh == at = "ready" \/ (at = "idle" /\ sinks["status"].is = "ok" /\ launch \in fresh)

\* A brown-out or the button.
Glitch == /\ glitches < Glitches /\ glitches' = glitches + 1
          /\ disturbed' = (IF step = "read" THEN disturbed + 1 ELSE disturbed)
          /\ UNCHANGED <<mram, sinks>> /\ Launch({"running", "halted"})
-----------------------------------------------------------------------------
\* The host.  Goes(a, b) is one step of the capture, taken with the guard's authority.
Goes(from, to) == step = from /\ step' = to

\* The evidence directory and started.json; from here on every ending but a kill leaves a
\* receipt.
Start == Goes("request", "probe") /\ UNCHANGED <<board, past, line, snaps>>

\* A session halts the core.  Closing it leaves the core halted or lets it run on.
LetsGo == core' \in {"halted", "running"}

Probe == /\ Goes("probe", "flash") /\ LetsGo
         /\ UNCHANGED <<mram, at, launch, fresh, sinks, past, line, snaps>>

\* flash_binary: J-Link's success, which may have programmed nothing, and the reset and go of
\* its script.
Flash == /\ Goes("flash", "poison")
         /\ mram' \in {"image", mram} /\ Launch({"running"})
         /\ UNCHANGED <<sinks, past, line, snaps>>

\* Mutant: the sinks are left as they are.
Poison_None ==
  /\ Goes("poison", "reset") /\ mram = "image" /\ LetsGo
  /\ past' = (IF at = "idle" THEN {launch} ELSE {})
  /\ UNCHANGED <<mram, at, launch, fresh, sinks, line, snaps>>

\* The second session: the whole image is read back, and every sink overwritten and read back.
Poison ==
  /\ Goes("poison", "reset") /\ mram = "image" /\ LetsGo
  /\ sinks' = Blank("poison")
  /\ past' = (IF at = "idle" THEN {launch} ELSE {})
  /\ UNCHANGED <<mram, at, launch, fresh, line, snaps>>

\* reset_target, detached; the boot ROM may find the debugger and hold the core.
Reset == /\ ~rail /\ Goes("reset", "attach")
         /\ UNCHANGED <<mram, sinks>> /\ Launch({"running", "halted"})
         /\ UNCHANGED <<past, line, snaps>>

\* Mutant: the session resets the board it attaches to.
Attach_Resets == /\ Goes("attach", "poll") /\ UNCHANGED <<mram, sinks>> /\ Launch({"running"})
                 /\ UNCHANGED <<past, line, snaps>>

\* The third session restarts a core that the attach found halted, except after a power
\* window, which is over.
Attach == /\ Goes("attach", "poll")
          /\ core' = IF rail THEN core ELSE "running"
          /\ UNCHANGED <<mram, at, launch, fresh, sinks, past, line, snaps>>

Completed == sinks["status"].is \notin {"poison", "running"}

\* await_completion: polled until it is there or the settle time is over; a measured run had
\* its time, and is polled once.
Poll == Goes("poll", "halt") /\ Completed /\ UNCHANGED <<board, past, line, snaps>>

\* Halted, and the whole image read back once more.
Halt == /\ Goes("halt", "read") /\ core' = "halted" /\ mram = "image"
        /\ UNCHANGED <<mram, at, launch, fresh, sinks, past, line, snaps>>

\* snapshot, twice over all sinks, one read after the other.
Read ==
  /\ step = "read" /\ reads < 8 /\ reads' = reads + 1
  /\ LET s == Sinks[(reads % 4) + 1] IN
       IF reads < 4 THEN first' = [first EXCEPT ![s] = sinks[s]] /\ UNCHANGED second
                    ELSE second' = [second EXCEPT ![s] = sinks[s]] /\ UNCHANGED first
  /\ UNCHANGED <<step, board, past, line>>

\* What two reads of a sink can be told apart by: two runs of one image may well agree.
Bytes(snap) == [s \in DOMAIN snap |-> <<snap[s].is, snap[s].of>>]

Stable == Bytes(first) = Bytes(second) /\ core = "halted"

\* The terminal: status, scope and bounds of the timing, checksum of the outputs.
Terminal == /\ first["status"].is = "ok" /\ first["timing"].is = "made"
            /\ first["checksum"].is = "sum" /\ first["checksum"].of = first["output"].is

Judge == /\ step = "read" /\ reads = 8
         /\ step' = (IF Stable /\ Terminal THEN "success" ELSE "failure")
         /\ UNCHANGED <<board, past, line, snaps>>

\* Everything that raises: no authority, a lost probe, a short or wrong read, a time-out.
Raises == /\ step \notin Ended \cup {"request"} /\ step' = "failure"
          /\ UNCHANGED <<board, past, line, snaps>>

KillCapture == step \notin Ended \cup {"request"} /\ step' = "killed" /\ UNCHANGED <<board, past, line, snaps>>
-----------------------------------------------------------------------------
\* observe_fixture_power.  The instrument's poller asks the guard all along, for a free
\* probe unless the phase says that our own reset holds it.
Observing == {"reset", "resetting", "held", "rearmed", "ready", "rise", "fall", "done"}
PollerRefused == rail /\ step \in Observing /\ busy /\ phase # "resetting"

\* Mutant: the reset begins before the poller is told.
Enter_Late == rail /\ Goes("reset", "resetting") /\ UNCHANGED <<board, past, line, snaps>>

\* started: the check and the change of phase are one step under the lock the poller takes.
Enter == /\ rail /\ Goes("reset", "resetting")
         /\ phase' = "resetting" /\ UNCHANGED <<board, past, busy, go, window, snaps>>

\* reset_target, a child that holds the probe until it returns.
Resets ==
  /\ \/ Goes("resetting", "held") /\ busy' = TRUE /\ UNCHANGED <<board>>
     \/ /\ Goes("held", "rearmed") /\ busy' = FALSE
        /\ UNCHANGED <<mram, sinks>> /\ Launch({"running", "halted"})
  /\ UNCHANGED <<past, phase, go, window, snaps>>

Rearm == /\ Goes("rearmed", "ready") /\ phase' = "arming"
         /\ UNCHANGED <<board, past, busy, go, window, snaps>>

\* READY, and GO.
SignalGo == /\ Goes("ready", "rise") /\ StateHigh
            /\ phase' = "go_signaled" /\ go' = TRUE
            /\ UNCHANGED <<board, past, busy, window, snaps>>

\* The gate rises, and GO is dropped.
Rise == /\ Goes("rise", "fall") /\ at = "window"
        /\ go' = FALSE /\ window' = launch
        /\ UNCHANGED <<board, past, phase, busy, snaps>>

\* It falls, and the state line rises once more: the window is complete for the instrument.
Fall == Goes("fall", "done") /\ at # "window" /\ UNCHANGED <<board, past, line, snaps>>
Done == Goes("done", "attach") /\ StateHigh /\ UNCHANGED <<board, past, line, snaps>>

Observes == Enter \/ Resets \/ Rearm \/ SignalGo \/ Rise \/ Fall \/ Done

Host == \/ Start \/ Probe \/ Flash \/ Poison \/ Reset \/ Attach \/ Poll \/ Halt \/ Read \/ Judge
        \/ Observes \/ Raises \/ KillCapture

CapNext ==
  \/ Host /\ UNCHANGED <<rail, resets>>
  \/ step \notin Ended /\ Runs /\ UNCHANGED <<rail, step, resets, past, line, snaps>>
  \/ step \notin Ended \cup {"request"} /\ Glitch /\ UNCHANGED <<rail, step, past, line, snaps>>
-----------------------------------------------------------------------------
CapTypeOK ==
  /\ launch \in 1..(3 + Glitches) /\ glitches \in 0..Glitches
  /\ fresh \subseteq 2..launch /\ past \subseteq 1..launch /\ window \in 0..launch
  /\ core \in {"running", "halted"} /\ reads \in 0..8

\* What a successful capture reports, every sink of it and the energy of its window, is of
\* one launch of the image it was asked to measure, which was over after the sinks had been
\* poisoned: not of an earlier run, not of two runs, not of a run still going on.  Two resets
\* while the sinks are read, of which the second leaves the core halted, are not noticed.
AcceptedIsOneRun ==
  step = "success" /\ disturbed <= 1 =>
    \E l \in fresh \ past :
      /\ \A s \in DOMAIN first : first[s].by = l
      /\ rail => window = l

\* The poller never takes the capture's own reset for another user of the probe.
OwnResetIsAllowed == ~PollerRefused

\* What is accepted is one launch's, and the poller asks for no probe but its own reset's.
CaptureIsOneRun == AcceptedIsOneRun /\ OwnResetIsAllowed
-----------------------------------------------------------------------------
(* Why: the invariant the proof rests on. *)

SinkNames == {Sinks[i] : i \in 1..4}
Words == {"junk", "unread", "poison", "cleared", "running", "made", "sum", "ok", "failed", "-"}
Content == [is : Words, by : Nat, of : Words]
Asked == {"reset", "resetting", "held", "rearmed", "ready"}     \* poisoned, and before GO
Windowed == {"attach", "poll", "halt", "read", "success"}       \* with the window behind it
Poisoned == Asked \cup {"rise", "fall", "done"} \cup Windowed
Before == {"request", "probe", "flash", "poison"}

ContentTypes == {sinks, first, second} \subseteq [SinkNames -> Content]
CapTypes ==
  /\ launch \in Nat \ {0} /\ core \in {"running", "halted"} /\ reads \in 0..8
  /\ glitches \in 0..Glitches /\ disturbed \in Nat
  /\ fresh \subseteq 2..launch /\ past \subseteq 1..launch /\ window \in 0..launch
  /\ step \in Before \cup Poisoned \cup Ended

\* Every launch has a cause: the flash, the reset, or none.
LaunchesAreCounted ==
  /\ step \in {"request", "probe", "flash"} => launch <= 1 + glitches
  /\ step \in {"poison", "reset", "resetting", "held"} => launch <= 2 + glitches
  /\ launch <= 3 + glitches

\* From the flash on a launch starts the image that is there, and one that was over stays over.
LaunchIsFresh ==
  /\ mram = "image" => launch \in fresh
  /\ step \in Poisoned => mram = "image"
  /\ launch \in past => at = "idle"

\* What the sinks hold after the poison, by how far the current launch is: a status of success
\* comes last, and not before a timing of the same launch.
MadeBy(names) == \A s \in names : sinks[s].by = launch
SinksFollowTheLaunch ==
  step \in Poisoned =>
    /\ at \notin {"idle", "rom"} => sinks["status"].is # "ok"
    /\ at \in {"infer", "ready", "window", "timing"} => sinks["timing"].is # "made"
    /\ sinks["timing"].is = "made" =>
         /\ at = "output" => MadeBy({"timing"})
         /\ at = "sum" => MadeBy({"timing", "output"})
         /\ at = "status" => MadeBy({"timing", "output", "checksum"})
    /\ sinks["timing"].is = "made" /\ sinks["status"].is = "ok" =>
         /\ sinks["status"].by \in fresh \ past
         /\ \A s \in SinkNames : sinks[s].by = sinks["status"].by

\* One launch sees GO, and the window is its.
OneWindow ==
  /\ go => window = 0
  /\ step \in Before \cup Asked => ~go
  /\ step \in Before \cup Asked \cup {"rise"} => window = 0
  /\ rail /\ step \in Poisoned =>
       /\ step \in {"fall", "done"} \cup Windowed => window # 0
       /\ window # 0 /\ at \in {"window", "timing", "output", "sum", "status"} => launch = window
       /\ window # 0 /\ sinks["status"].is = "ok" => sinks["status"].by = window

\* A core that a reset has not set running leaves the sinks as they were read.
ReadAsTheyAre ==
  /\ step \in Before \cup (Poisoned \ {"read", "success"}) => reads = 0 /\ disturbed = 0
  /\ step = "read" =>
       /\ disturbed = 0 => core = "halted"
       /\ core = "halted" /\ disturbed <= 1 =>
            \A i \in 1..4 : i <= reads => first[Sinks[i]] = sinks[Sinks[i]]

\* The probe is busy within the phase that says so.
BusyInPhase ==
  /\ busy => step \in {"held"} \cup Ended
  /\ step \in {"resetting", "held"} => phase = "resetting"

CapIInv == CapTypes /\ ContentTypes /\ LaunchesAreCounted /\ LaunchIsFresh /\ SinksFollowTheLaunch /\ OneWindow
           /\ ReadAsTheyAre /\ BusyInPhase /\ AcceptedIsOneRun

CapSpec == CapInit /\ [][CapNext]_capVars
=============================================================================
