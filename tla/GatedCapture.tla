---------------------------- MODULE GatedCapture ----------------------------
(***************************************************************************)
(* JoulescopeDriver.capture_gated: one GPIO-gated power capture.           *)
(*                                                                         *)
(* Three kinds of threads meet here.  The MAIN thread opens the            *)
(* instrument, starts the streams and the poller, runs the caller's start  *)
(* hook (reset the target, wait for READY, signal GO), waits for the       *)
(* window, and tears everything down.  The POLLER thread reads the GPI     *)
(* inputs, runs the caller's callbacks (phase_getter, on_gate_rise) and    *)
(* feeds the control state.  The vendor's STREAM threads deliver packets   *)
(* whenever they please, during teardown and afterwards too.               *)
(*                                                                         *)
(* They share a stop event, the processing fence of                        *)
(* _GatedCaptureResources (a count of admitted contexts and a _stopped     *)
(* flag under one condition), and the latest GPI sample (under another).   *)
(*                                                                         *)
(* Data is abstracted to what control flow looks at.  A GPI sample is      *)
(* whether it satisfies the READY test; the classification of pulses is    *)
(* the subject of GateControl, so here observe() returns any verdict; the  *)
(* evidence is a parity that every mutation flips.  Timeouts may fire at   *)
(* any moment.                                                             *)
(***************************************************************************)
EXTENDS Integers, Sequences, FiniteSets

CONSTANTS
  OptionalStreams,   \* sequence of GPI streams in start order, e.g. <<"gate", "state">>
  RequireDone,       \* require_done_state: completion is validated on each poll
  Lockstep           \* the start hook waits for READY

\* The two sequences that occur: JS110 streams no GPI, JS220 and JS320 stream
\* the gate, and the state input too when completion is required of them.
ASSUME OptionalStreamsAssumption ==
  /\ OptionalStreams \in {<<>>, <<"gate">>, <<"gate", "state">>}
  /\ RequireDone \in BOOLEAN
  /\ Lockstep \in BOOLEAN

AllStreams == <<"stats">> \o OptionalStreams
Streams == {AllStreams[i] : i \in 1 .. Len(AllStreams)}

\* Everything that enters processing(): the poller's own block, the _phase()
\* call nested in it (or alone, at the top of the loop) and each stream's
\* delivery thread.
Contexts == {"poll", "phase"} \cup Streams

Controls == Streams \X {"ctrl", "sub"}

VARIABLES
  mpc,        \* where the main thread is
  step,       \* the set-up or teardown call it makes next
  inflight,   \* the exception main is propagating, or "none"
  outcome,    \* what capture_gated returned or raised, "none" until then
  consecutive,\* READY samples in a row seen by _wait_gpi_state
  held,       \* this capture's reference on the device handle
  stop,       \* the stop event
  stopped,    \* _GatedCaptureResources._stopped
  count,      \* _GatedCaptureResources._processing_count
  admitted,   \* the contexts that hold one unit of count
  latest,     \* latest_gpi_value: "none", or whether it satisfies READY
  fresh,      \* gpi_sample_sequence > observed_sequence
  phase,      \* the phase the caller's phase_getter reports
  ppc,        \* where the poller is
  polled,     \* the poller's own reading: "none" or a sample
  seenPhase,  \* the phase the poller got for this sample
  owed,       \* on_gate_rise awaits a delivery on another driver thread
  complete,   \* _complete_at is set
  evidence,   \* parity of the mutations of the retained evidence
  errors,     \* callback_errors is not empty
  attempted,  \* vendor set-up calls that were attempted
  foreign,    \* GPI controls somebody else had enabled before this capture
  device,     \* controls enabled and callbacks registered in the instrument
  dirty       \* some release call of the teardown raised

mainVars == <<mpc, step, inflight, outcome, consecutive, held>>
fenceVars == <<stopped, count, admitted>>
sampleVars == <<latest, fresh>>
pollerVars == <<ppc, polled, seenPhase, owed, complete>>
vendorVars == <<attempted, foreign, device, dirty>>
vars == <<mainVars, stop, fenceVars, sampleVars, phase, pollerVars, evidence,
          errors, vendorVars>>
-----------------------------------------------------------------------------
\* The order of start_streams: scnt first (call 0, which nothing tears down),
\* then for statistics the control before the subscription, and for a GPI
\* stream the subscription before the control.
SetupCall(i) ==
  IF i <= 2
  THEN <<"stats", IF i = 1 THEN "ctrl" ELSE "sub">>
  ELSE <<AllStreams[(i + 1) \div 2], IF i % 2 = 1 THEN "sub" ELSE "ctrl">>

\* stop() releases stream by stream, the control before the subscription.
ReleaseCall(i) ==
  <<AllStreams[(i + 1) \div 2], IF i % 2 = 1 THEN "ctrl" ELSE "sub">>

LastCall == 2 * Len(AllStreams)

MainPCs == {"open", "mode", "setup", "start", "reset", "ready", "notReady", "go",
            "signal", "wait", "stop", "fence", "drain", "join", "release",
            "decide", "close", "done"}
PollerPCs == {"absent", "top", "phase1", "read", "publish", "nested", "phase2",
              "observe", "idleIn", "rise", "confirm", "failed", "failedIn",
              "guard", "guardIn", "idle", "exited"}

\* Where the poller is inside a block of processing(): its own, or that of _phase.
PollPCs == {"nested", "phase2", "observe", "idleIn", "rise", "confirm", "failedIn",
            "guardIn"}
PhasePCs == {"phase1", "phase2"}
InsidePCs == PollPCs \cup PhasePCs

Samples == {"ready", "other"}
Phases == {"arming", "go_signaled"}
Failures == {"setup", "hook"}
Outcomes == {"none", "openFailed", "modeRejected", "setupFailed", "hookError",
             "callbackError", "noResult", "captured"}

Init ==
  /\ mpc = "open" /\ step = 0 /\ inflight = "none" /\ outcome = "none"
  /\ consecutive = 0 /\ held = FALSE
  /\ stop = FALSE /\ stopped = FALSE /\ count = 0 /\ admitted = {}
  /\ latest = "none" /\ fresh = FALSE /\ phase = "arming"
  /\ ppc = "absent" /\ polled = "none" /\ seenPhase = "arming"
  /\ owed = FALSE /\ complete = FALSE /\ evidence = 0 /\ errors = FALSE
  /\ attempted = {} /\ dirty = FALSE
  /\ foreign \in SUBSET {c \in Controls : c[2] = "ctrl" /\ c[1] # "stats"}
  /\ device = foreign
-----------------------------------------------------------------------------
(* The processing fence. *)

\* processing() with active = True: one unit of the count.
Admit(c) ==
  /\ ~stopped
  /\ admitted' = admitted \cup {c}
  /\ count' = count + 1
  /\ UNCHANGED stopped

\* Mutant: the block does not give its unit back.
Dismiss_KeepsCount(C) ==
  /\ admitted' = admitted \ C
  /\ UNCHANGED <<count, stopped>>

\* The end of the with block of every context in C, innermost first.
Dismiss(C) ==
  /\ admitted' = admitted \ C
  /\ count' = count - Cardinality(C)
  /\ UNCHANGED stopped

Mutate == evidence' = 1 - evidence
-----------------------------------------------------------------------------
(* The main thread. *)

OpenDevice ==
  /\ mpc = "open"
  /\ \/ mpc' = "mode" /\ held' = TRUE /\ UNCHANGED outcome
     \/ mpc' = "done" /\ outcome' = "openFailed" /\ UNCHANGED held
  /\ UNCHANGED <<step, inflight, consecutive, stop, fenceVars, sampleVars, phase,
                 pollerVars, evidence, errors, vendorVars>>

\* Construction of the recorders and the query of the decimation mode: a
\* failure here leaves through the outer finally, without resources.stop.
CheckMode ==
  /\ mpc = "mode"
  /\ \/ mpc' = "setup" /\ UNCHANGED outcome
     \/ mpc' = "close" /\ outcome' = "modeRejected"
  /\ UNCHANGED <<step, inflight, consecutive, held, stop, fenceVars, sampleVars,
                 phase, pollerVars, evidence, errors, vendorVars>>

\* Mutant: the attempt is recorded only once the call has succeeded.
StartStream_RecordsSuccess ==
  /\ mpc = "setup" /\ step <= LastCall
  /\ LET call == SetupCall(step) IN
     \E ok, effect \in BOOLEAN :
       /\ ok => effect
       /\ attempted' = IF step # 0 /\ ok THEN attempted \cup {call} ELSE attempted
       /\ device' = IF step # 0 /\ effect THEN device \cup {call} ELSE device
       /\ \/ ok /\ step' = step + 1 /\ UNCHANGED <<mpc, inflight, evidence>>
          \/ /\ ~ok /\ mpc' = "stop" /\ inflight' = "setup"
             /\ UNCHANGED <<step, evidence>>
  /\ UNCHANGED <<outcome, consecutive, held, stop, fenceVars, sampleVars, phase,
                 pollerVars, errors, foreign, dirty>>

\* One vendor call of start_streams.  The attempt is recorded before the call;
\* a call that raises may or may not have taken effect.  A failed statistics
\* call ends the capture, a failed GPI call skips the remaining GPI calls.
StartStream ==
  /\ mpc = "setup" /\ step <= LastCall
  /\ LET call == SetupCall(step) IN
     \E ok, effect \in BOOLEAN :
       /\ ok => effect
       /\ attempted' = IF step = 0 THEN attempted ELSE attempted \cup {call}
       /\ device' = IF step # 0 /\ effect THEN device \cup {call} ELSE device
       /\ \/ ok /\ step' = step + 1 /\ UNCHANGED <<mpc, inflight, evidence>>
          \/ /\ ~ok /\ step <= 2
             /\ mpc' = "stop" /\ inflight' = "setup" /\ UNCHANGED <<step, evidence>>
          \/ /\ ~ok /\ step > 2
             /\ step' = LastCall + 1
             /\ IF RequireDone THEN Mutate ELSE UNCHANGED evidence
             /\ UNCHANGED <<mpc, inflight>>
  /\ UNCHANGED <<outcome, consecutive, held, stop, fenceVars, sampleVars, phase,
                 pollerVars, errors, foreign, dirty>>

StreamsStarted ==
  /\ mpc = "setup" /\ step > LastCall
  /\ mpc' = "start" /\ step' = 1
  /\ UNCHANGED <<inflight, outcome, consecutive, held, stop, fenceVars, sampleVars,
                 phase, pollerVars, evidence, errors, vendorVars>>

StartPoller ==
  /\ mpc = "start"
  /\ mpc' = "reset" /\ ppc' = "top"
  /\ UNCHANGED <<step, inflight, outcome, consecutive, held, stop, fenceVars,
                 sampleVars, phase, polled, seenPhase, owed, complete, evidence,
                 errors, vendorVars>>

HookRaises == mpc' = "stop" /\ inflight' = "hook"

\* The start hook: the reset of the target, which may raise.  Entering the
\* READY wait takes the current sequence as observed.
ResetTarget ==
  /\ mpc = "reset"
  /\ \/ HookRaises /\ UNCHANGED fresh
     \/ /\ mpc' = IF Lockstep THEN "ready" ELSE "go"
        /\ fresh' = FALSE /\ UNCHANGED inflight
  /\ UNCHANGED <<step, outcome, consecutive, held, stop, fenceVars, latest, phase,
                 pollerVars, evidence, errors, vendorVars>>

\* _wait_gpi_state wakes for a sample it has not seen: three READY values in
\* a row qualify, whatever it slept through.
WaitReady ==
  /\ mpc = "ready" /\ fresh /\ ~stop
  /\ fresh' = FALSE
  /\ IF latest = "ready"
     THEN /\ consecutive' = consecutive + 1
          /\ mpc' = IF consecutive + 1 >= 3 THEN "go" ELSE "ready"
     ELSE consecutive' = 0 /\ UNCHANGED mpc
  /\ UNCHANGED <<step, inflight, outcome, held, stop, fenceVars, latest, phase,
                 pollerVars, evidence, errors, vendorVars>>

\* ... and returns False when it finds stop set, or at its deadline.
GiveUpReady ==
  /\ mpc = "ready"
  /\ mpc' = "notReady"
  /\ UNCHANGED <<step, inflight, outcome, consecutive, held, stop, fenceVars,
                 sampleVars, phase, pollerVars, evidence, errors, vendorVars>>

\* The hook reads the wires for its message, which needs the process-wide
\* GPI request lock the poller holds while it reads, and raises.
ReportNotReady ==
  /\ mpc = "notReady" /\ ppc # "read"
  /\ HookRaises
  /\ UNCHANGED <<step, outcome, consecutive, held, stop, fenceVars, sampleVars,
                 phase, pollerVars, evidence, errors, vendorVars>>

\* The phase is switched before GO is driven, so that no gate edge is lost.
SwitchPhase ==
  /\ mpc = "go"
  /\ mpc' = "signal" /\ phase' = "go_signaled"
  /\ UNCHANGED <<step, inflight, outcome, consecutive, held, stop, fenceVars,
                 sampleVars, pollerVars, evidence, errors, vendorVars>>

SignalGo ==
  /\ mpc = "signal"
  /\ \/ HookRaises
     \/ mpc' = "wait" /\ UNCHANGED inflight
  /\ UNCHANGED <<step, outcome, consecutive, held, stop, fenceVars, sampleVars,
                 phase, pollerVars, evidence, errors, vendorVars>>

\* stop.wait(duration_s) returns because stop is set or at the bound.
WaitWindow ==
  /\ mpc = "wait"
  /\ mpc' = "stop"
  /\ UNCHANGED <<step, inflight, outcome, consecutive, held, stop, fenceVars,
                 sampleVars, phase, pollerVars, evidence, errors, vendorVars>>

\* resources.stop: first the event, then _stopped under the condition; the
\* same wait_for then returns once the count is zero.
RequestStop ==
  /\ mpc = "stop"
  /\ mpc' = "fence" /\ stop' = TRUE
  /\ UNCHANGED <<step, inflight, outcome, consecutive, held, fenceVars, sampleVars,
                 phase, pollerVars, evidence, errors, vendorVars>>

CloseFence ==
  /\ mpc = "fence"
  /\ mpc' = "drain" /\ stopped' = TRUE
  /\ UNCHANGED <<step, inflight, outcome, consecutive, held, stop, count, admitted,
                 sampleVars, phase, pollerVars, evidence, errors, vendorVars>>

\* Mutant: teardown does not wait for the count.
Drained_AtOnce ==
  /\ mpc = "drain"
  /\ mpc' = "join"
  /\ UNCHANGED <<step, inflight, outcome, consecutive, held, stop, fenceVars,
                 sampleVars, phase, pollerVars, evidence, errors, vendorVars>>

Drained ==
  /\ mpc = "drain" /\ count = 0
  /\ mpc' = "join"
  /\ UNCHANGED <<step, inflight, outcome, consecutive, held, stop, fenceVars,
                 sampleVars, phase, pollerVars, evidence, errors, vendorVars>>

\* Mutant: join without a timeout.
JoinPoller_Unbounded ==
  /\ mpc = "join" /\ ppc \in {"absent", "exited"}
  /\ mpc' = "release" /\ step' = 1
  /\ UNCHANGED <<inflight, outcome, consecutive, held, stop, fenceVars, sampleVars,
                 phase, pollerVars, evidence, errors, vendorVars>>

\* thread.join(timeout=1.0): the poller may still sit in a vendor read.
JoinPoller ==
  /\ mpc = "join"
  /\ mpc' = "release" /\ step' = 1
  /\ UNCHANGED <<inflight, outcome, consecutive, held, stop, fenceVars, sampleVars,
                 phase, pollerVars, evidence, errors, vendorVars>>

\* Mutant: teardown releases every call, attempted or not.
ReleaseStream_Everything ==
  /\ mpc = "release" /\ step <= LastCall
  /\ step' = step + 1
  /\ \/ device' = device \ {ReleaseCall(step)} /\ UNCHANGED dirty
     \/ dirty' = TRUE /\ UNCHANGED device
  /\ UNCHANGED <<mpc, inflight, outcome, consecutive, held, stop, fenceVars,
                 sampleVars, phase, pollerVars, evidence, errors, attempted, foreign>>

\* One release of the teardown, of a call that was attempted.  Whatever it
\* raises is suppressed; the next one is made regardless.
ReleaseStream ==
  /\ mpc = "release" /\ step <= LastCall
  /\ step' = step + 1
  /\ LET call == ReleaseCall(step) IN
     IF call \in attempted
     THEN \/ device' = device \ {call} /\ UNCHANGED dirty
          \/ dirty' = TRUE /\ UNCHANGED device
     ELSE UNCHANGED <<device, dirty>>
  /\ UNCHANGED <<mpc, inflight, outcome, consecutive, held, stop, fenceVars,
                 sampleVars, phase, pollerVars, evidence, errors, attempted, foreign>>

StreamsReleased ==
  /\ mpc = "release" /\ step > LastCall
  /\ mpc' = "decide"
  /\ UNCHANGED <<step, inflight, outcome, consecutive, held, stop, fenceVars,
                 sampleVars, phase, pollerVars, evidence, errors, vendorVars>>

\* Mutant: the recorded callback error is looked at first.
Decide_CallbackFirst ==
  /\ mpc = "decide"
  /\ mpc' = "close"
  /\ outcome' \in CASE errors -> {"callbackError"}
                    [] inflight = "hook" /\ ~errors  -> {"hookError"}
                    [] inflight = "setup" /\ ~errors -> {"setupFailed"}
                    [] OTHER -> {"captured", "noResult"}
  /\ UNCHANGED <<step, inflight, consecutive, held, stop, fenceVars, sampleVars,
                 phase, pollerVars, evidence, errors, vendorVars>>

\* An exception in flight passes the finally block; then a recorded callback
\* error is raised; then the retained evidence is reduced, or refused.
Decide ==
  /\ mpc = "decide"
  /\ mpc' = "close"
  /\ outcome' \in CASE inflight = "hook"  -> {"hookError"}
                    [] inflight = "setup" -> {"setupFailed"}
                    [] errors /\ inflight = "none" -> {"callbackError"}
                    [] OTHER -> {"captured", "noResult"}
  /\ UNCHANGED <<step, inflight, consecutive, held, stop, fenceVars, sampleVars,
                 phase, pollerVars, evidence, errors, vendorVars>>

CloseDevice ==
  /\ mpc = "close"
  /\ mpc' = "done" /\ held' = FALSE
  /\ UNCHANGED <<step, inflight, outcome, consecutive, stop, fenceVars, sampleVars,
                 phase, pollerVars, evidence, errors, vendorVars>>

Main ==
  \/ OpenDevice \/ CheckMode \/ StartStream \/ StreamsStarted \/ StartPoller
  \/ ResetTarget \/ WaitReady \/ GiveUpReady \/ ReportNotReady \/ SwitchPhase
  \/ SignalGo \/ WaitWindow \/ RequestStop \/ CloseFence \/ Drained \/ JoinPoller
  \/ ReleaseStream \/ StreamsReleased \/ Decide \/ CloseDevice
-----------------------------------------------------------------------------
(* The poller thread. *)

\* A callback of the caller raised: _abort_callback records the error, sets
\* stop and wakes a READY wait; the blocks of C are left and the loop ends.
Abort(C) ==
  /\ errors' = TRUE /\ stop' = TRUE
  /\ Dismiss(C)
  /\ ppc' = "exited"

\* The loop condition and the _phase() call at the top of the loop.
PollerTop ==
  /\ ppc = "top"
  /\ IF stop
     THEN ppc' = "exited" /\ UNCHANGED fenceVars
     ELSE Admit("phase") /\ ppc' = "phase1"
  /\ UNCHANGED <<mainVars, stop, sampleVars, phase, polled, seenPhase, owed,
                 complete, evidence, errors, vendorVars>>

\* phase_getter() at the top of the loop: its value is not used.
PhaseAtTop ==
  /\ ppc = "phase1"
  /\ \/ Dismiss({"phase"}) /\ ppc' = "read" /\ UNCHANGED <<stop, errors>>
     \/ Abort({"phase"})
  /\ UNCHANGED <<mainVars, sampleVars, phase, polled, seenPhase, owed, complete,
                 evidence, vendorVars>>

\* The GPI request and its answer, outside every block of processing().
ReadSnapshot ==
  /\ ppc = "read"
  /\ \/ polled' \in Samples /\ ppc' = "publish"
     \/ polled' = "none" /\ ppc' = "failed"
  /\ UNCHANGED <<mainVars, stop, fenceVars, sampleVars, phase, seenPhase, owed,
                 complete, evidence, errors, vendorVars>>

\* A reading that arrives after shutdown began is discarded.
PublishSample ==
  /\ ppc = "publish"
  /\ IF stop
     THEN ppc' = "exited" /\ UNCHANGED <<fenceVars, sampleVars>>
     ELSE /\ Admit("poll")
          /\ latest' = polled /\ fresh' = TRUE
          /\ ppc' = "nested"
  /\ UNCHANGED <<mainVars, stop, phase, polled, seenPhase, owed, complete, evidence,
                 errors, vendorVars>>

\* The _phase() call nested in the block: refused once stop is set.
NestedPhase ==
  /\ ppc = "nested"
  /\ IF stop
     THEN Dismiss({"poll"}) /\ ppc' = "exited"
     ELSE Admit("phase") /\ ppc' = "phase2"
  /\ UNCHANGED <<mainVars, stop, sampleVars, phase, polled, seenPhase, owed,
                 complete, evidence, errors, vendorVars>>

PhaseOfSample ==
  /\ ppc = "phase2"
  /\ \/ /\ Dismiss({"phase"}) /\ seenPhase' = phase /\ ppc' = "observe"
        /\ UNCHANGED <<stop, errors>>
     \/ Abort({"phase", "poll"}) /\ UNCHANGED seenPhase
  /\ UNCHANGED <<mainVars, sampleVars, phase, polled, owed, complete, evidence,
                 vendorVars>>

\* control.observe: before GO it only restarts the history; afterwards it may
\* report a rise, and without require_done_state set the completion time.
Observe ==
  /\ ppc = "observe"
  /\ Mutate
  /\ IF seenPhase = "arming"
     THEN ppc' = "idleIn" /\ UNCHANGED <<complete, owed>>
     ELSE \/ /\ ppc' = "rise" /\ owed' \in BOOLEAN /\ UNCHANGED complete
          \/ /\ ppc' = "confirm" /\ UNCHANGED owed
             /\ complete' \in IF RequireDone THEN {complete} ELSE {complete, TRUE}
  /\ UNCHANGED <<mainVars, stop, fenceVars, sampleVars, phase, polled, seenPhase,
                 errors, vendorVars>>

\* The pre-GO cadence wait, inside the block; it wakes when stop is set.
IdleInside ==
  /\ ppc = "idleIn"
  /\ Dismiss({"poll"}) /\ ppc' = "top"
  /\ UNCHANGED <<mainVars, stop, sampleVars, phase, polled, seenPhase, owed, complete,
                 evidence, errors, vendorVars>>

\* on_gate_rise (it drops GO) returns or raises.  It may publish to the driver
\* and wait for another driver thread to deliver a packet: then owed is set.
GateRise ==
  /\ ppc = "rise" /\ ~owed
  /\ \/ ppc' = "confirm" /\ UNCHANGED <<stop, errors, fenceVars>>
     \/ Abort({"poll"})
  /\ UNCHANGED <<mainVars, sampleVars, phase, polled, seenPhase, owed, complete,
                 evidence, vendorVars>>

\* Validation of the retained streams: its verdict sets, keeps or clears the
\* completion time; an exception it does not expect only ends the iteration.
ConfirmCompletion ==
  /\ ppc = "confirm"
  /\ Dismiss({"poll"})
  /\ IF RequireDone
     THEN \/ ppc' = "guard" /\ complete' \in BOOLEAN /\ Mutate
          \/ ppc' = "failed" /\ UNCHANGED <<complete, evidence>>
     ELSE ppc' = "guard" /\ UNCHANGED <<complete, evidence>>
  /\ UNCHANGED <<mainVars, stop, sampleVars, phase, polled, seenPhase, owed, errors,
                 vendorVars>>

\* The except branch enters processing() of its own and counts failed reads.
PollFailed ==
  /\ ppc = "failed"
  /\ IF stop
     THEN ppc' = "exited" /\ UNCHANGED fenceVars
     ELSE Admit("poll") /\ ppc' = "failedIn"
  /\ UNCHANGED <<mainVars, stop, sampleVars, phase, polled, seenPhase, owed, complete,
                 evidence, errors, vendorVars>>

CountFailure ==
  /\ ppc = "failedIn"
  /\ IF polled = "none" THEN Mutate ELSE UNCHANGED evidence
  /\ Dismiss({"poll"}) /\ ppc' = "guard"
  /\ UNCHANGED <<mainVars, stop, sampleVars, phase, polled, seenPhase, owed, complete,
                 errors, vendorVars>>

EnterGuard ==
  /\ ppc = "guard"
  /\ IF stop
     THEN ppc' = "exited" /\ UNCHANGED fenceVars
     ELSE Admit("poll") /\ ppc' = "guardIn"
  /\ UNCHANGED <<mainVars, stop, sampleVars, phase, polled, seenPhase, owed, complete,
                 evidence, errors, vendorVars>>

\* guard_elapsed: the settle guard after completion has run out, or not.
GuardElapsed ==
  /\ ppc = "guardIn"
  /\ Dismiss({"poll"})
  /\ \/ complete /\ ppc' = "exited" /\ stop' = TRUE /\ Mutate
     \/ ppc' = "idle" /\ UNCHANGED <<stop, evidence>>
  /\ UNCHANGED <<mainVars, sampleVars, phase, polled, seenPhase, owed, complete,
                 errors, vendorVars>>

Idle ==
  /\ ppc = "idle"
  /\ ppc' = "top"
  /\ UNCHANGED <<mainVars, stop, fenceVars, sampleVars, phase, polled, seenPhase, owed,
                 complete, evidence, errors, vendorVars>>

\* Every poller step but the vendor read, which may never return.
PollerWork ==
  \/ PollerTop \/ PhaseAtTop \/ PublishSample \/ NestedPhase \/ PhaseOfSample
  \/ Observe \/ IdleInside \/ GateRise \/ ConfirmCompletion \/ PollFailed
  \/ CountFailure \/ EnterGuard \/ GuardElapsed \/ Idle
-----------------------------------------------------------------------------
(* The vendor's stream threads. *)

\* Mutant: the callback does not look at what processing() yields.
BeginDelivery_Unfenced(s) ==
  /\ <<s, "sub">> \in attempted /\ s \notin admitted
  /\ admitted' = admitted \cup {s}
  /\ count' = count + 1
  /\ UNCHANGED <<mainVars, stop, stopped, sampleVars, phase, pollerVars, evidence,
                 errors, vendorVars>>

\* Mutant: the lock is held across the work, so a delivery waits for the poller.
BeginDelivery_LockHeld(s) ==
  /\ <<s, "sub">> \in attempted /\ admitted = {}
  /\ IF stopped
     THEN UNCHANGED fenceVars /\ owed' = IF s = "stats" THEN FALSE ELSE owed
     ELSE Admit(s) /\ UNCHANGED owed
  /\ UNCHANGED <<mainVars, stop, sampleVars, phase, ppc, polled, seenPhase, complete,
                 evidence, errors, vendorVars>>

\* A delivery on stream s reaches the callback.  After the fence closed it is
\* refused, which completes it at once.
BeginDelivery(s) ==
  /\ <<s, "sub">> \in attempted /\ s \notin admitted
  /\ IF stopped
     THEN UNCHANGED fenceVars /\ owed' = IF s = "stats" THEN FALSE ELSE owed
     ELSE Admit(s) /\ UNCHANGED owed
  /\ UNCHANGED <<mainVars, stop, sampleVars, phase, ppc, polled, seenPhase, complete,
                 evidence, errors, vendorVars>>

\* An admitted delivery appends its packet or frame and leaves.
EndDelivery(s) ==
  /\ s \in admitted
  /\ Mutate
  /\ Dismiss({s})
  /\ owed' = IF s = "stats" THEN FALSE ELSE owed
  /\ UNCHANGED <<mainVars, stop, sampleVars, phase, ppc, polled, seenPhase, complete,
                 errors, vendorVars>>

Deliver(s) == BeginDelivery(s) \/ EndDelivery(s)
-----------------------------------------------------------------------------
Next ==
  \/ Main
  \/ PollerWork
  \/ ReadSnapshot
  \/ \E s \in Streams : Deliver(s)

Spec == Init /\ [][Next]_vars

\* Threads are scheduled, deadlines pass, the caller's callbacks return, and
\* a packet that a callback waits for is delivered; nothing is assumed of a
\* vendor read.
Fairness ==
  /\ WF_vars(Main)
  /\ WF_vars(GiveUpReady)
  /\ WF_vars(PollerWork)
  /\ WF_vars(owed /\ BeginDelivery("stats"))
  /\ \A s \in Streams : WF_vars(EndDelivery(s))

FairSpec == Spec /\ Fairness

\* Reads return, by their own timeout if nothing else, and main obtains the request lock
\* in the end: the poller leaves it free for a cadence wait after every read.
ReadsReturn == WF_vars(ReadSnapshot) /\ SF_vars(ReportNotReady)
-----------------------------------------------------------------------------
\* Past the drain of resources.stop, for a capture that got as far as streams.
PastDrain == stopped /\ mpc # "drain"

MainTypes ==
  /\ mpc \in MainPCs /\ step \in 0 .. LastCall + 1
  /\ inflight \in Failures \cup {"none"} /\ outcome \in Outcomes
  /\ consecutive \in 0 .. 3 /\ held \in BOOLEAN /\ stop \in BOOLEAN
  /\ consecutive = 3 => mpc \notin {"open", "mode", "setup", "start", "reset", "ready"}
  /\ latest \in Samples \cup {"none"} /\ fresh \in BOOLEAN
  /\ phase \in Phases

PollerTypes ==
  /\ ppc \in PollerPCs /\ polled \in Samples \cup {"none"} /\ seenPhase \in Phases
  /\ owed \in BOOLEAN /\ complete \in BOOLEAN
  /\ evidence \in {0, 1} /\ errors \in BOOLEAN

VendorTypes ==
  /\ attempted \subseteq Controls /\ foreign \subseteq Controls
  /\ device \subseteq Controls /\ dirty \in BOOLEAN

FenceTypes ==
  /\ stopped \in BOOLEAN /\ admitted \subseteq Contexts
  /\ count \in 0 .. Cardinality(Contexts)

\* The state keeps its shape; in particular the count of processing() never goes
\* below zero, and never above what the threads that exist can hold.
TypeOK == MainTypes /\ PollerTypes /\ VendorTypes /\ FenceTypes

\* Why the fence works.  The count is the number of admitted contexts, and a
\* context is admitted exactly while its thread is inside the block; the flags of
\* shutdown follow the main thread; whoever is admitted at the drain has left.
CountIsAdmitted ==
  /\ count = Cardinality(admitted)
  /\ "poll" \in admitted <=> ppc \in PollPCs
  /\ "phase" \in admitted <=> ppc \in PhasePCs

ShutdownFollowsMain ==
  /\ stopped => stop
  /\ stopped => mpc \in {"drain", "join", "release", "decide", "close", "done"}
  /\ mpc = "fence" => stop
  /\ mpc \in {"drain", "join", "release", "decide"} => stopped
  /\ mpc \in {"open", "mode", "setup", "start"} => ppc = "absent"
  /\ PastDrain => admitted = {}

IInv == TypeOK /\ CountIsAdmitted /\ ShutdownFollowsMain

\* Once shutdown has drained, nobody is inside processing(): no callback of the
\* caller and no append is in flight when the vendor teardown begins, although
\* the poller may still be blocked in a read and streams may still deliver.
NobodyInsideAfterDrain ==
  PastDrain => admitted = {} /\ count = 0 /\ ppc \notin InsidePCs

\* The evidence and the recorded callback errors that the result is computed
\* from are frozen from the drain on, whatever reads and deliveries come late
\* (this is the fence's promise), and shutdown passes through its stages once.
Fence == INSTANCE CaptureFence WITH
  Workers <- Contexts,
  admission <- IF ~stopped THEN "open" ELSE IF mpc = "drain" THEN "closing" ELSE "drained",
  working <- admitted,
  evidence <- <<evidence, errors>>

\* A capture implements the fence: the evidence changes only inside processing(), and never once
\* stop() has drained it.
FenceSpec == Fence!Spec

\* Error precedence at the end: a start-hook failure surfaces whatever else
\* failed; a set-up failure surfaces over everything the streams did; a
\* result, good or degraded, means that no callback of the caller raised.
ErrorPrecedence ==
  mpc = "done" =>
    /\ inflight = "hook" => outcome = "hookError"
    /\ inflight = "setup" => outcome = "setupFailed"
    /\ outcome \in {"captured", "noResult"} => ~errors
    /\ outcome = "callbackError" => errors

\* At the end the device reference is given back, and unless a release call
\* itself raised, nothing this capture switched on is still on: not even what a
\* set-up call switched on before it raised.
NothingLeftRunning ==
  mpc = "done" => ~held /\ (~dirty => device \subseteq foreign)

\* A control somebody else had enabled, and that this capture never got to
\* enable itself, is still enabled at the end: teardown owns only attempts.
ForeignControlsUntouched ==
  mpc = "done" => foreign \ attempted \subseteq device

\* The instrument is left as it was found: nothing of this capture stays switched on, nothing
\* of anybody else is switched off (resources.stop).
LeavesInstrument == NothingLeftRunning /\ ForeignControlsUntouched

\* Why the teardown is exact: what is on is somebody else's or an attempt of this capture, every
\* control and subscription has a release call of its own, and they are made in order.
OwnsAttempts ==
  /\ device \subseteq foreign \cup attempted
  /\ foreign \ attempted \subseteq device
  /\ mpc \in {"open", "mode"} => attempted = {}
ReleasedSoFar ==
  /\ mpc = "release" /\ ~dirty =>
       \A i \in 1 .. step - 1 : ReleaseCall(i) \notin device \cap attempted
  /\ mpc \in {"decide", "close", "done"} /\ ~dirty => device \cap attempted = {}
GivesBack == mpc \in {"open", "done"} => ~held

\* Why the precedence holds: the outcome is decided past the drain, where nobody is left who
\* could record another callback error.
OutcomeIsRanked ==
  /\ mpc \in {"open", "mode"} => inflight = "none"
  /\ mpc \in {"close", "done"} =>
       /\ inflight = "hook" => outcome = "hookError"
       /\ inflight = "setup" => outcome = "setupFailed"
       /\ outcome \in {"captured", "noResult", "callbackError"} => stopped
       /\ outcome \in {"captured", "noResult"} => ~errors
       /\ outcome = "callbackError" => errors

TeardownIInv == IInv /\ OwnsAttempts /\ ReleasedSoFar /\ GivesBack /\ OutcomeIsRanked

\* Shutdown ends, even if the poller's vendor read never returns, a release
\* call raises, or a callback of the caller waits for another thread's delivery.
ShutdownEnds == (mpc = "stop") ~> (mpc = "done")

\* With reads that return, every capture ends and its poller with it.
CaptureEnds == ReadsReturn => <>(mpc = "done" /\ ppc \in {"absent", "exited"})
\* The teardown ends whatever the vendor does, the capture whenever its reads return.
BothEnd == ShutdownEnds /\ CaptureEnds
=============================================================================
