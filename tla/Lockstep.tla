------------------------------ MODULE Lockstep ------------------------------
(***************************************************************************)
(* The three-wire handshake of a gated capture, with the target at the     *)
(* other end.  GATE and STATE run from the target to the instrument, GO    *)
(* from the instrument to the target.                                      *)
(*                                                                         *)
(* The HOST (capture_power and its start hook) holds GO low, relaunches    *)
(* the target, waits for READY, switches the capture phase, raises GO and  *)
(* waits for the window.  Its POLLER samples the inputs, feeds the READY   *)
(* wait, and drops GO when it sees GATE rise.  The FIRMWARE boots with its *)
(* pins undefined, says READY, waits a bounded time for GO and then opens  *)
(* the window with or without it.                                          *)
(*                                                                         *)
(* Time is discrete: a tick is half a second and ages every timer.  What   *)
(* takes milliseconds in the code is done within a tick, in any order.     *)
(***************************************************************************)
EXTENDS Integers

CONSTANTS
  Boot,        \* a boot lasts 1 .. Boot ticks; the pins are undefined meanwhile
  Warm,        \* engine set-up and warm-up take so many ticks
  ResetTail,   \* the reset call returns at most so many ticks after its effect
  Grace,       \* _LOCKSTEP_RESET_GRACE_S
  ReadyWait,   \* bound of the READY wait
  Slack,       \* READY to GO takes the host at most so many ticks
  GateWait,    \* bound of the wait for the window
  GoWait,      \* the firmware's bounded wait for GO
  Window,      \* length of the measured window
  PlanFloor,   \* the poller takes a pulse at least so long for the window
  Polls,       \* bound: snapshots per tick
  Runs,        \* bound: captures one after another
  Faults       \* bound: GPO writes and resets that raise

ASSUME LockstepAssumption ==
  /\ {Boot, Window, PlanFloor, Polls} \subseteq Nat \ {0}
  /\ {Warm, ResetTail, Grace, ReadyWait, Slack, GateWait, GoWait, Runs, Faults} \subseteq Nat

VARIABLES
  hpc, hleft,     \* the host's main thread, and what is left of its present wait
  streak,         \* READY samples in a row, as _wait_gpi_state counts them
  phase,          \* capture_phase
  fpc, fleft,     \* the firmware, and what is left of its present delay
  latched,        \* hpx_sync_wait_go returned true
  go, gate, state,\* the wires
  sample,         \* a snapshot the poller has read and not observed: <<>> or <<record>>
  fresh, latest,  \* the READY wait's unread sample
  prev, age,      \* the last observed level; ticks since the pulse's first high
  pulse,          \* whether the window was sampled in that pulse: "window" | "stray"
  duty,           \* on_gate_rise is to be called
  stopped,        \* the stop event
  polls,          \* snapshots in this tick
  taken,          \* the pulse that ended the capture early: "none" | "window" | "stray"
  signalled,      \* GO was raised since the last relaunch
  run, faults

host == <<hpc, hleft, streak, phase>>
firmware == <<fpc, fleft, latched>>
wires == <<go, gate, state>>
poller == <<sample, fresh, latest, prev, age, pulse, duty, stopped, polls, taken>>
book == <<signalled, run, faults>>
lockstepVars == <<host, firmware, wires, poller, book>>

NoPulse == -1
Needed == 3      \* consecutive READY samples
Polling == {"reset", "resetting", "grace", "ready", "phase", "signal", "gate"}

LockstepInit ==
  /\ hpc = "idle" /\ hleft = 0 /\ streak = 0 /\ phase = "arming"
  /\ fpc = "off" /\ fleft = 0 /\ latched = FALSE
  /\ go = FALSE /\ gate = FALSE /\ state = FALSE
  /\ sample = <<>> /\ fresh = FALSE /\ latest = FALSE /\ prev = FALSE /\ age = NoPulse
  /\ pulse = "stray" /\ duty = FALSE /\ stopped = FALSE /\ polls = 0 /\ taken = "none"
  /\ signalled = FALSE /\ run = 0 /\ faults = 0

Fault == faults < Faults /\ faults' = faults + 1
-----------------------------------------------------------------------------
\* Mutant: the capture starts with GO as the last one left it.
Arm_LeavesGo ==
  /\ hpc = "idle" /\ run < Runs /\ run' = run + 1
  /\ hpc' = "reset" /\ phase' = "arming" /\ streak' = 0
  /\ sample' = <<>> /\ fresh' = FALSE /\ prev' = FALSE /\ age' = NoPulse
  /\ stopped' = FALSE /\ polls' = 0 /\ taken' = "none"
  /\ UNCHANGED <<hleft, firmware, wires, latest, pulse, duty, signalled, faults>>

\* sync.arm() and the start of the capture; an arm that raises goes to the finally.
Arm ==
  /\ hpc = "idle" /\ run < Runs /\ run' = run + 1
  /\ \/ hpc' = "reset" /\ go' = FALSE /\ UNCHANGED faults
     \/ Fault /\ hpc' = "release" /\ UNCHANGED go
  /\ phase' = "arming" /\ streak' = 0
  /\ sample' = <<>> /\ fresh' = FALSE /\ prev' = FALSE /\ age' = NoPulse
  /\ stopped' = FALSE /\ polls' = 0 /\ taken' = "none"
  /\ UNCHANGED <<hleft, firmware, gate, state, latest, pulse, duty, signalled>>

\* Mutant: the grace after a reset is skipped.
ResetReturns_NoGrace ==
  /\ hpc = "resetting" /\ hleft = 0
  /\ hpc' = "grace" /\ hleft' = 0
  /\ UNCHANGED <<streak, phase, firmware, wires, poller, book>>

\* The reset takes effect, or the reset call raises before it does.
Relaunch ==
  /\ hpc = "reset"
  /\ \/ /\ hpc' = "resetting" /\ hleft' \in 0 .. ResetTail
        /\ fpc' = "boot" /\ fleft' \in 1 .. Boot /\ latched' = FALSE
        /\ signalled' = FALSE /\ UNCHANGED faults
     \/ Fault /\ hpc' = "release" /\ UNCHANGED <<hleft, firmware, signalled>>
  /\ UNCHANGED <<streak, phase, wires, poller, run>>

ResetReturns ==
  /\ hpc = "resetting" /\ hleft = 0
  /\ hpc' = "grace" /\ hleft' = Grace
  /\ UNCHANGED <<streak, phase, firmware, wires, poller, book>>

\* The READY wait looks at samples published after it began.
GraceEnds ==
  /\ hpc = "grace" /\ hleft = 0
  /\ hpc' = "ready" /\ hleft' = ReadyWait /\ streak' = 0
  /\ fresh' = FALSE
  /\ UNCHANGED <<phase, firmware, wires, sample, latest, prev, age, pulse, duty, stopped,
                 polls, taken, signalled, run, faults>>

\* Mutant: the count is compared one too late.
TakeSample_OffByOne ==
  /\ hpc = "ready" /\ fresh /\ fresh' = FALSE
  /\ streak' = IF latest THEN streak + 1 ELSE 0
  /\ IF streak' > Needed THEN hpc' = "phase" /\ hleft' = Slack ELSE UNCHANGED <<hpc, hleft>>
  /\ UNCHANGED <<phase, firmware, wires, sample, latest, prev, age, pulse, duty, stopped,
                 polls, taken, book>>

\* _wait_gpi_state wakes up with the latest sample; those it slept through are gone.
TakeSample ==
  /\ hpc = "ready" /\ fresh /\ fresh' = FALSE
  /\ streak' = IF latest THEN streak + 1 ELSE 0
  /\ IF streak' = Needed THEN hpc' = "phase" /\ hleft' = Slack ELSE UNCHANGED <<hpc, hleft>>
  /\ UNCHANGED <<phase, firmware, wires, sample, latest, prev, age, pulse, duty, stopped,
                 polls, taken, book>>

\* Mutant: the READY wait ends only when the capture is stopped.
NotReady_Forever ==
  /\ hpc = "ready" /\ stopped
  /\ hpc' = "release"
  /\ UNCHANGED <<hleft, streak, phase, firmware, wires, poller, book>>

\* The hook raises: the target did not signal READY.
NotReady ==
  /\ hpc = "ready" /\ hleft = 0
  /\ hpc' = "release"
  /\ UNCHANGED <<hleft, streak, phase, firmware, wires, poller, book>>

\* The phase changes before GO, so that a prompt edge is not discarded.
SwitchPhase ==
  /\ hpc = "phase"
  /\ phase' = "go_signaled" /\ hpc' = "signal"
  /\ UNCHANGED <<hleft, streak, firmware, wires, poller, book>>

SignalGo ==
  /\ hpc = "signal"
  /\ \/ hpc' = "gate" /\ hleft' = GateWait /\ go' = TRUE /\ UNCHANGED faults
     \/ Fault /\ hpc' = "release" /\ UNCHANGED hleft /\ go' \in {go, TRUE}
  /\ signalled' = TRUE
  /\ UNCHANGED <<streak, phase, firmware, gate, state, poller, run>>

\* stop.wait(duration): the poller asked to stop, or the bound is reached.
WindowWaited ==
  /\ hpc = "gate" /\ (stopped \/ hleft = 0)
  /\ hpc' = "release"
  /\ UNCHANGED <<hleft, streak, phase, firmware, wires, poller, book>>

\* The teardown waits for a callback under way; sync.release() swallows a failed write.
Release ==
  /\ hpc = "release" /\ ~duty
  /\ \/ go' = FALSE /\ UNCHANGED faults
     \/ Fault /\ UNCHANGED go
  /\ hpc' = "idle" /\ sample' = <<>>
  /\ UNCHANGED <<hleft, streak, phase, firmware, gate, state, fresh, latest, prev, age, pulse,
                 duty, stopped, polls, taken, signalled, run>>

Host == Arm \/ Relaunch \/ ResetReturns \/ GraceEnds \/ TakeSample \/ NotReady
        \/ SwitchPhase \/ SignalGo \/ WindowWaited \/ Release
-----------------------------------------------------------------------------
\* One snapshot.  While the target boots its pins read as anything, and GO high may couple
\* into the gate line until the window drives it.
Read ==
  /\ hpc \in Polling /\ ~stopped /\ sample = <<>> /\ ~duty /\ polls < Polls
  /\ polls' = polls + 1
  /\ \E g, s \in BOOLEAN :
       /\ fpc # "boot" => s = state
       /\ fpc # "boot" /\ ~(fpc = "setup" /\ go) => g = gate
       /\ sample' = <<[gate |-> g, state |-> s,
                       of |-> IF fpc = "window" THEN "window" ELSE "stray"]>>
  /\ UNCHANGED <<host, firmware, wires, fresh, latest, prev, age, pulse, duty, stopped, taken, book>>

Rise(s) == s.gate /\ ~prev /\ age = NoPulse
Fall(s) == ~s.gate /\ prev /\ age # NoPulse

\* Mutant: nothing is done on a rise.
BeginPulse_KeepsGo(s) ==
  Rise(s) /\ age' = 0 /\ pulse' = s.of /\ UNCHANGED <<duty, stopped, taken>>

\* observe() on a rise: the pulse begins and GO is to be dropped.
BeginPulse(s) ==
  Rise(s) /\ age' = 0 /\ pulse' = s.of /\ duty' = TRUE /\ UNCHANGED <<stopped, taken>>

\* Mutant: every pulse is taken for the window.
EndPulse_AnyLength(s) ==
  Fall(s) /\ taken' = pulse /\ stopped' = TRUE /\ UNCHANGED <<age, pulse, duty>>

\* ... on a fall: a long pulse is the window and ends the capture, a short one is forgotten.
EndPulse(s) ==
  /\ Fall(s)
  /\ IF age >= PlanFloor
       THEN taken' = pulse /\ stopped' = TRUE /\ UNCHANGED age
       ELSE age' = NoPulse /\ UNCHANGED <<taken, stopped>>
  /\ UNCHANGED <<pulse, duty>>

\* The sample is published to the READY wait, then classified under the phase of now:
\* before GO the levels are no edges.
Observe ==
  /\ sample # <<>> /\ sample' = <<>>
  /\ LET s == sample[1] IN
       /\ fresh' = TRUE /\ latest' = s.state /\ prev' = s.gate
       /\ \/ phase = "arming" /\ age' = NoPulse /\ UNCHANGED <<pulse, duty, stopped, taken>>
          \/ phase = "go_signaled" /\ (BeginPulse(s) \/ EndPulse(s))
          \/ /\ phase = "go_signaled" /\ ~Rise(s) /\ ~Fall(s)
             /\ pulse' = IF s.gate /\ s.of = "window" THEN "window" ELSE pulse
             /\ UNCHANGED <<age, duty, stopped, taken>>
  /\ UNCHANGED <<host, firmware, wires, polls, signalled, run, faults>>

\* on_gate_rise = release_go; an exception of it ends the capture.
DropGo ==
  /\ duty /\ duty' = FALSE
  /\ \/ go' = FALSE /\ UNCHANGED <<stopped, faults>>
     \/ Fault /\ stopped' = TRUE /\ UNCHANGED go
  /\ UNCHANGED <<host, firmware, gate, state, sample, fresh, latest, prev, age, pulse, polls,
                 taken, signalled, run>>

Poller == Read \/ Observe \/ DropGo
-----------------------------------------------------------------------------
\* hpx_sync_init drives the outputs low.
PinsReady ==
  /\ fpc = "boot" /\ fleft = 0
  /\ fpc' = "warm" /\ fleft' = Warm /\ gate' = FALSE /\ state' = FALSE
  /\ UNCHANGED <<host, latched, go, poller, book>>

\* hpx_power_terminal_fail: both lines low, then parked.
FirmwareFails ==
  /\ fpc \in {"warm", "setup"}
  /\ fpc' = "parked" /\ fleft' = 0 /\ gate' = FALSE /\ state' = FALSE
  /\ UNCHANGED <<host, latched, go, poller, book>>

SayReady ==
  /\ fpc = "warm" /\ fleft = 0
  /\ fpc' = "waitgo" /\ fleft' = GoWait /\ state' = TRUE
  /\ UNCHANGED <<host, latched, go, gate, poller, book>>

\* Mutant: the firmware gives up on GO at once.
GoWaited_Impatient ==
  /\ fpc = "waitgo"
  /\ latched' = go /\ state' = FALSE
  /\ fpc' = "setup" /\ fleft' \in 0 .. 1
  /\ UNCHANGED <<host, go, gate, poller, book>>

\* Mutant: the firmware waits for GO without a bound.
GoWaited_Forever ==
  /\ fpc = "waitgo" /\ go
  /\ latched' = go /\ state' = FALSE
  /\ fpc' = "setup" /\ fleft' \in 0 .. 1
  /\ UNCHANGED <<host, go, gate, poller, book>>

\* The wait for GO ends with GO high or after its bound; READY is withdrawn either way.
GoWaited ==
  /\ fpc = "waitgo" /\ (go \/ fleft = 0)
  /\ latched' = go /\ state' = FALSE
  /\ fpc' = "setup" /\ fleft' \in 0 .. 1
  /\ UNCHANGED <<host, go, gate, poller, book>>

OpenWindow ==
  /\ fpc = "setup" /\ fleft = 0
  /\ fpc' = "window" /\ fleft' = Window /\ gate' = TRUE
  /\ UNCHANGED <<host, latched, go, state, poller, book>>

CloseWindow ==
  /\ fpc = "window" /\ fleft = 0
  /\ fpc' = "parked" /\ gate' = FALSE
  /\ UNCHANGED <<host, fleft, latched, go, state, poller, book>>

Firmware == PinsReady \/ FirmwareFails \/ SayReady \/ GoWaited \/ OpenWindow \/ CloseWindow
-----------------------------------------------------------------------------
\* A tick passes when nobody is overdue: timers at zero have been acted on, the snapshots
\* of the tick are observed, the READY wait has looked, GO has been noticed.
HostWaits ==
  \/ hpc = "idle"
  \/ hpc \in {"resetting", "grace", "phase", "signal"} /\ hleft > 0
  \/ hpc = "ready" /\ hleft > 0 /\ ~fresh
  \/ hpc = "gate" /\ hleft > 0 /\ ~stopped
PollerWaits == hpc = "idle" \/ (polls = Polls /\ sample = <<>> /\ ~duty)
FirmwareWaits == fpc \in {"off", "parked"} \/ (fleft > 0 /\ ~(fpc = "waitgo" /\ go))
Pass(left) == IF left > 0 THEN left - 1 ELSE left

Tick ==
  /\ HostWaits /\ PollerWaits /\ FirmwareWaits
  /\ ~(hpc = "idle" /\ fpc \in {"off", "parked"})
  /\ hleft' = Pass(hleft) /\ fleft' = Pass(fleft) /\ polls' = 0
  /\ age' = IF age = NoPulse \/ age = PlanFloor THEN age ELSE age + 1
  /\ UNCHANGED <<hpc, streak, phase, fpc, latched, wires, sample, fresh, latest, prev, pulse,
                 duty, stopped, taken, book>>

LockstepNext == Host \/ Poller \/ Firmware \/ Tick

LockstepSpec == LockstepInit /\ [][LockstepNext]_lockstepVars

\* The threads run, the firmware runs and time passes.  Nothing makes the firmware fail.
FirmwareRuns == PinsReady \/ SayReady \/ GoWaited \/ OpenWindow \/ CloseWindow
FairSpec ==
  /\ LockstepSpec
  /\ WF_lockstepVars(Host) /\ WF_lockstepVars(Poller) /\ WF_lockstepVars(Tick)
  /\ WF_lockstepVars(FirmwareRuns)
-----------------------------------------------------------------------------
\* No wait is longer than its bound, and the poller takes no more than its snapshots of a tick.
Ranges ==
  /\ hpc \in Polling \cup {"idle", "release"}
  /\ hleft \in 0 .. ResetTail + Grace + ReadyWait + Slack + GateWait
  /\ streak \in 0 .. Needed /\ phase \in {"arming", "go_signaled"}
  /\ fpc \in {"off", "boot", "warm", "waitgo", "setup", "window", "parked"}
  /\ fleft \in 0 .. Boot + Warm + GoWait + Window + 1
  /\ age \in NoPulse .. PlanFloor /\ pulse \in {"window", "stray"}
  /\ sample # <<>> => sample[1].of \in {"window", "stray"}
  /\ taken \in {"none", "window", "stray"} /\ polls \in 0 .. Polls
  /\ run \in 0 .. Runs /\ faults \in 0 .. Faults

\* A wire, a flag, a sampled level is high or low.
Levels ==
  /\ {latched, go, gate, state, fresh, latest, prev, duty, stopped, signalled} \subseteq BOOLEAN
  /\ sample # <<>> => sample[1].gate \in BOOLEAN /\ sample[1].state \in BOOLEAN

\* Shape of the state (capture_power, _main_base.cc.j2).
LockstepTypeOK == Ranges /\ Levels

\* GO is not held through the measured window: once the poller has had a full tick of the
\* window to see it, GO is low (release_go's docstring: "Holding the GPO high through the
\* window backfeeds the EVB around the shunt").
GoLowInWindow ==
  fpc = "window" /\ fleft < Window - 1 /\ hpc \in Polling /\ ~stopped => ~go

\* A pulse that ends a capture early has the firmware's window in it: it is never only a
\* level the pins had while the target booted, nor GO coupling into the gate line.
TakenIsTheWindow == taken # "stray"

\* A GO the firmware acts on was raised for this launch of it, not left by an earlier capture.
GoIsForThisLaunch == latched => signalled

\* Lock-step: no window opens without GO while the host waits for it.
WindowOnGo == fpc = "window" /\ hpc = "gate" => latched

\* GO stays low until the target has said READY, so that it cannot couple into the gate
\* line while the target boots and sets its engine up: neither the undefined pins of a boot
\* nor a GO left high by an earlier capture get the host past its READY wait.
GoAfterReady == go /\ hpc \in Polling => fpc \notin {"boot", "warm"}

\* A capture ends whatever the target does, and the firmware ends whatever the host does.
BothEnd ==
  /\ (hpc # "idle") ~> (hpc = "idle")
  /\ (fpc # "off") ~> (fpc = "parked")

\* GO is high for the launch it was raised for only, after READY and not through the window.
GoIsSound == LockstepTypeOK /\ GoLowInWindow /\ GoAfterReady /\ GoIsForThisLaunch

\* The window that is measured is the firmware's, opened on GO.
WindowIsSound == WindowOnGo /\ TakenIsTheWindow
-----------------------------------------------------------------------------
(* Why: the invariant the proofs rest on, and the times it takes. *)

\* From the relaunch to GO.
Coming == {"resetting", "grace", "ready", "phase", "signal"}

\* How long the firmware may have waited for GO when the READY wait begins.
Lead == ResetTail + Grace - Warm - 1

\* What the constants of the two sides must satisfy: the target has booted within the grace, GO
\* comes while the firmware waits for it, and no glitch is as long as a window the plan accepts.
InTime ==
  /\ Boot < Grace
  /\ Needed + Slack < GoWait /\ Needed + Slack + Lead < GoWait
  /\ 2 < PlanFloor

Timers ==
  /\ hpc = "resetting" => hleft <= ResetTail
  /\ hpc = "grace" => hleft <= Grace
  /\ hpc = "ready" => hleft <= ReadyWait /\ streak < Needed
  /\ hpc \in {"phase", "signal"} => hleft <= Slack
  /\ hpc = "gate" => hleft <= GateWait
  /\ fpc = "boot" => fleft <= Boot
  /\ fpc = "warm" => fleft <= Warm
  /\ fpc = "waitgo" => fleft <= GoWait
  /\ fpc = "setup" => fleft <= 1
  /\ fpc = "window" => fleft <= Window

\* The wires, once the firmware drives them.
PinsDriven ==
  /\ fpc = "waitgo" => state
  /\ fpc \in {"warm", "setup", "window", "parked"} => ~state
  /\ fpc = "window" => gate
  /\ fpc \in {"warm", "waitgo", "setup", "parked"} => ~gate

\* Where the two sides are relative to each other.
Stages ==
  /\ hpc \in Polling \ {"gate"} => ~go /\ age = NoPulse /\ ~duty
  /\ hpc \in Polling \ {"signal", "gate"} => phase = "arming"
  /\ hpc \in {"signal", "gate"} => phase = "go_signaled"
  /\ hpc = "idle" => ~duty /\ sample = <<>>
  /\ duty => sample = <<>>
  /\ go \/ latched => signalled
  /\ hpc \in Coming => fpc \in {"boot", "warm", "waitgo", "parked"}
  /\ hpc = "ready" => fpc # "boot"
  /\ hpc \in {"phase", "signal", "gate"} => fpc \notin {"off", "boot", "warm"}
  /\ hpc = "release" /\ phase = "go_signaled" => fpc \notin {"off", "boot", "warm"}
  /\ hpc = "gate" /\ fpc = "waitgo" => go
  /\ hpc = "gate" /\ fpc \in {"setup", "window"} => latched

\* The race of the two clocks since the relaunch: what is left of the boot and of the grace, and
\* how long the firmware has been waiting for GO when the host begins to look.
Race ==
  /\ hpc = "resetting" /\ fpc = "boot" => hleft + Grace - Warm - fleft <= Lead
  /\ hpc = "resetting" /\ fpc = "warm" => hleft + Grace - fleft <= Lead
  /\ hpc = "resetting" /\ fpc = "waitgo" => hleft + Grace + GoWait - fleft <= Lead
  /\ hpc = "grace" /\ fpc = "boot" => hleft - Warm - fleft <= Lead /\ Grace - Boot + fleft <= hleft
  /\ hpc = "grace" /\ fpc = "warm" => hleft - fleft <= Lead
  /\ hpc = "grace" /\ fpc = "waitgo" => hleft + GoWait - fleft <= Lead
  /\ hpc = "ready" /\ fpc = "warm" => hleft - ReadyWait - fleft <= Lead
  /\ hpc = "ready" /\ fpc = "waitgo" => hleft - ReadyWait + GoWait - fleft <= Lead

\* With READY up, each tick of the READY wait brings a sample of it at least: the wait is over,
\* and GO raised, before the firmware's patience is.
GoInTime ==
  /\ fpc = "waitgo" /\ fleft < GoWait /\ hpc \in Polling /\ sample # <<>> => sample[1].state
  /\ hpc = "ready" /\ fpc = "waitgo" /\ fleft < GoWait /\ fresh => latest
  /\ hpc = "ready" /\ fpc = "waitgo" =>
       /\ GoWait - fleft <= streak + 1 \/ ReadyWait - hleft <= streak + 1
       /\ polls > 0 /\ sample = <<>> /\ ~fresh =>
            GoWait - fleft <= streak \/ ReadyWait - hleft <= streak
  /\ hpc \in {"phase", "signal"} /\ fpc = "waitgo" =>
       \/ GoWait - fleft <= Needed + Slack - hleft
       \/ GoWait - fleft <= Needed + Slack + Lead - hleft

\* What was sampled while the pins were undefined is gone when the READY wait begins; from then
\* on READY means READY, and the gate is low until the firmware has GO.
SamplesAreReal ==
  /\ hpc = "grace" /\ sample # <<>> =>
       /\ sample[1].gate => hleft > 0
       /\ sample[1].state /\ fpc \in {"boot", "warm"} => hleft > 0
  /\ hpc = "ready" /\ fpc = "warm" =>
       /\ sample # <<>> => ~sample[1].state
       /\ fresh => ~latest
       /\ streak = 0
  /\ hpc = "ready" /\ (fresh \/ streak > 0) => ~prev
  /\ hpc \in {"phase", "signal"} => ~prev
  /\ hpc \in {"ready", "phase", "signal"} /\ sample # <<>> => ~sample[1].gate
  /\ hpc \in {"gate", "release"} /\ phase = "go_signaled" /\ fpc = "waitgo" =>
       ~duty /\ (sample # <<>> => ~sample[1].gate)

\* The rise of the window is noticed in its first full tick, and GO dropped.
RiseIsNoticed ==
  /\ hpc = "gate" /\ go /\ ~duty /\ ~stopped => ~prev /\ age = NoPulse
  /\ hpc \in Polling /\ fpc = "window" /\ fleft < Window /\ sample # <<>> => sample[1].gate
  /\ hpc = "gate" /\ fpc = "window" /\ fleft < Window /\ go /\ ~stopped /\ polls > 0 /\ sample = <<>> => duty

\* A glitch while the engine is set up is over, or has become the window, two ticks later.
StrayIsShort ==
  /\ taken # "stray"
  /\ hpc \in {"gate", "release"} /\ age # NoPulse /\ pulse = "stray" =>
       /\ age <= 2 /\ prev
       /\ fpc \in {"setup", "window", "parked"}
       /\ fpc = "setup" => age + fleft <= 1
       /\ age = 2 => /\ fpc # "setup"
                     /\ polls > 0 => sample # <<>>
                     /\ sample # <<>> => ~sample[1].gate \/ sample[1].of = "window"

LockstepIInv ==
  /\ LockstepTypeOK /\ GoLowInWindow
  /\ Timers /\ PinsDriven /\ Stages /\ Race /\ GoInTime /\ SamplesAreReal /\ RiseIsNoticed /\ StrayIsShort
=============================================================================
