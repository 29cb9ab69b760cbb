-------------------------------- MODULE Verdict --------------------------------
(***************************************************************************)
(* The verdict on a power run: a plan sized from the profile's timing, the *)
(* wait for the window, what the instrument and the firmware report of it, *)
(* the stage that may refuse the report, the evaluation, and the figures   *)
(* that are published.                                                     *)
(*                                                                         *)
(* The firmware that runs is chosen first (`run`): how long an inference   *)
(* takes, how many of the profile's Sampled iterations its clock lost, how *)
(* far the core clock of the power boot is off, and what goes wrong.  The  *)
(* code sees only the reports.  Times are in microseconds, 0 a missing     *)
(* number.                                                                 *)
(***************************************************************************)
EXTENDS Integers, FiniteSetsExt

CONSTANTS
  Units,      \* bound: the true times of one inference
  Losses,     \* bound: iterations of the profile that read zero
  Drifts,     \* bound: percent the power boot is slower than the profile boot
  Rates       \* bound: statistics packets per second

\* How far apart two statistics packets are, twice.
PacketsAt(rate) == 2000000 \div rate

\* An iteration lost is a tenth of the reported time, so a time is a multiple of ten here; from ten
\* on, the most inferences of a window fill its target.  A boot is three tenths slower or faster at
\* most, and two packets are a tenth of a second apart at most.
ASSUME VerdictAssumption ==
  /\ \A unit \in Units : \E tenth \in 1 .. unit : unit = 10 * tenth
  /\ Losses \subseteq 0 .. 10 /\ Drifts \subseteq -30 .. 30
  /\ \A rate \in Rates : rate \in Nat \ {0} /\ PacketsAt(rate) \in Nat /\ PacketsAt(rate) <= 100000

Sampled == 10
Target == 5000000     \* the planned length of a window
WindowMin == 10          \* the fewest inferences of a window, and the most
WindowMax == 500000
MinimumGate == 1000000
BootSettle == 8000000
Headroom == 2000000
WarmupReps == 3
DefaultBound == 30000000

Faults == {"none", "cut", "sliver", "content", "early", "dead", "frozen", "slow", "stuck", "late",
           "lost", "overflow", "recount", "lowless", "silent", "zero", "negative"}

VARIABLES run, doing, plan, gate, terminal, monitor, issues, published

verdictVars == <<run, doing, plan, gate, terminal, monitor, issues, published>>
reports == <<plan, gate, terminal, monitor>>

PowerRuns == [internal : BOOLEAN, dedicated : BOOLEAN, infers : BOOLEAN, lockstep : BOOLEAN,
         unit : Units, loss : Losses, drift : Drifts, rate : Rates, error : {-1, 0, 1},
         fault : Faults, tardy : BOOLEAN]

NoPlan == [count |-> 0, unit |-> 0]
NoGate == [rise |-> FALSE, fall |-> FALSE, length |-> 0]
NoTerminal == [sent |-> FALSE, ok |-> FALSE, requested |-> 0, completed |-> 0, lowered |-> FALSE,
               elapsed |-> 0]
NoMonitor == [read |-> FALSE, energy |-> FALSE, overflow |-> FALSE, count |-> 0]
NoFigures == [energy |-> FALSE, tops |-> FALSE]

\* A monitor without firmware of its own, a spin that lost iterations, and a fault that needs a
\* report nobody makes are not runs.
RunPossible ==
  /\ run \in PowerRuns
  /\ run.internal => run.dedicated /\ ~run.lockstep /\ run.error = 0 /\ ~run.tardy
  /\ ~run.infers => run.loss = 0
  /\ run.fault \in {"early", "dead", "frozen", "slow", "lost", "overflow", "recount", "lowless"}
       => run.dedicated
  /\ run.fault \in {"silent", "zero"} => run.internal
  /\ run.fault \in {"cut", "sliver", "slow", "negative"} => ~run.internal
VerdictInit ==
  /\ RunPossible
  /\ doing = "plan" /\ plan = NoPlan /\ gate = NoGate /\ terminal = NoTerminal
  /\ monitor = NoMonitor /\ issues = {} /\ published = NoFigures
-----------------------------------------------------------------------------
(* The plan. *)

\* What the profile reports of an inference; a lost iteration counts as no time.
ProfiledUnit == (run.unit * (Sampled - run.loss)) \div Sampled

Clamped(count) == Max({WindowMin, Min({WindowMax, count})})
Derived(unit) == IF unit = 0 THEN 0 ELSE Clamped((Target + unit - 1) \div unit)

\* The shared firmware sizes its window itself, from the longest reading of its warm-up: a true
\* one, unless the clock lost them all.
SelfSized == IF run.loss = Sampled THEN WindowMin ELSE Clamped(Target \div run.unit)

Planned ==
  IF ~run.infers THEN [count |-> 1, unit |-> Target]
  ELSE [count |-> IF run.dedicated THEN Derived(ProfiledUnit) ELSE SelfSized,
        unit |-> ProfiledUnit]

\* A dedicated binary cannot be built without a count.
PlanRun ==
  /\ doing = "plan"
  /\ plan' = Planned
  /\ doing' = IF Planned.count = 0 THEN "refused" ELSE IF run.internal THEN "collect" ELSE "capture"
  /\ UNCHANGED <<run, gate, terminal, monitor, issues, published>>

Expected == plan.count * plan.unit
-----------------------------------------------------------------------------
(* What the firmware does. *)

\* The work that is done, and how long it takes on this boot's clock.
WorkDone == IF run.fault = "early" THEN plan.count \div 2 ELSE plan.count
Work == IF ~run.infers THEN Target ELSE WorkDone * run.unit
Window ==
  LET length == (Work * (100 + run.drift)) \div 100
  IN IF run.fault = "content" THEN 2 * length ELSE length

\* Its own clock: frozen, or a tenth slow.
FirmwareWindow ==
  IF run.fault = "frozen" THEN 0 ELSE IF run.fault = "slow" THEN Window - Window \div 10 ELSE Window
-----------------------------------------------------------------------------
(* The wait for the window. *)

\* Mutant: a window is expected to be as long as the plan says.
X_BoundUnit_Planned == plan.unit
\* A profile that lost iterations sized the window from too short a time: at most tenfold.
BoundUnit ==
  IF run.infers /\ plan.unit # 0
  THEN LET kept == Sampled - Min({run.loss, 9})
       IN (plan.unit * Sampled + kept - 1) \div kept
  ELSE plan.unit

Tolerance == IF run.infers THEN 10 ELSE 25    \* percent
Packets == PacketsAt(run.rate)
\* How far a gate may be from count * unit.
Band(count, unit, percent) ==
  Max({IF count > 1 THEN unit \div 2 ELSE 0, Packets, (count * unit * percent) \div 100})
LongestWindow == plan.count * BoundUnit + Band(plan.count, BoundUnit, Max({Tolerance, 15}))

Warmup == WarmupReps * (IF run.infers THEN BoundUnit ELSE run.unit)
BeforeWindow == Headroom + (IF run.lockstep THEN 0 ELSE BootSettle + Warmup)
FallWait ==
  IF BoundUnit = 0 THEN DefaultBound ELSE Max({DefaultBound, LongestWindow + BeforeWindow})

\* Set-up takes what is allowed for it, or no time at all.
RiseTime == IF run.fault = "late" THEN FallWait ELSE IF run.tardy THEN BeforeWindow ELSE 0
Falls == run.fault # "stuck" /\ RiseTime + Window <= FallWait
\* The instrument's edges are off by a packet and two polls at most.
Slack == Packets + 8000

Captured ==
  IF run.fault \in {"dead", "late"} \/ Window = 0 THEN NoGate
  ELSE [rise |-> TRUE, fall |-> Falls,
        length |-> IF ~Falls THEN 0
                   ELSE IF run.fault = "sliver" THEN MinimumGate \div 2
                   ELSE IF run.fault = "cut" THEN Window \div 2
                   ELSE Max({0, Window + run.error * Slack})]
CaptureWindow ==
  /\ doing = "capture"
  /\ gate' = Captured
  /\ doing' = IF run.dedicated THEN "collect" ELSE "judge"
  /\ UNCHANGED <<run, plan, terminal, monitor, issues, published>>
-----------------------------------------------------------------------------
(* The terminal record, and the stage that may refuse it. *)

Record ==
  IF run.fault \in {"lost", "late", "stuck"} THEN NoTerminal
  ELSE [sent |-> TRUE, ok |-> run.fault # "dead",
        requested |-> IF run.fault = "recount" THEN plan.count + 1 ELSE plan.count,
        completed |-> IF run.fault = "dead" THEN 0
                      ELSE IF run.fault = "recount" THEN plan.count + 1 ELSE WorkDone,
        lowered |-> run.fault # "lowless", elapsed |-> FirmwareWindow]
\* The record of the on-target monitor: of record when internal, a bystander otherwise.
Measured ==
  IF ~Record.sent \/ run.fault = "silent" \/ (~run.internal /\ run.fault # "overflow") THEN NoMonitor
  ELSE [read |-> TRUE, energy |-> run.fault # "zero", overflow |-> run.fault = "overflow",
        count |-> Record.completed]

Frozen(t) == t.completed > 0 /\ t.elapsed = 0

TerminalRefused(t) ==
  \/ t.requested # plan.count \/ ~t.ok \/ t.completed # t.requested \/ ~t.lowered
  \/ Frozen(t) /\ run.internal
\* Without energy or charge the number is wrong however well the record reads.
ImplausiblyZero(m) == m.read /\ ~m.energy
MeasurementRefused(m) == run.internal /\ (~m.read \/ m.overflow \/ ImplausiblyZero(m))

Collect ==
  /\ doing = "collect"
  /\ terminal' = Record /\ monitor' = Measured
  /\ doing' = IF ~Record.sent \/ TerminalRefused(Record) \/ MeasurementRefused(Measured)
           THEN "refused" ELSE "judge"
  /\ UNCHANGED <<run, plan, gate, issues, published>>
-----------------------------------------------------------------------------
(* The gate's arbitration. *)

Gated == ~run.internal /\ gate.fall
Sized == Gated /\ Expected > 0
Off == IF gate.length > Expected THEN gate.length - Expected ELSE Expected - gate.length
BelowMinimum == Sized /\ gate.length < MinimumGate
OutOfBand == Sized /\ Off > Band(plan.count, plan.unit, Tolerance)
\* Mutant: every gate out of its band is beyond what drift explains.
X_BeyondDrift_Band == OutOfBand
BeyondDrift == 20 * Off > 3 * Expected    \* fifteen percent

Unhealthy == terminal.sent /\ (~terminal.ok \/ terminal.completed # terminal.requested)
\* Two clocks on one window: they can be compared when both have seen it.
Observed == Gated /\ terminal.sent /\ ~Unhealthy /\ terminal.elapsed > 0 /\ gate.length > 0
Disagrees ==
  LET d == terminal.elapsed - gate.length
      apart == IF d > 0 THEN d ELSE -d
  IN Observed /\ 100 * apart > gate.length /\ apart > Slack

Suppressed ==
  \/ BelowMinimum
  \/ Disagrees
  \/ Unhealthy /\ Sized
  \/ OutOfBand /\ ~Observed
-----------------------------------------------------------------------------
(* The evaluation: a set of issues. *)

Error(code) == [code |-> code, error |-> TRUE]
Warning(code) == [code |-> code, error |-> FALSE]
When(condition, issue) == IF condition THEN {issue} ELSE {}

ProfileIssues ==
  When(run.infers /\ ProfiledUnit = 0, Warning("clean_window_frozen"))
  \cup When(run.loss > 0, Warning("clean_window_stalled"))
ObservationIssues ==
  IF run.internal THEN {}
  ELSE When(~gate.fall, Warning("observation_degraded"))
       \cup When(gate.fall /\ run.fault = "negative", Error("observation_invalid"))
InternalClockOff ==
  LET d == terminal.elapsed - Expected
      apart == IF d > 0 THEN d ELSE -d
  IN Expected > 0 /\ terminal.elapsed > 0 /\ 4 * apart > Expected
TerminalIssues ==
  IF ~terminal.sent THEN When(run.dedicated, Error("terminal_missing"))
  ELSE When(~terminal.ok, Error("terminal_error"))
       \cup When(terminal.completed # terminal.requested, Error("terminal_incomplete"))
       \cup When(~terminal.lowered, Error("gate_not_lowered"))
       \cup When(terminal.requested # plan.count, Error("plan_count_mismatch"))
       \cup When(Frozen(terminal), [code |-> "window_clock_frozen", error |-> run.internal])
       \cup When(run.internal /\ InternalClockOff, Warning("window_clock_mismatch"))
       \cup When(Disagrees, Error("observer_mismatch"))

\* Mutant: a gate both clocks agree on is never questioned.
X_DurationIssues_Agreed ==
  When(BelowMinimum, Error("gate_below_minimum"))
  \cup When(~BelowMinimum /\ OutOfBand /\ ~Observed, Warning("gate_duration_mismatch"))
\* The plan is another boot's timing: agreement of the two clocks excuses what drift explains.
DurationIssues ==
  When(BelowMinimum, Error("gate_below_minimum"))
  \cup When(~BelowMinimum /\ OutOfBand /\ (~Observed \/ (~Disagrees /\ BeyondDrift)),
            Warning("gate_duration_mismatch"))
  \cup When(Gated /\ ~Sized /\ ~Observed, Warning("gate_duration_unverifiable"))
MonitorIssues ==
  When(monitor.read /\ monitor.overflow, [code |-> "overflow", error |-> run.internal])
  \cup When(monitor.read /\ terminal.sent /\ monitor.count # terminal.completed, Error("count_mismatch"))
  \cup When(run.internal /\ ~monitor.read, Error("measurement_missing"))

Issues == ProfileIssues \cup ObservationIssues \cup TerminalIssues \cup DurationIssues \cup MonitorIssues
Validity(found) ==
  IF \E i \in found : i.error THEN "invalid" ELSE IF found # {} THEN "degraded" ELSE "valid"
-----------------------------------------------------------------------------
(* The published figures. *)

\* The inferences of the window; none for a capture that did not bracket them.
WindowCount == IF run.internal THEN monitor.count ELSE IF Gated THEN plan.count ELSE 0

EnergyPublished ==
  /\ run.infers /\ WindowCount > 0 /\ ~Suppressed /\ run.fault # "negative"
  /\ IF run.internal THEN ~\E i \in Issues : i.error ELSE plan.unit > 0
TopsPublished == run.infers /\ WindowCount > 0

JudgeRun ==
  /\ doing = "judge"
  /\ issues' = Issues
  /\ published' = [energy |-> EnergyPublished, tops |-> TopsPublished]
  /\ doing' = "done"
  /\ UNCHANGED <<run, reports>>

VerdictNext == PlanRun \/ CaptureWindow \/ Collect \/ JudgeRun
VerdictSpec == VerdictInit /\ [][VerdictNext]_verdictVars
-----------------------------------------------------------------------------
VerdictTypeOK ==
  /\ run \in PowerRuns /\ doing \in {"plan", "capture", "collect", "judge", "done", "refused"}
  /\ plan.count \in 0..WindowMax /\ gate.length >= 0 /\ terminal.completed <= terminal.requested

\* Every window the verdict may still accept, and every one the profile's lost iterations
\* explain, is waited for to its end, as long as set-up takes no longer than it is allowed.
AcceptedIsAwaited ==
  doing \notin {"plan", "capture", "refused"} /\ ~run.internal /\ plan.unit > 0
    /\ run.fault \notin {"dead", "late", "stuck", "content"} /\ run.drift <= 15 /\ Window > 0
    => gate.fall

Explained(percent) == -percent <= run.drift /\ run.drift <= percent

\* A run in which nothing is wrong is valid and its figure is published, whatever the clock of
\* this boot does within the drift each kind of reference allows for.
HealthyIsValid ==
  doing \in {"done", "refused"} /\ run.fault = "none" /\ run.loss = 0
    /\ Explained(IF run.internal \/ ~run.infers THEN 20 ELSE IF run.dedicated THEN 12 ELSE 7)
    => doing = "done" /\ issues = {} /\ published.energy = run.infers

\* A run whose window was cut, short, mistimed or of something else never counts as valid; a
\* figure is published for none that a second clock or the record's counts could tell; and what
\* the stage refuses would not have evaluated as valid either, except for a reading of zero.
FaultyIsNotValid ==
  /\ doing = "done" /\ run.fault \notin {"none", "overflow"} =>
       /\ Validity(issues) # "valid"
       /\ run.fault \in {"cut", "sliver", "slow"} /\ run.dedicated /\ ~run.internal => ~published.energy
  /\ doing = "refused" /\ plan.count > 0 /\ ~ImplausiblyZero(monitor) => Validity(Issues) # "valid"

\* Per-inference figures that are suppressed are published in no form: TOPS per watt is one.
SuppressedIsNotPublished == doing = "done" /\ Suppressed => ~published.energy /\ ~published.tops

\* The window is waited for, a healthy run is valid, and a faulty one never is.
VerdictIsSound == AcceptedIsAwaited /\ HealthyIsValid /\ FaultyIsNotValid
=============================================================================
