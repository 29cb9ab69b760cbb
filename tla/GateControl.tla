---------------------------- MODULE GateControl ----------------------------
(***************************************************************************)
(* _GatedCaptureState and GatedCompletion: the control plane of a gated    *)
(* capture.  The poller hands it one sample of the wires at a time; it     *)
(* tells a window from a pulse, remembers the evidence the result is later *)
(* reduced from, and decides when the capture may stop early.              *)
(*                                                                         *)
(* Time is counted in ticks.  A sample carries the tick at which it was    *)
(* read; the control plane takes its own time a little later, so the two   *)
(* measures of one pulse differ by up to Lag.  Between two samples at      *)
(* least one tick passes and at most MaxStep.                              *)
(***************************************************************************)
EXTENDS Integers, Sequences, FiniteSets

CONSTANTS
  MinGate,      \* minimum_gate_s: a shorter high is a pulse, not a window
  PlanFloor,    \* plan_floor_s: the shortest window the plan accepts
  Guard,        \* guard_s: how long completion must stand
  Modes,        \* the values of require_done_state
  Lag,          \* how far the control's clock reading trails the sample
  MaxStep,      \* bound: ticks between two samples
  Horizon       \* bound: ticks in a capture

ASSUME GateAssumption ==
  /\ MinGate \in Nat /\ PlanFloor \in Nat /\ MinGate <= PlanFloor /\ 0 < PlanFloor
  /\ Guard \in Nat /\ 0 < Guard
  /\ Modes \subseteq BOOLEAN
  /\ Lag \in Nat /\ MaxStep \in Nat \ {0} /\ Horizon \in Nat

VARIABLES
  requireDone,  \* _require_done_state, given at construction
  now,          \* the control's clock at the latest sample
  go,           \* the phase is "go_signaled"
  prev,         \* _prev_level
  lastTick,     \* sample_tick of the last entry of _poll_reads, or NoTime
  samples,      \* _poll_samples: <<tick, level>> since GO
  highSeen, firstHigh, firstLow,
  short,        \* _short_pulses_ignored
  below,        \* _below_plan_highs
  belowWindow,  \* <<_below_plan_rise_at, _below_plan_fall_at>>
  fallSeen,     \* _saw_any_gate_fall
  acknowledged, gateSeen, pending,   \* GatedCompletion, _completion_pending
  completeAt,   \* _complete_at, or NoTime
  early,        \* _early_stopped: the poller has left its loop
  polls         \* history of the samples handed over, for the properties only

edgeVars == <<highSeen, firstHigh, firstLow, short, below, belowWindow, fallSeen>>
completionVars == <<acknowledged, gateSeen, pending>>
vars == <<requireDone, now, go, prev, lastTick, samples, edgeVars, completionVars, completeAt,
          early, polls>>

NoTime == -1
Levels == {0, 1}
\* The levels READY/DONE is seen at; where it is not wired, one.
States == IF requireDone THEN Levels ELSE {1}

\* Without a phase getter the phase is "go_signaled" from the start.
Init ==
  /\ requireDone \in Modes
  /\ now = 0 /\ go \in BOOLEAN /\ prev = 0 /\ lastTick = NoTime /\ samples = <<>>
  /\ highSeen = FALSE /\ firstHigh = NoTime /\ firstLow = NoTime
  /\ short = 0 /\ below = 0 /\ belowWindow = <<NoTime, NoTime>> /\ fallSeen = FALSE
  /\ acknowledged = FALSE /\ gateSeen = FALSE /\ pending = FALSE
  /\ completeAt = NoTime /\ early = FALSE /\ polls = <<>>
-----------------------------------------------------------------------------
\* GatedCompletion.observe: an acknowledgement counts from GO on, a gate from the
\* acknowledgement on; pending is READY again with the gate back low.
ObserveCompletion(level, state) ==
  /\ acknowledged' = (acknowledged \/ state = 0)
  /\ gateSeen' = (gateSeen \/ (acknowledged' /\ level = 1))
  /\ pending' = (acknowledged' /\ gateSeen' /\ state = 1 /\ level = 0)

\* A pulse is over and is not the window: the next rise is a first rise again.
ForgetHigh == highSeen' = FALSE /\ firstHigh' = NoTime /\ firstLow' = NoTime

\* Mutant: the rise of an ignored pulse is kept.
FallShort_KeepsRise(t) ==
  /\ t - firstHigh < MinGate
  /\ short' = short + 1
  /\ highSeen' = FALSE /\ firstLow' = NoTime
  /\ UNCHANGED <<firstHigh, below, belowWindow>>

FallShort(t) ==
  /\ t - firstHigh < MinGate
  /\ short' = short + 1
  /\ ForgetHigh
  /\ UNCHANGED <<below, belowWindow>>

\* Mutant: the first high below the plan is kept as the fallback, not the last.
FallBelowPlan_KeepsFirst(t) ==
  /\ t - firstHigh >= MinGate /\ t - firstHigh < PlanFloor
  /\ below' = below + 1
  /\ belowWindow' = IF below = 0 THEN <<firstHigh, t>> ELSE belowWindow
  /\ ForgetHigh
  /\ UNCHANGED short

FallBelowPlan(t) ==
  /\ t - firstHigh >= MinGate /\ t - firstHigh < PlanFloor
  /\ below' = below + 1
  /\ belowWindow' = <<firstHigh, IF firstLow = NoTime THEN t ELSE firstLow>>
  /\ ForgetHigh
  /\ UNCHANGED short

FallPlanned(t) ==
  /\ t - firstHigh >= PlanFloor
  /\ firstLow' = IF firstLow = NoTime THEN t ELSE firstLow
  /\ UNCHANGED <<highSeen, firstHigh, short, below, belowWindow>>

\* What one sample after GO does to the edge evidence.
Rise(level) == level = 1 /\ prev = 0
Fall(level) == level = 0 /\ prev = 1 /\ highSeen

ObserveEdge(level, t) ==
  \/ /\ Rise(level)
     /\ highSeen' = TRUE
     /\ firstHigh' = IF firstHigh = NoTime THEN t ELSE firstHigh
     /\ UNCHANGED <<firstLow, short, below, belowWindow, fallSeen>>
  \/ /\ Fall(level)
     /\ fallSeen' = TRUE
     /\ FallShort(t) \/ FallBelowPlan(t) \/ FallPlanned(t)
  \/ /\ ~Rise(level) /\ ~Fall(level)
     /\ UNCHANGED edgeVars

\* Mutant: the known low before GO is not carried into the segmenter input.
Retain_NoPriorLow(tick, level) ==
  samples' = samples \o <<<<tick, level>>>>

\* The retained samples.  If the first one after GO is already high, the low that
\* was read last before GO goes in front of it, so that its fall closes a window.
Retain(tick, level) ==
  LET prior == IF lastTick = NoTime THEN tick ELSE lastTick
      entry == IF samples = <<>> /\ Rise(level) THEN <<<<prior, 0>>>> ELSE <<>>
  IN  samples' = samples \o entry \o <<<<tick, level>>>>

\* Mutant: a verdict against completion leaves the completion time standing.
Confirm_KeepsCompletion(level, t, valid) ==
  completeAt' =
    IF completeAt # NoTime THEN completeAt
    ELSE IF requireDone
         THEN IF valid THEN t ELSE NoTime
         ELSE IF Fall(level) /\ t - firstHigh >= PlanFloor THEN t ELSE NoTime

\* Mutant: any high past the fixed minimum completes the capture.
Confirm_AtMinimum(level, t, valid) ==
  LET reached == IF requireDone THEN valid
                 ELSE completeAt # NoTime \/ (Fall(level) /\ t - firstHigh >= MinGate)
  IN  completeAt' = IF ~reached THEN NoTime
                    ELSE IF completeAt = NoTime THEN t ELSE completeAt

\* The completion time: without require_done_state it is set by the first fall of
\* a window the plan accepts; with it, each sample's verdict on the retained
\* streams sets, keeps or clears it.
Confirm(level, t, valid) ==
  LET reached == IF requireDone THEN valid
                 ELSE completeAt # NoTime \/ (Fall(level) /\ t - firstHigh >= PlanFloor)
  IN  completeAt' = IF ~reached THEN NoTime
                    ELSE IF completeAt = NoTime THEN t ELSE completeAt

\* guard_elapsed
CheckGuard(t) == early' = (completeAt' # NoTime /\ t - completeAt' >= Guard)

\* The two clocks differ where the difference is used: a verdict on the streams compares none.
Jitter == IF requireDone THEN 0 ELSE Lag

\* The sample is read at tick and observed at t.
Sampled(tick, t) ==
  /\ ~early
  /\ tick > lastTick /\ t >= tick /\ t - tick <= Jitter
  /\ t > now /\ t <= Horizon
  /\ now' = t /\ lastTick' = tick

Times == {<<i, now + d>> : i \in 0 .. now + MaxStep, d \in 1 .. MaxStep}

\* One poll before GO: pin levels are not protocol events.  The history restarts.
PollBeforeGo(tick, t, level, state) ==
  /\ ~go /\ Sampled(tick, t)
  /\ samples' = <<>> /\ prev' = level
  /\ highSeen' = FALSE /\ firstHigh' = NoTime /\ firstLow' = NoTime
  /\ acknowledged' = FALSE /\ gateSeen' = FALSE /\ pending' = FALSE
  /\ polls' = Append(polls, [t |-> t, tick |-> tick, level |-> level, state |-> state,
                             go |-> FALSE, valid |-> FALSE])
  /\ UNCHANGED <<requireDone, go, short, below, belowWindow, fallSeen, completeAt, early>>

\* One poll after GO: observe, then the verdict on the retained streams (asked for
\* only while completion is pending), then the settle guard.
PollAfterGo(tick, t, level, state, valid) ==
  /\ go /\ Sampled(tick, t)
  /\ ObserveCompletion(level, state)
  /\ valid => requireDone /\ pending'
  /\ Retain(tick, level)
  /\ ObserveEdge(level, t)
  /\ prev' = level
  /\ Confirm(level, t, valid)
  /\ CheckGuard(t)
  /\ polls' = Append(polls, [t |-> t, tick |-> tick, level |-> level, state |-> state,
                             go |-> TRUE, valid |-> valid])
  /\ UNCHANGED <<requireDone, go>>

\* A poll whose reading failed: no sample, but the guard is still looked at.
PollFails(t) ==
  /\ go /\ ~early
  /\ t > now /\ t <= Horizon
  /\ now' = t
  /\ UNCHANGED completeAt
  /\ CheckGuard(t)
  /\ UNCHANGED <<requireDone, go, prev, lastTick, samples, edgeVars, completionVars, polls>>

\* The start hook switches the phase, once.
SwitchPhase ==
  /\ ~go /\ ~early
  /\ go' = TRUE
  /\ UNCHANGED <<requireDone, now, prev, lastTick, samples, edgeVars, completionVars, completeAt,
                 early, polls>>

Next ==
  \/ SwitchPhase
  \/ \E time \in Times, level \in Levels, state \in States :
       \/ PollBeforeGo(time[1], time[2], level, state)
       \/ \E valid \in BOOLEAN : PollAfterGo(time[1], time[2], level, state, valid)
  \/ \E d \in 1 .. MaxStep : PollFails(now + d)

Spec == Init /\ [][Next]_vars
-----------------------------------------------------------------------------
\* The pulses of the history: <<i, j>> is a high that rose at sample i after GO and
\* fell at sample j.  A line already high at GO has no rise and is no pulse.
LevelBefore(i) == IF i = 1 THEN 0 ELSE polls[i - 1].level
RiseAt(i) == polls[i].go /\ polls[i].level = 1 /\ LevelBefore(i) = 0
Pulses ==
  {p \in (DOMAIN polls) \X (DOMAIN polls) :
     /\ p[1] < p[2] /\ RiseAt(p[1]) /\ polls[p[2]].level = 0
     /\ \A k \in p[1] .. p[2] - 1 : polls[k].level = 1}
Length(p) == polls[p[2]].t - polls[p[1]].t
Planned == {p \in Pulses : Length(p) >= PlanFloor}
\* Once a window the plan accepts is over, later highs no longer count as pulses.
Judged == {p \in Pulses : \A w \in Planned : p[1] <= w[1]}
TooShort == {p \in Judged : Length(p) < MinGate}
BelowPlan == {p \in Judged : Length(p) >= MinGate /\ Length(p) < PlanFloor}

\* The state of the control plane keeps its shape; a rise is never remembered
\* without a time, nor a fall without its rise (_GatedCaptureState.__init__).
TypeOK ==
  /\ requireDone \in Modes /\ now \in 0 .. Horizon /\ go \in BOOLEAN /\ prev \in Levels
  /\ lastTick \in Nat \cup {NoTime} /\ samples \in Seq(Nat \X Levels)
  /\ highSeen \in BOOLEAN /\ fallSeen \in BOOLEAN
  /\ firstHigh \in Nat \cup {NoTime} /\ firstLow \in Nat \cup {NoTime}
  /\ short \in Nat /\ below \in Nat
  /\ belowWindow \in (Nat \cup {NoTime}) \X (Nat \cup {NoTime})
  /\ acknowledged \in BOOLEAN /\ gateSeen \in BOOLEAN /\ pending \in BOOLEAN
  /\ completeAt \in Nat \cup {NoTime} /\ early \in BOOLEAN
  /\ highSeen <=> firstHigh # NoTime
  /\ firstLow # NoTime => firstHigh # NoTime

\* The evidence kept sample by sample (observe) is what one would read off the whole
\* history: each pulse after GO is judged once, by its own rise and fall, and the
\* remembered rise is that of the first planned window or of the high still open.
EvidenceIsHistory ==
  /\ short = Cardinality(TooShort)
  /\ below = Cardinality(BelowPlan)
  /\ belowWindow =
       IF BelowPlan = {} THEN <<NoTime, NoTime>>
       ELSE LET p == CHOOSE p \in BelowPlan : \A q \in BelowPlan : q[1] <= p[1]
            IN  <<polls[p[1]].t, polls[p[2]].t>>
  /\ firstHigh # NoTime =>
       \E i \in DOMAIN polls :
         /\ polls[i].t = firstHigh /\ RiseAt(i)
         /\ \/ \E w \in Planned : w[1] = i
            \/ \A k \in i .. Len(polls) : polls[k].level = 1
  /\ fallSeen <=> Pulses # {}

\* A capture stops early only with cause (confirm_completion, guard_elapsed): Guard
\* after the fall of a planned window, or, where DONE is required, Guard after a
\* sample from which on every verdict was for completion, and which READY low and
\* then the gate high preceded since GO.
EarlyStopJustified ==
  early =>
    IF ~requireDone
    THEN \E w \in Planned : now - polls[w[2]].t >= Guard
    ELSE \E i, j, k \in DOMAIN polls :
           /\ i <= j /\ j < k
           /\ polls[i].go /\ polls[i].state = 0
           /\ polls[j].level = 1
           /\ polls[k].state = 1 /\ polls[k].level = 0
           /\ now - polls[k].t >= Guard
           /\ \A l \in k .. Len(polls) : polls[l].valid

\* _segment_gpi_windows: the rises and falls of the retained samples, paired.
Windows(s) ==
  {<<s[w[1]][1], s[w[2]][1]>> : w \in
     {p \in (2 .. Len(s)) \X (2 .. Len(s)) :
        /\ p[1] < p[2]
        /\ s[p[1]][2] = 1 /\ s[p[1] - 1][2] = 0 /\ s[p[2]][2] = 0
        /\ \A k \in p[1] .. p[2] - 1 : s[k][2] = 1}}

\* When the capture stops early for a window, the samples it kept hold one: the
\* segmentation the result falls back to finds a window no shorter than the plan
\* accepts, up to the lag between the two clocks, also if GO fell between two polls.
SamplesHoldTheWindow ==
  early /\ ~requireDone =>
    \E w \in Windows(samples) : w[2] - w[1] >= PlanFloor - Lag

\* The evidence is well formed and says of every pulse what the samples handed over so far show.
EvidenceIsSound == TypeOK /\ EvidenceIsHistory

\* The capture stops early only with cause, and then holds the samples of its window.
EarlyStopIsSound == EarlyStopJustified /\ SamplesHoldTheWindow
-----------------------------------------------------------------------------
(* Why: the invariant the proofs rest on.  The evidence is kept poll by poll; each part says *)
(* what it is of all the polls there have been.                                             *)

Poll == [t : Nat, tick : Nat, level : Levels, state : Levels, go : BOOLEAN, valid : BOOLEAN]

\* A high that rose at sample i and has not fallen.
OpenSince(i) == RiseAt(i) /\ \A k \in i .. Len(polls) : polls[k].level = 1

\* Time and the phase only go forward, and the level before is the last sample's.
PollsInOrder ==
  /\ polls \in Seq(Poll) /\ prev = LevelBefore(Len(polls) + 1)
  /\ \A i \in DOMAIN polls :
       /\ polls[i].t <= now /\ polls[i].tick <= polls[i].t
       /\ polls[i].t - polls[i].tick <= Jitter
       /\ polls[i].go => go
  /\ \A i, j \in DOMAIN polls : i < j => polls[i].t < polls[j].t /\ (polls[i].go => polls[j].go)

\* The remembered rise is that of the high still open, and from the first planned window on
\* that window's for good.
RiseIsRemembered ==
  /\ Planned # {} \/ (\E i \in DOMAIN polls : OpenSince(i)) => firstHigh # NoTime
  /\ firstHigh # NoTime =>
       \E i \in DOMAIN polls :
         /\ polls[i].t = firstHigh /\ RiseAt(i)
         /\ Planned = {} => OpenSince(i)
         /\ Planned # {} => (\E w \in Planned : w[1] = i) /\ (\A w \in Planned : i <= w[1])
  /\ firstLow # NoTime => Planned # {}

\* Every pulse is counted once, and the last one below the plan is kept.
PulsesAreCounted ==
  /\ short = Cardinality(TooShort) /\ below = Cardinality(BelowPlan)
  /\ BelowPlan = {} => belowWindow = <<NoTime, NoTime>>
  /\ BelowPlan # {} =>
       \E p \in BelowPlan : /\ \A q \in BelowPlan : q[1] <= p[1]
                            /\ belowWindow = <<polls[p[1]].t, polls[p[2]].t>>
  /\ fallSeen <=> Pulses # {}

\* READY low and then the gate high came after GO; completion stands since a sample that had
\* cause for it.
Completes(i, j, k) ==
  /\ i <= j /\ j < k /\ polls[i].go /\ polls[i].state = 0 /\ polls[j].level = 1
  /\ polls[k].state = 1 /\ polls[k].level = 0 /\ polls[k].t = completeAt
  /\ \A l \in k .. Len(polls) : polls[l].valid

CompletionHasCause ==
  /\ acknowledged => \E i \in DOMAIN polls : polls[i].go /\ polls[i].state = 0
  /\ gateSeen =>
       \E i, j \in DOMAIN polls :
         i <= j /\ polls[i].go /\ polls[i].state = 0 /\ polls[j].level = 1
  /\ completeAt # NoTime => go
  /\ completeAt # NoTime /\ requireDone => \E i, j, k \in DOMAIN polls : Completes(i, j, k)
  /\ completeAt # NoTime /\ ~requireDone => \E w \in Planned : polls[w[2]].t = completeAt
  /\ ~requireDone /\ Planned # {} => completeAt # NoTime
  /\ early => completeAt # NoTime /\ now - completeAt >= Guard

\* The retained samples end with the polls since GO, a low in front of the first rise.
Kept(k) == k + Len(samples) - Len(polls)
SamplesArePolls ==
  /\ samples = <<>> => \A k \in DOMAIN polls : ~polls[k].go
  /\ samples # <<>> => Len(polls) > 0 /\ polls[Len(polls)].go
  /\ \A k \in DOMAIN polls :
       polls[k].go =>
         /\ Kept(k) >= 1 /\ samples[Kept(k)] = <<polls[k].tick, polls[k].level>>
         /\ RiseAt(k) => Kept(k) >= 2 /\ samples[Kept(k) - 1][2] = 0

GateIInv ==
  TypeOK /\ PollsInOrder /\ RiseIsRemembered /\ PulsesAreCounted /\ CompletionHasCause /\ SamplesArePolls
=============================================================================
